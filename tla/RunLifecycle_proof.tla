------------------------- MODULE RunLifecycle_proof -------------------------
(***************************************************************************)
(* Theorems about RunLifecycle for every set of workers:                   *)
(*   - TypeCorrect and CancelledOnlyIfAskedAlways, whatever may fail and   *)
(*     however often the run is delivered;                                 *)
(*   - EventsAlwaysBracketed, if no append to the log fails, however often *)
(*     the run is delivered;                                               *)
(*   - RowAlwaysCoherent and TerminalStaysFinal, for a run that is         *)
(*     delivered once, whatever fails;                                     *)
(*   - StatusRefinesFSM, EndsAlwaysFromRunning and                         *)
(*     FinishedEventAlwaysMatchesRow, if in addition no write to the row   *)
(*     fails;                                                              *)
(*   - SessionAlwaysTracksRun, if in addition Redis is there and fails as  *)
(*     little, and the event loop is not blocked.                          *)
(***************************************************************************)
EXTENDS RunLifecycle, TLAPS

USE DEF execVars, redisVars, dbVars, history

-----------------------------------------------------------------------------
(* Types                                                                   *)

\* The state that fire() leads to is one of WorkflowRunStatus.
LEMMA FireEventType ==
  ASSUME NEW s \in RunStatus, NEW e \in Event
  PROVE  FireEvent(s, e) \in RunStatus
BY DEF FireEvent, CanFire, Source, Target, RunStatus, Terminal, Event

\* run() fires only terminal events of WorkflowRunSM once the pipeline ended.
LEMMA TerminalEventType ==
  ASSUME NEW o \in PipelineEnd
  PROVE  TerminalEvent(o) \in {"finish", "fail", "cancel"}
BY DEF TerminalEvent, PipelineEnd

\* At "cleared" the outcome is known: what Finalize writes is well typed.
Progress ==
  \A w \in Worker :
    /\ pc[w] \in {"ended", "released", "cleared", "finalized", "done"}
         => outcome[w] \in PipelineEnd
    /\ pc[w] = "idle" => outcome[w] = "none"

TypeInv == TypeOK /\ Progress

LEMMA TypeInit == Init => TypeInv
<1> SUFFICES ASSUME Init PROVE TypeInv
  OBVIOUS
<1>1. PICK s \in {"absent", "pending"} :
        row = [status |-> s, worker |-> NoWorker, finished |-> FALSE,
               verdict |-> FALSE, code |-> "none"]
  BY DEF Init
<1>2. row \in Row
  BY <1>1 DEF Row, RunStatus, ErrorCode
<1>3. events \in Seq(LogEntry)
  BY DEF Init
<1>4. QED
  BY <1>2, <1>3 DEF Init, TypeInv, TypeOK, Progress, Stage, Outcome, RunStatus


\* Each step of a worker, and each expiry, keeps the types.
LEMMA TypeStep == TypeInv /\ [Next]_vars => TypeInv'
<1> SUFFICES ASSUME TypeInv, [Next]_vars PROVE TypeInv'
  OBVIOUS
<1> USE DEF TypeInv, TypeOK, Goto, Succeeds
<1>1. ASSUME NEW w \in Worker, Create(w) PROVE TypeInv'
  <2>1. row' \in Row
    BY <1>1 DEF Create, Row, RunStatus
  <2>2. QED
    BY <1>1, <2>1 DEF Create, Progress, Stage
<1>2. ASSUME NEW w \in Worker, MarkRunning(w) PROVE TypeInv'
  <2>1. FireEvent("pending", "start") \in RunStatus
    BY FireEventType DEF RunStatus, Event
  <2>2. row' \in Row
    BY <1>2, <2>1 DEF MarkRunning, UpdateRow, Row
  <2>3. QED
    BY <1>2, <2>1, <2>2 DEF MarkRunning, Progress, Stage
<1>3. ASSUME NEW w \in Worker, Register(w) PROVE TypeInv'
  BY <1>3 DEF Register, Progress, Stage
<1>4. ASSUME NEW w \in Worker, Announce(w) PROVE TypeInv'
  <2>1. [type |-> "run_started", worker |-> w, status |-> sm[w]] \in LogEntry
    BY DEF LogEntry
  <2>2. events' \in Seq(LogEntry)
    BY <1>4, <2>1 DEF Announce, Emit
  <2>3. QED
    BY <1>4, <2>2 DEF Announce, Progress, Stage
<1>5. ASSUME NEW w \in Worker, Heartbeat(w) PROVE TypeInv'
  <2>1. row' \in Row
    BY <1>5 DEF Heartbeat, UpdateRow, Row
  <2>2. QED
    BY <1>5, <2>1 DEF Heartbeat, Progress
<1>6. ASSUME NEW w \in Worker, CheckStop(w) PROVE TypeInv'
  <2>1. PICK ok \in BOOLEAN : RoundEnds(w, stopLocal[w] \/ (HasRedis /\ ok /\ stopKey))
    BY <1>6 DEF CheckStop
  <2>2. DEFINE stopped == stopLocal[w] \/ (HasRedis /\ ok /\ stopKey)
  <2>3. stopped \in BOOLEAN
    BY RunAssumption
  <2> HIDE DEF stopped
  <2>4. RoundEnds(w, stopped)
    BY <2>1 DEF stopped
  <2>5. QED
    BY <2>3, <2>4 DEF RoundEnds, Progress
<1>7. ASSUME NEW w \in Worker, NEW o \in PipelineEnd, End(w, o),
             interrupted' \in {interrupted, TRUE}
      PROVE  TypeInv'
  BY <1>7 DEF End, Progress, Stage, Outcome
<1>8. ASSUME NEW w \in Worker, Release(w) PROVE TypeInv'
  BY <1>8 DEF Release, Progress, Stage
<1>9. ASSUME NEW w \in Worker, ClearStop(w) PROVE TypeInv'
  BY <1>9 DEF ClearStop, Progress, Stage
<1>10. ASSUME NEW w \in Worker, Finalize(w) PROVE TypeInv'
  <2> DEFINE s == FireEvent(sm[w], TerminalEvent(outcome[w]))
  <2>1. s \in RunStatus
    BY <1>10, FireEventType, TerminalEventType DEF Finalize, Close, Progress, Event
  <2> HIDE DEF s
  <2>2. Close(w, s) /\ sm' = [sm EXCEPT ![w] = s]
    BY <1>10 DEF Finalize, Close, s
  <2>3. row' \in Row
    <3>1. CodeOf(outcome[w], row.code) \in ErrorCode
      BY DEF CodeOf, ErrorCode, Row
    <3> DEFINE closed == [row EXCEPT
          !.status   = s,
          !.finished = TRUE,
          !.verdict  = IF outcome[w] = "finish" THEN TRUE ELSE @,
          !.code     = CodeOf(outcome[w], @)]
    <3>2. closed \in Row
      BY <2>1, <3>1 DEF Row
    <3>3. row' \in {row, closed}
      BY <2>2 DEF Close, UpdateRow
    <3>4. QED
      BY <3>2, <3>3
  <2>4. QED
    BY <2>1, <2>2, <2>3 DEF Close, Progress, Stage
<1>11. ASSUME NEW w \in Worker, EmitFinished(w) PROVE TypeInv'
  <2>1. [type |-> "run_finished", worker |-> w, status |-> sm[w]] \in LogEntry
    BY DEF LogEntry
  <2>2. events' \in Seq(LogEntry)
    BY <1>11, <2>1 DEF EmitFinished, Emit
  <2>3. QED
    BY <1>11, <2>2 DEF EmitFinished, Progress, Stage
<1>12. ASSUME NEW w \in Worker, RequestStop(w) PROVE TypeInv'
  BY <1>12, RunAssumption DEF RequestStop, Progress
<1>13. ASSUME NEW w \in Worker, LocalStopExpires(w) PROVE TypeInv'
  BY <1>13 DEF LocalStopExpires, Progress
<1>14. ASSUME NEW w \in Worker, Die(w) \/ CancelSwallowed(w) PROVE TypeInv'
  BY <1>14 DEF Die, CancelSwallowed, Progress, Stage
<1>15. CASE StopKeyExpires
  BY <1>15 DEF StopKeyExpires, Progress
<1>16. CASE SessionExpires
  BY <1>16 DEF SessionExpires, Progress
<1>17. CASE UNCHANGED vars
  BY <1>17 DEF vars, Progress
<1>18. QED
  BY <1>1, <1>2, <1>3, <1>4, <1>5, <1>6, <1>7, <1>8, <1>9, <1>10, <1>11, <1>12,
     <1>13, <1>14, <1>15, <1>16, <1>17
     DEF Next, WorkerStep, RunStep, MonitorStep, PipelineStep, PipelineEnds,
         GlobalTimeout, PipelineCancelled, CancelledOutside, PipelineEnd

\* Type correctness of the lifecycle, for every set of workers and whatever
\* fails.
THEOREM TypeCorrect == Spec => []TypeOK
<1>1. TypeInv => TypeOK
  BY DEF TypeInv
<1>2. QED
  BY TypeInit, TypeStep, <1>1, PTL DEF Spec

-----------------------------------------------------------------------------
(* Nothing is cancelled unasked                                            *)

Asked == stopAsked \/ interrupted

\* Where a cancellation can come from: the flag in Redis, its local copies,
\* the monitor's cancel(), the outcome, the machine and at last the row.
StopInv ==
  /\ stopKey => stopAsked
  /\ \A w \in Worker : stopLocal[w] => stopAsked
  /\ \A w \in Worker : cancelling[w] => stopAsked
  /\ \A w \in Worker : outcome[w] = "cancel" => Asked
  /\ \A w \in Worker : sm[w] = "cancelled" => Asked
  /\ CancelledOnlyIfAsked

LEMMA StopInit == Init => StopInv
BY DEF Init, StopInv, Asked, CancelledOnlyIfAsked

\* fire() reaches "cancelled" only by the event cancel, which only the
\* outcome cancel fires.
LEMMA CancelledComesFromCancel ==
  ASSUME NEW o \in PipelineEnd, NEW s \in RunStatus,
         FireEvent(s, TerminalEvent(o)) = "cancelled"
  PROVE  s = "cancelled" \/ o = "cancel"
BY DEF FireEvent, CanFire, Source, Target, TerminalEvent, PipelineEnd, Event

LEMMA StopStep == TypeInv /\ StopInv /\ [Next]_vars => StopInv'
<1> SUFFICES ASSUME TypeInv, StopInv, [Next]_vars PROVE StopInv'
  OBVIOUS
<1> USE DEF StopInv, Asked, CancelledOnlyIfAsked, TypeInv, TypeOK, Goto
<1>1. ASSUME NEW w \in Worker, Create(w) PROVE StopInv'
  BY <1>1 DEF Create, Row
<1>2. ASSUME NEW w \in Worker, MarkRunning(w) PROVE StopInv'
  <2>1. sm'[w] = "running"
    BY <1>2 DEF MarkRunning, FireEvent, CanFire, Source, Target, Event
  <2>2. row'.status \in {row.status, "running"}
    BY <1>2, <2>1 DEF MarkRunning, UpdateRow, Row
  <2>3. QED
    BY <1>2, <2>1, <2>2 DEF MarkRunning
<1>3. ASSUME NEW w \in Worker, Register(w) PROVE StopInv'
  BY <1>3 DEF Register
<1>4. ASSUME NEW w \in Worker, Announce(w) PROVE StopInv'
  BY <1>4 DEF Announce
<1>5. ASSUME NEW w \in Worker, Heartbeat(w) PROVE StopInv'
  <2>1. row'.status = row.status
    BY <1>5 DEF Heartbeat, UpdateRow, Row
  <2>2. QED
    BY <1>5, <2>1 DEF Heartbeat
<1>6. ASSUME NEW w \in Worker, CheckStop(w) PROVE StopInv'
  BY <1>6 DEF CheckStop, RoundEnds
<1>7. ASSUME NEW w \in Worker, PipelineStep(w) \/ CancelledOutside(w) PROVE StopInv'
  <2>1. \E o \in PipelineEnd :
          End(w, o) /\ (o = "cancel" => stopAsked \/ interrupted') /\ (interrupted => interrupted')
    BY <1>7 DEF PipelineStep, PipelineEnds, GlobalTimeout, PipelineCancelled,
                CancelledOutside, PipelineEnd
  <2>2. QED
    BY <2>1 DEF End
<1>8. ASSUME NEW w \in Worker, Release(w) \/ EmitFinished(w) PROVE StopInv'
  BY <1>8 DEF Release, EmitFinished
<1>9. ASSUME NEW w \in Worker, ClearStop(w) PROVE StopInv'
  BY <1>9 DEF ClearStop
<1>10. ASSUME NEW w \in Worker, Finalize(w) PROVE StopInv'
  <2> DEFINE s == FireEvent(sm[w], TerminalEvent(outcome[w]))
  <2>1. s = "cancelled" => Asked
    BY <1>10, CancelledComesFromCancel DEF Finalize, Close, Progress
  <2> HIDE DEF s
  <2>2. Close(w, s) /\ sm' = [sm EXCEPT ![w] = s]
    BY <1>10 DEF Finalize, Close, s
  <2>3. row'.status \in {row.status, s}
    BY <2>2 DEF Close, UpdateRow, Row
  <2>4. QED
    BY <2>1, <2>2, <2>3 DEF Close
<1>11. ASSUME NEW w \in Worker, RequestStop(w) PROVE StopInv'
  BY <1>11 DEF RequestStop
<1>12. ASSUME NEW w \in Worker, LocalStopExpires(w) \/ Die(w) \/ CancelSwallowed(w)
       PROVE  StopInv'
  BY <1>12 DEF LocalStopExpires, Die, CancelSwallowed
<1>13. CASE StopKeyExpires \/ SessionExpires \/ UNCHANGED vars
  BY <1>13 DEF StopKeyExpires, SessionExpires, vars
<1>14. QED
  BY <1>1, <1>2, <1>3, <1>4, <1>5, <1>6, <1>7, <1>8, <1>9, <1>10, <1>11, <1>12,
     <1>13 DEF Next, WorkerStep, RunStep, MonitorStep

\* Whatever fails and however often the run is delivered, the row says
\* "cancelled" only if somebody asked for a stop or cancelled run() itself.
THEOREM CancelledOnlyIfAskedAlways == Spec => []CancelledOnlyIfAsked
<1>1. StopInv => CancelledOnlyIfAsked
  BY DEF StopInv
<1>2. QED
  BY TypeInit, TypeStep, StopInit, StopStep, <1>1, PTL DEF Spec

-----------------------------------------------------------------------------
(* A run that is delivered once                                            *)

\* The row is untouched by Finalize until the one worker has passed it (or
\* died, perhaps after it).
StageOfMachine ==
  \A w \in Worker :
    pc[w] \in {"marked", "registered", "running", "ended", "released", "cleared"}
      => sm[w] = "running"

Blank == /\ ~row.finished /\ ~row.verdict /\ row.code = "none"
         /\ row.status \notin Terminal

BlankUntilFinal ==
  (\A w \in Worker : pc[w] \notin {"finalized", "done", "dead"}) => Blank

RowInv == Alone /\ StageOfMachine /\ BlankUntilFinal /\ RowCoherent

LEMMA RowInit == Init => RowInv
<1> SUFFICES ASSUME Init PROVE RowInv
  OBVIOUS
<1>1. Blank
  BY DEF Init, Blank, Terminal
<1>2. QED
  BY <1>1 DEF Init, RowInv, Alone, StageOfMachine, BlankUntilFinal, Blank,
              RowCoherent, Terminal

\* What fire() makes of a running machine when the pipeline has ended.
LEMMA ClosingStatus ==
  ASSUME NEW o \in PipelineEnd
  PROVE  /\ FireEvent("running", TerminalEvent(o)) \in Terminal
         /\ FireEvent("running", TerminalEvent(o)) = "success" <=> o = "finish"
         /\ FireEvent("running", TerminalEvent(o)) = "cancelled" <=> o = "cancel"
         /\ FireEvent("running", TerminalEvent(o)) = "failed" <=> o \in {"fail", "silent", "timeout"}
BY DEF FireEvent, CanFire, Source, Target, TerminalEvent, PipelineEnd, Event, Terminal

LEMMA RowStepAlone == TypeInv /\ RowInv /\ [Next]_vars /\ Alone' => RowInv'
<1> SUFFICES ASSUME TypeInv, RowInv, [Next]_vars, Alone' PROVE RowInv'
  OBVIOUS
<1> USE DEF RowInv, TypeInv, TypeOK, Goto
<1>1. ASSUME NEW w \in Worker, Create(w) PROVE RowInv'
  <2>1. (\A v \in Worker : pc[v] = "idle") /\ Blank
    <3>1. \A v \in Worker : pc'[v] = IF v = w THEN "created" ELSE pc[v]
      BY <1>1 DEF Create
    <3>2. \A v \in Worker : pc[v] = "idle"
      BY <1>1, <3>1 DEF Create, Alone
    <3> QED
      BY <3>2 DEF BlankUntilFinal
  <2>2. Blank'
    BY <1>1, <2>1 DEF Create, Blank, Row, Terminal
  <2>3. RowCoherent'
    BY <2>2 DEF Blank, RowCoherent, Terminal
  <2>4. QED
    BY <1>1, <2>1, <2>2, <2>3 DEF Create, Alone, StageOfMachine, BlankUntilFinal
<1>2. ASSUME NEW w \in Worker, MarkRunning(w) PROVE RowInv'
  <2>1. sm'[w] = "running"
    BY <1>2 DEF MarkRunning, FireEvent, CanFire, Source, Target, Event
  <2>2. Blank
    BY <1>2 DEF MarkRunning, BlankUntilFinal, Alone
  <2>3. Blank'
    BY <1>2, <2>1, <2>2 DEF MarkRunning, UpdateRow, Blank, Row, Terminal
  <2>4. RowCoherent'
    BY <2>3 DEF Blank, RowCoherent, Terminal
  <2>5. QED
    BY <1>2, <2>1, <2>3, <2>4 DEF MarkRunning, Alone, StageOfMachine, BlankUntilFinal
<1>3. ASSUME NEW w \in Worker, Register(w) \/ Announce(w) PROVE RowInv'
  BY <1>3 DEF Register, Announce, Alone, StageOfMachine, BlankUntilFinal, Blank, RowCoherent
<1>4. ASSUME NEW w \in Worker, Heartbeat(w) PROVE RowInv'
  <2>1. \/ row' = row
        \/ row' = [row EXCEPT !.worker = w]
    BY <1>4 DEF Heartbeat, UpdateRow
  <2>2. /\ row'.status = row.status /\ row'.finished = row.finished
        /\ row'.verdict = row.verdict /\ row'.code = row.code
    BY <2>1 DEF Row
  <2>3. QED
    BY <1>4, <2>2 DEF Heartbeat, Alone, StageOfMachine, BlankUntilFinal, Blank, RowCoherent
<1>5. ASSUME NEW w \in Worker, CheckStop(w) PROVE RowInv'
  BY <1>5 DEF CheckStop, RoundEnds, Alone, StageOfMachine, BlankUntilFinal, Blank, RowCoherent
<1>6. ASSUME NEW w \in Worker, NEW o \in PipelineEnd, End(w, o) PROVE RowInv'
  <2>1. Blank /\ row' = row
    BY <1>6 DEF End, BlankUntilFinal, Alone
  <2>2. RowCoherent'
    BY <2>1 DEF Blank, RowCoherent, Terminal
  <2>3. QED
    BY <1>6, <2>1, <2>2 DEF End, Alone, StageOfMachine, BlankUntilFinal, Blank
<1>7. ASSUME NEW w \in Worker, Release(w) \/ ClearStop(w) PROVE RowInv'
  <2>1. CASE Release(w)
    BY <2>1 DEF Release, Alone, StageOfMachine, BlankUntilFinal, Blank, RowCoherent
  <2>2. CASE ClearStop(w)
    BY <2>2 DEF ClearStop, Alone, StageOfMachine, BlankUntilFinal, Blank, RowCoherent
  <2>3. QED
    BY <1>7, <2>1, <2>2
<1>8. ASSUME NEW w \in Worker, Finalize(w) PROVE RowInv'
  <2>1. Blank /\ sm[w] = "running" /\ outcome[w] \in PipelineEnd
    BY <1>8 DEF Finalize, Close, BlankUntilFinal, Alone, StageOfMachine, Progress
  <2> DEFINE s == FireEvent("running", TerminalEvent(outcome[w]))
  <2>2. /\ s \in Terminal
        /\ s = "success" <=> outcome[w] = "finish"
        /\ s = "cancelled" <=> outcome[w] = "cancel"
        /\ s = "failed" <=> outcome[w] \in {"fail", "silent", "timeout"}
    BY <2>1, ClosingStatus
  <2>3. Close(w, s)
    BY <1>8, <2>1 DEF Finalize
  <2> HIDE DEF s
  <2>4. RowCoherent'
    <3>1. CASE row' = row
      BY <2>1, <3>1 DEF Blank, RowCoherent, Terminal
    <3>2. CASE /\ row'.status = s /\ row'.finished
               /\ row'.verdict = (outcome[w] = "finish")
               /\ row'.code = CodeOf(outcome[w], "none")
      <4>1. \A v \in Worker : v # w => outcome[v] = "none"
        BY <1>8 DEF Finalize, Close, Alone, Progress
      <4>2. outcome' = outcome
        BY <2>3 DEF Close
      <4>3. (\A v \in Worker : outcome'[v] # "silent") <=> outcome[w] # "silent"
        BY <4>1, <4>2
      <4> QED
        BY <2>1, <2>2, <3>2, <4>3 DEF RowCoherent, CodeOf, Terminal, PipelineEnd
    <3> DEFINE c == CodeOf(outcome[w], row.code)
    <3>3. \/ row' = row
          \/ row' = [row EXCEPT !.status   = s,
                                !.finished = TRUE,
                                !.verdict  = IF outcome[w] = "finish" THEN TRUE ELSE @,
                                !.code     = c]
      BY <2>3 DEF Close, UpdateRow
    <3>4. c = CodeOf(outcome[w], "none")
      BY <2>1 DEF Blank
    <3> HIDE DEF c
    <3>5. \/ row' = row
          \/ /\ row'.status = s /\ row'.finished
             /\ row'.verdict = (outcome[w] = "finish") /\ row'.code = c
      BY <2>1, <3>3 DEF Row, Blank
    <3>6. QED
      BY <3>1, <3>2, <3>4, <3>5
  <2>5. QED
    BY <2>3, <2>4 DEF Close, Alone, StageOfMachine, BlankUntilFinal
<1>9. ASSUME NEW w \in Worker, EmitFinished(w) PROVE RowInv'
  BY <1>9 DEF EmitFinished, Alone, StageOfMachine, BlankUntilFinal, Blank, RowCoherent
<1>10. ASSUME NEW w \in Worker, RequestStop(w) \/ LocalStopExpires(w) PROVE RowInv'
  BY <1>10 DEF RequestStop, LocalStopExpires, Alone, StageOfMachine, BlankUntilFinal,
               Blank, RowCoherent
<1>11. ASSUME NEW w \in Worker, Die(w) \/ CancelSwallowed(w) PROVE RowInv'
  BY <1>11 DEF Die, CancelSwallowed, Alone, StageOfMachine, BlankUntilFinal, Blank,
               RowCoherent
<1>12. CASE StopKeyExpires \/ SessionExpires \/ UNCHANGED vars
  BY <1>12 DEF StopKeyExpires, SessionExpires, vars, Alone, StageOfMachine,
               BlankUntilFinal, Blank, RowCoherent
<1>13. QED
  BY <1>1, <1>2, <1>3, <1>4, <1>5, <1>6, <1>7, <1>8, <1>9, <1>10, <1>11, <1>12
     DEF Next, WorkerStep, RunStep, MonitorStep, PipelineStep, PipelineEnds,
         GlobalTimeout, PipelineCancelled, CancelledOutside, PipelineEnd

\* An execution that has begun stays begun: who is alone has always been.
LEMMA AloneBefore == TypeInv /\ [Next]_vars /\ Alone' => Alone
<1> SUFFICES ASSUME TypeInv, [Next]_vars PROVE \A w \in Worker : pc'[w] = "idle" => pc[w] = "idle"
  BY DEF Alone
<1> USE DEF TypeInv, TypeOK, Goto
<1>1. ASSUME NEW w \in Worker, WorkerStep(w)
      PROVE  \A v \in Worker : pc'[v] = "idle" => pc[v] = "idle"
  BY <1>1 DEF WorkerStep, Create, RunStep, MarkRunning, Register, Announce, Release, ClearStop,
     Finalize, Close, EmitFinished, MonitorStep, Heartbeat, CheckStop, RoundEnds, PipelineStep,
     PipelineEnds, GlobalTimeout, PipelineCancelled, End, CancelSwallowed, CancelledOutside, Die,
     RequestStop, LocalStopExpires
<1>2. CASE StopKeyExpires \/ SessionExpires \/ UNCHANGED vars
  BY <1>2 DEF StopKeyExpires, SessionExpires, vars
<1>3. QED
  BY <1>1, <1>2 DEF Next

\* And a run that is delivered once has one execution.
LEMMA AloneStep == ~Redelivery /\ TypeInv /\ Alone /\ [Next]_vars => Alone'
<1> SUFFICES ASSUME ~Redelivery, TypeInv, Alone, [Next]_vars PROVE Alone'
  OBVIOUS
<1> USE DEF TypeInv, TypeOK, Goto, Alone
<1>1. ASSUME NEW w \in Worker, Create(w) PROVE Alone'
  BY <1>1 DEF Create
<1>2. ASSUME NEW w \in Worker, RunStep(w) \/ MonitorStep(w) PROVE Alone'
  BY <1>2 DEF RunStep, MarkRunning, Register, Announce, Release, ClearStop, Finalize, Close,
     EmitFinished, MonitorStep, Heartbeat, CheckStop, RoundEnds
<1>3. ASSUME NEW w \in Worker,
             \/ PipelineStep(w) \/ CancelSwallowed(w) \/ CancelledOutside(w) \/ Die(w)
             \/ RequestStop(w) \/ LocalStopExpires(w)
      PROVE  Alone'
  BY <1>3 DEF PipelineStep, PipelineEnds, GlobalTimeout, PipelineCancelled, End, CancelSwallowed,
     CancelledOutside, Die, RequestStop, LocalStopExpires
<1>4. CASE StopKeyExpires \/ SessionExpires \/ UNCHANGED vars
  BY <1>4 DEF StopKeyExpires, SessionExpires, vars
<1>5. QED
  BY <1>1, <1>2, <1>3, <1>4 DEF Next, WorkerStep

LEMMA RowStep == ~Redelivery /\ TypeInv /\ RowInv /\ [Next]_vars => RowInv'
BY RowStepAlone, AloneStep DEF RowInv

\* A run never has a row that contradicts itself, wherever it is interrupted and
\* whichever database or Redis calls fail, until a second execution begins; and a
\* failed one has its error code unless the exception that failed it had no text.
THEOREM RowAlwaysCoherent == Spec => []RowCoherent
<1>1. Init => (Alone => RowInv)
  BY RowInit
<1>2. TypeInv /\ (Alone => RowInv) /\ [Next]_vars => (Alone => RowInv)'
  BY RowStepAlone, AloneBefore
<1>3. (Alone => RowInv) => RowCoherent
  BY DEF RowInv, RowCoherent
<1>4. QED
  BY TypeInit, TypeStep, <1>1, <1>2, <1>3, PTL DEF Spec

-----------------------------------------------------------------------------
(* A run that is delivered once, over a database that does not fail        *)

Open == row.status \in {"absent", "pending"}

\* The status column keeps up with the one worker.
ColumnKeepsUp ==
  /\ (\A w \in Worker : pc[w] = "idle") => Open
  /\ \A w \in Worker : pc[w] = "created" => row.status = "pending"
  /\ \A w \in Worker :
       pc[w] \in {"marked", "registered", "running", "ended", "released", "cleared"}
         => row.status = "running"

\* The status as the abstract machine sees it.
Seen == IF row.status = "absent" THEN "pending" ELSE row.status

LEMMA ColumnInit == Init => ColumnKeepsUp /\ FSM!Init
<1> SUFFICES ASSUME Init PROVE ColumnKeepsUp /\ FSM!Init
  OBVIOUS
<1>1. PICK s \in {"absent", "pending"} :
        row = [status |-> s, worker |-> NoWorker, finished |-> FALSE,
               verdict |-> FALSE, code |-> "none"]
  BY DEF Init
<1>2. row.status \in {"absent", "pending"}
  BY <1>1
<1>3. QED
  BY <1>2 DEF Init, ColumnKeepsUp, Open, FSM!Init

\* Firing an event that the status admits is a step of the abstract machine.
LEMMA FireIsFSMStep ==
  ASSUME NEW e \in Event, CanFire(Seen, e), Seen' = FireEvent(Seen, e)
  PROVE  FSM!Next
BY DEF FSM!Next, FSM!Fire, Seen, FSM!Event, FSM!CanFire, FSM!FireEvent, CanFire, FireEvent,
       FSM!Source, FSM!Target, Source, Target, FSM!Terminal, FSM!RunStatus, Event

LEMMA ColumnStep ==
  ASSUME ~Redelivery, ~RowFaults, TypeInv, RowInv, ColumnKeepsUp, [Next]_vars
  PROVE  ColumnKeepsUp' /\ (FSM!Next \/ Seen' = Seen)
<1> DEFINE Goal == ColumnKeepsUp' /\ (FSM!Next \/ Seen' = Seen)
<1> USE DEF TypeInv, TypeOK, Goto
<1>1. ASSUME NEW w \in Worker, Create(w) PROVE Goal
  <2>1. row'.status = "pending" /\ row.status \in {"absent", "pending"}
    BY <1>1 DEF Create, Succeeds, ColumnKeepsUp, Open, Row
  <2>2. Seen' = Seen
    BY <2>1 DEF Seen
  <2>3. ColumnKeepsUp'
    BY <1>1, <2>1 DEF Create, ColumnKeepsUp, Open
  <2>4. QED
    BY <2>2, <2>3
<1>2. ASSUME NEW w \in Worker, MarkRunning(w) PROVE Goal
  <2>1. FireEvent("pending", "start") = "running" /\ CanFire("pending", "start")
    BY DEF FireEvent, CanFire, Source, Target, Event
  <2>2. row.status = "pending" /\ row'.status = "running"
    BY <1>2, <2>1 DEF MarkRunning, UpdateRow, Succeeds, ColumnKeepsUp, Row
  <2>3. FSM!Next
    BY <2>1, <2>2, FireIsFSMStep DEF Seen, Event
  <2>4. ColumnKeepsUp'
    BY <1>2, <2>2 DEF MarkRunning, ColumnKeepsUp, Open, RowInv, Alone
  <2>5. QED
    BY <2>3, <2>4
<1>3. ASSUME NEW w \in Worker, Finalize(w) PROVE Goal
  <2> DEFINE o == outcome[w]
             s == FireEvent("running", TerminalEvent(o))
  <2>1. /\ row.status = "running"
        /\ sm[w] = "running"
        /\ o \in PipelineEnd
    BY <1>3 DEF Finalize, Close, ColumnKeepsUp, RowInv, StageOfMachine, Progress
  <2>2. s \in Terminal
    BY <2>1, ClosingStatus
  <2>3. Close(w, s)
    BY <1>3, <2>1 DEF Finalize
  <2>4. TerminalEvent(o) \in Event /\ CanFire("running", TerminalEvent(o))
    BY <2>1, TerminalEventType DEF CanFire, Source, Event
  <2> HIDE DEF s
  <2>5. row'.status = s
    BY <2>1, <2>3 DEF Close, UpdateRow, Succeeds, Row
  <2>6. FSM!Next
    BY <2>1, <2>2, <2>4, <2>5, FireIsFSMStep DEF Seen, s, Terminal
  <2>7. ColumnKeepsUp'
    BY <2>2, <2>3, <2>5 DEF Close, ColumnKeepsUp, RowInv, Alone, Stage
  <2>8. QED
    BY <2>6, <2>7
<1>4. ASSUME NEW w \in Worker, Heartbeat(w) PROVE Goal
  <2>1. row'.status = row.status
    BY <1>4 DEF Heartbeat, UpdateRow, Row
  <2>2. QED
    BY <1>4, <2>1 DEF Heartbeat, ColumnKeepsUp, Open, Seen
<1>5. ASSUME row' = row,
             \A w \in Worker :
               \/ pc'[w] = pc[w]
               \/ pc'[w] \in {"finalized", "done", "dead"} /\ pc[w] # "idle"
               \/ /\ pc[w]  \in {"marked", "registered", "running", "ended", "released"}
                  /\ pc'[w] \in {"registered", "running", "ended", "released", "cleared"}
      PROVE  Goal
  <2>1. ColumnKeepsUp'
    BY <1>5 DEF ColumnKeepsUp, Open
  <2>2. Seen' = Seen
    BY <1>5 DEF Seen
  <2>3. QED
    BY <2>1, <2>2
<1>6. ASSUME NEW w \in Worker, NEW o \in PipelineEnd, End(w, o) PROVE Goal
  BY <1>5, <1>6 DEF End
<1>7. ASSUME NEW w \in Worker,
             Register(w) \/ Announce(w) \/ Release(w) \/ EmitFinished(w) \/ Die(w)
      PROVE  Goal
  BY <1>5, <1>7 DEF Register, Announce, Release, EmitFinished, Die
<1>8. ASSUME NEW w \in Worker, ClearStop(w) PROVE Goal
  BY <1>5, <1>8 DEF ClearStop
<1>9. ASSUME NEW w \in Worker,
             RequestStop(w) \/ LocalStopExpires(w) \/ CheckStop(w) \/ CancelSwallowed(w)
      PROVE  Goal
  BY <1>5, <1>9 DEF RequestStop, LocalStopExpires, CheckStop, RoundEnds, CancelSwallowed
<1>10. CASE StopKeyExpires \/ SessionExpires \/ UNCHANGED vars
  BY <1>5, <1>10 DEF StopKeyExpires, SessionExpires, vars
<1>11. QED
  BY <1>1, <1>2, <1>3, <1>4, <1>6, <1>7, <1>8, <1>9, <1>10
     DEF Next, WorkerStep, RunStep, MonitorStep, PipelineStep, PipelineEnds,
         GlobalTimeout, PipelineCancelled, CancelledOutside, PipelineEnd

\* A run that is delivered once, over a database that does not fail, takes
\* its status column through the transitions of WorkflowRunSM only.
THEOREM StatusRefinesFSM ==
  ~Redelivery /\ ~RowFaults => (Spec => StatusFollowsFSM)
<1> SUFFICES ASSUME ~Redelivery, ~RowFaults PROVE Spec => StatusFollowsFSM
  OBVIOUS
<1>1. TypeInv /\ RowInv /\ [Next]_vars => RowInv'
  BY RowStep
<1>2. TypeInv /\ RowInv /\ ColumnKeepsUp /\ [Next]_vars
        => ColumnKeepsUp' /\ [FSM!Next]_Seen
  BY ColumnStep
<1>3. QED
  BY TypeInit, TypeStep, RowInit, ColumnInit, <1>1, <1>2, PTL
     DEF Spec, StatusFollowsFSM, FSM!Spec, Seen

-----------------------------------------------------------------------------
(* Who reads RUN_FINISHED, and who asks for the owner                      *)

\* The one worker has written the row before it emits; until then there is
\* no RUN_FINISHED to read.
FinishInv ==
  /\ (\A w \in Worker : pc[w] \notin {"done", "dead"}) =>
        \A i \in DOMAIN events : events[i].type # "run_finished"
  /\ \A w \in Worker : pc[w] = "finalized" => row.status = sm[w]
  /\ FinishedEventMatchesRow

LEMMA FinishInit == Init => FinishInv
BY DEF Init, FinishInv, FinishedEventMatchesRow

\* A step that leaves the row's status and the log as they are, and whose
\* worker does not enter or leave the last stages.
LEMMA FinishQuiet ==
  ASSUME TypeInv, FinishInv, row'.status = row.status, events' = events,
         \A w \in Worker : pc[w] \in {"done", "dead"} => pc'[w] \in {"done", "dead"},
         \A w \in Worker : pc'[w] = "finalized" => pc[w] = "finalized" /\ sm'[w] = sm[w]
  PROVE  FinishInv'
BY DEF FinishInv, FinishedEventMatchesRow

LEMMA FinishStep ==
  ASSUME ~Redelivery, ~RowFaults, TypeInv, RowInv, ColumnKeepsUp, FinishInv, [Next]_vars
  PROVE  FinishInv'
<1> USE DEF TypeInv, TypeOK, Goto
<1>1. ASSUME NEW w \in Worker, pc[w] \notin {"idle", "done", "dead"}
      PROVE  \A i \in DOMAIN events : events[i].type # "run_finished"
  BY <1>1 DEF RowInv, Alone, FinishInv
<1>2. ASSUME NEW w \in Worker, Create(w) PROVE FinishInv'
  <2>1. \A i \in DOMAIN events : events[i].type # "run_finished"
    BY <1>2 DEF Create, FinishInv
  <2>2. \A v \in Worker : pc'[v] # "finalized"
    BY <1>2 DEF Create
  <2>3. events' = events
    BY <1>2 DEF Create
  <2>4. QED
    BY <2>1, <2>2, <2>3 DEF FinishInv, FinishedEventMatchesRow
<1>3. ASSUME NEW w \in Worker, MarkRunning(w) PROVE FinishInv'
  <2>1. \A i \in DOMAIN events : events[i].type # "run_finished"
    BY <1>1, <1>3 DEF MarkRunning
  <2>2. \A v \in Worker : pc'[v] # "finalized"
    BY <1>3 DEF MarkRunning, RowInv, Alone
  <2>3. events' = events
    BY <1>3 DEF MarkRunning
  <2>4. QED
    BY <2>1, <2>2, <2>3 DEF FinishInv, FinishedEventMatchesRow
<1>4. ASSUME NEW w \in Worker, Announce(w) PROVE FinishInv'
  <2> DEFINE e == [type |-> "run_started", worker |-> w, status |-> sm[w]]
  <2>1. \A i \in DOMAIN events : events[i].type # "run_finished"
    BY <1>1, <1>4 DEF Announce
  <2>2. events' \in {events, Append(events, e)} /\ e \in LogEntry /\ e.type = "run_started"
    BY <1>4 DEF Announce, Emit, LogEntry
  <2>3. \A v \in Worker : pc'[v] # "finalized"
    BY <1>4 DEF Announce, RowInv, Alone
  <2> HIDE DEF e
  <2>4. \A i \in DOMAIN events' : events'[i].type # "run_finished"
    BY <2>1, <2>2
  <2>5. QED
    BY <2>3, <2>4 DEF FinishInv, FinishedEventMatchesRow
<1>5. ASSUME NEW w \in Worker, Heartbeat(w) PROVE FinishInv'
  <2>1. row'.status = row.status
    BY <1>5 DEF Heartbeat, UpdateRow, Row
  <2>2. QED
    BY <1>5, <2>1, FinishQuiet DEF Heartbeat
<1>6. ASSUME NEW w \in Worker, Finalize(w) PROVE FinishInv'
  <2> DEFINE s == FireEvent(sm[w], TerminalEvent(outcome[w]))
  <2>1. \A i \in DOMAIN events : events[i].type # "run_finished"
    BY <1>1, <1>6 DEF Finalize, Close
  <2>2. row.status = "running"
    BY <1>6 DEF Finalize, Close, ColumnKeepsUp
  <2>3. Close(w, s) /\ sm' = [sm EXCEPT ![w] = s]
    BY <1>6 DEF Finalize, Close
  <2> HIDE DEF s
  <2>4. row'.status = s
    BY <2>2, <2>3 DEF Close, UpdateRow, Succeeds, Row
  <2>5. \A v \in Worker : pc'[v] = "finalized" => v = w
    BY <2>3 DEF Close, RowInv, Alone
  <2>6. sm'[w] = s /\ events' = events
    BY <2>3 DEF Close
  <2>7. QED
    BY <2>1, <2>4, <2>5, <2>6 DEF FinishInv, FinishedEventMatchesRow
<1>7. ASSUME NEW w \in Worker, EmitFinished(w) PROVE FinishInv'
  <2> DEFINE e == [type |-> "run_finished", worker |-> w, status |-> sm[w]]
  <2>1. \A i \in DOMAIN events : events[i].type # "run_finished"
    BY <1>1, <1>7 DEF EmitFinished
  <2>2. events' \in {events, Append(events, e)} /\ e \in LogEntry /\ e.status = sm[w]
    BY <1>7 DEF EmitFinished, Emit, LogEntry
  <2>3. row.status = sm[w] /\ row' = row /\ pc'[w] = "done"
    BY <1>7 DEF EmitFinished, FinishInv
  <2>4. \A v \in Worker : pc'[v] # "finalized"
    BY <1>7 DEF EmitFinished, RowInv, Alone
  <2> HIDE DEF e
  <2>5. \A i \in DOMAIN events' :
          events'[i].type = "run_finished" => events'[i].status = sm[w]
    BY <2>1, <2>2
  <2>6. QED
    BY <2>3, <2>4, <2>5 DEF FinishInv, FinishedEventMatchesRow
<1>8. ASSUME NEW w \in Worker, NEW o \in PipelineEnd, End(w, o) PROVE FinishInv'
  BY <1>8, FinishQuiet DEF End
<1>9. ASSUME NEW w \in Worker, Register(w) \/ Release(w) \/ ClearStop(w) PROVE FinishInv'
  BY <1>9, FinishQuiet DEF Register, Release, ClearStop
<1>10. ASSUME NEW w \in Worker,
             RequestStop(w) \/ LocalStopExpires(w) \/ CheckStop(w) \/ CancelSwallowed(w) \/ Die(w)
       PROVE  FinishInv'
  BY <1>10, FinishQuiet
     DEF RequestStop, LocalStopExpires, CheckStop, RoundEnds, CancelSwallowed, Die
<1>11. CASE StopKeyExpires \/ SessionExpires \/ UNCHANGED vars
  BY <1>11, FinishQuiet DEF StopKeyExpires, SessionExpires, vars
<1>12. QED
  BY <1>2, <1>3, <1>4, <1>5, <1>6, <1>7, <1>8, <1>9, <1>10, <1>11
     DEF Next, WorkerStep, RunStep, MonitorStep, PipelineStep, PipelineEnds,
         GlobalTimeout, PipelineCancelled, CancelledOutside, PipelineEnd

\* Whoever reads RUN_FINISHED in the log of a run that is delivered once,
\* over a database that does not fail, finds its status in the row: nothing
\* that runs after the event touches the status, and it was written before.
THEOREM FinishedEventAlwaysMatchesRow ==
  ~Redelivery /\ ~RowFaults => (Spec => []FinishedEventMatchesRow)
<1> SUFFICES ASSUME ~Redelivery, ~RowFaults PROVE Spec => []FinishedEventMatchesRow
  OBVIOUS
<1>1. TypeInv /\ RowInv /\ [Next]_vars => RowInv'
  BY RowStep
<1>2. TypeInv /\ RowInv /\ ColumnKeepsUp /\ [Next]_vars => ColumnKeepsUp'
  BY ColumnStep
<1>3. TypeInv /\ RowInv /\ ColumnKeepsUp /\ FinishInv /\ [Next]_vars => FinishInv'
  BY FinishStep
<1>4. FinishInv => FinishedEventMatchesRow
  BY DEF FinishInv
<1>5. Init => ColumnKeepsUp
  BY ColumnInit
<1>6. QED
  BY TypeInit, TypeStep, RowInit, FinishInit, <1>1, <1>2, <1>3, <1>4, <1>5, PTL DEF Spec

-----------------------------------------------------------------------------
(* Whom GET /owner and the column worker_id name                           *)

\* The monitor runs beside the pipeline only; the session key and the column
\* are the worker's from the moment it wrote them.
SessionInv ==
  /\ \A w \in Worker : monitor[w] # "off" => pc[w] = "running"
  /\ \A w \in Worker : pc[w] \in {"marked", "registered", "running"} => row.worker = w
  /\ \A w \in Worker : pc[w] = "registered" => session = w
  /\ \A w \in Worker :
       pc[w] = "running" => session = w \/ (session = NoWorker /\ monitor[w] = "off")
  /\ \A w \in Worker :
       pc[w] \in {"released", "cleared", "finalized", "done"} => session # w

LEMMA SessionInit == Init => SessionInv
BY DEF Init, SessionInv

\* A step that leaves the key, the column and the monitor alone and takes
\* its worker into none of the stages they tell of.
LEMMA SessionQuiet ==
  ASSUME TypeInv, SessionInv,
         row'.worker = row.worker, session' = session, monitor' = monitor,
         \A w \in Worker :
           \/ pc'[w] = pc[w]
           \/ pc'[w] \in {"created", "dead"} /\ monitor[w] = "off"
           \/ /\ pc[w]  \in {"released", "cleared", "finalized"}
              /\ pc'[w] \in {"cleared", "finalized", "done"}
  PROVE  SessionInv'
BY DEF SessionInv

LEMMA SessionStep ==
  ASSUME HasRedis, ~RedisFaults, ~BlockedLoop, ~RowFaults, ~Redelivery,
         TypeInv, RowInv, ColumnKeepsUp, SessionInv, [Next]_vars
  PROVE  SessionInv'
<1> USE DEF TypeInv, TypeOK, Goto, Succeeds
<1>1. ASSUME NEW w \in Worker, Create(w) PROVE SessionInv'
  <2>1. /\ \A v \in Worker : v # w => pc'[v] = "idle"
        /\ pc'[w] = "created"
        /\ monitor' = monitor
        /\ \A v \in Worker : pc[v] = "idle"
    BY <1>1 DEF Create
  <2>2. QED
    BY <2>1 DEF SessionInv
<1>2. ASSUME NEW w \in Worker, MarkRunning(w) PROVE SessionInv'
  <2>1. row.status = "pending"
    BY <1>2 DEF MarkRunning, ColumnKeepsUp
  <2>2. row'.worker = w
    BY <1>2, <2>1 DEF MarkRunning, UpdateRow, Row
  <2>3. /\ \A v \in Worker : v # w => pc'[v] = "idle" /\ pc[v] = "idle"
        /\ pc'[w] = "marked" /\ pc[w] = "created"
        /\ monitor' = monitor
    BY <1>2 DEF MarkRunning, RowInv, Alone
  <2>4. QED
    BY <2>2, <2>3 DEF SessionInv
<1>3. ASSUME NEW w \in Worker, Register(w) PROVE SessionInv'
  <2>1. session' = w /\ row' = row /\ monitor' = monitor /\ row.worker = w
    BY <1>3 DEF Register, SessionInv
  <2>2. /\ \A v \in Worker : v # w => pc'[v] = "idle" /\ pc[v] = "idle"
        /\ pc'[w] = "registered" /\ pc[w] = "marked"
    BY <1>3 DEF Register, RowInv, Alone
  <2>3. QED
    BY <2>1, <2>2 DEF SessionInv
<1>4. ASSUME NEW w \in Worker, Announce(w) PROVE SessionInv'
  BY <1>4 DEF Announce, SessionInv
<1>5. ASSUME NEW w \in Worker, Heartbeat(w) PROVE SessionInv'
  <2>1. pc[w] = "running" /\ row.worker = w /\ session = w
    BY <1>5 DEF Heartbeat, SessionInv
  <2>2. row'.worker = w
    BY <1>5, <2>1 DEF Heartbeat, UpdateRow, Row
  <2>3. pc' = pc /\ session' = session /\ \A v \in Worker : v # w => monitor'[v] = monitor[v]
    BY <1>5 DEF Heartbeat
  <2>4. QED
    BY <2>1, <2>2, <2>3 DEF SessionInv
<1>6. ASSUME NEW w \in Worker, CheckStop(w) PROVE SessionInv'
  <2>1. /\ pc[w] = "running" /\ session = w
        /\ UNCHANGED <<pc, session, row>> /\ \A v \in Worker : v # w => monitor'[v] = monitor[v]
    BY <1>6 DEF CheckStop, RoundEnds, SessionInv
  <2>2. QED
    BY <2>1 DEF SessionInv
<1>7. ASSUME NEW w \in Worker, NEW o \in PipelineEnd, End(w, o) PROVE SessionInv'
  BY <1>7 DEF End, SessionInv
<1>8. ASSUME NEW w \in Worker, Release(w) PROVE SessionInv'
  <2>1. /\ session' = NoWorker /\ row' = row /\ monitor' = monitor
        /\ \A v \in Worker : v # w => pc'[v] = "idle" /\ pc[v] = "idle"
        /\ pc'[w] = "released" /\ pc[w] = "ended"
    BY <1>8 DEF Release, RowInv, Alone
  <2>2. QED
    BY <2>1, RunAssumption DEF SessionInv
<1>9. ASSUME NEW w \in Worker, ClearStop(w) \/ EmitFinished(w) PROVE SessionInv'
  BY <1>9, SessionQuiet DEF ClearStop, EmitFinished
<1>10. ASSUME NEW w \in Worker, Finalize(w) PROVE SessionInv'
  <2> DEFINE s == FireEvent(sm[w], TerminalEvent(outcome[w]))
  <2>1. Close(w, s)
    BY <1>10 DEF Finalize
  <2> HIDE DEF s
  <2>2. row'.worker = row.worker
    BY <2>1 DEF Close, UpdateRow, Row
  <2>3. QED
    BY <2>1, <2>2, SessionQuiet DEF Close
<1>11. ASSUME NEW w \in Worker,
             RequestStop(w) \/ LocalStopExpires(w) \/ CancelSwallowed(w)
       PROVE  SessionInv'
  BY <1>11, SessionQuiet DEF RequestStop, LocalStopExpires, CancelSwallowed
<1>12. ASSUME NEW w \in Worker, Die(w) PROVE SessionInv'
  BY <1>12 DEF Die, SessionInv
<1>13. CASE SessionExpires
  <2>1. /\ \A w \in Worker : ~OwnerAttends(w)
        /\ session' = NoWorker /\ row' = row /\ monitor' = monitor /\ pc' = pc
    BY <1>13 DEF SessionExpires, MonitorHampered
  <2>2. QED
    BY <2>1, RunAssumption DEF SessionInv, OwnerAttends, Monitored
<1>14. CASE StopKeyExpires \/ UNCHANGED vars
  BY <1>14, SessionQuiet DEF StopKeyExpires, vars
<1>15. QED
  BY <1>1, <1>2, <1>3, <1>4, <1>5, <1>6, <1>7, <1>8, <1>9, <1>10, <1>11, <1>12, <1>13,
     <1>14
     DEF Next, WorkerStep, RunStep, MonitorStep, PipelineStep, PipelineEnds,
         GlobalTimeout, PipelineCancelled, CancelledOutside, PipelineEnd

\* While a worker runs the pipeline of a run that is delivered once, the column
\* worker_id names it, and so does the session key until the monitor has sent its
\* cancel(), after which the key may lapse; once the worker has released the key
\* it does not name it: neither an expiry nor a late heartbeat can make them say
\* otherwise.
THEOREM SessionAlwaysTracksRun ==
  HasRedis /\ ~RedisFaults /\ ~BlockedLoop /\ ~RowFaults /\ ~Redelivery
    => (Spec => []SessionTracksRun)
<1> SUFFICES ASSUME HasRedis, ~RedisFaults, ~BlockedLoop, ~RowFaults, ~Redelivery
             PROVE  Spec => []SessionTracksRun
  OBVIOUS
<1>1. TypeInv /\ RowInv /\ [Next]_vars => RowInv'
  BY RowStep
<1>2. TypeInv /\ RowInv /\ ColumnKeepsUp /\ [Next]_vars => ColumnKeepsUp'
  BY ColumnStep
<1>3. TypeInv /\ RowInv /\ ColumnKeepsUp /\ SessionInv /\ [Next]_vars => SessionInv'
  BY SessionStep
<1>4. SessionInv => SessionTracksRun
  BY DEF SessionInv, SessionTracksRun
<1>5. Init => ColumnKeepsUp
  BY ColumnInit
<1>6. QED
  BY TypeInit, TypeStep, RowInit, SessionInit, <1>1, <1>2, <1>3, <1>4, <1>5, PTL DEF Spec

-----------------------------------------------------------------------------
(* RUN_STARTED and RUN_FINISHED                                            *)

\* What the log holds of a worker at each of its stages.
Brackets(w) ==
  LET opening == Logged(w, "run_started")
      closing == Logged(w, "run_finished")
  IN /\ \A i, j \in opening : i = j
     /\ \A i, j \in closing : i = j
     /\ \A j \in closing : \E i \in opening : i < j
     /\ pc[w] \in {"idle", "created", "marked", "registered"} => opening = {}
     /\ pc[w] \in {"running", "ended", "released", "cleared", "finalized", "done"}
          => opening # {}
     /\ pc[w] \notin {"done", "dead"} => closing = {}
     /\ pc[w] = "done" => closing # {}

BracketInv == \A w \in Worker : Brackets(w)

LEMMA BracketInit == Init => BracketInv
BY DEF Init, BracketInv, Brackets, Logged

\* A worker that does not move, while the log keeps what it has of it.
LEMMA BracketsKept ==
  ASSUME NEW w \in Worker, Brackets(w), pc'[w] = pc[w],
         Logged(w, "run_started")' = Logged(w, "run_started"),
         Logged(w, "run_finished")' = Logged(w, "run_finished")
  PROVE  Brackets(w)'
BY DEF Brackets

\* What an event appended to the log adds to Logged.
LEMMA LoggedAppend ==
  ASSUME TypeInv, NEW e \in LogEntry, events' = Append(events, e),
         NEW w \in Worker, NEW t \in {"run_started", "run_finished"}
  PROVE  Logged(w, t)' = IF e.worker = w /\ e.type = t
                         THEN Logged(w, t) \cup {Len(events) + 1}
                         ELSE Logged(w, t)
<1>1. events \in Seq(LogEntry)
  BY DEF TypeInv, TypeOK
<1>2. DOMAIN events = 1..Len(events) /\ DOMAIN events' = 1..(Len(events) + 1)
  BY <1>1
<1>3. \A i \in 1..Len(events) : events'[i] = events[i]
  BY <1>1
<1>4. events'[Len(events) + 1] = e
  BY <1>1
<1>5. Len(events) \in Nat
  BY <1>1
<1>6. QED
  BY <1>2, <1>3, <1>4, <1>5 DEF Logged

\* A step that leaves the log alone and takes a worker from one stage to
\* another between the same two events.
LEMMA BracketQuiet ==
  ASSUME BracketInv, events' = events,
         \A w \in Worker :
           \/ pc'[w] = pc[w]
           \/ pc'[w] = "dead"
           \/ /\ pc[w]  \in {"idle", "created", "marked"}
              /\ pc'[w] \in {"created", "marked", "registered"}
           \/ /\ pc[w]  \in {"running", "ended", "released", "cleared"}
              /\ pc'[w] \in {"ended", "released", "cleared", "finalized"}
  PROVE  BracketInv'
<1> SUFFICES ASSUME NEW w \in Worker PROVE Brackets(w)'
  BY DEF BracketInv
<1>1. \A t : Logged(w, t)' = Logged(w, t)
  BY DEF Logged
<1>2. Brackets(w)
  BY DEF BracketInv
<1> DEFINE opening == Logged(w, "run_started")
           closing == Logged(w, "run_finished")
<1>3. opening' = opening /\ closing' = closing
  BY <1>1
<1>4. QED
  BY <1>2, <1>3 DEF Brackets

LEMMA BracketStep ==
  ASSUME ~LogFaults, TypeInv, BracketInv, [Next]_vars
  PROVE  BracketInv'
<1> USE DEF TypeInv, TypeOK, Goto
<1>1. ASSUME NEW w \in Worker, Announce(w) PROVE BracketInv'
  <2> DEFINE e == [type |-> "run_started", worker |-> w, status |-> sm[w]]
             n == Len(events) + 1
  <2>1. events' = Append(events, e) /\ e \in LogEntry /\ e.type = "run_started" /\ e.worker = w
    BY <1>1 DEF Announce, Emit, Succeeds, LogEntry
  <2> HIDE DEF e, n
  <2>2. SUFFICES ASSUME NEW v \in Worker PROVE Brackets(v)'
    BY DEF BracketInv
  <2>3. Brackets(v)
    BY DEF BracketInv
  <2>4. CASE v = w
    <3>1. Logged(v, "run_started")' = Logged(v, "run_started") \cup {n}
      BY <2>1, <2>4, LoggedAppend DEF n
    <3>2. Logged(v, "run_finished")' = Logged(v, "run_finished")
      BY <2>1, LoggedAppend
    <3>3. pc[v] = "registered" /\ pc'[v] = "running"
      BY <1>1, <2>4 DEF Announce
    <3>4. QED
      BY <2>3, <3>1, <3>2, <3>3 DEF Brackets
  <2>5. CASE v # w
    <3>1. Logged(v, "run_started")' = Logged(v, "run_started")
      BY <2>1, <2>5, LoggedAppend
    <3>2. Logged(v, "run_finished")' = Logged(v, "run_finished")
      BY <2>1, LoggedAppend
    <3>3. QED
      BY <1>1, <2>3, <2>5, <3>1, <3>2, BracketsKept DEF Announce
  <2>6. QED
    BY <2>4, <2>5
<1>2. ASSUME NEW w \in Worker, EmitFinished(w) PROVE BracketInv'
  <2> DEFINE e == [type |-> "run_finished", worker |-> w, status |-> sm[w]]
             n == Len(events) + 1
  <2>1. events' = Append(events, e) /\ e \in LogEntry /\ e.type = "run_finished" /\ e.worker = w
    BY <1>2 DEF EmitFinished, Emit, Succeeds, LogEntry
  <2> HIDE DEF e, n
  <2>2. SUFFICES ASSUME NEW v \in Worker PROVE Brackets(v)'
    BY DEF BracketInv
  <2>3. Brackets(v)
    BY DEF BracketInv
  <2>4. CASE v = w
    <3>1. Logged(v, "run_finished")' = Logged(v, "run_finished") \cup {n}
      BY <2>1, <2>4, LoggedAppend DEF n
    <3>2. Logged(v, "run_started")' = Logged(v, "run_started")
      BY <2>1, LoggedAppend
    <3>3. pc[v] = "finalized" /\ pc'[v] = "done"
      BY <1>2, <2>4 DEF EmitFinished
    <3> DEFINE opening == Logged(v, "run_started")
               closing == Logged(v, "run_finished")
    <3>4. closing = {} /\ opening # {} /\ \A i, j \in opening : i = j
      BY <2>3, <3>3 DEF Brackets
    <3>5. closing' = {n} /\ opening' = opening
      BY <3>1, <3>2, <3>4
    <3>6. \A i \in opening : i < n
      BY DEF Logged, n
    <3> HIDE DEF opening, closing
    <3>7. \A j \in closing' : \E i \in opening' : i < j
      BY <3>4, <3>5, <3>6
    <3>8. \A i, j \in closing' : i = j
      BY <3>5
    <3>9. QED
      BY <3>3, <3>4, <3>5, <3>7, <3>8 DEF Brackets, opening, closing
  <2>5. CASE v # w
    <3>1. Logged(v, "run_finished")' = Logged(v, "run_finished")
      BY <2>1, <2>5, LoggedAppend
    <3>2. Logged(v, "run_started")' = Logged(v, "run_started")
      BY <2>1, LoggedAppend
    <3>3. QED
      BY <1>2, <2>3, <2>5, <3>1, <3>2, BracketsKept DEF EmitFinished
  <2>6. QED
    BY <2>4, <2>5
<1>3. ASSUME NEW w \in Worker,
             Create(w) \/ MarkRunning(w) \/ Register(w) \/ Die(w)
      PROVE  BracketInv'
  BY <1>3, BracketQuiet DEF Create, MarkRunning, Register, Die
<1>4. ASSUME NEW w \in Worker, NEW o \in PipelineEnd, End(w, o) PROVE BracketInv'
  BY <1>4, BracketQuiet DEF End
<1>5. ASSUME NEW w \in Worker, Release(w) \/ ClearStop(w) \/ Finalize(w) PROVE BracketInv'
  BY <1>5, BracketQuiet DEF Release, ClearStop, Finalize, Close
<1>6. ASSUME NEW w \in Worker,
             Heartbeat(w) \/ CheckStop(w) \/ CancelSwallowed(w) \/ RequestStop(w)
               \/ LocalStopExpires(w)
      PROVE  BracketInv'
  BY <1>6, BracketQuiet
     DEF Heartbeat, CheckStop, RoundEnds, CancelSwallowed, RequestStop, LocalStopExpires
<1>7. CASE StopKeyExpires \/ SessionExpires \/ UNCHANGED vars
  BY <1>7, BracketQuiet DEF StopKeyExpires, SessionExpires, vars
<1>8. QED
  BY <1>1, <1>2, <1>3, <1>4, <1>5, <1>6, <1>7
     DEF Next, WorkerStep, RunStep, MonitorStep, PipelineStep, PipelineEnds,
         GlobalTimeout, PipelineCancelled, CancelledOutside, PipelineEnd

\* As long as no append to the log fails, each execution of a run opens in it
\* with one RUN_STARTED and closes with at most one RUN_FINISHED, for any number
\* of executions that interleave, are stopped, die, or fail to write the row.
THEOREM EventsAlwaysBracketed == ~LogFaults => (Spec => []EventsBracketed)
<1> SUFFICES ASSUME ~LogFaults PROVE Spec => []EventsBracketed
  OBVIOUS
<1>1. TypeInv /\ BracketInv /\ [Next]_vars => BracketInv'
  BY BracketStep
<1>2. BracketInv => EventsBracketed
  BY DEF BracketInv, Brackets, EventsBracketed
<1>3. QED
  BY TypeInit, TypeStep, BracketInit, <1>1, <1>2, PTL DEF Spec

-----------------------------------------------------------------------------
(* When a status ends                                                      *)

LEMMA FinalStep ==
  ASSUME ~Redelivery, TypeInv, RowInv, [Next]_vars, row.status \in Terminal
  PROVE  row'.status = row.status
<1> USE DEF TypeInv, TypeOK, Goto
<1>1. PICK w \in Worker : pc[w] \in {"finalized", "done", "dead"}
  BY DEF RowInv, BlankUntilFinal, Blank
<1>2. \A v \in Worker : pc[v] \in {"idle", "finalized", "done", "dead"}
  BY <1>1 DEF RowInv, Alone
<1>3. ASSUME NEW v \in Worker, Create(v) PROVE row'.status = row.status
  BY <1>1, <1>3 DEF Create
<1>4. ASSUME NEW v \in Worker, Heartbeat(v) PROVE row'.status = row.status
  BY <1>4 DEF Heartbeat, UpdateRow, Row
<1>5. ASSUME NEW v \in Worker,
             \/ MarkRunning(v) \/ Register(v) \/ Announce(v) \/ Release(v) \/ ClearStop(v)
             \/ Finalize(v) \/ EmitFinished(v)
      PROVE  row'.status = row.status
  BY <1>2, <1>5 DEF MarkRunning, Register, Announce, Release, ClearStop, Finalize, Close,
                    EmitFinished
<1>6. ASSUME NEW v \in Worker, NEW o \in PipelineEnd, End(v, o) PROVE row'.status = row.status
  BY <1>6 DEF End
<1>7. ASSUME NEW v \in Worker,
             \/ CheckStop(v) \/ CancelSwallowed(v) \/ Die(v) \/ RequestStop(v)
             \/ LocalStopExpires(v)
      PROVE  row'.status = row.status
  BY <1>7 DEF CheckStop, RoundEnds, CancelSwallowed, Die, RequestStop, LocalStopExpires
<1>8. CASE StopKeyExpires \/ SessionExpires \/ UNCHANGED vars
  BY <1>8 DEF StopKeyExpires, SessionExpires, vars
<1>9. QED
  BY <1>3, <1>4, <1>5, <1>6, <1>7, <1>8
     DEF Next, WorkerStep, RunStep, MonitorStep, PipelineStep, PipelineEnds,
         GlobalTimeout, PipelineCancelled, CancelledOutside, PipelineEnd

\* What domain/fsm/__init__.py says of a terminal status holds of a run that
\* is delivered once, whatever fails or dies: nothing changes it any more.
THEOREM TerminalStaysFinal == ~Redelivery => (Spec => TerminalIsFinal)
<1> SUFFICES ASSUME ~Redelivery PROVE Spec => TerminalIsFinal
  OBVIOUS
<1>1. TypeInv /\ RowInv /\ [Next]_vars => RowInv'
  BY RowStep
<1>2. TypeInv /\ RowInv /\ [Next]_vars
        => [row.status \in Terminal => row.status' = row.status]_vars
  BY FinalStep
<1>3. QED
  BY TypeInit, TypeStep, RowInit, <1>1, <1>2, PTL DEF Spec, TerminalIsFinal

\* A step of the abstract machine that ends comes from "running".
LEMMA EndIsFromRunning ==
  ASSUME FSM!Next, Seen' \in Terminal
  PROVE  Seen = "running"
BY DEF FSM!Next, FSM!Fire, Seen, FSM!Event, FSM!CanFire, FSM!FireEvent, FSM!Source, FSM!Target,
       FSM!Terminal, FSM!RunStatus, Terminal

\* And if the database does not fail either, a row that ends was running.
THEOREM EndsAlwaysFromRunning ==
  ~Redelivery /\ ~RowFaults => (Spec => EndsOnlyFromRunning)
<1> SUFFICES ASSUME ~Redelivery, ~RowFaults PROVE Spec => EndsOnlyFromRunning
  OBVIOUS
<1>1. TypeInv /\ RowInv /\ [Next]_vars => RowInv'
  BY RowStep
<1>2. TypeInv /\ RowInv /\ ColumnKeepsUp /\ [Next]_vars => ColumnKeepsUp'
  BY ColumnStep
<1>3. Init => ColumnKeepsUp
  BY ColumnInit
<1>4. TypeInv /\ RowInv /\ ColumnKeepsUp /\ [Next]_vars
        => [row.status' \in Terminal /\ row.status' # row.status => row.status = "running"]_vars
  <2> SUFFICES ASSUME TypeInv, RowInv, ColumnKeepsUp, [Next]_vars,
                      row'.status \in Terminal, row'.status # row.status
               PROVE  row.status = "running"
    OBVIOUS
  <2>1. FSM!Next \/ Seen' = Seen
    BY ColumnStep
  <2>2. Seen' = row'.status
    BY DEF Seen, Terminal
  <2>3. CASE Seen' = Seen
    BY <2>2, <2>3 DEF Seen, Terminal
  <2>4. CASE FSM!Next
    BY <2>2, <2>4, EndIsFromRunning DEF Seen
  <2>5. QED
    BY <2>1, <2>3, <2>4
<1>5. QED
  BY TypeInit, TypeStep, RowInit, <1>1, <1>2, <1>3, <1>4, PTL DEF Spec, EndsOnlyFromRunning

=============================================================================
