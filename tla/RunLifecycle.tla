---------------------------- MODULE RunLifecycle ----------------------------
(***************************************************************************)
(* WorkflowRuntime.run and everything it shares with other pods while it   *)
(* executes one workflow run: the row of t_workflow_run, the session key   *)
(* and the stop key in Redis, each pod's local copy of the stop flag, and  *)
(* the run's rows in t_run_event_log.                                      *)
(*                                                                         *)
(* Every key and row carries the run id, so one run is modelled.  A        *)
(* Worker is one execution of run() for that id by some pod: the pod the   *)
(* task was delivered to, or one that takes the run over.  A worker that   *)
(* is idle stands for any other pod that may receive POST /stop.           *)
(*                                                                         *)
(* Each await of run() that touches shared state is a step of its own, so  *)
(* the steps of the monitor task, of POST /stop and of other workers fall  *)
(* between any two of them.  The pipeline is reduced to how it ends.       *)
(***************************************************************************)
EXTENDS Sequences, Naturals, RunStatusTable

CONSTANTS
  Worker,       \* executions of run() for this run id
  NoWorker,     \* "nobody", for the session key and the worker_id column
  HasRedis,     \* a Redis client is configured (bootstrap.py:75-82)
  RedisFaults,  \* Redis operations may time out or fail
  RowFaults,    \* writes to the row of the run may fail
  LogFaults,    \* so may the appends to its log, which are other transactions
  LostCancels,  \* wait_for of Python 3.11 may swallow a cancel()
  BlockedLoop,  \* a tool may block the event loop for minutes (executor.py:107)
  Shutdowns,    \* pods may die, and run() itself may be cancelled
  Redelivery    \* the run may be handed to a second worker

ASSUME RunAssumption ==
  /\ NoWorker \notin Worker
  /\ HasRedis \in BOOLEAN
  /\ RedisFaults \in BOOLEAN
  /\ RowFaults \in BOOLEAN
  /\ LogFaults \in BOOLEAN
  /\ LostCancels \in BOOLEAN
  /\ BlockedLoop \in BOOLEAN
  /\ Shutdowns \in BOOLEAN
  /\ Redelivery \in BOOLEAN

VARIABLES
  pc,           \* pc[w]: how far run() is
  monitor,      \* monitor[w]: where _monitor waits
  cancelling,   \* cancelling[w]: the monitor called pipeline_task.cancel()
  outcome,      \* outcome[w]: how the pipeline ended
  sm,           \* sm[w]: WorkflowRunSM.current of this execution
  row,          \* the row of t_workflow_run
  session,      \* the value of cascade:run:session:{id}
  stopKey,      \* cascade:run:stop:{id} is set
  stopLocal,    \* stopLocal[w]: StopRegistry._local of w's pod holds TRUE
  events,       \* the run's rows in t_run_event_log, by id
  stopAsked,    \* history: a POST /stop was received
  stopAcked,    \* history: a POST /stop answered requested = true
  interrupted   \* history: some run() was cancelled from outside

execVars  == <<pc, monitor, cancelling, outcome, sm>>
redisVars == <<session, stopKey, stopLocal>>
dbVars    == <<row, events>>
history   == <<stopAsked, stopAcked, interrupted>>
vars      == <<execVars, redisVars, dbVars, history>>

-----------------------------------------------------------------------------
Stage == {"idle", "created", "marked", "registered", "running", "ended",
          "released", "cleared", "finalized", "done", "dead"}

\* "timeout" is a failure whose error_msg contains "timeout": the global
\* timeout, or an exception of the pipeline that says so.  "silent" is an
\* exception whose text is empty, as that of httpx timeouts and of bare raises.
PipelineEnd == {"finish", "fail", "silent", "timeout", "cancel"}
Outcome     == PipelineEnd \cup {"none"}

ErrorCode == {"none", "TIMEOUT", "CANCELLED", "FAILED"}

Row == [status : RunStatus \cup {"absent"}, worker : Worker \cup {NoWorker},
        finished : BOOLEAN, verdict : BOOLEAN, code : ErrorCode]

LogEntry == [type : {"run_started", "run_finished"}, worker : Worker,
             status : RunStatus]

TerminalEvent(o) == IF o \in {"timeout", "silent"} THEN "fail" ELSE o

\* Slip: every failed or cancelled run gets the fallback code.
SlipCodeOf(o, c) == IF o = "timeout" THEN "TIMEOUT"
                    ELSE IF o \in {"finish", "silent"} THEN c ELSE "FAILED"

\* The error code of a pipeline that ended so; c, what the column had, where
\* there is no error message to write one for.
CodeOf(o, c) == CASE o = "timeout" -> "TIMEOUT"
                  [] o = "cancel"  -> "CANCELLED"
                  [] o = "fail"    -> "FAILED"
                  [] OTHER         -> c

\* A repository or Redis call whose failure is caught and logged: it took
\* effect, or, where faults are possible, it did not.
Succeeds(faults) == IF faults THEN BOOLEAN ELSE {TRUE}

\* run() is under way and its pipeline has not ended: a stop is to end it.
StopAttended(w) == pc[w] \in {"created", "marked", "registered", "running"}

\* The monitor returns after the one cancel() it sends: from then on nobody
\* extends the session key or reads the stop key, however long the pipeline
\* winds down, or goes on.
Monitored(w) == pc[w] = "running" => monitor[w] # "off"

\* The pods whose monitor extends the session key before its 60 s are over, and
\* those that will read the stop key before its 600 s are.
OwnerAttends(w) == pc[w] \in {"registered", "running"} /\ Monitored(w)
StopRead(w)     == StopAttended(w) /\ Monitored(w)

-----------------------------------------------------------------------------
Init ==
  /\ pc = [w \in Worker |-> "idle"]
  /\ monitor = [w \in Worker |-> "off"]
  /\ cancelling = [w \in Worker |-> FALSE]
  /\ outcome = [w \in Worker |-> "none"]
  /\ sm = [w \in Worker |-> "pending"]
  \* the caller may have inserted the row already (runtime.py:68)
  /\ row \in { [status |-> s, worker |-> NoWorker, finished |-> FALSE,
                verdict |-> FALSE, code |-> "none"] : s \in {"absent", "pending"} }
  /\ session = NoWorker
  /\ stopKey = FALSE
  /\ stopLocal = [w \in Worker |-> FALSE]
  /\ events = <<>>
  /\ stopAsked = FALSE
  /\ stopAcked = FALSE
  /\ interrupted = FALSE

Goto(w, here, there) == pc[w] = here /\ pc' = [pc EXCEPT ![w] = there]

\* UPDATE t_workflow_run SET ... WHERE id = run_id: a row that is absent
\* matches nothing.
UpdateRow(new) ==
  \E ok \in Succeeds(RowFaults) :
    row' = IF ok /\ row.status # "absent" THEN new ELSE row

\* RunEventBus.emit: append to the log; what is published is not kept.
Emit(type, w, s) ==
  \E ok \in Succeeds(LogFaults) :
    events' = IF ok
              THEN Append(events, [type |-> type, worker |-> w, status |-> s])
              ELSE events

-----------------------------------------------------------------------------
(* run(), up to the start of the pipeline                                  *)

\* create(): INSERT with status pending; a duplicate id is swallowed.
Create(w) ==
  /\ Redelivery \/ \A v \in Worker : pc[v] = "idle"
  /\ Goto(w, "idle", "created")
  /\ \E ok \in Succeeds(RowFaults) :
       row' = IF ok /\ row.status = "absent"
              THEN [row EXCEPT !.status = "pending", !.worker = w]
              ELSE row
  /\ UNCHANGED <<monitor, cancelling, outcome, sm, redisVars, events, history>>

\* Slip: the machine moves, the column does not.
SlipMarkRunning(w) ==
  /\ Goto(w, "created", "marked")
  /\ sm' = [sm EXCEPT ![w] = FireEvent("pending", "start")]
  /\ UNCHANGED <<monitor, cancelling, outcome, redisVars, dbVars, history>>

\* The machine of this execution starts from the literal "pending", whatever
\* the row says.
MarkRunning(w) ==
  /\ Goto(w, "created", "marked")
  /\ sm' = [sm EXCEPT ![w] = FireEvent("pending", "start")]
  /\ UpdateRow([row EXCEPT !.status = sm'[w], !.worker = w])
  /\ UNCHANGED <<monitor, cancelling, outcome, redisVars, events, history>>

Register(w) ==
  /\ Goto(w, "marked", "registered")
  /\ \E ok \in Succeeds(RedisFaults) :
       session' = IF HasRedis /\ ok THEN w ELSE session
  /\ UNCHANGED <<monitor, cancelling, outcome, sm, stopKey, stopLocal, dbVars,
                 history>>

\* Slip: RUN_STARTED is emitted without waiting for it.
SlipAnnounce(w) ==
  /\ Goto(w, "registered", "running")
  /\ monitor' = [monitor EXCEPT ![w] = "sleep"]
  /\ UNCHANGED <<cancelling, outcome, sm, redisVars, dbVars, history>>

\* Emit RUN_STARTED, then create the pipeline task and the monitor task.
Announce(w) ==
  /\ Goto(w, "registered", "running")
  /\ Emit("run_started", w, sm[w])
  /\ monitor' = [monitor EXCEPT ![w] = "sleep"]
  /\ UNCHANGED <<cancelling, outcome, sm, redisVars, row, history>>

-----------------------------------------------------------------------------
(* The monitor task, every 20 s                                            *)

\* EXPIRE keeps the session key alive (it cannot bring it back), then the
\* heartbeat UPDATE writes worker_id again.
Heartbeat(w) ==
  /\ monitor[w] = "sleep"
  /\ monitor' = [monitor EXCEPT ![w] = "check"]
  /\ UpdateRow([row EXCEPT !.worker = w])
  /\ UNCHANGED <<pc, cancelling, outcome, sm, redisVars, events, history>>

\* The end of a monitor round that found the run stopped, or not.
RoundEnds(w, stopped) ==
  /\ monitor[w] = "check"
  /\ stopLocal' = [stopLocal EXCEPT ![w] = stopped]
  /\ cancelling' = [cancelling EXCEPT ![w] = stopped]
  /\ monitor' = [monitor EXCEPT ![w] = IF stopped THEN "off" ELSE "sleep"]
  /\ UNCHANGED <<pc, outcome, sm, session, stopKey, dbVars, history>>

\* Slip: only the local copy is looked at.
SlipCheckStopLocal(w) == RoundEnds(w, stopLocal[w])

\* is_stopped: the local copy while it is fresh (for ever without Redis),
\* else the key; a failed read counts as "not stopped".
CheckStop(w) ==
  \E ok \in Succeeds(RedisFaults) :
    RoundEnds(w, stopLocal[w] \/ (HasRedis /\ ok /\ stopKey))

-----------------------------------------------------------------------------
(* run(), from the end of the pipeline                                     *)

\* wait_for returns or raises; the finally block first cancels the monitor.
End(w, o) ==
  /\ Goto(w, "running", "ended")
  /\ outcome' = [outcome EXCEPT ![w] = o]
  /\ monitor' = [monitor EXCEPT ![w] = "off"]
  /\ UNCHANGED <<cancelling, sm, redisVars, dbVars, stopAsked, stopAcked>>

\* The pipeline task ends by itself, perhaps just before a cancel() of the
\* monitor would reach it.
PipelineEnds(w) ==
  /\ \E o \in {"finish", "fail", "silent", "timeout"} : End(w, o)
  /\ UNCHANGED interrupted

\* Slip: the timeout is taken for a requested stop.
SlipTimeoutCancels(w) == End(w, "cancel") /\ UNCHANGED interrupted

\* WORKFLOW_GLOBAL_TIMEOUT: wait_for cancels the task and waits for it; a
\* task that ends meanwhile still delivers its result or its exception.
GlobalTimeout(w) ==
  /\ \E o \in {"timeout", "finish", "fail", "silent"} : End(w, o)
  /\ UNCHANGED interrupted

\* The cancel() of the monitor takes effect.
PipelineCancelled(w) ==
  /\ cancelling[w]
  /\ End(w, "cancel")
  /\ UNCHANGED interrupted

\* The cancel() meets an inner wait_for (of emit, of an LLM call) whose
\* operation has just completed: wait_for returns the result instead, and
\* the monitor, which has returned, does not cancel again.
CancelSwallowed(w) ==
  /\ LostCancels
  /\ pc[w] = "running"
  /\ cancelling[w]
  /\ cancelling' = [cancelling EXCEPT ![w] = FALSE]
  /\ UNCHANGED <<pc, monitor, outcome, sm, redisVars, dbVars, history>>

\* run() itself is cancelled inside wait_for: the same except branch as a
\* requested stop.
CancelledOutside(w) ==
  /\ Shutdowns
  /\ End(w, "cancel")
  /\ interrupted' = TRUE

\* Slips: the key is left to its TTL; run() waits until the key is its own.
SlipRelease(w) ==
  /\ Goto(w, "ended", "released")
  /\ UNCHANGED <<monitor, cancelling, outcome, sm, redisVars, dbVars, history>>
SlipReleaseOwn(w) ==
  /\ session = w
  /\ session' = NoWorker
  /\ Goto(w, "ended", "released")
  /\ UNCHANGED <<monitor, cancelling, outcome, sm, stopKey, stopLocal, dbVars,
                 history>>

\* DEL of the session key, whoever registered it last.
Release(w) ==
  /\ Goto(w, "ended", "released")
  /\ \E ok \in Succeeds(RedisFaults) :
       session' = IF HasRedis /\ ok THEN NoWorker ELSE session
  /\ UNCHANGED <<monitor, cancelling, outcome, sm, stopKey, stopLocal, dbVars,
                 history>>

ClearStop(w) ==
  /\ Goto(w, "released", "cleared")
  /\ stopLocal' = [stopLocal EXCEPT ![w] = FALSE]
  /\ \E ok \in Succeeds(RedisFaults) :
       stopKey' = IF HasRedis /\ ok THEN FALSE ELSE stopKey
  /\ UNCHANGED <<monitor, cancelling, outcome, sm, session, dbVars, history>>

\* Fire the terminal event, then one UPDATE with status s and what goes with
\* it: verdicts only for a pipeline that returned, an error code only for
\* one that did not and has a message.
Close(w, s) ==
  /\ Goto(w, "cleared", "finalized")
  /\ sm' = [sm EXCEPT ![w] = FireEvent(@, TerminalEvent(outcome[w]))]
  /\ UpdateRow([row EXCEPT
       !.status   = s,
       !.finished = TRUE,
       !.verdict  = IF outcome[w] = "finish" THEN TRUE ELSE @,
       !.code     = CodeOf(outcome[w], @)])
  /\ UNCHANGED <<monitor, cancelling, outcome, redisVars, events, history>>

\* Slip: the status is read before the event is fired.
SlipFinalizeEarly(w) == Close(w, sm[w])

Finalize(w) == Close(w, FireEvent(sm[w], TerminalEvent(outcome[w])))

EmitFinished(w) ==
  /\ Goto(w, "finalized", "done")
  /\ Emit("run_finished", w, sm[w])
  /\ UNCHANGED <<monitor, cancelling, outcome, sm, redisVars, row, history>>

-----------------------------------------------------------------------------
(* The rest of the world                                                   *)

\* POST /stop on w's pod.  Without Redis the flag stays in that pod and the
\* answer is requested = false; with Redis the SET may fail, or time out
\* after it took effect.
RequestStop(w) ==
  /\ pc[w] # "dead"
  /\ stopAsked' = TRUE
  /\ \E applied, answered \in Succeeds(RedisFaults) :
       /\ answered => applied
       /\ stopKey' = (stopKey \/ (HasRedis /\ applied))
       /\ stopLocal' = [stopLocal EXCEPT ![w] = @ \/ ~HasRedis \/ answered]
       /\ stopAcked' = (stopAcked \/ (HasRedis /\ answered))
  /\ UNCHANGED <<execVars, session, dbVars, interrupted>>

\* The local copy is fresh for one second.
LocalStopExpires(w) ==
  /\ HasRedis
  /\ stopLocal[w]
  /\ stopLocal' = [stopLocal EXCEPT ![w] = FALSE]
  /\ UNCHANGED <<execVars, session, stopKey, dbVars, history>>

\* TTLs of 600 s and 60 s.  A monitor reads the one and extends the other
\* every 20 s: they run out under it only if Redis fails it or its event loop
\* stands still.
MonitorHampered == RedisFaults \/ BlockedLoop

StopKeyExpires ==
  /\ stopKey
  /\ MonitorHampered \/ \A w \in Worker : ~StopRead(w) /\ ~stopLocal[w]
  /\ stopKey' = FALSE
  /\ UNCHANGED <<execVars, session, stopLocal, dbVars, history>>

SessionExpires ==
  /\ session # NoWorker
  /\ MonitorHampered \/ \A w \in Worker : ~OwnerAttends(w)
  /\ session' = NoWorker
  /\ UNCHANGED <<execVars, stopKey, stopLocal, dbVars, history>>

\* The pod dies, or run() is cancelled at an await outside its try block:
\* nothing more of run() is executed, and nothing is undone.
Die(w) ==
  /\ Shutdowns
  /\ pc[w] \notin {"idle", "done", "dead"}
  /\ pc' = [pc EXCEPT ![w] = "dead"]
  /\ monitor' = [monitor EXCEPT ![w] = "off"]
  /\ stopLocal' = [stopLocal EXCEPT ![w] = FALSE]
  /\ UNCHANGED <<cancelling, outcome, sm, session, stopKey, dbVars, history>>

-----------------------------------------------------------------------------
RunStep(w) ==
  \/ MarkRunning(w) \/ Register(w) \/ Announce(w)
  \/ Release(w) \/ ClearStop(w) \/ Finalize(w) \/ EmitFinished(w)

MonitorStep(w) == Heartbeat(w) \/ CheckStop(w)

PipelineStep(w) == PipelineEnds(w) \/ GlobalTimeout(w) \/ PipelineCancelled(w)

WorkerStep(w) ==
  \/ Create(w) \/ RunStep(w) \/ MonitorStep(w) \/ PipelineStep(w)
  \/ CancelSwallowed(w) \/ CancelledOutside(w) \/ Die(w)
  \/ RequestStop(w) \/ LocalStopExpires(w)

Next ==
  \/ \E w \in Worker : WorkerStep(w)
  \/ StopKeyExpires
  \/ SessionExpires

Spec == Init /\ [][Next]_vars

(***************************************************************************)
(* Fairness.  A pod that lives runs its event loop, so the steps of run()  *)
(* and of the monitor are taken; the timer of wait_for fires even if the   *)
(* pipeline never ends by itself.  Nothing obliges a broker to deliver, a  *)
(* user to stop, a pod to die, or a pipeline to return.  With LostCancels  *)
(* neither timer nor monitor is sure to end the pipeline: the fairness of  *)
(* GlobalTimeout and PipelineCancelled then does not stand.                *)
(***************************************************************************)
LoopFairness ==
  \A w \in Worker : WF_vars(RunStep(w)) /\ WF_vars(MonitorStep(w))

FairSpec == Spec /\ LoopFairness /\ \A w \in Worker : WF_vars(GlobalTimeout(w))

\* The pipeline may hang, and the 900 s of the timer are no help to a stop
\* that is promised within 20 s: only a delivered cancel() is sure to end it.
HangSpec == Spec /\ LoopFairness /\ \A w \in Worker : WF_vars(PipelineCancelled(w))

-----------------------------------------------------------------------------
(* Properties.  The comment of each says under which constants it holds.   *)

TypeOK ==
  /\ pc \in [Worker -> Stage]
  /\ monitor \in [Worker -> {"off", "sleep", "check"}]
  /\ cancelling \in [Worker -> BOOLEAN]
  /\ outcome \in [Worker -> Outcome]
  /\ sm \in [Worker -> RunStatus]
  /\ row \in Row
  /\ session \in Worker \cup {NoWorker}
  /\ stopKey \in BOOLEAN
  /\ stopLocal \in [Worker -> BOOLEAN]
  /\ events \in Seq(LogEntry)
  /\ stopAsked \in BOOLEAN
  /\ stopAcked \in BOOLEAN
  /\ interrupted \in BOOLEAN

\* One execution at most has begun.
Alone == \A v, w \in Worker : pc[v] # "idle" /\ pc[w] # "idle" => v = w

\* The row never contradicts itself, whatever fails or dies half way, MySQL
\* included: it has a finish time exactly when its status is terminal, verdicts
\* exactly when it succeeded, CANCELLED exactly when it was cancelled, and an
\* error code when it failed, except after an exception that says nothing.  A
\* second execution may break all of this.  (runtime.py:144-171.)
RowCoherent ==
  Alone =>
    /\ row.finished <=> row.status \in Terminal
    /\ row.verdict <=> row.status = "success"
    /\ row.code = "CANCELLED" <=> row.status = "cancelled"
    /\ row.code \in {"TIMEOUT", "FAILED"} <=>
         row.status = "failed" /\ \A w \in Worker : outcome[w] # "silent"

\* Whoever reads RUN_FINISHED in the event log finds its status in the row:
\* the row is written first.  (~RowFaults, ~Redelivery; runtime.py:171-186.)
FinishedEventMatchesRow ==
  \A i \in DOMAIN events :
    events[i].type = "run_finished" => row.status = events[i].status

\* No run is recorded as cancelled that nobody stopped: a stop flag left
\* over, or a failed read of it, never cancels one.  (Always.)
CancelledOnlyIfAsked ==
  row.status = "cancelled" => stopAsked \/ interrupted

\* GET /owner and the column worker_id name the worker while it runs the
\* pipeline, but for GET /owner once its monitor has sent a cancel() and the
\* pipeline takes longer than the key lives to end; and GET /owner no longer once
\* the worker has released its key.
\* (HasRedis, ~RedisFaults, ~BlockedLoop, ~RowFaults, ~Redelivery.)
SessionTracksRun ==
  \A w \in Worker :
    /\ pc[w] = "running" =>
         /\ row.worker = w
         /\ session = w \/ (session = NoWorker /\ monitor[w] = "off")
    /\ pc[w] \in {"released", "cleared", "finalized", "done"} => session # w

\* The places in the log of the events of this type that w emitted.
Logged(w, type) ==
  {i \in DOMAIN events : events[i].worker = w /\ events[i].type = type}

\* In the log of a run each execution opens with one RUN_STARTED and closes
\* with at most one RUN_FINISHED after it, also when two executions
\* interleave and their writes to the row fail.  (~LogFaults.)
EventsBracketed ==
  \A w \in Worker :
    LET opening == Logged(w, "run_started")
        closing == Logged(w, "run_finished")
    IN /\ \A i, j \in opening : i = j
       /\ \A i, j \in closing : i = j
       /\ \A j \in closing : \E i \in opening : i < j
       /\ pc[w] = "running" => opening # {} /\ closing = {}
       /\ pc[w] = "done"    => opening # {} /\ closing # {}

\* The status column goes through the transitions of WorkflowRunSM and no
\* others; a row that is not there yet counts as pending.
\* (~RowFaults, ~Redelivery.)
FSM == INSTANCE RunStatusFSM
         WITH status <- IF row.status = "absent" THEN "pending" ELSE row.status
StatusFollowsFSM == FSM!Spec

\* A run that was delivered is recorded as ended, whatever the pipeline
\* does, if no pod dies: for that it takes the timer of wait_for, besides the
\* fairness of the specification.  (~RowFaults, ~LostCancels.)
RunEnds ==
  (\A w \in Worker : WF_vars(GlobalTimeout(w))) =>
    \A w \in Worker :
      pc[w] # "idle" ~> \/ pc[w] = "done" /\ row.status \in Terminal
                       \/ \E v \in Worker : pc[v] = "dead"

\* A stop flag that reached Redis, or without Redis the executing pod, ends
\* the run even if its pipeline hangs.  (~RedisFaults, ~BlockedLoop,
\* ~LostCancels, ~Redelivery; under HangSpec.)
StopEndsRun ==
  \A w \in Worker :
    (stopKey \/ stopLocal[w]) /\ StopAttended(w) ~> ~StopAttended(w)

(* What the repository says of the program and the program does not do.    *)

\* POST /stop answered "requested": the pod that executes the run sees the
\* flag and cancels the pipeline (api/run_events.py:4-5).
AcknowledgedStopEndsRun ==
  \A w \in Worker : stopAcked /\ StopAttended(w) ~> ~StopAttended(w)

\* A terminal status is final (domain/fsm/__init__.py:3).
TerminalIsFinal == [][row.status \in Terminal => row.status' = row.status]_vars

\* A row that ends was running before (domain/fsm/__init__.py:3).
EndsOnlyFromRunning ==
  [][row.status' \in Terminal /\ row.status' # row.status
       => row.status = "running"]_vars

=============================================================================
