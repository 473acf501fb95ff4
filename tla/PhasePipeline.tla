---------------------------- MODULE PhasePipeline ----------------------------
(***************************************************************************)
(* One run's pipeline: the graph of PhaseRouter, each node executed by     *)
(* BasePipelineStep.execute, and what it leaves behind: the event log, the *)
(* step details in MongoDB and the rows of t_run_step.  The pipeline may   *)
(* be cancelled at any await, its pod may die, and the run may then be     *)
(* executed again.  RunLifecycle sees of all this only the outcome.        *)
(*                                                                         *)
(* Every await of execute() is a step.  A cancel() that arrives while an   *)
(* insert is under way, after it took effect, is a cancel() before the     *)
(* next await.                                                             *)
(***************************************************************************)
EXTENDS PhaseRouter, FiniteSets, SequencesExt

CONSTANTS
  Faulty,           \* what may fail: a subset of {"mongo", "rows", "events", "handler"}
  MaxFaults,        \* at most so many times, deaths of the pod included
  Shutdowns,        \* the pipeline may be cancelled, the pod may die
  MaxAttempts,      \* executions of the run
  RecursionLimit    \* LangGraph's recursion_limit (25: runtime.py:105 sets none)

ASSUME PipelineAssumption ==
  /\ Faulty \subseteq {"mongo", "rows", "events", "handler"}
  /\ MaxFaults \in Nat
  /\ Shutdowns \in BOOLEAN
  /\ MaxAttempts \in Nat \ {0}
  /\ RecursionLimit \in Nat \ {0}

VARIABLES
  variant,    \* PipelineVariant of the run
  scenarios,  \* the run came with scenarios
  declared,   \* Settings has the three PHASE1_* names that scenario_run reads: the
              \* class in config.py has not, and ignores them in the environment
  mongo,      \* the pods have a MongoDB client: one deployment, one MONGO_ENABLED
  node,       \* the node being executed
  stage,      \* how far execute() is
  state,      \* CascadeState as LangGraph keeps it between nodes
  work,       \* CascadeState as the running step has changed it
  llmCalls,   \* the LLM scope of the step holds calls
  called,     \* history: the step called the LLM
  id,         \* step_id: the number of the step execution
  first,      \* the first step_id of this attempt
  attempt,    \* how often the run was executed
  log,        \* the events emitted: t_run_event_log, but for those that are lost
  details,    \* run_step_details in MongoDB
  rows,       \* t_run_step
  faults,     \* failures so far, and deaths: attempt - 1 of them before this attempt
  outcome     \* how the attempt ended

setting == <<variant, scenarios, declared, mongo>>
place   == <<setting, node, id, first, attempt>>
scope   == <<llmCalls, called>>
records == <<log, details, rows>>
vars    == <<place, stage, state, work, scope, records, faults, outcome>>

Stage == {"enter", "handle", "judge", "judged", "work", "detail", "row", "report",
          "failDetail", "failRow", "failReport"}
Outcome == {"running", "finish", "fail", "cancel", "dead"}

Event == [type : {"step_started", "step_completed", "handler_started",
                  "handler_completed"},
          id : Nat, node : Node, status : {"none", "success", "failed", "pass", "fail"},
          lost : BOOLEAN]
Detail == [id : Nat, status : {"success", "failed"}, calls : BOOLEAN, called : BOOLEAN]
\* ref: mongo_ref is the id of a detail, "noop_..." or NULL.
StepRow == [id : Nat, node : Node, status : {"success", "failed"},
            ref : {"detail", "noop", "none"}]

-----------------------------------------------------------------------------
Init ==
  /\ variant \in Variant
  /\ scenarios \in BOOLEAN
  /\ declared \in BOOLEAN
  /\ declared => scenarios   \* without scenarios they are not read
  /\ mongo \in BOOLEAN
  /\ node = Handlers[1]
  /\ stage = "enter"
  /\ state = InitialState
  /\ work = InitialState
  /\ llmCalls = FALSE
  /\ called = FALSE
  /\ id = 0
  /\ first = 1
  /\ attempt = 1
  /\ log = <<>>
  /\ details = {}
  /\ rows = {}
  /\ faults = 0
  /\ outcome = "running"

At(here) == outcome = "running" /\ stage = here

\* An operation succeeds, or fails within the bounds of Faulty and MaxFaults.
Works == faults' = faults
Fails(kind) == kind \in Faulty /\ faults < MaxFaults /\ faults' = faults + 1

\* RunEventBus.emit: a failed append is logged and forgotten.
Emit(type, i, status) ==
  \E lost \in BOOLEAN :
    /\ IF lost THEN Fails("events") ELSE Works
    /\ log' = Append(log, [type |-> type, id |-> i, node |-> node, status |-> status,
                          lost |-> lost])

-----------------------------------------------------------------------------
(* The scope of a step: what LLMTraceContext buffers                       *)

BeginScope == llmCalls' = FALSE /\ called' = FALSE

\* Slip: only what the LLM has answered is recorded.
SlipRecorded(calls, raised) == called' = calls /\ llmCalls' = (calls /\ ~raised)

\* TraceDecorator records what the LLM answered, and what it raised.
Recorded(calls, raised) == called' = calls /\ llmCalls' = calls

\* end_scope empties the buffer, whatever becomes of what was in it.
EndScope == llmCalls' = FALSE

-----------------------------------------------------------------------------
(* execute(), up to the end of _do                                         *)

Enter ==
  /\ At("enter")
  /\ id' = id + 1
  /\ BeginScope
  /\ Emit("step_started", id', "none")
  /\ work' = state
  /\ stage' = IF node \in Handler THEN "handle" ELSE "work"
  /\ UNCHANGED <<setting, node, first, attempt, state, details, rows, outcome>>

HandlerStarts ==
  /\ At("handle")
  /\ Emit("handler_started", id, "none")
  /\ stage' = "judge"
  /\ UNCHANGED <<place, state, work, scope, details, rows, outcome>>

\* structure_check is plain computation.  scenario_run answers "fail" without
\* scenarios, and reads its settings before it calls the LLM.
MayJudge == node = "structure_check" \/ ~scenarios \/ declared
Calls    == node = "scenario_run" /\ scenarios /\ declared
Answers  == IF node = "scenario_run" /\ ~scenarios THEN {"fail"} ELSE {"pass", "fail"}

HandlerAnswers ==
  /\ At("judge")
  /\ MayJudge
  /\ \E answer \in Answers : work' = Judged(work, node, answer)
  /\ Recorded(Calls, FALSE)
  /\ stage' = "judged"
  /\ UNCHANGED <<place, state, records, faults, outcome>>

\* The settings lack the attribute (scenario_run.py:111), or the handler fails:
\* before it called the LLM (a malformed scenario) or after (an LLM timeout).
HandlerRaises ==
  /\ At("judge")
  /\ \/ ~MayJudge /\ Works
     \/ MayJudge /\ Fails("handler")
  /\ \E c \in {FALSE, Calls} : Recorded(c, TRUE)
  /\ stage' = "failDetail"
  /\ UNCHANGED <<place, state, work, records, outcome>>

HandlerCompletes ==
  /\ At("judged")
  /\ Emit("handler_completed", id, work.traces[Len(work.traces)].status)
  /\ stage' = "detail"
  /\ UNCHANGED <<place, state, work, scope, details, rows, outcome>>

Work ==
  /\ At("work")
  /\ work' = Effect(node, work)
  /\ stage' = "detail"
  /\ UNCHANGED <<place, state, scope, records, faults, outcome>>

-----------------------------------------------------------------------------
(* execute(), the records                                                  *)

\* end_scope() twice, then insert_one: what it raises is not caught here, and
\* it may raise after the insert took effect.  Without a client nothing is
\* written, and that is no error.
Insert(status, next, onError) ==
  LET doc == [id |-> id, status |-> status, calls |-> llmCalls, called |-> called]
  IN /\ EndScope
     /\ \/ /\ Works
           /\ details' = details \cup (IF mongo THEN {doc} ELSE {})
           /\ stage' = next
        \/ /\ mongo /\ Fails("mongo")
           /\ details' \in {details, details \cup {doc}}
           /\ stage' = onError

\* Slip: a failed insert is logged and forgotten.
SlipWriteDetail ==
  /\ At("detail")
  /\ Insert("success", "row", "row")
  /\ UNCHANGED <<place, state, work, called, log, rows, outcome>>

WriteDetail ==
  /\ At("detail")
  /\ Insert("success", "row", "failDetail")
  /\ UNCHANGED <<place, state, work, called, log, rows, outcome>>

\* RunStepStore.create never raises.
AddRow(status, ref) ==
  \/ Works /\ rows' = rows \cup {[id |-> id, node |-> node, status |-> status, ref |-> ref]}
  \/ Fails("rows") /\ rows' = rows

\* What write_step_detail returned.
MongoRef == IF mongo THEN "detail" ELSE "noop"

WriteRow ==
  /\ At("row")
  /\ AddRow("success", MongoRef)
  /\ stage' = "report"
  /\ UNCHANGED <<place, state, work, scope, log, details, outcome>>

\* STEP_COMPLETED, then LangGraph merges what the step returns and routes.
Report ==
  /\ At("report")
  /\ Emit("step_completed", id, "success")
  /\ state' = work
  /\ LET next == Route(node, work, variant)
     IN IF next = "END"
        THEN outcome' = "finish" /\ UNCHANGED <<node, stage>>
        ELSE node' = next /\ stage' = "enter" /\ UNCHANGED outcome
  /\ UNCHANGED <<setting, id, first, attempt, work, scope, details, rows>>

\* The except branch: the same records with status failed; when insert_one
\* raises here the row is skipped, but not the event.
\* Slip: it is not in a finally block.
SlipFailDetail ==
  /\ At("failDetail")
  /\ LET doc == [id |-> id, status |-> "failed", calls |-> llmCalls, called |-> called]
     IN \/ /\ Works
           /\ details' = details \cup (IF mongo THEN {doc} ELSE {})
           /\ stage' = "failRow" /\ UNCHANGED outcome
        \/ mongo /\ Fails("mongo") /\ outcome' = "fail" /\ UNCHANGED <<details, stage>>
  /\ llmCalls' = FALSE
  /\ UNCHANGED <<place, state, work, called, log, rows>>

FailDetail ==
  /\ At("failDetail")
  /\ Insert("failed", "failRow", "failReport")
  /\ UNCHANGED <<place, state, work, called, log, rows, outcome>>

FailRow ==
  /\ At("failRow")
  /\ AddRow("failed", "none")
  /\ stage' = "failReport"
  /\ UNCHANGED <<place, state, work, scope, log, details, outcome>>

\* The finally block; then StepFailed, or the second error, ends the graph.
FailReport ==
  /\ At("failReport")
  /\ Emit("step_completed", id, "failed")
  /\ outcome' = "fail"
  /\ UNCHANGED <<place, stage, state, work, scope, details, rows>>

-----------------------------------------------------------------------------
(* Interruptions                                                           *)

\* CancelledError is no Exception: execute() leaves no record of the step.
Cancel ==
  /\ Shutdowns
  /\ outcome = "running"
  /\ stage \notin {"work", "failDetail", "failRow"}
  /\ outcome' = "cancel"
  /\ UNCHANGED <<place, stage, state, work, scope, records, faults>>

\* Except in the except branch, whose finally block still runs.
CancelFailing ==
  /\ Shutdowns
  /\ stage \in {"failDetail", "failRow"}
  /\ outcome = "running"
  /\ Emit("step_completed", id, "failed")
  /\ outcome' = "cancel"
  /\ UNCHANGED <<place, stage, state, work, scope, details, rows>>

\* A death counts as one of MaxFaults.
Die ==
  /\ Shutdowns
  /\ outcome = "running"
  /\ faults < MaxFaults
  /\ faults' = faults + 1
  /\ outcome' = "dead"
  /\ UNCHANGED <<place, stage, state, work, scope, records>>

\* Slip: the node is remembered, the state is not.
SlipTakeOver ==
  /\ outcome = "dead"
  /\ attempt < MaxAttempts
  /\ attempt' = attempt + 1
  /\ first' = id + 1
  /\ stage' = "enter"
  /\ state' = InitialState
  /\ work' = InitialState
  /\ llmCalls' = FALSE
  /\ called' = FALSE
  /\ outcome' = "running"
  /\ UNCHANGED <<setting, id, node, records, faults>>

\* Another pod executes the run.  FULL is compiled without the checkpointer
\* (pipeline.py:128); with one, ainvoke() is still given the initial state,
\* which starts the graph at its entry point.
TakeOver ==
  /\ outcome = "dead"
  /\ attempt < MaxAttempts
  /\ attempt' = attempt + 1
  /\ first' = id + 1
  /\ node' = Handlers[1]
  /\ stage' = "enter"
  /\ state' = InitialState
  /\ work' = InitialState
  /\ llmCalls' = FALSE
  /\ called' = FALSE
  /\ outcome' = "running"
  /\ UNCHANGED <<setting, id, records, faults>>

-----------------------------------------------------------------------------
Next ==
  \/ Enter
  \/ HandlerStarts \/ HandlerAnswers \/ HandlerRaises \/ HandlerCompletes
  \/ Work
  \/ WriteDetail \/ WriteRow \/ Report
  \/ FailDetail \/ FailRow \/ FailReport
  \/ Cancel \/ CancelFailing \/ Die \/ TakeOver

Spec == Init /\ [][Next]_vars

-----------------------------------------------------------------------------
(* Properties.  The comment of each says under which constants it holds.   *)

\* The variables have their types.
TypeOK ==
  /\ variant \in Variant
  /\ scenarios \in BOOLEAN
  /\ declared \in BOOLEAN
  /\ mongo \in BOOLEAN
  /\ node \in Node
  /\ stage \in Stage
  /\ state \in State
  /\ work \in State
  /\ llmCalls \in BOOLEAN
  /\ called \in BOOLEAN
  /\ id \in Nat
  /\ first \in 1..(id + 1)
  /\ attempt \in 1..MaxAttempts
  /\ log \in Seq(Event)
  /\ details \subseteq Detail
  /\ rows \subseteq StepRow
  /\ faults \in 0..MaxFaults
  /\ outcome \in Outcome

\* The verdicts of a pipeline that returned are those its handlers gave:
\* invalid if one of them failed, and then it was the last to run; else
\* valid, after both, and "done" exactly if the variant has a phase 3.  No
\* route, variant or second attempt loses or invents one.  (Always.)
VerdictMatchesTraces ==
  outcome = "finish" =>
    LET given  == [i \in DOMAIN state.traces |-> state.traces[i].handler]
        passed == \A i \in DOMAIN state.traces : state.traces[i].status = "pass"
    IN /\ IsPrefix(given, Handlers)
       /\ passed => given = Handlers
       /\ \A i \in DOMAIN state.traces :
            state.traces[i].status = "fail" => i = Len(state.traces)
       /\ state.phase1 = IF passed THEN "valid" ELSE "invalid"
       /\ state.final = state.phase1
       /\ state.phase3 = IF passed /\ variant = "full" THEN "done" ELSE "none"

\* The state that a pipeline carries along, and the verdicts in it, are those of
\* the handlers at every node, over any routes and attempts.
VerdictSound == TypeOK /\ VerdictMatchesTraces

Emitted(i, type) == {k \in DOMAIN log : log[k].id = i /\ log[k].type = type}

Logged(i, type) == {k \in Emitted(i, type) : ~log[k].lost}

Statuses(i) == {log[k].status : k \in Logged(i, "step_completed")}

\* The event log tells how far a run got: every step but the last of an
\* attempt completed with success, and the last step of a run that failed
\* with "failed", even if nothing could be written about it to MongoDB; only
\* an append that fails leaves a gap.  (base.py:105-163.)
Reported(i, status) ==
  /\ Cardinality(Emitted(i, "step_completed")) = 1
  /\ Statuses(i) \subseteq {status}

StepsReported ==
  /\ \A i \in first..(id - 1) : Reported(i, "success")
  /\ outcome = "finish" => Reported(id, "success")
  /\ outcome = "fail" => Reported(id, "failed")

\* A row of t_run_step never contradicts the event of its step, and its mongo_ref
\* is true: one that names a detail has it in MongoDB, one that says "noop" has
\* none there, and only a failed step has no mongo_ref.
RecordsAgree ==
  \A r \in rows :
    /\ Statuses(r.id) \subseteq {r.status}
    /\ r.ref = "none" <=> r.status = "failed"
    /\ r.ref = "detail" => \E d \in details : d.id = r.id /\ d.status = "success"
    /\ r.ref = "noop" => \A d \in details : d.id # r.id

\* The detail of a step holds the LLM calls made in it, those that raised as
\* well.  The one way to lose them is an insert that fails after the handler
\* has given its verdict: the buffers are empty by then.  (Without a MongoDB
\* client there are no details.)
CallsKeptUnlessAnswered ==
  \A d \in details :
    d.called /\ ~d.calls => d.status = "failed" /\ Emitted(d.id, "handler_completed") # {}

\* The step that reads settings which config.py does not declare.
Undeclared == scenarios /\ ~declared /\ node = "scenario_run"

\* No run fails unless something failed, or unless it has scenarios and the
\* settings are those of config.py: then it always fails, in scenario_run, so that
\* with those settings a pipeline that returns never has any verdict but invalid.
\* There is no other dead end, and a run takes no more steps than LangGraph allows.
FailsOnlyOnFault ==
  /\ outcome = "fail" => faults > attempt - 1 \/ Undeclared
  /\ outcome = "finish" /\ ~declared => state.final = "invalid"
  /\ id + 1 - first <= RecursionLimit

(* What the repository says of the program and the program does not do.    *)

\* Each step that is over has its row (langgraph/run_step_store.py:3).
EveryStepHasRow ==
  \A k \in DOMAIN log :
    log[k].type = "step_completed" /\ ~log[k].lost => \E r \in rows : r.id = log[k].id

\* The detail of a step holds the LLM calls made in it
\* (llm/decorators/trace.py:13-14).
LlmCallsKept == \A d \in details : d.called => d.calls

\* A pod that takes a run over goes on where the other one stopped
\* (langgraph/runtime.py:33): no step of FULL succeeds twice.
StepsNotRepeated ==
  variant = "full" =>
    \A r, s \in rows :
      r.node = s.node /\ r.status = "success" /\ s.status = "success" => r = s

=============================================================================
