------------------------ MODULE PhasePipeline_proof ------------------------
(***************************************************************************)
(* What a run leaves behind, for any faults, any number of executions and  *)
(* any instant of a cancel() or a death: the verdicts, the event log, the  *)
(* step details and the rows of t_run_step.                                *)
(***************************************************************************)
EXTENDS PhasePipeline, FiniteSetTheorems, SequenceTheorems, TLAPS

-----------------------------------------------------------------------------
(* The states a node can be entered with: there are seven.                 *)

CState(decision, issues, compiled, fixIter, phase1, phase3, final, traces) ==
  [decision |-> decision, issues |-> issues, compiled |-> compiled, fixIter |-> fixIter,
   phase1 |-> phase1, phase3 |-> phase3, final |-> final, traces |-> traces]

St(decision, compiled, phase1, phase3, final, traces) ==
  CState(decision, FALSE, compiled, 0, phase1, phase3, final, traces)

\* Before the end of phase 1.
InPhase1(decision, traces) == St(decision, FALSE, "none", "none", "none", traces)

Trace(h, status) == [handler |-> h, status |-> status]
Passed1 == Trace("structure_check", "pass")
Failed1 == Trace("structure_check", "fail")
Passed2 == Trace("scenario_run", "pass")
Failed2 == Trace("scenario_run", "fail")

AllPassed == <<Passed1, Passed2>>
Failing   == {<<Failed1>>, <<Passed1, Failed2>>}

Checked  == InPhase1("handler_pass", <<Passed1>>)
Judged2  == InPhase1("handler_pass", AllPassed)
Bridged  == St("done", FALSE, "valid", "none", "none", AllPassed)
Compiled == St("done", TRUE, "valid", "none", "none", AllPassed)

StateAt(n) ==
  CASE n = "structure_check" -> {InitialState}
    [] n = "scenario_run" -> {Checked}
    [] n = "_phase1_end_invalid" ->
         {InPhase1("handler_fail", ts) : ts \in Failing}
    [] n \in {Bridge, "_phase1_end_valid"} -> {Judged2}
    [] n \in Phase2Nodes \cup {"outer_static_reflector", "sandbox_compiler"} -> {Bridged}
    [] OTHER -> {Compiled}

\* The nodes of a variant that a run can come to.
OnRoute(n, v) ==
  /\ n \in {Bridge} \cup Phase2Nodes \cup Phase3Nodes => v # "phase1_only"
  /\ n = "_phase1_end_valid" => v = "phase1_only"
  /\ n = "_phase2_end_valid" => v = "up_to_phase2"
  /\ n \in Phase3Nodes => v = "full"
  /\ n \notin {"_phase3_end_invalid", "_phase3_end_inconclusive"}

EndNode == {"_phase1_end_valid", "_phase1_end_invalid", "_phase2_end_valid",
            "_phase3_end_valid"}

\* What a step may make of the state.
Results(n, st) ==
  IF n \in Handler THEN {Judged(st, n, answer) : answer \in {"pass", "fail"}}
                   ELSE {Effect(n, st)}

\* How many steps an attempt has taken at most when it executes the node.
Rank(n) ==
  CASE n = "structure_check" -> 1
    [] n = "scenario_run" -> 2
    [] n \in {Bridge, "_phase1_end_valid", "_phase1_end_invalid"} -> 3
    [] n = "code_planner" -> 4
    [] n = "code_generator" -> 5
    [] n = "code_assembler" -> 6
    [] n \in {"_phase2_end_valid", "outer_static_reflector"} -> 7
    [] n = "sandbox_compiler" -> 8
    [] n = "outer_scenario_synthesizer" -> 9
    [] n = "sandbox_executor" -> 10
    [] n = "outer_dynamic_reflector" -> 11
    [] OTHER -> 12

Before == {"enter", "handle", "judge", "work"}
After  == {"judged", "detail", "row", "report"}

\* Where the run is on its route, and what it carries along.
OnItsWay ==
  /\ node \in Handler => stage # "work"
  /\ node \notin Handler => stage \notin {"handle", "judge", "judged"}
  /\ OnRoute(node, variant)
  /\ outcome # "finish" =>
       /\ state \in StateAt(node)
       /\ stage \in Before => work = state
       /\ stage \in After => work \in Results(node, state)
  /\ outcome = "finish" =>
       node \in EndNode /\ \E st \in StateAt(node) : state = Effect(node, st)

-----------------------------------------------------------------------------
(* The records.                                                            *)

Running == outcome = "running"

IdsUpTo(n) == \A k \in DOMAIN log : log[k].id <= n

\* The log has told of every step that is over, and nothing yet of the end of
\* the step under way.
LogSound ==
  /\ IdsUpTo(id)
  /\ \A i \in first..(id - 1) : Reported(i, "success")
  /\ Running /\ stage = "enter" /\ first <= id => Reported(id, "success")
  /\ Running /\ stage # "enter" => Emitted(id, "step_completed") = {} /\ first <= id
  /\ outcome = "finish" => Reported(id, "success")
  /\ outcome = "fail" => Reported(id, "failed")

HasDetail(i) == \E d \in details : d.id = i /\ d.status = "success"

\* What RecordsAgree says of one row.
Agrees(r) ==
  /\ Statuses(r.id) \subseteq {r.status}
  /\ r.ref = "none" <=> r.status = "failed"
  /\ r.ref = "detail" => \E d \in details : d.id = r.id /\ d.status = "success"
  /\ r.ref = "noop" => \A d \in details : d.id # r.id

RowsSound ==
  /\ \A r \in rows : r.id <= id
  /\ Running /\ stage \in {"row", "report"} => HasDetail(id) \/ ~mongo
  /\ ~mongo => details = {}
  /\ Running /\ stage \notin {"enter", "report", "failReport"} =>
       \A r \in rows : r.id # id
  /\ Running /\ stage = "report" => \A r \in rows : r.id = id => r.status = "success"
  /\ Running /\ stage = "failReport" => \A r \in rows : r.id = id => r.status = "failed"

\* The buffers hold the calls of the step until its verdict is given.
BuffersSound ==
  Running =>
    /\ stage = "work" => called = FALSE /\ llmCalls = FALSE
    /\ stage \in {"judged", "detail"} => llmCalls = called
    /\ stage = "detail" /\ called => Emitted(id, "handler_completed") # {}
    /\ stage = "failDetail" =>
         llmCalls = called \/ Emitted(id, "handler_completed") # {}

\* Deaths are counted by attempt, and what else went wrong by faults.
FaultsCounted ==
  /\ faults >= attempt - 1
  /\ outcome = "dead" => faults > attempt - 1
  /\ Running /\ stage \in {"failDetail", "failRow", "failReport"} =>
       faults > attempt - 1 \/ Undeclared
  /\ outcome = "fail" => faults > attempt - 1 \/ Undeclared

\* With the settings of config.py no route leads past phase 1, nor to its valid end.
OnlyInvalid ==
  ~declared =>
    /\ node \in {"structure_check", "scenario_run", "_phase1_end_invalid"}
    /\ Running /\ node = "scenario_run" /\ stage \in After =>
         work = Judged(state, node, "fail")

PathBounded ==
  IF Running /\ stage = "enter" THEN id + 2 - first <= Rank(node)
                                ELSE id + 1 - first <= Rank(node)

\* The inductive invariant.
IInv == /\ TypeOK /\ OnItsWay /\ LogSound /\ RowsSound /\ RecordsAgree
        /\ BuffersSound /\ CallsKeptUnlessAnswered /\ FaultsCounted /\ OnlyInvalid
        /\ PathBounded

-----------------------------------------------------------------------------
(* The route, node by node.                                                *)

LEMMA StatesTyped ==
  ASSUME NEW st \in State, NEW n \in Node
  PROVE  /\ Effect(n, st) \in State
         /\ \A h \in Handler, answer \in {"pass", "fail"} : Judged(st, h, answer) \in State
<1>1. Effect(n, st) \in State
  BY DEF State, Effect, Verdict, Phase3Verdict, Decision, Bridge
<1>2. ASSUME NEW h \in Handler, NEW answer \in {"pass", "fail"}
      PROVE  Judged(st, h, answer) \in State
  <2> DEFINE trace == [handler |-> h, status |-> answer]
  <2>1. trace \in HandlerTrace
    BY DEF HandlerTrace
  <2>2. st.traces \in Seq(HandlerTrace)
    BY DEF State
  <2> HIDE DEF trace
  <2>3. Append(st.traces, trace) \in Seq(HandlerTrace)
    BY <2>1, <2>2, AppendProperties
  <2>4. Judged(st, h, answer)
          = [st EXCEPT !.traces = Append(st.traces, trace),
                       !.decision = IF answer = "pass" THEN "handler_pass"
                                                       ELSE "handler_fail"]
    BY DEF Judged, trace
  <2> QED
    BY <2>3, <2>4 DEF State, Decision
<1> QED
  BY <1>1, <1>2

LEMMA AppendOne ==
  ASSUME NEW S, NEW x \in S, NEW y \in S
  PROVE  Append(<<x>>, y) = <<x, y>>
<1> DEFINE one == <<x>>
           two == <<x, y>>
           longer == Append(one, y)
<1>1. one \in Seq(S) /\ Len(one) = 1 /\ one[1] = x
  OBVIOUS
<1>2. two \in Seq(S) /\ Len(two) = 2 /\ two[1] = x /\ two[2] = y
  OBVIOUS
<1> HIDE DEF one, two
<1>3. longer \in Seq(S) /\ Len(longer) = 2 /\ longer[1] = x /\ longer[2] = y
  BY <1>1, AppendProperties DEF one
<1> HIDE DEF longer
<1>4. \A i \in 1..Len(longer) : longer[i] = two[i]
  BY <1>2, <1>3
<1>5. longer = two
  BY <1>2, <1>3, <1>4, SeqEqual
<1> QED
  BY <1>5 DEF longer, one, two

\* What HandlerStep._do sets.
Noted(st, ts, verdict) == [st EXCEPT !.traces = ts, !.decision = verdict]

LEMMA TwoFields ==
  ASSUME NEW d, NEW i, NEW c, NEW x, NEW p, NEW q, NEW f, NEW t, NEW ts, NEW verdict,
         NEW st, st = CState(d, i, c, x, p, q, f, t)
  PROVE  Noted(st, ts, verdict) = CState(verdict, i, c, x, p, q, f, ts)
<1> DEFINE one == [st EXCEPT !.traces = ts]
<1>1. one = CState(d, i, c, x, p, q, f, ts)
  BY DEF CState
<1> HIDE DEF one
<1>2. [one EXCEPT !.decision = verdict] = CState(verdict, i, c, x, p, q, f, ts)
  BY <1>1 DEF CState
<1> QED
  BY <1>2 DEF one, Noted

\* The first handler and the second, whatever they answer.
LEMMA HandlersJudge ==
  /\ Judged(InitialState, "structure_check", "pass") = Checked
  /\ Judged(InitialState, "structure_check", "fail")
       = InPhase1("handler_fail", <<Failed1>>)
  /\ Judged(Checked, "scenario_run", "pass") = Judged2
  /\ Judged(Checked, "scenario_run", "fail")
       = InPhase1("handler_fail", <<Passed1, Failed2>>)
<1>1. \A x : Append(<<>>, x) = <<x>>
  OBVIOUS
<1>2. \A x, y : Append(<<x>>, y) = <<x, y>>
  <2> TAKE x, y
  <2>1. x \in {x, y} /\ y \in {x, y}
    OBVIOUS
  <2> QED
    BY <2>1, AppendOne
<1>3. ASSUME NEW decision, NEW ts, NEW h
      PROVE  /\ Judged(InPhase1(decision, ts), h, "pass")
                  = InPhase1("handler_pass", Append(ts, Trace(h, "pass")))
             /\ Judged(InPhase1(decision, ts), h, "fail")
                  = InPhase1("handler_fail", Append(ts, Trace(h, "fail")))
  <2> DEFINE st == InPhase1(decision, ts)
             no == FALSE
  <2>1. st.traces = ts
    BY DEF InPhase1, St, CState
  <2>2. st = CState(decision, no, no, 0, "none", "none", "none", ts)
    BY DEF InPhase1, St
  <2>3. \A longer, verdict :
          InPhase1(verdict, longer)
            = CState(verdict, no, no, 0, "none", "none", "none", longer)
    BY DEF InPhase1, St
  <2> HIDE DEF st, no
  <2>4. \A longer, verdict : Noted(st, longer, verdict) = InPhase1(verdict, longer)
    BY <2>2, <2>3, TwoFields
  <2>5. /\ Judged(st, h, "pass") = Noted(st, Append(ts, Trace(h, "pass")), "handler_pass")
        /\ Judged(st, h, "fail") = Noted(st, Append(ts, Trace(h, "fail")), "handler_fail")
    BY <2>1 DEF Judged, Trace, Noted
  <2>6. /\ Judged(st, h, "pass") = InPhase1("handler_pass", Append(ts, Trace(h, "pass")))
        /\ Judged(st, h, "fail") = InPhase1("handler_fail", Append(ts, Trace(h, "fail")))
    BY <2>4, <2>5, Zenon
  <2> QED
    BY <2>6 DEF st
<1>4. InitialState = InPhase1("in_progress", <<>>)
  BY DEF InitialState, InPhase1, St, CState
<1>5. /\ Judged(InitialState, "structure_check", "pass") = InPhase1("handler_pass", <<Passed1>>)
      /\ Judged(InitialState, "structure_check", "fail") = InPhase1("handler_fail", <<Failed1>>)
  <2> DEFINE empty == <<>>
             st == InPhase1("in_progress", empty)
  <2>1. /\ Judged(st, "structure_check", "pass")
             = InPhase1("handler_pass", Append(empty, Trace("structure_check", "pass")))
        /\ Judged(st, "structure_check", "fail")
             = InPhase1("handler_fail", Append(empty, Trace("structure_check", "fail")))
    <3> HIDE DEF empty
    <3> QED
      BY <1>3
  <2> HIDE DEF st
  <2> QED
    BY <1>1, <1>4, <2>1, Zenon DEF Passed1, Failed1, st
<1>6. /\ Judged(Checked, "scenario_run", "pass")
           = InPhase1("handler_pass", <<Passed1, Passed2>>)
      /\ Judged(Checked, "scenario_run", "fail")
           = InPhase1("handler_fail", <<Passed1, Failed2>>)
  <2>1. /\ Judged(Checked, "scenario_run", "pass")
             = InPhase1("handler_pass", Append(<<Passed1>>, Trace("scenario_run", "pass")))
        /\ Judged(Checked, "scenario_run", "fail")
             = InPhase1("handler_fail", Append(<<Passed1>>, Trace("scenario_run", "fail")))
    BY <1>3, Zenon DEF Checked
  <2> QED
    BY <1>2, <2>1, Zenon DEF Passed2, Failed2
<1> QED
  BY <1>5, <1>6 DEF Checked, Judged2, AllPassed

LEMMA StatesAt ==
  /\ StateAt("structure_check") = {InitialState}
  /\ StateAt("scenario_run") = {Checked}
  /\ StateAt("_phase1_end_invalid")
       = {InPhase1("handler_fail", ts) : ts \in Failing}
  /\ \A n \in {Bridge, "_phase1_end_valid"} : StateAt(n) = {Judged2}
  /\ \A n \in Phase2Nodes \cup {"outer_static_reflector", "sandbox_compiler"} :
       StateAt(n) = {Bridged}
  /\ \A n \in {"outer_scenario_synthesizer", "sandbox_executor", "outer_dynamic_reflector",
               "_phase3_end_valid"} : StateAt(n) = {Compiled}
BY DEF StateAt, Bridge, Phase2Nodes

LEMMA Ranks ==
  /\ \A n \in Node : Rank(n) \in 1..12
  /\ Rank("structure_check") = 1
  /\ Rank("scenario_run") = 2
  /\ \A n \in {Bridge, "_phase1_end_valid", "_phase1_end_invalid"} : Rank(n) = 3
  /\ Rank("code_planner") = 4
  /\ Rank("code_generator") = 5
  /\ Rank("code_assembler") = 6
  /\ \A n \in {"_phase2_end_valid", "outer_static_reflector"} : Rank(n) = 7
  /\ Rank("sandbox_compiler") = 8
  /\ Rank("outer_scenario_synthesizer") = 9
  /\ Rank("sandbox_executor") = 10
  /\ Rank("outer_dynamic_reflector") = 11
  /\ Rank("_phase3_end_valid") = 12
BY DEF Rank, Bridge

\* Where the variants part.
LEMMA OnRoutes ==
  /\ \A n \in {"structure_check", "scenario_run", "_phase1_end_invalid"}, v \in Variant :
       OnRoute(n, v)
  /\ OnRoute("_phase1_end_valid", "phase1_only")
  /\ \A n \in {Bridge, "code_planner", "code_generator", "code_assembler"},
        v \in Variant \ {"phase1_only"} : OnRoute(n, v)
  /\ OnRoute("_phase2_end_valid", "up_to_phase2")
  /\ \A n \in Phase3Nodes \ {"_phase3_end_invalid", "_phase3_end_inconclusive"} :
       OnRoute(n, "full")
BY DEF OnRoute, Bridge, Phase2Nodes, Phase3Nodes

\* Whatever a step makes of the state, the graph goes on to a node that the
\* state is right for, closer to the end, or ends at a node for it.
Good(n, v, w, st) ==
  LET next == Route(n, w, v)
  IN \/ next = "END" /\ n \in EndNode /\ w = Effect(n, st)
     \/ /\ next # "END"
        /\ next \in Node
        /\ OnRoute(next, v)
        /\ w \in StateAt(next)
        /\ Rank(next) > Rank(n)

LEMMA RouteIsGood ==
  ASSUME NEW n \in Node, NEW v \in Variant, OnRoute(n, v),
         NEW st \in StateAt(n), NEW w \in Results(n, st)
  PROVE  Good(n, v, w, st)
<1>1. Node = {"structure_check", "scenario_run", Bridge, "_phase1_end_valid",
              "_phase1_end_invalid", "code_planner", "code_generator", "code_assembler",
              "_phase2_end_valid", "outer_static_reflector", "sandbox_compiler",
              "outer_scenario_synthesizer", "sandbox_executor", "outer_dynamic_reflector",
              "_phase3_end_valid", "_phase3_end_invalid", "_phase3_end_inconclusive"}
  BY DEF Node, Phase1Nodes, Phase2Nodes, Phase3Nodes, Handler
\* What is left to show of a node that is not an end.
<1> DEFINE GoesTo(next) == /\ next # "END" /\ next \in Node /\ Route(n, w, v) = next
                          /\ OnRoute(next, v)
                          /\ w \in StateAt(next) /\ Rank(next) > Rank(n)
<1>2. ASSUME NEW next, GoesTo(next) PROVE Good(n, v, w, st)
  BY <1>2 DEF Good
<1>3. Bridge = "_phase1_bridge" /\ v \in {"phase1_only", "up_to_phase2", "full"}
  BY DEF Bridge, Variant
<1>4. n \in Handler => Route(n, w, v) = AfterHandler(n, w, v)
  BY DEF Route, Handler, Bridge
<1>5. w.decision = "handler_fail" => AfterHandler(n, w, v) = "_phase1_end_invalid"
  BY DEF AfterHandler
<1>6. CASE n = "structure_check"
  <2>1. n \in Handler /\ st = InitialState
    BY <1>6, StatesAt DEF Handler
  <2>2. w = Checked \/ w = InPhase1("handler_fail", <<Failed1>>)
    BY <1>6, <2>1, HandlersJudge DEF Results
  <2>3. CASE w = Checked
    <3>1. w.decision # "handler_fail" /\ n = Handlers[1] /\ Handlers[2] = "scenario_run"
      BY <1>6, <2>3 DEF Handlers, Checked, InPhase1, St, CState
    <3>2. Route(n, w, v) = "scenario_run"
      <4>1. AfterHandler(n, w, v) = Handlers[2]
        BY <3>1 DEF AfterHandler
      <4> QED
        BY <1>4, <2>1, <3>1, <4>1
    <3>3. GoesTo("scenario_run")
      BY <1>1, <1>6, <2>3, <3>2, StatesAt, Ranks, OnRoutes
    <3> QED
      BY <1>2, <3>3
  <2>4. CASE w = InPhase1("handler_fail", <<Failed1>>)
    <3>1. w.decision = "handler_fail"
      BY <2>4 DEF InPhase1, St, CState
    <3>2. Route(n, w, v) = "_phase1_end_invalid"
      BY <1>4, <1>5, <2>1, <3>1
    <3>3. w \in StateAt("_phase1_end_invalid")
      BY <2>4, StatesAt DEF Failing
    <3>4. GoesTo("_phase1_end_invalid")
      BY <1>1, <1>6, <3>2, <3>3, Ranks, OnRoutes
    <3> QED
      BY <1>2, <3>4
  <2> QED
    BY <2>2, <2>3, <2>4
<1>7. CASE n = "scenario_run"
  <2>1. n \in Handler /\ st = Checked
    BY <1>7, StatesAt DEF Handler
  <2>2. w = Judged2
        \/ w = InPhase1("handler_fail", <<Passed1, Failed2>>)
    BY <1>7, <2>1, HandlersJudge DEF Results
  <2>3. CASE w = Judged2
    <3>1. w.decision # "handler_fail" /\ n # Handlers[1]
      BY <1>7, <2>3 DEF Handlers, Judged2, InPhase1, St, CState
    <3>2. Route(n, w, v) = IF v = "phase1_only" THEN "_phase1_end_valid" ELSE Bridge
      BY <1>7, <1>3, <2>1, <3>1 DEF Route, AfterHandler
    <3>3. CASE v = "phase1_only"
      <4>1. GoesTo("_phase1_end_valid")
        BY <1>1, <1>7, <2>3, <3>2, <3>3, StatesAt, Ranks, OnRoutes
      <4> QED
        BY <1>2, <4>1
    <3>4. CASE v # "phase1_only"
      <4>1. GoesTo(Bridge)
        BY <1>1, <1>3, <1>7, <2>3, <3>2, <3>4, StatesAt, Ranks, OnRoutes
      <4> QED
        BY <1>2, <4>1
    <3> QED
      BY <3>3, <3>4
  <2>4. CASE w = InPhase1("handler_fail", <<Passed1, Failed2>>)
    <3>1. w.decision = "handler_fail"
      BY <2>4 DEF InPhase1, St, CState
    <3>2. Route(n, w, v) = "_phase1_end_invalid"
      BY <1>4, <1>5, <2>1, <3>1
    <3>3. w \in StateAt("_phase1_end_invalid")
      BY <2>4, StatesAt DEF Failing
    <3>4. GoesTo("_phase1_end_invalid")
      BY <1>1, <1>7, <3>2, <3>3, Ranks, OnRoutes
    <3> QED
      BY <1>2, <3>4
  <2> QED
    BY <2>2, <2>3, <2>4
<1>8. CASE n \in EndNode
  <2>1. n \notin Handler
    BY <1>8 DEF EndNode, Handler
  <2>2. Route(n, w, v) = "END"
    BY <1>8, <2>1 DEF EndNode, Route, Bridge
  <2> QED
    BY <1>8, <2>1, <2>2 DEF Good, Results
<1>9. CASE n = Bridge
  <2>1. n \notin Handler /\ st = Judged2 /\ v \in Variant \ {"phase1_only"}
    BY <1>9, <1>3, StatesAt DEF Handler, OnRoute
  <2>2. w = Bridged
    BY <1>9, <1>3, <2>1 DEF Results, Effect, Judged2, Bridged, InPhase1, St, CState
  <2>3. Route(n, w, v) = "code_planner"
    BY <1>9, <1>3, <2>1 DEF Route
  <2>4. GoesTo("code_planner")
    <3>1. w \in StateAt("code_planner")
      BY <2>2, StatesAt DEF Phase2Nodes
    <3> QED
      BY <1>1, <1>9, <2>1, <2>3, <3>1, Ranks, OnRoutes
  <2> QED
    BY <1>2, <2>4
<1>10. CASE n \in {"code_planner", "code_generator", "code_assembler",
                  "outer_static_reflector"}
  <2>1. n \notin Handler /\ st = Bridged
    BY <1>10, StatesAt DEF Handler, Phase2Nodes
  <2>2. w = Bridged
    BY <1>10, <1>3, <2>1 DEF Results, Effect, Bridged, InPhase1, St, CState
  <2>3. w.issues = FALSE
    BY <2>2 DEF Bridged, InPhase1, St, CState
  <2>4. v # "phase1_only" /\ (n = "outer_static_reflector" => v = "full")
    BY <1>10 DEF OnRoute, Phase2Nodes, Phase3Nodes
  <2>5. CASE n = "code_planner"
    <3>1. Route(n, w, v) = "code_generator"
      BY <2>5, <1>3 DEF Route, Handler
    <3>2. GoesTo("code_generator")
      BY <1>1, <1>3, <2>2, <2>4, <2>5, <3>1, StatesAt, Ranks, OnRoutes DEF Phase2Nodes
    <3> QED
      BY <1>2, <3>2
  <2>6. CASE n = "code_generator"
    <3>1. Route(n, w, v) = "code_assembler"
      BY <2>6, <1>3 DEF Route, Handler
    <3>2. GoesTo("code_assembler")
      BY <1>1, <1>3, <2>2, <2>4, <2>6, <3>1, StatesAt, Ranks, OnRoutes DEF Phase2Nodes
    <3> QED
      BY <1>2, <3>2
  <2>7. CASE n = "code_assembler" /\ v = "up_to_phase2"
    <3>1. Route(n, w, v) = "_phase2_end_valid"
      BY <2>7, <1>3 DEF Route, Handler, AfterAssembler
    <3>2. GoesTo("_phase2_end_valid")
      BY <1>1, <1>3, <2>2, <2>7, <3>1, StatesAt, Ranks, OnRoutes DEF Phase2Nodes
    <3> QED
      BY <1>2, <3>2
  <2>8. CASE n = "code_assembler" /\ v = "full"
    <3>1. Route(n, w, v) = "outer_static_reflector"
      BY <2>8, <1>3 DEF Route, Handler, AfterAssembler
    <3>2. GoesTo("outer_static_reflector")
      BY <1>1, <1>3, <2>2, <2>8, <3>1, StatesAt, Ranks, OnRoutes DEF Phase3Nodes
    <3> QED
      BY <1>2, <3>2
  <2>9. CASE n = "outer_static_reflector"
    <3>1. Route(n, w, v) = "sandbox_compiler"
      BY <2>3, <2>9, <1>3 DEF Route, Handler, AfterStatic
    <3>2. GoesTo("sandbox_compiler")
      BY <1>1, <1>3, <2>2, <2>4, <2>9, <3>1, StatesAt, Ranks, OnRoutes DEF Phase3Nodes
    <3> QED
      BY <1>2, <3>2
  <2> QED
    BY <1>10, <1>3, <2>4, <2>5, <2>6, <2>7, <2>8, <2>9
<1>11. CASE n \in {"sandbox_compiler", "outer_scenario_synthesizer", "sandbox_executor",
                  "outer_dynamic_reflector"}
  <2>1. n \notin Handler /\ st \in {Bridged, Compiled}
        /\ (n # "sandbox_compiler" => st = Compiled)
    BY <1>11, StatesAt DEF Handler
  <2>2. w = Compiled
    BY <1>11, <1>3, <2>1 DEF Results, Effect, Bridged, Compiled, InPhase1, St, CState
  <2>3. w.compiled = TRUE /\ w.decision = "done"
    BY <2>2 DEF Compiled, InPhase1, St, CState
  <2>4. v = "full"
    BY <1>11 DEF OnRoute, Phase3Nodes
  <2>5. CASE n = "sandbox_compiler"
    <3>1. Route(n, w, v) = "outer_scenario_synthesizer"
      BY <2>3, <2>5, <1>3 DEF Route, Handler, AfterCompiler
    <3>2. GoesTo("outer_scenario_synthesizer")
      BY <1>1, <2>2, <2>4, <2>5, <3>1, StatesAt, Ranks, OnRoutes DEF Phase3Nodes
    <3> QED
      BY <1>2, <3>2
  <2>6. CASE n = "outer_scenario_synthesizer"
    <3>1. Route(n, w, v) = "sandbox_executor"
      BY <2>6, <1>3 DEF Route, Handler
    <3>2. GoesTo("sandbox_executor")
      BY <1>1, <2>2, <2>4, <2>6, <3>1, StatesAt, Ranks, OnRoutes DEF Phase3Nodes
    <3> QED
      BY <1>2, <3>2
  <2>7. CASE n = "sandbox_executor"
    <3>1. Route(n, w, v) = "outer_dynamic_reflector"
      BY <2>7, <1>3 DEF Route, Handler
    <3>2. GoesTo("outer_dynamic_reflector")
      BY <1>1, <2>2, <2>4, <2>7, <3>1, StatesAt, Ranks, OnRoutes DEF Phase3Nodes
    <3> QED
      BY <1>2, <3>2
  <2>8. CASE n = "outer_dynamic_reflector"
    <3>1. Route(n, w, v) = "_phase3_end_valid"
      BY <2>3, <2>8, <1>3 DEF Route, Handler, AfterDynamic
    <3>2. GoesTo("_phase3_end_valid")
      BY <1>1, <2>2, <2>4, <2>8, <3>1, StatesAt, Ranks, OnRoutes DEF Phase3Nodes
    <3> QED
      BY <1>2, <3>2
  <2> QED
    BY <1>11, <2>5, <2>6, <2>7, <2>8
<1> QED
  BY <1>1, <1>6, <1>7, <1>8, <1>9, <1>10, <1>11 DEF OnRoute, EndNode

-----------------------------------------------------------------------------
(* One more event, or none.                                                *)

LEMMA EmitAppends ==
  ASSUME TypeOK,
         NEW type \in {"step_started", "step_completed", "handler_started",
                       "handler_completed"},
         NEW i \in Nat,
         NEW status \in {"none", "success", "failed", "pass", "fail"},
         Emit(type, i, status)
  PROVE  /\ log' \in Seq(Event)
         /\ Len(log') = Len(log) + 1
         /\ \A k \in 1..Len(log) : log'[k] = log[k]
         /\ log'[Len(log) + 1].id = i
         /\ log'[Len(log) + 1].type = type
         /\ log'[Len(log) + 1].status = status
         /\ faults' \in 0..MaxFaults /\ faults' >= faults
<1>1. PICK lost \in BOOLEAN :
        /\ IF lost THEN Fails("events") ELSE Works
        /\ log' = Append(log, [type |-> type, id |-> i, node |-> node, status |-> status,
                              lost |-> lost])
  BY Zenon DEF Emit
<1> DEFINE e == [type |-> type, id |-> i, node |-> node, status |-> status, lost |-> lost]
<1>2. e \in Event
  BY DEF Event, TypeOK
<1>3. e.id = i /\ e.type = type /\ e.status = status
  OBVIOUS
<1>4. log \in Seq(Event) /\ log' = Append(log, e)
  BY <1>1 DEF TypeOK
<1> HIDE DEF e
<1>5. /\ log' \in Seq(Event) /\ Len(log') = Len(log) + 1
      /\ \A k \in 1..Len(log) : log'[k] = log[k]
      /\ log'[Len(log) + 1] = e
  BY <1>2, <1>4, AppendProperties
<1>6. faults' \in 0..MaxFaults /\ faults' >= faults
  BY <1>1, PipelineAssumption DEF Fails, Works, TypeOK
<1> QED
  BY <1>3, <1>5, <1>6

\* What it does to the sets that the properties are about.
LEMMA EmitShows ==
  ASSUME TypeOK,
         NEW type \in {"step_started", "step_completed", "handler_started",
                       "handler_completed"},
         NEW i \in Nat,
         NEW status \in {"none", "success", "failed", "pass", "fail"},
         Emit(type, i, status)
  PROVE  /\ \A j, t : Emitted(j, t) \subseteq Emitted(j, t)'
         /\ \A j, t : j # i \/ t # type => Emitted(j, t)' = Emitted(j, t)
         /\ \A j : j # i \/ type # "step_completed" => Statuses(j)' = Statuses(j)
         /\ \A j, s : j # i \/ type # "step_completed" => Reported(j, s)' = Reported(j, s)
         /\ Emitted(i, type)' # {}
         /\ type = "step_completed" /\ Emitted(i, type) = {} =>
              Reported(i, status)' /\ Statuses(i)' \subseteq {status}
         /\ \A n : IdsUpTo(n) /\ i <= n => IdsUpTo(n)'
<1> DEFINE new == Len(log) + 1
<1>1. /\ log' \in Seq(Event) /\ Len(log') = new
      /\ \A k \in 1..Len(log) : log'[k] = log[k]
      /\ log'[new].id = i /\ log'[new].type = type /\ log'[new].status = status
  BY EmitAppends
<1>2. DOMAIN log = 1..Len(log) /\ DOMAIN log' = 1..new /\ Len(log) \in Nat
  BY <1>1 DEF TypeOK
<1>3. DOMAIN log' = DOMAIN log \cup {new} /\ new \notin DOMAIN log
  BY <1>2
<1> HIDE DEF new
<1>4. \A k \in DOMAIN log : log'[k] = log[k]
  BY <1>1, <1>2
<1>5. \A j, t : Emitted(j, t)' = Emitted(j, t) \cup (IF j = i /\ t = type THEN {new} ELSE {})
  BY <1>1, <1>3, <1>4 DEF Emitted
<1>6. ASSUME NEW j, j # i \/ type # "step_completed" PROVE Statuses(j)' = Statuses(j)
  <2>1. Emitted(j, "step_completed")' = Emitted(j, "step_completed")
    BY <1>5, <1>6
  <2>2. \A k \in Emitted(j, "step_completed") : log'[k] = log[k]
    BY <1>4 DEF Emitted
  <2>3. Logged(j, "step_completed")' = Logged(j, "step_completed")
    BY <2>1, <2>2 DEF Logged
  <2>4. Logged(j, "step_completed") \subseteq Emitted(j, "step_completed")
    BY DEF Logged
  <2> QED
    BY <2>2, <2>3, <2>4 DEF Statuses
<1>7. ASSUME NEW j, j # i \/ type # "step_completed", NEW s
      PROVE  Reported(j, s)' = Reported(j, s)
  <2>1. Emitted(j, "step_completed")' = Emitted(j, "step_completed")
    BY <1>5, <1>7
  <2> QED
    BY <1>6, <1>7, <2>1 DEF Reported
<1>8. ASSUME type = "step_completed", Emitted(i, type) = {}
      PROVE  Reported(i, status)' /\ Statuses(i)' \subseteq {status}
  <2>1. Emitted(i, "step_completed")' = {new}
    BY <1>5, <1>8
  <2>2. Cardinality({new}) = 1
    BY FS_Singleton
  <2>3. Statuses(i)' \subseteq {status}
    BY <1>1, <2>1 DEF Statuses, Logged
  <2> QED
    BY <2>1, <2>2, <2>3 DEF Reported
<1>9. \A n : IdsUpTo(n) /\ i <= n => IdsUpTo(n)'
  BY <1>1, <1>3, <1>4 DEF IdsUpTo
<1> QED
  BY <1>5, <1>6, <1>7, <1>8, <1>9

LEMMA QuietShows ==
  ASSUME log' = log
  PROVE  /\ \A j, t : Emitted(j, t)' = Emitted(j, t)
         /\ \A j : Statuses(j)' = Statuses(j)
         /\ \A j, s : Reported(j, s)' = Reported(j, s)
         /\ \A n : IdsUpTo(n)' = IdsUpTo(n)
<1>1. \A j, t : Emitted(j, t)' = Emitted(j, t)
  BY DEF Emitted
<1>2. \A j, t : Logged(j, t)' = Logged(j, t)
  BY <1>1 DEF Logged
<1>3. \A j : Statuses(j)' = Statuses(j)
  BY <1>2 DEF Statuses
<1> QED
  BY <1>1, <1>3 DEF Reported, IdsUpTo

-----------------------------------------------------------------------------
(* The steps, one invariant after the other.                               *)

LEMMA InitInv == Init => IInv
<1> SUFFICES ASSUME Init PROVE IInv
  OBVIOUS
<1>1. log = <<>> /\ DOMAIN log = {} /\ log \in Seq(Event)
  BY DEF Init
<1>2. InitialState \in State
  BY DEF InitialState, State, Decision, Verdict, Phase3Verdict
<1>3. node = "structure_check" /\ node \in Node
  BY DEF Init, Handlers, Node, Phase1Nodes, Handler
<1>4. TypeOK
  <2>1. /\ id \in Nat /\ first \in 1..(id + 1) /\ attempt \in 1..MaxAttempts
        /\ faults \in 0..MaxFaults
    BY PipelineAssumption DEF Init
  <2>2. /\ llmCalls \in BOOLEAN /\ called \in BOOLEAN /\ scenarios \in BOOLEAN
        /\ declared \in BOOLEAN /\ mongo \in BOOLEAN
    BY DEF Init
  <2>3. stage \in Stage /\ outcome \in Outcome /\ variant \in Variant
    BY DEF Init, Stage, Outcome
  <2>4. state \in State /\ work \in State /\ details \subseteq Detail /\ rows \subseteq StepRow
    BY <1>2 DEF Init
  <2> QED
    BY <1>1, <1>3, <2>1, <2>2, <2>3, <2>4 DEF TypeOK
<1>5. OnItsWay
  <2>1. OnRoute(node, variant) /\ state \in StateAt(node)
    BY <1>3, OnRoutes, StatesAt DEF Init
  <2> QED
    BY <1>3, <2>1 DEF Init, OnItsWay, Handler, After
<1>6. LogSound
  BY <1>1 DEF Init, LogSound, Running, IdsUpTo
<1>7. RowsSound /\ RecordsAgree /\ BuffersSound /\ CallsKeptUnlessAnswered
  BY DEF Init, RowsSound, RecordsAgree, BuffersSound, CallsKeptUnlessAnswered, Running
<1>8. FaultsCounted
  BY DEF Init, FaultsCounted, Running
<1>9. PathBounded
  BY <1>3, Ranks DEF Init, PathBounded, Running
<1>10. OnlyInvalid
  BY <1>3 DEF Init, OnlyInvalid, After
<1> QED
  BY <1>4, <1>5, <1>6, <1>7, <1>8, <1>9, <1>10 DEF IInv

\* Insert: the buffers are empty after it, and it is the record of this step.
LEMMA InsertKeeps ==
  ASSUME TypeOK,
         NEW status \in {"success", "failed"}, NEW next \in Stage, NEW onError \in Stage,
         Insert(status, next, onError)
  PROVE  /\ llmCalls' = FALSE
         /\ details \subseteq details' /\ details' \subseteq Detail
         /\ \A d \in details' : d \in details \/ d = [id |-> id, status |-> status,
                                                   calls |-> llmCalls, called |-> called]
         /\ faults' \in 0..MaxFaults
         /\ ~mongo => details' = details
         /\ \/ stage' = next /\ faults' = faults
               /\ (mongo => [id |-> id, status |-> status, calls |-> llmCalls,
                            called |-> called] \in details')
            \/ stage' = onError /\ faults' = faults + 1
<1> DEFINE doc == [id |-> id, status |-> status, calls |-> llmCalls, called |-> called]
<1>1. doc \in Detail
  BY DEF Detail, TypeOK
<1>2. /\ llmCalls' = FALSE
      /\ \/ mongo /\ Works /\ details' = details \cup {doc} /\ stage' = next
         \/ ~mongo /\ Works /\ details' = details /\ stage' = next
         \/ /\ mongo /\ Fails("mongo")
            /\ details' \in {details, details \cup {doc}} /\ stage' = onError
  BY DEF Insert, EndScope
<1>3. faults \in 0..MaxFaults /\ MaxFaults \in Nat /\ details \subseteq Detail
  BY PipelineAssumption DEF TypeOK
<1> HIDE DEF doc
<1>4. CASE mongo /\ Works /\ details' = details \cup {doc} /\ stage' = next
  BY <1>1, <1>2, <1>3, <1>4 DEF Works, doc
<1>5. CASE ~mongo /\ Works /\ details' = details /\ stage' = next
  BY <1>1, <1>2, <1>3, <1>5 DEF Works, doc
<1>6. CASE /\ mongo /\ Fails("mongo")
           /\ details' \in {details, details \cup {doc}} /\ stage' = onError
  BY <1>1, <1>2, <1>3, <1>6 DEF Fails, doc
<1> QED
  BY <1>2, <1>4, <1>5, <1>6

LEMMA AddRowKeeps ==
  ASSUME TypeOK, NEW status \in {"success", "failed"},
         NEW ref \in {"detail", "noop", "none"}, AddRow(status, ref)
  PROVE  /\ rows' \subseteq StepRow
         /\ \A r \in rows' : r \in rows \/ (r.id = id /\ r.status = status /\ r.ref = ref)
         /\ faults' \in 0..MaxFaults /\ faults' >= faults
<1> DEFINE row == [id |-> id, node |-> node, status |-> status, ref |-> ref]
<1>1. row \in StepRow /\ row.id = id /\ row.status = status /\ row.ref = ref
  BY DEF StepRow, TypeOK
<1>2. faults \in 0..MaxFaults /\ MaxFaults \in Nat /\ rows \subseteq StepRow
  BY PipelineAssumption DEF TypeOK
<1>3. \/ faults' = faults /\ rows' = rows \cup {row}
      \/ faults < MaxFaults /\ faults' = faults + 1 /\ rows' = rows
  BY DEF AddRow, Works, Fails
<1> HIDE DEF row
<1> QED
  BY <1>1, <1>2, <1>3

\* handler_completed tells the answer of the handler.
LEMMA AnswerIsLast ==
  ASSUME TypeOK, OnItsWay, At("judged")
  PROVE  work.traces[Len(work.traces)].status \in {"pass", "fail"}
<1>1. node \in Handler /\ work \in Results(node, state)
  BY DEF At, TypeOK, OnItsWay, After
<1>2. PICK answer \in {"pass", "fail"} : work = Judged(state, node, answer)
  BY <1>1 DEF Results
<1> DEFINE trace == [handler |-> node, status |-> answer]
<1>3. trace \in HandlerTrace /\ trace.status = answer
  BY <1>1 DEF HandlerTrace
<1>4. state.traces \in Seq(HandlerTrace) /\ state \in State
  BY DEF State, TypeOK
<1>5. work.traces = Append(state.traces, trace)
  BY <1>2, <1>4 DEF Judged, State
<1> HIDE DEF trace
<1>6. work.traces[Len(work.traces)] = trace
  BY <1>3, <1>4, <1>5, AppendProperties
<1> QED
  BY <1>3, <1>6

LEMMA TypesKeep ==
  ASSUME TypeOK, OnItsWay, Next PROVE TypeOK'
<1> USE DEF TypeOK, place, setting, scope, records, At, Stage, Outcome
<1>1. MaxFaults \in Nat /\ MaxAttempts \in Nat
  BY PipelineAssumption
<1>2. CASE Enter
  <2>1. id + 1 \in Nat /\ id' = id + 1
    BY <1>2 DEF Enter
  <2>2. Emit("step_started", id + 1, "none")
    BY <1>2, <2>1 DEF Enter
  <2>3. log' \in Seq(Event) /\ faults' \in 0..MaxFaults
    BY <2>1, <2>2, EmitAppends
  <2>4. id' \in Nat /\ first' \in 1..(id' + 1) /\ stage' \in Stage
    BY <1>2, <2>1 DEF Enter
  <2>5. llmCalls' \in BOOLEAN /\ called' \in BOOLEAN
    BY <1>2 DEF Enter, BeginScope
  <2> QED
    BY <1>2, <2>3, <2>4, <2>5 DEF Enter
<1>3. CASE HandlerStarts
  <2>1. log' \in Seq(Event) /\ faults' \in 0..MaxFaults
    BY <1>3, EmitAppends DEF HandlerStarts
  <2> QED
    BY <1>3, <2>1 DEF HandlerStarts
<1>4. CASE HandlerAnswers
  <2>1. node \in Handler
    BY <1>4 DEF HandlerAnswers, OnItsWay
  <2>2. PICK answer \in Answers : work' = Judged(work, node, answer)
    BY <1>4 DEF HandlerAnswers
  <2>3. work' \in State
    BY <2>1, <2>2, StatesTyped DEF Answers
  <2>4. llmCalls' \in BOOLEAN /\ called' \in BOOLEAN
    BY <1>4 DEF HandlerAnswers, Recorded, Calls
  <2> QED
    BY <1>4, <2>3, <2>4 DEF HandlerAnswers
<1>5. CASE HandlerRaises
  <2>1. llmCalls' \in BOOLEAN /\ called' \in BOOLEAN
    BY <1>5 DEF HandlerRaises, Recorded, Calls
  <2>2. faults' \in 0..MaxFaults
    BY <1>1, <1>5 DEF HandlerRaises, Works, Fails
  <2> QED
    BY <1>5, <2>1, <2>2 DEF HandlerRaises
<1>6. CASE HandlerCompletes
  <2>1. work.traces[Len(work.traces)].status \in {"pass", "fail"}
    BY <1>6, AnswerIsLast DEF HandlerCompletes
  <2>2. log' \in Seq(Event) /\ faults' \in 0..MaxFaults
    BY <1>6, <2>1, EmitAppends DEF HandlerCompletes
  <2> QED
    BY <1>6, <2>2 DEF HandlerCompletes
<1>7. CASE Work
  BY <1>7, StatesTyped DEF Work
<1>8. CASE WriteDetail
  <2>1. /\ details' \subseteq Detail /\ faults' \in 0..MaxFaults /\ llmCalls' = FALSE
        /\ stage' \in {"row", "failDetail"}
    BY <1>8, InsertKeeps DEF WriteDetail
  <2> QED
    BY <1>8, <2>1 DEF WriteDetail
<1>9. CASE WriteRow
  BY <1>9, AddRowKeeps DEF WriteRow, MongoRef
<1>10. CASE Report
  <2>1. log' \in Seq(Event) /\ faults' \in 0..MaxFaults
    BY <1>10, EmitAppends DEF Report
  <2>2. Good(node, variant, work, state)
    BY <1>10, RouteIsGood DEF Report, OnItsWay, After
  <2>3. node' \in Node /\ stage' \in Stage /\ outcome' \in Outcome
    BY <1>10, <2>2 DEF Report, Good
  <2> QED
    BY <1>10, <2>1, <2>3 DEF Report
<1>11. CASE FailDetail
  <2>1. /\ details' \subseteq Detail /\ faults' \in 0..MaxFaults /\ llmCalls' = FALSE
        /\ stage' \in {"failRow", "failReport"}
    BY <1>11, InsertKeeps DEF FailDetail
  <2> QED
    BY <1>11, <2>1 DEF FailDetail
<1>12. CASE FailRow
  BY <1>12, AddRowKeeps DEF FailRow
<1>13. CASE FailReport
  <2>1. log' \in Seq(Event) /\ faults' \in 0..MaxFaults
    BY <1>13, EmitAppends DEF FailReport
  <2> QED
    BY <1>13, <2>1 DEF FailReport
<1>14. CASE Cancel
  BY <1>14 DEF Cancel
<1>15. CASE CancelFailing
  <2>1. log' \in Seq(Event) /\ faults' \in 0..MaxFaults
    BY <1>15, EmitAppends DEF CancelFailing
  <2> QED
    BY <1>15, <2>1 DEF CancelFailing
<1>16. CASE Die
  BY <1>1, <1>16 DEF Die
<1>17. CASE TakeOver
  <2>1. InitialState \in State /\ Handlers[1] \in Node
    BY DEF InitialState, State, Decision, Verdict, Phase3Verdict, Handlers, Node,
           Phase1Nodes, Handler
  <2>2. first' \in 1..(id' + 1) /\ attempt' \in 1..MaxAttempts
    BY <1>1, <1>17 DEF TakeOver
  <2>3. llmCalls' \in BOOLEAN /\ called' \in BOOLEAN /\ stage' \in Stage /\ outcome' \in Outcome
    BY <1>17 DEF TakeOver
  <2> QED
    BY <1>17, <2>1, <2>2, <2>3 DEF TakeOver
<1> QED
  BY <1>2, <1>3, <1>4, <1>5, <1>6, <1>7, <1>8, <1>9, <1>10, <1>11, <1>12, <1>13, <1>14,
     <1>15, <1>16, <1>17 DEF Next

\* The run stays on its route, and what it carries along is of its node.
LEMMA WayKeeps ==
  ASSUME TypeOK, OnItsWay, PathBounded, Next
  PROVE  OnItsWay' /\ PathBounded'
<1> USE DEF place, setting, scope, records, At, Before, After
<1>1. /\ id \in Nat /\ first \in Nat /\ first <= id + 1 /\ Rank(node) \in Nat
      /\ stage \in Stage /\ outcome \in Outcome /\ node \in Node
  BY Ranks DEF TypeOK
<1> USE DEF Stage, Outcome
<1>2. CASE Enter
  <2>1. work' = state' /\ state' = state /\ node' = node /\ variant' = variant
        /\ stage' = IF node \in Handler THEN "handle" ELSE "work"
    BY <1>2 DEF Enter
  <2>2. OnItsWay'
    BY <1>2, <2>1 DEF Enter, OnItsWay
  <2>3. PathBounded'
    BY <1>1, <1>2, <2>1 DEF Enter, PathBounded, Running
  <2> QED
    BY <2>2, <2>3
<1>3. CASE HandlerStarts
  BY <1>1, <1>3 DEF HandlerStarts, OnItsWay, PathBounded, Running
<1>4. CASE HandlerAnswers
  <2>1. node \in Handler /\ work = state
    BY <1>4 DEF HandlerAnswers, OnItsWay
  <2>2. work' \in Results(node, state)
    BY <1>4, <2>1 DEF HandlerAnswers, Answers, Results
  <2> QED
    BY <1>1, <1>4, <2>2 DEF HandlerAnswers, OnItsWay, PathBounded, Running
<1>5. CASE HandlerRaises
  BY <1>1, <1>5 DEF HandlerRaises, OnItsWay, PathBounded, Running
<1>6. CASE HandlerCompletes
  BY <1>1, <1>6 DEF HandlerCompletes, OnItsWay, PathBounded, Running
<1>7. CASE Work
  <2>1. node \notin Handler /\ work = state
    BY <1>7 DEF Work, OnItsWay
  <2>2. work' \in Results(node, state)
    BY <1>7, <2>1 DEF Work, Results
  <2> QED
    BY <1>1, <1>7, <2>2 DEF Work, OnItsWay, PathBounded, Running
<1>8. CASE WriteDetail
  <2>1. stage' \in {"row", "failDetail"}
    BY <1>8 DEF WriteDetail, Insert
  <2> QED
    BY <1>1, <1>8, <2>1 DEF WriteDetail, OnItsWay, PathBounded, Running
<1>9. CASE WriteRow
  BY <1>1, <1>9 DEF WriteRow, OnItsWay, PathBounded, Running
<1>10. CASE Report
  <2>1. /\ state \in StateAt(node) /\ work \in Results(node, state)
        /\ OnRoute(node, variant) /\ variant \in Variant
    BY <1>10 DEF Report, OnItsWay, TypeOK
  <2>2. Good(node, variant, work, state)
    BY <1>1, <2>1, RouteIsGood
  <2> DEFINE next == Route(node, work, variant)
  <2>3. /\ state' = work /\ variant' = variant /\ id' = id /\ first' = first
        /\ IF next = "END"
           THEN outcome' = "finish" /\ UNCHANGED <<node, stage>>
           ELSE node' = next /\ stage' = "enter" /\ UNCHANGED outcome
        /\ stage = "report" /\ outcome = "running" /\ work' = work
    BY <1>10 DEF Report
  <2>4. CASE next = "END"
    <3>1. node \in EndNode /\ work = Effect(node, state)
      BY <2>2, <2>4 DEF Good
    <3>2. OnItsWay'
      BY <2>1, <2>3, <2>4, <3>1 DEF OnItsWay
    <3>3. PathBounded'
      BY <1>1, <2>3, <2>4 DEF PathBounded, Running
    <3> QED
      BY <3>2, <3>3
  <2>5. CASE next # "END"
    <3>1. /\ next \in Node /\ OnRoute(next, variant) /\ work \in StateAt(next)
          /\ Rank(next) > Rank(node)
      BY <2>2, <2>5 DEF Good
    <3>2. Rank(next) \in Nat
      BY <3>1, Ranks
    <3>3. /\ node' = next /\ stage' = "enter" /\ outcome' = "running"
      BY <2>3, <2>5
    <3> HIDE DEF next
    <3>4. OnItsWay'
      BY <2>3, <3>1, <3>3 DEF OnItsWay
    <3>5. PathBounded'
      BY <1>1, <2>3, <3>1, <3>2, <3>3 DEF PathBounded, Running
    <3> QED
      BY <3>4, <3>5
  <2> QED
    BY <2>4, <2>5
<1>11. CASE FailDetail
  <2>1. stage' \in {"failRow", "failReport"}
    BY <1>11 DEF FailDetail, Insert
  <2> QED
    BY <1>1, <1>11, <2>1 DEF FailDetail, OnItsWay, PathBounded, Running
<1>12. CASE FailRow
  BY <1>1, <1>12 DEF FailRow, OnItsWay, PathBounded, Running
<1>13. CASE FailReport
  BY <1>1, <1>13 DEF FailReport, OnItsWay, PathBounded, Running
<1>14. CASE Cancel
  BY <1>1, <1>14 DEF Cancel, OnItsWay, PathBounded, Running
<1>15. CASE CancelFailing
  BY <1>1, <1>15 DEF CancelFailing, OnItsWay, PathBounded, Running
<1>16. CASE Die
  BY <1>1, <1>16 DEF Die, OnItsWay, PathBounded, Running
<1>17. CASE TakeOver
  <2>1. node' = "structure_check" /\ state' = InitialState /\ work' = state'
        /\ stage' = "enter" /\ outcome' = "running" /\ variant' = variant
        /\ id' = id /\ first' = id + 1
    BY <1>17 DEF TakeOver, Handlers
  <2>2. OnRoute(node', variant') /\ state' \in StateAt(node') /\ Rank(node') = 1
    BY <2>1, OnRoutes, StatesAt, Ranks DEF TypeOK
  <2>3. OnItsWay'
    BY <2>1, <2>2 DEF OnItsWay, Handler
  <2>4. PathBounded'
    BY <1>1, <2>1, <2>2 DEF PathBounded, Running
  <2> QED
    BY <2>3, <2>4
<1> QED
  BY <1>2, <1>3, <1>4, <1>5, <1>6, <1>7, <1>8, <1>9, <1>10, <1>11, <1>12, <1>13, <1>14,
     <1>15, <1>16, <1>17 DEF Next

\* The log: a step is told to be over once, with its status, and before the
\* next one.
LEMMA LogKeeps ==
  ASSUME TypeOK, OnItsWay, LogSound, Next PROVE LogSound'
<1> USE DEF place, setting, scope, records, At, Running
<1>1. id \in Nat /\ first \in Nat /\ first <= id + 1
  BY DEF TypeOK
<1> PICK n \in Nat : n = id
  BY <1>1
<1>2. CASE Enter
  <2> PICK m \in Nat : m = n + 1
    OBVIOUS
  <2>1. /\ id' = m /\ first' = first /\ outcome' = "running" /\ stage' # "enter"
        /\ outcome = "running" /\ stage = "enter"
    BY <1>1, <1>2 DEF Enter
  <2>2. Emit("step_started", m, "none")
    BY <1>2, <2>1 DEF Enter
  <2>3. /\ \A j, s : Reported(j, s)' = Reported(j, s)
        /\ Emitted(m, "step_completed")' = Emitted(m, "step_completed")
        /\ IdsUpTo(m) => IdsUpTo(m)'
    BY <2>2, EmitShows
  <2>4. /\ IdsUpTo(n)
        /\ \A i \in first..(n - 1) : Reported(i, "success")
        /\ first <= n => Reported(n, "success")
    BY <2>1 DEF LogSound
  <2>5. \A k \in DOMAIN log : log[k].id \in Nat
    <3>1. log \in Seq(Event)
      BY DEF TypeOK
    <3>2. \A k \in DOMAIN log : log[k] \in Event
      BY <3>1
    <3> QED
      BY <3>2 DEF Event
  <2>6. Emitted(m, "step_completed") = {} /\ IdsUpTo(m)
    BY <2>4, <2>5 DEF Emitted, IdsUpTo
  <2>7. IdsUpTo(m)' /\ Emitted(m, "step_completed")' = {}
    BY <2>3, <2>6
  <2>8. \A i \in first..(m - 1) : Reported(i, "success")'
    BY <1>1, <2>3, <2>4
  <2> QED
    BY <1>1, <2>1, <2>7, <2>8 DEF LogSound
<1>3. ASSUME Running, stage # "enter",
             NEW status \in {"success", "failed"},
             Emit("step_completed", id, status)
      PROVE  /\ IdsUpTo(n)'
             /\ \A i \in first..(n - 1) : Reported(i, "success")'
             /\ Reported(n, status)'
             /\ first <= n
  <2>1. Emitted(n, "step_completed") = {} /\ first <= n /\ IdsUpTo(n)
        /\ \A i \in first..(n - 1) : Reported(i, "success")
    BY <1>3 DEF LogSound
  <2>2. Emit("step_completed", n, status)
    BY <1>3
  <2>3. /\ \A j : j # n => \A s : Reported(j, s)' = Reported(j, s)
        /\ Reported(n, status)'
        /\ IdsUpTo(n)'
    <3>1. ASSUME NEW j, j # n, NEW s PROVE Reported(j, s)' = Reported(j, s)
      BY <2>2, <3>1, EmitShows
    <3>2. Reported(n, status)'
      BY <2>1, <2>2, EmitShows
    <3>3. IdsUpTo(n)'
      BY <2>1, <2>2, EmitShows
    <3> QED
      BY <3>1, <3>2, <3>3
  <2>4. \A i \in first..(n - 1) : Reported(i, "success")'
    BY <1>1, <2>1, <2>3
  <2> QED
    BY <2>1, <2>3, <2>4
<1>4. ASSUME Running, stage # "enter", id' = id, first' = first, outcome' = "running",
             stage' # "enter",
             \/ log' = log
             \/ \E type \in {"handler_started", "handler_completed"},
                   status \in {"none", "pass", "fail"} : Emit(type, id, status)
      PROVE  LogSound'
  <2>1. /\ \A j, s : Reported(j, s)' = Reported(j, s)
        /\ Emitted(n, "step_completed")' = Emitted(n, "step_completed")
        /\ IdsUpTo(n) => IdsUpTo(n)'
    <3>1. CASE log' = log
      BY <3>1, QuietShows
    <3>2. CASE \E type \in {"handler_started", "handler_completed"},
                  status \in {"none", "pass", "fail"} : Emit(type, id, status)
      <4>1. PICK type \in {"handler_started", "handler_completed"},
                 status \in {"none", "pass", "fail"} : Emit(type, n, status)
        BY <3>2
      <4> QED
        BY <4>1, EmitShows
    <3> QED
      BY <1>4, <3>1, <3>2
  <2> QED
    BY <1>4, <2>1 DEF LogSound
<1>5. CASE HandlerStarts
  BY <1>4, <1>5 DEF HandlerStarts
<1>6. CASE HandlerAnswers
  BY <1>4, <1>6 DEF HandlerAnswers
<1>7. CASE HandlerRaises
  BY <1>4, <1>7 DEF HandlerRaises
<1>8. CASE HandlerCompletes
  BY <1>4, <1>8, AnswerIsLast DEF HandlerCompletes
<1>9. CASE Work
  BY <1>4, <1>9 DEF Work
<1>10. CASE WriteDetail
  <2>1. stage' \in {"row", "failDetail"}
    BY <1>10 DEF WriteDetail, Insert
  <2> QED
    BY <1>4, <1>10, <2>1 DEF WriteDetail
<1>11. CASE WriteRow
  BY <1>4, <1>11 DEF WriteRow
<1>12. CASE Report
  <2>1. /\ IdsUpTo(n)' /\ first <= n
        /\ \A i \in first..(n - 1) : Reported(i, "success")'
        /\ Reported(n, "success")'
    BY <1>3, <1>12 DEF Report
  <2>2. /\ id' = id /\ first' = first
        /\ \/ outcome' = "finish"
           \/ outcome' = "running" /\ stage' = "enter"
    BY <1>12 DEF Report
  <2> QED
    BY <2>1, <2>2 DEF LogSound
<1>13. CASE FailDetail
  <2>1. stage' \in {"failRow", "failReport"}
    BY <1>13 DEF FailDetail, Insert
  <2> QED
    BY <1>4, <1>13, <2>1 DEF FailDetail
<1>14. CASE FailRow
  BY <1>4, <1>14 DEF FailRow
<1>15. CASE FailReport
  <2>1. /\ IdsUpTo(n)'
        /\ \A i \in first..(n - 1) : Reported(i, "success")'
        /\ Reported(n, "failed")'
    BY <1>3, <1>15 DEF FailReport
  <2> QED
    BY <1>15, <2>1 DEF FailReport, LogSound
<1>16. CASE Cancel
  BY <1>16, QuietShows DEF Cancel, LogSound
<1>17. CASE CancelFailing
  <2>1. /\ IdsUpTo(n)'
        /\ \A i \in first..(n - 1) : Reported(i, "success")'
    BY <1>3, <1>17 DEF CancelFailing
  <2> QED
    BY <1>17, <2>1 DEF CancelFailing, LogSound
<1>18. CASE Die
  BY <1>18, QuietShows DEF Die, LogSound
<1>19. CASE TakeOver
  <2>1. /\ id' = id /\ first' = id + 1 /\ stage' = "enter" /\ outcome' = "running"
        /\ log' = log
    BY <1>19 DEF TakeOver
  <2>2. IdsUpTo(n)'
    BY <2>1, QuietShows DEF LogSound
  <2> QED
    BY <1>1, <2>1, <2>2 DEF LogSound
<1> QED
  BY <1>2, <1>5, <1>6, <1>7, <1>8, <1>9, <1>10, <1>11, <1>12, <1>13, <1>14, <1>15, <1>16,
     <1>17, <1>18, <1>19 DEF Next

\* The rows: none before the step is at its row, one of its status after it.
LEMMA RowsKeep ==
  ASSUME TypeOK, OnItsWay, LogSound, RowsSound, RecordsAgree, Next
  PROVE  RowsSound' /\ RecordsAgree'
<1> USE DEF place, setting, scope, records, At, Running
<1>1. id \in Nat /\ stage \in Stage /\ \A r \in rows : r.id \in Nat
  BY DEF TypeOK, StepRow
<1> USE DEF Stage
<1> PICK n \in Nat : n = id
  BY <1>1
<1>2. Running /\ stage # "enter" => Statuses(n) = {}
  BY DEF LogSound, Statuses, Logged
<1>3. ASSUME details \subseteq details', NEW j, HasDetail(j) PROVE HasDetail(j)'
  BY <1>3 DEF HasDetail
\* What is said of the rows stays true while they stay, and so do the statuses.
<1>4. ASSUME rows' = rows, details \subseteq details',
             \A d \in details' : d \in details \/ \A r \in rows : d.id # r.id,
             \A j : Statuses(j)' = Statuses(j)
      PROVE  RecordsAgree'
  <2> SUFFICES ASSUME NEW r \in rows
               PROVE  Agrees(r)'
    BY <1>4 DEF RecordsAgree, Agrees
  <2>1. Agrees(r)
    BY DEF RecordsAgree, Agrees
  <2>2. r.ref = "noop" => \A d \in details' : d.id # r.id
    BY <1>4, <2>1 DEF Agrees
  <2> QED
    BY <1>4, <2>1, <2>2 DEF Agrees
<1>5. ASSUME Running, stage # "enter", NEW status \in {"success", "failed"},
             Emit("step_completed", id, status), rows' = rows, details' = details,
             \A r \in rows : r.id = id => r.status = status
      PROVE  RecordsAgree'
  <2>1. Emit("step_completed", n, status) /\ Emitted(n, "step_completed") = {}
    BY <1>5 DEF LogSound
  <2>2. Statuses(n)' \subseteq {status}
    BY <2>1, EmitShows
  <2>3. \A j : j # n => Statuses(j)' = Statuses(j)
    BY <2>1, EmitShows
  <2> SUFFICES ASSUME NEW r \in rows
               PROVE  Agrees(r)'
    BY <1>5 DEF RecordsAgree, Agrees
  <2>4. Agrees(r)
    BY DEF RecordsAgree, Agrees
  <2> USE DEF Agrees
  <2>5. CASE r.id = n
    BY <1>5, <2>2, <2>4, <2>5
  <2>6. CASE r.id # n
    BY <1>5, <2>3, <2>4, <2>6
  <2> QED
    BY <2>5, <2>6
<1>6. ASSUME NEW type \in {"step_started", "handler_started", "handler_completed"},
             NEW i \in Nat, NEW status \in {"none", "pass", "fail"}, Emit(type, i, status)
      PROVE  \A j : Statuses(j)' = Statuses(j)
  BY <1>6, EmitShows
<1>7. CASE Enter
  <2>1. /\ id' = n + 1 /\ rows' = rows /\ details' = details /\ mongo' = mongo
        /\ stage' \notin {"enter", "row", "report", "failReport"}
    BY <1>7 DEF Enter
  <2>2. RowsSound'
    BY <1>1, <2>1 DEF RowsSound
  <2>3. PICK m \in Nat : m = id'
    BY <2>1
  <2>4. Emit("step_started", m, "none")
    BY <1>7, <2>3 DEF Enter
  <2> QED
    BY <1>4, <1>6, <2>1, <2>2, <2>4
<1>8. CASE HandlerStarts
  <2>1. RecordsAgree'
    BY <1>1, <1>4, <1>6, <1>8 DEF HandlerStarts
  <2> QED
    BY <1>8, <2>1 DEF HandlerStarts, RowsSound
<1>9. CASE HandlerAnswers
  <2>1. RecordsAgree'
    BY <1>4, <1>9, QuietShows DEF HandlerAnswers
  <2> QED
    BY <1>9, <2>1 DEF HandlerAnswers, RowsSound
<1>10. CASE HandlerRaises
  <2>1. RecordsAgree'
    BY <1>4, <1>10, QuietShows DEF HandlerRaises
  <2> QED
    BY <1>10, <2>1 DEF HandlerRaises, RowsSound
<1>11. CASE HandlerCompletes
  <2> DEFINE answer == work.traces[Len(work.traces)].status
  <2>1. answer \in {"pass", "fail"}
    BY <1>11, AnswerIsLast DEF HandlerCompletes
  <2>2. Emit("handler_completed", id, answer)
    BY <1>11 DEF HandlerCompletes
  <2> HIDE DEF answer
  <2>3. RecordsAgree'
    BY <1>1, <1>4, <1>6, <1>11, <2>1, <2>2 DEF HandlerCompletes
  <2> QED
    BY <1>11, <2>3 DEF HandlerCompletes, RowsSound
<1>12. CASE Work
  <2>1. RecordsAgree'
    BY <1>4, <1>12, QuietShows DEF Work
  <2> QED
    BY <1>12, <2>1 DEF Work, RowsSound
<1>13. CASE WriteDetail
  <2> DEFINE doc == [id |-> id, status |-> "success", calls |-> llmCalls, called |-> called]
  <2>1. /\ details \subseteq details' /\ \A d \in details' : d \in details \/ d = doc
        /\ ~mongo => details' = details
        /\ \/ stage' = "row" /\ (mongo => doc \in details')
           \/ stage' = "failDetail"
    BY <1>13, InsertKeeps DEF WriteDetail
  <2>2. doc.id = n /\ doc.status = "success"
    OBVIOUS
  <2> HIDE DEF doc
  <2>5. \A r \in rows : r.id <= n /\ r.id # n
    BY <1>13 DEF WriteDetail, RowsSound
  <2>3. RecordsAgree'
    <3>1. rows' = rows /\ log' = log
      BY <1>13 DEF WriteDetail
    <3>2. \A d \in details' : d \in details \/ \A r \in rows : d.id # r.id
      BY <2>1, <2>2, <2>5
    <3> QED
      BY <1>4, <2>1, <3>1, <3>2, QuietShows
  <2>4. stage' = "row" /\ mongo => HasDetail(n)'
    BY <2>1, <2>2 DEF HasDetail
  <2> QED
    BY <1>13, <2>1, <2>3, <2>4, <2>5 DEF WriteDetail, RowsSound
<1>14. CASE WriteRow
  <2>1. \A r \in rows' : r \in rows \/ (r.id = n /\ r.status = "success" /\ r.ref = MongoRef)
    BY <1>14, AddRowKeeps DEF WriteRow, MongoRef
  <2>2. /\ Running /\ stage = "row" /\ stage' = "report" /\ id' = n /\ details' = details
        /\ log' = log /\ mongo' = mongo
    BY <1>14 DEF WriteRow
  <2>3. /\ HasDetail(n) \/ ~mongo
        /\ ~mongo => details = {}
        /\ \A r \in rows : r.id <= n /\ r.id # n
    BY <2>2 DEF RowsSound
  <2>4. HasDetail(n)' \/ ~mongo
    BY <1>3, <2>2, <2>3
  <2>5. RowsSound'
    BY <2>1, <2>2, <2>3, <2>4 DEF RowsSound
  <2>6. ASSUME NEW r \in rows'
        PROVE  Agrees(r)'
    <3>1. \A j : Statuses(j)' = Statuses(j)
      BY <2>2, QuietShows
    <3>2. CASE r \in rows
      BY <2>2, <3>1, <3>2 DEF RecordsAgree, Agrees
    <3>3. CASE r.id = n /\ r.status = "success" /\ r.ref = MongoRef
      <4>1. Statuses(n)' = {}
        BY <1>2, <2>2, <3>1
      <4>2. mongo => \E d \in details' : d.id = n /\ d.status = "success"
        BY <2>2, <2>3 DEF HasDetail
      <4>3. ~mongo => details' = {}
        BY <2>2, <2>3
      <4> QED
        BY <3>3, <4>1, <4>2, <4>3 DEF Agrees, MongoRef
    <3> QED
      BY <2>1, <3>2, <3>3
  <2> QED
    BY <2>5, <2>6 DEF RecordsAgree, Agrees
<1>15. CASE Report
  <2>1. RecordsAgree'
    <3>1. \A r \in rows : r.id = id => r.status = "success"
      BY <1>15 DEF Report, RowsSound
    <3> QED
      BY <1>15, <1>5, <3>1 DEF Report
  <2>2. /\ rows' = rows /\ id' = id /\ details' = details /\ mongo' = mongo
        /\ outcome' = "finish" \/ stage' = "enter"
    BY <1>15 DEF Report
  <2> QED
    BY <2>1, <2>2 DEF RowsSound
<1>16. CASE FailDetail
  <2>1. /\ details \subseteq details' /\ stage' \in {"failRow", "failReport"}
        /\ \A d \in details' : d \in details \/ d.id = n
        /\ ~mongo => details' = details
    <3> DEFINE doc == [id |-> id, status |-> "failed", calls |-> llmCalls, called |-> called]
    <3>1. /\ details \subseteq details' /\ stage' \in {"failRow", "failReport"}
          /\ \A d \in details' : d \in details \/ d = doc
          /\ ~mongo => details' = details
      BY <1>16, InsertKeeps DEF FailDetail
    <3>2. doc.id = n
      OBVIOUS
    <3> HIDE DEF doc
    <3> QED
      BY <3>1, <3>2
  <2>3. \A r \in rows : r.id <= n /\ r.id # n
    BY <1>16 DEF FailDetail, RowsSound
  <2>2. RecordsAgree'
    <3>1. rows' = rows /\ log' = log
      BY <1>16 DEF FailDetail
    <3>2. \A d \in details' : d \in details \/ \A r \in rows : d.id # r.id
      BY <2>1, <2>3
    <3> QED
      BY <1>4, <2>1, <3>1, <3>2, QuietShows
  <2> QED
    BY <1>16, <2>1, <2>2, <2>3 DEF FailDetail, RowsSound
<1>17. CASE FailRow
  <2>1. \A r \in rows' : r \in rows \/ (r.id = n /\ r.status = "failed" /\ r.ref = "none")
    BY <1>17, AddRowKeeps DEF FailRow
  <2>2. /\ Running /\ stage = "failRow" /\ stage' = "failReport" /\ id' = n
        /\ details' = details /\ log' = log /\ mongo' = mongo
    BY <1>17 DEF FailRow
  <2>3. \A r \in rows : r.id <= n /\ r.id # n
    BY <2>2 DEF RowsSound
  <2>4. RowsSound'
    <3>1. ~mongo => details = {}
      BY DEF RowsSound
    <3> QED
      BY <2>1, <2>2, <2>3, <3>1 DEF RowsSound
  <2>5. ASSUME NEW r \in rows'
        PROVE  Agrees(r)'
    <3>1. \A j : Statuses(j)' = Statuses(j)
      BY <2>2, QuietShows
    <3>2. CASE r \in rows
      BY <2>2, <3>1, <3>2 DEF RecordsAgree, Agrees
    <3>3. CASE r.id = n /\ r.status = "failed" /\ r.ref = "none"
      <4>1. Statuses(n)' = {}
        BY <1>2, <2>2, <3>1
      <4> QED
        BY <3>3, <4>1 DEF Agrees
    <3> QED
      BY <2>1, <3>2, <3>3
  <2> QED
    BY <2>4, <2>5 DEF RecordsAgree, Agrees
<1>18. CASE FailReport
  <2>1. \A r \in rows : r.id = id => r.status = "failed"
    BY <1>18 DEF FailReport, RowsSound
  <2>2. RecordsAgree'
    BY <1>18, <1>5, <2>1 DEF FailReport
  <2> QED
    BY <1>18, <2>2 DEF FailReport, RowsSound
<1>19. CASE Cancel
  <2>1. RecordsAgree'
    BY <1>4, <1>19, QuietShows DEF Cancel
  <2> QED
    BY <1>19, <2>1 DEF Cancel, RowsSound
<1>20. CASE CancelFailing
  <2>1. \A r \in rows : r.id = id => r.status = "failed"
    BY <1>20 DEF CancelFailing, RowsSound
  <2>2. RecordsAgree'
    BY <1>20, <1>5, <2>1 DEF CancelFailing
  <2> QED
    BY <1>20, <2>2 DEF CancelFailing, RowsSound
<1>21. CASE Die
  <2>1. RecordsAgree'
    BY <1>4, <1>21, QuietShows DEF Die
  <2> QED
    BY <1>21, <2>1 DEF Die, RowsSound
<1>22. CASE TakeOver
  <2>1. RecordsAgree'
    BY <1>4, <1>22, QuietShows DEF TakeOver
  <2> QED
    BY <1>22, <2>1 DEF TakeOver, RowsSound
<1> QED
  BY <1>7, <1>8, <1>9, <1>10, <1>11, <1>12, <1>13, <1>14, <1>15, <1>16, <1>17, <1>18, <1>19,
     <1>20, <1>21, <1>22 DEF Next

\* The LLM calls: lost only by an insert that fails after the verdict.
LEMMA CallsKeep ==
  ASSUME TypeOK, OnItsWay, BuffersSound, CallsKeptUnlessAnswered, Next
  PROVE  BuffersSound' /\ CallsKeptUnlessAnswered'
<1> USE DEF place, setting, scope, records, At, Running
<1>1. id \in Nat /\ stage \in Stage
  BY DEF TypeOK
<1> USE DEF Stage
<1> PICK n \in Nat : n = id
  BY <1>1
<1> DEFINE Lost(d) == d.called /\ ~ d.calls
           Excused(d) == d.status = "failed" /\ Emitted(d.id, "handler_completed") # {}
<1>2. \A d \in details : Lost(d) => Excused(d)
  BY DEF CallsKeptUnlessAnswered
<1>3. ASSUME \A j, t : Emitted(j, t) \subseteq Emitted(j, t)',
             NEW d, Excused(d)
      PROVE  d.status = "failed" /\ Emitted(d.id, "handler_completed")' # {}
  BY <1>3
<1>4. ASSUME details' = details, \A j, t : Emitted(j, t) \subseteq Emitted(j, t)'
      PROVE  CallsKeptUnlessAnswered'
  <2>1. \A d \in details' :
          Lost(d) => d.status = "failed" /\ Emitted(d.id, "handler_completed")' # {}
    <3> HIDE DEF Lost, Excused
    <3> QED
      BY <1>2, <1>3, <1>4
  <2> QED
    BY <2>1 DEF CallsKeptUnlessAnswered
<1>5. log' = log => \A j, t : Emitted(j, t) \subseteq Emitted(j, t)'
  BY QuietShows
<1>6. ASSUME NEW type \in {"step_started", "step_completed", "handler_started",
                           "handler_completed"},
             NEW i \in Nat,
             NEW status \in {"none", "success", "failed", "pass", "fail"},
             Emit(type, i, status)
      PROVE  \A j, t : Emitted(j, t) \subseteq Emitted(j, t)'
  BY <1>6, EmitShows
<1>7. CASE Enter
  <2>1. PICK m \in Nat : m = id'
    BY <1>1, <1>7 DEF Enter
  <2>2. Emit("step_started", m, "none") /\ details' = details
    BY <1>7, <2>1 DEF Enter
  <2>3. CallsKeptUnlessAnswered'
    BY <1>4, <1>6, <2>2
  <2>4. stage' \in {"handle", "work"} /\ llmCalls' = FALSE /\ called' = FALSE
    BY <1>7 DEF Enter, BeginScope
  <2> QED
    BY <2>3, <2>4 DEF BuffersSound
<1>8. CASE HandlerStarts
  <2>1. CallsKeptUnlessAnswered'
    BY <1>1, <1>4, <1>6, <1>8 DEF HandlerStarts
  <2> QED
    BY <1>8, <2>1 DEF HandlerStarts, BuffersSound
<1>9. CASE HandlerAnswers
  <2>1. CallsKeptUnlessAnswered'
    BY <1>4, <1>5, <1>9 DEF HandlerAnswers
  <2>2. stage' = "judged" /\ llmCalls' = called'
    BY <1>9 DEF HandlerAnswers, Recorded
  <2> QED
    BY <2>1, <2>2 DEF BuffersSound
<1>10. CASE HandlerRaises
  <2>1. CallsKeptUnlessAnswered'
    BY <1>4, <1>5, <1>10 DEF HandlerRaises
  <2>2. stage' = "failDetail" /\ llmCalls' = called'
    BY <1>10 DEF HandlerRaises, Recorded
  <2> QED
    BY <2>1, <2>2 DEF BuffersSound
<1>11. CASE HandlerCompletes
  <2> DEFINE answer == work.traces[Len(work.traces)].status
  <2>1. answer \in {"pass", "fail"}
    BY <1>11, AnswerIsLast DEF HandlerCompletes
  <2>2. Emit("handler_completed", n, answer)
    BY <1>11 DEF HandlerCompletes
  <2> HIDE DEF answer
  <2>3. CallsKeptUnlessAnswered'
    BY <1>4, <1>6, <1>11, <2>1, <2>2 DEF HandlerCompletes
  <2>4. Emitted(n, "handler_completed")' # {}
    BY <2>1, <2>2, EmitShows
  <2>5. stage' = "detail" /\ llmCalls' = called' /\ id' = n
    BY <1>11 DEF HandlerCompletes, BuffersSound
  <2>6. Emitted(id, "handler_completed")' # {}
    BY <2>4, <2>5
  <2>7. BuffersSound'
    BY <2>5, <2>6 DEF BuffersSound
  <2> QED
    BY <2>3, <2>7
<1>12. CASE Work
  <2>1. CallsKeptUnlessAnswered'
    BY <1>4, <1>5, <1>12 DEF Work
  <2>2. called' = FALSE /\ llmCalls' = FALSE /\ stage' = "detail"
    BY <1>12 DEF Work, BuffersSound
  <2> QED
    BY <2>1, <2>2 DEF BuffersSound
<1>13. CASE WriteDetail
  <2> DEFINE doc == [id |-> id, status |-> "success", calls |-> llmCalls, called |-> called]
  <2>1. /\ \A d \in details' : d \in details \/ d = doc
        /\ llmCalls' = FALSE /\ called' = called /\ log' = log /\ id' = n
        /\ stage' \in {"row", "failDetail"}
    BY <1>13, InsertKeeps DEF WriteDetail
  <2>2. Running /\ stage = "detail"
    BY <1>13 DEF WriteDetail
  <2>3. llmCalls = called /\ (called => Emitted(n, "handler_completed") # {})
    BY <2>2 DEF BuffersSound
  <2>4. ~ Lost(doc)
    BY <2>3, Zenon
  <2>5. \A j, t : Emitted(j, t)' = Emitted(j, t)
    BY <2>1, QuietShows
  <2>6. CallsKeptUnlessAnswered'
    <3>1. \A d \in details' :
            Lost(d) => d.status = "failed" /\ Emitted(d.id, "handler_completed")' # {}
      <4> HIDE DEF doc, Lost
      <4> QED
        BY <1>2, <2>1, <2>4, <2>5
    <3> QED
      BY <3>1 DEF CallsKeptUnlessAnswered
  <2>7. called' \in BOOLEAN /\ called \in BOOLEAN
    BY <2>1 DEF TypeOK
  <2>8. llmCalls' = called' \/ Emitted(n, "handler_completed")' # {}
    BY <2>1, <2>3, <2>5, <2>7
  <2> QED
    BY <2>1, <2>6, <2>8 DEF BuffersSound
<1>14. CASE WriteRow
  <2>1. CallsKeptUnlessAnswered'
    BY <1>4, <1>5, <1>14 DEF WriteRow
  <2> QED
    BY <1>14, <2>1 DEF WriteRow, BuffersSound
<1>15. CASE Report
  <2>1. CallsKeptUnlessAnswered'
    BY <1>1, <1>4, <1>6, <1>15 DEF Report
  <2>2. outcome' = "finish" \/ stage' = "enter"
    BY <1>15 DEF Report
  <2> QED
    BY <2>1, <2>2 DEF BuffersSound
<1>16. CASE FailDetail
  <2> DEFINE doc == [id |-> id, status |-> "failed", calls |-> llmCalls, called |-> called]
  <2>1. /\ \A d \in details' : d \in details \/ d = doc
        /\ log' = log /\ id' = n
        /\ stage' \in {"failRow", "failReport"}
    BY <1>16, InsertKeeps DEF FailDetail
  <2>2. Running /\ stage = "failDetail"
    BY <1>16 DEF FailDetail
  <2>3. llmCalls = called \/ Emitted(n, "handler_completed") # {}
    BY <2>2 DEF BuffersSound
  <2>4. doc.id = n /\ doc.status = "failed"
    OBVIOUS
  <2>5. Lost(doc) => Emitted(n, "handler_completed") # {}
    <3>1. ~ (called /\ ~ llmCalls) \/ Emitted(n, "handler_completed") # {}
      BY <2>3, Zenon
    <3>2. doc.called = called /\ doc.calls = llmCalls
      BY Zenon
    <3> HIDE DEF doc
    <3> QED
      BY <3>1, <3>2, Zenon
  <2>6. \A j, t : Emitted(j, t)' = Emitted(j, t)
    BY <2>1, QuietShows
  <2>7. CallsKeptUnlessAnswered'
    <3>1. \A d \in details' :
            Lost(d) => d.status = "failed" /\ Emitted(d.id, "handler_completed")' # {}
      <4> HIDE DEF doc, Lost
      <4> QED
        BY <1>2, <2>1, <2>4, <2>5, <2>6
    <3> QED
      BY <3>1 DEF CallsKeptUnlessAnswered
  <2> QED
    BY <2>1, <2>7 DEF BuffersSound
<1>17. CASE FailRow
  <2>1. CallsKeptUnlessAnswered'
    BY <1>4, <1>5, <1>17 DEF FailRow
  <2> QED
    BY <1>17, <2>1 DEF FailRow, BuffersSound
<1>18. CASE FailReport
  <2>1. CallsKeptUnlessAnswered'
    BY <1>1, <1>4, <1>6, <1>18 DEF FailReport
  <2> QED
    BY <1>18, <2>1 DEF FailReport, BuffersSound
<1>19. CASE Cancel
  <2>1. CallsKeptUnlessAnswered'
    BY <1>4, <1>5, <1>19 DEF Cancel
  <2> QED
    BY <1>19, <2>1 DEF Cancel, BuffersSound
<1>20. CASE CancelFailing
  <2>1. CallsKeptUnlessAnswered'
    BY <1>1, <1>4, <1>6, <1>20 DEF CancelFailing
  <2> QED
    BY <1>20, <2>1 DEF CancelFailing, BuffersSound
<1>21. CASE Die
  <2>1. CallsKeptUnlessAnswered'
    BY <1>4, <1>5, <1>21 DEF Die
  <2> QED
    BY <1>21, <2>1 DEF Die, BuffersSound
<1>22. CASE TakeOver
  <2>1. CallsKeptUnlessAnswered'
    BY <1>4, <1>5, <1>22 DEF TakeOver
  <2> QED
    BY <1>22, <2>1 DEF TakeOver, BuffersSound
<1> QED
  BY <1>7, <1>8, <1>9, <1>10, <1>11, <1>12, <1>13, <1>14, <1>15, <1>16, <1>17, <1>18, <1>19,
     <1>20, <1>21, <1>22 DEF Next

\* The faults: where a run fails, there is one more than deaths.
LEMMA FaultsKeep ==
  ASSUME TypeOK, OnItsWay, FaultsCounted, Next
  PROVE  FaultsCounted'
<1> USE DEF place, setting, scope, records, At, Running, FaultsCounted, Undeclared
<1>1. faults \in Nat /\ attempt \in Nat /\ stage \in Stage
  BY PipelineAssumption DEF TypeOK
<1> USE DEF Stage
<1>2. ASSUME NEW type \in {"step_started", "step_completed", "handler_started",
                           "handler_completed"},
             NEW i, NEW status, Emit(type, i, status)
      PROVE  faults' \in Nat /\ faults' >= faults
  BY <1>1, <1>2 DEF Emit, Works, Fails
<1>3. CASE Enter
  <2>1. faults' \in Nat /\ faults' >= faults
    BY <1>1, <1>3 DEF Enter, Emit, Works, Fails
  <2> QED
    BY <1>1, <1>3, <2>1 DEF Enter
<1>4. CASE HandlerStarts
  <2>1. faults' \in Nat /\ faults' >= faults
    BY <1>2, <1>4 DEF HandlerStarts
  <2> QED
    BY <1>1, <1>4, <2>1 DEF HandlerStarts
<1>5. CASE HandlerAnswers
  BY <1>1, <1>5 DEF HandlerAnswers
<1>6. CASE HandlerRaises
  <2>1. node \in {"structure_check", "scenario_run"}
    BY <1>6 DEF HandlerRaises, OnItsWay, Handler
  <2>2. /\ faults' \in Nat /\ faults' >= faults
        /\ faults' = faults + 1 \/ Undeclared
    BY <1>1, <1>6, <2>1 DEF HandlerRaises, MayJudge, Works, Fails
  <2> QED
    BY <1>1, <1>6, <2>2 DEF HandlerRaises
<1>7. CASE HandlerCompletes
  <2>1. faults' \in Nat /\ faults' >= faults
    BY <1>2, <1>7 DEF HandlerCompletes
  <2> QED
    BY <1>1, <1>7, <2>1 DEF HandlerCompletes
<1>8. CASE Work
  BY <1>1, <1>8 DEF Work
<1>9. CASE WriteDetail
  <2>1. \/ stage' = "row" /\ faults' = faults
        \/ stage' = "failDetail" /\ faults' = faults + 1
    BY <1>9 DEF WriteDetail, Insert, Works, Fails
  <2> QED
    BY <1>1, <1>9, <2>1 DEF WriteDetail
<1>10. CASE WriteRow
  <2>1. faults' \in Nat /\ faults' >= faults
    BY <1>1, <1>10 DEF WriteRow, AddRow, Works, Fails
  <2> QED
    BY <1>1, <1>10, <2>1 DEF WriteRow
<1>11. CASE Report
  <2>1. faults' \in Nat /\ faults' >= faults
    BY <1>2, <1>11 DEF Report
  <2>2. /\ outcome = "running" /\ attempt' = attempt
        /\ outcome' = "finish" \/ (stage' = "enter" /\ outcome' = "running")
    BY <1>11 DEF Report
  <2> QED
    BY <1>1, <2>1, <2>2
<1>12. CASE FailDetail
  <2>1. faults' \in Nat /\ faults' >= faults /\ stage' \in {"failRow", "failReport"}
    BY <1>1, <1>12 DEF FailDetail, Insert, Works, Fails
  <2> QED
    BY <1>1, <1>12, <2>1 DEF FailDetail
<1>13. CASE FailRow
  <2>1. faults' \in Nat /\ faults' >= faults
    BY <1>1, <1>13 DEF FailRow, AddRow, Works, Fails
  <2> QED
    BY <1>1, <1>13, <2>1 DEF FailRow
<1>14. CASE FailReport
  <2>1. faults' \in Nat /\ faults' >= faults
    BY <1>2, <1>14 DEF FailReport
  <2> QED
    BY <1>1, <1>14, <2>1 DEF FailReport
<1>15. CASE Cancel
  BY <1>1, <1>15 DEF Cancel
<1>16. CASE CancelFailing
  <2>1. faults' \in Nat /\ faults' >= faults
    BY <1>2, <1>16 DEF CancelFailing
  <2> QED
    BY <1>1, <1>16, <2>1 DEF CancelFailing
<1>17. CASE Die
  BY <1>1, <1>17 DEF Die
<1>18. CASE TakeOver
  BY <1>1, <1>18 DEF TakeOver
<1> QED
  BY <1>3, <1>4, <1>5, <1>6, <1>7, <1>8, <1>9, <1>10, <1>11, <1>12, <1>13, <1>14, <1>15,
     <1>16, <1>17, <1>18 DEF Next

\* With the settings of config.py the second handler has no verdict but "fail".
LEMMA OnlyInvalidKeeps ==
  ASSUME TypeOK, OnItsWay, OnlyInvalid, Next
  PROVE  OnlyInvalid'
<1> SUFFICES ASSUME ~declared PROVE OnlyInvalid'
  <2>1. declared' = declared
    BY DEF Next, Enter, HandlerStarts, HandlerAnswers, HandlerRaises, HandlerCompletes,
           Work, WriteDetail, WriteRow, Report, FailDetail, FailRow, FailReport, Cancel,
           CancelFailing, Die, TakeOver, place, setting
  <2> QED
    BY <2>1 DEF OnlyInvalid
<1> USE DEF place, setting, At, Running, After
<1>1. /\ node \in {"structure_check", "scenario_run", "_phase1_end_invalid"}
      /\ Running /\ node = "scenario_run" /\ stage \in After =>
           work = Judged(state, node, "fail")
  BY DEF OnlyInvalid
<1>2. CASE HandlerAnswers
  <2>1. node \in Handler /\ work = state
    BY <1>2 DEF HandlerAnswers, OnItsWay, Before
  <2>2. node = "scenario_run" => Answers = {"fail"}
    BY <1>2 DEF HandlerAnswers, MayJudge, Answers
  <2>3. node = "scenario_run" => work' = Judged(state', node', "fail")
    BY <1>2, <2>1, <2>2 DEF HandlerAnswers
  <2> QED
    BY <1>1, <1>2, <2>3 DEF HandlerAnswers, OnlyInvalid
<1>3. CASE Report
  <2>1. /\ state \in StateAt(node) /\ work \in Results(node, state)
        /\ OnRoute(node, variant) /\ variant \in Variant /\ node \in Node
    BY <1>3 DEF Report, OnItsWay, TypeOK
  <2> DEFINE next == Route(node, work, variant)
  <2>2. next \in {"scenario_run", "_phase1_end_invalid", "END"}
    <3>1. CASE node = "structure_check"
      <4>1. Route(node, work, variant) \in {"scenario_run", "_phase1_end_invalid"}
        BY <3>1 DEF Route, AfterHandler, Handlers, Handler, Bridge
      <4> QED
        BY <4>1
    <3>2. CASE node = "scenario_run"
      <4>1. work = Judged(state, node, "fail")
        BY <1>1, <1>3, <3>2 DEF Report
      <4>2. work = InPhase1("handler_fail", <<Passed1, Failed2>>)
        BY <2>1, <3>2, <4>1, StatesAt, HandlersJudge
      <4>3. work.decision = "handler_fail"
        BY <4>2 DEF InPhase1, St, CState
      <4>4. Route(node, work, variant) = "_phase1_end_invalid"
        BY <3>2, <4>3 DEF Route, AfterHandler, Handler, Bridge
      <4> QED
        BY <4>4
    <3>3. CASE node = "_phase1_end_invalid"
      <4>1. Route(node, work, variant) = "END"
        BY <3>3 DEF Route, Handler, Bridge
      <4> QED
        BY <4>1
    <3> QED
      BY <1>1, <3>1, <3>2, <3>3
  <2>3. \/ next = "END" /\ outcome' = "finish" /\ node' = node
        \/ next # "END" /\ node' = next /\ stage' = "enter"
    BY <1>3 DEF Report
  <2> HIDE DEF next
  <2> QED
    BY <1>1, <2>2, <2>3 DEF OnlyInvalid
<1>4. CASE TakeOver
  BY <1>4 DEF TakeOver, OnlyInvalid, Handlers
<1>5. CASE Enter
  BY <1>1, <1>5 DEF Enter, OnlyInvalid
<1>6. CASE HandlerCompletes \/ WriteRow
  BY <1>1, <1>6 DEF HandlerCompletes, WriteRow, OnlyInvalid
<1>7. CASE WriteDetail
  <2>1. stage' \in {"row", "failDetail"}
    BY <1>7 DEF WriteDetail, Insert
  <2> QED
    BY <1>1, <1>7, <2>1 DEF WriteDetail, OnlyInvalid
<1>8. CASE FailDetail
  <2>1. stage' \in {"failRow", "failReport"}
    BY <1>8 DEF FailDetail, Insert
  <2> QED
    BY <1>1, <1>8, <2>1 DEF FailDetail, OnlyInvalid
<1>9. CASE Work
  <2>1. node # "scenario_run"
    BY <1>9 DEF Work, OnItsWay, Handler
  <2> QED
    BY <1>1, <1>9, <2>1 DEF Work, OnlyInvalid
<1>10. CASE HandlerStarts \/ HandlerRaises \/ FailRow
  BY <1>1, <1>10 DEF HandlerStarts, HandlerRaises, FailRow, OnlyInvalid
<1>11. CASE FailReport \/ Cancel \/ CancelFailing \/ Die
  BY <1>1, <1>11 DEF FailReport, Cancel, CancelFailing, Die, OnlyInvalid
<1> QED
  BY <1>2, <1>3, <1>4, <1>5, <1>6, <1>7, <1>8, <1>9, <1>10, <1>11 DEF Next

LEMMA InvStep == IInv /\ [Next]_vars => IInv'
<1> SUFFICES ASSUME IInv, [Next]_vars PROVE IInv'
  OBVIOUS
<1>1. CASE UNCHANGED vars
  <2>1. UNCHANGED <<variant, scenarios, declared, mongo, node, id, first, attempt, stage, state, work, llmCalls,
                    called, log, details, rows, faults, outcome>>
    BY <1>1 DEF vars, place, setting, scope, records
  <2>2. TypeOK' /\ OnItsWay' /\ FaultsCounted' /\ OnlyInvalid' /\ PathBounded'
    BY <2>1
    DEF IInv, TypeOK, OnItsWay, FaultsCounted, Undeclared, OnlyInvalid, PathBounded,
        Running
  <2>3. LogSound'
    BY <2>1, QuietShows DEF IInv, LogSound, Running
  <2>4. RowsSound' /\ RecordsAgree' /\ BuffersSound' /\ CallsKeptUnlessAnswered'
    BY <2>1, QuietShows
    DEF IInv, RowsSound, RecordsAgree, BuffersSound, CallsKeptUnlessAnswered, Running,
        HasDetail
  <2> QED
    BY <2>2, <2>3, <2>4 DEF IInv
<1>2. CASE Next
  BY <1>2, TypesKeep, WayKeeps, LogKeeps, RowsKeep, CallsKeep, FaultsKeep,
     OnlyInvalidKeeps DEF IInv
<1> QED
  BY <1>1, <1>2

LEMMA InvAlways == Spec => []IInv
BY InitInv, InvStep, PTL DEF Spec

-----------------------------------------------------------------------------
(* What follows.                                                           *)

\* The first m elements of a sequence.
LEMMA FirstOf ==
  ASSUME NEW S, NEW s \in Seq(S), NEW m \in 1..Len(s)
  PROVE  /\ SubSeq(s, 1, m) \in Seq(S) /\ Len(SubSeq(s, 1, m)) = m
         /\ \A i \in 1..m : SubSeq(s, 1, m)[i] = s[i]
<1>1. \A i \in 1..m : s[i] \in S
  BY ElementOfSeq
<1>2. SubSeq(s, 1, m) = [i \in 1..m |-> s[i]]
  OBVIOUS
<1> QED
  BY <1>1, <1>2

\* The handlers that ran are the first ones of the order.
LEMMA FirstHandlers ==
  ASSUME NEW m \in 1..2
  PROVE  LET given == [i \in 1..m |-> Handlers[i]]
         IN IsPrefix(given, Handlers) /\ (m = 2 => given = Handlers)
<1> DEFINE given == [i \in 1..m |-> Handlers[i]]
           all == Handlers
<1>1. all \in Seq(Handler) /\ Len(all) = 2 /\ \A i \in 1..2 : all[i] \in Handler
  BY DEF Handlers, Handler
<1>2. given \in Seq(Handler) /\ Len(given) = m /\ \A i \in 1..m : given[i] = all[i]
  BY <1>1
<1> HIDE DEF given, all
<1>3. /\ SubSeq(given, 1, m) \in Seq(Handler) /\ Len(SubSeq(given, 1, m)) = m
      /\ \A i \in 1..m : SubSeq(given, 1, m)[i] = given[i]
  BY <1>2, FirstOf
<1>4. /\ SubSeq(all, 1, m) \in Seq(Handler) /\ Len(SubSeq(all, 1, m)) = m
      /\ \A i \in 1..m : SubSeq(all, 1, m)[i] = all[i]
  BY <1>1, FirstOf
<1>5. SubSeq(given, 1, m) = SubSeq(all, 1, m)
  <2> DEFINE a == SubSeq(given, 1, m)
             b == SubSeq(all, 1, m)
  <2>1. /\ a \in Seq(Handler) /\ b \in Seq(Handler) /\ Len(a) = Len(b)
        /\ \A i \in 1..Len(a) : a[i] = b[i]
    BY <1>2, <1>3, <1>4
  <2> HIDE DEF a, b
  <2>2. a = b
    BY <2>1, SeqEqual
  <2> QED
    BY <2>2 DEF a, b
<1>6. IsPrefix(given, all)
  BY <1>1, <1>2, <1>5 DEF IsPrefix
<1>7. m = 2 => given = all
  BY <1>1, <1>2, SeqEqual
<1> QED
  BY <1>6, <1>7 DEF given, all

\* What the end nodes leave.
LEMMA EndsSound ==
  ASSUME NEW n \in EndNode, NEW v, OnRoute(n, v), NEW st \in StateAt(n),
         NEW w, w = Effect(n, st)
  PROVE  \/ /\ w.traces = AllPassed /\ w.phase1 = "valid" /\ w.final = "valid"
            /\ w.phase3 = IF v = "full" THEN "done" ELSE "none"
         \/ w.traces \in Failing /\ w.phase1 = "invalid" /\ w.final = "invalid"
            /\ w.phase3 = "none"
<1>1. Bridge = "_phase1_bridge"
  BY DEF Bridge
<1>2. CASE n = "_phase1_end_valid"
  <2>1. st = Judged2 /\ v = "phase1_only"
    BY <1>2, StatesAt DEF OnRoute
  <2>2. w.traces = AllPassed /\ w.phase1 = "valid" /\ w.final = "valid" /\ w.phase3 = "none"
    BY <1>2, <1>1, <2>1 DEF Effect, Judged2, InPhase1, St, CState
  <2> QED
    BY <2>1, <2>2
<1>3. CASE n = "_phase1_end_invalid"
  <2>1. PICK ts \in Failing : st = InPhase1("handler_fail", ts)
    BY <1>3, StatesAt
  <2>2. w.traces = ts /\ w.phase1 = "invalid" /\ w.final = "invalid" /\ w.phase3 = "none"
    BY <1>3, <1>1, <2>1 DEF Effect, InPhase1, St, CState
  <2> QED
    BY <2>1, <2>2
<1>4. CASE n = "_phase2_end_valid"
  <2>1. st = Bridged /\ v = "up_to_phase2"
    BY <1>4, StatesAt DEF OnRoute, Phase2Nodes
  <2>2. w.traces = AllPassed /\ w.phase1 = "valid" /\ w.final = "valid" /\ w.phase3 = "none"
    BY <1>4, <1>1, <2>1 DEF Effect, Bridged, InPhase1, St, CState
  <2> QED
    BY <2>1, <2>2
<1>5. CASE n = "_phase3_end_valid"
  <2>1. st = Compiled /\ v = "full"
    BY <1>5, StatesAt DEF OnRoute, Phase3Nodes
  <2>2. w.traces = AllPassed /\ w.phase1 = "valid" /\ w.final = "valid" /\ w.phase3 = "done"
    BY <1>5, <1>1, <2>1 DEF Effect, Compiled, InPhase1, St, CState
  <2> QED
    BY <2>1, <2>2
<1> QED
  BY <1>2, <1>3, <1>4, <1>5 DEF EndNode

\* The verdicts of a pipeline that returned are those its handlers gave, in
\* every variant, after any number of attempts, whatever failed or was repeated.
THEOREM VerdictAlwaysSound == Spec => []VerdictSound
<1>1. ASSUME IInv, outcome = "finish" PROVE VerdictMatchesTraces
  <2> DEFINE ts == state.traces
             passed == \A i \in DOMAIN ts : ts[i].status = "pass"
             given == [i \in DOMAIN ts |-> ts[i].handler]
  <2>1. \/ /\ ts = AllPassed /\ state.phase1 = "valid" /\ state.final = "valid"
           /\ state.phase3 = IF variant = "full" THEN "done" ELSE "none"
        \/ ts \in Failing /\ state.phase1 = "invalid" /\ state.final = "invalid"
           /\ state.phase3 = "none"
    <3>1. /\ node \in EndNode /\ OnRoute(node, variant)
          /\ \E st \in StateAt(node) : state = Effect(node, st)
      BY <1>1 DEF IInv, OnItsWay
    <3> QED
      BY <3>1, EndsSound
  <2>2. /\ Handlers[1] = "structure_check" /\ Handlers[2] = "scenario_run"
        /\ Passed1.handler = Handlers[1] /\ Passed1.status = "pass"
        /\ Failed1.handler = Handlers[1] /\ Failed1.status = "fail"
        /\ Passed2.handler = Handlers[2] /\ Passed2.status = "pass"
        /\ Failed2.handler = Handlers[2] /\ Failed2.status = "fail"
    BY DEF Handlers, Passed1, Failed1, Passed2, Failed2, Trace
  <2>3. ASSUME IsPrefix(given, Handlers),
               passed => given = Handlers,
               \A i \in DOMAIN ts : ts[i].status = "fail" => i = Len(ts),
               state.phase1 = IF passed THEN "valid" ELSE "invalid",
               state.final = state.phase1,
               state.phase3 = IF passed /\ variant = "full" THEN "done" ELSE "none"
        PROVE  VerdictMatchesTraces
    BY <2>3 DEF VerdictMatchesTraces, ts
  <2> HIDE DEF ts
  <2>4. CASE ts = AllPassed
    <3>1. DOMAIN ts = 1..2 /\ Len(ts) = 2 /\ ts[1] = Passed1 /\ ts[2] = Passed2
      BY <2>4 DEF AllPassed
    <3>2. \A i \in 1..2 : ts[i].handler = Handlers[i] /\ ts[i].status = "pass"
      BY <2>2, <3>1
    <3>3. given = [i \in 1..2 |-> Handlers[i]]
      BY <3>1, <3>2
    <3>4. IsPrefix(given, Handlers) /\ given = Handlers
      BY <3>3, FirstHandlers
    <3>5. passed
      BY <3>1, <3>2
    <3>6. ts \notin Failing
      BY <2>2, <3>1, <3>2 DEF Failing
    <3>7. state.phase1 = "valid" /\ state.final = "valid"
          /\ state.phase3 = IF variant = "full" THEN "done" ELSE "none"
      BY <2>1, <3>6
    <3> HIDE DEF given, passed
    <3>8. \A i \in DOMAIN ts : ts[i].status # "fail"
      BY <3>1, <3>2
    <3> QED
      BY <2>3, <3>4, <3>5, <3>7, <3>8
  <2>5. CASE ts \in Failing
    <3>1. PICK m \in 1..2 :
            /\ DOMAIN ts = 1..m /\ Len(ts) = m
            /\ \A i \in 1..m : ts[i].handler = Handlers[i]
            /\ \A i \in 1..m : i # m => ts[i].status = "pass"
            /\ ts[m].status = "fail"
      <4>1. CASE ts = <<Failed1>>
        <5>1. DOMAIN ts = 1..1 /\ Len(ts) = 1 /\ ts[1] = Failed1
          BY <4>1
        <5> QED
          BY <2>2, <5>1
      <4>2. CASE ts = <<Passed1, Failed2>>
        <5>1. DOMAIN ts = 1..2 /\ Len(ts) = 2 /\ ts[1] = Passed1 /\ ts[2] = Failed2
          BY <4>2
        <5> QED
          BY <2>2, <5>1
      <4> QED
        BY <2>5, <4>1, <4>2 DEF Failing
    <3>2. given = [i \in 1..m |-> Handlers[i]]
      BY <3>1
    <3>3. IsPrefix(given, Handlers)
      BY <3>2, FirstHandlers
    <3>4. ~ passed
      BY <3>1
    <3>5. ts # AllPassed
      <4>1. AllPassed[1] = Passed1 /\ AllPassed[2] = Passed2
        BY DEF AllPassed
      <4> QED
        BY <2>2, <3>1, <4>1
    <3>6. state.phase1 = "invalid" /\ state.final = "invalid" /\ state.phase3 = "none"
      BY <2>1, <3>5
    <3>7. \A i \in DOMAIN ts : ts[i].status = "fail" => i = Len(ts)
      BY <3>1
    <3> HIDE DEF given, passed
    <3> QED
      BY <2>3, <3>3, <3>4, <3>6, <3>7
  <2> QED
    BY <2>1, <2>4, <2>5
<1>2. IInv => VerdictSound
  BY <1>1 DEF IInv, VerdictSound, VerdictMatchesTraces
<1> QED
  BY <1>2, InvAlways, PTL

\* Every step but the last of an attempt is told to have completed with
\* success, exactly once, and the last step of a run that failed with "failed".
THEOREM StepsAlwaysReported == Spec => []StepsReported
<1>1. IInv => StepsReported
  BY DEF IInv, LogSound, StepsReported
<1> QED
  BY <1>1, InvAlways, PTL

\* No row of t_run_step ever contradicts the event of its step, and its mongo_ref is
\* true: a detail that is there, or none at all.
THEOREM RecordsAlwaysAgree == Spec => []RecordsAgree
<1>1. IInv => RecordsAgree
  BY DEF IInv
<1> QED
  BY <1>1, InvAlways, PTL

\* The calls of a step are in its detail, unless the insert failed after the
\* handler had answered.
THEOREM CallsAlwaysKept == Spec => []CallsKeptUnlessAnswered
<1>1. IInv => CallsKeptUnlessAnswered
  BY DEF IInv
<1> QED
  BY <1>1, InvAlways, PTL

\* With a recursion limit of 12 or more (it is 25) a run fails only if something
\* failed, or if it has scenarios and the settings are those of config.py; with
\* those no pipeline returns a verdict but invalid; and no attempt takes more steps
\* than LangGraph allows.
THEOREM FailsAlwaysOnFault ==
  ASSUME RecursionLimit >= 12
  PROVE  Spec => []FailsOnlyOnFault
<1>1. IInv => FailsOnlyOnFault
  <2> SUFFICES ASSUME IInv PROVE FailsOnlyOnFault
    OBVIOUS
  <2>1. Rank(node) \in 1..12 /\ id \in Nat /\ first \in Nat /\ RecursionLimit \in Nat
    BY Ranks, PipelineAssumption DEF IInv, TypeOK
  <2>2. id + 1 - first <= Rank(node)
    BY <2>1 DEF IInv, PathBounded
  <2>3. ASSUME outcome = "finish", ~declared PROVE state.final = "invalid"
    <3>1. node \in EndNode /\ \E st \in StateAt(node) : state = Effect(node, st)
      BY <2>3 DEF IInv, OnItsWay
    <3>2. node = "_phase1_end_invalid"
      BY <2>3, <3>1 DEF IInv, OnlyInvalid, EndNode
    <3>3. PICK st \in StateAt(node) : state = Effect(node, st)
      BY <3>1
    <3>4. PICK ts \in Failing : st = InPhase1("handler_fail", ts)
      BY <3>2, StatesAt
    <3> QED
      BY <3>2, <3>3, <3>4 DEF Effect, Bridge, InPhase1, St, CState
  <2> QED
    BY <2>1, <2>2, <2>3 DEF IInv, FaultsCounted, FailsOnlyOnFault
<1> QED
  BY <1>1, InvAlways, PTL

=============================================================================
