----------------------------- MODULE PhaseRouter -----------------------------
(***************************************************************************)
(* The nodes of the pipeline, what each of them makes of the state         *)
(* (langgraph/steps), and the edges between them (langgraph/router.py and  *)
(* PipelineBuilder._build).                                                *)
(*                                                                         *)
(* Of CascadeState only what the routes and the verdicts depend on is      *)
(* kept.  The steps of phases 2 and 3 are the skeletons of the repository: *)
(* no static issues, compilation succeeds, the reflector says done.        *)
(***************************************************************************)
EXTENDS Naturals, Sequences

CONSTANT OuterFixMax   \* Settings.OUTER_FIX_MAX

ASSUME RouterAssumption == OuterFixMax \in Nat

Variant == {"phase1_only", "up_to_phase2", "full"}

Handlers == <<"structure_check", "scenario_run">>
Handler  == {"structure_check", "scenario_run"}

Bridge      == "_phase1_bridge"
Phase1Nodes == Handler \cup {Bridge, "_phase1_end_valid", "_phase1_end_invalid"}
Phase2Nodes == {"code_planner", "code_generator", "code_assembler", "_phase2_end_valid"}
Phase3Nodes == {"outer_static_reflector", "sandbox_compiler", "outer_scenario_synthesizer",
                "sandbox_executor", "outer_dynamic_reflector", "_phase3_end_valid",
                "_phase3_end_invalid", "_phase3_end_inconclusive"}
Node == Phase1Nodes \cup Phase2Nodes \cup Phase3Nodes

Verdict  == {"none", "valid", "invalid", "inconclusive"}
Phase3Verdict == {"none", "done", "design_bug", "fix_exhausted"}
Decision == {"in_progress", "handler_pass", "handler_fail", "done", "design_bug", "fix_code"}

HandlerTrace == [handler : Handler, status : {"pass", "fail"}]

State == [decision : Decision, issues : BOOLEAN, compiled : BOOLEAN, fixIter : Nat,
          phase1 : Verdict, phase3 : Phase3Verdict, final : Verdict,
          traces : Seq(HandlerTrace)]

InitialState ==
  [decision |-> "in_progress", issues |-> FALSE, compiled |-> FALSE, fixIter |-> 0,
   phase1 |-> "none", phase3 |-> "none", final |-> "none", traces |-> <<>>]

-----------------------------------------------------------------------------
(* What a step makes of the state: _do                                     *)

\* HandlerStep._do, once _handle has answered.
Judged(st, h, answer) ==
  [st EXCEPT !.traces = Append(@, [handler |-> h, status |-> answer]),
             !.decision = IF answer = "pass" THEN "handler_pass" ELSE "handler_fail"]

Effect(n, st) ==
  CASE n = "_phase1_end_valid" ->
         [st EXCEPT !.phase1 = "valid", !.final = "valid", !.decision = "done"]
    [] n = "_phase1_end_invalid" -> [st EXCEPT !.phase1 = "invalid", !.final = "invalid"]
    [] n = Bridge -> [st EXCEPT !.phase1 = "valid", !.decision = "done"]
    [] n = "_phase2_end_valid" -> [st EXCEPT !.final = "valid"]
    [] n = "outer_static_reflector" -> [st EXCEPT !.issues = FALSE]
    [] n = "sandbox_compiler" -> [st EXCEPT !.compiled = TRUE]
    [] n = "outer_dynamic_reflector" -> [st EXCEPT !.decision = "done"]
    [] n = "_phase3_end_valid" -> [st EXCEPT !.phase3 = "done", !.final = "valid"]
    [] n = "_phase3_end_invalid" -> [st EXCEPT !.phase3 = "design_bug", !.final = "invalid"]
    [] n = "_phase3_end_inconclusive" ->
         [st EXCEPT !.phase3 = IF @ = "none" THEN "fix_exhausted" ELSE @,
                    !.final = "inconclusive"]
    [] OTHER -> st

-----------------------------------------------------------------------------
(* Where the graph goes next                                               *)

AfterHandler(h, st, v) ==
  IF st.decision = "handler_fail" THEN "_phase1_end_invalid"
  ELSE IF h = Handlers[1] THEN Handlers[2]
  ELSE IF v = "phase1_only" THEN "_phase1_end_valid" ELSE Bridge

AfterAssembler(v) ==
  IF v = "up_to_phase2" THEN "_phase2_end_valid" ELSE "outer_static_reflector"

AfterStatic(st) == IF st.issues THEN "code_generator" ELSE "sandbox_compiler"

Refix(st) ==
  IF st.fixIter + 1 >= OuterFixMax THEN "_phase3_end_inconclusive" ELSE "code_generator"

\* Slip: a successful build is taken for a failed one.
SlipAfterCompiler(st) == IF st.compiled THEN Refix(st) ELSE "outer_scenario_synthesizer"

AfterCompiler(st) == IF st.compiled THEN "outer_scenario_synthesizer" ELSE Refix(st)

AfterDynamic(st) ==
  CASE st.decision = "design_bug" -> "_phase3_end_invalid"
    [] st.decision = "fix_code" -> Refix(st)
    [] OTHER -> "_phase3_end_valid"

\* "END" is LangGraph's END.
Route(n, st, v) ==
  CASE n \in Handler -> AfterHandler(n, st, v)
    [] n = Bridge -> "code_planner"
    [] n = "code_planner" -> "code_generator"
    [] n = "code_generator" -> "code_assembler"
    [] n = "code_assembler" -> AfterAssembler(v)
    [] n = "outer_static_reflector" -> AfterStatic(st)
    [] n = "sandbox_compiler" -> AfterCompiler(st)
    [] n = "outer_scenario_synthesizer" -> "sandbox_executor"
    [] n = "sandbox_executor" -> "outer_dynamic_reflector"
    [] n = "outer_dynamic_reflector" -> AfterDynamic(st)
    [] OTHER -> "END"

=============================================================================
