----------------------------- MODULE ScenarioRun -----------------------------
(***************************************************************************)
(* One execution of ScenarioRunHandler: for each scenario an agent loop,   *)
(* in which an LLM calls the nodes of the design as tools until it gives a *)
(* final answer, the comparison of that answer with the expected one, and  *)
(* the verdict of the handler.                                             *)
(*                                                                         *)
(* What the LLM does is not known: it answers with anything in Raw, and a  *)
(* call may fail.  A tool is answered by the simulators of its template.   *)
(* The comparison of JSON values is a parameter, and Comparator the one.   *)
(* (How calls share the permits of a pod is LlmGateway's.)               *)
(***************************************************************************)
EXTENDS Naturals, Sequences, FiniteSets, SequencesExt, Functions

CONSTANTS
  Suites,       \* sequences of expected outputs: the scenarios of a run
  Node,         \* instances of the design
  TemplateOf,   \* the name of an instance's template
  Engines,      \* simulators a template has, in the order they are tried
  OutputOf,     \* what the simulators of an engine return
  Raw,          \* what the service may answer
  Provider,     \* the adapter: "claude" or "openai"
  NotJson,      \* a final text that is not JSON, the empty one among them
  MaxIter,      \* PHASE1_AGENT_MAX_ITER
  CallLimit,    \* PHASE1_PER_NODE_CALL_LIMIT
  MaxAttempts,  \* of RetryDecorator
  Equal(_, _),        \* deep_equal of what is expected and what was answered
  Differences(_, _)   \* diff_report of the two

ASSUME ScenarioAssumption ==
  /\ DOMAIN TemplateOf = Node /\ Range(TemplateOf) \subseteq DOMAIN Engines
  /\ \A t \in DOMAIN Engines : Range(Engines[t]) \subseteq DOMAIN OutputOf
  /\ Provider \in {"claude", "openai"}
  /\ \A s \in Suites : s \in Seq(Range(s))
  /\ \A raw \in Raw :
       /\ raw = [stop |-> raw.stop, uses |-> raw.uses, text |-> raw.text, garbled |-> raw.garbled]
       /\ raw.uses \in Seq(Range(raw.uses))
  /\ {MaxIter, CallLimit, MaxAttempts} \subseteq Nat \ {0}

VARIABLES
  suite,    \* the expected outputs, scenario by scenario
  phase,    \* where the handler is
  conv,     \* the messages of the agent loop
  replies,  \* tool results that are not in a message yet
  failed,   \* attempts of the LLM call that failed
  counter,  \* per_node_counter
  outputs,  \* node_outputs of the scenario
  answer,   \* the final answer that is being attributed
  trace,    \* the step's tool_trace
  results,  \* of the scenarios that are done
  verdict,  \* of the handler
  merged    \* state["node_outputs"]

scenario == <<conv, replies, failed, counter, outputs, answer>>
scenarioVars == <<suite, phase, scenario, trace, results, verdict, merged>>

User         == [role |-> "user", uses |-> << >>, replies |-> << >>]
Assistant(u) == [role |-> "assistant", uses |-> u, replies |-> << >>]
Tool(r)      == [role |-> "tool_result", uses |-> << >>, replies |-> r]

Now == Len(results) + 1

Fresh ==
  /\ conv' = <<User>> /\ replies' = << >> /\ failed' = 0
  /\ counter' = [n \in Node |-> 0] /\ outputs' = << >> /\ answer' = NotJson

ScenarioInit ==
  /\ suite \in Suites
  /\ phase = "start"
  /\ conv = <<User>> /\ replies = << >> /\ failed = 0
  /\ counter = [n \in Node |-> 0] /\ outputs = << >> /\ answer = NotJson
  /\ trace = << >>
  /\ results = << >>
  /\ verdict = "none"
  /\ merged = << >>

-----------------------------------------------------------------------------
(* Results                                                                 *)

\* f, overridden by g.
Override(f, g) == [n \in DOMAIN f \cup DOMAIN g |-> IF n \in DOMAIN g THEN g[n] ELSE f[n]]

\* merged.update, result by result: the last that has an output for an instance.
HasOutput(rs, n) == {i \in DOMAIN rs : n \in DOMAIN rs[i].outputs}
LastWith(rs, n)  == CHOOSE i \in HasOutput(rs, n) : \A j \in HasOutput(rs, n) : j <= i

Merge(rs) == [n \in UNION {DOMAIN rs[i].outputs : i \in DOMAIN rs} |->
                rs[LastWith(rs, n)].outputs[n]]

Passed(r) == r.match /\ r.error = "none"

\* _run_one returns; after the last scenario the handler has its verdict.
Keep(r) ==
  /\ results' = Append(results, r)
  /\ Fresh
  /\ IF Len(results') < Len(suite)
     THEN phase' = "loop" /\ UNCHANGED <<verdict, merged>>
     ELSE /\ phase' = "over"
          /\ merged' = Merge(results')
          /\ verdict' = IF \A i \in DOMAIN results' : Passed(results'[i]) THEN "pass" ELSE "fail"
  /\ UNCHANGED <<suite, trace>>

\* Without a scenario the handler fails at once.
Start ==
  /\ phase = "start"
  /\ phase' = IF suite = << >> THEN "over" ELSE "loop"
  /\ verdict' = IF suite = << >> THEN "fail" ELSE verdict
  /\ UNCHANGED <<suite, scenario, trace, results, merged>>

Result(actual, match, error, out, diff, blame) ==
  [actual |-> actual, match |-> match, error |-> error, outputs |-> out,
   diff |-> diff, blame |-> blame]

\* The final text: no JSON, what is expected, or something else, which the LLM
\* is asked to attribute.  Why the loop has stopped does not matter.
Judge(text) ==
  LET expected == suite[Now] IN
  \/ /\ text = NotJson
     /\ Keep(Result(text, FALSE, "not_json", outputs, {}, "none"))
  \/ /\ text # NotJson
     /\ Equal(expected, text)
     /\ Keep(Result(text, TRUE, "none", outputs, {}, "none"))
  \/ /\ text # NotJson
     /\ ~Equal(expected, text)
     /\ phase' = "attribute"
     /\ answer' = text
     /\ UNCHANGED <<suite, conv, replies, failed, counter, outputs, trace, results, verdict, merged>>

Blame == {"found", "unknown"}

\* attribute_failure: the LLM's finding, or "unknown" whatever goes wrong.
Attribute ==
  /\ phase = "attribute"
  /\ \E b \in Blame :
       Keep(Result(answer, FALSE, "none", outputs, Differences(suite[Now], answer), b))

-----------------------------------------------------------------------------
(* The agent loop                                                          *)

Turns == Cardinality({i \in DOMAIN conv : conv[i].role = "assistant"})

\* _encode_message of the Claude adapter: tool results are a message of the
\* user.  The OpenAI adapter sends nothing but roles and texts.
EncodeMessage(m) ==
  IF Provider = "claude"
  THEN [m EXCEPT !.role = IF @ = "tool_result" THEN "user" ELSE @]
  ELSE [m EXCEPT !.uses = << >>, !.replies = << >>]

Encode(msgs) == [i \in DOMAIN msgs |-> EncodeMessage(msgs[i])]

\* A stop reason nobody knows, or arguments that are no JSON, raise.
Unreadable(raw) ==
  IF Provider = "claude"
  THEN raw.stop \notin {"end_turn", "max_tokens", "tool_use", "stop_sequence"}
  ELSE raw.garbled

\* The LLMResponse of what the service answers.
Parse(raw) ==
  IF Provider = "claude" THEN raw
  ELSE [raw EXCEPT !.stop = IF raw.uses = << >> THEN "end_turn" ELSE "tool_use"]

\* A response without tools to call ends the loop: end_turn, or any other
\* reason, or a call of no tool.
Answer(resp) ==
  /\ phase = "loop"
  /\ resp.stop # "tool_use" \/ resp.uses = << >>
  /\ Judge(resp.text)

\* The service gives every call an id of its own.
Uses(resp) == [k \in DOMAIN resp.uses |-> [id |-> <<Turns, k>>, call |-> resp.uses[k]]]

UseTools(resp) ==
  /\ phase = "loop"
  /\ resp.stop = "tool_use" /\ resp.uses # << >>
  /\ conv' = Append(conv, Assistant(Uses(resp)))
  /\ phase' = "tools"
  /\ failed' = 0
  /\ UNCHANGED <<suite, replies, counter, outputs, answer, trace, results, verdict, merged>>

\* Slip: the counter starts again after a pause.
SlipTransient ==
  /\ phase = "loop"
  /\ failed' = (failed + 1) % MaxAttempts
  /\ UNCHANGED <<suite, phase, conv, replies, counter, outputs, answer, trace, results, verdict, merged>>

Retries == failed + 1 < MaxAttempts

\* RetryDecorator: a transient error, and another attempt after a pause.
Transient ==
  /\ phase = "loop"
  /\ Retries
  /\ failed' = failed + 1
  /\ UNCHANGED <<suite, phase, conv, replies, counter, outputs, answer, trace, results, verdict, merged>>

\* LLMUnavailable, at once or after the last attempt: an error of the scenario.
Unavailable ==
  /\ phase = "loop"
  /\ Keep(Result(NotJson, FALSE, "unavailable", << >>, {}, "none"))

\* Any other exception leaves the handler.
Raise ==
  /\ phase = "loop"
  /\ phase' = "over"
  /\ verdict' = "raised"
  /\ UNCHANGED <<suite, scenario, trace, results, merged>>

\* TimeoutDecorator: LLMTimeout is not retried.
TimesOut == Raise

-----------------------------------------------------------------------------
(* make_executor                                                           *)

Current == Last(conv).uses[Len(replies) + 1]

\* Slip: errors are not told.
SlipReply(isError) ==
  LET r    == Append(replies, [id |-> Current.id, error |-> isError])
      done == Len(r) = Len(Last(conv).uses)
  IN IF ~done
     THEN replies' = r /\ UNCHANGED <<phase, conv>>
     ELSE /\ replies' = << >>
          /\ conv' = Append(conv, Tool(SelectSeq(r, LAMBDA x : ~x.error)))
          /\ phase' = IF Turns < MaxIter THEN "loop" ELSE "exhausted"

\* A result for the current call.  After that of the last one all of them go
\* into one message, and the loop goes on unless it has had its iterations.
Reply(isError) ==
  LET r    == Append(replies, [id |-> Current.id, error |-> isError])
      done == Len(r) = Len(Last(conv).uses)
  IN IF ~done
     THEN replies' = r /\ UNCHANGED <<phase, conv>>
     ELSE /\ replies' = << >>
          /\ conv' = Append(conv, Tool(r))
          /\ phase' = IF Turns < MaxIter THEN "loop" ELSE "exhausted"

Rest == <<suite, failed, answer, results, verdict, merged>>

Refused(c) == c.node \notin Node \/ (c.node \in Node /\ TemplateOf[c.node] # c.name)

\* Bad input, an unknown instance, another template's name.
RefuseCall ==
  /\ phase = "tools"
  /\ Refused(Current.call)
  /\ Reply(TRUE)
  /\ UNCHANGED <<Rest, counter, outputs, trace>>

Over(n) == counter[n] + 1 > CallLimit

Counted(n) == counter' = [counter EXCEPT ![n] = @ + 1]

OverLimit ==
  /\ phase = "tools"
  /\ ~Refused(Current.call)
  /\ Over(Current.call.node)
  /\ Counted(Current.call.node)
  /\ Reply(TRUE)
  /\ UNCHANGED <<Rest, outputs, trace>>

Output == UNION Range(OutputOf)

\* What simulators may answer: any of them, if those before it have failed.
Simulated(n) ==
  UNION {{[node |-> n, at |-> Now, engine |-> e, out |-> o] : o \in OutputOf[e]} :
           e \in Range(Engines[TemplateOf[n]])}

\* Slip: only the first answer of a node is put out.
SlipRecord(n, x) ==
  /\ trace' = Append(trace, x)
  /\ outputs' = Override([m \in {n} |-> x.out], outputs)

Record(n, x) ==
  /\ trace' = Append(trace, x)
  /\ outputs' = Override(outputs, [m \in {n} |-> x.out])

SimulateCall ==
  /\ phase = "tools"
  /\ ~Refused(Current.call)
  /\ LET n == Current.call.node IN
     /\ ~Over(n)
     /\ Counted(n)
     /\ \/ \E x \in Simulated(n) : Record(n, x) /\ Reply(FALSE)
        \/ Reply(TRUE) /\ UNCHANGED <<outputs, trace>>
  /\ UNCHANGED Rest

\* max_iterations: the final text is empty.
Exhausted ==
  /\ phase = "exhausted"
  /\ Judge(NotJson)

-----------------------------------------------------------------------------
ScenarioNext ==
  \/ Start \/ Attribute \/ Transient \/ Unavailable \/ TimesOut
  \/ \E raw \in Raw : \/ Unreadable(raw) /\ Raise
                      \/ ~Unreadable(raw) /\ (Answer(Parse(raw)) \/ UseTools(Parse(raw)))
  \/ RefuseCall \/ OverLimit \/ SimulateCall \/ Exhausted

\* Every call is answered or timed out.
ScenarioSpec == ScenarioInit /\ [][ScenarioNext]_scenarioVars /\ WF_scenarioVars(ScenarioNext)

-----------------------------------------------------------------------------
(* Properties                                                              *)

\* The variables have their types.
ScenarioTypeOK ==
  /\ suite \in Suites
  /\ phase \in {"start", "loop", "tools", "exhausted", "attribute", "over"}
  /\ \A i \in DOMAIN conv : conv[i].role \in {"user", "assistant", "tool_result"}
  /\ failed \in 0 .. MaxAttempts - 1
  /\ counter \in [Node -> Nat]
  /\ \E S \in SUBSET Node : outputs \in [S -> Output]
  /\ \A i \in DOMAIN trace : trace[i].node \in Node /\ trace[i].out \in Output
  /\ \A i \in DOMAIN results : results[i].blame \in Blame \cup {"none"}
  /\ verdict \in {"none", "pass", "fail", "raised"}

\* Whatever the LLM asks for and however a tool fails, the next request shows it
\* the result of each of its calls, once, in their order, and behind the calls.
EveryCallAnswered ==
  phase = "loop" =>
    LET sent == Encode(conv)
        ids(m) == [k \in DOMAIN m.uses |-> m.uses[k].id]
    IN /\ \A i \in DOMAIN sent : sent[i].role = "assistant" =>
            /\ ids(conv[i]) = ids(sent[i])
            /\ i < Len(sent)
            /\ ids(sent[i]) = [k \in DOMAIN sent[i+1].replies |-> sent[i+1].replies[k].id]

\* The places in the trace of what instance n answered in scenario s.
Traced(n, s) == {i \in DOMAIN trace : trace[i].node = n /\ trace[i].at = s}

\* An instance is simulated at most CallLimit times for one scenario, and the
\* LLM is asked at most MaxIter times.
CallsBounded ==
  /\ \A n \in Node, s \in 1 .. Len(suite) : Cardinality(Traced(n, s)) <= CallLimit
  /\ Turns <= MaxIter

\* The trace of scenarios the handler kept the outputs of.
Kept == {i \in DOMAIN trace : results[trace[i].at].error # "unavailable"}

\* The outputs the handler leaves in the state are, for each instance, the last
\* that the tool trace records; those of a scenario whose LLM became unavailable
\* are traced, but lost.
OutputsAreTraced ==
  phase = "over" /\ verdict \in {"pass", "fail"} =>
    /\ DOMAIN merged = {trace[i].node : i \in Kept}
    /\ \A i \in Kept :
         (\A j \in Kept : j > i => trace[j].node # trace[i].node)
           => merged[trace[i].node] = trace[i].out

\* What is counted, traced and put out for an instance agrees.  (executor.py.)
TraceSound == ScenarioTypeOK /\ CallsBounded /\ OutputsAreTraced

\* The handler passes exactly if there are scenarios and every one was answered
\* with a JSON value that the comparison takes for the expected one.
PassMeansMatch ==
  phase = "over" /\ verdict # "raised" =>
    (verdict = "pass" <=>
       /\ suite # << >>
       /\ Len(results) = Len(suite)
       /\ \A i \in DOMAIN suite : /\ results[i].actual # NotJson
                                  /\ Equal(suite[i], results[i].actual))

\* The handler comes to an end.
HandlerEnds == <>(phase = "over")
=============================================================================
