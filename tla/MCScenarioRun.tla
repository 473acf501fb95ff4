---------------------------- MODULE MCScenarioRun ----------------------------
EXTENDS ScenarioRun, Comparator, TLC

CONSTANTS n1, n2, nowhere

Num(n) == <<"int", n>>
Dict(f) == <<"dict", f>>
List(s) == <<"list", s>>

One      == Dict("code" :> Num(1))
Floats   == Dict("code" :> <<"float", 1>>)
True     == Dict("code" :> <<"bool", TRUE>>)
More     == Dict("code" :> Num(1) @@ "hits" :> List(<<Num(1)>>))
MoreHits == Dict("code" :> Num(2) @@ "hits" :> List(<<Num(1), Num(2)>>))
Texts    == {One, Floats, True, More, MoreHits, List(<< >>)}

NoText == <<"no json", "">>

MCSuites == {<< >>, <<One, More>>} \cup {<<v>> : v \in Texts}

MCTemplateOf == n1 :> "table" @@ n2 :> "judge"

\* hybrid with a fallback, and llm.
MCEngines == "table" :> <<"pure_python", "llm">> @@ "judge" :> <<"llm">>

MCOutputOf == "pure_python" :> {"o"} @@ "llm" :> {"p"}

Call(n, t) == [node |-> n, name |-> t]

Ask(uses) == [stop |-> "tool_use", uses |-> uses, text |-> NoText, garbled |-> FALSE]
Say(stop, v) == [stop |-> stop, uses |-> << >>, text |-> v, garbled |-> FALSE]

MCRaw ==
  {Ask(<<Call(n2, "judge"), Call(n1, "table")>>),
   Ask(<<Call(n1, "table"), Call(n1, "judge"), Call(n1, "table")>>),
   Ask(<<Call(nowhere, "table")>>), Ask(<< >>), Say("refusal", NoText),
   [Ask(<<Call(n1, "table")>>) EXCEPT !.stop = "max_tokens"]}
  \cup {Say("end_turn", v) : v \in Texts \cup {NoText}}

-----------------------------------------------------------------------------
(* The comparison                                                          *)

DiffReport(expected, actual) == Diff(expected, actual, << >>)

\* The handler passes exactly if there are scenarios and every one was answered
\* with the JSON value that is expected, int and float being the same.
PassMeansEqual ==
  phase = "over" /\ verdict # "raised" =>
    (verdict = "pass" <=>
       /\ suite # << >>
       /\ Len(results) = Len(suite)
       /\ \A i \in DOMAIN suite : /\ results[i].actual # NotJson
                                  /\ Canon(results[i].actual) = Canon(suite[i]))

\* Each difference that is reported leads to parts that do differ, and an answer
\* that is not what is expected has one.
MismatchExplained ==
  \A i \in DOMAIN results :
    LET r == results[i] IN
    /\ ~r.match /\ r.error = "none" => r.diff # {}
    /\ \A d \in r.diff : CanonAt(suite[i], d.path) # CanonAt(r.actual, d.path)
    /\ r.error = "none" =>
         \A v \in {suite[i], r.actual} : \A q \in Paths(v) :
           CanonAt(suite[i], q) # CanonAt(r.actual, q)
             => \E d \in r.diff : IsPrefix(d.path, q) \/ IsPrefix(q, d.path)

\* The comparison tells equal from different, and where.  (comparator.py.)
ComparisonSound == PassMeansEqual /\ MismatchExplained
=============================================================================
