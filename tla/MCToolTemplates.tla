-------------------------- MODULE MCToolTemplates --------------------------
EXTENDS ToolTemplates

Def(engine, impl, fallback) ==
  [engine |-> engine, impl |-> impl, fallback |-> fallback, lines |-> <<"text">>,
   schemasValid |-> TRUE, edges |-> <<"out">>]

Ask == Def("llm", "none", FALSE)
Scan == Def("pure_python", "scan", FALSE)

\* Two definitions that are accepted, and one refused for each reason.
MCSubmitted ==
  {Ask, Scan, [Scan EXCEPT !.impl = "lost"], [Ask EXCEPT !.schemasValid = FALSE],
   [Ask EXCEPT !.lines = <<"text", "text">>], [Ask EXCEPT !.lines = <<"ignore">>],
   [Ask EXCEPT !.edges = <<"out", "out">>]}

MCForkName == [n \in {"Pick"} |-> "Pick_fork"]
MCFirst == [name |-> "Pick", scope |-> "global", owner |-> Global, current |-> 1,
            defs |-> <<Def("hybrid", "scan", TRUE)>>]
=============================================================================
