--------------------------- MODULE MCDesignForest ----------------------------
EXTENDS DesignForest
MCAllows == [n \in Id |-> CASE n = 1 -> {"next", "p"} [] n = 2 -> {"next"} [] OTHER -> {}]
Arc(s, d, m) == [eid |-> <<s, m, d, 1>>, src |-> s, dst |-> d, sem |-> m]
MCLists == {<< >>, <<1>>, <<1, 1>>, <<2, 1>>, <<3>>}
MCEdges == {<< >>, <<Arc(1, 2, "next")>>, <<Arc(0, 2, "p")>>, <<Arc(1, 3, "p")>>, <<Arc(1, 2, "")>>}
Made(t, ok) == [tpl |-> t, ok |-> ok, name |-> 0]
\* The last two give an id to two instances, whose templates differ.
MCNodes == {<<<<Made(1, TRUE)>>, <<Made(2, TRUE)>>>>, <<<<Made(1, FALSE)>>>>,
            <<<<Made(1, TRUE), Made(3, FALSE)>>, <<Made(2, TRUE)>>>>,
            <<<<Made(3, TRUE), Made(1, TRUE)>>, <<Made(2, TRUE)>>>>}
MCSent ==
  {[nodes |-> n, edges |-> e, bundles |-> <<[bid |-> 1, members |-> l], [bid |-> 2, members |-> k]>>] :
     n \in MCNodes, e \in MCEdges, l \in MCLists, k \in MCLists}
MCNames == [n \in Id |-> IF n = 1 THEN {0, 1} ELSE {}]
\* The new ids in the reverse order: no traversal may rely on it.
MCNew == {[n \in Id |-> 7 - n]}
=============================================================================
