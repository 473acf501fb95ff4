---------------------------- MODULE DesignForest ----------------------------
(***************************************************************************)
(* What the server computes from a snapshot: the cycle that the validator  *)
(* asks for, the topological order, the DAG views.                         *)
(***************************************************************************)
EXTENDS DesignValidator, Functions

-----------------------------------------------------------------------------
(* The visitors                                                            *)

Inside(s) == SelectSeq(s.edges, LAMBDA e : {e.src, e.dst} \subseteq Ids(s))

\* adj[u]: the heads of u's edges in the order of the edges.
Adj(s, u) ==
  LET out == SelectSeq(Inside(s), LAMBDA e : e.src = u)
  IN [i \in DOMAIN out |-> out[i].dst]

\* CycleCheckerVisitor: depth first with three colours; the search stops at
\* the first edge to a grey node.
RECURSIVE Dfs(_, _, _)

Follow(s, st, v) ==
  IF st.cycle # << >> THEN st
  ELSE CASE st.color[v] = "gray"  ->
              [st EXCEPT !.cycle = Append(SubSeq(st.path,
                                                 SelectInSeq(st.path, LAMBDA w : w = v),
                                                 Len(st.path)), v)]
         [] st.color[v] = "white" -> Dfs(s, v, st)
         [] st.color[v] = "black" -> st

Dfs(s, u, st) ==
  LET entered == [st EXCEPT !.color[u] = "gray", !.path = Append(@, u)]
      done    == FoldLeft(LAMBDA t, v : Follow(s, t, v), entered, Adj(s, u))
  IN IF done.cycle # << >> THEN done
     ELSE [done EXCEPT !.color[u] = "black", !.path = Front(@)]

SearchCycle(s) ==
  LET start == [color |-> [n \in Ids(s) |-> "white"], path |-> << >>, cycle |-> << >>]
      from(st, u) == IF st.color[u] = "white" THEN Follow(s, st, u) ELSE st
  IN FoldLeft(from, start, SetToSortSeq(Ids(s), <)).cycle

-----------------------------------------------------------------------------
(* The topological order and the DAG views                                 *)

\* ready is sorted and its head taken: the smallest.
RECURSIVE Kahn(_, _, _, _)
Kahn(s, ready, indeg, order) ==
  IF ready = {} THEN order
  ELSE LET u     == Min(ready)
           out   == Adj(s, u)
           less  == FoldLeft(LAMBDA d, v : [d EXCEPT ![v] = @ - 1], indeg, out)
           nexts == {v \in Range(out) : less[v] = 0}
       IN Kahn(s, (ready \ {u}) \cup nexts, less, Append(order, u))

\* Slip: an edge that is there twice counts once.
SlipInDegree(s) ==
  LET edges == Inside(s)
  IN [n \in Ids(s) |-> Cardinality({edges[i].src : i \in {j \in DOMAIN edges : edges[j].dst = n}})]

InDegree(s) ==
  LET edges == Inside(s)
  IN [n \in Ids(s) |-> Cardinality({i \in DOMAIN edges : edges[i].dst = n})]

Roots(s) == LET indeg == InDegree(s) IN {n \in Ids(s) : indeg[n] = 0}

\* << >> when GraphHasCycle is raised.
Order(s) ==
  LET order == Kahn(s, Roots(s), InDegree(s), << >>)
  IN IF Len(order) = Cardinality(Ids(s)) THEN order ELSE << >>

\* _reach: the stack's top is its last element.
RECURSIVE Reach(_, _, _)
Reach(s, stack, seen) ==
  IF stack = << >> THEN seen
  ELSE LET u    == Last(stack)
           rest == Front(stack)
           grow == rest \o SelectSeq(Adj(s, u), LAMBDA v : v \notin seen \cup {u})
       IN Reach(s, IF u \in seen THEN rest ELSE grow, seen \cup {u})

DagView(s, root) ==
  LET nodes == Reach(s, <<root>>, {})
      edges == Inside(s)
  IN [root |-> root, nodes |-> nodes,
      edges |-> {edges[i].eid : i \in {j \in DOMAIN edges : edges[j].src \in nodes}},
      spans |-> {BundleOf(s, n) : n \in nodes} \ {0}]

DagViews(s) == {DagView(s, r) : r \in Roots(s)}

-----------------------------------------------------------------------------
(* Properties                                                              *)

\* Reference: what can be reached.
Arrow(s) == [p \in Ids(s) \X Ids(s) |-> Leads(s, p[1], p[2])]
Below(s) ==
  LET through(z, below) == [p \in DOMAIN below |-> below[p] \/ (below[p[1], z] /\ below[z, p[2]])]
  IN FoldSet(through, Arrow(s), Ids(s))

\* The path that a cycle error shows is a cycle of the design.
CycleIsReal(c, below) ==
  /\ c = << >> <=> Acyclic(snap)
  /\ c = << >> <=> \A n \in Ids(snap) : ~below[n, n]
  /\ c # << >> =>
       /\ Len(c) > 1 /\ Head(c) = Last(c)
       /\ IsInjective(Front(c))
       /\ \A i \in 1 .. Len(c) - 1 : Leads(snap, c[i], c[i + 1])

\* The topological order of an acyclic design has every instance once, behind
\* all it depends on, and at each place the smallest that can stand there.
OrderIsTopological(o, below) ==
  /\ Len(o) = Cardinality(Ids(snap)) /\ Range(o) = Ids(snap)
  /\ \A i, j \in DOMAIN o : below[o[i], o[j]] => i < j
  /\ \A i, j \in DOMAIN o : i < j /\ o[j] < o[i] =>
       \E k \in i .. j - 1 : below[o[k], o[j]]

\* The DAG views of an acyclic design cover its instances and edges, and each
\* holds what can be reached from its root.
ViewsCover(views, below) ==
  /\ UNION {v.nodes : v \in views} = Ids(snap)
  /\ UNION {v.edges : v \in views} = {e.eid : e \in ToSet(Inside(snap))}
  /\ views = {[v EXCEPT !.nodes = {v.root} \cup {n \in Ids(snap) : below[v.root, n]}] : v \in views}

\* The traversals of a design agree with their definitions: the cycle that is
\* reported, the topological order, which a design with a cycle has not, the
\* views.  A copy has a cycle if and only if the original has one, in whatever
\* order its new ids are.  (cycle_checker, iteration, dag_compute, paste.)
AnalysesSound ==
  LET cycle == SearchCycle(snap)
      below == Below(snap)
  IN /\ CycleIsReal(cycle, below)
     /\ IF cycle = << >>
        THEN OrderIsTopological(Order(snap), below) /\ ViewsCover(DagViews(snap), below)
        ELSE Order(snap) = << >>
     /\ \A new \in New : SearchCycle(Paste(snap, new)) = << >> <=> cycle = << >>
=============================================================================
