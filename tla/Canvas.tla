------------------------------- MODULE Canvas -------------------------------
(***************************************************************************)
(* What is drawn on a canvas: the snapshot a page edits with the store's   *)
(* operations, the names in it that the server checks, the diff of two     *)
(* snapshots and the copy that a paste makes of one.  A client of the API  *)
(* may send a snapshot no page has made.                                   *)
(*                                                                         *)
(* Ids are numbers, so that sorting means what it means.  A template is    *)
(* reduced to the semantics it allows on outgoing edges and named by the   *)
(* instance that the page makes of it; field values are reduced to whether *)
(* they fit its input schema.                                              *)
(***************************************************************************)
EXTENDS Naturals, Sequences, FiniteSets, SequencesExt, FiniteSetsExt

CONSTANTS
  Id,        \* instance ids
  Allows,    \* Allows[t]: edge_semantics of the template t
  Semantic,  \* semantics an edge can be given, "" may be one of them
  Bid,       \* bundle ids
  Optional,  \* nodes whose template requires no field: any values fit
  Names,     \* Names[n]: what the user types as the name of n
  MaxParts,  \* bound on the edges and bundles the page draws
  Sent,      \* snapshots clients of the API send
  New        \* ways in which a paste can draw new ids, all of them fresh

VARIABLES
  snap,   \* the snapshot: nodes, edges and bundles
  origin  \* who made it: "page" or "api"

canvasVars == <<snap, origin>>

\* edges and bundles are lists, in the order of the JSON arrays.  An id of 0 is
\* the empty string, a name of 0 the one an instance is made with.
Terminal == Id \cup {0}
Instance == [tpl : Id, ok : BOOLEAN, name : Nat]
Edges    == Seq([eid : Terminal \X Semantic \X Terminal \X Nat,
                 src : Terminal, dst : Terminal, sem : Semantic])
Bundles  == Seq([bid : Bid, members : Seq(Id)])

\* nodes: of each id, its instances in the order of the array, where one of
\* another id may stand between them.  A page gives each id to one instance; the
\* server accepts it for several.
Shaped(s) ==
  \E S \in SUBSET Id :
    s \in [nodes : [S -> Seq(Instance) \ {<< >>}], edges : Edges, bundles : Bundles]

ASSUME CanvasAssumption ==
  /\ Id \subseteq Nat \ {0}
  /\ Allows \in [Id -> SUBSET Semantic]
  /\ Optional \subseteq Id
  /\ Names \in [Id -> SUBSET Nat]
  /\ 0 \notin Bid
  /\ MaxParts \in Nat
  /\ \A s \in Sent : Shaped(s)
  /\ \A new \in New : new \in [Id -> Nat \ Terminal] /\ IsInjective(new)

Empty == [nodes |-> << >>, edges |-> << >>, bundles |-> << >>]

\* Array.filter: what is at the places K of s, in its order.
Rank(K, i) == Cardinality({j \in K : j <= i})
Pick(s, K) == [k \in 1 .. Cardinality(K) |-> s[CHOOSE i \in K : Rank(K, i) = k]]

-----------------------------------------------------------------------------
(* The page's operations                                                   *)

Ids(s)  == DOMAIN s.nodes
Eids(s) == {s.edges[i].eid : i \in DOMAIN s.edges}
Bids(s) == {s.bundles[i].bid : i \in DOMAIN s.bundles}
Parts   == Len(snap.edges) + Len(snap.bundles)

Draw(new) ==
  /\ origin = "page"
  /\ snap' = new
  /\ UNCHANGED origin

AddNode(n) ==
  /\ n \notin Ids(snap)
  /\ Draw([snap EXCEPT !.nodes = [m \in DOMAIN @ \cup {n} |->
         IF m = n THEN <<[tpl |-> n, ok |-> n \in Optional, name |-> 0]>> ELSE @[m]]])

\* A patch of the field values: they fit the schema, or no longer.
UpdateNode(n) ==
  /\ n \in Ids(snap) \ Optional
  /\ Draw([snap EXCEPT !.nodes[n][1].ok = ~@])

\* A patch of instance_name.
RenameNode(n, name) ==
  /\ n \in Ids(snap)
  /\ Draw([snap EXCEPT !.nodes[n][1].name = name])

\* The bundle of an instance: iid_to_bid, 0 for none.
BundleOf(s, n) ==
  IF \E i \in DOMAIN s.bundles : Contains(s.bundles[i].members, n)
  THEN s.bundles[CHOOSE i \in DOMAIN s.bundles : Contains(s.bundles[i].members, n)].bid
  ELSE 0

\* The members of each bundle, without n.
Without(bundles, n) ==
  [i \in DOMAIN bundles |->
     [bundles[i] EXCEPT !.members = Pick(@, {k \in DOMAIN @ : @[k] # n})]]

\* Slip: its edges stay.
SlipRemoveNode(n) ==
  /\ n \in Ids(snap)
  /\ Draw([snap EXCEPT
       !.nodes = [m \in DOMAIN @ \ {n} |-> @[m]],
       !.bundles = Without(@, n)])

RemoveNode(n) ==
  /\ n \in Ids(snap)
  /\ Draw([snap EXCEPT
       !.nodes = [m \in DOMAIN @ \ {n} |-> @[m]],
       !.edges = Pick(@, {i \in DOMAIN @ : @[i].src # n /\ @[i].dst # n}),
       !.bundles = Without(@, n)])

\* The semantic is that of the port the edge leaves from, else "next".  The
\* last part of its id stands for the digits that make the id new.
AddEdge(src, dst, sem) ==
  LET k == Min({n \in 1 .. MaxParts + 1 : <<src, sem, dst, n>> \notin Eids(snap)})
  IN /\ {src, dst} \subseteq Ids(snap)
     /\ sem \in Allows[src] \cup {"next"}
     /\ Parts < MaxParts
     /\ Draw([snap EXCEPT !.edges =
          Append(@, [eid |-> <<src, sem, dst, k>>, src |-> src, dst |-> dst, sem |-> sem])])

RemoveEdge(e) ==
  /\ e \in Eids(snap)
  /\ Draw([snap EXCEPT !.edges = Pick(@, {i \in DOMAIN @ : @[i].eid # e})])

AddBundle(b) ==
  /\ b \notin Bids(snap)
  /\ Parts < MaxParts
  /\ Draw([snap EXCEPT !.bundles = Append(@, [bid |-> b, members |-> << >>])])

RemoveBundle(b) ==
  /\ b \in Bids(snap)
  /\ Draw([snap EXCEPT !.bundles = Pick(@, {i \in DOMAIN @ : @[i].bid # b})])

\* setBundleMembership: out of every bundle, then into one or none (i = 0).  A
\* drop on the canvas calls it also for the bundle that the instance is in: it
\* becomes its last member.
SetMembership(n, i) ==
  LET left == Without(snap.bundles, n)
  IN /\ n \in Ids(snap)
     /\ Draw([snap EXCEPT !.bundles =
          IF i = 0 THEN left ELSE [left EXCEPT ![i].members = Append(@, n)]])

-----------------------------------------------------------------------------
(* The names that the server checks                                        *)

\* build_forest: an instance listed a second time, by another bundle or by
\* the same, raises.
Places(s) == UNION {{<<i, k>> : k \in DOMAIN s.bundles[i].members} : i \in DOMAIN s.bundles}
Member(s, p) == s.bundles[p[1]].members[p[2]]

MembershipConflict(s) == \E p, q \in Places(s) : p # q /\ Member(s, p) = Member(s, q)

\* NodeRefCheckerVisitor: its first finding is the one that counts.
EdgeRef(s, e) ==
  IF ~({e.src, e.dst} \subseteq Ids(s)) THEN "NODE_REF_INVALID"
  ELSE IF e.src = e.dst THEN "EDGE_SELF_LOOP" ELSE "ok"

NodeRef(s) ==
  LET bad == {i \in DOMAIN s.edges : EdgeRef(s, s.edges[i]) # "ok"}
  IN IF bad # {} THEN EdgeRef(s, s.edges[Min(bad)])
     ELSE IF \E p \in Places(s) : Member(s, p) \notin Ids(s) THEN "NODE_REF_INVALID" ELSE "ok"

-----------------------------------------------------------------------------
(* The diff                                                                *)

\* by_id: of the instances with an id the last one counts.
LastOf(s, n) == Last(s.nodes[n])

\* The template or the field values differ; names are not compared.
Changed(a, b, n) ==
  <<LastOf(a, n).tpl, LastOf(a, n).ok>> # <<LastOf(b, n).tpl, LastOf(b, n).ok>>

\* Slip: membership is not compared.
SlipDiff(a, b) ==
  [addedNodes |-> Ids(b) \ Ids(a), removedNodes |-> Ids(a) \ Ids(b),
   addedEdges |-> Eids(b) \ Eids(a), removedEdges |-> Eids(a) \ Eids(b),
   addedBundles |-> Bids(b) \ Bids(a), removedBundles |-> Bids(a) \ Bids(b),
   changed |-> {n \in Ids(a) \cap Ids(b) : Changed(a, b, n)},
   moved |-> {}]

Diff(a, b) ==
  [addedNodes |-> Ids(b) \ Ids(a), removedNodes |-> Ids(a) \ Ids(b),
   addedEdges |-> Eids(b) \ Eids(a), removedEdges |-> Eids(a) \ Eids(b),
   addedBundles |-> Bids(b) \ Bids(a), removedBundles |-> Bids(a) \ Bids(b),
   changed |-> {n \in Ids(a) \cap Ids(b) : Changed(a, b, n)},
   moved |-> {n \in Ids(a) \cap Ids(b) : BundleOf(a, n) # BundleOf(b, n)}]

-----------------------------------------------------------------------------
(* The paste                                                               *)

\* rebuild_ids renames an instance once it has met it; other names stay.
Renamed(s, new, n) == IF n \in Ids(s) THEN new[n] ELSE n

\* Slip: the heads of the edges keep their names.
SlipPaste(s, new) ==
  [nodes |-> [m \in {new[n] : n \in Ids(s)} |-> s.nodes[CHOOSE n \in Ids(s) : new[n] = m]],
   edges |-> [i \in DOMAIN s.edges |-> [s.edges[i] EXCEPT !.src = Renamed(s, new, @)]],
   bundles |-> [i \in DOMAIN s.bundles |-> [s.bundles[i] EXCEPT
                  !.members = [k \in DOMAIN @ |-> Renamed(s, new, @[k])]]]]

Paste(s, new) ==
  [nodes |-> [m \in {new[n] : n \in Ids(s)} |-> s.nodes[CHOOSE n \in Ids(s) : new[n] = m]],
   edges |-> [i \in DOMAIN s.edges |-> [s.edges[i] EXCEPT !.src = Renamed(s, new, @),
                                                          !.dst = Renamed(s, new, @)]],
   bundles |-> [i \in DOMAIN s.bundles |-> [s.bundles[i] EXCEPT
                  !.members = [k \in DOMAIN @ |-> Renamed(s, new, @[k])]]]]

-----------------------------------------------------------------------------
CanvasInit ==
  \/ snap = Empty /\ origin = "page"
  \/ snap \in Sent /\ origin = "api"

CanvasNext ==
  \/ \E n \in Id : AddNode(n) \/ UpdateNode(n) \/ RemoveNode(n)
  \/ \E n \in Id : \E name \in Names[n] : RenameNode(n, name)
  \/ \E src, dst \in Id, sem \in Semantic : AddEdge(src, dst, sem)
  \/ \E e \in Eids(snap) : RemoveEdge(e)
  \/ \E b \in Bid : AddBundle(b) \/ RemoveBundle(b)
  \/ \E n \in Id, i \in {0} \cup DOMAIN snap.bundles : SetMembership(n, i)

CanvasSpec == CanvasInit /\ [][CanvasNext]_canvasVars

-----------------------------------------------------------------------------
(* Properties                                                              *)

\* The snapshot has its type.
CanvasTypeOK == Shaped(snap)

\* Whatever is drawn, removed and moved on a page: edges and bundles name
\* instances that exist, and no instance is in two bundles.
PageStaysSound ==
  origin = "page" => NodeRef(snap) # "NODE_REF_INVALID" /\ ~MembershipConflict(snap)

\* The page's own editing never makes a snapshot that the parser refuses for
\* what it names.  (graph.ts.)
SnapshotSound == CanvasTypeOK /\ PageStaysSound

\* A copy shares no instance with the original, and its names are judged like
\* those of the original: what dangled still dangles, and nothing else does.
\* (paste.py.)
PasteKeepsNames ==
  \A new \in New :
    LET copy == Paste(snap, new)
    IN /\ Ids(copy) \cap Ids(snap) = {}
       /\ MembershipConflict(copy) <=> MembershipConflict(snap)
       /\ NodeRef(copy) = NodeRef(snap)

\* Reference: two snapshots that are the same but for what an edit may change and
\* no diff is to show: the names of instances and the order in a bundle.
SameDesign(a, b) ==
  /\ Ids(a) = Ids(b)
  /\ \A n \in Ids(a) :
       /\ Len(a.nodes[n]) = Len(b.nodes[n])
       /\ \A k \in DOMAIN a.nodes[n] :
            a.nodes[n][k].tpl = b.nodes[n][k].tpl /\ a.nodes[n][k].ok = b.nodes[n][k].ok
  /\ a.edges = b.edges
  /\ Len(a.bundles) = Len(b.bundles)
  /\ \A i \in DOMAIN a.bundles :
       /\ a.bundles[i].bid = b.bundles[i].bid
       /\ ToSet(a.bundles[i].members) = ToSet(b.bundles[i].members)

\* The diff that shows nothing.
Silent == Diff(Empty, Empty)

\* An edit of a page shows in the diff of the snapshots around it exactly if it
\* changes the design: a diff stays silent about a new name and about a new order
\* in a bundle, never about anything else.  (graph.ts, diff.py.)
EditsShow == [][Diff(snap, snap') = Silent <=> SameDesign(snap, snap')]_snap
=============================================================================
