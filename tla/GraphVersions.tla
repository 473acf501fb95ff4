---------------------------- MODULE GraphVersions ----------------------------
(***************************************************************************)
(* One design graph: its versions and its draft in MySQL, the requests     *)
(* GraphService handles for it, and the pages that have it open.           *)
(*                                                                         *)
(* What is on a canvas is the set of edits made to it.  DesignValidator is *)
(* the verdict on such a set (DesignForest says how it is reached).  A     *)
(* request is one transaction: its reads, its insert and its commit are    *)
(* steps, and what it has not committed no other request sees.             *)
(***************************************************************************)
EXTENDS Naturals, Sequences, FiniteSets

CONSTANTS
  Editor,      \* open pages, of users who may save the graph
  Edit,        \* changes to the design
  Verdict,     \* of build_forest and DesignValidator.run, for a set of edits
  MaxVersions  \* bound: saves are sent for at most so many versions

ASSUME GraphAssumption ==
  /\ Verdict \in [SUBSET Edit -> {"ok", "warn", "fatal"}]
  /\ MaxVersions \in Nat

VARIABLES
  rows,     \* t_graph_version, by version_number
  latest,   \* t_cascade_graph.latest_version_id: 0, or a version_number
  deleted,  \* t_cascade_graph.deleted_at is set
  draft,    \* t_graph_draft: no row, or one snapshot
  page,     \* page[e]: forest and info of the graph store
  job       \* job[e]: the save or the load under way

database == <<rows, latest, deleted, draft>>
vars == <<database, page, job>>

\* history: saw is what the canvas has held since the page was loaded (a save
\* takes it along), and basis says from what it was loaded.
Page == [canvas : SUBSET Edit, known : Nat, saw : SUBSET Edit,
         basis : {"version", "other"}]

\* named is the version a save builds on, 0 for none; seen is the newest
\* one it read.
Job == [at : {"idle", "loading", "read", "inserted"},
        snap : SUBSET Edit, saw : SUBSET Edit, named : Nat, seen : Nat]

Version == [snap : SUBSET Edit, warned : BOOLEAN, parent : Nat]

NewPage == [canvas |-> {}, known |-> 0, saw |-> {}, basis |-> "version"]

NoJob == [at |-> "idle", snap |-> {}, saw |-> {}, named |-> 0, seen |-> 0]

Saves(e) == job[e].at \in {"read", "inserted"}

\* ORDER BY version_number DESC, of what is committed.
Highest == Cardinality(DOMAIN rows)

Init ==
  /\ rows = << >>
  /\ latest = 0
  /\ deleted = FALSE
  /\ draft = {}
  /\ page = [e \in Editor |-> NewPage]
  /\ job = [e \in Editor |-> NoJob]

-----------------------------------------------------------------------------
(* The page                                                                *)

\* setForest, undo, redo: an edit comes or goes.
Change(e, x) ==
  LET c == page[e].canvas
      d == IF x \in c THEN c \ {x} ELSE c \cup {x}
  IN /\ page' = [page EXCEPT ![e].canvas = d, ![e].saw = @ \cup d]
     /\ UNCHANGED <<database, job>>

\* loadGraph asks for the graph first; that answer decides what is latest.
LoadInfo(e) ==
  /\ job[e].at = "idle"
  /\ ~deleted
  /\ page' = [page EXCEPT ![e].known = latest]
  /\ job' = [job EXCEPT ![e].at = "loading"]
  /\ UNCHANGED database

Show(e, snap, from) ==
  /\ page' = [page EXCEPT ![e].canvas = snap, ![e].saw = snap, ![e].basis = from]
  /\ job' = [job EXCEPT ![e] = NoJob]
  /\ UNCHANGED database

\* Then for the draft.
LoadDraft(e) ==
  /\ job[e].at = "loading"
  /\ \E s \in draft : Show(e, s, "other")

\* There was none, or the request failed: then for the newest version, whether
\* or not there is a draft by now.
Newest(e) == IF page[e].known = 0 THEN {} ELSE rows[Highest].snap

LoadVersion(e) ==
  /\ job[e].at = "loading"
  /\ Show(e, Newest(e), "version")

\* A request fails: the canvas shows what it showed, and the page already
\* names the newest version.  (A save that does not wait for the load sends
\* the same.)  As with a draft, what is shown is no version.
LoadFails(e) ==
  /\ job[e].at = "loading"
  /\ page' = [page EXCEPT ![e].basis = "other"]
  /\ job' = [job EXCEPT ![e] = NoJob]
  /\ UNCHANGED database

-----------------------------------------------------------------------------
(* The draft                                                               *)

\* The debounced timer's request and its commit; neither the graph nor its
\* versions are read.  One that is late stores what an undo brings back.
UpsertDraft(e) ==
  /\ draft' = {page[e].canvas}
  /\ UNCHANGED <<rows, latest, deleted, page, job>>

-----------------------------------------------------------------------------
(* save_version                                                            *)

End(e) ==
  /\ job' = [job EXCEPT ![e] = NoJob]
  /\ UNCHANGED <<database, page>>

\* Slip: an older base is let through.
SlipIsStale(seen, named) == named > seen

\* The newest version is not the one the save builds on.
IsStale(seen, named) == seen # 0 /\ named # 0 /\ named # seen

\* The request arrives with the page's canvas and the version that was newest
\* when the page was loaded.  One moment decides what its reads show: that of
\* the first one under REPEATABLE READ, of the last under READ COMMITTED.  A
\* graph that is deleted, a snapshot that does not parse, a fatal finding and
\* a base that is stale end the request here.
SaveRead(e) ==
  /\ job[e].at = "idle"
  /\ latest + Cardinality({f \in Editor : Saves(f)}) < MaxVersions
  /\ ~deleted
  /\ Verdict[page[e].canvas] # "fatal"
  /\ ~IsStale(Highest, page[e].known)
  /\ job' = [job EXCEPT ![e] = [at |-> "read", snap |-> page[e].canvas, saw |-> page[e].saw,
                                named |-> page[e].known, seen |-> Highest]]
  /\ UNCHANGED <<database, page>>

Number(e) == job[e].seen + 1

\* The unique key (graph_id, version_number): an insert waits for another
\* one that is not committed and fails if the number is taken.
NumberTaken(n) == n \in DOMAIN rows

\* Slip: a reader of the newest version holds the next number.
SlipNumberHeld(n) == \E f \in Editor : Saves(f) /\ Number(f) = n

NumberHeld(n) == \E f \in Editor : job[f].at = "inserted" /\ Number(f) = n

\* Slip: the key does not cover the number.
SlipSaveInsert(e) ==
  /\ job[e].at = "read"
  /\ job' = [job EXCEPT ![e].at = "inserted"]
  /\ UNCHANGED <<database, page>>

SaveInsert(e) ==
  /\ job[e].at = "read"
  /\ ~NumberTaken(Number(e))
  /\ ~NumberHeld(Number(e))
  /\ job' = [job EXCEPT ![e].at = "inserted"]
  /\ UNCHANGED <<database, page>>

\* IntegrityError: the request fails with nothing written.
SaveCollides(e) ==
  /\ job[e].at = "read"
  /\ NumberTaken(Number(e))
  /\ End(e)

RowOf(e) == [snap |-> job[e].snap, warned |-> Verdict[job[e].snap] = "warn",
             parent |-> job[e].seen]

\* Slip: the graph is pointed to the successor of the version the page named.
SlipSaveCommit(e) ==
  /\ job[e].at = "inserted"
  /\ rows' = [n \in DOMAIN rows \cup {Number(e)} |->
                IF n = Number(e) THEN RowOf(e) ELSE rows[n]]
  /\ latest' = job[e].named + 1
  /\ draft' = {}
  /\ job' = [job EXCEPT ![e] = NoJob]
  /\ UNCHANGED <<deleted, page>>

\* set_latest_version, the draft is cleared, commit.  The page goes on
\* naming the version it was loaded with.
SaveCommit(e) ==
  /\ job[e].at = "inserted"
  /\ rows' = [n \in DOMAIN rows \cup {Number(e)} |->
                IF n = Number(e) THEN RowOf(e) ELSE rows[n]]
  /\ latest' = Number(e)
  /\ draft' = {}
  /\ job' = [job EXCEPT ![e] = NoJob]
  /\ UNCHANGED <<deleted, page>>

\* The pod dies or the commit fails: everything is rolled back.
SaveAbort(e) ==
  /\ Saves(e)
  /\ End(e)

-----------------------------------------------------------------------------
\* DELETE is a soft delete; saves and drafts under way do not notice it.
SoftDelete ==
  /\ ~deleted
  /\ deleted' = TRUE
  /\ UNCHANGED <<rows, latest, draft, page, job>>

Loading(e) == LoadDraft(e) \/ LoadVersion(e) \/ LoadFails(e)
Browse(e)  == LoadInfo(e) \/ Loading(e) \/ \E x \in Edit : Change(e, x)
Saving(e) == SaveInsert(e) \/ SaveCollides(e) \/ SaveCommit(e)

Next ==
  \/ \E e \in Editor : Browse(e) \/ UpsertDraft(e) \/ SaveRead(e) \/ Saving(e) \/ SaveAbort(e)
  \/ SoftDelete

\* A request that was sent is worked on, and InnoDB grants a lock in the order
\* it was asked for: a waiting insert is not passed over for ever.
Spec ==
  /\ Init
  /\ [][Next]_vars
  /\ \A e \in Editor : WF_vars(Saving(e)) /\ SF_vars(SaveInsert(e))

-----------------------------------------------------------------------------
(* Properties                                                              *)

\* Every variable has its type; there is at most one draft.
TypeOK ==
  /\ DOMAIN rows \subseteq Nat /\ \A n \in DOMAIN rows : rows[n] \in Version
  /\ latest \in Nat
  /\ deleted \in BOOLEAN
  /\ draft \subseteq SUBSET Edit /\ Cardinality(draft) <= 1
  /\ page \in [Editor -> Page]
  /\ job \in [Editor -> Job]

\* The committed versions are numbered without a gap up to the one the graph
\* points to, and each has the one before it as its parent: although number
\* and parent are computed from a read that may be old when the row is
\* inserted (graph_version_repo.py:45-72).
VersionsLinear ==
  /\ DOMAIN rows = 1 .. latest
  /\ \A n \in DOMAIN rows : rows[n].parent = n - 1

\* A save from a page that was loaded from a version, and that named it,
\* overwrites nothing its author never had on the canvas: the check of
\* parent_version_id works across pages, loads and commits.
NoUnseenLoss ==
  \A e \in Editor :
    job[e].at = "inserted" /\ job[e].named # 0 /\ page[e].basis = "version"
      => rows[job[e].seen].snap \subseteq job[e].saw

\* The same for every page that names its base.  It does not hold: a draft is
\* stored without the version it was based on, and a load that fails half way
\* leaves a page that names what it does not show.
NoUnseenLossAlways ==
  \A e \in Editor :
    job[e].at = "inserted" /\ job[e].named # 0
      => rows[job[e].seen].snap \subseteq job[e].saw

committed == [n \in 1 .. latest |-> rows[n].snap]
names     == [e \in Editor |-> page[e].known]

Chain == INSTANCE VersionChain WITH chain <- committed, base <- names

\* The versions behave as one chain: a save appends, nothing that is in the
\* chain changes, and whoever names a version appends only right behind it,
\* with reads, inserts and commits of several requests between each other.
ChainSpec == Chain!Spec

\* Every save is answered: the wait for another one's insert ends.
SaveAnswered == \A e \in Editor : Saves(e) ~> job[e].at = "idle"
=============================================================================
