---------------------------- MODULE Graph_proof -----------------------------
(***************************************************************************)
(* Proofs about GraphVersions, for any number of pages, edits and          *)
(* versions, and for any verdicts of the validator, and about Canvas  *)
(* and DesignValidator, for any instances, templates, semantics, bundles   *)
(* and any search for cycles that is right.                                *)
(***************************************************************************)
EXTENDS GraphVersions, DesignValidator, FiniteSetTheorems, SequenceTheorems,
        WellFoundedInduction, TLAPS

\* What a save knows of the versions: the one it builds on and the one it
\* read are no newer than the newest; it names the one it read or none; and
\* whoever has inserted a row read the newest version, and is alone.
SavesAreCurrent ==
  /\ \A e \in Editor : page[e].known <= latest
  /\ \A e \in Editor : Saves(e) =>
       /\ job[e].seen <= latest
       /\ job[e].named \in {0, job[e].seen}
       /\ job[e].named = page[e].known
  /\ \A e \in Editor : job[e].at = "inserted" => job[e].seen = latest
  /\ \A e, f \in Editor :
       job[e].at = "inserted" /\ job[f].at = "inserted" => e = f

\* What a page has shown of the version it names.
PagesHaveSeen ==
  /\ \A e \in Editor :
       /\ job[e].at # "loading"
       /\ page[e].basis = "version"
       /\ page[e].known # 0
       /\ page[e].known = latest
       => rows[latest].snap \subseteq page[e].saw
  /\ \A e \in Editor :
       /\ Saves(e)
       /\ page[e].basis = "version"
       /\ job[e].named # 0
       => rows[job[e].named].snap \subseteq job[e].saw

\* TypeOK, without the number of drafts.
Typed ==
  /\ DOMAIN rows \subseteq Nat /\ \A n \in DOMAIN rows : rows[n] \in Version
  /\ latest \in Nat
  /\ deleted \in BOOLEAN
  /\ draft = {} \/ \E s \in SUBSET Edit : draft = {s}
  /\ page \in [Editor -> Page]
  /\ job \in [Editor -> Job]

IInv == Typed /\ VersionsLinear /\ SavesAreCurrent /\ PagesHaveSeen

LEMMA HighestIsLatest ==
  ASSUME latest \in Nat, DOMAIN rows = 1 .. latest
  PROVE  Highest = latest
BY FS_Interval DEF Highest

LEMMA TypedIsTypeOK == Typed => TypeOK
<1> SUFFICES ASSUME Typed PROVE TypeOK
  OBVIOUS
<1>1. draft \subseteq SUBSET Edit /\ Cardinality(draft) <= 1
  <2>1. CASE draft = {}
    BY <2>1, FS_EmptySet
  <2>2. ASSUME NEW s \in SUBSET Edit, draft = {s}
        PROVE  draft \subseteq SUBSET Edit /\ Cardinality(draft) <= 1
    <3>1. Cardinality({s}) = 1
      BY FS_Singleton
    <3> QED BY <2>2, <3>1
  <2> QED BY <2>1, <2>2 DEF Typed
<1> QED BY <1>1 DEF Typed, TypeOK

LEMMA InitIInv == Init => IInv
<1> SUFFICES ASSUME Init PROVE IInv
  OBVIOUS
<1>1. DOMAIN rows = {} /\ 1 .. latest = {}
  BY DEF Init
<1>2. \A e \in Editor : page[e] = NewPage /\ job[e] = NoJob
  BY DEF Init
<1>3. Typed
  BY <1>1 DEF Init, Typed, NewPage, NoJob, Page, Job
<1>4. VersionsLinear
  BY <1>1 DEF VersionsLinear
<1>5. SavesAreCurrent /\ PagesHaveSeen
  BY <1>2 DEF Init, SavesAreCurrent, PagesHaveSeen, NewPage, NoJob, Saves
<1> QED BY <1>3, <1>4, <1>5 DEF IInv

LEMMA NewestType ==
  ASSUME Typed, VersionsLinear, NEW e \in Editor, page[e].known <= latest
  PROVE  /\ Newest(e) \in SUBSET Edit
         /\ page[e].known # 0 => Newest(e) = rows[latest].snap
<1>1. Highest = latest
  BY HighestIsLatest DEF Typed, VersionsLinear
<1>2. page[e].known \in Nat
  BY DEF Typed, Page
<1>3. page[e].known # 0 => latest \in DOMAIN rows
  BY <1>2 DEF Typed, VersionsLinear
<1> QED
  BY <1>1, <1>3 DEF Newest, Typed, Version

\* What a page comes to show as a version's is the newest one, or nothing new.
LEMMA LoadKeeps ==
  ASSUME IInv, NEW e \in Editor,
         page' \in [Editor -> Page], job' \in [Editor -> Job],
         UNCHANGED <<rows, latest, deleted, draft>>,
         page'[e].known = page[e].known, job'[e] = NoJob,
         \A f \in Editor \ {e} : page'[f] = page[f] /\ job'[f] = job[f],
         page'[e].basis = "version" /\ page[e].known # 0 => page'[e].saw = rows[latest].snap
  PROVE  IInv'
<1> USE DEF IInv
<1>1. Typed'
  BY DEF Typed
<1>2. VersionsLinear'
  BY DEF VersionsLinear
<1>3. \A f \in Editor : page'[f].known = page[f].known
  OBVIOUS
<1>4. \A f \in Editor : job'[f].at = "inserted" => job'[f] = job[f]
  BY DEF NoJob
<1>5. \A f \in Editor : Saves(f)' => Saves(f) /\ job'[f] = job[f] /\ page'[f] = page[f]
  BY DEF Saves, NoJob
<1>6. SavesAreCurrent'
  <2>1. \A f \in Editor : page'[f].known <= latest'
    BY <1>3 DEF SavesAreCurrent
  <2>2. \A f \in Editor : Saves(f)' =>
          /\ job'[f].seen <= latest'
          /\ job'[f].named \in {0, job'[f].seen}
          /\ job'[f].named = page'[f].known
    BY <1>3, <1>5 DEF SavesAreCurrent
  <2>3. \A f \in Editor : job'[f].at = "inserted" => job'[f].seen = latest'
    BY <1>4 DEF SavesAreCurrent
  <2>4. \A f, g \in Editor : job'[f].at = "inserted" /\ job'[g].at = "inserted" => f = g
    BY <1>4 DEF SavesAreCurrent
  <2> QED BY <2>1, <2>2, <2>3, <2>4 DEF SavesAreCurrent
<1>7. PagesHaveSeen'
  <2>1. ASSUME NEW f \in Editor, job'[f].at # "loading",
               page'[f].basis = "version", page'[f].known # 0, page'[f].known = latest'
        PROVE  rows'[latest'].snap \subseteq page'[f].saw
    BY <2>1 DEF PagesHaveSeen
  <2>2. ASSUME NEW f \in Editor, Saves(f)', page'[f].basis = "version", job'[f].named # 0
        PROVE  rows'[job'[f].named].snap \subseteq job'[f].saw
    BY <1>5, <2>2 DEF PagesHaveSeen
  <2> QED BY <2>1, <2>2 DEF PagesHaveSeen
<1> QED BY <1>1, <1>2, <1>6, <1>7

\* No step but a commit changes a version.
LEMMA NextIInv == IInv /\ [Next]_vars => IInv'
<1> SUFFICES ASSUME IInv, [Next]_vars PROVE IInv'
  OBVIOUS
<1> USE DEF IInv
<1>1. Highest = latest
  BY HighestIsLatest DEF Typed, VersionsLinear
<1>2. ASSUME NEW e \in Editor, NEW x \in Edit, Change(e, x) PROVE IInv'
  <2> DEFINE c == page[e].canvas
             d == IF x \in c THEN c \ {x} ELSE c \cup {x}
  <2>1. d \in SUBSET Edit
    BY DEF Typed, Page
  <2>2. /\ page' = [page EXCEPT ![e].canvas = d, ![e].saw = @ \cup d]
        /\ UNCHANGED <<rows, latest, deleted, draft, job>>
    BY <1>2 DEF Change, database
  <2> HIDE DEF d
  <2>3. page' \in [Editor -> Page]
    BY <2>1, <2>2 DEF Typed, Page
  <2>4. \A f \in Editor : /\ page'[f].known = page[f].known
                          /\ page'[f].basis = page[f].basis
                          /\ page[f].saw \subseteq page'[f].saw
    BY <2>2 DEF Typed, Page
  <2> QED
    <3>1. Typed'
      BY <2>2, <2>3, <2>4 DEF Typed
    <3>2. VersionsLinear'
      BY <2>2, <2>3, <2>4 DEF VersionsLinear
    <3>3. SavesAreCurrent'
      BY <2>2, <2>3, <2>4 DEF SavesAreCurrent, Saves, Typed, Page, Job
    <3>4. PagesHaveSeen'
      BY <2>2, <2>3, <2>4 DEF PagesHaveSeen, SavesAreCurrent, Saves, Typed, Page, Job
    <3> QED BY <3>1, <3>2, <3>3, <3>4
<1>3. ASSUME NEW e \in Editor, LoadInfo(e) PROVE IInv'
  <2>1. /\ page' = [page EXCEPT ![e].known = latest]
        /\ job' = [job EXCEPT ![e].at = "loading"]
        /\ UNCHANGED <<rows, latest, deleted, draft>>
    BY <1>3 DEF LoadInfo, database
  <2>2. page' \in [Editor -> Page] /\ job' \in [Editor -> Job]
    <3>1. page' \in [Editor -> Page]
      BY <2>1 DEF Typed, Page
    <3>2. job' \in [Editor -> Job]
      BY <2>1 DEF Typed, Job
    <3> QED BY <3>1, <3>2
  <2>3. /\ page'[e].known = latest /\ job'[e].at = "loading"
        /\ \A f \in Editor \ {e} : page'[f] = page[f] /\ job'[f] = job[f]
    BY <2>1 DEF Typed, Page, Job
  <2> QED
    <3>1. Typed'
      BY <2>1, <2>2, <2>3 DEF Typed
    <3>2. VersionsLinear'
      BY <2>1, <2>2, <2>3 DEF VersionsLinear
    <3>3. SavesAreCurrent'
      BY <2>1, <2>2, <2>3 DEF SavesAreCurrent, Saves, Typed, Page, Job
    <3>4. PagesHaveSeen'
      BY <2>1, <2>2, <2>3 DEF PagesHaveSeen, SavesAreCurrent, Saves, Typed, Page, Job
    <3> QED BY <3>1, <3>2, <3>3, <3>4
<1>4. ASSUME NEW e \in Editor, NEW design \in SUBSET Edit, NEW from \in {"version", "other"},
             Show(e, design, from),
             from = "version" /\ page[e].known # 0 => design = rows[latest].snap
      PROVE  IInv'
  <2>1. /\ page' = [page EXCEPT ![e].canvas = design, ![e].saw = design, ![e].basis = from]
        /\ job' = [job EXCEPT ![e] = NoJob]
        /\ UNCHANGED <<rows, latest, deleted, draft>>
    BY <1>4 DEF Show, database
  <2>2. page' \in [Editor -> Page] /\ job' \in [Editor -> Job]
    <3>1. job' \in [Editor -> Job]
      BY <2>1 DEF NoJob, Job, Typed
    <3>2. page \in [Editor -> Page] /\ page[e] \in Page
      BY DEF Typed
    <3>3. PICK p : p = [page[e] EXCEPT !.canvas = design, !.saw = design, !.basis = from]
      OBVIOUS
    <3>4. p \in Page
      BY <3>2, <3>3 DEF Page
    <3>5. page' = [page EXCEPT ![e] = p]
      BY <2>1, <3>2, <3>3
    <3> QED BY <3>1, <3>2, <3>4, <3>5
  <2>3. /\ page'[e].known = page[e].known /\ page'[e].saw = design
        /\ page'[e].basis = from
        /\ job'[e] = NoJob
        /\ \A f \in Editor \ {e} : page'[f] = page[f] /\ job'[f] = job[f]
    BY <2>1 DEF Typed, Page, Job
  <2> QED BY <1>4, <2>1, <2>2, <2>3, LoadKeeps
<1>5. ASSUME NEW e \in Editor, LoadFails(e) PROVE IInv'
  <2>1. /\ page' = [page EXCEPT ![e].basis = "other"]
        /\ job' = [job EXCEPT ![e] = NoJob]
        /\ UNCHANGED <<rows, latest, deleted, draft>>
    BY <1>5 DEF LoadFails, database
  <2>2. page' \in [Editor -> Page] /\ job' \in [Editor -> Job]
    <3>1. page' \in [Editor -> Page]
      BY <2>1 DEF Typed, Page
    <3>2. job' \in [Editor -> Job]
      BY <2>1 DEF Typed, Job, NoJob
    <3> QED BY <3>1, <3>2
  <2>3. /\ page'[e].known = page[e].known /\ page'[e].saw = page[e].saw
        /\ page'[e].basis = "other"
        /\ job'[e] = NoJob
        /\ \A f \in Editor \ {e} : page'[f] = page[f] /\ job'[f] = job[f]
    BY <2>1 DEF Typed, Page, Job
  <2> QED BY <2>1, <2>2, <2>3, LoadKeeps
<1>6. ASSUME NEW e \in Editor, LoadDraft(e) \/ LoadVersion(e) PROVE IInv'
  <2>1. CASE LoadDraft(e)
    <3>1. PICK s \in draft : Show(e, s, "other")
      BY <2>1 DEF LoadDraft
    <3>2. s \in SUBSET Edit
      BY <3>1 DEF Typed
    <3> QED BY <1>4, <3>1, <3>2
  <2>2. CASE LoadVersion(e)
    <3>1. /\ Newest(e) \in SUBSET Edit
          /\ page[e].known # 0 => Newest(e) = rows[latest].snap
      BY NewestType DEF SavesAreCurrent
    <3> QED BY <1>4, <2>2, <3>1 DEF LoadVersion
  <2> QED BY <1>6, <2>1, <2>2
<1>7. ASSUME NEW e \in Editor, UpsertDraft(e) PROVE IInv'
  <2>1. page[e].canvas \in SUBSET Edit
    BY DEF Typed, Page
  <2> QED
    BY <1>7, <2>1
    DEF UpsertDraft, Typed, VersionsLinear, SavesAreCurrent, PagesHaveSeen, Saves
<1>8. ASSUME NEW e \in Editor, SaveRead(e) PROVE IInv'
  <2> DEFINE j == [at |-> "read", snap |-> page[e].canvas, saw |-> page[e].saw,
                   named |-> page[e].known, seen |-> latest]
  <2>1. /\ job' = [job EXCEPT ![e] = j]
        /\ UNCHANGED <<rows, latest, deleted, draft, page>>
        /\ job[e].at = "idle"
        /\ ~IsStale(latest, page[e].known)
    BY <1>8, <1>1 DEF SaveRead, database
  <2>2. page[e] \in Page /\ page[e].known <= latest
    BY DEF Typed, SavesAreCurrent
  <2>3. job' \in [Editor -> Job]
    BY <2>1, <2>2 DEF Typed, Page, Job
  <2>4. page[e].known \in {0, latest}
    BY <2>1, <2>2 DEF IsStale, Page, Typed
  <2>5. /\ job'[e] = j
        /\ \A f \in Editor \ {e} : job'[f] = job[f]
    BY <2>1 DEF Typed
  <2> QED
    <3>1. Typed'
      BY <2>1, <2>2, <2>3, <2>4, <2>5 DEF Typed
    <3>2. VersionsLinear'
      BY <2>1, <2>2, <2>3, <2>4, <2>5 DEF VersionsLinear
    <3>3. SavesAreCurrent'
      BY <2>1, <2>2, <2>3, <2>4, <2>5 DEF SavesAreCurrent, Saves, Typed, Page, Job
    <3>4. PagesHaveSeen'
      BY <2>1, <2>2, <2>3, <2>4, <2>5 DEF PagesHaveSeen, SavesAreCurrent, Saves, Typed, Page, Job
    <3> QED BY <3>1, <3>2, <3>3, <3>4
<1>9. ASSUME NEW e \in Editor, SaveInsert(e) PROVE IInv'
  <2>1. /\ job' = [job EXCEPT ![e].at = "inserted"]
        /\ UNCHANGED <<rows, latest, deleted, draft, page>>
        /\ job[e].at = "read"
        /\ ~NumberTaken(job[e].seen + 1)
        /\ ~NumberHeld(job[e].seen + 1)
    BY <1>9 DEF SaveInsert, database, Number
  <2>2. job[e] \in Job /\ job[e].seen \in Nat /\ job[e].seen <= latest /\ latest \in Nat
    BY <2>1 DEF Typed, SavesAreCurrent, Saves, Job
  <2>3. job[e].seen = latest
    BY <2>1, <2>2 DEF NumberTaken, VersionsLinear
  <2>4. \A f \in Editor : job[f].at # "inserted"
    BY <2>1, <2>3 DEF NumberHeld, Number, SavesAreCurrent
  <2>5. job' \in [Editor -> Job]
    BY <2>1, <2>2 DEF Typed, Job
  <2>6. /\ job'[e].at = "inserted" /\ job'[e].seen = job[e].seen
        /\ job'[e].named = job[e].named /\ job'[e].saw = job[e].saw
        /\ \A f \in Editor \ {e} : job'[f] = job[f]
    BY <2>1 DEF Typed, Job
  <2> QED
    <3>1. Typed'
      BY <2>1, <2>3, <2>4, <2>5, <2>6 DEF Typed
    <3>2. VersionsLinear'
      BY <2>1, <2>3, <2>4, <2>5, <2>6 DEF VersionsLinear
    <3>3. SavesAreCurrent'
      BY <2>1, <2>3, <2>4, <2>5, <2>6 DEF SavesAreCurrent, Saves, Typed, Page, Job
    <3>4. PagesHaveSeen'
      BY <2>1, <2>3, <2>4, <2>5, <2>6 DEF PagesHaveSeen, SavesAreCurrent, Saves, Typed, Page, Job
    <3> QED BY <3>1, <3>2, <3>3, <3>4
<1>10. ASSUME NEW e \in Editor, job' = [job EXCEPT ![e] = NoJob],
             UNCHANGED <<rows, latest, deleted, draft, page>>,
             Saves(e)
      PROVE IInv'
  <2>1. job' \in [Editor -> Job]
    BY <1>10 DEF Typed, Job, NoJob
  <2>2. job'[e] = NoJob /\ \A f \in Editor \ {e} : job'[f] = job[f]
    BY <1>10 DEF Typed
  <2> QED
    BY <1>10, <2>1, <2>2
    DEF Typed, VersionsLinear, SavesAreCurrent, PagesHaveSeen, Saves, NoJob
<1>11. ASSUME NEW e \in Editor, SaveCommit(e) PROVE IInv'
  <2>1. /\ job' = [job EXCEPT ![e] = NoJob]
        /\ rows' = [n \in DOMAIN rows \cup {latest + 1} |->
                      IF n = latest + 1 THEN RowOf(e) ELSE rows[n]]
        /\ latest' = latest + 1
        /\ draft' = {}
        /\ UNCHANGED <<deleted, page>>
        /\ job[e].seen = latest
        /\ job[e].at = "inserted"
    BY <1>11 DEF SaveCommit, Number, SavesAreCurrent
  <2>2. RowOf(e) \in Version /\ RowOf(e).parent = latest
    <3>1. job[e] \in Job
      BY DEF Typed
    <3> QED BY <3>1, <2>1 DEF RowOf, Version, Job
  <2>3. DOMAIN rows' = 1 .. latest' /\ latest' \in Nat
    BY <2>1 DEF VersionsLinear, Typed
  <2>4. /\ \A n \in DOMAIN rows : n # latest + 1 /\ rows'[n] = rows[n]
        /\ rows'[latest + 1] = RowOf(e)
    BY <2>1 DEF VersionsLinear, Typed
  <2>5. Typed'
    <3>1. \A n \in DOMAIN rows' : rows'[n] \in Version
      BY <2>1, <2>2, <2>4 DEF Typed
    <3>2. job' \in [Editor -> Job]
      BY <2>1 DEF Typed, Job, NoJob
    <3> QED BY <2>1, <2>3, <3>1, <3>2 DEF Typed
  <2>6. VersionsLinear'
    <3>1. \A n \in DOMAIN rows' : n \in DOMAIN rows \/ n = latest + 1
      BY <2>1
    <3> QED BY <3>1, <2>2, <2>3, <2>4 DEF VersionsLinear, Typed
  <2>7. job'[e] = NoJob /\ \A f \in Editor \ {e} : job'[f] = job[f]
    BY <2>1 DEF Typed
  <2>8. SavesAreCurrent'
    <3>1. \A f \in Editor : page[f].known \in Nat /\ job[f].seen \in Nat
      BY DEF Typed, Page, Job
    <3>2. \A f \in Editor : job'[f].at # "inserted"
      BY <2>1, <2>7 DEF SavesAreCurrent, NoJob
    <3> QED BY <2>1, <2>7, <3>1, <3>2 DEF SavesAreCurrent, Saves, NoJob, Typed
  <2>9. PagesHaveSeen'
    <3>1. \A f \in Editor : page'[f].known # latest'
      BY <2>1 DEF SavesAreCurrent, Typed, Page
    <3>2. ASSUME NEW f \in Editor, Saves(f)', page'[f].basis = "version", job'[f].named # 0
          PROVE  rows'[job'[f].named].snap \subseteq job'[f].saw
      <4>1. f # e /\ job'[f] = job[f]
        BY <3>2, <2>7 DEF Saves, NoJob
      <4>2. job[f].named \in DOMAIN rows
        BY <4>1, <3>2 DEF Saves, SavesAreCurrent, VersionsLinear, Typed, Job
      <4> QED BY <4>1, <4>2, <3>2, <2>4, <2>1 DEF PagesHaveSeen, Saves
    <3> QED BY <3>1, <3>2 DEF PagesHaveSeen
  <2> QED BY <2>5, <2>6, <2>8, <2>9
<1>12. CASE SoftDelete
  BY <1>12 DEF SoftDelete, Typed, VersionsLinear, SavesAreCurrent, PagesHaveSeen, Saves
<1>13. CASE UNCHANGED vars
  BY <1>13 DEF vars, database, Typed, VersionsLinear, SavesAreCurrent, PagesHaveSeen, Saves
<1>14. ASSUME NEW e \in Editor, SaveCollides(e) \/ SaveAbort(e) PROVE IInv'
  BY <1>10, <1>14 DEF SaveCollides, SaveAbort, End, database, Saves
<1> QED
  BY <1>2, <1>3, <1>7, <1>8, <1>9, <1>11, <1>12, <1>13, <1>14, <1>5, <1>6
  DEF Next, Browse, Loading, Saving

LEMMA Invariant == Spec => []IInv
BY InitIInv, NextIInv, PTL DEF Spec

-----------------------------------------------------------------------------
\* Type correctness, for every set of pages and edits.
THEOREM TypeCorrect == Spec => []TypeOK
<1>1. IInv => TypeOK
  BY TypedIsTypeOK DEF IInv
<1> QED BY <1>1, Invariant, PTL

\* The versions of a graph are one chain, although their numbers are computed
\* from reads that may be old when the row is inserted.
THEOREM Linear == Spec => []VersionsLinear
<1>1. IInv => VersionsLinear
  BY DEF IInv
<1> QED BY <1>1, Invariant, PTL

\* A save that names its base overwrites nothing its author has not seen.
THEOREM NothingUnseenIsLost == Spec => []NoUnseenLoss
<1>1. IInv => NoUnseenLoss
  <2> SUFFICES ASSUME IInv, NEW e \in Editor, job[e].at = "inserted",
                      job[e].named # 0, page[e].basis = "version"
               PROVE  rows[job[e].seen].snap \subseteq job[e].saw
    BY DEF NoUnseenLoss
  <2>1. job[e].named = job[e].seen
    BY DEF IInv, SavesAreCurrent, Saves
  <2> QED BY <2>1 DEF IInv, PagesHaveSeen, Saves
<1> QED BY <1>1, Invariant, PTL

-----------------------------------------------------------------------------
(* Refinement                                                              *)

LEMMA ChainType ==
  ASSUME IInv
  PROVE  committed \in Seq(SUBSET Edit) /\ Len(committed) = latest
<1>1. latest \in Nat /\ \A n \in 1 .. latest : rows[n].snap \in SUBSET Edit
  BY DEF IInv, Typed, VersionsLinear, Version
<1> QED BY <1>1 DEF committed

\* Every step is a step of the chain or leaves it and the names as they are.
LEMMA StepRefines == IInv /\ [Next]_vars => [Chain!Next]_<<committed, names>>
<1> SUFFICES ASSUME IInv, [Next]_vars PROVE [Chain!Next]_<<committed, names>>
  OBVIOUS
<1> USE DEF IInv
<1>1. /\ committed \in Seq(SUBSET Edit) /\ Len(committed) = latest
      /\ latest \in Nat /\ Highest = latest
  BY ChainType, HighestIsLatest DEF Typed, VersionsLinear
<1>2. ASSUME NEW e \in Editor, LoadInfo(e) PROVE Chain!Open(e)
  <2>1. committed' = committed
    BY <1>2 DEF LoadInfo, database, committed
  <2>2. names' = [names EXCEPT ![e] = latest]
    <3>1. /\ page' = [page EXCEPT ![e].known = latest]
          /\ job' = [job EXCEPT ![e].at = "loading"]
      BY <1>2 DEF LoadInfo
    <3>2. \A f \in Editor : page'[f].known = IF f = e THEN latest ELSE page[f].known
      BY <3>1 DEF Typed, Page
    <3> QED BY <3>2 DEF names
  <2>3. latest \in 0 .. Len(committed)
    BY <1>1
  <2> QED BY <2>1, <2>2, <2>3 DEF Chain!Open
<1>3. ASSUME NEW e \in Editor, SaveCommit(e) PROVE Chain!Save(e)
  <2>1. /\ job' = [job EXCEPT ![e] = NoJob]
        /\ rows' = [n \in DOMAIN rows \cup {latest + 1} |->
                      IF n = latest + 1 THEN RowOf(e) ELSE rows[n]]
        /\ latest' = latest + 1
        /\ page' = page
        /\ job[e].seen = latest
        /\ Saves(e)
    BY <1>3 DEF SaveCommit, Number, SavesAreCurrent, Saves
  <2>2. names[e] \in {0, Len(committed)}
    BY <2>1, <1>1 DEF names, SavesAreCurrent
  <2>3. names' = names
    BY <2>1 DEF names
  <2>4. job[e].snap \in SUBSET Edit /\ RowOf(e).snap = job[e].snap
    BY DEF Typed, Job, RowOf
  <2>5. committed' = Append(committed, job[e].snap)
    <3>1. Append(committed, job[e].snap) \in Seq(SUBSET Edit)
          /\ Len(Append(committed, job[e].snap)) = latest + 1
      BY <1>1, <2>4
    <3>2. committed' = [n \in 1 .. latest + 1 |-> rows'[n].snap]
      BY <2>1 DEF committed
    <3>3. ASSUME NEW n \in 1 .. latest + 1
          PROVE  rows'[n].snap = Append(committed, job[e].snap)[n]
      <4>1. CASE n = latest + 1
        BY <4>1, <2>1, <2>4, <1>1
      <4>2. CASE n \in 1 .. latest
        <5>1. n # latest + 1 /\ n \in DOMAIN rows
          BY <4>2, <1>1 DEF VersionsLinear
        <5>2. rows'[n] = rows[n]
          BY <2>1, <5>1
        <5>3. Append(committed, job[e].snap)[n] = committed[n]
          BY <4>2, <1>1, <2>4
        <5> QED BY <5>2, <5>3, <4>2 DEF committed
      <4> QED BY <4>1, <4>2, <1>1
    <3>4. Append(committed, job[e].snap) =
            [n \in 1 .. latest + 1 |-> Append(committed, job[e].snap)[n]]
      BY <3>1, <1>1
    <3> QED BY <3>2, <3>3, <3>4
  <2> QED BY <2>2, <2>3, <2>4, <2>5 DEF Chain!Save
<1>4. ASSUME UNCHANGED <<rows, latest>>, \A e \in Editor : page'[e].known = page[e].known
      PROVE  UNCHANGED <<committed, names>>
  BY <1>4 DEF committed, names
<1>5. ASSUME NEW e \in Editor, NEW x \in Edit, Change(e, x)
      PROVE  UNCHANGED <<committed, names>>
  <2> DEFINE c == page[e].canvas
             d == IF x \in c THEN c \ {x} ELSE c \cup {x}
  <2>1. page' = [page EXCEPT ![e].canvas = d, ![e].saw = @ \cup d] /\ UNCHANGED <<rows, latest>>
    BY <1>5 DEF Change, database
  <2> HIDE DEF d
  <2>2. \A f \in Editor : page'[f].known = page[f].known
    BY <2>1 DEF Typed, Page
  <2> QED BY <2>1, <2>2, <1>4
<1>6. ASSUME NEW e \in Editor, Loading(e) PROVE UNCHANGED <<committed, names>>
  <2>1. CASE LoadDraft(e) \/ LoadVersion(e)
    <3>1. PICK design, from : Show(e, design, from)
      BY <2>1 DEF LoadDraft, LoadVersion
    <3>2. UNCHANGED <<rows, latest>> /\ \A f \in Editor : page'[f].known = page[f].known
      BY <3>1 DEF Show, database, Typed, Page
    <3> QED BY <3>2, <1>4
  <2>2. CASE LoadFails(e)
    <3>1. UNCHANGED <<rows, latest>> /\ \A f \in Editor : page'[f].known = page[f].known
      BY <2>2 DEF LoadFails, database, Typed, Page
    <3> QED BY <3>1, <1>4
  <2> QED BY <1>6, <2>1, <2>2 DEF Loading
<1>7. ASSUME NEW e \in Editor,
             UpsertDraft(e) \/ SaveRead(e) \/ SaveInsert(e) \/ SaveCollides(e) \/ SaveAbort(e)
      PROVE  UNCHANGED <<committed, names>>
  BY <1>7, <1>4 DEF UpsertDraft, SaveRead, SaveInsert, SaveCollides, SaveAbort, End, database
<1>8. CASE SoftDelete \/ UNCHANGED vars
  BY <1>8, <1>4 DEF SoftDelete, vars, database
<1> QED
  BY <1>2, <1>3, <1>5, <1>6, <1>7, <1>8 DEF Next, Browse, Saving, Chain!Next

LEMMA InitRefines == Init => Chain!Init
<1> SUFFICES ASSUME Init PROVE Chain!Init
  OBVIOUS
<1>1. committed = << >>
  BY DEF Init, committed
<1>2. names = [e \in Editor |-> 0]
  BY DEF Init, names, NewPage
<1> QED BY <1>1, <1>2 DEF Chain!Init

\* The tables, the requests and the pages implement the chain of versions.
THEOREM ImplementsChain == Spec => ChainSpec
BY InitRefines, StepRefines, Invariant, PTL DEF Spec, ChainSpec, Chain!Spec

-----------------------------------------------------------------------------
(* The canvas: what every edit keeps.                                      *)

\* Each id of S is that of one instance: h has it.
NodesSound(N, S) == \E h \in [S -> Instance] : N = [n \in S |-> <<h[n]>>]

\* The edges E lead from an instance of S to one.
EdgesSound(E, S) ==
  E \in Edges /\ \A i \in DOMAIN E : E[i].src \in S /\ E[i].dst \in S

\* The bundles B hold instances of S, each at one place only, and have an id each.
BundlesSound(B, S) ==
  /\ B \in Bundles
  /\ \A i, j \in DOMAIN B : B[i].bid = B[j].bid => i = j
  /\ \A i \in DOMAIN B : \A k \in DOMAIN B[i].members : B[i].members[k] \in S
  /\ \A i, j \in DOMAIN B : \A k \in DOMAIN B[i].members, l \in DOMAIN B[j].members :
       B[i].members[k] = B[j].members[l] => i = j /\ k = l

\* A snapshot is sound.
Sound(s) ==
  /\ Shaped(s) /\ NodesSound(s.nodes, Ids(s))
  /\ EdgesSound(s.edges, Ids(s)) /\ BundlesSound(s.bundles, Ids(s))

\* What a client sends is only of its type.
CanvasInv == Shaped(snap) /\ (origin = "page" => Sound(snap))

\* A nonempty set of naturals has a least element, which Min names.
LEMMA LeastPlace ==
  ASSUME NEW S, S \subseteq Nat, S # {}
  PROVE  Min(S) \in S
<1> DEFINE lt == {ss \in Nat \X Nat : ss[1] < ss[2]}
<1>1. IsWellFoundedOn(lt, Nat)
  BY NatLessThanWellFounded DEF OpToRel
<1>2. \A k, m \in Nat : k < m => <<k, m>> \in lt
  OBVIOUS
<1> HIDE DEF lt
<1>3. PICK m \in S : \A k \in S : ~ (<<k, m>> \in lt)
  BY <1>1, WFMin
<1>4. \A k \in S : k \in Nat /\ m \in Nat /\ ~ k < m
  BY <1>2, <1>3
<1>5. \E x \in S : \A y \in S : x =< y
  BY <1>4
<1>6. QED
  BY <1>5, Zenon DEF Min

\* Each place that is kept comes to stand somewhere.
LEMMA EveryRankTaken ==
  ASSUME NEW K, K \subseteq Nat, IsFiniteSet(K), NEW k \in 1 .. Cardinality(K)
  PROVE  \E i \in K : Rank(K, i) = k
<1> DEFINE n == Cardinality(K)
           f == [i \in K |-> Rank(K, i)]
           below(i) == {j \in K : j <= i}
<1>1. n \in Nat
  BY FS_CardinalityType
<1>2. \A i \in K :
        IsFiniteSet(below(i)) /\ Cardinality(below(i)) \in Nat /\ Cardinality(below(i)) <= n
  <2> SUFFICES ASSUME NEW i \in K
               PROVE  /\ IsFiniteSet(below(i)) /\ Cardinality(below(i)) \in Nat
                      /\ Cardinality(below(i)) <= n
    OBVIOUS
  <2>1. below(i) \in SUBSET K
    OBVIOUS
  <2> HIDE DEF below
  <2>2. QED
    BY <2>1, FS_Subset, FS_CardinalityType
<1>3. \A i \in K : Rank(K, i) \in 1 .. n
  <2> SUFFICES ASSUME NEW i \in K PROVE Rank(K, i) \in 1 .. n
    OBVIOUS
  <2>1. i \in below(i)
    OBVIOUS
  <2>2. Rank(K, i) = Cardinality(below(i))
    BY DEF Rank
  <2> HIDE DEF below
  <2>3. Cardinality(below(i)) # 0
    BY <1>2, <2>1, FS_EmptySet
  <2>4. QED
    BY <1>1, <1>2, <2>2, <2>3
<1>4. \A i, j \in K : i < j => Rank(K, i) # Rank(K, j)
  <2> SUFFICES ASSUME NEW i \in K, NEW j \in K, i < j PROVE Rank(K, i) # Rank(K, j)
    OBVIOUS
  <2>1. below(i) \in SUBSET below(j) /\ j \in below(j) /\ j \notin below(i)
    <3>1. i \in Nat /\ j \in Nat
      OBVIOUS
    <3>2. \A x \in Nat : x <= i => x <= j
      BY <3>1
    <3>3. ASSUME NEW x \in below(i) PROVE x \in below(j)
      <4>1. x \in K /\ x \in Nat /\ x <= i
        OBVIOUS
      <4>2. x <= j
        BY <3>2, <4>1
      <4>3. QED
        BY <4>1, <4>2
    <3>4. j \in below(j) /\ j \notin below(i)
      BY <3>1
    <3>5. below(i) \subseteq below(j)
      BY <3>3
    <3>6. QED
      BY <3>4, <3>5
  <2>2. Rank(K, i) = Cardinality(below(i)) /\ Rank(K, j) = Cardinality(below(j))
    BY DEF Rank
  <2> HIDE DEF below
  <2>3. QED
    BY <1>2, <2>1, <2>2, FS_Subset
<1>5. f \in Injection(K, 1 .. n)
  <2>1. f \in [K -> 1 .. n]
    BY <1>3
  <2>2. ASSUME NEW i \in K, NEW j \in K, f[i] = f[j] PROVE i = j
    BY <1>4, <2>2
  <2>3. QED
    BY <2>1, <2>2 DEF Injection, IsInjective
<1>6. IsFiniteSet(1 .. n) /\ Cardinality(1 .. n) = n
  BY <1>1, FS_Interval
<1> HIDE DEF n, f
<1>7. f \in Surjection(K, 1 .. n)
  BY <1>5, <1>6, FS_Injection DEF n
<1>8. \E i \in K : f[i] = k
  BY <1>7 DEF Surjection, n
<1>9. QED
  BY <1>8 DEF f

\* Array.filter keeps elements: each element of the result has a place of its own
\* in the original, and each place that is kept is one of them.
LEMMA PickProperties ==
  ASSUME NEW T, NEW s \in Seq(T), NEW K, K \subseteq DOMAIN s
  PROVE  /\ Pick(s, K) \in Seq(T)
         /\ \E at \in [DOMAIN Pick(s, K) -> K] :
              /\ \A k \in DOMAIN Pick(s, K) : Pick(s, K)[k] = s[at[k]]
              /\ \A k, l \in DOMAIN Pick(s, K) : at[k] = at[l] => k = l
         /\ \A x : x \in ToSet(Pick(s, K)) <=> \E i \in K : x = s[i]
<1> DEFINE n == Cardinality(K)
           at == [k \in 1 .. n |-> CHOOSE i \in K : Rank(K, i) = k]
<1>1. Len(s) \in Nat /\ DOMAIN s = 1 .. Len(s) /\ K \subseteq Nat
  BY LenProperties
<1>2. IsFiniteSet(K) /\ n \in Nat
  <2>1. IsFiniteSet(1 .. Len(s)) /\ K \in SUBSET (1 .. Len(s))
    BY <1>1, FS_Interval
  <2>2. QED
    BY <2>1, FS_Subset, FS_CardinalityType
<1>3. \A k \in 1 .. n : at[k] \in K /\ Rank(K, at[k]) = k
  BY <1>1, <1>2, EveryRankTaken
<1>4. Pick(s, K) = [k \in 1 .. n |-> s[at[k]]]
  BY DEF Pick
<1> HIDE DEF at
<1>5. \A k \in 1 .. n : s[at[k]] \in T
  BY <1>1, <1>3, ElementOfSeq
<1>6. Pick(s, K) \in Seq(T)
  <2>1. [k \in 1 .. n |-> s[at[k]]] \in Seq(T)
    BY <1>2, <1>5
  <2>2. QED
    BY <1>4, <2>1
<1>7. DOMAIN Pick(s, K) = 1 .. n
  BY <1>4
<1>8. at \in [1 .. n -> K]
  BY <1>3 DEF at
<1>9. /\ \A k \in 1 .. n : Pick(s, K)[k] = s[at[k]]
      /\ \A k, l \in 1 .. n : at[k] = at[l] => k = l
  BY <1>3, <1>4
<1>10. \A i \in K : \E k \in 1 .. n : at[k] = i
  <2>1. at \in Injection(1 .. n, K)
    BY <1>8, <1>9 DEF Injection, IsInjective
  <2>2. IsFiniteSet(1 .. n) /\ Cardinality(1 .. n) = n
    BY <1>2, FS_Interval
  <2> HIDE DEF n
  <2>3. at \in Surjection(1 .. n, K)
    BY <1>2, <2>1, <2>2, FS_Injection DEF n
  <2>4. QED
    BY <2>3 DEF Surjection
<1>11. \A x : x \in ToSet(Pick(s, K)) <=> \E i \in K : x = s[i]
  <2>1. \A x : x \in ToSet(Pick(s, K)) <=> \E k \in 1 .. n : x = s[at[k]]
    BY <1>7, <1>9 DEF ToSet
  <2>2. QED
    BY <1>3, <1>10, <2>1
<1>12. \E a \in [DOMAIN Pick(s, K) -> K] :
         /\ \A k \in DOMAIN Pick(s, K) : Pick(s, K)[k] = s[a[k]]
         /\ \A k, l \in DOMAIN Pick(s, K) : a[k] = a[l] => k = l
  BY <1>7, <1>8, <1>9
<1>13. QED
  BY <1>6, <1>11, <1>12

\* A snapshot is its three parts.
LEMMA PartsOf ==
  ASSUME NEW s, Shaped(s)
  PROVE  /\ s = [nodes |-> s.nodes, edges |-> s.edges, bundles |-> s.bundles]
         /\ Ids(s) \subseteq Id /\ s.nodes \in [Ids(s) -> Seq(Instance) \ {<< >>}]
         /\ s.edges \in Edges /\ s.bundles \in Bundles
<1>1. PICK T : T = Seq(Instance) \ {<< >>}
  OBVIOUS
<1>2. PICK S \in SUBSET Id : s \in [nodes : [S -> T], edges : Edges, bundles : Bundles]
  BY <1>1 DEF Shaped
<1>3. s.nodes \in [S -> T] /\ S = Ids(s)
  BY <1>2 DEF Ids
<1>4. QED
  BY <1>1, <1>2, <1>3

\* A snapshot of sound parts is sound.
LEMMA SoundOf ==
  ASSUME NEW S, S \subseteq Id, NEW N, NodesSound(N, S), NEW E, EdgesSound(E, S),
         NEW B, BundlesSound(B, S), NEW s, s = [nodes |-> N, edges |-> E, bundles |-> B]
  PROVE  Sound(s) /\ Ids(s) = S
<1>1. PICK h \in [S -> Instance] : N = [n \in S |-> <<h[n]>>]
  BY DEF NodesSound
<1>2. Ids(s) = S /\ s.nodes = N /\ s.edges = E /\ s.bundles = B
  BY <1>1 DEF Ids
<1>3. PICK T : T = Seq(Instance) \ {<< >>}
  OBVIOUS
<1>4. N \in [S -> T]
  <2>1. \A x \in Instance : <<x>> \in T
    BY <1>3
  <2>2. QED
    BY <1>1, <2>1
<1>5. Shaped(s)
  <2>1. s \in [nodes : [S -> T], edges : Edges, bundles : Bundles]
    BY <1>4 DEF EdgesSound, BundlesSound
  <2>2. QED
    BY <1>3, <2>1 DEF Shaped
<1>6. QED
  BY <1>2, <1>5 DEF Sound

\* What a page has of an id is one instance, the one that counts.
LEMMA OneInstance ==
  ASSUME NEW s, NEW h \in [Ids(s) -> Instance], s.nodes = [n \in Ids(s) |-> <<h[n]>>],
         NEW n \in Ids(s)
  PROVE  /\ s.nodes[n] = <<h[n]>> /\ Len(s.nodes[n]) = 1 /\ DOMAIN s.nodes[n] = 1 .. 1
         /\ s.nodes[n][1] = h[n] /\ LastOf(s, n) = h[n] /\ h[n] \in Instance
<1>1. PICK x \in Instance : x = h[n] /\ s.nodes[n] = <<x>>
  OBVIOUS
<1>2. Len(<<x>>) = 1 /\ DOMAIN <<x>> = 1 .. 1 /\ <<x>>[1] = x
  OBVIOUS
<1>3. LastOf(s, n) = x
  BY <1>1, <1>2 DEF LastOf, Last
<1>4. QED
  BY <1>1, <1>2, <1>3

-----------------------------------------------------------------------------
(* Edges and bundles                                                       *)

\* A list of elements of T.
LEMMA ElementsMakeSeq ==
  ASSUME NEW T, NEW n \in Nat, NEW f, f = [j \in 1 .. n |-> f[j]], \A j \in 1 .. n : f[j] \in T
  PROVE  f \in Seq(T)
<1>1. [j \in 1 .. n |-> f[j]] \in Seq(T)
  OBVIOUS
<1>2. QED
  BY <1>1

\* Some of the edges are sound if all are.
LEMMA FewerEdges ==
  ASSUME NEW S, NEW E, EdgesSound(E, S), NEW K, K \subseteq DOMAIN E, NEW R,
         \A i \in K : E[i].src \in R /\ E[i].dst \in R
  PROVE  /\ EdgesSound(Pick(E, K), R)
         /\ \A k \in DOMAIN Pick(E, K) : \E i \in K : Pick(E, K)[k] = E[i]
<1>1. PICK T : E \in Seq(T) /\ Edges = Seq(T)
  BY DEF EdgesSound, Edges
<1>2. /\ Pick(E, K) \in Edges
      /\ \A k \in DOMAIN Pick(E, K) : \E i \in K : Pick(E, K)[k] = E[i]
  BY <1>1, PickProperties
<1>3. QED
  BY <1>2 DEF EdgesSound

\* Some of the bundles are sound if all are.
LEMMA FewerBundles ==
  ASSUME NEW S, NEW B, BundlesSound(B, S), NEW K, K \subseteq DOMAIN B
  PROVE  /\ BundlesSound(Pick(B, K), S)
         /\ \A k \in DOMAIN Pick(B, K) : \E i \in K : Pick(B, K)[k] = B[i]
<1> DEFINE P == Pick(B, K)
<1>1. PICK T : B \in Seq(T) /\ Bundles = Seq(T)
  BY DEF BundlesSound, Bundles
<1>2. PICK at \in [DOMAIN P -> K] :
        /\ \A k \in DOMAIN P : P[k] = B[at[k]]
        /\ \A k, l \in DOMAIN P : at[k] = at[l] => k = l
  BY <1>1, PickProperties
<1>3. P \in Bundles
  BY <1>1, PickProperties
<1> HIDE DEF P
<1>4. \A i \in DOMAIN P : at[i] \in DOMAIN B
  BY <1>2
<1>5. \A i \in DOMAIN P : \A k \in DOMAIN P[i].members : P[i].members[k] \in S
  BY <1>2, <1>4 DEF BundlesSound
<1>6. ASSUME NEW i \in DOMAIN P, NEW j \in DOMAIN P,
             NEW k \in DOMAIN P[i].members, NEW l \in DOMAIN P[j].members,
             P[i].members[k] = P[j].members[l]
      PROVE  i = j /\ k = l
  <2>1. at[i] = at[j] /\ k = l
    BY <1>2, <1>4, <1>6 DEF BundlesSound
  <2>2. QED
    BY <1>2, <2>1
<1>7. \A i, j \in DOMAIN P : P[i].bid = P[j].bid => i = j
  BY <1>2, <1>4 DEF BundlesSound
<1>8. QED
  BY <1>2, <1>3, <1>5, <1>6, <1>7 DEF BundlesSound, P

\* W and C are the bundles B without n, and with n in the one at i.
Fewer(W, B, n) ==
  /\ DOMAIN W = DOMAIN B
  /\ \A j \in DOMAIN B : /\ W[j].bid = B[j].bid
                         /\ ToSet(W[j].members) = ToSet(B[j].members) \ {n}

More(C, B, i, n) ==
  /\ DOMAIN C = DOMAIN B
  /\ C[i].bid = B[i].bid /\ ToSet(C[i].members) = ToSet(B[i].members) \cup {n}
  /\ \A j \in DOMAIN B : j # i => C[j] = B[j]

\* An instance is taken out of every bundle.
LEMMA TakenOut ==
  ASSUME NEW S, NEW B, BundlesSound(B, S), NEW n, NEW W, W = Without(B, n)
  PROVE  BundlesSound(W, S \ {n}) /\ Fewer(W, B, n)
<1> DEFINE K(i) == {k \in DOMAIN B[i].members : B[i].members[k] # n}
<1>1. B \in Seq([bid : Bid, members : Seq(Id)]) /\ DOMAIN B = 1 .. Len(B) /\ Len(B) \in Nat
      /\ \A i \in DOMAIN B : B[i] \in [bid : Bid, members : Seq(Id)]
  <2>1. PICK T : B \in Seq(T) /\ T = [bid : Bid, members : Seq(Id)]
    BY DEF BundlesSound, Bundles
  <2>2. QED
    BY <2>1, LenProperties, ElementOfSeq
<1>2. /\ DOMAIN W = DOMAIN B
      /\ \A i \in DOMAIN B : W[i].bid = B[i].bid /\ W[i].members = Pick(B[i].members, K(i))
                             /\ W[i] = [B[i] EXCEPT !.members = Pick(B[i].members, K(i))]
  BY <1>1 DEF Without
<1>3. \A i \in DOMAIN B :
        /\ W[i].members \in Seq(Id)
        /\ \E at \in [DOMAIN W[i].members -> K(i)] :
             /\ \A k \in DOMAIN W[i].members : W[i].members[k] = B[i].members[at[k]]
             /\ \A k, l \in DOMAIN W[i].members : at[k] = at[l] => k = l
        /\ ToSet(W[i].members) = ToSet(B[i].members) \ {n}
  <2> SUFFICES ASSUME NEW i \in DOMAIN B
               PROVE  /\ W[i].members \in Seq(Id)
                      /\ \E at \in [DOMAIN W[i].members -> K(i)] :
                           /\ \A k \in DOMAIN W[i].members : W[i].members[k] = B[i].members[at[k]]
                           /\ \A k, l \in DOMAIN W[i].members : at[k] = at[l] => k = l
                      /\ ToSet(W[i].members) = ToSet(B[i].members) \ {n}
    OBVIOUS
  <2>1. B[i].members \in Seq(Id) /\ K(i) \subseteq DOMAIN B[i].members
    BY <1>1
  <2>2. PICK m, L, p : m = B[i].members /\ L = K(i) /\ p = W[i].members
    OBVIOUS
  <2>3. p = Pick(m, L) /\ m \in Seq(Id) /\ L \subseteq DOMAIN m
    BY <1>2, <2>1, <2>2
  <2>4. /\ p \in Seq(Id)
        /\ \E at \in [DOMAIN p -> L] :
             /\ \A k \in DOMAIN p : p[k] = m[at[k]]
             /\ \A k, l \in DOMAIN p : at[k] = at[l] => k = l
    BY <2>3, PickProperties
  <2>5. \A x : x \in ToSet(p) <=> \E k \in L : x = m[k]
    BY <2>3, PickProperties
  <2>6. \A k : k \in L <=> k \in DOMAIN m /\ m[k] # n
    BY <2>2
  <2>7. ToSet(p) = ToSet(m) \ {n}
    BY <2>5, <2>6 DEF ToSet
  <2>8. QED
    BY <2>2, <2>4, <2>7
<1>4. W \in Bundles
  <2>1. \A i \in DOMAIN B : W[i] \in [bid : Bid, members : Seq(Id)]
    <3> SUFFICES ASSUME NEW i \in DOMAIN B PROVE W[i] \in [bid : Bid, members : Seq(Id)]
      OBVIOUS
    <3>1. PICK b, m : /\ b \in [bid : Bid, members : Seq(Id)] /\ m \in Seq(Id)
                      /\ W[i] = [b EXCEPT !.members = m]
      <4>1. B[i] \in [bid : Bid, members : Seq(Id)]
        BY <1>1
      <4>2. W[i].members \in Seq(Id)
        BY <1>3
      <4>3. W[i] = [B[i] EXCEPT !.members = W[i].members]
        BY <1>2
      <4>4. QED
        BY <4>1, <4>2, <4>3
    <3>2. QED
      BY <3>1
  <2>2. W = [i \in 1 .. Len(B) |-> W[i]]
    <3>1. W = [i \in DOMAIN B |-> W[i]]
      BY Zenon DEF Without
    <3>2. DOMAIN B = 1 .. Len(B)
      BY <1>1
    <3>3. QED
      BY <3>1, <3>2
  <2>3. W \in Seq([bid : Bid, members : Seq(Id)])
    BY <1>1, <2>1, <2>2
  <2>4. QED
    BY <2>3 DEF Bundles
<1>5. \A i \in DOMAIN W : \A k \in DOMAIN W[i].members : W[i].members[k] \in S \ {n}
  <2> SUFFICES ASSUME NEW i \in DOMAIN W, NEW k \in DOMAIN W[i].members
               PROVE  W[i].members[k] \in S \ {n}
    OBVIOUS
  <2>1. PICK at \in [DOMAIN W[i].members -> K(i)] :
          \A h \in DOMAIN W[i].members : W[i].members[h] = B[i].members[at[h]]
    BY <1>2, <1>3
  <2>2. at[k] \in K(i) /\ W[i].members[k] = B[i].members[at[k]]
    BY <2>1
  <2>3. QED
    BY <1>2, <2>2 DEF BundlesSound
<1>6. ASSUME NEW i \in DOMAIN W, NEW j \in DOMAIN W,
             NEW k \in DOMAIN W[i].members, NEW l \in DOMAIN W[j].members,
             W[i].members[k] = W[j].members[l]
      PROVE  i = j /\ k = l
  <2>1. PICK at \in [DOMAIN W[i].members -> K(i)] :
          /\ \A h \in DOMAIN W[i].members : W[i].members[h] = B[i].members[at[h]]
          /\ \A g, h \in DOMAIN W[i].members : at[g] = at[h] => g = h
    BY <1>2, <1>3
  <2>2. PICK to \in [DOMAIN W[j].members -> K(j)] :
          \A h \in DOMAIN W[j].members : W[j].members[h] = B[j].members[to[h]]
    BY <1>2, <1>3
  <2>3. /\ at[k] \in DOMAIN B[i].members /\ to[l] \in DOMAIN B[j].members
        /\ B[i].members[at[k]] = B[j].members[to[l]]
    BY <1>6, <2>1, <2>2
  <2>4. i = j /\ at[k] = to[l]
    BY <1>2, <2>3 DEF BundlesSound
  <2>5. W[i].members[k] = W[i].members[l] /\ l \in DOMAIN W[i].members
    BY <1>6, <2>4
  <2>6. at[l] = at[k]
    <3>1. at[l] \in DOMAIN B[i].members /\ B[i].members[at[l]] = B[i].members[at[k]]
      BY <2>1, <2>5
    <3>2. QED
      BY <1>2, <2>3, <3>1 DEF BundlesSound
  <2>7. QED
    BY <2>1, <2>4, <2>5, <2>6
<1>7. \A i, j \in DOMAIN W : W[i].bid = W[j].bid => i = j
  BY <1>2 DEF BundlesSound
<1>8. QED
  BY <1>2, <1>3, <1>4, <1>5, <1>6, <1>7 DEF BundlesSound, Fewer

\* An instance joins a bundle in which it is not, nor in another.
LEMMA Joins ==
  ASSUME NEW S, S \subseteq Id, NEW B, NEW n \in S, BundlesSound(B, S \ {n}),
         NEW i \in DOMAIN B, NEW C, C = [B EXCEPT ![i].members = Append(@, n)]
  PROVE  BundlesSound(C, S) /\ More(C, B, i, n)
<1> DEFINE T == [bid : Bid, members : Seq(Id)]
           m == Append(B[i].members, n)
<1>1. /\ B \in Seq(T) /\ DOMAIN B = 1 .. Len(B) /\ Len(B) \in Nat
      /\ \A j \in DOMAIN B : B[j] \in T
  <2> HIDE DEF T
  <2>1. B \in Seq(T)
    BY DEF BundlesSound, Bundles, T
  <2>2. QED
    BY <2>1, LenProperties, ElementOfSeq
<1>2. /\ B[i].members \in Seq(Id) /\ n \in Id
      /\ \A j \in DOMAIN B : B[j].members \in Seq(Id)
  BY <1>1
<1>3. /\ m \in Seq(Id) /\ Len(B[i].members) \in Nat
      /\ DOMAIN B[i].members = 1 .. Len(B[i].members)
      /\ DOMAIN m = 1 .. Len(B[i].members) + 1
      /\ \A k \in 1 .. Len(B[i].members) : m[k] = B[i].members[k]
      /\ m[Len(B[i].members) + 1] = n
  <2>1. PICK b : b = B[i].members
    OBVIOUS
  <2>2. b \in Seq(Id)
    BY <1>2, <2>1
  <2>3. QED
    BY <1>2, <2>1, <2>2, AppendProperties, LenProperties
<1> HIDE DEF m
<1>4. /\ DOMAIN C = DOMAIN B /\ C[i].members = m /\ C[i].bid = B[i].bid
      /\ \A j \in DOMAIN B : j # i => C[j] = B[j]
      /\ C[i] \in T
  BY <1>1, <1>3 DEF m
<1>5. C \in Bundles
  <2>1. \A j \in DOMAIN B : C[j] \in T
    BY <1>1, <1>4
  <2>2. C = [j \in 1 .. Len(B) |-> C[j]]
    BY <1>1
  <2> HIDE DEF T
  <2>3. C \in Seq(T)
    BY <1>1, <2>1, <2>2, ElementsMakeSeq
  <2>4. QED
    BY <2>3 DEF Bundles, T
<1>6. \A j \in DOMAIN C : \A k \in DOMAIN C[j].members : C[j].members[k] \in S
  <2> SUFFICES ASSUME NEW j \in DOMAIN C, NEW k \in DOMAIN C[j].members PROVE C[j].members[k] \in S
    OBVIOUS
  <2>1. CASE j = i
    <3>1. k \in 1 .. Len(B[i].members) \/ k = Len(B[i].members) + 1
      BY <1>3, <1>4, <2>1
    <3>2. QED
      BY <1>3, <1>4, <2>1, <3>1 DEF BundlesSound
  <2>2. CASE j # i
    BY <1>4, <2>2 DEF BundlesSound
  <2>3. QED
    BY <2>1, <2>2
<1>7. \A j \in DOMAIN C : \A k \in DOMAIN C[j].members :
        \/ C[j].members[k] = n /\ j = i /\ k = Len(B[i].members) + 1
        \/ C[j].members[k] # n /\ k \in DOMAIN B[j].members /\ C[j].members[k] = B[j].members[k]
  <2> SUFFICES ASSUME NEW j \in DOMAIN C, NEW k \in DOMAIN C[j].members
               PROVE  \/ C[j].members[k] = n /\ j = i /\ k = Len(B[i].members) + 1
                      \/ /\ C[j].members[k] # n /\ k \in DOMAIN B[j].members
                         /\ C[j].members[k] = B[j].members[k]
    OBVIOUS
  <2>1. CASE j = i
    <3>1. k \in 1 .. Len(B[i].members) \/ k = Len(B[i].members) + 1
      BY <1>3, <1>4, <2>1
    <3>2. QED
      BY <1>3, <1>4, <2>1, <3>1 DEF BundlesSound
  <2>2. CASE j # i
    BY <1>4, <2>2 DEF BundlesSound
  <2>3. QED
    BY <2>1, <2>2
<1>8. ASSUME NEW j \in DOMAIN C, NEW h \in DOMAIN C,
             NEW k \in DOMAIN C[j].members, NEW l \in DOMAIN C[h].members,
             C[j].members[k] = C[h].members[l]
      PROVE  j = h /\ k = l
  <2>1. CASE C[j].members[k] = n
    <3>1. j = i /\ k = Len(B[i].members) + 1
      BY <1>7, <2>1
    <3>2. C[h].members[l] = n
      BY <1>8, <2>1
    <3>3. h = i /\ l = Len(B[i].members) + 1
      BY <1>7, <3>2
    <3>4. QED
      BY <3>1, <3>3
  <2>2. CASE C[j].members[k] # n
    <3>1. /\ k \in DOMAIN B[j].members /\ l \in DOMAIN B[h].members
          /\ B[j].members[k] = B[h].members[l]
      BY <1>7, <1>8, <2>2
    <3>2. QED
      BY <1>4, <3>1 DEF BundlesSound
  <2>3. QED
    BY <2>1, <2>2
<1>9. \A j, k \in DOMAIN C : C[j].bid = C[k].bid => j = k
  <2>1. \A j \in DOMAIN C : C[j].bid = B[j].bid
    BY <1>4
  <2>2. QED
    BY <1>4, <2>1 DEF BundlesSound
<1>10. ToSet(C[i].members) = ToSet(B[i].members) \cup {n}
  <2>1. ToSet(m) = {m[k] : k \in 1 .. Len(B[i].members)} \cup {n}
    <3>1. \A k : k \in 1 .. Len(B[i].members) + 1 <=>
                 k \in 1 .. Len(B[i].members) \/ k = Len(B[i].members) + 1
      BY <1>3
    <3>2. QED
      BY <1>3, <3>1 DEF ToSet
  <2>2. {m[k] : k \in 1 .. Len(B[i].members)} = ToSet(B[i].members)
    BY <1>3 DEF ToSet
  <2>3. QED
    BY <1>4, <2>1, <2>2
<1>11. QED
  BY <1>4, <1>5, <1>6, <1>8, <1>9, <1>10 DEF BundlesSound, More

\* An edge is added at the end.
LEMMA MoreEdges ==
  ASSUME NEW S, NEW E, EdgesSound(E, S),
         NEW T, Edges = Seq(T), NEW e \in T,
         e.src \in S, e.dst \in S
  PROVE  EdgesSound(Append(E, e), S) /\ \E k \in DOMAIN Append(E, e) : Append(E, e)[k] = e
<1>1. E \in Seq(T)
  BY DEF EdgesSound
<1>2. /\ Append(E, e) \in Seq(T) /\ Len(E) \in Nat
      /\ DOMAIN E = 1 .. Len(E) /\ DOMAIN Append(E, e) = 1 .. Len(E) + 1
      /\ \A i \in 1 .. Len(E) : Append(E, e)[i] = E[i]
      /\ Append(E, e)[Len(E) + 1] = e
  BY <1>1, AppendProperties, LenProperties
<1>3. \A i \in DOMAIN Append(E, e) : Append(E, e)[i].src \in S /\ Append(E, e)[i].dst \in S
  <2> SUFFICES ASSUME NEW i \in DOMAIN Append(E, e)
               PROVE  Append(E, e)[i].src \in S /\ Append(E, e)[i].dst \in S
    OBVIOUS
  <2>1. i \in 1 .. Len(E) \/ i = Len(E) + 1
    BY <1>2
  <2>2. QED
    BY <1>2, <2>1 DEF EdgesSound
<1>4. Len(E) + 1 \in DOMAIN Append(E, e)
  BY <1>2
<1>5. QED
  BY <1>1, <1>2, <1>3, <1>4 DEF EdgesSound

\* A bundle without members is added at the end.
LEMMA MoreBundles ==
  ASSUME NEW S, NEW B, BundlesSound(B, S), NEW b \in Bid, NEW x,
         x = [bid |-> b, members |-> << >>], \A i \in DOMAIN B : B[i].bid # b
  PROVE  BundlesSound(Append(B, x), S) /\ \E k \in DOMAIN Append(B, x) : Append(B, x)[k].bid = b
<1> DEFINE C == Append(B, x)
<1>1. PICK T : B \in Seq(T) /\ Bundles = Seq(T) /\ x \in T
  <2>1. PICK T : T = [bid : Bid, members : Seq(Id)]
    OBVIOUS
  <2>2. x \in T
    BY <2>1, EmptySeq
  <2>3. B \in Seq(T) /\ Bundles = Seq(T)
    BY <2>1 DEF BundlesSound, Bundles
  <2>4. QED
    BY <2>2, <2>3
<1>2. /\ C \in Seq(T) /\ Len(B) \in Nat
      /\ DOMAIN B = 1 .. Len(B) /\ DOMAIN C = 1 .. Len(B) + 1
      /\ \A i \in 1 .. Len(B) : C[i] = B[i]
      /\ C[Len(B) + 1] = x
  BY <1>1, AppendProperties, LenProperties
<1> HIDE DEF C
<1>3. DOMAIN x.members = {} /\ x.bid = b
  OBVIOUS
<1>4. \A i \in DOMAIN C : \A k \in DOMAIN C[i].members : i \in 1 .. Len(B) /\ C[i] = B[i]
  <2> SUFFICES ASSUME NEW i \in DOMAIN C, NEW k \in DOMAIN C[i].members
               PROVE  i \in 1 .. Len(B) /\ C[i] = B[i]
    OBVIOUS
  <2>1. i \in 1 .. Len(B) \/ i = Len(B) + 1
    BY <1>2
  <2>2. QED
    BY <1>2, <1>3, <2>1
<1>5. /\ \A i \in DOMAIN C : \A k \in DOMAIN C[i].members : C[i].members[k] \in S
      /\ \A i, j \in DOMAIN C : \A k \in DOMAIN C[i].members, l \in DOMAIN C[j].members :
           C[i].members[k] = C[j].members[l] => i = j /\ k = l
  BY <1>2, <1>4 DEF BundlesSound
<1>6. C[Len(B) + 1].bid = b /\ Len(B) + 1 \in DOMAIN C
  BY <1>2, <1>3
<1>7. \A i, j \in DOMAIN C : C[i].bid = C[j].bid => i = j
  <2>1. ASSUME NEW i \in DOMAIN C
        PROVE  \/ i \in DOMAIN B /\ C[i].bid = B[i].bid /\ B[i].bid # b
               \/ i = Len(B) + 1 /\ C[i].bid = b
    <3>1. i \in 1 .. Len(B) \/ i = Len(B) + 1
      BY <1>2
    <3>2. QED
      BY <1>2, <1>3, <3>1
  <2>2. QED
    BY <2>1 DEF BundlesSound
<1>8. QED
  BY <1>1, <1>2, <1>5, <1>6, <1>7 DEF BundlesSound, C

\* The members of a bundle are a sequence.
LEMMA BundleShape ==
  ASSUME NEW S, NEW B, BundlesSound(B, S), NEW j \in DOMAIN B
  PROVE  B[j] \in [bid : Bid, members : Seq(Id)] /\ B[j].members \in Seq(Id)
<1>1. PICK T : B \in Seq(T) /\ T = [bid : Bid, members : Seq(Id)]
  BY DEF BundlesSound, Bundles
<1>2. B[j] \in T
  BY <1>1, LenProperties, ElementOfSeq
<1>3. QED
  BY <1>1, <1>2

\* Contains is to stand at a place.
LEMMA ContainsAt ==
  ASSUME NEW S, NEW B, BundlesSound(B, S), NEW j \in DOMAIN B, NEW n
  PROVE  Contains(B[j].members, n) <=> \E k \in DOMAIN B[j].members : B[j].members[k] = n
<1>1. PICK m : m = B[j].members /\ m \in Seq(Id)
  BY BundleShape
<1>2. Contains(m, n) <=> \E k \in DOMAIN m : m[k] = n
  BY <1>1, LenProperties DEF Contains
<1>3. QED
  BY <1>1, <1>2

\* Edges and bundles stay sound when instances are added.
LEMMA Wider ==
  ASSUME NEW S, NEW R, S \subseteq R
  PROVE  /\ \A E : EdgesSound(E, S) => EdgesSound(E, R)
         /\ \A B : BundlesSound(B, S) => BundlesSound(B, R)
BY DEF EdgesSound, BundlesSound

-----------------------------------------------------------------------------
(* Every edit keeps the snapshot sound and shows in the diff, or the design   *)
(* is the same                                                             *)

\* The diff that shows nothing is empty in all its parts.
LEMMA SilentIsEmpty ==
  Silent = [addedNodes |-> {}, removedNodes |-> {}, addedEdges |-> {}, removedEdges |-> {},
            addedBundles |-> {}, removedBundles |-> {}, changed |-> {}, moved |-> {}]
<1>1. Ids(Empty) = {} /\ Eids(Empty) = {} /\ Bids(Empty) = {}
  BY DEF Ids, Eids, Bids, Empty
<1>2. QED
  BY <1>1 DEF Silent, Diff

\* What a diff shows.
LEMMA Shown ==
  ASSUME NEW a, NEW b,
         \/ \E n \in Ids(b) : n \notin Ids(a)
         \/ \E n \in Ids(a) : n \notin Ids(b)
         \/ \E e \in Eids(b) : e \notin Eids(a)
         \/ \E e \in Eids(a) : e \notin Eids(b)
         \/ \E c \in Bids(b) : c \notin Bids(a)
         \/ \E c \in Bids(a) : c \notin Bids(b)
         \/ \E n \in Ids(a) \cap Ids(b) : Changed(a, b, n)
         \/ \E n \in Ids(a) \cap Ids(b) : BundleOf(a, n) # BundleOf(b, n)
  PROVE  Diff(a, b) # Silent
<1> DEFINE d == Diff(a, b)
<1>1. /\ d.addedNodes = Ids(b) \ Ids(a) /\ d.removedNodes = Ids(a) \ Ids(b)
      /\ d.addedEdges = Eids(b) \ Eids(a) /\ d.removedEdges = Eids(a) \ Eids(b)
      /\ d.addedBundles = Bids(b) \ Bids(a) /\ d.removedBundles = Bids(a) \ Bids(b)
      /\ d.changed = {n \in Ids(a) \cap Ids(b) : Changed(a, b, n)}
      /\ d.moved = {n \in Ids(a) \cap Ids(b) : BundleOf(a, n) # BundleOf(b, n)}
  BY DEF Diff
<1> HIDE DEF d
<1>2. \/ d.addedNodes # {} \/ d.removedNodes # {} \/ d.addedEdges # {} \/ d.removedEdges # {}
      \/ d.addedBundles # {} \/ d.removedBundles # {} \/ d.changed # {} \/ d.moved # {}
  BY <1>1
<1>3. d # Silent
  BY <1>2, SilentIsEmpty
<1>4. QED
  BY <1>3 DEF d

\* An instance of a page is in the bundle that has it, and in no other.
LEMMA BundleOfIs ==
  ASSUME NEW s, NEW S, BundlesSound(s.bundles, S), NEW n
  PROVE  /\ \A i \in DOMAIN s.bundles :
              n \in ToSet(s.bundles[i].members) =>
                /\ BundleOf(s, n) = s.bundles[i].bid /\ BundleOf(s, n) \in Bid
                /\ \A j \in DOMAIN s.bundles : n \in ToSet(s.bundles[j].members) => j = i
         /\ (\A i \in DOMAIN s.bundles : n \notin ToSet(s.bundles[i].members)) => BundleOf(s, n) = 0
<1>1. PICK B : B = s.bundles /\ BundlesSound(B, S)
  OBVIOUS
<1>2. \A i \in DOMAIN B : Contains(B[i].members, n) <=> n \in ToSet(B[i].members)
  BY <1>1, ContainsAt DEF ToSet
<1>3. BundleOf(s, n) = IF \E i \in DOMAIN B : Contains(B[i].members, n)
                       THEN B[CHOOSE i \in DOMAIN B : Contains(B[i].members, n)].bid ELSE 0
  BY <1>1 DEF BundleOf
<1>4. ASSUME NEW i \in DOMAIN B, n \in ToSet(B[i].members),
             NEW j \in DOMAIN B, n \in ToSet(B[j].members)
      PROVE  j = i
  BY <1>1, <1>4 DEF ToSet, BundlesSound
<1>5. ASSUME NEW i \in DOMAIN B, n \in ToSet(B[i].members)
      PROVE  BundleOf(s, n) = B[i].bid /\ BundleOf(s, n) \in Bid
  <2>1. (CHOOSE j \in DOMAIN B : Contains(B[j].members, n)) = i
    BY <1>2, <1>4, <1>5
  <2>2. Contains(B[i].members, n)
    BY <1>2, <1>5
  <2>3. BundleOf(s, n) = B[i].bid
    BY <1>3, <2>1, <2>2
  <2>4. B[i].bid \in Bid
    BY <1>1, BundleShape
  <2>5. QED
    BY <2>3, <2>4
<1>6. (\A i \in DOMAIN B : n \notin ToSet(B[i].members)) => BundleOf(s, n) = 0
  BY <1>2, <1>3
<1>7. QED
  BY <1>1, <1>4, <1>5, <1>6

\* Of two snapshots with the same design the diff shows nothing.
LEMMA NotShown ==
  ASSUME NEW a, NEW b, Sound(a), Sound(b), SameDesign(a, b)
  PROVE  Diff(a, b) = Silent
<1>1. Ids(a) = Ids(b) /\ Eids(a) = Eids(b)
  BY DEF SameDesign, Eids
<1>2. PICK A, B, S : /\ A = a.bundles /\ B = b.bundles /\ S = Ids(a)
                     /\ BundlesSound(A, S) /\ BundlesSound(B, S)
  BY <1>1 DEF Sound
<1>3. DOMAIN A = DOMAIN B
  <2>1. A \in Bundles /\ B \in Bundles /\ Len(A) = Len(B)
    BY <1>2 DEF BundlesSound, SameDesign
  <2>2. DOMAIN A = 1 .. Len(A) /\ DOMAIN B = 1 .. Len(B)
    BY <2>1, LenProperties DEF Bundles
  <2>3. QED
    BY <2>1, <2>2
<1>4. \A i \in DOMAIN A : A[i].bid = B[i].bid /\ ToSet(A[i].members) = ToSet(B[i].members)
  BY <1>2 DEF SameDesign
<1>5. Bids(a) = Bids(b)
  <2>1. Bids(a) = {A[i].bid : i \in DOMAIN A} /\ Bids(b) = {B[i].bid : i \in DOMAIN B}
    BY <1>2 DEF Bids
  <2>2. QED
    BY <1>3, <1>4, <2>1
<1>6. ASSUME NEW n \in S PROVE ~ Changed(a, b, n)
  <2>1. PICK h \in [Ids(a) -> Instance] : a.nodes = [m \in Ids(a) |-> <<h[m]>>]
    BY DEF Sound, NodesSound
  <2>2. PICK g \in [Ids(b) -> Instance] : b.nodes = [m \in Ids(b) |-> <<g[m]>>]
    BY DEF Sound, NodesSound
  <2>3. n \in Ids(a) /\ n \in Ids(b)
    BY <1>1, <1>2
  <2>4. /\ DOMAIN a.nodes[n] = 1 .. 1 /\ a.nodes[n][1] = LastOf(a, n)
        /\ b.nodes[n][1] = LastOf(b, n)
    BY <2>1, <2>2, <2>3, OneInstance
  <2>5. a.nodes[n][1].tpl = b.nodes[n][1].tpl /\ a.nodes[n][1].ok = b.nodes[n][1].ok
    BY <2>3, <2>4 DEF SameDesign
  <2>6. QED
    BY <2>4, <2>5 DEF Changed
<1>7. ASSUME NEW n \in S PROVE BundleOf(a, n) = BundleOf(b, n)
  <2>1. CASE \E i \in DOMAIN A : n \in ToSet(A[i].members)
    <3>1. PICK i \in DOMAIN A : n \in ToSet(A[i].members)
      BY <2>1
    <3>2. BundleOf(a, n) = A[i].bid
      BY <1>2, <3>1, BundleOfIs
    <3>3. BundleOf(b, n) = B[i].bid
      BY <1>2, <1>3, <1>4, <3>1, BundleOfIs
    <3>4. QED
      BY <1>4, <3>2, <3>3
  <2>2. CASE ~ \E i \in DOMAIN A : n \in ToSet(A[i].members)
    <3>1. BundleOf(a, n) = 0
      BY <1>2, <2>2, BundleOfIs
    <3>2. BundleOf(b, n) = 0
      BY <1>2, <1>3, <1>4, <2>2, BundleOfIs
    <3>3. QED
      BY <3>1, <3>2
  <2>3. QED
    BY <2>1, <2>2
<1>8. /\ {n \in Ids(a) \cap Ids(b) : Changed(a, b, n)} = {}
      /\ {n \in Ids(a) \cap Ids(b) : BundleOf(a, n) # BundleOf(b, n)} = {}
  BY <1>1, <1>2, <1>6, <1>7
<1>9. QED
  BY <1>1, <1>5, <1>8, SilentIsEmpty DEF Diff

\* A step of a page shows exactly if it changes the design.
Edited == Sound(snap') /\ (Diff(snap, snap') = Silent <=> SameDesign(snap, snap'))

\* It shows, or the design is the same.
LEMMA EditedIf ==
  ASSUME Sound(snap), Sound(snap'), Diff(snap, snap') # Silent \/ SameDesign(snap, snap')
  PROVE  Edited
BY NotShown DEF Edited

\* Before an edit.
LEMMA Before ==
  ASSUME CanvasInv, origin = "page"
  PROVE  /\ Sound(snap)
         /\ snap = [nodes |-> snap.nodes, edges |-> snap.edges, bundles |-> snap.bundles]
         /\ Ids(snap) \subseteq Id /\ DOMAIN snap.nodes = Ids(snap)
         /\ NodesSound(snap.nodes, Ids(snap))
         /\ EdgesSound(snap.edges, Ids(snap)) /\ BundlesSound(snap.bundles, Ids(snap))
BY PartsOf DEF CanvasInv, Sound, Ids

\* What an instance is made with.
LEMMA BooleanIn ==
  ASSUME NEW n, NEW S
  PROVE  (n \in S) \in BOOLEAN
<1>1. CASE n \in S
  <2>1. (n \in S) = TRUE
    BY <1>1
  <2>2. QED
    BY <2>1
<1>2. CASE n \notin S
  <2>1. (n \in S) = FALSE
    BY <1>2
  <2>2. QED
    BY <2>1
<1>3. QED
  BY <1>1, <1>2

\* A new instance shows as an added one.
LEMMA AddNodeEdits ==
  ASSUME CanvasInv, NEW n \in Id, AddNode(n)
  PROVE  Edited
<1>1. origin = "page" /\ n \notin Ids(snap)
  BY DEF AddNode, Draw
<1>2. PICK S, R : S = Ids(snap) /\ R = Ids(snap) \cup {n} /\ R \subseteq Id
  BY <1>1, Before
<1>3. PICK x : x = [tpl |-> n, ok |-> n \in Optional, name |-> 0]
  OBVIOUS
<1>4. x \in Instance
  <2>1. PICK ok \in BOOLEAN : ok = (n \in Optional)
    BY BooleanIn
  <2>2. x = [tpl |-> n, ok |-> ok, name |-> 0]
    BY <1>3, <2>1
  <2>3. QED
    BY <2>2 DEF Instance
<1>5. PICK h \in [S -> Instance] : snap.nodes = [m \in S |-> <<h[m]>>]
  BY <1>1, <1>2, Before DEF NodesSound
<1> DEFINE N == [m \in R |-> IF m = n THEN <<x>> ELSE snap.nodes[m]]
<1>6. snap' = [nodes |-> N, edges |-> snap.edges, bundles |-> snap.bundles]
  BY <1>1, <1>2, <1>3, Before DEF AddNode, Draw
<1>7. NodesSound(N, R)
  <2> DEFINE g == [m \in R |-> IF m = n THEN x ELSE h[m]]
  <2>1. g \in [R -> Instance]
    BY <1>2, <1>4, <1>5
  <2>2. N = [m \in R |-> <<g[m]>>]
    BY <1>1, <1>2, <1>5
  <2> HIDE DEF g, N
  <2>3. QED
    BY <2>1, <2>2 DEF NodesSound
<1>8. EdgesSound(snap.edges, R) /\ BundlesSound(snap.bundles, R)
  BY <1>1, <1>2, Before, Wider
<1> HIDE DEF N
<1>9. Sound(snap') /\ Ids(snap') = R
  BY <1>2, <1>6, <1>7, <1>8, SoundOf
<1>10. QED
  BY <1>1, <1>2, <1>9, Before, Shown, EditedIf

\* A patch of one instance: it stays the only one with its id.
LEMMA Patched ==
  ASSUME CanvasInv, origin = "page", NEW n \in Ids(snap), NEW y \in Instance,
         snap' = [snap EXCEPT !.nodes = [@ EXCEPT ![n] = <<y>>]]
  PROVE  /\ Sound(snap') /\ Ids(snap') = Ids(snap) /\ LastOf(snap', n) = y
         /\ \A m \in Ids(snap) : m # n => snap'.nodes[m] = snap.nodes[m]
         /\ snap'.nodes[n] = <<y>>
         /\ snap'.edges = snap.edges /\ snap'.bundles = snap.bundles
<1>1. PICK S : S = Ids(snap) /\ S \subseteq Id
  BY Before
<1>2. PICK h \in [S -> Instance] : snap.nodes = [m \in S |-> <<h[m]>>]
  BY <1>1, Before DEF NodesSound
<1> DEFINE g == [h EXCEPT ![n] = y]
           N == [snap.nodes EXCEPT ![n] = <<y>>]
<1>3. snap' = [nodes |-> N, edges |-> snap.edges, bundles |-> snap.bundles]
  BY Before
<1>4. g \in [S -> Instance] /\ N = [m \in S |-> <<g[m]>>] /\ g[n] = y
  BY <1>1, <1>2
<1> HIDE DEF g, N
<1>5. NodesSound(N, S)
  BY <1>4 DEF NodesSound
<1>6. Sound(snap') /\ Ids(snap') = S
  BY <1>1, <1>3, <1>5, Before, SoundOf
<1>7. snap'.nodes = N
  BY <1>3
<1>8. LastOf(snap', n) = y /\ snap'.nodes[n] = <<y>>
  <2>1. PICK s, R : s = snap' /\ R = Ids(s) /\ R = S
    BY <1>6
  <2>2. g \in [Ids(s) -> Instance] /\ s.nodes = [m \in Ids(s) |-> <<g[m]>>] /\ n \in Ids(s)
    BY <1>1, <1>4, <1>7, <2>1
  <2>3. LastOf(s, n) = g[n] /\ s.nodes[n] = <<g[n]>>
    BY <2>2, OneInstance
  <2>4. QED
    BY <1>4, <2>1, <2>3
<1>9. \A m \in Ids(snap) : m # n => snap'.nodes[m] = snap.nodes[m]
  BY <1>1, <1>2, <1>7 DEF N
<1>10. QED
  BY <1>1, <1>3, <1>6, <1>8, <1>9

\* The first instance of a list of one is that one.
LEMMA FirstIsOnly ==
  ASSUME NEW x, NEW y
  PROVE  [<<x>> EXCEPT ![1] = y] = <<y>>
OBVIOUS

\* A patch flips whether the values fit: the instance is among the changed ones.
LEMMA UpdateNodeEdits ==
  ASSUME CanvasInv, NEW n \in Id, UpdateNode(n)
  PROVE  Edited
<1>1. origin = "page" /\ n \in Ids(snap)
  BY DEF UpdateNode, Draw
<1>2. PICK h \in [Ids(snap) -> Instance] : snap.nodes = [m \in Ids(snap) |-> <<h[m]>>]
  BY <1>1, Before DEF NodesSound
<1>3. PICK x \in Instance : x = h[n] /\ snap.nodes[n] = <<x>> /\ LastOf(snap, n) = x
  BY <1>1, <1>2, OneInstance
<1>4. PICK y : y = [x EXCEPT !.ok = ~@]
  OBVIOUS
<1>5. x.ok \in BOOLEAN /\ y \in Instance /\ y.ok = ~x.ok
  BY <1>4 DEF Instance
<1>6. snap' = [snap EXCEPT !.nodes = [@ EXCEPT ![n] = <<y>>]]
  <2>1. snap' = [snap EXCEPT !.nodes = [@ EXCEPT ![n] = [<<x>> EXCEPT ![1] = y]]]
    BY <1>1, <1>3, <1>4, Before DEF UpdateNode, Draw
  <2>2. QED
    BY <2>1, FirstIsOnly
<1>7. Sound(snap') /\ Ids(snap') = Ids(snap) /\ LastOf(snap', n) = y
  BY <1>1, <1>5, <1>6, Patched
<1>8. Changed(snap, snap', n)
  <2>1. x.ok # y.ok
    BY <1>5, Zenon
  <2>2. QED
    BY <1>3, <1>7, <2>1 DEF Changed
<1>9. QED
  BY <1>1, <1>7, <1>8, Before, Shown, EditedIf

\* A new name changes nothing that the diff compares.
LEMMA RenameNodeEdits ==
  ASSUME CanvasInv, NEW n \in Id, NEW name \in Names[n], RenameNode(n, name)
  PROVE  Edited
<1>1. origin = "page" /\ n \in Ids(snap)
  BY DEF RenameNode, Draw
<1>2. PICK h \in [Ids(snap) -> Instance] : snap.nodes = [m \in Ids(snap) |-> <<h[m]>>]
  BY <1>1, Before DEF NodesSound
<1>3. PICK x \in Instance : x = h[n] /\ snap.nodes[n] = <<x>>
  BY <1>1, <1>2, OneInstance
<1>4. PICK y : y = [x EXCEPT !.name = name]
  OBVIOUS
<1>5. y \in Instance /\ y.tpl = x.tpl /\ y.ok = x.ok
  <2>1. name \in Nat
    BY CanvasAssumption
  <2>2. QED
    BY <1>4, <2>1 DEF Instance
<1>6. snap' = [snap EXCEPT !.nodes = [@ EXCEPT ![n] = <<y>>]]
  <2>1. snap' = [snap EXCEPT !.nodes = [@ EXCEPT ![n] = [<<x>> EXCEPT ![1] = y]]]
    BY <1>1, <1>3, <1>4, Before DEF RenameNode, Draw
  <2>2. QED
    BY <2>1, FirstIsOnly
<1>7. /\ Sound(snap') /\ Ids(snap') = Ids(snap) /\ snap'.nodes[n] = <<y>>
      /\ \A m \in Ids(snap) : m # n => snap'.nodes[m] = snap.nodes[m]
      /\ snap'.edges = snap.edges /\ snap'.bundles = snap.bundles
  BY <1>1, <1>5, <1>6, Patched
<1>8. /\ Len(snap.nodes[n]) = Len(snap'.nodes[n])
      /\ \A k \in DOMAIN snap.nodes[n] :
           /\ snap.nodes[n][k].tpl = snap'.nodes[n][k].tpl
           /\ snap.nodes[n][k].ok = snap'.nodes[n][k].ok
  <2>1. DOMAIN <<x>> = {1} /\ Len(<<x>>) = 1 /\ Len(<<y>>) = 1 /\ <<x>>[1] = x /\ <<y>>[1] = y
    OBVIOUS
  <2>2. QED
    BY <1>3, <1>5, <1>7, <2>1
<1>9. SameDesign(snap, snap')
  BY <1>7, <1>8 DEF SameDesign
<1>10. QED
  BY <1>1, <1>7, <1>9, Before, EditedIf

\* A removed instance takes its edges with it and leaves its bundle.
LEMMA RemoveNodeEdits ==
  ASSUME CanvasInv, NEW n \in Id, RemoveNode(n)
  PROVE  Edited
<1> DEFINE R == Ids(snap) \ {n}
           N == [m \in R |-> snap.nodes[m]]
           K == {i \in DOMAIN snap.edges : snap.edges[i].src # n /\ snap.edges[i].dst # n}
           E == Pick(snap.edges, K)
           B == Without(snap.bundles, n)
<1>1. origin = "page" /\ n \in Ids(snap)
  BY DEF RemoveNode, Draw
<1>2. snap' = [nodes |-> N, edges |-> E, bundles |-> B]
  BY <1>1, Before DEF RemoveNode, Draw
<1>3. NodesSound(N, R) /\ R \subseteq Id
  <2>1. PICK h \in [Ids(snap) -> Instance] : snap.nodes = [m \in Ids(snap) |-> <<h[m]>>]
    BY <1>1, Before DEF NodesSound
  <2> DEFINE g == [m \in R |-> h[m]]
  <2>2. g \in [R -> Instance] /\ N = [m \in R |-> <<g[m]>>]
    BY <2>1
  <2> HIDE DEF g, N
  <2>3. NodesSound(N, R)
    BY <2>2 DEF NodesSound
  <2>4. QED
    BY <1>1, <2>3, Before
<1>4. BundlesSound(B, R)
  BY <1>1, Before, TakenOut
<1>5. EdgesSound(E, R)
  <2>1. \A i \in K : snap.edges[i].src \in R /\ snap.edges[i].dst \in R
    BY <1>1, Before DEF EdgesSound
  <2>2. K \subseteq DOMAIN snap.edges
    OBVIOUS
  <2> HIDE DEF K, R
  <2>3. QED
    BY <1>1, <2>1, <2>2, Before, FewerEdges
<1> HIDE DEF N, R, E, B
<1>6. Sound(snap') /\ Ids(snap') = R
  BY <1>2, <1>3, <1>4, <1>5, SoundOf
<1>7. n \notin Ids(snap')
  BY <1>6 DEF R
<1>8. QED
  BY <1>1, <1>6, <1>7, Before, Shown, EditedIf

\* The digits of an edge's id make it new: the bound leaves one free.
LEMMA FreshEdge ==
  ASSUME NEW E \in Edges, Len(E) < MaxParts, NEW src, NEW sem, NEW dst, NEW ids,
         ids = {E[i].eid : i \in DOMAIN E}, NEW k,
         k = Min({n \in 1 .. MaxParts + 1 : <<src, sem, dst, n>> \notin ids})
  PROVE  k \in Nat /\ <<src, sem, dst, k>> \notin ids
<1> DEFINE J == 1 .. MaxParts + 1
           I == {n \in J : <<src, sem, dst, n>> \notin ids}
<1>1. Len(E) \in Nat /\ DOMAIN E = 1 .. Len(E) /\ MaxParts \in Nat
  BY LenProperties, CanvasAssumption DEF Edges
<1>2. I # {}
  <2> SUFFICES ASSUME I = {} PROVE FALSE
    OBVIOUS
  <2>1. \A n \in J : \E i \in DOMAIN E : E[i].eid = <<src, sem, dst, n>>
    OBVIOUS
  <2> DEFINE f == [n \in J |-> CHOOSE i \in DOMAIN E : E[i].eid = <<src, sem, dst, n>>]
  <2>2. \A n \in J : f[n] \in DOMAIN E /\ E[f[n]].eid = <<src, sem, dst, n>>
    BY <2>1
  <2>3. f \in [J -> DOMAIN E]
    BY <2>2
  <2> HIDE DEF f
  <2>4. /\ IsFiniteSet(J) /\ Cardinality(J) = MaxParts + 1
        /\ IsFiniteSet(DOMAIN E) /\ Cardinality(DOMAIN E) = Len(E)
    <3>1. \A a, b \in Nat : /\ IsFiniteSet(a .. b)
                            /\ Cardinality(a .. b) = IF a > b THEN 0 ELSE b - a + 1
      BY FS_Interval
    <3>2. IsFiniteSet(J) /\ Cardinality(J) = MaxParts + 1
      BY <1>1, <3>1
    <3>3. IsFiniteSet(DOMAIN E) /\ Cardinality(DOMAIN E) = Len(E)
      <4>1. PICK l \in Nat : l = Len(E) /\ DOMAIN E = 1 .. l
        BY <1>1
      <4>2. IsFiniteSet(1 .. l) /\ Cardinality(1 .. l) = l
        BY <3>1
      <4>3. QED
        BY <4>1, <4>2
    <3>4. QED
      BY <3>2, <3>3
  <2>5. Cardinality(DOMAIN E) < Cardinality(J)
    BY <1>1, <2>4
  <2> HIDE DEF J
  <2>6. PICK x \in J, y \in J : x # y /\ f[x] = f[y]
    BY <2>3, <2>4, <2>5, FS_PigeonHole
  <2>7. <<src, sem, dst, x>> = <<src, sem, dst, y>>
    BY <2>2, <2>6
  <2>8. QED
    BY <2>6, <2>7
<1>3. I \subseteq Nat
  BY <1>1
<1>4. k = Min(I)
  OBVIOUS
<1>5. k \in I
  <2> HIDE DEF I
  <2>1. QED
    BY <1>2, <1>3, <1>4, LeastPlace
<1>6. QED
  BY <1>3, <1>5

\* A new edge has an id of its own, so that it shows.
LEMMA AddEdgeEdits ==
  ASSUME CanvasInv, NEW src \in Id, NEW dst \in Id, NEW sem \in Semantic, AddEdge(src, dst, sem)
  PROVE  Edited
<1> DEFINE k == Min({n \in 1 .. MaxParts + 1 : <<src, sem, dst, n>> \notin Eids(snap)})
           e == [eid |-> <<src, sem, dst, k>>, src |-> src, dst |-> dst, sem |-> sem]
           E == Append(snap.edges, e)
<1>1. origin = "page" /\ src \in Ids(snap) /\ dst \in Ids(snap) /\ Parts < MaxParts
  BY DEF AddEdge, Draw
<1>2. snap' = [nodes |-> snap.nodes, edges |-> E, bundles |-> snap.bundles]
  BY <1>1, Before DEF AddEdge, Draw
<1>3. snap.edges \in Edges /\ Len(snap.edges) < MaxParts
  <2>1. snap.edges \in Edges /\ snap.bundles \in Bundles
    BY <1>1, Before DEF EdgesSound, BundlesSound
  <2>2. Len(snap.edges) \in Nat /\ Len(snap.bundles) \in Nat
    BY <2>1, LenProperties DEF Edges, Bundles
  <2>3. PICK l, m \in Nat : l = Len(snap.edges) /\ m = Len(snap.bundles)
    BY <2>2
  <2>4. l + m < MaxParts /\ MaxParts \in Nat
    BY <1>1, <2>3, CanvasAssumption DEF Parts
  <2>5. l < MaxParts
    BY <2>4
  <2>6. QED
    BY <2>1, <2>3, <2>5
<1>4. k \in Nat /\ <<src, sem, dst, k>> \notin Eids(snap)
  <2> HIDE DEF k
  <2>1. k = Min({n \in 1 .. MaxParts + 1 : <<src, sem, dst, n>> \notin Eids(snap)})
    BY DEF k
  <2>2. Eids(snap) = {snap.edges[i].eid : i \in DOMAIN snap.edges}
    BY DEF Eids
  <2>3. QED
    BY <1>3, <2>1, <2>2, FreshEdge
<1> HIDE DEF k
<1> DEFINE T == [eid : Terminal \X Semantic \X Terminal \X Nat,
                 src : Terminal, dst : Terminal, sem : Semantic]
<1>5. e \in T /\ Edges = Seq(T)
      /\ e.src \in Ids(snap) /\ e.dst \in Ids(snap) /\ e.eid = <<src, sem, dst, k>>
  BY <1>1, <1>4 DEF Terminal, Edges
<1> HIDE DEF e, T
<1>6. EdgesSound(E, Ids(snap)) /\ \E j \in DOMAIN E : E[j] = e
  <2>1. PICK S, D : S = Ids(snap) /\ D = snap.edges
    OBVIOUS
  <2>2. EdgesSound(D, S) /\ e.src \in S /\ e.dst \in S
    BY <1>1, <1>5, <2>1, Before
  <2>3. EdgesSound(Append(D, e), S) /\ \E j \in DOMAIN Append(D, e) : Append(D, e)[j] = e
    BY <1>5, <2>2, MoreEdges
  <2>4. QED
    BY <2>1, <2>3
<1> HIDE DEF E
<1>7. Sound(snap')
  BY <1>1, <1>2, <1>6, Before, SoundOf
<1>8. e.eid \in Eids(snap')
  <2>1. snap'.edges = E
    BY <1>2
  <2>2. QED
    BY <1>6, <2>1 DEF Eids
<1>9. QED
  BY <1>1, <1>4, <1>5, <1>7, <1>8, Before, Shown, EditedIf

\* What is kept when an edge is removed has another id.
LEMMA RemoveEdgeEdits ==
  ASSUME CanvasInv, NEW e \in Eids(snap), RemoveEdge(e)
  PROVE  Edited
<1> DEFINE K == {i \in DOMAIN snap.edges : snap.edges[i].eid # e}
           E == Pick(snap.edges, K)
<1>1. origin = "page"
  BY DEF RemoveEdge, Draw
<1>2. snap' = [nodes |-> snap.nodes, edges |-> E, bundles |-> snap.bundles]
  BY <1>1, Before DEF RemoveEdge, Draw
<1>3. EdgesSound(E, Ids(snap)) /\ \A k \in DOMAIN E : \E i \in K : E[k] = snap.edges[i]
  <2>1. /\ K \subseteq DOMAIN snap.edges
        /\ \A i \in K : snap.edges[i].src \in Ids(snap) /\ snap.edges[i].dst \in Ids(snap)
    BY <1>1, Before DEF EdgesSound
  <2> HIDE DEF K
  <2>2. QED
    BY <1>1, <2>1, Before, FewerEdges
<1> HIDE DEF E
<1>4. Sound(snap')
  BY <1>1, <1>2, <1>3, Before, SoundOf
<1>5. e \notin Eids(snap')
  <2>1. snap'.edges = E
    BY <1>2
  <2>2. QED
    BY <1>3, <2>1 DEF Eids
<1>6. QED
  BY <1>1, <1>4, <1>5, Before, Shown, EditedIf

\* A new bundle has no members and an id of its own.
LEMMA AddBundleEdits ==
  ASSUME CanvasInv, NEW b \in Bid, AddBundle(b)
  PROVE  Edited
<1> DEFINE x == [bid |-> b, members |-> << >>]
           B == Append(snap.bundles, x)
<1>1. origin = "page" /\ b \notin Bids(snap)
  BY DEF AddBundle, Draw
<1>2. snap' = [nodes |-> snap.nodes, edges |-> snap.edges, bundles |-> B]
  BY <1>1, Before DEF AddBundle, Draw
<1>3. BundlesSound(B, Ids(snap)) /\ \E k \in DOMAIN B : B[k].bid = b
  <2>1. \A i \in DOMAIN snap.bundles : snap.bundles[i].bid # b
    BY <1>1 DEF Bids
  <2>2. QED
    BY <1>1, <2>1, Before, MoreBundles
<1> HIDE DEF B
<1>4. Sound(snap')
  BY <1>1, <1>2, <1>3, Before, SoundOf
<1>5. b \in Bids(snap')
  <2>1. snap'.bundles = B
    BY <1>2
  <2>2. QED
    BY <1>3, <2>1 DEF Bids
<1>6. QED
  BY <1>1, <1>4, <1>5, Before, Shown, EditedIf

\* A removed bundle shows; its members stay, in none.
LEMMA RemoveBundleEdits ==
  ASSUME CanvasInv, NEW b \in Bid, RemoveBundle(b)
  PROVE  Edited
<1> DEFINE K == {i \in DOMAIN snap.bundles : snap.bundles[i].bid # b}
           B == Pick(snap.bundles, K)
<1>1. origin = "page" /\ b \in Bids(snap)
  BY DEF RemoveBundle, Draw
<1>2. snap' = [nodes |-> snap.nodes, edges |-> snap.edges, bundles |-> B]
  BY <1>1, Before DEF RemoveBundle, Draw
<1>3. BundlesSound(B, Ids(snap)) /\ \A k \in DOMAIN B : \E i \in K : B[k] = snap.bundles[i]
  <2>1. K \subseteq DOMAIN snap.bundles
    OBVIOUS
  <2> HIDE DEF K
  <2>2. QED
    BY <1>1, <2>1, Before, FewerBundles
<1> HIDE DEF B
<1>4. Sound(snap')
  BY <1>1, <1>2, <1>3, Before, SoundOf
<1>5. b \notin Bids(snap')
  <2>1. snap'.bundles = B
    BY <1>2
  <2>2. QED
    BY <1>3, <2>1 DEF Bids
<1>6. QED
  BY <1>1, <1>4, <1>5, Before, Shown, EditedIf

\* A moved instance is in one bundle only, the new one, and the diff has it as moved;
\* one that is dropped where it was only becomes the last of its bundle.
LEMMA SetMembershipEdits ==
  ASSUME CanvasInv, NEW n \in Id, NEW i \in {0} \cup DOMAIN snap.bundles, SetMembership(n, i)
  PROVE  Edited
<1> DEFINE left == Without(snap.bundles, n)
           B == IF i = 0 THEN left ELSE [left EXCEPT ![i].members = Append(@, n)]
<1>1. origin = "page" /\ n \in Ids(snap)
  BY DEF SetMembership, Draw
<1>2. snap' = [nodes |-> snap.nodes, edges |-> snap.edges, bundles |-> B]
  BY <1>1, Before DEF SetMembership, Draw
<1>3. PICK D, S : D = snap.bundles /\ S = Ids(snap) /\ BundlesSound(D, S) /\ S \subseteq Id
                  /\ n \in S
  BY <1>1, Before
<1>4. /\ BundlesSound(left, S \ {n}) /\ DOMAIN left = DOMAIN D
      /\ \A j \in DOMAIN D : /\ left[j].bid = D[j].bid
                             /\ ToSet(left[j].members) = ToSet(D[j].members) \ {n}
  <2>1. BundlesSound(D, S)
    BY <1>3
  <2>2. left = Without(D, n)
    BY <1>3
  <2> HIDE DEF left
  <2>3. BundlesSound(left, S \ {n}) /\ Fewer(left, D, n)
    BY <2>1, <2>2, TakenOut
  <2>4. QED
    BY <2>3 DEF Fewer
<1> HIDE DEF left
<1>5. i # 0 => i \in DOMAIN left
  BY <1>3, <1>4
<1>6. /\ BundlesSound(B, S) /\ DOMAIN B = DOMAIN D
      /\ \A j \in DOMAIN D :
           /\ B[j].bid = D[j].bid
           /\ j # i => ToSet(B[j].members) = ToSet(D[j].members) \ {n}
           /\ j = i /\ i # 0 => ToSet(B[j].members) = ToSet(D[j].members) \cup {n}
  <2>1. CASE i = 0
    <3>1. B = left /\ S \ {n} \subseteq S
      BY <2>1
    <3>2. BundlesSound(B, S)
      BY <1>4, <3>1, Wider
    <3> HIDE DEF B
    <3>3. QED
      BY <1>4, <2>1, <3>1, <3>2
  <2>2. CASE i # 0
    <3>1. B = [left EXCEPT ![i].members = Append(@, n)]
      BY <2>2
    <3>2. n \in S /\ S \subseteq Id /\ BundlesSound(left, S \ {n}) /\ i \in DOMAIN left
      BY <1>3, <1>4, <1>5, <2>2
    <3> HIDE DEF B
    <3>3. BundlesSound(B, S) /\ More(B, left, i, n)
      BY <3>1, <3>2, Joins
    <3>4. ToSet(B[i].members) = ToSet(D[i].members) \cup {n}
      BY <1>4, <1>5, <2>2, <3>3 DEF More
    <3>5. QED
      BY <1>4, <1>5, <2>2, <3>3, <3>4 DEF More
  <2>3. QED
    BY <2>1, <2>2
<1> HIDE DEF B
<1>7. Sound(snap') /\ Ids(snap') = Ids(snap) /\ snap'.bundles = B
  BY <1>1, <1>2, <1>3, <1>6, Before, SoundOf
<1>8. 0 \notin Bid
  BY CanvasAssumption
<1>9. CASE /\ i # 0 => n \in ToSet(D[i].members)
           /\ i = 0 => \A j \in DOMAIN D : n \notin ToSet(D[j].members)
  <2>1. \A j \in DOMAIN D : ToSet(B[j].members) = ToSet(D[j].members)
    <3> SUFFICES ASSUME NEW j \in DOMAIN D PROVE ToSet(B[j].members) = ToSet(D[j].members)
      OBVIOUS
    <3>1. CASE j = i /\ i # 0
      BY <1>6, <1>9, <3>1
    <3>2. CASE j # i
      <4>1. n \notin ToSet(D[j].members)
        <5>1. CASE i = 0
          BY <1>9, <5>1
        <5>2. CASE i # 0
          <6>1. i \in DOMAIN D
            BY <1>4, <1>5, <5>2
          <6>2. QED
            BY <1>3, <1>9, <3>2, <5>2, <6>1, BundleOfIs
        <5>3. QED
          BY <5>1, <5>2
      <4>2. QED
        BY <1>6, <3>2, <4>1
    <3>3. j # 0
      BY <1>3, LenProperties DEF BundlesSound, Bundles
    <3>4. QED
      BY <3>1, <3>2, <3>3
  <2>2. Len(D) = Len(B)
    <3>1. D \in Bundles /\ B \in Bundles
      BY <1>3, <1>6 DEF BundlesSound
    <3>2. /\ Len(D) \in Nat /\ DOMAIN D = 1 .. Len(D)
          /\ Len(B) \in Nat /\ DOMAIN B = 1 .. Len(B)
      BY <3>1, LenProperties DEF Bundles
    <3>3. QED
      BY <1>6, <3>2
  <2>3. snap'.nodes = snap.nodes /\ snap'.edges = snap.edges
    BY <1>2
  <2>4. SameDesign(snap, snap')
    BY <1>3, <1>6, <1>7, <2>1, <2>2, <2>3 DEF SameDesign
  <2>5. QED
    BY <1>1, <1>7, <2>4, Before, EditedIf
<1>10. CASE i # 0 /\ n \notin ToSet(D[i].members)
  <2>1. i \in DOMAIN D /\ n \in ToSet(B[i].members)
    BY <1>4, <1>5, <1>6, <1>10
  <2>2. BundleOf(snap', n) = D[i].bid
    <3>1. PICK s : s = snap'
      OBVIOUS
    <3>2. BundleOf(s, n) = B[i].bid
      BY <1>6, <1>7, <2>1, <3>1, BundleOfIs
    <3>3. QED
      BY <1>6, <2>1, <3>1, <3>2
  <2>3. BundleOf(snap, n) # D[i].bid
    <3>1. CASE \E j \in DOMAIN D : n \in ToSet(D[j].members)
      <4>1. PICK j \in DOMAIN D : n \in ToSet(D[j].members)
        BY <3>1
      <4>2. BundleOf(snap, n) = D[j].bid
        BY <1>3, <4>1, BundleOfIs
      <4>3. QED
        BY <1>3, <1>10, <2>1, <4>1, <4>2 DEF BundlesSound
    <3>2. CASE ~ \E j \in DOMAIN D : n \in ToSet(D[j].members)
      <4>1. BundleOf(snap, n) = 0
        BY <1>3, <3>2, BundleOfIs
      <4>2. D[i].bid \in Bid
        BY <1>3, <2>1, BundleShape
      <4>3. QED
        BY <1>8, <4>1, <4>2
    <3>3. QED
      BY <3>1, <3>2
  <2>4. QED
    BY <1>1, <1>7, <2>2, <2>3, Before, Shown, EditedIf
<1>11. CASE i = 0 /\ \E j \in DOMAIN D : n \in ToSet(D[j].members)
  <2>1. PICK j \in DOMAIN D : n \in ToSet(D[j].members)
    BY <1>11
  <2>2. BundleOf(snap, n) \in Bid
    BY <1>3, <2>1, BundleOfIs
  <2>3. \A k \in DOMAIN B : n \notin ToSet(B[k].members)
    <3>1. \A k \in DOMAIN D : k # 0
      BY <1>3, LenProperties DEF BundlesSound, Bundles
    <3>2. QED
      BY <1>6, <1>11, <3>1
  <2>4. BundleOf(snap', n) = 0
    <3>1. PICK s : s = snap'
      OBVIOUS
    <3>2. BundleOf(s, n) = 0
      BY <1>6, <1>7, <2>3, <3>1, BundleOfIs
    <3>3. QED
      BY <3>1, <3>2
  <2>5. QED
    BY <1>1, <1>7, <1>8, <2>2, <2>4, Before, Shown, EditedIf
<1>12. QED
  BY <1>9, <1>10, <1>11

-----------------------------------------------------------------------------
(* The invariant and the theorems                                          *)

\* The invariant holds at the start, also of a snapshot that a client sends.
LEMMA CanvasStarts ==
  CanvasInit => CanvasInv
<1> SUFFICES ASSUME CanvasInit PROVE CanvasInv
  OBVIOUS
<1>1. CASE snap = Empty /\ origin = "page"
  <2>1. PICK nd, E : nd = << >> /\ E = << >>
    OBVIOUS
  <2>2. NodesSound(nd, {})
    <3> DEFINE h == [n \in {} |-> CHOOSE x \in Instance : TRUE]
    <3>1. h \in [{} -> Instance] /\ nd = [n \in {} |-> <<h[n]>>]
      BY <2>1
    <3> HIDE DEF h
    <3>2. QED
      BY <3>1 DEF NodesSound
  <2>3. EdgesSound(E, {}) /\ BundlesSound(E, {})
    BY <2>1, EmptySeq DEF EdgesSound, BundlesSound, Edges, Bundles
  <2>4. snap = [nodes |-> nd, edges |-> E, bundles |-> E]
    BY <1>1, <2>1 DEF Empty
  <2>5. Sound(snap)
    <3>1. {} \subseteq Id
      OBVIOUS
    <3>2. QED
      BY <2>2, <2>3, <2>4, <3>1, SoundOf
  <2>6. QED
    BY <1>1, <2>5 DEF CanvasInv, Sound
<1>2. CASE snap \in Sent /\ origin = "api"
  BY <1>2, CanvasAssumption DEF CanvasInv
<1>3. QED
  BY <1>1, <1>2 DEF CanvasInit

\* So every step keeps the snapshot sound and shows if it changes the design.
LEMMA StepsEdit ==
  ASSUME CanvasInv, CanvasNext
  PROVE  Edited
<1>1. ASSUME NEW n \in Id, AddNode(n) \/ UpdateNode(n) \/ RemoveNode(n)
      PROVE  Edited
  BY <1>1, AddNodeEdits, UpdateNodeEdits, RemoveNodeEdits
<1>2. ASSUME NEW n \in Id, NEW name \in Names[n], RenameNode(n, name)
      PROVE  Edited
  BY <1>2, RenameNodeEdits
<1>3. ASSUME NEW src \in Id, NEW dst \in Id, NEW sem \in Semantic, AddEdge(src, dst, sem)
      PROVE  Edited
  BY <1>3, AddEdgeEdits
<1>4. ASSUME NEW e \in Eids(snap), RemoveEdge(e)
      PROVE  Edited
  BY <1>4, RemoveEdgeEdits
<1>5. ASSUME NEW b \in Bid, AddBundle(b) \/ RemoveBundle(b)
      PROVE  Edited
  BY <1>5, AddBundleEdits, RemoveBundleEdits
<1>6. ASSUME NEW n \in Id, NEW i \in {0} \cup DOMAIN snap.bundles, SetMembership(n, i)
      PROVE  Edited
  BY <1>6, SetMembershipEdits
<1>7. QED
  BY <1>1, <1>2, <1>3, <1>4, <1>5, <1>6 DEF CanvasNext

\* The invariant is inductive.
LEMMA CanvasKept ==
  CanvasInv /\ [CanvasNext]_canvasVars => CanvasInv'
<1> SUFFICES ASSUME CanvasInv, [CanvasNext]_canvasVars PROVE CanvasInv'
  OBVIOUS
<1>1. CASE CanvasNext
  <2>1. Sound(snap')
    BY <1>1, StepsEdit DEF Edited
  <2>2. QED
    BY <2>1 DEF CanvasInv, Sound
<1>2. CASE UNCHANGED canvasVars
  BY <1>2 DEF CanvasInv, canvasVars
<1>3. QED
  BY <1>1, <1>2

\* It holds always.
LEMMA CanvasAlways ==
  CanvasSpec => []CanvasInv
<1>1. QED
  BY CanvasStarts, CanvasKept, PTL DEF CanvasSpec

\* In a sound snapshot every name is that of an instance.
LEMMA NamesExist ==
  ASSUME NEW s, Sound(s)
  PROVE  NodeRef(s) # "NODE_REF_INVALID" /\ ~ MembershipConflict(s)
<1>1. PICK E, B, S : /\ E = s.edges /\ B = s.bundles /\ S = Ids(s)
                     /\ EdgesSound(E, S) /\ BundlesSound(B, S)
  BY DEF Sound
<1>2. \A i \in DOMAIN E : EdgeRef(s, E[i]) # "NODE_REF_INVALID"
  BY <1>1 DEF EdgesSound, EdgeRef
<1>3. \A p \in Places(s) :
        /\ p = <<p[1], p[2]>> /\ p[1] \in DOMAIN B /\ p[2] \in DOMAIN B[p[1]].members
        /\ Member(s, p) = B[p[1]].members[p[2]]
  BY <1>1 DEF Places, Member
<1>4. \A p \in Places(s) : Member(s, p) \in S
  BY <1>1, <1>3 DEF BundlesSound
<1>5. NodeRef(s) # "NODE_REF_INVALID"
  <2> DEFINE bad == {i \in DOMAIN E : EdgeRef(s, E[i]) # "ok"}
  <2>1. DOMAIN E \subseteq Nat
    <3>1. PICK T : E \in Seq(T)
      BY <1>1 DEF EdgesSound, Edges
    <3>2. QED
      BY <3>1, LenProperties
  <2>2. bad \subseteq DOMAIN E
    OBVIOUS
  <2>3. NodeRef(s) = IF bad # {} THEN EdgeRef(s, E[Min(bad)])
                     ELSE IF \E p \in Places(s) : Member(s, p) \notin S
                          THEN "NODE_REF_INVALID" ELSE "ok"
    BY <1>1 DEF NodeRef
  <2> HIDE DEF bad
  <2>4. bad # {} => Min(bad) \in DOMAIN E
    BY <2>1, <2>2, LeastPlace
  <2>5. QED
    BY <1>2, <1>4, <2>3, <2>4
<1>6. ~ MembershipConflict(s)
  <2> SUFFICES ASSUME NEW p \in Places(s), NEW q \in Places(s), Member(s, p) = Member(s, q)
               PROVE  p = q
    BY DEF MembershipConflict
  <2>1. p[1] = q[1] /\ p[2] = q[2]
    BY <1>1, <1>3 DEF BundlesSound
  <2>2. QED
    BY <1>3, <2>1
<1>7. QED
  BY <1>5, <1>6

\* Whatever is drawn, removed and moved on a page, and in whatever order:
\* every edge and every bundle names instances that exist, and no instance is
\* in two bundles, so that the parser refuses no page's snapshot for its names.
THEOREM SnapshotAlwaysSound ==
  CanvasSpec => []SnapshotSound
<1>1. CanvasInv => SnapshotSound
  BY NamesExist DEF CanvasInv, SnapshotSound, CanvasTypeOK, PageStaysSound
<1>2. QED
  BY <1>1, CanvasAlways, PTL

\* The diff of the snapshots around an edit of a page is empty exactly if the edit
\* leaves the design as it is: it has renamed an instance or dropped one in the
\* bundle it was in.  No other edit is lost to the diff, the move of an instance
\* between bundles included.
THEOREM EditsAlwaysShow ==
  CanvasSpec => EditsShow
<1>1. CanvasInv /\ [CanvasNext]_canvasVars
        => [Diff(snap, snap') = Silent <=> SameDesign(snap, snap')]_snap
  <2> SUFFICES ASSUME CanvasInv, [CanvasNext]_canvasVars, snap' # snap
               PROVE  Diff(snap, snap') = Silent <=> SameDesign(snap, snap')
    OBVIOUS
  <2>1. CanvasNext
    BY DEF canvasVars
  <2>2. QED
    BY <2>1, StepsEdit DEF Edited
<1>2. QED
  BY <1>1, CanvasAlways, PTL DEF CanvasSpec, EditsShow

-----------------------------------------------------------------------------
(* The paste                                                               *)

\* New names differ where the old ones do, and name an instance of the copy
\* if and only if the old one names an instance.
LEMMA RenamedApart ==
  ASSUME NEW s, Shaped(s), NEW new \in New
  PROVE  /\ Ids(Paste(s, new)) = {new[n] : n \in Ids(s)}
         /\ Ids(Paste(s, new)) \cap Ids(s) = {}
         /\ \A x, y \in Terminal : Renamed(s, new, x) = Renamed(s, new, y) => x = y
         /\ \A x \in Terminal : Renamed(s, new, x) \in Ids(Paste(s, new)) <=> x \in Ids(s)
<1>1. new \in [Id -> Nat \ Terminal] /\ \A a, b \in Id : new[a] = new[b] => a = b
  BY CanvasAssumption DEF IsInjective
<1>2. PICK S : S = Ids(s) /\ S \subseteq Id /\ Id \subseteq Terminal
  BY PartsOf DEF Terminal
<1>3. \A n \in S : new[n] \notin Terminal
  BY <1>1, <1>2
<1>4. Ids(Paste(s, new)) = {new[n] : n \in S}
  BY <1>2 DEF Paste, Ids
<1>5. \A x : Renamed(s, new, x) = IF x \in S THEN new[x] ELSE x
  BY <1>2 DEF Renamed
<1>6. \A x, y \in Terminal : Renamed(s, new, x) = Renamed(s, new, y) => x = y
  BY <1>1, <1>2, <1>3, <1>5
<1>7. \A x \in Terminal : Renamed(s, new, x) \in {new[n] : n \in S} <=> x \in S
  BY <1>2, <1>3, <1>5
<1>8. QED
  BY <1>2, <1>3, <1>4, <1>6, <1>7

\* A copy has its edges and members at the same places.
LEMMA CopiedParts ==
  ASSUME NEW s, Shaped(s), NEW new \in New
  PROVE  LET copy == Paste(s, new) IN
         /\ DOMAIN copy.edges = DOMAIN s.edges
         /\ \A i \in DOMAIN s.edges :
              /\ s.edges[i].src \in Terminal /\ s.edges[i].dst \in Terminal
              /\ copy.edges[i].src = Renamed(s, new, s.edges[i].src)
              /\ copy.edges[i].dst = Renamed(s, new, s.edges[i].dst)
         /\ Places(copy) = Places(s)
         /\ \A p \in Places(s) : /\ Member(s, p) \in Id
                                 /\ Member(copy, p) = Renamed(s, new, Member(s, p))
<1> DEFINE copy == Paste(s, new)
<1>1. s.edges \in Edges /\ s.bundles \in Bundles
  BY PartsOf
<1>2. copy.edges = [i \in DOMAIN s.edges |-> [s.edges[i] EXCEPT !.src = Renamed(s, new, @),
                                                             !.dst = Renamed(s, new, @)]]
  BY DEF Paste
<1>3. copy.bundles = [i \in DOMAIN s.bundles |-> [s.bundles[i] EXCEPT
                        !.members = [k \in DOMAIN @ |-> Renamed(s, new, @[k])]]]
  BY DEF Paste
<1> HIDE DEF copy
<1>4. \A i \in DOMAIN s.edges :
        s.edges[i] \in [eid : Terminal \X Semantic \X Terminal \X Nat,
                       src : Terminal, dst : Terminal, sem : Semantic]
  <2>1. PICK T, E : /\ E = s.edges /\ E \in Seq(T)
                    /\ T = [eid : Terminal \X Semantic \X Terminal \X Nat,
                            src : Terminal, dst : Terminal, sem : Semantic]
    BY <1>1 DEF Edges
  <2>2. \A i \in DOMAIN E : E[i] \in T
    BY <2>1, LenProperties, ElementOfSeq
  <2>3. QED
    BY <2>1, <2>2
<1>5. \A i \in DOMAIN s.edges :
        /\ s.edges[i].src \in Terminal /\ s.edges[i].dst \in Terminal
        /\ copy.edges[i].src = Renamed(s, new, s.edges[i].src)
        /\ copy.edges[i].dst = Renamed(s, new, s.edges[i].dst)
  <2> SUFFICES ASSUME NEW i \in DOMAIN s.edges
               PROVE  /\ s.edges[i].src \in Terminal /\ s.edges[i].dst \in Terminal
                      /\ copy.edges[i].src = Renamed(s, new, s.edges[i].src)
                      /\ copy.edges[i].dst = Renamed(s, new, s.edges[i].dst)
    OBVIOUS
  <2>1. PICK e, x, y : e = s.edges[i] /\ x = Renamed(s, new, e.src) /\ y = Renamed(s, new, e.dst)
    OBVIOUS
  <2>2. copy.edges[i] = [[e EXCEPT !.src = x] EXCEPT !.dst = y]
    BY <1>2, <2>1
  <2>3. e \in [eid : Terminal \X Semantic \X Terminal \X Nat,
             src : Terminal, dst : Terminal, sem : Semantic]
    BY <1>4, <2>1
  <2>4. copy.edges[i].src = x /\ copy.edges[i].dst = y
    BY <2>2, <2>3
  <2>5. QED
    BY <2>1, <2>3, <2>4
<1>6. \A i \in DOMAIN s.bundles :
        /\ s.bundles[i] \in [bid : Bid, members : Seq(Id)]
        /\ \A k \in DOMAIN s.bundles[i].members : s.bundles[i].members[k] \in Id
  <2>1. PICK T, B : /\ B = s.bundles /\ B \in Seq(T) /\ T = [bid : Bid, members : Seq(Id)]
    BY <1>1 DEF Bundles
  <2>2. \A i \in DOMAIN B : B[i] \in T
    BY <2>1, LenProperties, ElementOfSeq
  <2>3. \A m \in Seq(Id) : \A k \in DOMAIN m : m[k] \in Id
    BY LenProperties, ElementOfSeq
  <2>4. QED
    BY <2>1, <2>2, <2>3
<1>7. /\ DOMAIN copy.bundles = DOMAIN s.bundles
      /\ \A i \in DOMAIN s.bundles :
           copy.bundles[i].members = [k \in DOMAIN s.bundles[i].members |->
                                        Renamed(s, new, s.bundles[i].members[k])]
  BY <1>3, <1>6
<1>8. \A i \in DOMAIN s.bundles :
        /\ DOMAIN copy.bundles[i].members = DOMAIN s.bundles[i].members
        /\ \A k \in DOMAIN s.bundles[i].members :
             copy.bundles[i].members[k] = Renamed(s, new, s.bundles[i].members[k])
  BY <1>7
<1>9. Places(copy) = Places(s)
  BY <1>7, <1>8 DEF Places
<1>10. ASSUME NEW p \in Places(s)
       PROVE  Member(s, p) \in Id /\ Member(copy, p) = Renamed(s, new, Member(s, p))
  <2>1. p[1] \in DOMAIN s.bundles /\ p[2] \in DOMAIN s.bundles[p[1]].members
    BY DEF Places
  <2>2. QED
    BY <1>6, <1>8, <2>1 DEF Member
<1>11. DOMAIN copy.edges = DOMAIN s.edges
  BY <1>2
<1>12. QED
  BY <1>5, <1>9, <1>10, <1>11 DEF copy

\* The names of a copy are judged like those of the original.
LEMMA CopyNames ==
  ASSUME NEW s, Shaped(s), NEW new \in New
  PROVE  LET copy == Paste(s, new) IN
         /\ Ids(copy) \cap Ids(s) = {}
         /\ MembershipConflict(copy) <=> MembershipConflict(s)
         /\ NodeRef(copy) = NodeRef(s)
<1>1. PICK copy : copy = Paste(s, new)
  OBVIOUS
<1>2. /\ Ids(copy) \cap Ids(s) = {}
      /\ \A x, y \in Terminal : Renamed(s, new, x) = Renamed(s, new, y) => x = y
      /\ \A x \in Terminal : Renamed(s, new, x) \in Ids(copy) <=> x \in Ids(s)
  BY <1>1, RenamedApart
<1>3. /\ DOMAIN copy.edges = DOMAIN s.edges
      /\ \A i \in DOMAIN s.edges :
           /\ s.edges[i].src \in Terminal /\ s.edges[i].dst \in Terminal
           /\ copy.edges[i].src = Renamed(s, new, s.edges[i].src)
           /\ copy.edges[i].dst = Renamed(s, new, s.edges[i].dst)
  BY <1>1, CopiedParts
<1>4. /\ Places(copy) = Places(s)
      /\ \A p \in Places(s) : /\ Member(s, p) \in Terminal
                              /\ Member(copy, p) = Renamed(s, new, Member(s, p))
  BY <1>1, CopiedParts DEF Terminal
<1>5. MembershipConflict(copy) <=> MembershipConflict(s)
  BY <1>2, <1>4 DEF MembershipConflict
<1>6. \A i \in DOMAIN s.edges : EdgeRef(copy, copy.edges[i]) = EdgeRef(s, s.edges[i])
  BY <1>2, <1>3 DEF EdgeRef
<1>7. NodeRef(copy) = NodeRef(s)
  <2> DEFINE bad == {i \in DOMAIN s.edges : EdgeRef(s, s.edges[i]) # "ok"}
             bad2 == {i \in DOMAIN copy.edges : EdgeRef(copy, copy.edges[i]) # "ok"}
  <2>1. bad2 = bad
    BY <1>3, <1>6
  <2>2. DOMAIN s.edges \subseteq Nat
    <3>1. PICK T, E : E = s.edges /\ E \in Seq(T)
      BY PartsOf DEF Edges
    <3>2. QED
      BY <3>1, LenProperties
  <2>3. bad \subseteq DOMAIN s.edges
    OBVIOUS
  <2>4. NodeRef(s) = IF bad # {} THEN EdgeRef(s, s.edges[Min(bad)])
                     ELSE IF \E p \in Places(s) : Member(s, p) \notin Ids(s)
                          THEN "NODE_REF_INVALID" ELSE "ok"
    BY DEF NodeRef
  <2>5. NodeRef(copy) = IF bad2 # {} THEN EdgeRef(copy, copy.edges[Min(bad2)])
                        ELSE IF \E p \in Places(copy) : Member(copy, p) \notin Ids(copy)
                             THEN "NODE_REF_INVALID" ELSE "ok"
    BY DEF NodeRef
  <2> HIDE DEF bad, bad2
  <2>6. bad # {} => Min(bad) \in DOMAIN s.edges
    BY <2>2, <2>3, LeastPlace
  <2>7. (\E p \in Places(copy) : Member(copy, p) \notin Ids(copy))
          <=> \E p \in Places(s) : Member(s, p) \notin Ids(s)
    BY <1>2, <1>4
  <2>8. QED
    BY <1>6, <2>1, <2>4, <2>5, <2>6, <2>7
<1>8. QED
  BY <1>1, <1>2, <1>5, <1>7

\* Also of a snapshot that no page has made: a copy shares no instance with it,
\* and dangling and doubled names are those of the original, whatever new ids
\* are drawn.
THEOREM PasteAlwaysKeepsNames ==
  CanvasSpec => []PasteKeepsNames
<1>1. CanvasInv => PasteKeepsNames
  BY CopyNames DEF CanvasInv, PasteKeepsNames
<1>2. QED
  BY <1>1, CanvasAlways, PTL

-----------------------------------------------------------------------------
(* The validator                                                           *)

\* The parts of a well-formed design.
KnownEnds(s) == \A i \in DOMAIN s.edges : {s.edges[i].src, s.edges[i].dst} \subseteq Ids(s)

AllowedSemantics(s) ==
  \A i \in DOMAIN s.edges : s.edges[i].sem \in Allows[LastOf(s, s.edges[i].src).tpl] \ {""}

NoDoubleEdge(s) == \A i, j \in DOMAIN s.edges : SameArc(s.edges[i], s.edges[j]) => i = j

NoLoop(s) == \A i \in DOMAIN s.edges : s.edges[i].src # s.edges[i].dst

KnownMembers(s) == \A p \in Places(s) : Member(s, p) \in Ids(s)

\* A search for cycles that is right, of every snapshot.
CycleSearchExact == \A s : Shaped(s) => (Cycle(s) = << >> <=> Acyclic(s))

\* The reference in these parts.
LEMMA WellFormedParts ==
  ASSUME NEW s
  PROVE  WellFormed(s) <=>
           /\ KnownEnds(s) /\ AllowedSemantics(s) /\ NoDoubleEdge(s)
           /\ Acyclic(s) /\ ~ MembershipConflict(s) /\ KnownMembers(s)
<1>1. \A p : p \in Places(s) <=> \E i \in DOMAIN s.bundles :
                                  \E k \in DOMAIN s.bundles[i].members : p = <<i, k>>
  BY DEF Places
<1>2. ~ MembershipConflict(s) <=>
        \A i, j \in DOMAIN s.bundles :
          \A k \in DOMAIN s.bundles[i].members, l \in DOMAIN s.bundles[j].members :
            s.bundles[i].members[k] = s.bundles[j].members[l] => i = j /\ k = l
  <2>1. ASSUME ~ MembershipConflict(s), NEW i \in DOMAIN s.bundles, NEW j \in DOMAIN s.bundles,
               NEW k \in DOMAIN s.bundles[i].members, NEW l \in DOMAIN s.bundles[j].members,
               s.bundles[i].members[k] = s.bundles[j].members[l]
        PROVE  i = j /\ k = l
    <3>1. /\ <<i, k>> \in Places(s) /\ <<j, l>> \in Places(s)
          /\ Member(s, <<i, k>>) = Member(s, <<j, l>>)
      BY <1>1, <2>1 DEF Member
    <3>2. <<i, k>> = <<j, l>>
      BY <2>1, <3>1 DEF MembershipConflict
    <3>3. QED
      BY <3>2
  <2>2. ASSUME MembershipConflict(s)
        PROVE  \E i, j \in DOMAIN s.bundles :
                 \E k \in DOMAIN s.bundles[i].members, l \in DOMAIN s.bundles[j].members :
                   s.bundles[i].members[k] = s.bundles[j].members[l] /\ ~ (i = j /\ k = l)
    <3>1. PICK p \in Places(s), q \in Places(s) : p # q /\ Member(s, p) = Member(s, q)
      BY <2>2 DEF MembershipConflict
    <3>2. PICK i \in DOMAIN s.bundles : \E k \in DOMAIN s.bundles[i].members : p = <<i, k>>
      BY <1>1
    <3>3. PICK k \in DOMAIN s.bundles[i].members : p = <<i, k>>
      BY <3>2
    <3>4. PICK j \in DOMAIN s.bundles : \E l \in DOMAIN s.bundles[j].members : q = <<j, l>>
      BY <1>1
    <3>5. PICK l \in DOMAIN s.bundles[j].members : q = <<j, l>>
      BY <3>4
    <3>6. s.bundles[i].members[k] = s.bundles[j].members[l] /\ ~ (i = j /\ k = l)
      BY <3>1, <3>3, <3>5 DEF Member
    <3>7. QED
      BY <3>6
  <2>3. QED
    BY <2>1, <2>2
<1>3. KnownMembers(s) <=> \A i \in DOMAIN s.bundles : ToSet(s.bundles[i].members) \subseteq Ids(s)
  <2>1. \A i \in DOMAIN s.bundles :
          ToSet(s.bundles[i].members) \subseteq Ids(s) <=>
            \A k \in DOMAIN s.bundles[i].members : s.bundles[i].members[k] \in Ids(s)
    BY DEF ToSet
  <2>2. KnownMembers(s) <=> \A i \in DOMAIN s.bundles : \A k \in DOMAIN s.bundles[i].members :
                              s.bundles[i].members[k] \in Ids(s)
    <3>1. ASSUME KnownMembers(s), NEW i \in DOMAIN s.bundles, NEW k \in DOMAIN s.bundles[i].members
          PROVE  s.bundles[i].members[k] \in Ids(s)
      <4>1. <<i, k>> \in Places(s) /\ Member(s, <<i, k>>) = s.bundles[i].members[k]
        BY <1>1 DEF Member
      <4>2. QED
        BY <3>1, <4>1 DEF KnownMembers
    <3>2. ASSUME \A i \in DOMAIN s.bundles : \A k \in DOMAIN s.bundles[i].members :
                   s.bundles[i].members[k] \in Ids(s),
                 NEW p \in Places(s)
          PROVE  Member(s, p) \in Ids(s)
      BY <1>1, <3>2 DEF Member
    <3>3. QED
      BY <3>1, <3>2 DEF KnownMembers
  <2>3. QED
    BY <2>1, <2>2
<1>4. QED
  BY <1>2, <1>3 DEF WellFormed, KnownEnds, AllowedSemantics, NoDoubleEdge

\* The first visitor lets pass what names instances only and has no loop.
LEMMA NodeRefExact ==
  ASSUME NEW s, Shaped(s)
  PROVE  /\ NodeRef(s) \in {"ok", "NODE_REF_INVALID", "EDGE_SELF_LOOP"}
         /\ NodeRef(s) = "ok" <=> KnownEnds(s) /\ NoLoop(s) /\ KnownMembers(s)
<1> DEFINE bad == {i \in DOMAIN s.edges : EdgeRef(s, s.edges[i]) # "ok"}
<1>1. DOMAIN s.edges \subseteq Nat
  <2>1. PICK T, E : E = s.edges /\ E \in Seq(T)
    BY PartsOf DEF Edges
  <2>2. QED
    BY <2>1, LenProperties
<1>2. bad \subseteq DOMAIN s.edges
  OBVIOUS
<1>3. bad # {} => Min(bad) \in bad
  <2> HIDE DEF bad
  <2>1. QED
    BY <1>1, <1>2, LeastPlace
<1>4. NodeRef(s) = IF bad # {} THEN EdgeRef(s, s.edges[Min(bad)])
                   ELSE IF \E p \in Places(s) : Member(s, p) \notin Ids(s)
                        THEN "NODE_REF_INVALID" ELSE "ok"
  BY DEF NodeRef
<1>5. bad = {} <=> KnownEnds(s) /\ NoLoop(s)
  BY DEF EdgeRef, KnownEnds, NoLoop
<1>6. bad # {} => EdgeRef(s, s.edges[Min(bad)]) \in {"NODE_REF_INVALID", "EDGE_SELF_LOOP"}
  <2>1. \A e : EdgeRef(s, e) \in {"ok", "NODE_REF_INVALID", "EDGE_SELF_LOOP"}
    BY DEF EdgeRef
  <2>2. \A i \in bad : EdgeRef(s, s.edges[i]) # "ok"
    OBVIOUS
  <2> HIDE DEF bad
  <2>3. QED
    BY <1>3, <2>1, <2>2
<1> HIDE DEF bad
<1>7. QED
  BY <1>4, <1>5, <1>6 DEF KnownMembers

\* A loop is a cycle; what the parser refuses and what a template does not allow are
\* the semantics that a well-formed design has not.
LEMMA LoopsAndBlanks ==
  ASSUME NEW s, Shaped(s), KnownEnds(s)
  PROVE  /\ Acyclic(s) => NoLoop(s)
         /\ ParseError(s) \/ BadSemantic(s) <=> ~ AllowedSemantics(s)
<1>1. ASSUME Acyclic(s), NEW i \in DOMAIN s.edges PROVE s.edges[i].src # s.edges[i].dst
  <2>1. PICK n : n = s.edges[i].src /\ n \in Ids(s)
    BY DEF KnownEnds
  <2>2. {n} \in (SUBSET Ids(s)) \ {{}}
    BY <2>1
  <2>3. ~ Leads(s, n, n)
    BY <1>1, <2>2 DEF Acyclic
  <2>4. QED
    BY <2>1, <2>3 DEF Leads
<1>2. 0 \notin Ids(s)
  BY PartsOf, CanvasAssumption
<1>3. QED
  BY <1>1, <1>2 DEF NoLoop, ParseError, BadSemantic, AllowedSemantics, KnownEnds

\* Edges are compared by their triples.
LEMMA DuplicatesExact ==
  ASSUME NEW s
  PROVE  DuplicateEdge(s) <=> ~ NoDoubleEdge(s)
<1> DEFINE t == [i \in DOMAIN s.edges |-> <<s.edges[i].src, s.edges[i].sem, s.edges[i].dst>>]
<1>1. \A i, j \in DOMAIN s.edges : t[i] = t[j] <=> SameArc(s.edges[i], s.edges[j])
  BY DEF SameArc
<1>2. DOMAIN t = DOMAIN s.edges
  OBVIOUS
<1>3. DuplicateEdge(s) <=> ~ IsInjective(t)
  BY DEF DuplicateEdge
<1> HIDE DEF t
<1>4. IsInjective(t) <=> \A i, j \in DOMAIN t : t[i] = t[j] => i = j
  BY DEF IsInjective
<1>5. QED
  BY <1>1, <1>2, <1>3, <1>4 DEF NoDoubleEdge

\* A save is refused exactly if the design is ill-formed.
LEMMA VerdictExact ==
  ASSUME NEW s, Shaped(s), Cycle(s) = << >> <=> Acyclic(s)
  PROVE  SaveVerdict(s) = "fatal" <=> ~ WellFormed(s)
<1>1. SaveVerdict(s) = "fatal" <=>
        MembershipConflict(s) \/ ParseError(s) \/ Errors(s) \cap FatalCodes # {}
  BY DEF SaveVerdict
<1>2. CASE NodeRef(s) # "ok"
  <2>1. Errors(s) = {NodeRef(s)}
    BY <1>2 DEF Errors
  <2>2. NodeRef(s) \in FatalCodes
    BY <1>2, NodeRefExact DEF FatalCodes
  <2>3. ~ WellFormed(s)
    BY <1>2, NodeRefExact, WellFormedParts, LoopsAndBlanks
  <2>4. QED
    BY <1>1, <2>1, <2>2, <2>3
<1>3. CASE NodeRef(s) = "ok" /\ Cycle(s) # << >>
  <2>1. Errors(s) = {"GRAPH_HAS_CYCLE"}
    BY <1>3 DEF Errors
  <2>2. ~ WellFormed(s)
    BY <1>3 DEF WellFormed
  <2>3. QED
    BY <1>1, <2>1, <2>2 DEF FatalCodes
<1>4. CASE NodeRef(s) = "ok" /\ Cycle(s) = << >>
  <2>1. Errors(s) = {c \in {"EDGE_SEMANTIC_INVALID", "EDGE_DUPLICATE", "FIELD_VALUE_INVALID"} :
                       \/ c = "EDGE_SEMANTIC_INVALID" /\ BadSemantic(s)
                       \/ c = "EDGE_DUPLICATE" /\ DuplicateEdge(s)
                       \/ c = "FIELD_VALUE_INVALID" /\ InvalidFields(s)}
    BY <1>4 DEF Errors
  <2>2. Errors(s) \cap FatalCodes # {} <=> BadSemantic(s) \/ DuplicateEdge(s)
    BY <2>1 DEF FatalCodes
  <2>3. KnownEnds(s) /\ KnownMembers(s) /\ Acyclic(s)
    BY <1>4, NodeRefExact
  <2>4. ParseError(s) \/ BadSemantic(s) <=> ~ AllowedSemantics(s)
    BY <2>3, LoopsAndBlanks
  <2>5. QED
    BY <1>1, <2>2, <2>3, <2>4, DuplicatesExact, WellFormedParts
<1>5. QED
  BY <1>2, <1>3, <1>4

\* What was saved can be run: only one error is not fatal.
LEMMA SavedRuns ==
  ASSUME NEW s, Shaped(s), SaveVerdict(s) # "fatal"
  PROVE  /\ StructureCheck(s) # "raises"
         /\ StructureCheck(s) = "fail" => Errors(s) = {"FIELD_VALUE_INVALID"}
<1>1. ~ MembershipConflict(s) /\ ~ ParseError(s) /\ Errors(s) \cap FatalCodes = {}
  BY DEF SaveVerdict
<1>2. Errors(s) \subseteq FatalCodes \cup {"FIELD_VALUE_INVALID"}
  <2>1. NodeRef(s) # "ok" => NodeRef(s) \in FatalCodes
    BY NodeRefExact DEF FatalCodes
  <2>2. CASE NodeRef(s) # "ok"
    BY <2>1, <2>2 DEF Errors
  <2>3. CASE NodeRef(s) = "ok" /\ Cycle(s) # << >>
    BY <2>3 DEF Errors, FatalCodes
  <2>4. CASE NodeRef(s) = "ok" /\ Cycle(s) = << >>
    BY <2>4 DEF Errors, FatalCodes
  <2>5. QED
    BY <2>2, <2>3, <2>4
<1>3. QED
  BY <1>1, <1>2 DEF StructureCheck

\* If the search for cycles is right, save_version refuses a snapshot exactly if
\* it is ill-formed, whichever visitors are skipped after the first errors, and
\* the structure check of a run finds nothing in a saved one but field values
\* that do not fit.  That the search is right is checked with AnalysesSound.
THEOREM ValidationAlwaysSound ==
  CycleSearchExact => (CanvasSpec => []ValidationSound)
<1> SUFFICES ASSUME CycleSearchExact PROVE CanvasSpec => []ValidationSound
  OBVIOUS
<1>1. CanvasInv => ValidationSound
  BY VerdictExact, SavedRuns
  DEF CycleSearchExact, CanvasInv, ValidationSound, RefusedIfIllFormed, SavedCanRun
<1>2. QED
  BY <1>1, CanvasAlways, PTL
=============================================================================
