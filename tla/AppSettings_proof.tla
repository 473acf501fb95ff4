------------------------- MODULE AppSettings_proof --------------------------
(***************************************************************************)
(* What a cached setting is worth, for any number of processes and values: *)
(* one set() at a time holds the row, and an entry that differs from the   *)
(* row has been overtaken, or its change never told, or is about to go.    *)
(***************************************************************************)
EXTENDS AppSettings, FiniteSetTheorems, TLAPS

-----------------------------------------------------------------------------
(* The inductive invariant.                                                *)

\* A set() under way, and the types in a form that gives each variable a
\* domain.  AtMostOne is the bound on the entries, without counting them.
Job == [at : {"read", "flushed", "committed", "popped"}, val : Value, new : BOOLEAN]

AtMostOne(S) == \A a, b \in S : a = b

Types ==
  /\ row \in Value \cup {NoRow}
  /\ cache \in [Process -> SUBSET Entry]
  /\ get \in [Process -> SUBSET Entry]
  /\ set \in [Process -> Job \cup {Idle}]
  /\ mail \in [Process -> BOOLEAN]
  /\ listening \in [Process -> BOOLEAN]
  /\ \A p \in Process : AtMostOne(cache[p]) /\ AtMostOne(get[p])
  /\ \A p \in Process : mail[p] => listening[p]

OneHoldsTheRow ==
  \A p, q \in Process : set[p].at = "flushed" /\ set[q].at = "flushed" => p = q

\* A read under way that has seen another value than the row knows it: it was
\* overtaken by the commit.
ReadsKnow == \A p \in Process : \A e \in get[p] : Stale(e) => e.late

\* The set() that is going to drop the entry of a process is one that has not
\* dropped it yet: a process's own is past that when it has popped.
DropIsDue(p) ==
  \E q \in Process : set[q].at = "committed" \/ (set[q].at = "popped" /\ q # p)

EntriesAreExcused ==
  \A p \in Process : \A e \in cache[p] : Stale(e) => e.late \/ mail[p] \/ DropIsDue(p)

IInv == Types /\ OneHoldsTheRow /\ ReadsKnow /\ EntriesAreExcused

-----------------------------------------------------------------------------
(* Lemmas.                                                                 *)

\* A set whose elements are all equal has at most one.
LEMMA AtMostOneCounts ==
  ASSUME NEW S, AtMostOne(S)
  PROVE  Cardinality(S) <= 1
<1>1. CASE S = {}
  BY <1>1, FS_EmptySet
<1>2. CASE S # {}
  <2>1. PICK a \in S : TRUE
    BY <1>2
  <2>2. S = {a}
    BY <2>1 DEF AtMostOne
  <2>3. Cardinality(S) = 1
    BY <2>2, FS_Singleton
  <2> QED
    BY <2>3
<1> QED
  BY <1>1, <1>2

\* A mark put on entries keeps their number and their values.
LEMMA MarkKeeps ==
  ASSUME NEW es \in SUBSET Entry, AtMostOne(es), NEW b \in BOOLEAN
  PROVE  /\ Missed(es, b) \in SUBSET Entry /\ AtMostOne(Missed(es, b))
         /\ \A e \in Missed(es, b) : \E o \in es : e.val = o.val /\ (e.late <=> o.late \/ b)
<1> DEFINE mark(e) == [e EXCEPT !.late = @ \/ b]
           m == { mark(e) : e \in es }
<1>1. \A e \in es : mark(e) \in Entry /\ mark(e).val = e.val /\ (mark(e).late <=> e.late \/ b)
  BY DEF Entry
<1> HIDE DEF mark
<1>2. m \in SUBSET Entry /\ AtMostOne(m)
  BY <1>1 DEF AtMostOne
<1>3. ASSUME NEW e \in m PROVE \E o \in es : e.val = o.val /\ (e.late <=> o.late \/ b)
  <2>1. PICK o \in es : e = mark(o)
    OBVIOUS
  <2> QED
    BY <1>1, <2>1, Zenon
<1> QED
  BY <1>2, <1>3 DEF mark, Missed

LEMMA LateKeeps ==
  ASSUME NEW es \in SUBSET Entry, AtMostOne(es), NEW v
  PROVE  /\ Late(es, v) \in SUBSET Entry /\ AtMostOne(Late(es, v))
         /\ \A e \in Late(es, v) : e.val # v => e.late
<1> DEFINE mark(e) == [e EXCEPT !.late = @ \/ e.val # v]
<1>1. \A e \in es : /\ mark(e) \in Entry /\ mark(e).val = e.val
                    /\ e.val # v => mark(e).late
  BY DEF Entry
<1>2. Late(es, v) = { mark(e) : e \in es }
  BY DEF Late
<1> HIDE DEF mark
<1>3. Late(es, v) \in SUBSET Entry /\ AtMostOne(Late(es, v))
  BY <1>1, <1>2 DEF AtMostOne
<1>4. ASSUME NEW e \in Late(es, v), e.val # v PROVE e.late
  <2>1. PICK o \in es : e = mark(o)
    BY <1>2
  <2> QED
    BY <1>1, <1>4, <2>1, Zenon
<1> QED
  BY <1>3, <1>4

LEMMA LostKeeps ==
  ASSUME NEW es \in SUBSET Entry, AtMostOne(es)
  PROVE  /\ Missed(es, TRUE) \in SUBSET Entry /\ AtMostOne(Missed(es, TRUE))
         /\ \A e \in Missed(es, TRUE) : e.late
BY MarkKeeps

-----------------------------------------------------------------------------
(* The steps.                                                              *)

LEMMA InitInv == Init => IInv
BY SettingsAssumption
DEF Init, IInv, Types, OneHoldsTheRow, ReadsKnow, EntriesAreExcused, AtMostOne, Idle

\* A read, an entry that is kept or that expires.
LEMMA GetKeeps ==
  ASSUME IInv, NEW p \in Process,
         (\E v \in Value : Read(p, v)) \/ Fill(p) \/ Expire(p)
  PROVE  IInv'
<1> USE DEF IInv, Types
<1>1. ASSUME NEW v \in Value, Read(p, v) PROVE IInv'
  <2> DEFINE e == [val |-> IF row = NoRow THEN v ELSE row, late |-> FALSE]
  <2>1. get' = [get EXCEPT ![p] = {e}] /\ UNCHANGED <<row, cache, set, mail, listening>>
    BY <1>1 DEF Read
  <2>2. e \in Entry /\ ~Stale(e)
    BY DEF Entry, Stale
  <2> HIDE DEF e
  <2>3. Types'
    BY <2>1, <2>2 DEF AtMostOne
  <2>4. ReadsKnow'
    BY <2>1, <2>2 DEF ReadsKnow, Stale
  <2> QED
    BY <2>1, <2>3, <2>4 DEF OneHoldsTheRow, EntriesAreExcused, DropIsDue, Stale
<1>2. CASE Fill(p)
  <2>1. /\ cache' = [cache EXCEPT ![p] = get[p]] /\ get' = [get EXCEPT ![p] = {}]
        /\ UNCHANGED <<row, set, mail, listening>>
    BY <1>2 DEF Fill
  <2>2. Types'
    BY <2>1 DEF AtMostOne
  <2>3. ReadsKnow' /\ OneHoldsTheRow'
    BY <2>1 DEF ReadsKnow, Stale, OneHoldsTheRow
  <2>4. EntriesAreExcused'
    BY <2>1 DEF ReadsKnow, EntriesAreExcused, DropIsDue, Stale
  <2> QED
    BY <2>2, <2>3, <2>4
<1>3. CASE Expire(p)
  <2>1. cache' = [cache EXCEPT ![p] = {}] /\ UNCHANGED <<row, get, set, mail, listening>>
    BY <1>3 DEF Expire
  <2>2. Types'
    BY <2>1 DEF AtMostOne
  <2> QED
    BY <2>1, <2>2 DEF ReadsKnow, Stale, OneHoldsTheRow, EntriesAreExcused, DropIsDue
<1> QED
  BY <1>1, <1>2, <1>3

\* A step of a set() before it commits: no cache, and no row, changes.
LEMMA BeforeCommitKeeps ==
  ASSUME IInv, NEW p \in Process,
         (\E v \in Value : Begin(p, v)) \/ Flush(p) \/ Fail(p)
  PROVE  IInv'
<1> USE DEF IInv, Types
<1>1. UNCHANGED <<row, cache, get, mail, listening>>
  BY DEF Begin, Flush, Fail
<1>2. /\ set' \in [Process -> Job \cup {Idle}]
      /\ \A q \in Process \ {p} : set'[q] = set[q]
      /\ set[p].at \notin {"committed", "popped"}
  <2>1. CASE \E v \in Value : Begin(p, v)
    BY <2>1 DEF Begin, Job, Idle
  <2>2. CASE Flush(p)
    BY <2>2 DEF Flush, Job, Idle
  <2>3. CASE Fail(p)
    BY <2>3 DEF Fail, Job, Idle
  <2> QED
    BY <2>1, <2>2, <2>3
<1>3. Types' /\ ReadsKnow'
  BY <1>1, <1>2 DEF ReadsKnow, Stale, AtMostOne
<1>4. OneHoldsTheRow'
  <2>1. CASE \E v \in Value : Begin(p, v)
    BY <2>1 DEF Begin, OneHoldsTheRow
  <2>2. CASE Flush(p)
    BY <2>2 DEF Flush, OneHoldsTheRow, Locked
  <2>3. CASE Fail(p)
    BY <2>3 DEF Fail, OneHoldsTheRow, Idle
  <2> QED
    BY <2>1, <2>2, <2>3
<1>5. EntriesAreExcused'
  BY <1>1, <1>2 DEF EntriesAreExcused, DropIsDue, Stale
<1> QED
  BY <1>3, <1>4, <1>5

\* The commit: the row changes, and the reads under way are overtaken.
LEMMA CommitKeeps ==
  ASSUME IInv, NEW p \in Process, Commit(p)
  PROVE  IInv'
<1> USE DEF IInv, Types
<1> DEFINE v == set[p].val
<1>1. /\ set[p].at = "flushed" /\ row' = v /\ UNCHANGED <<cache, mail, listening>>
      /\ get' = [q \in Process |-> Late(get[q], v)]
      /\ set' = [set EXCEPT ![p].at = "committed"]
  BY DEF Commit
<1>2. set[p] \in Job /\ v \in Value
  BY <1>1 DEF Job, Idle
<1>3. /\ set' \in [Process -> Job \cup {Idle}]
      /\ set'[p].at = "committed"
      /\ \A q \in Process \ {p} : set'[q] = set[q]
  BY <1>1, <1>2 DEF Job
<1> HIDE DEF v
<1>4. \A q \in Process :
        /\ Late(get[q], v) \in SUBSET Entry /\ AtMostOne(Late(get[q], v))
        /\ \A e \in Late(get[q], v) : e.val # v => e.late
  BY LateKeeps
<1>5. Types'
  BY <1>1, <1>2, <1>3, <1>4 DEF AtMostOne
<1>6. ReadsKnow'
  <2>1. ASSUME NEW q \in Process, NEW e \in get'[q], Stale(e)' PROVE e.late
    <3>1. e \in Late(get[q], v) /\ e.val # v
      BY <1>1, <2>1 DEF Stale
    <3> QED
      BY <1>4, <3>1
  <2> QED
    BY <2>1 DEF ReadsKnow
<1>7. OneHoldsTheRow'
  BY <1>3 DEF OneHoldsTheRow
<1>8. EntriesAreExcused'
  BY <1>3 DEF EntriesAreExcused, DropIsDue
<1> QED
  BY <1>5, <1>6, <1>7, <1>8

\* A commit whose answer is lost: whatever has been read is overtaken, cached or
\* not.
LEMMA CommitUnansweredKeeps ==
  ASSUME IInv, NEW p \in Process, CommitUnanswered(p)
  PROVE  IInv'
<1> USE DEF IInv, Types
<1> DEFINE v == set[p].val
<1>1. /\ set[p].at = "flushed" /\ row' = v /\ UNCHANGED <<mail, listening>>
      /\ get' = [q \in Process |-> Late(get[q], v)]
      /\ cache' = [q \in Process |-> Late(cache[q], v)]
      /\ set' = [set EXCEPT ![p] = Idle]
  BY DEF CommitUnanswered
<1>2. v \in Value
  BY <1>1 DEF Job, Idle
<1> HIDE DEF v
<1>3. \A q \in Process :
        /\ Late(get[q], v) \in SUBSET Entry /\ AtMostOne(Late(get[q], v))
        /\ \A e \in Late(get[q], v) : e.val # v => e.late
  BY LateKeeps
<1>4. \A q \in Process :
        /\ Late(cache[q], v) \in SUBSET Entry /\ AtMostOne(Late(cache[q], v))
        /\ \A e \in Late(cache[q], v) : e.val # v => e.late
  BY LateKeeps
<1>5. Types'
  BY <1>1, <1>2, <1>3, <1>4 DEF AtMostOne
<1>6. ReadsKnow'
  <2>1. ASSUME NEW q \in Process, NEW e \in get'[q], Stale(e)' PROVE e.late
    <3>1. e \in Late(get[q], v) /\ e.val # v
      BY <1>1, <2>1 DEF Stale
    <3> QED
      BY <1>3, <3>1
  <2> QED
    BY <2>1 DEF ReadsKnow
<1>7. EntriesAreExcused'
  <2>1. ASSUME NEW q \in Process, NEW e \in cache'[q], Stale(e)' PROVE e.late
    <3>1. e \in Late(cache[q], v) /\ e.val # v
      BY <1>1, <2>1 DEF Stale
    <3> QED
      BY <1>4, <3>1
  <2> QED
    BY <2>1 DEF EntriesAreExcused
<1>8. OneHoldsTheRow'
  BY <1>1 DEF OneHoldsTheRow, Idle
<1> QED
  BY <1>5, <1>6, <1>7, <1>8

\* The local entry goes.
LEMMA PopKeeps ==
  ASSUME IInv, NEW p \in Process, Pop(p)
  PROVE  IInv'
<1> USE DEF IInv, Types
<1>1. /\ set[p].at = "committed" /\ cache' = [cache EXCEPT ![p] = {}]
      /\ set' = [set EXCEPT ![p].at = "popped"]
      /\ UNCHANGED <<row, get, mail, listening>>
  BY DEF Pop
<1>2. /\ set' \in [Process -> Job \cup {Idle}]
      /\ set'[p].at = "popped"
      /\ \A q \in Process \ {p} : set'[q] = set[q]
  BY <1>1 DEF Job, Idle
<1>3. Types' /\ ReadsKnow'
  BY <1>1, <1>2 DEF AtMostOne, ReadsKnow, Stale
<1>4. OneHoldsTheRow'
  BY <1>2 DEF OneHoldsTheRow
<1>5. EntriesAreExcused'
  <2>1. ASSUME NEW q \in Process, NEW e \in cache'[q], Stale(e)'
        PROVE  e.late \/ mail[q] \/ DropIsDue(q)'
    <3>1. q # p /\ e \in cache[q] /\ Stale(e)
      BY <1>1, <2>1 DEF Stale
    <3> QED
      BY <1>2, <3>1 DEF DropIsDue
  <2> QED
    BY <1>1, <2>1 DEF EntriesAreExcused
<1> QED
  BY <1>3, <1>4, <1>5

\* The message goes out: whoever it reaches has mail, and whoever it does not
\* reach has lost a message about the entry.
LEMMA PublishKeeps ==
  ASSUME IInv, NEW p \in Process, NEW R \in SUBSET Listeners, Publish(p, R)
  PROVE  IInv'
<1> USE DEF IInv, Types
<1> DEFINE lost(q) == Missed(cache[q], TRUE)
<1>1. /\ set[p].at = "popped"
      /\ mail' = [q \in Process |-> mail[q] \/ q \in R]
      /\ cache' = [q \in Process |-> IF q \in R \cup {p} THEN cache[q] ELSE lost(q)]
      /\ set' = [set EXCEPT ![p] = Idle] /\ UNCHANGED <<row, get, listening>>
  BY DEF Publish
<1>2. \A q \in Process :
        lost(q) \in SUBSET Entry /\ AtMostOne(lost(q)) /\ \A e \in lost(q) : e.late
  BY LostKeeps
<1> HIDE DEF lost
<1>3. \A q \in R : q \in Process /\ listening[q]
  BY DEF Listeners
<1>4. Types'
  <2>1. cache' \in [Process -> SUBSET Entry] /\ \A q \in Process : AtMostOne(cache'[q])
    BY <1>1, <1>2
  <2>2. set' \in [Process -> Job \cup {Idle}]
    BY <1>1
  <2>3. mail' \in [Process -> BOOLEAN] /\ \A q \in Process : mail'[q] => listening'[q]
    BY <1>1, <1>3
  <2> QED
    BY <1>1, <2>1, <2>2, <2>3
<1>5. ReadsKnow' /\ OneHoldsTheRow'
  BY <1>1 DEF ReadsKnow, Stale, OneHoldsTheRow, Idle
<1>6. EntriesAreExcused'
  <2>1. ASSUME NEW q \in Process, NEW e \in cache'[q], Stale(e)'
        PROVE  e.late \/ mail'[q] \/ DropIsDue(q)'
    <3>1. CASE q \in R
      BY <1>1, <3>1
    <3>2. CASE q \notin R \cup {p}
      BY <1>1, <1>2, <2>1, <3>2
    <3>3. CASE q \notin R /\ q = p
      <4>1. e \in cache[p] /\ Stale(e)
        BY <1>1, <2>1, <3>3 DEF Stale
      <4>2. e.late \/ mail[p] \/ DropIsDue(p)
        BY <4>1 DEF EntriesAreExcused
      <4>3. DropIsDue(p) => DropIsDue(p)'
        BY <1>1 DEF DropIsDue
      <4> QED
        BY <1>1, <3>3, <4>2, <4>3
    <3> QED
      BY <3>1, <3>2, <3>3
  <2> QED
    BY <2>1 DEF EntriesAreExcused
<1> QED
  BY <1>4, <1>5, <1>6

\* The listener drops the entry, or dies beside it.
LEMMA ListenerKeeps ==
  ASSUME IInv, NEW p \in Process, Listen(p) \/ ListenerDies(p)
  PROVE  IInv'
<1> USE DEF IInv, Types
<1> DEFINE lost == Missed(cache[p], TRUE)
<1>1. /\ mail' = [mail EXCEPT ![p] = FALSE]
      /\ \/ cache' = [cache EXCEPT ![p] = {}] /\ listening' = listening
         \/ cache' = [cache EXCEPT ![p] = lost] /\ listening' = [listening EXCEPT ![p] = FALSE]
      /\ UNCHANGED <<row, get, set>>
  BY DEF Listen, ListenerDies
<1>2. lost \in SUBSET Entry /\ AtMostOne(lost) /\ \A e \in lost : e.late
  BY LostKeeps
<1> HIDE DEF lost
<1>3. cache'[p] \in {{}, lost} /\ \A q \in Process \ {p} : cache'[q] = cache[q]
  BY <1>1
<1>4. Types'
  BY <1>1, <1>2, <1>3 DEF AtMostOne
<1>5. ReadsKnow' /\ OneHoldsTheRow'
  BY <1>1 DEF ReadsKnow, Stale, OneHoldsTheRow
<1>6. EntriesAreExcused'
  BY <1>1, <1>2, <1>3 DEF EntriesAreExcused, DropIsDue, Stale
<1> QED
  BY <1>4, <1>5, <1>6

\* A process starts over.  If it had committed and not told, the entries of
\* the others have lost a message.
LEMMA RestartKeeps ==
  ASSUME IInv, NEW p \in Process, Restart(p)
  PROVE  IInv'
<1> USE DEF IInv, Types
<1> DEFINE untold == set[p].at \in {"committed", "popped"}
           lost(q) == Missed(cache[q], untold)
<1>1. /\ listening' = [listening EXCEPT ![p] = TRUE] /\ mail' = [mail EXCEPT ![p] = FALSE]
      /\ get' = [get EXCEPT ![p] = {}] /\ set' = [set EXCEPT ![p] = Idle]
      /\ cache' = [q \in Process |-> IF q = p THEN {} ELSE lost(q)]
      /\ UNCHANGED row
  BY DEF Restart
<1>2. ASSUME NEW q \in Process
      PROVE  /\ lost(q) \in SUBSET Entry /\ AtMostOne(lost(q))
             /\ \A e \in lost(q) : \E o \in cache[q] : e.val = o.val /\ (e.late <=> o.late \/ untold)
  <2>1. untold \in BOOLEAN /\ cache[q] \in SUBSET Entry /\ AtMostOne(cache[q])
    OBVIOUS
  <2> HIDE DEF untold
  <2> QED
    BY <2>1, MarkKeeps
<1> HIDE DEF lost
<1>3. Types'
  <2>1. cache' \in [Process -> SUBSET Entry] /\ \A q \in Process : AtMostOne(cache'[q])
    BY <1>1, <1>2 DEF AtMostOne
  <2>2. get' \in [Process -> SUBSET Entry] /\ \A q \in Process : AtMostOne(get'[q])
    BY <1>1 DEF AtMostOne
  <2> QED
    BY <1>1, <2>1, <2>2
<1>4. ReadsKnow' /\ OneHoldsTheRow'
  BY <1>1 DEF ReadsKnow, Stale, OneHoldsTheRow, Idle
<1>5. EntriesAreExcused'
  <2>1. ASSUME NEW q \in Process, NEW e \in cache'[q], Stale(e)'
        PROVE  e.late \/ mail'[q] \/ DropIsDue(q)'
    <3>1. q # p /\ e \in lost(q)
      BY <1>1, <2>1
    <3>2. PICK o \in cache[q] : e.val = o.val /\ (e.late <=> o.late \/ untold)
      BY <1>2, <3>1
    <3>3. Stale(o)
      BY <1>1, <2>1, <3>2 DEF Stale
    <3>4. o.late \/ mail[q] \/ DropIsDue(q)
      BY <3>3 DEF EntriesAreExcused
    <3>5. mail[q] => mail'[q]
      BY <1>1, <3>1
    <3>6. ~untold /\ DropIsDue(q) => DropIsDue(q)'
      BY <1>1 DEF DropIsDue
    <3> HIDE DEF untold
    <3> QED
      BY <3>2, <3>4, <3>5, <3>6, Zenon
  <2> QED
    BY <2>1 DEF EntriesAreExcused
<1> QED
  BY <1>3, <1>4, <1>5

LEMMA InvStep == IInv /\ [Next]_vars => IInv'
<1> SUFFICES ASSUME IInv, [Next]_vars PROVE IInv'
  OBVIOUS
<1>1. CASE UNCHANGED vars
  BY <1>1 DEF vars, IInv, Types, OneHoldsTheRow, ReadsKnow, EntriesAreExcused, DropIsDue,
              Stale, AtMostOne
<1>2. CASE Next
  BY <1>2, GetKeeps, BeforeCommitKeeps, CommitKeeps, CommitUnansweredKeeps, PopKeeps,
     PublishKeeps, ListenerKeeps, RestartKeeps
  DEF Next
<1> QED
  BY <1>1, <1>2

\* Whatever reads, writes, messages and restarts overlap: one set() at a time
\* holds the row, a process keeps one entry at most, and a stale entry was
\* overtaken, or its change was never told, or it is about to be dropped.
THEOREM CacheAlwaysSound == Spec => []CacheSound
<1>1. Spec => []IInv
  BY InitInv, InvStep, PTL DEF Spec
<1>2. IInv => CacheSound
  <2> SUFFICES ASSUME IInv PROVE CacheSound
    OBVIOUS
  <2> USE DEF IInv, Types
  <2>1. \A p \in Process :
          Cardinality(cache[p]) <= 1 /\ Cardinality(get[p]) <= 1
    BY AtMostOneCounts
  <2>2. \A p \in Process :
          /\ set[p].at \in {"idle", "read", "flushed", "committed", "popped"}
          /\ set[p] # Idle => set[p].val \in Value
    BY DEF Job, Idle
  <2>3. TypeOK
    BY <2>1, <2>2 DEF TypeOK, OneHoldsTheRow
  <2>4. StaleIsExcused
    BY DEF EntriesAreExcused, DropIsDue, StaleIsExcused
  <2> QED
    BY <2>3, <2>4 DEF CacheSound
<1> QED
  BY <1>1, <1>2, PTL

=============================================================================
