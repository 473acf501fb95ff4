-------------------------- MODULE RunEvents_proof ---------------------------
(***************************************************************************)
(* What RunEvents promises the client of the event log, for any number of  *)
(* runs, executions and events and any page size.                          *)
(***************************************************************************)
EXTENDS RunEvents, TLAPS

-----------------------------------------------------------------------------
(* Type correctness.                                                       *)

\* A row that waits for its commit has an id.
InsertedHasId == \A w \in Writer : pc[w] = "inserted" => eventId[w] # NoId

TypeInv == TypeOK /\ InsertedHasId

LEMMA TypeInit == Init => TypeInv
  BY EventsAssumption DEF Init, TypeInv, TypeOK, InsertedHasId, Place, NoId, Entry

\* A step of the log's writers, or of its client, keeps the types.
LEMMA TypeStep == TypeInv /\ [Next]_vars => TypeInv'
<1> SUFFICES ASSUME TypeInv, [Next]_vars PROVE TypeInv'
  OBVIOUS
<1> USE EventsAssumption DEF TypeInv, TypeOK, InsertedHasId, Place, NoId, Entry, clientVars
<1>1. ASSUME NEW w \in Writer, WriterStep(w) PROVE TypeInv'
  <2>1. CASE Start(w)
    BY <2>1 DEF Start
  <2>2. CASE Stop(w)
    BY <2>2 DEF Stop
  <2>3. CASE Insert(w)
    BY <2>3 DEF Insert
  <2>4. CASE Commit(w)
    BY <2>4 DEF Commit
  <2>5. CASE AppendFails(w)
    BY <2>5 DEF AppendFails
  <2>6. CASE Publish(w)
    BY <2>6 DEF Publish
  <2>7. CASE Cancelled(w)
    BY <2>7 DEF Cancelled
  <2> QED
    BY <1>1, <2>1, <2>2, <2>3, <2>4, <2>5, <2>6, <2>7 DEF WriterStep
<1>2. CASE Poll
  <2>1. PICK p \in Page(Since(cursor)) :
          /\ got' = got \cup p
          /\ cursor' \in { e.id : e \in p }
    BY <1>2 DEF Poll
  <2>2. p \subseteq log
    BY <2>1 DEF Page, Since
  <2> QED
    BY <1>2, <2>1, <2>2 DEF Poll
<1>3. CASE UNCHANGED vars
  BY <1>3 DEF vars
<1> QED
  BY <1>1, <1>2, <1>3 DEF Next

\* Every value that RunEvents keeps is of its type, in every reachable state.
THEOREM TypeCorrect == Spec => []TypeOK
<1>1. Spec => []TypeInv
  BY TypeInit, TypeStep, PTL DEF Spec
<1>2. TypeInv => TypeOK
  BY DEF TypeInv
<1> QED
  BY <1>1, <1>2, PTL

-----------------------------------------------------------------------------
(* Nothing is missed.  The client is safe if a row that is committed later *)
(* has a larger id than every row of its run that is committed already:    *)
(* ids are drawn in order, and as a run has one writer at a time, no other *)
(* row of the run is committed between an insert and its commit.           *)

Alone ==
  \A v, w \in Writer : RunOf[v] = RunOf[w] /\ Live(v) /\ Live(w) => v = w

IdsGivenOut ==
  /\ \A e \in log : e.id <= lastId
  /\ \A w \in Writer : eventId[w] <= lastId

InsertedIsNewest ==
  \A w \in Writer :
    pc[w] = "inserted" => \A e \in log : e.run = RunOf[w] => e.id < eventId[w]

PublishedIsCommitted ==
  \A w \in Writer :
    pc[w] = "publishing" /\ eventId[w] # NoId
      => [id |-> eventId[w], run |-> RunOf[w]] \in log

CursorIsCommitted ==
  cursor = 0 \/ \E e \in log : e.run = followed /\ e.id = cursor

Inv ==
  /\ TypeInv
  /\ Alone /\ IdsGivenOut /\ InsertedIsNewest /\ PublishedIsCommitted
  /\ CursorIsCommitted
  /\ NothingMissed /\ BroadcastIsBase

LEMMA InvInit == Init => Inv
<1> SUFFICES ASSUME Init PROVE Inv
  OBVIOUS
<1>1. TypeInv
  BY TypeInit
<1> QED
  BY <1>1, EventsAssumption
  DEF Init, Inv, Alone, Live, IdsGivenOut, InsertedIsNewest, PublishedIsCommitted,
      CursorIsCommitted, NothingMissed, BroadcastIsBase, NoId

\* The commit of the newest row of a run: neither the client that follows the
\* run nor a message on its channel is ahead of it.
LEMMA CommitKeeps ==
  ASSUME Inv, NEW w \in Writer, pc[w] = "inserted",
         log' = log \cup {[id |-> eventId[w], run |-> RunOf[w]]},
         UNCHANGED <<cursor, got>>
  PROVE  NothingMissed' /\ CursorIsCommitted'
<1> DEFINE row == [id |-> eventId[w], run |-> RunOf[w]]
<1>1. eventId[w] \in Nat \ {0} /\ cursor \in Nat /\ log \subseteq Entry
  BY DEF Inv, TypeInv, TypeOK, InsertedHasId, NoId
<1>2. ASSUME RunOf[w] = followed PROVE eventId[w] > cursor
  BY <1>1, <1>2 DEF Inv, CursorIsCommitted, InsertedIsNewest, Entry
<1>3. ~(row.run = followed /\ row.id <= cursor)
  BY <1>1, <1>2
<1>4. { e \in log' : e.run = followed /\ e.id <= cursor } =
        { e \in log : e.run = followed /\ e.id <= cursor }
  BY <1>3
<1>5. NothingMissed'
  BY <1>4 DEF Inv, NothingMissed
<1> QED
  BY <1>5 DEF Inv, CursorIsCommitted

LEMMA InvStep == ~Overlap /\ Inv /\ [Next]_vars => Inv'
<1> SUFFICES ASSUME ~Overlap, Inv, [Next]_vars PROVE Inv'
  OBVIOUS
<1>1. TypeInv /\ TypeInv'
  BY TypeStep DEF Inv
<1>2. /\ lastId \in Nat /\ heard \in Nat /\ cursor \in Nat
      /\ log \subseteq Entry
      /\ eventId \in [Writer -> Nat] /\ pc \in [Writer -> Place]
      /\ \A w \in Writer : pc[w] = "inserted" => eventId[w] # 0
  BY <1>1 DEF TypeInv, TypeOK, InsertedHasId, NoId
<1> USE DEF Live, NoId, clientVars
<1>3. ASSUME NEW w \in Writer, Start(w) PROVE Inv'
  <2>1. Alone'
    BY <1>3, <1>2 DEF Inv, Alone, Start
  <2>2. IdsGivenOut' /\ InsertedIsNewest' /\ PublishedIsCommitted'
    BY <1>3, <1>2 DEF Inv, IdsGivenOut, InsertedIsNewest, PublishedIsCommitted, Start
  <2>3. CursorIsCommitted' /\ NothingMissed' /\ BroadcastIsBase'
    BY <1>3, <1>2 DEF Inv, CursorIsCommitted, NothingMissed, BroadcastIsBase, Start
  <2> QED
    BY <1>1, <2>1, <2>2, <2>3 DEF Inv
<1>4. ASSUME NEW w \in Writer, Stop(w) PROVE Inv'
  <2>1. Alone'
    BY <1>4, <1>2 DEF Inv, Alone, Stop
  <2>2. IdsGivenOut' /\ InsertedIsNewest' /\ PublishedIsCommitted'
    BY <1>4, <1>2 DEF Inv, IdsGivenOut, InsertedIsNewest, PublishedIsCommitted, Stop
  <2>3. CursorIsCommitted' /\ NothingMissed' /\ BroadcastIsBase'
    BY <1>4, <1>2 DEF Inv, CursorIsCommitted, NothingMissed, BroadcastIsBase, Stop
  <2> QED
    BY <1>1, <2>1, <2>2, <2>3 DEF Inv
<1>5. ASSUME NEW w \in Writer, Insert(w) PROVE Inv'
  <2>1. Alone'
    BY <1>5, <1>2 DEF Inv, Alone, Insert
  <2>2. IdsGivenOut'
    BY <1>5, <1>2 DEF Inv, IdsGivenOut, Insert, Entry
  <2>3. InsertedIsNewest'
    BY <1>5, <1>2 DEF Inv, IdsGivenOut, InsertedIsNewest, Insert, Entry
  <2>4. PublishedIsCommitted' /\ CursorIsCommitted' /\ NothingMissed'
    BY <1>5, <1>2
    DEF Inv, PublishedIsCommitted, CursorIsCommitted, NothingMissed, Insert
  <2>5. BroadcastIsBase'
    <3>1. heard # NoId => heard <= lastId
      BY DEF Inv, BroadcastIsBase, IdsGivenOut
    <3> QED
      BY <1>5, <1>2, <3>1 DEF Inv, BroadcastIsBase, Insert
  <2> QED
    BY <1>1, <2>1, <2>2, <2>3, <2>4, <2>5 DEF Inv
<1>6. ASSUME NEW w \in Writer, pc[w] = "inserted",
             log' = log \cup {[id |-> eventId[w], run |-> RunOf[w]]},
             Commit(w) \/ AppendFails(w) \/ Cancelled(w)
      PROVE  Inv'
  <2>1. /\ pc' \in { [pc EXCEPT ![w] = "publishing"], [pc EXCEPT ![w] = "ready"] }
        /\ eventId' = eventId \/ eventId' = [eventId EXCEPT ![w] = 0]
        /\ UNCHANGED <<lastId, heard, cursor, got>>
    BY <1>6 DEF Commit, AppendFails, Cancelled
  <2>2. Alone'
    BY <1>6, <2>1, <1>2 DEF Inv, Alone
  <2>3. IdsGivenOut'
    BY <1>6, <2>1, <1>2 DEF Inv, IdsGivenOut
  <2>4. InsertedIsNewest'
    <3> SUFFICES ASSUME NEW v \in Writer, pc'[v] = "inserted",
                        NEW e \in log', e.run = RunOf[v]
                 PROVE  e.id < eventId'[v]
      BY DEF InsertedIsNewest
    <3>1. v # w /\ pc[v] = "inserted" /\ eventId'[v] = eventId[v]
      BY <2>1, <1>2
    <3>2. RunOf[v] # RunOf[w]
      BY <1>6, <3>1 DEF Inv, Alone
    <3>3. e \in log
      BY <1>6, <3>2
    <3> QED
      BY <3>1, <3>3 DEF Inv, InsertedIsNewest
  <2>5. PublishedIsCommitted'
    BY <1>6, <2>1, <1>2 DEF Inv, PublishedIsCommitted
  <2>6. CursorIsCommitted' /\ NothingMissed'
    BY <1>6, <2>1, CommitKeeps
  <2>7. BroadcastIsBase'
    BY <1>6, <2>1, <1>2 DEF Inv, BroadcastIsBase
  <2> QED
    BY <1>1, <2>2, <2>3, <2>4, <2>5, <2>6, <2>7 DEF Inv
<1>7. ASSUME NEW w \in Writer, UNCHANGED log, AppendFails(w) \/ Cancelled(w)
      PROVE  Inv'
  <2>1. /\ Live(w)
        /\ pc' \in { [pc EXCEPT ![w] = "publishing"], [pc EXCEPT ![w] = "ready"] }
        /\ eventId' = [eventId EXCEPT ![w] = 0]
        /\ UNCHANGED <<lastId, heard, cursor, got>>
    BY <1>7 DEF AppendFails, Cancelled
  <2>2. Alone'
    BY <2>1, <1>2 DEF Inv, Alone
  <2>3. IdsGivenOut' /\ InsertedIsNewest' /\ PublishedIsCommitted'
    BY <1>7, <2>1, <1>2 DEF Inv, IdsGivenOut, InsertedIsNewest, PublishedIsCommitted
  <2>4. CursorIsCommitted' /\ NothingMissed' /\ BroadcastIsBase'
    BY <1>7, <2>1, <1>2 DEF Inv, CursorIsCommitted, NothingMissed, BroadcastIsBase
  <2> QED
    BY <1>1, <2>2, <2>3, <2>4 DEF Inv
<1>8. ASSUME NEW w \in Writer, Publish(w) PROVE Inv'
  <2>1. Alone'
    BY <1>8, <1>2 DEF Inv, Alone, Publish
  <2>2. IdsGivenOut' /\ InsertedIsNewest' /\ PublishedIsCommitted'
    BY <1>8, <1>2 DEF Inv, IdsGivenOut, InsertedIsNewest, PublishedIsCommitted, Publish
  <2>3. CursorIsCommitted' /\ NothingMissed'
    BY <1>8, <1>2 DEF Inv, CursorIsCommitted, NothingMissed, Publish
  <2>4. BroadcastIsBase'
    <3>1. CASE UNCHANGED heard
      BY <1>8, <3>1, <1>2 DEF Inv, BroadcastIsBase, Publish
    <3>2. CASE RunOf[w] = followed /\ heard' = eventId[w]
      <4>1. ASSUME NEW v \in Writer, RunOf[v] = followed PROVE pc'[v] # "inserted"
        BY <1>8, <3>2, <4>1, <1>2 DEF Inv, Alone, Publish
      <4>2. heard' # NoId => [id |-> heard', run |-> followed] \in log'
        BY <1>8, <3>2 DEF Inv, PublishedIsCommitted, Publish
      <4> QED
        BY <4>1, <4>2 DEF BroadcastIsBase
    <3> QED
      BY <1>8, <3>1, <3>2 DEF Publish
  <2> QED
    BY <1>1, <2>1, <2>2, <2>3, <2>4 DEF Inv
<1>9. CASE Poll
  <2>1. PICK p \in Page(Since(cursor)) :
          /\ got' = got \cup p
          /\ cursor' \in { e.id : e \in p }
          /\ \A e \in p : e.id <= cursor'
          /\ UNCHANGED <<lastId, log, pc, eventId, emitted, heard>>
    BY <1>9 DEF Poll
  <2>2. /\ \A e \in p : e \in log /\ e.run = followed /\ e.id > cursor
        /\ \A e \in p, f \in Since(cursor) \ p : e.id < f.id
    BY <2>1 DEF Page, Since
  <2>3. PICK last \in p : cursor' = last.id
    BY <2>1
  <2>4. CursorIsCommitted'
    BY <2>1, <2>2, <2>3 DEF CursorIsCommitted
  <2>5. NothingMissed'
    <3>1. ASSUME NEW e \in log, e.run = followed
          PROVE  e \in got \cup p <=> e.id <= cursor'
      <4>1. e.id \in Nat /\ last.id \in Nat
        BY <1>2, <2>2 DEF Entry
      <4>2. CASE e.id <= cursor
        BY <3>1, <4>1, <4>2, <2>2, <2>3, <1>2 DEF Inv, NothingMissed
      <4>3. CASE e.id > cursor
        <5>1. e \in Since(cursor) /\ e \notin got
          BY <3>1, <4>1, <4>3, <1>2 DEF Since, Inv, NothingMissed
        <5>2. CASE e \in p
          BY <5>2, <2>1
        <5>3. CASE e \notin p
          BY <5>1, <5>3, <2>2, <2>3, <4>1
        <5> QED
          BY <5>2, <5>3
      <4> QED
        BY <4>1, <4>2, <4>3, <1>2
    <3>2. ASSUME NEW e \in got \cup p PROVE e \in log /\ e.run = followed
      BY <2>2 DEF Inv, NothingMissed
    <3> QED
      BY <2>1, <3>1, <3>2 DEF NothingMissed
  <2>6. Alone' /\ IdsGivenOut' /\ InsertedIsNewest' /\ PublishedIsCommitted'
    BY <2>1 DEF Inv, Alone, IdsGivenOut, InsertedIsNewest, PublishedIsCommitted
  <2>7. BroadcastIsBase'
    BY <2>1 DEF Inv, BroadcastIsBase
  <2> QED
    BY <1>1, <2>4, <2>5, <2>6, <2>7 DEF Inv
<1>10. CASE UNCHANGED vars
  BY <1>10, <1>1
  DEF vars, Inv, Alone, IdsGivenOut, InsertedIsNewest, PublishedIsCommitted,
      CursorIsCommitted, NothingMissed, BroadcastIsBase
<1>11. ASSUME NEW w \in Writer, Commit(w) \/ AppendFails(w) \/ Cancelled(w) PROVE Inv'
  <2>1. \/ /\ pc[w] = "inserted"
           /\ log' = log \cup {[id |-> eventId[w], run |-> RunOf[w]]}
        \/ /\ UNCHANGED log
           /\ AppendFails(w) \/ Cancelled(w)
    BY <1>11 DEF Commit, AppendFails, Cancelled
  <2> QED
    BY <1>11, <2>1, <1>6, <1>7
<1> QED
  BY <1>3, <1>4, <1>5, <1>8, <1>9, <1>10, <1>11 DEF Next, WriterStep

LEMMA InvAlways == ASSUME ~Overlap PROVE Spec => []Inv
<1>1. Inv /\ [Next]_vars => Inv'
  BY InvStep
<1> QED
  BY InvInit, <1>1, PTL DEF Spec

\* If a run has one execution at a time, a client that resumes after the last
\* id it has seen has missed nothing, whatever fails, is cancelled or dies.
THEOREM NothingIsMissed == ~Overlap => (Spec => []NothingMissed)
<1> SUFFICES ASSUME ~Overlap PROVE Spec => []NothingMissed
  OBVIOUS
<1>1. Inv => NothingMissed
  BY DEF Inv
<1> QED
  BY InvAlways, <1>1, PTL

\* And it may resume after any id it has heard on the channel of the run.
THEOREM BroadcastIsAlwaysBase == ~Overlap => (Spec => []BroadcastIsBase)
<1> SUFFICES ASSUME ~Overlap PROVE Spec => []BroadcastIsBase
  OBVIOUS
<1>1. Inv => BroadcastIsBase
  BY DEF Inv
<1> QED
  BY InvAlways, <1>1, PTL
=============================================================================
