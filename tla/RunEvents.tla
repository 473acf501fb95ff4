----------------------------- MODULE RunEvents ------------------------------
(***************************************************************************)
(* The event log of the runs: RunEventBus.emit writes an event to          *)
(* t_run_event_log and then broadcasts it with the id it was given there;  *)
(* GET /api/runs/{id}/events?after_id=N reads the log a page at a time, so *)
(* that a client that lost its connection can go on after the last id it   *)
(* has seen.  All runs draw their ids from one AUTO_INCREMENT column: an   *)
(* id is given out at flush, its row becomes visible at commit.            *)
(*                                                                         *)
(* A Writer is one execution of a run; RunOf says of which.  It awaits     *)
(* every emit before the next.  The writers of a run follow each other,    *)
(* or, if Overlap holds, a run may be delivered to a second pod while the  *)
(* first still works on it.  An event is its id: what it says is left out. *)
(* One client follows one run; the runs it does not follow use up ids.     *)
(***************************************************************************)
EXTENDS Naturals, FiniteSets

CONSTANTS
  Run,
  Writer,
  RunOf,      \* the run that a writer executes
  followed,   \* the run that the client follows
  Overlap,    \* two executions of one run may be under way at once
  DbFaults,   \* an append may fail, at flush or at commit
  MaxEvents,  \* bound: the events of each writer
  Limit       \* rows of a page: the query parameter `limit`

ASSUME EventsAssumption ==
  /\ RunOf \in [Writer -> Run]
  /\ followed \in Run
  /\ Overlap \in BOOLEAN
  /\ DbFaults \in BOOLEAN
  /\ MaxEvents \in [Writer -> Nat]
  /\ Limit \in Nat \ {0}

NoId == 0  \* emit has no id to broadcast; AUTO_INCREMENT starts at 1

VARIABLES
  lastId,     \* AUTO_INCREMENT of t_run_event_log
  log,        \* its committed rows
  pc,         \* pc[w]: where w stands
  eventId,    \* eventId[w]: the id that w's emit was given
  emitted,    \* emitted[w]: events that w has emitted
  heard,      \* the id in the last message on the channel of the run followed
  cursor,     \* after_id: the last id the client has seen
  got         \* the rows it was sent

vars == <<lastId, log, pc, eventId, emitted, heard, cursor, got>>
clientVars == <<cursor, got>>

Entry == [id : Nat \ {NoId}, run : Run]
Place == {"absent", "ready", "inserted", "publishing", "over"}

Live(w) == pc[w] \in {"ready", "inserted", "publishing"}

Init ==
  /\ lastId = 0
  /\ log = {}
  /\ pc = [w \in Writer |-> "absent"]
  /\ eventId = [w \in Writer |-> NoId]
  /\ emitted = [w \in Writer |-> 0]
  /\ heard = NoId
  /\ cursor = 0
  /\ got = {}

-----------------------------------------------------------------------------
(* The executions of the runs, external but for the order of their emits.  *)

\* A run is delivered to a pod.
Start(w) ==
  /\ pc[w] = "absent"
  /\ Overlap \/ \A v \in Writer : RunOf[v] = RunOf[w] => ~Live(v)
  /\ pc' = [pc EXCEPT ![w] = "ready"]
  /\ UNCHANGED <<lastId, log, eventId, emitted, heard, clientVars>>

\* The execution ends or its pod dies; a row not yet committed is rolled back.
Stop(w) ==
  /\ Live(w)
  /\ pc' = [pc EXCEPT ![w] = "over"]
  /\ eventId' = [eventId EXCEPT ![w] = NoId]
  /\ UNCHANGED <<lastId, log, emitted, heard, clientVars>>

-----------------------------------------------------------------------------
(* emit, in the steps in which others see it.                              *)

\* append: INSERT and flush, which tells the id.
Insert(w) ==
  /\ pc[w] = "ready"
  /\ emitted[w] < MaxEvents[w]
  /\ lastId' = lastId + 1
  /\ eventId' = [eventId EXCEPT ![w] = lastId + 1]
  /\ emitted' = [emitted EXCEPT ![w] = @ + 1]
  /\ pc' = [pc EXCEPT ![w] = "inserted"]
  /\ UNCHANGED <<log, heard, clientVars>>

\* append: the commit of session_scope makes the row visible.
Commit(w) ==
  /\ pc[w] = "inserted"
  /\ log' = log \cup {[id |-> eventId[w], run |-> RunOf[w]]}
  /\ pc' = [pc EXCEPT ![w] = "publishing"]
  /\ UNCHANGED <<lastId, eventId, emitted, heard, clientVars>>

\* append raises and emit goes on without an id.  If the connection is lost
\* at the commit, the row may be there all the same.
AppendFails(w) ==
  /\ DbFaults
  /\ \/ /\ pc[w] = "ready"
        /\ emitted[w] < MaxEvents[w]
        /\ emitted' = [emitted EXCEPT ![w] = @ + 1]
        /\ UNCHANGED log
     \/ /\ pc[w] = "inserted"
        /\ log' \in {log, log \cup {[id |-> eventId[w], run |-> RunOf[w]]}}
        /\ UNCHANGED emitted
  /\ eventId' = [eventId EXCEPT ![w] = NoId]
  /\ pc' = [pc EXCEPT ![w] = "publishing"]
  /\ UNCHANGED <<lastId, heard, clientVars>>

\* Slip: broadcast first, commit afterwards.
SlipPublish(w) ==
  /\ RunOf[w] = followed
  /\ pc[w] = "inserted" /\ heard # eventId[w]
  /\ heard' = eventId[w]
  /\ UNCHANGED <<lastId, log, pc, eventId, emitted, clientVars>>

\* PUBLISH, or it fails, or it takes more than 2 s and may or may not have
\* reached the channel.
Publish(w) ==
  /\ pc[w] = "publishing"
  /\ \/ UNCHANGED heard
     \/ RunOf[w] = followed /\ heard' = eventId[w]
  /\ eventId' = [eventId EXCEPT ![w] = NoId]
  /\ pc' = [pc EXCEPT ![w] = "ready"]
  /\ UNCHANGED <<lastId, log, emitted, clientVars>>

\* run() or its pipeline is cancelled while it awaits the append: no except
\* clause of emit or session_scope takes a CancelledError, the session is
\* closed with its transaction undone or, if the COMMIT was sent, done, and
\* the execution goes on to the events of its except branches.
Cancelled(w) ==
  /\ pc[w] = "inserted"
  /\ log' \in {log, log \cup {[id |-> eventId[w], run |-> RunOf[w]]}}
  /\ eventId' = [eventId EXCEPT ![w] = NoId]
  /\ pc' = [pc EXCEPT ![w] = "ready"]
  /\ UNCHANGED <<lastId, emitted, heard, clientVars>>

-----------------------------------------------------------------------------
(* The client: GET /events with the last id it has seen.                   *)

\* Slip: after_id is taken for the first row that is not wanted any more.
SlipSince(id) == { e \in log : e.run = followed /\ e.id > id + 1 }

\* list_since: rows of the run after the id.
Since(id) == { e \in log : e.run = followed /\ e.id > id }

\* Slip: LIMIT without ORDER BY.
SlipPage(rows) ==
  { p \in SUBSET rows :
      Cardinality(p) <= Limit /\ (p = rows \/ Cardinality(p) = Limit) }

\* ORDER BY id LIMIT limit.
Page(rows) ==
  { p \in SUBSET rows :
      /\ \A e \in p, f \in rows \ p : e.id < f.id
      /\ Cardinality(p) <= Limit
      /\ p = rows \/ Cardinality(p) = Limit }

Poll ==
  \E p \in Page(Since(cursor)) :
    /\ got' = got \cup p
    /\ cursor' \in { e.id : e \in p }
    /\ \A e \in p : e.id <= cursor'
    /\ UNCHANGED <<lastId, log, pc, eventId, emitted, heard>>

-----------------------------------------------------------------------------
WriterStep(w) ==
  \/ Start(w) \/ Stop(w)
  \/ Insert(w) \/ Commit(w) \/ AppendFails(w) \/ Publish(w) \/ Cancelled(w)

Next ==
  \/ \E w \in Writer : WriterStep(w)
  \/ Poll

Spec == Init /\ [][Next]_vars

\* The client goes on asking.
FairSpec == Spec /\ WF_vars(Poll)

-----------------------------------------------------------------------------
TypeOK ==
  /\ lastId \in Nat
  /\ log \in SUBSET Entry
  /\ pc \in [Writer -> Place]
  /\ eventId \in [Writer -> Nat]
  /\ emitted \in [Writer -> Nat] /\ \A w \in Writer : emitted[w] <= MaxEvents[w]
  /\ heard \in Nat
  /\ cursor \in Nat
  /\ got \in SUBSET Entry

\* A client that resumes after the last id it has seen has missed nothing up
\* to there: no row with a smaller id turns up behind it, whatever ids other
\* runs use up and roll back.  (~Overlap; event_log_repo.py:68-85.)
NothingMissed == got = { e \in log : e.run = followed /\ e.id <= cursor }

\* The id of a broadcast message is a base to resume from: its row is
\* committed, and no event of the run with a smaller id is still to be
\* committed.  (~Overlap; events.py:118-119.)
BroadcastIsBase ==
  heard # NoId =>
    /\ [id |-> heard, run |-> followed] \in log
    /\ \A w \in Writer :
         RunOf[w] = followed /\ pc[w] = "inserted" => eventId[w] > heard

\* A client that goes on asking is sent every committed event, however small
\* its pages.  (~Overlap; under FairSpec.)
ClientCatchesUp == []<>(\A e \in log : e.run = followed => e \in got)
=============================================================================
