----------------------------- MODULE AppSettings -----------------------------
(***************************************************************************)
(* One setting of t_app_setting as SettingsService serves it: processes    *)
(* keep what they have read for ten seconds, a set() commits, drops the    *)
(* local entry and tells the other processes over Redis, which may lose    *)
(* the message.  Nothing orders a get() and a set() that overlap.          *)
(***************************************************************************)
EXTENDS Naturals, FiniteSets

CONSTANTS
  Process,  \* pods
  Value,    \* of the setting, and defaults that callers of get() name
  NoRow     \* the setting has no row yet

ASSUME SettingsAssumption == NoRow \notin Value

VARIABLES
  row,        \* the committed value, or NoRow
  cache,      \* cache[p]: _cache, at most one entry
  get,        \* get[p]: the values that reads under way have seen
  set,        \* set[p]: the set() under way in a process
  mail,       \* mail[p]: a message of the channel is waiting for its listener
  listening   \* listening[p]: the listener task is alive

vars == <<row, cache, get, set, mail, listening>>

\* history: the read of an entry that is "late" was overtaken by a commit, or a
\* message about the entry was lost, or never sent since the set() failed although
\* its commit took effect.
Entry == [val : Value, late : BOOLEAN]

Idle == [at |-> "idle"]

Init ==
  /\ row = NoRow
  /\ cache = [p \in Process |-> {}]
  /\ get = [p \in Process |-> {}]
  /\ set = [p \in Process |-> Idle]
  /\ mail = [p \in Process |-> FALSE]
  /\ listening \in [Process -> BOOLEAN]

-----------------------------------------------------------------------------
(* get                                                                     *)

\* No entry: the row is read; a setting without one has the caller's default.
Read(p, d) ==
  /\ cache[p] = {}
  /\ get[p] = {}
  /\ get' = [get EXCEPT ![p] = {[val |-> IF row = NoRow THEN d ELSE row, late |-> FALSE]}]
  /\ UNCHANGED <<row, cache, set, mail, listening>>

\* The answer is cached, whatever was written since.
Fill(p) ==
  /\ get[p] # {}
  /\ cache' = [cache EXCEPT ![p] = get[p]]
  /\ get' = [get EXCEPT ![p] = {}]
  /\ UNCHANGED <<row, set, mail, listening>>

\* Slip: an entry is never too old.
SlipExpire(p) == cache[p] # {} /\ UNCHANGED vars

\* TTL seconds later the entry is not used any more.
Expire(p) ==
  /\ cache[p] # {}
  /\ cache' = [cache EXCEPT ![p] = {}]
  /\ UNCHANGED <<row, get, set, mail, listening>>

-----------------------------------------------------------------------------
(* set                                                                     *)

\* The repository looks for the row, and inserts or changes it.
Begin(p, v) ==
  /\ set[p] = Idle
  /\ set' = [set EXCEPT ![p] = [at |-> "read", val |-> v, new |-> row = NoRow]]
  /\ UNCHANGED <<row, cache, get, mail, listening>>

\* One transaction at a time holds the row, or its key.
Locked(p) == \E q \in Process \ {p} : set[q].at = "flushed"

Flush(p) ==
  /\ set[p].at = "read"
  /\ ~Locked(p)
  /\ ~(set[p].new /\ row # NoRow)
  /\ set' = [set EXCEPT ![p].at = "flushed"]
  /\ UNCHANGED <<row, cache, get, mail, listening>>

\* IntegrityError on the key, or a failure of the database: nothing is written.
Fail(p) ==
  /\ set[p].at \in {"read", "flushed"}
  /\ set' = [set EXCEPT ![p] = Idle]
  /\ UNCHANGED <<row, cache, get, mail, listening>>

Late(es, v) == {[e EXCEPT !.late = @ \/ e.val # v] : e \in es}

Commit(p) ==
  /\ set[p].at = "flushed"
  /\ row' = set[p].val
  /\ get' = [q \in Process |-> Late(get[q], set[p].val)]
  /\ set' = [set EXCEPT ![p].at = "committed"]
  /\ UNCHANGED <<cache, mail, listening>>

Missed(es, b) == {[e EXCEPT !.late = @ \/ b] : e \in es}

\* The commit takes effect and its answer is lost: session_scope raises, so that
\* set() neither drops the local entry nor tells anybody.
CommitUnanswered(p) ==
  /\ set[p].at = "flushed"
  /\ row' = set[p].val
  /\ get' = [q \in Process |-> Late(get[q], set[p].val)]
  /\ cache' = [q \in Process |-> Late(cache[q], set[p].val)]
  /\ set' = [set EXCEPT ![p] = Idle]
  /\ UNCHANGED <<mail, listening>>

\* Slip: only the other processes are told.
SlipPop(p) ==
  /\ set[p].at = "committed"
  /\ set' = [set EXCEPT ![p].at = "popped"]
  /\ UNCHANGED <<row, cache, get, mail, listening>>

\* Then the local entry goes,
Pop(p) ==
  /\ set[p].at = "committed"
  /\ cache' = [cache EXCEPT ![p] = {}]
  /\ set' = [set EXCEPT ![p].at = "popped"]
  /\ UNCHANGED <<row, get, mail, listening>>

\* and the message is published: to those of the listeners it reaches.
Publish(p, R) ==
  /\ set[p].at = "popped"
  /\ mail' = [q \in Process |-> mail[q] \/ q \in R]
  /\ cache' = [q \in Process |-> IF q \in R \cup {p} THEN cache[q]
                                 ELSE Missed(cache[q], TRUE)]
  /\ set' = [set EXCEPT ![p] = Idle]
  /\ UNCHANGED <<row, get, listening>>

-----------------------------------------------------------------------------
(* The listener, and crashes                                               *)

Listen(p) ==
  /\ mail[p]
  /\ listening[p]
  /\ mail' = [mail EXCEPT ![p] = FALSE]
  /\ cache' = [cache EXCEPT ![p] = {}]
  /\ UNCHANGED <<row, get, set, listening>>

\* An exception ends _listen, and nothing starts it again.
ListenerDies(p) ==
  /\ listening[p]
  /\ listening' = [listening EXCEPT ![p] = FALSE]
  /\ mail' = [mail EXCEPT ![p] = FALSE]
  /\ cache' = [cache EXCEPT ![p] = Missed(@, TRUE)]
  /\ UNCHANGED <<row, get, set>>

\* A process starts over; what it had committed but not told is lost.
Restart(p) ==
  /\ listening' = [listening EXCEPT ![p] = TRUE]
  /\ mail' = [mail EXCEPT ![p] = FALSE]
  /\ get' = [get EXCEPT ![p] = {}]
  /\ set' = [set EXCEPT ![p] = Idle]
  /\ cache' = [q \in Process |->
                 IF q = p THEN {}
                 ELSE Missed(cache[q], set[p].at \in {"committed", "popped"})]
  /\ UNCHANGED row

-----------------------------------------------------------------------------
Listeners == {q \in Process : listening[q]}

Next ==
  \E p \in Process :
    \/ \E v \in Value : Read(p, v) \/ Begin(p, v)
    \/ Fill(p) \/ Expire(p)
    \/ Flush(p) \/ Fail(p) \/ Commit(p) \/ CommitUnanswered(p) \/ Pop(p)
    \/ \E R \in SUBSET Listeners : Publish(p, R)
    \/ Listen(p) \/ ListenerDies(p) \/ Restart(p)

Writing(p) ==
  \/ Flush(p) \/ Fail(p) \/ Commit(p) \/ CommitUnanswered(p) \/ Pop(p)
  \/ \E R \in SUBSET Listeners : Publish(p, R)

\* Reads and writes get on, time passes.  Nothing is assumed of the messages.
Fairness ==
  \A p \in Process :
    /\ WF_vars(Fill(p))
    /\ WF_vars(Expire(p))
    /\ WF_vars(Writing(p))

Spec == Init /\ [][Next]_vars /\ Fairness

-----------------------------------------------------------------------------
(* Properties                                                              *)

\* The variables have their types; one process holds the row's lock.
TypeOK ==
  /\ row \in Value \cup {NoRow}
  /\ \A p \in Process : /\ \A c \in {cache[p], get[p]} : c \subseteq Entry /\ Cardinality(c) <= 1
                        /\ set[p].at \in {"idle", "read", "flushed", "committed", "popped"}
                        /\ set[p] # Idle => set[p].val \in Value
                        /\ mail[p] => listening[p]
  /\ \A p, q \in Process : set[p].at = "flushed" /\ set[q].at = "flushed" => p = q

\* "set writes the database and publishes, so that every instance drops its
\* entry": an entry that differs from the row is about to be dropped, unless
\* its read was overtaken, the message was lost, or the set() that changed the
\* row failed at its commit and told nobody.
Stale(e) == row # NoRow /\ e.val # row

StaleIsExcused ==
  \A p \in Process : \A e \in cache[p] :
    Stale(e) => \/ e.late
                \/ mail[p]
                \/ \E q \in Process : set[q].at \in {"committed", "popped"}

\* One setter at a time holds the row, and no cache is stale without an excuse.
CacheSound == TypeOK /\ StaleIsExcused

\* Once nobody sets the setting any more, every process comes to answer with the
\* row, whatever was lost, overtaken or restarted.
Converges ==
  <>[](\A p \in Process : set[p] = Idle) => <>[](\A p \in Process : \A e \in cache[p] : ~Stale(e))

=============================================================================
