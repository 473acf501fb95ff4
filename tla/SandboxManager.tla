--------------------------- MODULE SandboxManager ---------------------------
(***************************************************************************)
(* The sandbox workers, as the SandboxManager of each process sees them:   *)
(* which are healthy, which one a run is bound to (in the process, and in  *)
(* Redis for all), the SSH connection to each (one stands for the pool of  *)
(* an SSHWorker), and the commands of runs.  A process runs one command of *)
(* a run at a time; two processes may have the same run, after a           *)
(* redelivery.                                                             *)
(***************************************************************************)
EXTENDS Naturals, FiniteSets

CONSTANTS
  Process, Run, Worker,
  None,       \* no worker
  MaxOutages  \* bound: times that a worker goes down

ASSUME SandboxAssumption == None \notin Worker /\ MaxOutages \in Nat

VARIABLES
  up,        \* workers that answer
  outages,   \* how often one went down so far
  healthy,   \* healthy[p]: _healthy
  checking,  \* processes that run the health loop
  conn,      \* conn[p][w]: "none", "live", "dead", or "trusted": dead, but used
             \* within the last 30 seconds
  sessions,  \* sessions[p][r]: _sessions, None for no entry
  bound,     \* bound[r]: the key in Redis, None for no key
  call,      \* call[p][r]: the command under way
  ran,       \* history: the workers that commands of a run went to
  moved      \* history: why a run may have changed its worker

workers == <<up, outages, healthy, checking, conn>>
vars == <<workers, sessions, bound, call, ran, moved>>

Idle == [at |-> "idle", on |-> None]

-----------------------------------------------------------------------------
(* Start and end of a process                                              *)

\* What init makes of the workers that can be reached: connections to them,
\* and a health loop, but only if there is one.
Connected(S)   == [w \in Worker |-> IF w \in S THEN "live" ELSE "none"]
HasLoop(p, S)  == IF S = {} THEN {} ELSE {p}
Closed         == Connected({})

Init ==
  /\ up \in SUBSET Worker
  /\ outages = 0
  /\ healthy = [p \in Process |-> up]
  /\ checking = UNION {HasLoop(p, up) : p \in Process}
  /\ conn = [p \in Process |-> Connected(up)]
  /\ sessions = [p \in Process |-> [r \in Run |-> None]]
  /\ bound = [r \in Run |-> None]
  /\ call = [p \in Process |-> [r \in Run |-> Idle]]
  /\ ran = [r \in Run |-> {}]
  /\ moved = [r \in Run |-> FALSE]

\* Nothing runs: the process is down, or could reach no worker.
Down(p) == p \notin checking /\ conn[p] = Closed

\* The process that takes its place starts.
Start(p) ==
  /\ Down(p)
  /\ up # {}
  /\ healthy' = [healthy EXCEPT ![p] = up]
  /\ checking' = checking \cup HasLoop(p, up)
  /\ conn' = [conn EXCEPT ![p] = Connected(up)]
  /\ UNCHANGED <<up, outages, sessions, bound, call, ran, moved>>

At(p, stage) == {r \in Run : call[p][r].at = stage}

\* shutdown, or a crash: the registrations and commands under way may still
\* have had their effect.
Stop(p, keys, hits) ==
  /\ ~Down(p)
  /\ healthy' = [healthy EXCEPT ![p] = {}]
  /\ checking' = checking \ {p}
  /\ conn' = [conn EXCEPT ![p] = Closed]
  /\ sessions' = [sessions EXCEPT ![p] = [r \in Run |-> None]]
  /\ call' = [call EXCEPT ![p] = [r \in Run |-> Idle]]
  /\ bound' = [r \in Run |-> IF r \in keys THEN call[p][r].on ELSE bound[r]]
  /\ ran' = [r \in Run |-> IF r \in hits /\ ~moved[r] THEN ran[r] \cup {call[p][r].on}
                                                    ELSE ran[r]]
  /\ UNCHANGED <<up, outages, moved>>

-----------------------------------------------------------------------------
(* Workers                                                                 *)

\* A worker goes down with the connections to it, those that a command used of
\* late among them; or it comes back.
GoDown(w, used) ==
  /\ w \in up
  /\ outages < MaxOutages
  /\ outages' = outages + 1
  /\ up' = up \ {w}
  /\ conn' = [p \in Process |->
                [conn[p] EXCEPT ![w] = IF @ # "live" THEN @
                                       ELSE IF p \in used THEN "trusted" ELSE "dead"]]
  /\ UNCHANGED <<healthy, checking, sessions, bound, call, ran, moved>>

ComeBack(w) ==
  /\ w \notin up
  /\ up' = up \cup {w}
  /\ UNCHANGED <<outages, healthy, checking, conn, sessions, bound, call, ran, moved>>

\* _PROBE_SKIP_SECONDS pass.
Age(p, w) ==
  /\ conn[p][w] = "trusted"
  /\ conn' = [conn EXCEPT ![p][w] = "dead"]
  /\ UNCHANGED <<up, outages, healthy, checking, sessions, bound, call, ran, moved>>

\* _acquire: the connection after it.  A pool that was never filled has none to
\* give; a connection used of late is not probed; one that fails the probe is
\* opened again.
Acquired(p, w) == IF conn[p][w] = "dead" /\ w \in up THEN "live" ELSE conn[p][w]

Works(p, w) == Acquired(p, w) = "live"

\* Slip: a worker that was taken out stays out.
SlipCheck(p, w) ==
  /\ p \in checking
  /\ healthy' = [healthy EXCEPT ![p] = IF Works(p, w) THEN @ ELSE @ \ {w}]
  /\ conn' = [conn EXCEPT ![p][w] = Acquired(p, w)]
  /\ UNCHANGED <<up, outages, checking, sessions, bound, call, ran, moved>>

\* One turn of _health_loop, for one worker.
Check(p, w) ==
  /\ p \in checking
  /\ healthy' = [healthy EXCEPT ![p] = IF Works(p, w) THEN @ \cup {w} ELSE @ \ {w}]
  /\ conn' = [conn EXCEPT ![p][w] = Acquired(p, w)]
  /\ UNCHANGED <<up, outages, checking, sessions, bound, call, ran, moved>>

-----------------------------------------------------------------------------
(* exec_for_run                                                            *)

To(p, r, at, on) == call' = [call EXCEPT ![p][r] = [at |-> at, on |-> on]]

\* Another command of the run is under way elsewhere.
Shared(p, r) == \E q \in Process \ {p} : call[q][r] # Idle

\* Once a run may have moved, where its commands went is of no interest.
Mark(r, why) ==
  /\ moved' = [moved EXCEPT ![r] = @ \/ why]
  /\ ran' = [ran EXCEPT ![r] = IF why THEN {} ELSE @]

\* Nothing is done without a healthy worker.  The worker in _sessions is used
\* if it is healthy; if not, Redis is asked.
Begin(p, r) ==
  /\ call[p][r] = Idle
  /\ healthy[p] # {}
  /\ LET w == sessions[p][r] IN
     IF w \in healthy[p] THEN To(p, r, "exec", w) /\ Mark(r, Shared(p, r))
                         ELSE To(p, r, "ask", None) /\ Mark(r, w # None \/ Shared(p, r))
  /\ UNCHANGED <<workers, sessions, bound>>

\* The answer of Redis: the run has a worker, and it is healthy here.
Bound(p, r) ==
  /\ call[p][r].at = "ask"
  /\ bound[r] \in healthy[p]
  /\ sessions' = [sessions EXCEPT ![p][r] = bound[r]]
  /\ To(p, r, "exec", bound[r])
  /\ UNCHANGED <<workers, bound, ran, moved>>

Load(p, w) == Cardinality({r \in Run : sessions[p][r] = w})

\* No worker, or an unhealthy one; or Redis fails, or is silent for two seconds:
\* the worker with the fewest sessions here.
Choose(p, r, fails) ==
  /\ call[p][r].at = "ask"
  /\ fails \/ bound[r] \notin healthy[p]
  /\ \E w \in healthy[p] :
       /\ \A x \in healthy[p] : Load(p, w) <= Load(p, x)
       /\ sessions' = [sessions EXCEPT ![p][r] = w]
       /\ To(p, r, "register", w)
  /\ Mark(r, fails \/ bound[r] # None)
  /\ UNCHANGED <<workers, bound>>

\* No worker is healthy any more.
Refuse(p, r) ==
  /\ call[p][r].at = "ask"
  /\ healthy[p] = {}
  /\ To(p, r, "idle", None)
  /\ UNCHANGED <<workers, sessions, bound, ran, moved>>

\* Slip: the key is not written.
SlipRegister(p, r, fails) ==
  /\ call[p][r].at = "register"
  /\ To(p, r, "exec", call[p][r].on)
  /\ Mark(r, fails)
  /\ UNCHANGED <<workers, sessions, bound>>

\* Slip: a silent Redis is waited for.
SlipRegisterWaits(p, r, fails) ==
  /\ call[p][r].at = "register"
  /\ ~fails
  /\ bound' = [bound EXCEPT ![r] = call[p][r].on]
  /\ To(p, r, "exec", call[p][r].on)
  /\ UNCHANGED <<workers, sessions, ran, moved>>

\* The key is written whatever it holds; a failure is logged.
Register(p, r, fails) ==
  /\ call[p][r].at = "register"
  /\ bound' = IF fails THEN bound ELSE [bound EXCEPT ![r] = call[p][r].on]
  /\ To(p, r, "exec", call[p][r].on)
  /\ Mark(r, fails)
  /\ UNCHANGED <<workers, sessions>>

\* exec_command.  It ends with a result, an error, or after its timeout; on a
\* dead connection it has not run.
Exec(p, r) ==
  /\ call[p][r].at = "exec"
  /\ LET w == call[p][r].on IN
     /\ conn' = [conn EXCEPT ![p][w] = Acquired(p, w)]
     /\ ran' = [ran EXCEPT ![r] = IF Works(p, w) /\ ~moved[r] THEN @ \cup {w} ELSE @]
  /\ To(p, r, "idle", None)
  /\ UNCHANGED <<up, outages, healthy, checking, sessions, bound, moved>>

\* release_run: the entry of this process, and the key unless Redis fails.
Release(p, r, fails) ==
  /\ call[p][r] = Idle
  /\ sessions' = [sessions EXCEPT ![p][r] = None]
  /\ bound' = IF fails THEN bound ELSE [bound EXCEPT ![r] = None]
  /\ Mark(r, TRUE)
  /\ UNCHANGED <<workers, call>>

\* The key is an hour old.
Lapse(r) ==
  /\ bound[r] # None
  /\ bound' = [bound EXCEPT ![r] = None]
  /\ Mark(r, TRUE)
  /\ UNCHANGED <<workers, sessions, call>>

-----------------------------------------------------------------------------
Advance(p, r) ==
  \/ Bound(p, r) \/ Refuse(p, r) \/ Exec(p, r)
  \/ \E b \in BOOLEAN : Choose(p, r, b) \/ Register(p, r, b)

Next ==
  \/ \E p \in Process :
       \/ Start(p)
       \/ \E keys \in SUBSET At(p, "register"),
            hits \in SUBSET {r \in At(p, "exec") : Works(p, call[p][r].on)} : Stop(p, keys, hits)
       \/ \E w \in Worker : Age(p, w) \/ Check(p, w)
  \/ \E w \in Worker : ComeBack(w) \/ \E used \in SUBSET Process : GoDown(w, used)
  \/ \E p \in Process, r \in Run :
       Begin(p, r) \/ Advance(p, r) \/ \E b \in BOOLEAN : Release(p, r, b)
  \/ \E r \in Run : Lapse(r)

\* What happens to a command if Redis does not answer.
TimesOut(p, r) ==
  Choose(p, r, TRUE) \/ Refuse(p, r) \/ Register(p, r, TRUE) \/ Exec(p, r)

\* Every wait of a command has a timeout; the health loop and time go on.
Fairness ==
  /\ \A p \in Process, r \in Run : WF_vars(TimesOut(p, r))
  /\ \A p \in Process, w \in Worker : WF_vars(Check(p, w)) /\ WF_vars(Age(p, w))

Spec == Init /\ [][Next]_vars /\ Fairness

-----------------------------------------------------------------------------
(* Properties                                                              *)

\* The variables have their types, and what is healthy has been connected to.
TypeOK ==
  /\ up \subseteq Worker /\ checking \subseteq Process
  /\ bound \in [Run -> Worker \cup {None}]
  /\ sessions \in [Process -> [Run -> Worker \cup {None}]]
  /\ \A p \in Process : \A r \in Run :
       /\ call[p][r].at \in {"idle", "ask", "register", "exec"}
       /\ call[p][r].on # None <=> call[p][r].at \in {"register", "exec"}
  /\ \A p \in Process : \A w \in healthy[p] : conn[p][w] # "none"

\* "Later commands of a run go to the same worker", whichever process sends
\* them: unless its worker was unhealthy, Redis failed, the key lapsed or was
\* released, or two processes sent commands at the same time.
Affinity == \A r \in Run : ~moved[r] => Cardinality(ran[r]) <= 1

\* Bindings, calls and connections fit each other, and runs stay where they are.
BindingSound == TypeOK /\ Affinity

\* A command of a run ends, though Redis and the worker may be silent.
CallsEnd == \A p \in Process, r \in Run : call[p][r] # Idle ~> call[p][r] = Idle

\* "A worker that recovers is added again": it is, by every process that runs
\* the health loop and that has once been connected to it.
Rejoins ==
  \A p \in Process, w \in Worker :
    <>[](w \in up /\ p \in checking /\ conn[p][w] # "none") => <>[](w \in healthy[p])

\* The same without the exceptions.
RejoinsAlways ==
  \A p \in Process, w \in Worker : <>[](w \in up) => <>(w \in healthy[p])

=============================================================================
