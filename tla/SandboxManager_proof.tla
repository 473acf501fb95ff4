------------------------ MODULE SandboxManager_proof ------------------------
(***************************************************************************)
(* Where the commands of a run go, for any number of processes, runs and   *)
(* workers: as long as nothing has moved the run, to one worker.           *)
(***************************************************************************)
EXTENDS SandboxManager, FiniteSetTheorems, TLAPS

-----------------------------------------------------------------------------
(* The inductive invariant.                                                *)

\* The commands under way: one that asks Redis has no worker yet.
Call == {Idle} \cup [at : {"ask"}, on : {None}] \cup [at : {"register", "exec"}, on : Worker]

Types ==
  /\ up \in SUBSET Worker
  /\ healthy \in [Process -> SUBSET Worker]
  /\ checking \in SUBSET Process
  /\ conn \in [Process -> [Worker -> {"none", "live", "dead", "trusted"}]]
  /\ sessions \in [Process -> [Run -> Worker \cup {None}]]
  /\ bound \in [Run -> Worker \cup {None}]
  /\ call \in [Process -> [Run -> Call]]
  /\ ran \in [Run -> SUBSET Worker]
  /\ moved \in [Run -> BOOLEAN]

HealthyIsConnected == \A p \in Process : \A w \in healthy[p] : conn[p][w] # "none"

\* What a run that nothing has moved is tied to.  One process at most has a
\* command of it; the key in Redis names the worker its commands went to; it is
\* written only when there is none; and what a process remembers is the key, or
\* the choice it is about to register.
Tied(r) ==
  /\ \A p, q \in Process : call[p][r] # Idle /\ call[q][r] # Idle => p = q
  /\ ran[r] \subseteq {bound[r]}
  /\ \A p \in Process :
       /\ call[p][r].at = "register" => bound[r] = None
       /\ call[p][r].at = "exec" => call[p][r].on = bound[r]
       /\ \/ sessions[p][r] \in {None, bound[r]}
          \/ call[p][r].at = "register" /\ call[p][r].on = sessions[p][r]

IInv == Types /\ HealthyIsConnected /\ \A r \in Run : ~moved[r] => Tied(r)

-----------------------------------------------------------------------------
(* Types.                                                                  *)

LEMMA InitInv == Init => IInv
<1> SUFFICES ASSUME Init PROVE IInv
  OBVIOUS
<1>1. Types
  BY DEF Init, Types, Connected, HasLoop, Call
<1>2. HealthyIsConnected
  BY DEF Init, HealthyIsConnected, Connected
<1>3. \A r \in Run : Tied(r)
  BY DEF Init, Tied, Idle
<1> QED
  BY <1>1, <1>2, <1>3 DEF IInv

\* What _acquire does to a connection: a process that was never connected to a
\* worker is not connected by it.
LEMMA AcquireKeeps ==
  ASSUME Types, NEW p \in Process, NEW w \in Worker
  PROVE  /\ Acquired(p, w) \in {"none", "live", "dead", "trusted"}
         /\ Acquired(p, w) = "none" <=> conn[p][w] = "none"
BY DEF Types, Acquired

\* A step of a process that starts, of a worker, or of the health loop.
WorkerStep ==
  \/ \E p \in Process : Start(p) \/ \E w \in Worker : Age(p, w) \/ Check(p, w)
  \/ \E w \in Worker : ComeBack(w) \/ \E used \in SUBSET Process : GoDown(w, used)

LEMMA WorkersKeepTypes ==
  ASSUME Types, HealthyIsConnected, WorkerStep
  PROVE  Types' /\ HealthyIsConnected'
<1> USE DEF Types
<1>1. ASSUME NEW p \in Process, Start(p) PROVE Types' /\ HealthyIsConnected'
  BY <1>1 DEF Start, HasLoop, Connected, HealthyIsConnected
<1>2. ASSUME NEW p \in Process, NEW w \in Worker, Age(p, w) PROVE Types' /\ HealthyIsConnected'
  BY <1>2 DEF Age, HealthyIsConnected
<1>3. ASSUME NEW p \in Process, NEW w \in Worker, Check(p, w) PROVE Types' /\ HealthyIsConnected'
  <2>1. /\ healthy' = [healthy EXCEPT ![p] = IF Works(p, w) THEN @ \cup {w} ELSE @ \ {w}]
        /\ conn' = [conn EXCEPT ![p][w] = Acquired(p, w)]
        /\ UNCHANGED <<up, outages, checking, sessions, bound, call, ran, moved>>
    BY <1>3 DEF Check
  <2>2. Types'
    BY <2>1, AcquireKeeps
  <2>3. HealthyIsConnected'
    BY <2>1, AcquireKeeps DEF HealthyIsConnected, Works
  <2> QED
    BY <2>2, <2>3
<1>4. ASSUME NEW w \in Worker, ComeBack(w) PROVE Types' /\ HealthyIsConnected'
  BY <1>4 DEF ComeBack, HealthyIsConnected
<1>5. ASSUME NEW w \in Worker, NEW used \in SUBSET Process, GoDown(w, used)
      PROVE  Types' /\ HealthyIsConnected'
  BY <1>5 DEF GoDown, HealthyIsConnected
<1> QED
  BY <1>1, <1>2, <1>3, <1>4, <1>5 DEF WorkerStep

\* A process that stops: nothing of it is left but what is in Redis.
LEMMA StopKeepsTypes ==
  ASSUME Types, HealthyIsConnected, NEW p \in Process,
         NEW keys \in SUBSET At(p, "register"), NEW hits \in SUBSET At(p, "exec"),
         Stop(p, keys, hits)
  PROVE  Types' /\ HealthyIsConnected'
<1> USE DEF Types
<1>1. \A r \in Run : r \in keys \/ r \in hits => call[p][r].on \in Worker
  BY DEF At, Call, Idle
<1>2. bound' \in [Run -> Worker \cup {None}] /\ ran' \in [Run -> SUBSET Worker]
  BY <1>1 DEF Stop
<1>3. /\ call' \in [Process -> [Run -> Call]]
      /\ sessions' \in [Process -> [Run -> Worker \cup {None}]]
  BY DEF Stop, Call
<1> QED
  BY <1>2, <1>3 DEF Stop, Closed, Connected, HealthyIsConnected

\* A command that registers or executes has a worker.
LEMMA CallHasWorker ==
  ASSUME Types, NEW p \in Process, NEW r \in Run, call[p][r].at \in {"register", "exec"}
  PROVE  call[p][r].on \in Worker
<1>1. call[p][r] \in Call
  BY DEF Types
<1> QED
  BY <1>1 DEF Call, Idle

\* A step of a command.
LEMMA CallsKeepTypes ==
  ASSUME Types, HealthyIsConnected, NEW p \in Process, NEW r \in Run,
         Begin(p, r) \/ Advance(p, r) \/ \E b \in BOOLEAN : Release(p, r, b)
  PROVE  Types' /\ HealthyIsConnected'
<1> USE DEF Types, workers
<1>1. ASSUME UNCHANGED <<healthy, conn>> PROVE HealthyIsConnected'
  BY <1>1 DEF HealthyIsConnected
<1>2. ASSUME NEW why \in BOOLEAN, Mark(r, why)
      PROVE  ran' \in [Run -> SUBSET Worker] /\ moved' \in [Run -> BOOLEAN]
  BY <1>2 DEF Mark
<1>3. ASSUME NEW at, NEW on, To(p, r, at, on), [at |-> at, on |-> on] \in Call
      PROVE  call' \in [Process -> [Run -> Call]]
  BY <1>3 DEF To
<1>4. CASE Begin(p, r)
  <2>1. sessions[p][r] \in healthy[p] => [at |-> "exec", on |-> sessions[p][r]] \in Call
    BY DEF Call
  <2>2. [at |-> "ask", on |-> None] \in Call
    BY DEF Call
  <2>3. /\ call' \in [Process -> [Run -> Call]]
        /\ \E why \in BOOLEAN : Mark(r, why)
    <3>1. CASE sessions[p][r] \in healthy[p]
      BY <1>4, <1>3, <2>1, <3>1 DEF Begin, Shared
    <3>2. CASE sessions[p][r] \notin healthy[p]
      BY <1>4, <1>3, <2>2, <3>2 DEF Begin, Shared
    <3> QED
      BY <3>1, <3>2
  <2> QED
    BY <1>4, <1>1, <1>2, <2>3 DEF Begin
<1>5. CASE Bound(p, r)
  <2>1. [at |-> "exec", on |-> bound[r]] \in Call /\ bound[r] \in Worker
    BY <1>5 DEF Bound, Call
  <2>2. call' \in [Process -> [Run -> Call]]
    BY <1>5, <1>3, <2>1 DEF Bound
  <2> QED
    BY <1>5, <1>1, <2>1, <2>2 DEF Bound
<1>6. CASE Refuse(p, r)
  <2>1. [at |-> "idle", on |-> None] \in Call
    BY DEF Call, Idle
  <2>2. call' \in [Process -> [Run -> Call]]
    BY <1>6, <1>3, <2>1 DEF Refuse
  <2> QED
    BY <1>6, <1>1, <2>2 DEF Refuse
<1>7. CASE Exec(p, r)
  <2>1. call[p][r].on \in Worker
    BY <1>7, CallHasWorker DEF Exec
  <2>2. [at |-> "idle", on |-> None] \in Call
    BY DEF Call, Idle
  <2>3. call' \in [Process -> [Run -> Call]]
    BY <1>7, <1>3, <2>2 DEF Exec
  <2>4. ran' \in [Run -> SUBSET Worker]
    BY <1>7, <2>1 DEF Exec
  <2>5. /\ conn' = [conn EXCEPT ![p][call[p][r].on] = Acquired(p, call[p][r].on)]
        /\ healthy' = healthy
    BY <1>7 DEF Exec
  <2>6. /\ conn' \in [Process -> [Worker -> {"none", "live", "dead", "trusted"}]]
        /\ HealthyIsConnected'
    BY <2>1, <2>5, AcquireKeeps DEF HealthyIsConnected
  <2> QED
    BY <1>7, <2>3, <2>4, <2>6 DEF Exec
<1>8. ASSUME NEW b \in BOOLEAN, Choose(p, r, b) PROVE Types' /\ HealthyIsConnected'
  <2>1. PICK w \in healthy[p] :
          sessions' = [sessions EXCEPT ![p][r] = w] /\ To(p, r, "register", w)
    BY <1>8 DEF Choose
  <2>2. [at |-> "register", on |-> w] \in Call
    BY DEF Call
  <2>3. call' \in [Process -> [Run -> Call]]
    BY <1>3, <2>1, <2>2
  <2> QED
    BY <1>8, <1>1, <1>2, <2>1, <2>3 DEF Choose
<1>9. ASSUME NEW b \in BOOLEAN, Register(p, r, b) PROVE Types' /\ HealthyIsConnected'
  <2>1. call[p][r].on \in Worker
    BY <1>9, CallHasWorker DEF Register
  <2>2. [at |-> "exec", on |-> call[p][r].on] \in Call
    BY <2>1 DEF Call
  <2>3. call' \in [Process -> [Run -> Call]]
    BY <1>9, <1>3, <2>2 DEF Register
  <2> QED
    BY <1>9, <1>1, <1>2, <2>1, <2>3 DEF Register
<1>10. ASSUME NEW b \in BOOLEAN, Release(p, r, b) PROVE Types' /\ HealthyIsConnected'
  BY <1>10, <1>1, <1>2 DEF Release
<1> QED
  BY <1>4, <1>5, <1>6, <1>7, <1>8, <1>9, <1>10 DEF Advance

-----------------------------------------------------------------------------
(* Where runs are tied to.                                                 *)

\* A run of which nothing changed is tied as before.
LEMMA OthersStayTied ==
  ASSUME NEW r \in Run, Tied(r), UNCHANGED <<bound[r], ran[r]>>,
         \A p \in Process : UNCHANGED <<call[p][r], sessions[p][r]>>
  PROVE  Tied(r)'
BY DEF Tied

\* A process that stops may have registered its choice, and its command may
\* have run.
LEMMA StopKeepsTied ==
  ASSUME Types, NEW p \in Process,
         NEW keys \in SUBSET At(p, "register"), NEW hits \in SUBSET At(p, "exec"),
         Stop(p, keys, hits), NEW s \in Run, ~moved[s], Tied(s)
  PROVE  Tied(s)'
<1> USE DEF Types
<1> DEFINE b == IF s \in keys THEN call[p][s].on ELSE bound[s]
<1>1. /\ \A q \in Process : call'[q][s] = IF q = p THEN Idle ELSE call[q][s]
      /\ \A q \in Process : sessions'[q][s] = IF q = p THEN None ELSE sessions[q][s]
      /\ bound'[s] = b
      /\ ran'[s] = IF s \in hits THEN ran[s] \cup {call[p][s].on} ELSE ran[s]
  BY DEF Stop
<1>2. /\ s \in keys => call[p][s].at = "register"
      /\ s \in hits => call[p][s].at = "exec"
  BY DEF At
<1>3. ran[s] \subseteq Worker /\ None \notin Worker
  BY SandboxAssumption
\* The key of a run whose choice is about to be registered is not there yet.
<1>4. s \in keys => bound[s] = None /\ ran[s] = {}
  BY <1>2, <1>3 DEF Tied
<1>5. ran'[s] \subseteq {bound'[s]}
  BY <1>1, <1>2, <1>4 DEF Tied
<1>6. \A q \in Process \ {p} :
        s \in keys => call[q][s] = Idle /\ sessions[q][s] = None
  BY <1>2, <1>4 DEF Tied, Idle
<1>7. ASSUME NEW q \in Process
      PROVE  /\ call'[q][s].at = "register" => bound'[s] = None
             /\ call'[q][s].at = "exec" => call'[q][s].on = bound'[s]
             /\ \/ sessions'[q][s] \in {None, bound'[s]}
                \/ call'[q][s].at = "register" /\ call'[q][s].on = sessions'[q][s]
  <2>1. CASE q = p
    BY <1>1, <2>1 DEF Idle
  <2>2. CASE q # p /\ s \in keys
    BY <1>1, <1>6, <2>2 DEF Idle
  <2>3. CASE q # p /\ s \notin keys
    BY <1>1, <2>3 DEF Tied
  <2> QED
    BY <2>1, <2>2, <2>3
<1>8. \A q, x \in Process : call'[q][s] # Idle /\ call'[x][s] # Idle => q = x
  BY <1>1 DEF Tied
<1> QED
  BY <1>5, <1>7, <1>8 DEF Tied

\* A process that has a command of a tied run is the only one.
LEMMA OnlyCaller ==
  ASSUME NEW r \in Run, Tied(r), NEW p \in Process, call[p][r].at # "idle"
  PROVE  \A q \in Process \ {p} : call[q][r] = Idle /\ sessions[q][r] \in {None, bound[r]}
<1>1. call[p][r] # Idle
  BY DEF Idle
<1>2. \A q \in Process \ {p} : call[q][r] = Idle
  BY <1>1 DEF Tied
<1>3. Idle.at # "register"
  BY DEF Idle
<1> QED
  BY <1>2, <1>3 DEF Tied

\* What makes a run tied after a step of the process that is the only one.
LEMMA CallerKeepsTied ==
  ASSUME NEW r \in Run, NEW p \in Process,
         \A q \in Process \ {p} : call'[q][r] = Idle /\ sessions'[q][r] \in {None, bound'[r]},
         ran'[r] \subseteq {bound'[r]},
         call'[p][r].at = "register" => bound'[r] = None,
         call'[p][r].at = "exec" => call'[p][r].on = bound'[r],
         \/ sessions'[p][r] \in {None, bound'[r]}
         \/ call'[p][r].at = "register" /\ call'[p][r].on = sessions'[p][r]
  PROVE  Tied(r)'
BY DEF Tied, Idle

\* A step of a command, for its own run: the run stays tied, or is marked.
LEMMA CallKeepsTied ==
  ASSUME Types, NEW p \in Process, NEW r \in Run,
         Begin(p, r) \/ Advance(p, r) \/ \E b \in BOOLEAN : Release(p, r, b),
         ~moved'[r], ~moved[r] => Tied(r)
  PROVE  Tied(r)'
<1> USE DEF Types, workers
<1>1. ASSUME NEW why \in BOOLEAN, Mark(r, why)
      PROVE  ~why /\ ran'[r] = ran[r] /\ ~moved[r]
  BY <1>1 DEF Mark
<1>2. ~moved[r] => Tied(r)
  OBVIOUS
\* What the process's command and its session become, and what stays.
<1>3. ASSUME NEW at, NEW on, To(p, r, at, on)
      PROVE  /\ call'[p][r].at = at /\ call'[p][r].on = on
             /\ \A q \in Process \ {p} : call'[q][r] = call[q][r]
  BY <1>3 DEF To
<1>4. ASSUME Tied(r), call[p][r].at # "idle"
      PROVE  \A q \in Process \ {p} : call[q][r] = Idle /\ sessions[q][r] \in {None, bound[r]}
  BY <1>4, OnlyCaller
<1>5. CASE Begin(p, r)
  <2> DEFINE w == sessions[p][r]
  <2>1. /\ ~Shared(p, r) /\ ran'[r] = ran[r] /\ ~moved[r]
        /\ w \notin healthy[p] => w = None
    BY <1>5, <1>1 DEF Begin, Shared
  <2>2. Tied(r) /\ UNCHANGED <<sessions, bound>> /\ call[p][r].at = "idle"
    BY <1>5, <1>2, <2>1 DEF Begin, Idle
  <2>3. \A q \in Process \ {p} : call[q][r] = Idle /\ Idle.at # "register"
    BY <2>1 DEF Shared, Idle
  <2>4. /\ \A q \in Process \ {p} : call'[q][r] = Idle
        /\ call'[p][r].at = IF w \in healthy[p] THEN "exec" ELSE "ask"
        /\ w \in healthy[p] => call'[p][r].on = w
    BY <1>5, <1>3, <2>3 DEF Begin
  <2>5. \A q \in Process : sessions'[q][r] \in {None, bound'[r]}
    BY <2>2, <2>3 DEF Tied
  <2>6. w \in healthy[p] => w = bound[r]
    BY <2>2, <2>5, SandboxAssumption
  <2>7. /\ ran'[r] \subseteq {bound'[r]}
        /\ call'[p][r].at # "register"
        /\ call'[p][r].at = "exec" => call'[p][r].on = bound'[r]
    BY <2>1, <2>2, <2>4, <2>6 DEF Tied
  <2> QED
    BY <2>4, <2>5, <2>7, CallerKeepsTied
<1>6. CASE Bound(p, r)
  <2>1. /\ call[p][r].at = "ask" /\ sessions' = [sessions EXCEPT ![p][r] = bound[r]]
        /\ UNCHANGED <<bound, ran, moved>>
        /\ call'[p][r].at = "exec" /\ call'[p][r].on = bound[r]
        /\ \A q \in Process \ {p} : call'[q][r] = call[q][r]
    BY <1>6, <1>3 DEF Bound
  <2>2. Tied(r)
    BY <1>2, <2>1
  <2>3. \A q \in Process : sessions'[q][r] = IF q = p THEN bound[r] ELSE sessions[q][r]
    BY <2>1
  <2>4. \A q \in Process \ {p} : call'[q][r] = Idle /\ sessions'[q][r] \in {None, bound'[r]}
    BY <1>4, <2>1, <2>2, <2>3
  <2> QED
    BY <2>1, <2>2, <2>3, <2>4, CallerKeepsTied DEF Tied
<1>7. CASE Refuse(p, r)
  <2>1. /\ call[p][r].at = "ask" /\ UNCHANGED <<sessions, bound, ran, moved>>
        /\ call'[p][r].at = "idle"
        /\ \A q \in Process \ {p} : call'[q][r] = call[q][r]
    BY <1>7, <1>3 DEF Refuse
  <2>2. Tied(r)
    BY <1>2, <2>1
  <2>3. \A q \in Process \ {p} : call'[q][r] = Idle /\ sessions'[q][r] \in {None, bound'[r]}
    BY <1>4, <2>1, <2>2
  <2> QED
    BY <2>1, <2>2, <2>3, CallerKeepsTied DEF Tied
<1>8. CASE Exec(p, r)
  <2>1. /\ call[p][r].at = "exec" /\ UNCHANGED <<sessions, bound, moved>>
        /\ ran'[r] \subseteq ran[r] \cup {call[p][r].on}
        /\ call'[p][r].at = "idle"
        /\ \A q \in Process \ {p} : call'[q][r] = call[q][r]
    BY <1>8, <1>3 DEF Exec
  <2>2. Tied(r)
    BY <1>2, <2>1
  <2>3. \A q \in Process \ {p} : call'[q][r] = Idle /\ sessions'[q][r] \in {None, bound'[r]}
    BY <1>4, <2>1, <2>2
  <2> QED
    BY <2>1, <2>2, <2>3, CallerKeepsTied DEF Tied
<1>9. ASSUME NEW b \in BOOLEAN, Choose(p, r, b) PROVE Tied(r)'
  <2>1. PICK w \in healthy[p] :
          sessions' = [sessions EXCEPT ![p][r] = w] /\ To(p, r, "register", w)
    BY <1>9 DEF Choose
  <2>2. /\ call[p][r].at = "ask" /\ UNCHANGED bound /\ bound[r] = None
        /\ ran'[r] = ran[r] /\ ~moved[r]
    BY <1>9, <1>1 DEF Choose
  <2>3. Tied(r)
    BY <1>2, <2>2
  <2>4. /\ call'[p][r].at = "register" /\ call'[p][r].on = w
        /\ \A q \in Process \ {p} : call'[q][r] = call[q][r]
        /\ \A q \in Process : sessions'[q][r] = IF q = p THEN w ELSE sessions[q][r]
    BY <1>3, <2>1
  <2>5. \A q \in Process \ {p} : call'[q][r] = Idle /\ sessions'[q][r] \in {None, bound'[r]}
    BY <1>4, <2>2, <2>3, <2>4
  <2> QED
    BY <2>2, <2>3, <2>4, <2>5, CallerKeepsTied DEF Tied
<1>10. ASSUME NEW b \in BOOLEAN, Register(p, r, b) PROVE Tied(r)'
  <2> DEFINE w == call[p][r].on
  <2>1. /\ call[p][r].at = "register" /\ UNCHANGED sessions /\ ~b
        /\ ran'[r] = ran[r] /\ ~moved[r]
    BY <1>10, <1>1 DEF Register
  <2>2. Tied(r)
    BY <1>2, <2>1
  <2>3. /\ bound'[r] = w
        /\ call'[p][r].at = "exec" /\ call'[p][r].on = w
        /\ \A q \in Process \ {p} : call'[q][r] = call[q][r]
    BY <1>10, <1>3, <2>1 DEF Register
  <2>4. bound[r] = None /\ ran[r] = {}
    <3>1. bound[r] = None /\ ran[r] \subseteq {bound[r]} /\ ran[r] \subseteq Worker
      BY <2>1, <2>2 DEF Tied
    <3> QED
      BY <3>1, SandboxAssumption
  <2>5. \A q \in Process \ {p} : call'[q][r] = Idle /\ sessions'[q][r] \in {None, bound'[r]}
    BY <1>4, <2>1, <2>2, <2>3, <2>4
  <2>6. sessions[p][r] \in {None, w}
    BY <2>1, <2>2, <2>4 DEF Tied
  <2> QED
    BY <2>1, <2>3, <2>4, <2>5, <2>6, CallerKeepsTied
<1>11. ASSUME NEW b \in BOOLEAN, Release(p, r, b) PROVE Tied(r)'
  BY <1>11, <1>1 DEF Release
<1> QED
  BY <1>5, <1>6, <1>7, <1>8, <1>9, <1>10, <1>11 DEF Advance

\* Every step of the system, for every run.
LEMMA InvStep == IInv /\ [Next]_vars => IInv'
<1> SUFFICES ASSUME IInv, [Next]_vars PROVE IInv'
  OBVIOUS
<1> USE DEF IInv
\* A step of the workers concerns no run.
<1>1. ASSUME UNCHANGED <<sessions, bound, call, ran, moved>>, Types', HealthyIsConnected'
      PROVE  IInv'
  <2>1. \A r \in Run : Tied(r) => Tied(r)'
    BY <1>1, OthersStayTied
  <2> QED
    BY <1>1, <2>1
<1>2. CASE WorkerStep
  <2>1. UNCHANGED <<sessions, bound, call, ran, moved>>
    BY <1>2 DEF WorkerStep, Start, Age, Check, ComeBack, GoDown
  <2> QED
    BY <1>1, <1>2, <2>1, WorkersKeepTypes
<1>3. ASSUME NEW p \in Process,
             NEW keys \in SUBSET At(p, "register"), NEW hits \in SUBSET At(p, "exec"),
             Stop(p, keys, hits)
      PROVE  IInv'
  <2>1. Types' /\ HealthyIsConnected'
    BY <1>3, StopKeepsTypes
  <2>2. moved' = moved
    BY <1>3 DEF Stop
  <2>3. \A r \in Run : ~moved[r] => Tied(r)'
    BY <1>3, StopKeepsTied
  <2> QED
    BY <2>1, <2>2, <2>3
<1>4. ASSUME NEW p \in Process, NEW r \in Run,
             Begin(p, r) \/ Advance(p, r) \/ \E b \in BOOLEAN : Release(p, r, b)
      PROVE  IInv'
  <2>1. Types' /\ HealthyIsConnected'
    BY <1>4, CallsKeepTypes
  <2>2. ~moved'[r] => Tied(r)'
    BY <1>4, CallKeepsTied
  <2>3. ASSUME NEW s \in Run, s # r, ~moved'[s] PROVE Tied(s)'
    <3>1. /\ UNCHANGED <<bound[s], ran[s], moved[s]>>
          /\ \A q \in Process : UNCHANGED <<call[q][s], sessions[q][s]>>
      <4> USE DEF Types
      <4>1. ASSUME NEW at, NEW on, To(p, r, at, on)
            PROVE  \A q \in Process : call'[q][s] = call[q][s]
        BY <2>3, <4>1 DEF To
      <4>2. ASSUME NEW why, Mark(r, why)
            PROVE  UNCHANGED <<ran[s], moved[s]>>
        BY <2>3, <4>2 DEF Mark
      <4>3. CASE Begin(p, r)
        <5>1. UNCHANGED <<bound, sessions>>
          BY <4>3 DEF Begin
        <5>2. (\E at, on : To(p, r, at, on)) /\ \E why : Mark(r, why)
          BY <4>3 DEF Begin
        <5> QED
          BY <4>1, <4>2, <5>1, <5>2
      <4>4. CASE Bound(p, r)
        BY <2>3, <4>4 DEF Bound, To, Mark
      <4>5. CASE Refuse(p, r)
        BY <2>3, <4>5 DEF Refuse, To, Mark
      <4>6. CASE Exec(p, r)
        BY <2>3, <4>6 DEF Exec, To, Mark
      <4>7. ASSUME NEW b \in BOOLEAN, Choose(p, r, b)
            PROVE  /\ UNCHANGED <<bound[s], ran[s], moved[s]>>
                   /\ \A q \in Process : UNCHANGED <<call[q][s], sessions[q][s]>>
        BY <2>3, <4>7 DEF Choose, To, Mark
      <4>8. ASSUME NEW b \in BOOLEAN, Register(p, r, b)
            PROVE  /\ UNCHANGED <<bound[s], ran[s], moved[s]>>
                   /\ \A q \in Process : UNCHANGED <<call[q][s], sessions[q][s]>>
        BY <2>3, <4>8 DEF Register, To, Mark
      <4>9. ASSUME NEW b \in BOOLEAN, Release(p, r, b)
            PROVE  /\ UNCHANGED <<bound[s], ran[s], moved[s]>>
                   /\ \A q \in Process : UNCHANGED <<call[q][s], sessions[q][s]>>
        BY <2>3, <4>9 DEF Release, To, Mark
      <4> QED
        BY <1>4, <4>3, <4>4, <4>5, <4>6, <4>7, <4>8, <4>9 DEF Advance
    <3> QED
      BY <2>3, <3>1, OthersStayTied
  <2> QED
    BY <2>1, <2>2, <2>3
<1>5. CASE UNCHANGED vars
  BY <1>5, <1>1 DEF vars, workers, Types, HealthyIsConnected
<1>6. ASSUME NEW r \in Run, Lapse(r) PROVE IInv'
  <2>1. Types' /\ HealthyIsConnected'
    BY <1>6 DEF Lapse, Mark, workers, Types, HealthyIsConnected
  <2>2. /\ moved'[r] /\ UNCHANGED <<sessions, call>>
        /\ \A s \in Run \ {r} : UNCHANGED <<bound[s], ran[s], moved[s]>>
    BY <1>6 DEF Lapse, Mark, Types
  <2>3. \A s \in Run \ {r} : Tied(s) => Tied(s)'
    BY <2>2, OthersStayTied
  <2> QED
    BY <2>1, <2>2, <2>3
<1>7. ASSUME Next PROVE IInv'
  <2>1. \A p \in Process : \A keys \in SUBSET At(p, "register") :
          \A hits \in SUBSET {r \in At(p, "exec") : Works(p, call[p][r].on)} :
            Stop(p, keys, hits) => IInv'
    BY <1>3
  <2> QED
    BY <1>2, <1>4, <1>6, <1>7, <2>1 DEF Next, WorkerStep
<1> QED
  BY <1>5, <1>7

\* However processes, workers, Redis and redelivered runs interleave: the
\* commands of a run that nothing has moved went to one worker, and bindings,
\* calls and connections fit each other.
THEOREM BindingAlwaysSound == Spec => []BindingSound
<1>1. Spec => []IInv
  BY InitInv, InvStep, PTL DEF Spec
<1>2. IInv => BindingSound
  <2> SUFFICES ASSUME IInv PROVE BindingSound
    OBVIOUS
  <2> USE DEF IInv, Types
  <2>1. ASSUME NEW p \in Process, NEW r \in Run
        PROVE  /\ call[p][r].at \in {"idle", "ask", "register", "exec"}
               /\ call[p][r].on # None <=> call[p][r].at \in {"register", "exec"}
    <3>1. call[p][r] \in Call
      OBVIOUS
    <3> QED
      BY <3>1, SandboxAssumption DEF Call, Idle
  <2>2. TypeOK
    BY <2>1 DEF TypeOK, HealthyIsConnected
  <2>3. ASSUME NEW r \in Run, ~moved[r] PROVE Cardinality(ran[r]) <= 1
    <3>1. ran[r] \in SUBSET {bound[r]}
      BY <2>3 DEF Tied
    <3>2. IsFiniteSet({bound[r]}) /\ Cardinality({bound[r]}) = 1
      BY FS_Singleton
    <3> QED
      BY <3>1, <3>2, FS_Subset
  <2> QED
    BY <2>2, <2>3 DEF BindingSound, Affinity
<1> QED
  BY <1>1, <1>2, PTL

=============================================================================
