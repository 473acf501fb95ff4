------------------------------ MODULE Agent_proof ------------------------------
(***************************************************************************)
(* The agent.  First the accounts of the LLM semaphore, for any number of  *)
(* agent loops and any limit: no permit is lost or made up, nobody sleeps  *)
(* beside an idle permit, and the queue is exactly the callers that wait.  *)
(* Then the scenario handler: what an agent is told, what is counted,      *)
(* traced and put out, and when the handler passes.                        *)
(***************************************************************************)
EXTENDS LlmGateway, ScenarioRun, FiniteSetTheorems, SequenceTheorems, WellFoundedInduction, TLAPS

\* The callers at one of the places S, when the callers are placed as p says.
At(p, S) == { c \in Caller : p[c] \in S }

\* The main loop is blocked exactly while a call is on the background loop:
\* the caller that call_sync starts there is always a new one.
BlockedByCall == blocked = Background <=> pc[Background] = "idle"

\* The inductive invariant.
IInv == TypeOK /\ PermitsAccounted /\ NoLostWakeup /\ BlockedByCall

-----------------------------------------------------------------------------
(* The deque of waiters.                                                   *)

\* A nonempty set of naturals has a least element.
LEMMA LeastNumber ==
  ASSUME NEW S, S \subseteq Nat, S # {}
  PROVE  \E m \in S : \A k \in S : m <= k
<1> DEFINE lt == { ss \in Nat \X Nat : ss[1] < ss[2] }
<1>1. IsWellFoundedOn(lt, Nat)
  BY NatLessThanWellFounded DEF OpToRel
<1>2. \A k, m \in Nat : k < m => <<k, m>> \in lt
  OBVIOUS
<1> HIDE DEF lt
<1>3. PICK m \in S : \A k \in S : ~ (<<k, m>> \in lt)
  BY <1>1, WFMin
<1>4. \A k \in S : k \in Nat /\ m \in Nat /\ ~ k < m
  BY <1>2, <1>3
<1> QED
  BY <1>4

\* The least element is the one Min names.
LEMMA MinIsLeast ==
  ASSUME NEW S, S \subseteq Nat, S # {}
  PROVE  Min(S) \in S /\ \A k \in S : Min(S) <= k
BY LeastNumber, Zenon DEF Min

\* deque.remove: a waiter that is in the queue once is not in it any more, and
\* the others are, once each.
LEMMA RemoveWaiter ==
  ASSUME NEW q \in Seq(Caller), IsInjective(q), NEW c
  PROVE  /\ RemoveFirst(q, c) \in Seq(Caller)
         /\ IsInjective(RemoveFirst(q, c))
         /\ ToSet(RemoveFirst(q, c)) = ToSet(q) \ {c}
<1>1. CASE ~ \E i \in 1..Len(q) : q[i] = c
  BY <1>1 DEF RemoveFirst, ToSet
<1>2. CASE \E i \in 1..Len(q) : q[i] = c
  <2> DEFINE I == { i \in 1..Len(q) : q[i] = c }
             k == Min(I)
             a == SubSeq(q, 1, k - 1)
             b == SubSeq(q, k + 1, Len(q))
  <2>1. I \subseteq Nat /\ I # {}
    BY <1>2
  <2>2. k \in 1..Len(q) /\ q[k] = c
    <3> HIDE DEF I
    <3>1. k \in I
      BY <2>1, MinIsLeast
    <3> QED
      BY <3>1 DEF I
  <2>3. RemoveFirst(q, c) = a \o b
    BY <1>2 DEF RemoveFirst, RemoveAt, SelectInSeq
  <2> HIDE DEF k
  <2>4. /\ a \in Seq(Caller) /\ Len(a) = k - 1
        /\ \A i \in 1..(k - 1) : a[i] = q[i]
    BY <2>2, SubSeqProperties, ElementOfSeq
  <2>5. /\ b \in Seq(Caller) /\ Len(b) = Len(q) - k
        /\ \A i \in 1..(Len(q) - k) : b[i] = q[k + i]
    BY <2>2, SubSeqProperties, ElementOfSeq
  <2> DEFINE r == a \o b
  <2> HIDE DEF a, b
  <2>6. /\ r \in Seq(Caller) /\ Len(r) = Len(q) - 1
        /\ \A i \in 1..Len(r) : r[i] = IF i < k THEN q[i] ELSE q[i + 1]
    <3>1. /\ r \in Seq(Caller) /\ Len(r) = Len(a) + Len(b)
          /\ \A i \in 1..Len(a) + Len(b) :
               r[i] = IF i <= Len(a) THEN a[i] ELSE b[i - Len(a)]
      BY <2>4, <2>5, ConcatProperties, Zenon
    <3>2. Len(q) \in Nat /\ Len(r) = Len(q) - 1
      BY <2>2, <2>4, <2>5, <3>1
    <3>3. ASSUME NEW i \in 1..Len(r)
          PROVE  r[i] = IF i < k THEN q[i] ELSE q[i + 1]
      <4>1. CASE i < k
        BY <2>2, <2>4, <2>5, <3>1, <3>2, <4>1
      <4>2. CASE ~ i < k
        <5>1. i - Len(a) \in 1..(Len(q) - k) /\ k + (i - Len(a)) = i + 1
          BY <2>2, <2>4, <3>2, <4>2
        <5> QED
          BY <2>2, <2>4, <2>5, <3>1, <3>2, <4>2, <5>1
      <4> QED
        BY <4>1, <4>2
    <3> QED
      BY <3>1, <3>2, <3>3
  <2> HIDE DEF r
  <2>7. IsInjective(r)
    <3>1. DOMAIN r = 1..Len(r) /\ DOMAIN q = 1..Len(q) /\ Len(q) \in Nat
      BY <2>6
    <3> DEFINE at(i) == IF i < k THEN i ELSE i + 1
    <3>2. \A i \in 1..Len(r) : at(i) \in 1..Len(q) /\ r[i] = q[at(i)]
      <4> SUFFICES ASSUME NEW i \in 1..Len(r) PROVE at(i) \in 1..Len(q) /\ r[i] = q[at(i)]
        OBVIOUS
      <4>1. CASE i < k
        BY <2>6, <3>1, <4>1
      <4>2. CASE ~ i < k
        BY <2>6, <3>1, <4>2
      <4> QED
        BY <4>1, <4>2
    <3>3. \A i, j \in 1..Len(r) : at(i) = at(j) => i = j
      BY <2>2, <3>1
    <3> HIDE DEF at
    <3>4. ASSUME NEW i \in 1..Len(r), NEW j \in 1..Len(r), r[i] = r[j] PROVE i = j
      <4>1. at(i) = at(j)
        BY <2>2, <3>1, <3>2, <3>4 DEF IsInjective
      <4> QED
        BY <3>3, <4>1
    <3> QED
      BY <3>1, <3>4 DEF IsInjective
  <2>8. ToSet(r) \subseteq ToSet(q) \ {c}
    <3>1. ASSUME NEW i \in 1..Len(r) PROVE r[i] \in ToSet(q) \ {c}
      <4>1. PICK j \in 1..Len(q) : j # k /\ r[i] = q[j]
        <5>1. CASE i < k
          BY <2>6, <5>1
        <5>2. CASE ~ i < k
          <6>1. i + 1 \in 1..Len(q) /\ i + 1 # k
            BY <2>2, <2>6, <5>2
          <6> QED
            BY <2>6, <5>2, <6>1
        <5> QED
          BY <5>1, <5>2
      <4>2. DOMAIN q = 1..Len(q)
        BY <2>6
      <4>3. q[j] # q[k]
        BY <2>2, <4>1, <4>2 DEF IsInjective
      <4> QED
        BY <2>2, <4>1, <4>3 DEF ToSet
    <3> QED
      BY <3>1 DEF ToSet
  <2>9. ASSUME NEW j \in 1..Len(q), q[j] # c PROVE q[j] \in ToSet(r)
    <3>1. CASE j < k
      BY <2>2, <2>6, <3>1 DEF ToSet
    <3>2. CASE j > k
      <4>1. j - 1 \in 1..Len(r) /\ r[j - 1] = q[j]
        BY <2>2, <2>6, <3>2
      <4> QED
        BY <4>1, <2>6 DEF ToSet
    <3> QED
      BY <2>2, <2>9, <3>1, <3>2
  <2>10. ToSet(q) \ {c} \subseteq ToSet(r)
    BY <2>9 DEF ToSet
  <2> QED
    BY <2>3, <2>6, <2>7, <2>8, <2>10 DEF r
<1> QED
  BY <1>1, <1>2

-----------------------------------------------------------------------------
(* The permits.                                                            *)

\* The callers at a place are a finite set.
LEMMA AtIsFinite ==
  ASSUME NEW p, NEW S
  PROVE  IsFiniteSet(At(p, S)) /\ Cardinality(At(p, S)) \in Nat
<1>1. IsFiniteSet(Caller)
  BY GatewayAssumption, FS_AddElement DEF Caller
<1> QED
  BY <1>1, FS_Subset, FS_CardinalityType DEF At

\* A caller that comes to hold a permit, or ceases to, is one more, or one less.
LEMMA OneMoves ==
  ASSUME NEW p \in [Caller -> Place], NEW c \in Caller, NEW there \in Place, NEW S
  PROVE  Cardinality(At([p EXCEPT ![c] = there], S))
           = Cardinality(At(p, S)) + (IF there \in S THEN 1 ELSE 0)
                                   - (IF p[c] \in S THEN 1 ELSE 0)
<1> DEFINE A == At(p, S)
           B == At([p EXCEPT ![c] = there], S)
<1>1. IsFiniteSet(A) /\ Cardinality(A) \in Nat
  BY AtIsFinite
<1>2. c \in A <=> p[c] \in S
  BY DEF At
<1>3. CASE there \in S
  <2>1. B = A \cup {c}
    BY <1>3 DEF At
  <2>2. Cardinality(B) = IF c \in A THEN Cardinality(A) ELSE Cardinality(A) + 1
    <3> HIDE DEF A, B
    <3> QED
      BY <1>1, <2>1, FS_AddElement
  <2> HIDE DEF A, B
  <2>3. Cardinality(B) = Cardinality(A) + 1 - (IF p[c] \in S THEN 1 ELSE 0)
    BY <1>1, <1>2, <2>2
  <2> QED
    BY <1>3, <2>3 DEF A, B
<1>4. CASE there \notin S
  <2>1. B = A \ {c}
    BY <1>4 DEF At
  <2>2. Cardinality(B) = IF c \in A THEN Cardinality(A) - 1 ELSE Cardinality(A)
    <3> HIDE DEF A, B
    <3> QED
      BY <1>1, <2>1, FS_RemoveElement
  <2> HIDE DEF A, B
  <2>3. Cardinality(B) = Cardinality(A) + 0 - (IF p[c] \in S THEN 1 ELSE 0)
    BY <1>1, <1>2, <2>2
  <2> QED
    BY <1>4, <2>3 DEF A, B
<1> QED
  BY <1>3, <1>4

\* _wake_up_next hands a permit to a waiter that has none, or there is none;
\* the permits add up, and nobody else is touched.
LEMMA WakeKeeps ==
  ASSUME NEW q \in Seq(Caller), NEW v \in Nat \ {0}, NEW p \in [Caller -> Place],
         ToSet(q) = At(p, {"waiting", "woken"}), Wake(q, v, p)
  PROVE  /\ pc' \in [Caller -> Place]
         /\ value' \in 0..v
         /\ value' + Cardinality(At(pc', {"woken", "calling"}))
              = v + Cardinality(At(p, {"woken", "calling"}))
         /\ At(pc', {"waiting", "woken"}) = At(p, {"waiting", "woken"})
         /\ At(pc', {"waiting"}) = {} \/ At(pc', {"woken"}) # {}
         /\ \A c \in Caller : pc'[c] # p[c] => p[c] = "waiting" /\ pc'[c] = "woken"
<1> DEFINE I == { i \in 1..Len(q) : p[q[i]] = "waiting" }
           first == SelectInSeq(q, LAMBDA c : p[c] = "waiting")
<1>1. first = IF I # {} THEN Min(I) ELSE 0
  BY DEF SelectInSeq
<1>2. IF first = 0
        THEN value' = v /\ pc' = p
        ELSE value' = v - 1 /\ pc' = [p EXCEPT ![q[first]] = "woken"]
  BY DEF Wake
<1> HIDE DEF first
<1>3. \A c \in Caller : p[c] \in Place
  OBVIOUS
<1>4. Cardinality(At(p, {"woken", "calling"})) \in Nat
  BY AtIsFinite
<1>5. CASE I = {}
  <2>1. value' = v /\ pc' = p
    BY <1>1, <1>2, <1>5
  <2>2. At(p, {"waiting"}) = {}
    BY <1>5 DEF At, ToSet
  <2> QED
    BY <2>1, <2>2, <1>4
<1>6. CASE I # {}
  <2>1. I \subseteq Nat
    OBVIOUS
  <2>2. first \in I
    <3> HIDE DEF I
    <3> QED
      BY <1>1, <1>6, <2>1, MinIsLeast
  <2> DEFINE w == q[first]
  <2>3. w \in Caller /\ p[w] = "waiting" /\ first # 0
    BY <2>2, ElementOfSeq
  <2>4. value' = v - 1 /\ pc' = [p EXCEPT ![w] = "woken"]
    BY <1>2, <2>3
  <2> HIDE DEF w
  <2>5. Cardinality(At(pc', {"woken", "calling"}))
          = Cardinality(At(p, {"woken", "calling"})) + 1
    <3>1. Cardinality(At([p EXCEPT ![w] = "woken"], {"woken", "calling"}))
            = Cardinality(At(p, {"woken", "calling"}))
                + (IF "woken" \in {"woken", "calling"} THEN 1 ELSE 0)
                - (IF p[w] \in {"woken", "calling"} THEN 1 ELSE 0)
      BY <2>3, OneMoves DEF Place
    <3> QED
      BY <1>4, <2>3, <2>4, <3>1
  <2>6. /\ pc' \in [Caller -> Place]
        /\ \A c \in Caller : pc'[c] = IF c = w THEN "woken" ELSE p[c]
    BY <2>3, <2>4 DEF Place
  <2>7. /\ At(pc', {"waiting", "woken"}) = At(p, {"waiting", "woken"})
        /\ At(pc', {"woken"}) # {}
    BY <2>3, <2>6 DEF At
  <2>8. /\ value' \in 0..v
        /\ value' + Cardinality(At(pc', {"woken", "calling"}))
             = v + Cardinality(At(p, {"woken", "calling"}))
    BY <1>4, <2>4, <2>5
  <2>9. \A c \in Caller : pc'[c] # p[c] => p[c] = "waiting" /\ pc'[c] = "woken"
    BY <2>3, <2>6
  <2> QED
    BY <2>6, <2>7, <2>8, <2>9
<1> QED
  BY <1>5, <1>6

-----------------------------------------------------------------------------
(* The steps.                                                              *)

\* What the deque and the places of the callers promise each other.
Queued(q, p) ==
  q \in Seq(Caller) /\ IsInjective(q) /\ ToSet(q) = At(p, {"waiting", "woken"})

\* A permit that is given back, by a call that ends or is cancelled: the
\* caller is counted out, and the permit is handed to a waiter or lies idle.
LEMMA ReleaseKeeps ==
  ASSUME TypeOK, PermitsAccounted, NEW c \in Caller, NEW there \in Place,
         pc[c] \in {"woken", "calling"}, there \notin {"waiting", "woken", "calling"},
         Queued(waiters', [pc EXCEPT ![c] = there]),
         Wake(waiters', value + 1, [pc EXCEPT ![c] = there])
  PROVE  /\ pc' \in [Caller -> Place]
         /\ value' \in 0..MaxConcurrency
         /\ PermitsAccounted' /\ NoLostWakeup'
         /\ \A d \in Caller : pc'[d] = "idle" <=> [pc EXCEPT ![c] = there][d] = "idle"
<1> DEFINE p == [pc EXCEPT ![c] = there]
<1>1. p \in [Caller -> Place] /\ value \in Nat /\ value + 1 \in Nat \ {0}
  BY DEF TypeOK
<1>2. Cardinality(At(p, {"woken", "calling"})) = Cardinality(At(pc, {"woken", "calling"})) - 1
  <2>1. pc \in [Caller -> Place] /\ Cardinality(At(pc, {"woken", "calling"})) \in Nat
    BY AtIsFinite DEF TypeOK
  <2>2. Cardinality(At(p, {"woken", "calling"}))
          = Cardinality(At(pc, {"woken", "calling"}))
              + (IF there \in {"woken", "calling"} THEN 1 ELSE 0)
              - (IF pc[c] \in {"woken", "calling"} THEN 1 ELSE 0)
    BY <2>1, OneMoves
  <2> QED
    BY <2>1, <2>2
<1> HIDE DEF p
<1>3. /\ pc' \in [Caller -> Place]
      /\ value' \in 0..(value + 1)
      /\ value' + Cardinality(At(pc', {"woken", "calling"}))
           = value + 1 + Cardinality(At(p, {"woken", "calling"}))
      /\ At(pc', {"waiting", "woken"}) = At(p, {"waiting", "woken"})
      /\ At(pc', {"waiting"}) = {} \/ At(pc', {"woken"}) # {}
      /\ \A d \in Caller : pc'[d] # p[d] => p[d] = "waiting" /\ pc'[d] = "woken"
  <2>1. /\ waiters' \in Seq(Caller) /\ ToSet(waiters') = At(p, {"waiting", "woken"})
        /\ Wake(waiters', value + 1, p)
    BY DEF p, Queued
  <2> QED
    BY <1>1, <2>1, WakeKeeps
<1>4. PermitsAccounted' /\ value' \in 0..MaxConcurrency
  <2>1. /\ Cardinality(At(pc, {"woken", "calling"})) \in Nat
        /\ Cardinality(At(pc', {"woken", "calling"})) \in Nat
        /\ Holding = At(pc, {"woken", "calling"}) /\ Holding' = At(pc', {"woken", "calling"})
    BY AtIsFinite DEF Holding, At
  <2>2. MaxConcurrency \in Nat
    BY GatewayAssumption
  <2> QED
    BY <1>1, <1>2, <1>3, <2>1, <2>2 DEF PermitsAccounted
<1>5. NoLostWakeup'
  <2>1. ToSet(waiters') = At(pc', {"waiting", "woken"}) /\ IsInjective(waiters')
    BY <1>3 DEF Queued, p
  <2> QED
    BY <1>3, <2>1 DEF NoLostWakeup, At
<1>6. \A d \in Caller : pc'[d] = "idle" <=> p[d] = "idle"
  BY <1>3
<1> QED
  BY <1>3, <1>4, <1>5, <1>6 DEF p

\* Nothing in the queue, or in a place that counts, changes by a step of one
\* caller between places that do not count.
LEMMA PlainMoveKeeps ==
  ASSUME TypeOK, PermitsAccounted, NoLostWakeup,
         NEW c \in Caller, NEW there \in Place,
         pc[c] \notin {"waiting", "woken", "calling"},
         there \notin {"waiting", "woken", "calling"},
         pc' = [pc EXCEPT ![c] = there], UNCHANGED <<value, waiters>>
  PROVE  pc' \in [Caller -> Place] /\ PermitsAccounted' /\ NoLostWakeup'
<1>1. /\ At(pc', {"woken", "calling"}) = At(pc, {"woken", "calling"})
      /\ At(pc', {"waiting", "woken"}) = At(pc, {"waiting", "woken"})
      /\ At(pc', {"waiting"}) = At(pc, {"waiting"})
      /\ At(pc', {"woken"}) = At(pc, {"woken"})
  BY DEF At, TypeOK
<1>2. Holding' = Holding
  BY <1>1 DEF Holding, At
<1>3. pc' \in [Caller -> Place] /\ PermitsAccounted'
  BY <1>2 DEF PermitsAccounted, TypeOK
<1>4. NoLostWakeup'
  BY <1>1 DEF NoLostWakeup, At
<1> QED
  BY <1>3, <1>4

LEMMA IInit == Init => IInv
<1> SUFFICES ASSUME Init PROVE IInv
  OBVIOUS
<1>1. TypeOK /\ BlockedByCall
  <2>1. MaxConcurrency \in 0..MaxConcurrency
    BY GatewayAssumption
  <2>2. <<>> \in Seq(Caller) /\ Background \in Caller /\ "none" \in Loop
    BY EmptySeq DEF Caller, Loop
  <2>3. [c \in Caller |-> "idle"] \in [Caller -> Place]
    BY DEF Place
  <2> QED
    BY <2>1, <2>2, <2>3 DEF Init, TypeOK, BlockedByCall
<1>2. Holding = {} /\ MaxConcurrency \in Nat
  BY GatewayAssumption DEF Init, Holding
<1>3. PermitsAccounted
  BY <1>2, FS_EmptySet DEF Init, PermitsAccounted
<1>4. NoLostWakeup
  BY DEF Init, NoLostWakeup, ToSet, IsInjective
<1> QED
  BY <1>1, <1>3, <1>4 DEF IInv

\* What the invariant says, in the words of the lemmas.
LEMMA Facts ==
  ASSUME IInv
  PROVE  /\ pc \in [Caller -> Place] /\ value \in Nat /\ MaxConcurrency \in Nat
         /\ blocked \in Caller /\ coerced \in BOOLEAN /\ refused \in BOOLEAN
         /\ waiters \in Seq(Caller) /\ bound \in Loop
         /\ Queued(waiters, pc) /\ Background \in Caller
         /\ Cardinality(At(pc, {"woken", "calling"})) \in Nat
         /\ value + Cardinality(At(pc, {"woken", "calling"})) = MaxConcurrency
<1>1. MaxConcurrency \in Nat /\ Background \in Caller
  BY GatewayAssumption DEF Caller
<1>2. Queued(waiters, pc)
  BY DEF IInv, TypeOK, NoLostWakeup, Queued, At
<1>3. Holding = At(pc, {"woken", "calling"})
  BY DEF Holding, At
<1>4. Cardinality(At(pc, {"woken", "calling"})) \in Nat
  BY AtIsFinite
<1> QED
  BY <1>1, <1>2, <1>3, <1>4 DEF IInv, TypeOK, PermitsAccounted

\* A step of a caller at the semaphore.
LEMMA StepKeeps ==
  ASSUME IInv, NEW c \in Caller, Step(c)
  PROVE  IInv'
<1> USE DEF IInv
<1>1. /\ pc \in [Caller -> Place] /\ value \in Nat /\ MaxConcurrency \in Nat
      /\ blocked \in Caller /\ coerced \in BOOLEAN /\ refused \in BOOLEAN
      /\ waiters \in Seq(Caller) /\ bound \in Loop
      /\ Queued(waiters, pc) /\ Background \in Caller
      /\ Cardinality(At(pc, {"woken", "calling"})) \in Nat
      /\ value + Cardinality(At(pc, {"woken", "calling"})) = MaxConcurrency
  BY Facts
<1>2. CASE Acquire(c)
  <2>1. pc[c] = "acquire" /\ pc' = [pc EXCEPT ![c] = "calling"] /\ value' = value - 1
        /\ value # 0 /\ waiters = <<>>
        /\ UNCHANGED <<blocked, coerced, waiters, bound, refused>>
    BY <1>2 DEF Acquire, Move, Locked
  <2>2. TypeOK' /\ BlockedByCall'
    BY <1>1, <2>1 DEF TypeOK, BlockedByCall, Place
  <2>3. PermitsAccounted'
    <3>1. Cardinality(At(pc', {"woken", "calling"}))
            = Cardinality(At(pc, {"woken", "calling"}))
                + (IF "calling" \in {"woken", "calling"} THEN 1 ELSE 0)
                - (IF pc[c] \in {"woken", "calling"} THEN 1 ELSE 0)
      BY <1>1, <2>1, OneMoves DEF Place
    <3>2. Holding' = At(pc', {"woken", "calling"})
      BY DEF Holding, At
    <3> QED
      BY <1>1, <2>1, <3>1, <3>2 DEF PermitsAccounted
  <2>4. NoLostWakeup'
    <3>1. \A d \in Caller : pc[d] \notin {"waiting", "woken"}
      BY <1>1, <2>1 DEF Queued, At, ToSet
    <3>2. \A d \in Caller : pc'[d] \notin {"waiting", "woken"}
      BY <1>1, <2>1, <3>1
    <3> QED
      BY <2>1, <3>2 DEF NoLostWakeup, ToSet, IsInjective
  <2> QED
    BY <2>2, <2>3, <2>4
<1>3. CASE Wait(c)
  <2>1. /\ pc[c] = "acquire" /\ pc' = [pc EXCEPT ![c] = "waiting"]
    BY <1>3 DEF Wait, Move
  <2>2. /\ waiters' = Append(waiters, c)
        /\ UNCHANGED <<blocked, coerced, value, refused>> /\ bound' = LoopOf(c)
    BY <1>3 DEF Wait
  <2>3. /\ waiters' \in Seq(Caller) /\ Len(waiters') = Len(waiters) + 1
        /\ \A i \in 1..Len(waiters) : waiters'[i] = waiters[i]
        /\ waiters'[Len(waiters) + 1] = c
    BY <1>1, <2>2, AppendProperties
  <2>4. TypeOK' /\ BlockedByCall'
    BY <1>1, <2>1, <2>2, <2>3 DEF TypeOK, BlockedByCall, Place, Loop, LoopOf
  <2>5. PermitsAccounted'
    <3>1. Holding' = Holding
      BY <1>1, <2>1 DEF Holding
    <3> QED
      BY <2>2, <3>1 DEF PermitsAccounted
  <2>6. c \notin ToSet(waiters)
    BY <1>1, <2>1 DEF Queued, At
  <2>7. /\ DOMAIN waiters = 1..Len(waiters) /\ Len(waiters) \in Nat
        /\ DOMAIN waiters' = 1..(Len(waiters) + 1)
    BY <1>1, <2>3
  <2>8. ToSet(waiters') = ToSet(waiters) \cup {c}
    BY <2>3, <2>7 DEF ToSet
  <2>9. IsInjective(waiters')
    BY <1>1, <2>3, <2>6, <2>7 DEF IsInjective, ToSet, Queued
  <2>10. { d \in Caller : pc'[d] \in {"waiting", "woken"} } = At(pc, {"waiting", "woken"}) \cup {c}
    BY <1>1, <2>1 DEF At
  <2>11. value = 0 \/ \E d \in Caller : pc'[d] = "woken"
    <3>1. CASE value = 0
      BY <3>1
    <3>2. CASE waiters # <<>>
      <4>1. Len(waiters) # 0 /\ waiters[1] \in ToSet(waiters)
        BY <1>1, <3>2, <2>7, EmptySeq DEF ToSet
      <4>2. value = 0 \/ \E d \in Caller : pc[d] = "woken"
        BY <1>1, <4>1 DEF Queued, At, NoLostWakeup
      <4> QED
        BY <1>1, <2>1, <4>2
    <3> QED
      BY <1>3, <3>1, <3>2 DEF Wait, Locked
  <2> QED
    BY <1>1, <2>2, <2>4, <2>5, <2>8, <2>9, <2>10, <2>11 DEF NoLostWakeup, Queued
<1>4. CASE Refuse(c)
  <2>1. /\ pc[c] = "acquire" /\ pc' = [pc EXCEPT ![c] = "idle"]
        /\ UNCHANGED <<value, waiters, bound>> /\ refused' = TRUE
        /\ blocked' = IF c = Background THEN Background ELSE blocked
        /\ coerced' = IF c = Background THEN FALSE ELSE coerced
    BY <1>4 DEF Refuse, Move
  <2>2. pc' \in [Caller -> Place] /\ PermitsAccounted' /\ NoLostWakeup'
    BY <2>1, PlainMoveKeeps DEF Place
  <2>3. TypeOK' /\ BlockedByCall'
    BY <1>1, <2>1, <2>2 DEF TypeOK, BlockedByCall
  <2> QED
    BY <2>2, <2>3
<1>5. CASE Resume(c)
  <2> DEFINE p == [pc EXCEPT ![c] = "calling"]
  <2>1. /\ pc[c] = "woken" /\ waiters' = RemoveFirst(waiters, c)
        /\ UNCHANGED <<blocked, coerced, bound, refused>>
        /\ IF value > 0 THEN Wake(waiters', value, p) ELSE value' = value /\ pc' = p
    BY <1>5 DEF Resume
  <2>2. /\ p \in [Caller -> Place]
        /\ \A d \in Caller : p[d] = IF d = c THEN "calling" ELSE pc[d]
    BY <1>1 DEF Place
  <2> HIDE DEF p
  <2>3. At(p, {"woken", "calling"}) = At(pc, {"woken", "calling"})
    BY <2>1, <2>2 DEF At
  <2>4. At(p, {"waiting", "woken"}) = At(pc, {"waiting", "woken"}) \ {c}
    BY <2>1, <2>2 DEF At
  <2>5. Queued(waiters', p)
    BY <1>1, <2>1, <2>4, RemoveWaiter DEF Queued
  <2>6. /\ pc' \in [Caller -> Place]
        /\ value' \in 0..value
        /\ value' + Cardinality(At(pc', {"woken", "calling"}))
             = value + Cardinality(At(p, {"woken", "calling"}))
        /\ At(pc', {"waiting", "woken"}) = At(p, {"waiting", "woken"})
        /\ value' = 0 \/ At(pc', {"waiting"}) = {} \/ At(pc', {"woken"}) # {}
        /\ \A d \in Caller : pc'[d] # p[d] => p[d] = "waiting" /\ pc'[d] = "woken"
    <3>1. CASE value > 0
      <4>1. /\ waiters' \in Seq(Caller) /\ ToSet(waiters') = At(p, {"waiting", "woken"})
            /\ value \in Nat \ {0} /\ Wake(waiters', value, p)
        BY <1>1, <2>1, <2>5, <3>1 DEF Queued
      <4> QED
        BY <2>2, <4>1, WakeKeeps
    <3>2. CASE ~ value > 0
      <4>1. value' = value /\ value = 0 /\ pc' = p
        BY <1>1, <2>1, <3>2
      <4> QED
        BY <1>1, <2>2, <4>1
    <3> QED
      BY <3>1, <3>2
  <2>7. TypeOK' /\ BlockedByCall'
    <3>1. value' \in 0..MaxConcurrency
      BY <1>1, <2>6 DEF TypeOK
    <3>2. pc'[Background] = "idle" <=> pc[Background] = "idle"
      BY <1>1, <2>1, <2>2, <2>6
    <3> QED
      BY <1>1, <2>1, <2>5, <2>6, <3>1, <3>2 DEF TypeOK, BlockedByCall, Queued
  <2>8. PermitsAccounted'
    BY <1>1, <2>3, <2>6 DEF PermitsAccounted, Holding, At
  <2>9. NoLostWakeup'
    BY <2>5, <2>6 DEF NoLostWakeup, Queued, At
  <2> QED
    BY <2>7, <2>8, <2>9
<1> QED
  BY <1>2, <1>3, <1>4, <1>5 DEF Step

\* A step of a run that is not at the semaphore, or that is cancelled there.
LEMMA TaskKeeps ==
  ASSUME IInv, NEW t \in Task,
         Request(t) \/ Answered(t) \/ Simulate(t) \/ Preview(t) \/ Cancel(t)
  PROVE  IInv'
<1> USE DEF IInv
<1>1. /\ pc \in [Caller -> Place] /\ value \in Nat
      /\ blocked \in Caller /\ coerced \in BOOLEAN /\ refused \in BOOLEAN
      /\ waiters \in Seq(Caller) /\ bound \in Loop
      /\ Queued(waiters, pc) /\ Background \in Caller
      /\ t \in Caller /\ t # Background
  BY Facts, GatewayAssumption DEF Caller
<1>2. CASE Request(t)
  <2>1. /\ pc[t] = "idle" /\ pc' = [pc EXCEPT ![t] = "acquire"]
        /\ UNCHANGED <<blocked, coerced, value, waiters, bound, refused>>
    BY <1>2 DEF Request, Move
  <2>2. pc' \in [Caller -> Place] /\ PermitsAccounted' /\ NoLostWakeup'
    BY <1>1, <2>1, PlainMoveKeeps DEF Place
  <2> QED
    BY <1>1, <2>1, <2>2 DEF TypeOK, BlockedByCall
\* The permit of a call that ends, or of a waiter that is cancelled.
<1>3. ASSUME NEW there \in {"idle", "tool"}, pc[t] \in {"woken", "calling"},
             Wake(waiters', value + 1, [pc EXCEPT ![t] = there]),
             Queued(waiters', [pc EXCEPT ![t] = there]),
             UNCHANGED <<blocked, coerced, bound, refused>>
      PROVE  IInv'
  <2>1. /\ pc' \in [Caller -> Place] /\ value' \in 0..MaxConcurrency
        /\ PermitsAccounted' /\ NoLostWakeup'
        /\ \A d \in Caller : pc'[d] = "idle" <=> [pc EXCEPT ![t] = there][d] = "idle"
    <3>1. /\ there \in Place /\ there \notin {"waiting", "woken", "calling"}
          /\ TypeOK /\ PermitsAccounted
      BY DEF Place
    <3> QED
      BY <1>1, <1>3, <3>1, ReleaseKeeps
  <2>2. pc'[Background] = "idle" <=> pc[Background] = "idle"
    BY <1>1, <2>1
  <2> QED
    BY <1>1, <1>3, <2>1, <2>2 DEF TypeOK, BlockedByCall, Queued
<1>4. CASE Answered(t)
  <2>1. PICK there \in {"idle", "tool"} : Leave(t, there)
    BY <1>4 DEF Answered
  <2>2. /\ pc[t] = "calling" /\ UNCHANGED <<blocked, coerced, waiters, bound, refused>>
    BY <1>4 DEF Answered
  <2>3. At([pc EXCEPT ![t] = there], {"waiting", "woken"}) = At(pc, {"waiting", "woken"})
    BY <1>1, <2>2 DEF At
  <2>4. Queued(waiters', [pc EXCEPT ![t] = there])
    BY <1>1, <2>2, <2>3 DEF Queued
  <2>5. Wake(waiters', value + 1, [pc EXCEPT ![t] = there])
    BY <2>1, <2>2 DEF Leave
  <2> QED
    BY <1>3, <2>2, <2>4, <2>5
\* call_sync: the background loop is free, for the main loop is not blocked.
<1>5. ASSUME NEW there \in {"idle", "tool"}, pc[t] \in {"idle", "tool"}, CallSync(t, there)
      PROVE  IInv'
  <2>1. /\ blocked = Background /\ blocked' = t
        /\ pc' = [pc EXCEPT ![t] = there, ![Background] = "acquire"]
        /\ UNCHANGED <<coerced, value, waiters, bound, refused>>
    BY <1>1, <1>5 DEF CallSync, Runs
  <2>2. pc[Background] = "idle"
    BY <2>1 DEF BlockedByCall
  <2>3. \A d \in Caller : pc'[d] = CASE d = Background -> "acquire"
                                  [] d # Background /\ d = t -> there
                                  [] OTHER -> pc[d]
    BY <1>1, <2>1
  <2>4. pc' \in [Caller -> Place]
    BY <1>1, <2>1 DEF Place
  <2>5. \A d \in Caller : \A q \in {"waiting", "woken", "calling"} : pc'[d] = q <=> pc[d] = q
    BY <1>5, <2>2, <2>3
  <2>6. Holding' = Holding
    BY <2>5 DEF Holding
  <2>7. { c \in Caller : pc'[c] \in {"waiting", "woken"} } = { c \in Caller : pc[c] \in {"waiting", "woken"} }
    BY <2>5
  <2>8. PermitsAccounted' /\ NoLostWakeup'
    BY <2>1, <2>5, <2>6, <2>7 DEF PermitsAccounted, NoLostWakeup
  <2>9. TypeOK' /\ BlockedByCall'
    BY <1>1, <2>1, <2>3, <2>4 DEF TypeOK, BlockedByCall
  <2> QED
    BY <2>8, <2>9
<1>6. CASE Simulate(t)
  BY <1>6, <1>5 DEF Simulate
<1>7. CASE Preview(t)
  BY <1>7, <1>5 DEF Preview
<1>8. CASE Cancel(t)
  <2> DEFINE p == [pc EXCEPT ![t] = "idle"]
  <2>1. /\ waiters' = RemoveFirst(waiters, t)
        /\ UNCHANGED <<blocked, coerced, bound, refused>>
        /\ \/ pc[t] \in {"acquire", "waiting"} /\ pc' = p /\ value' = value
           \/ pc[t] \in {"woken", "calling"} /\ Wake(waiters', value + 1, p)
    BY <1>8 DEF Cancel
  <2>2. At(p, {"waiting", "woken"}) = At(pc, {"waiting", "woken"}) \ {t}
    BY <1>1 DEF At
  <2>3. Queued(waiters', p)
    <3> HIDE DEF p
    <3> QED
      BY <1>1, <2>1, <2>2, RemoveWaiter DEF Queued
  <2>4. CASE pc[t] \in {"acquire", "waiting"}
    <3>1. pc' = p /\ value' = value
      BY <2>1, <2>4
    <3>2. Holding' = Holding
      BY <1>1, <2>4, <3>1 DEF Holding
    <3>3. TypeOK' /\ BlockedByCall' /\ PermitsAccounted'
      BY <1>1, <2>1, <2>3, <3>1, <3>2 DEF TypeOK, BlockedByCall, PermitsAccounted, Queued, Place
    <3>4. (\E c \in Caller : pc'[c] = "waiting")
            => value' = 0 \/ \E c \in Caller : pc'[c] = "woken"
      BY <1>1, <2>4, <3>1 DEF NoLostWakeup
    <3>5. NoLostWakeup'
      BY <2>3, <3>1, <3>4 DEF NoLostWakeup, Queued, At
    <3> QED
      BY <3>3, <3>5
  <2>5. CASE pc[t] \in {"woken", "calling"}
    BY <1>3, <2>1, <2>3, <2>5
  <2> QED
    BY <2>1, <2>4, <2>5
<1> QED
  BY <1>2, <1>4, <1>6, <1>7, <1>8

\* The answer to the call on the background loop.
LEMMA BackgroundKeeps ==
  ASSUME IInv, BackgroundAnswered
  PROVE  IInv'
<1> USE DEF IInv
<1>1. /\ pc \in [Caller -> Place] /\ value \in Nat
      /\ blocked \in Caller /\ coerced \in BOOLEAN /\ refused \in BOOLEAN
      /\ waiters \in Seq(Caller) /\ bound \in Loop
      /\ Queued(waiters, pc) /\ Background \in Caller
  BY Facts
<1>2. PICK there \in {"acquire", "idle"} :
        /\ Leave(Background, there)
        /\ blocked' = IF there = "idle" THEN Background ELSE blocked
        /\ coerced' \in BOOLEAN
  BY DEF BackgroundAnswered
<1>3. pc[Background] = "calling" /\ UNCHANGED <<waiters, bound, refused>>
  BY DEF BackgroundAnswered
<1> DEFINE p == [pc EXCEPT ![Background] = there]
<1>4. At(p, {"waiting", "woken"}) = At(pc, {"waiting", "woken"})
  BY <1>1, <1>3 DEF At
<1>5. Queued(waiters', p) /\ Wake(waiters', value + 1, p)
  BY <1>1, <1>2, <1>3, <1>4 DEF Queued, Leave
<1>6. /\ pc' \in [Caller -> Place] /\ value' \in 0..MaxConcurrency
      /\ PermitsAccounted' /\ NoLostWakeup'
      /\ \A d \in Caller : pc'[d] = "idle" <=> p[d] = "idle"
  <2>1. /\ there \in Place /\ there \notin {"waiting", "woken", "calling"}
        /\ TypeOK /\ PermitsAccounted /\ pc[Background] \in {"woken", "calling"}
    BY <1>3 DEF Place
  <2> QED
    BY <1>1, <1>5, <2>1, ReleaseKeeps
<1>7. TypeOK' /\ BlockedByCall'
  BY <1>1, <1>2, <1>3, <1>6 DEF TypeOK, BlockedByCall
<1> QED
  BY <1>6, <1>7

LEMMA IInvStep == IInv /\ [Next]_vars => IInv'
<1> SUFFICES ASSUME IInv, [Next]_vars PROVE IInv'
  OBVIOUS
<1>1. CASE UNCHANGED vars
  BY <1>1 DEF IInv, TypeOK, PermitsAccounted, Holding, NoLostWakeup, BlockedByCall, vars
<1>2. CASE Next
  BY <1>2, StepKeeps, TaskKeeps, BackgroundKeeps DEF Next
<1> QED
  BY <1>1, <1>2

\* However calls end and whoever is cancelled where, on either loop: every
\* permit is in the semaphore or with one caller, nobody sleeps beside an
\* idle permit, and the queue is exactly the callers that wait.
THEOREM PermitsAlwaysSafe == Spec => []PermitsSafe
<1>1. Spec => []IInv
  BY IInit, IInvStep, PTL DEF Spec
<1>2. IInv => PermitsSafe
  BY DEF IInv, PermitsSafe
<1> QED
  BY <1>1, <1>2, PTL

\* The limit: never more callers than permits are in a call, whatever the
\* callers do.
THEOREM NeverAboveLimit ==
  Spec => [](Cardinality({ c \in Caller : pc[c] = "calling" }) <= MaxConcurrency)
<1>1. IInv => Cardinality({ c \in Caller : pc[c] = "calling" }) <= MaxConcurrency
  <2> SUFFICES ASSUME IInv
               PROVE  Cardinality(At(pc, {"calling"})) <= MaxConcurrency
    BY DEF At
  <2>1. /\ IsFiniteSet(At(pc, {"woken", "calling"}))
        /\ At(pc, {"calling"}) \in SUBSET At(pc, {"woken", "calling"})
    BY AtIsFinite DEF At
  <2>2. Cardinality(At(pc, {"calling"})) <= Cardinality(At(pc, {"woken", "calling"}))
    BY <2>1, FS_Subset
  <2>3. Cardinality(At(pc, {"calling"})) \in Nat
    BY AtIsFinite
  <2> QED
    BY <2>2, <2>3, Facts
<1>2. Spec => []IInv
  BY IInit, IInvStep, PTL DEF Spec
<1> QED
  BY <1>1, <1>2, PTL

-----------------------------------------------------------------------------
(* The inductive invariant of the scenario handler.                        *)

Calls      == UNION {Range(raw.uses) : raw \in Raw}
Use        == [id : Nat \X Nat, call : Calls]
ToolAnswer == [id : Nat \X Nat, error : BOOLEAN]
Message    == [role : {"user", "assistant", "tool_result"}, uses : Seq(Use),
               replies : Seq(ToolAnswer)]
Traces     == [node : Node, at : Nat \ {0}, engine : DOMAIN OutputOf, out : Output]

IsList(s) == s \in Seq(Range(s))

ScenarioTypes ==
  /\ suite \in Suites
  /\ phase \in {"start", "loop", "tools", "exhausted", "attribute", "over"}
  /\ conv \in Seq(Message)
  /\ replies \in Seq(ToolAnswer)
  /\ failed \in 0 .. MaxAttempts - 1
  /\ counter \in [Node -> Nat]
  /\ \E S \in SUBSET Node : outputs \in [S -> Output]
  /\ trace \in Seq(Traces)
  /\ IsList(results)
  /\ \A i \in DOMAIN results : results[i].blame \in Blame \cup {"none"}
  /\ verdict \in {"none", "pass", "fail", "raised"}

IdsOf(x) == [k \in DOMAIN x |-> x[k].id]

\* The calls of a message are answered in the next one, but for the one that
\* is worked off: what is answered of it is a beginning.
Conversation ==
  /\ conv # << >>
  /\ \A i \in DOMAIN conv : conv[i].role = "assistant" =>
       \/ phase = "tools" /\ i = Len(conv)
       \/ i < Len(conv) /\ IdsOf(conv[i].uses) = IdsOf(conv[i + 1].replies)
  /\ phase = "tools" =>
       LET uses == conv[Len(conv)].uses IN
       /\ conv[Len(conv)].role = "assistant"
       /\ Len(replies) < Len(uses)
       /\ \A k \in DOMAIN replies : replies[k].id = uses[k].id
  /\ phase # "tools" => replies = << >>

TurnsLeft ==
  /\ Turns <= MaxIter
  /\ phase \in {"start", "loop"} => Turns < MaxIter

\* What is counted bounds what is traced, and the limit bounds both.
Counts ==
  /\ \A n \in Node : Cardinality(Traced(n, Now)) <= counter[n]
  /\ \A n \in Node, s \in Nat : Cardinality(Traced(n, s)) <= CallLimit

\* The trace goes from scenario to scenario.
InOrder ==
  /\ \A i \in DOMAIN trace : trace[i].at <= Now
  /\ \A i, j \in DOMAIN trace : i < j => trace[i].at <= trace[j].at

\* The outputs out are the last ones traced in scenario s.
LastOf(out, s) ==
  /\ DOMAIN out = {trace[i].node : i \in {j \in DOMAIN trace : trace[j].at = s}}
  /\ \A i \in DOMAIN trace :
       /\ trace[i].at = s
       /\ \A j \in DOMAIN trace : j > i /\ trace[j].at = s => trace[j].node # trace[i].node
       => out[trace[i].node] = trace[i].out

OutputsKept ==
  /\ LastOf(outputs, Now)
  /\ \A s \in DOMAIN results :
       IF results[s].error = "unavailable" THEN results[s].outputs = << >>
                                           ELSE LastOf(results[s].outputs, s)

\* What the handler leaves in the state; what is traced is of scenarios it kept.
LeftInState ==
  /\ phase = "start" => trace = << >> /\ results = << >> /\ merged = << >>
  /\ phase = "over" /\ verdict # "raised" =>
       /\ merged = Merge(results)
       /\ \A i \in DOMAIN trace : trace[i].at \in DOMAIN results

Match(i) == results[i].actual # NotJson /\ Equal(suite[i], results[i].actual)

VerdictFollows ==
  /\ phase # "over" => verdict = "none"
  /\ phase = "over" => verdict # "none"
  /\ phase \notin {"start", "over"} => Len(results) < Len(suite)
  /\ phase = "attribute" => answer # NotJson /\ ~Equal(suite[Now], answer)
  /\ \A i \in DOMAIN results : Passed(results[i]) <=> Match(i)
  /\ phase = "over" /\ verdict # "raised" =>
       /\ Len(results) = Len(suite)
       /\ verdict = "pass" <=> suite # << >> /\ \A i \in DOMAIN results : Passed(results[i])

ScenarioInv == /\ ScenarioTypes /\ Conversation /\ TurnsLeft /\ Counts /\ InOrder
               /\ OutputsKept /\ LeftInState /\ VerdictFollows

-----------------------------------------------------------------------------
(* Lists                                                                   *)

LEMMA AppendTyped ==
  ASSUME NEW S, NEW s \in Seq(S), NEW e \in S
  PROVE  /\ Append(s, e) \in Seq(S)
         /\ Len(s) \in Nat /\ Len(Append(s, e)) = Len(s) + 1
         /\ DOMAIN s = 1 .. Len(s) /\ DOMAIN Append(s, e) = 1 .. Len(s) + 1
         /\ \A i \in 1 .. Len(s) : Append(s, e)[i] = s[i]
         /\ Append(s, e)[Len(s) + 1] = e
BY AppendProperties

\* A list keeps its places when one is added.
LEMMA AppendToList ==
  ASSUME NEW s, IsList(s), NEW e
  PROVE  /\ IsList(Append(s, e))
         /\ Len(s) \in Nat /\ Len(Append(s, e)) = Len(s) + 1
         /\ DOMAIN s = 1 .. Len(s) /\ DOMAIN Append(s, e) = 1 .. Len(s) + 1
         /\ \A i \in 1 .. Len(s) : Append(s, e)[i] = s[i]
         /\ Append(s, e)[Len(s) + 1] = e
<1> DEFINE S == Range(s) \cup {e}
           t == Append(s, e)
<1>1. s \in Seq(S) /\ e \in S
  BY DEF IsList
<1>2. /\ t \in Seq(S) /\ Len(s) \in Nat /\ Len(t) = Len(s) + 1
      /\ DOMAIN s = 1 .. Len(s) /\ DOMAIN t = 1 .. Len(s) + 1
      /\ \A i \in 1 .. Len(s) : t[i] = s[i]
      /\ t[Len(s) + 1] = e
  <2> HIDE DEF S, t
  <2> QED BY <1>1, AppendTyped DEF t
<1>3. t \in Seq(Range(t))
  <2>1. \A i \in DOMAIN t : t[i] \in Range(t)
    BY DEF Range
  <2> HIDE DEF t
  <2>2. QED BY <1>2, <2>1
<1>4. QED
  BY <1>2, <1>3 DEF IsList

-----------------------------------------------------------------------------
(* The conversation                                                        *)

Said(c) == {i \in DOMAIN c : c[i].role = "assistant"}

LEMMA SaidMore ==
  ASSUME NEW c \in Seq(Message), NEW m \in Message
  PROVE  /\ IsFiniteSet(Said(c)) /\ Cardinality(Said(c)) \in Nat
         /\ m.role = "assistant" => Cardinality(Said(Append(c, m))) = Cardinality(Said(c)) + 1
         /\ m.role # "assistant" => Said(Append(c, m)) = Said(c)
<1> DEFINE d == Append(c, m)
<1>1. /\ Len(c) \in Nat /\ DOMAIN c = 1 .. Len(c) /\ DOMAIN d = 1 .. Len(c) + 1
      /\ \A i \in 1 .. Len(c) : d[i] = c[i]
      /\ d[Len(c) + 1] = m
  BY AppendTyped
<1> HIDE DEF d
<1>2. IsFiniteSet(Said(c)) /\ Cardinality(Said(c)) \in Nat
  <2>1. IsFiniteSet(1 .. Len(c))
    BY <1>1, FS_Interval
  <2>2. Said(c) \subseteq 1 .. Len(c)
    BY <1>1 DEF Said
  <2>3. QED
    BY <2>1, <2>2, FS_Subset, FS_CardinalityType
<1>3. CASE m.role = "assistant"
  <2>1. Said(d) = Said(c) \cup {Len(c) + 1} /\ Len(c) + 1 \notin Said(c)
    BY <1>1, <1>3 DEF Said
  <2>2. QED
    BY <1>2, <1>3, <2>1, FS_AddElement DEF d
<1>4. CASE m.role # "assistant"
  BY <1>1, <1>2, <1>4 DEF Said, d
<1>5. QED
  BY <1>3, <1>4

LEMMA NothingSaid == Said(<<User>>) = {} /\ Cardinality(Said(<<User>>)) = 0
<1>1. Said(<<User>>) = {}
  BY DEF Said, User
<1>2. QED
  BY <1>1, FS_EmptySet

\* The loop goes on talking where it was, or ends.
LEMMA TalkEnds ==
  ASSUME Conversation, TurnsLeft, UNCHANGED <<conv, replies>>,
         phase # "tools", phase' # "tools",
         phase' = "loop" => phase \in {"start", "loop"}, phase' # "start"
  PROVE  Conversation' /\ TurnsLeft'
<1>1. Turns' = Turns
  BY DEF Turns
<1>2. TurnsLeft'
  BY <1>1 DEF TurnsLeft
<1>3. Conversation'
  <2>1. /\ conv' = conv /\ replies' = replies /\ conv # << >> /\ replies = << >>
        /\ \A i \in DOMAIN conv : conv[i].role = "assistant" =>
             i < Len(conv) /\ IdsOf(conv[i].uses) = IdsOf(conv[i + 1].replies)
    BY DEF Conversation
  <2>2. QED
    BY <2>1 DEF Conversation
<1>4. QED
  BY <1>2, <1>3

\* The next scenario starts from the prompt.
LEMMA TalkStarts ==
  ASSUME conv' = <<User>>, replies' = << >>, phase' # "tools"
  PROVE  Conversation' /\ TurnsLeft'
<1>1. Turns' = 0
  BY NothingSaid DEF Turns, Said
<1>2. MaxIter \in Nat \ {0}
  BY ScenarioAssumption
<1>3. TurnsLeft'
  BY <1>1, <1>2 DEF TurnsLeft
<1>4. Conversation'
  BY DEF Conversation, User
<1>5. QED
  BY <1>3, <1>4

\* The LLM asks for tools.
LEMMA TalkAsks ==
  ASSUME ScenarioTypes, Conversation, TurnsLeft,
         NEW uses \in Seq(Use), uses # << >>,
         phase = "loop", phase' = "tools",
         conv' = Append(conv, Assistant(uses)), UNCHANGED replies
  PROVE  Conversation' /\ TurnsLeft'
<1> DEFINE m == Assistant(uses)
<1>1. conv \in Seq(Message) /\ m \in Message /\ m.role = "assistant" /\ m.uses = uses
  BY EmptySeq DEF ScenarioTypes, Assistant, Message
<1> HIDE DEF m
<1>2. /\ Len(conv) \in Nat /\ Len(conv') = Len(conv) + 1
      /\ DOMAIN conv = 1 .. Len(conv) /\ DOMAIN conv' = 1 .. Len(conv) + 1
      /\ \A i \in 1 .. Len(conv) : conv'[i] = conv[i]
      /\ conv'[Len(conv) + 1] = m
  BY <1>1, AppendTyped DEF m
<1>3. TurnsLeft'
  <2>1. Turns' = Turns + 1 /\ Turns \in Nat
    BY <1>1, SaidMore DEF Turns, Said, m
  <2>2. QED
    BY <2>1, ScenarioAssumption DEF TurnsLeft
<1>4. replies = << >> /\ Len(uses) > 0
  BY EmptySeq, LenProperties DEF Conversation
<1>5. \A i \in DOMAIN conv' : conv'[i].role = "assistant" =>
        \/ i = Len(conv')
        \/ i < Len(conv') /\ IdsOf(conv'[i].uses) = IdsOf(conv'[i + 1].replies)
  <2> SUFFICES ASSUME NEW i \in DOMAIN conv', conv'[i].role = "assistant", i # Len(conv')
               PROVE  i < Len(conv') /\ IdsOf(conv'[i].uses) = IdsOf(conv'[i + 1].replies)
    OBVIOUS
  <2>1. i \in 1 .. Len(conv) /\ conv'[i] = conv[i]
    BY <1>2
  <2>2. i < Len(conv) /\ IdsOf(conv[i].uses) = IdsOf(conv[i + 1].replies)
    BY <1>2, <2>1 DEF Conversation
  <2>3. conv'[i + 1] = conv[i + 1]
    BY <1>2, <2>1, <2>2
  <2>4. QED
    BY <1>2, <2>1, <2>2, <2>3
<1>6. Conversation'
  <2>1. conv'[Len(conv')].role = "assistant" /\ conv'[Len(conv')].uses = uses
    BY <1>1, <1>2
  <2>2. conv' # << >> /\ replies' = << >>
    BY <1>2, <1>4
  <2>3. QED
    BY <1>4, <1>5, <2>1, <2>2 DEF Conversation
<1>7. QED
  BY <1>3, <1>6

\* A result is given for the current call.
LEMMA TalkReplies ==
  ASSUME ScenarioTypes, Conversation, TurnsLeft, phase = "tools",
         NEW isError \in BOOLEAN, Reply(isError)
  PROVE  /\ Conversation' /\ TurnsLeft'
         /\ phase' \in {"loop", "tools", "exhausted"}
         /\ conv' \in Seq(Message) /\ replies' \in Seq(ToolAnswer)
<1> DEFINE uses == conv[Len(conv)].uses
           a == [id |-> Current.id, error |-> isError]
           r == Append(replies, a)
<1>1. /\ conv \in Seq(Message) /\ replies \in Seq(ToolAnswer)
      /\ conv # << >> /\ Len(conv) \in Nat \ {0} /\ DOMAIN conv = 1 .. Len(conv)
      /\ conv[Len(conv)] \in Message /\ conv[Len(conv)].role = "assistant"
      /\ uses \in Seq(Use) /\ Len(uses) \in Nat /\ DOMAIN uses = 1 .. Len(uses)
      /\ Len(replies) \in Nat /\ DOMAIN replies = 1 .. Len(replies)
      /\ Len(replies) < Len(uses)
      /\ \A k \in DOMAIN replies : replies[k].id = uses[k].id
  <2>1. /\ conv \in Seq(Message) /\ replies \in Seq(ToolAnswer) /\ conv # << >>
        /\ conv[Len(conv)].role = "assistant" /\ Len(replies) < Len(uses)
        /\ \A k \in DOMAIN replies : replies[k].id = uses[k].id
    BY DEF ScenarioTypes, Conversation
  <2>2. Len(conv) \in Nat \ {0} /\ DOMAIN conv = 1 .. Len(conv) /\ conv[Len(conv)] \in Message
    BY <2>1, EmptySeq, LenProperties, ElementOfSeq
  <2>3. uses \in Seq(Use)
    BY <2>2 DEF Message
  <2>4. QED
    BY <2>1, <2>2, <2>3, LenProperties
<1>2. Last(conv).uses = uses
  BY DEF Last
<1>3. a.id = uses[Len(replies) + 1].id /\ a \in ToolAnswer
  <2>1. uses[Len(replies) + 1] \in Use
    BY <1>1
  <2>2. QED
    BY <1>2, <2>1 DEF Current, Use, ToolAnswer
<1>4. /\ r \in Seq(ToolAnswer) /\ Len(r) = Len(replies) + 1 /\ DOMAIN r = 1 .. Len(r)
      /\ \A k \in DOMAIN r : r[k].id = uses[k].id
  <2> HIDE DEF a
  <2>1. /\ r \in Seq(ToolAnswer) /\ Len(r) = Len(replies) + 1 /\ DOMAIN r = 1 .. Len(r)
        /\ \A k \in 1 .. Len(replies) : r[k] = replies[k]
        /\ r[Len(replies) + 1] = a
    BY <1>1, <1>3, AppendTyped
  <2> HIDE DEF r, uses
  <2>2. QED
    BY <1>1, <1>3, <2>1
<1> HIDE DEF r, uses
<1>5. CASE Len(r) # Len(uses)
  <2>1. replies' = r /\ phase' = phase /\ conv' = conv
    BY <1>2, <1>5 DEF Reply, r, a
  <2>2. Turns' = Turns
    BY <2>1 DEF Turns
  <2>3. TurnsLeft'
    BY <2>1, <2>2 DEF TurnsLeft
  <2>4. Conversation'
    BY <1>1, <1>4, <1>5, <2>1 DEF Conversation, uses
  <2>5. QED
    BY <1>1, <1>4, <2>1, <2>3, <2>4
<1>6. CASE Len(r) = Len(uses)
  <2>1. /\ replies' = << >> /\ conv' = Append(conv, Tool(r))
        /\ phase' = IF Turns < MaxIter THEN "loop" ELSE "exhausted"
    BY <1>2, <1>6 DEF Reply, r, a
  <2>2. Tool(r) \in Message /\ Tool(r).role = "tool_result" /\ Tool(r).replies = r
    BY <1>4, EmptySeq DEF Tool, Message
  <2>3. /\ conv' \in Seq(Message) /\ Len(conv') = Len(conv) + 1
        /\ DOMAIN conv' = 1 .. Len(conv) + 1
        /\ \A i \in 1 .. Len(conv) : conv'[i] = conv[i]
        /\ conv'[Len(conv) + 1] = Tool(r)
    BY <1>1, <2>1, <2>2, AppendTyped
  <2>4. Turns' = Turns
    <3>1. Said(conv') = Said(conv)
      BY <1>1, <2>1, <2>2, SaidMore
    <3>2. QED
      BY <3>1 DEF Turns, Said
  <2>5. TurnsLeft'
    BY <2>1, <2>4 DEF TurnsLeft
  <2>6. IdsOf(uses) = IdsOf(r)
    BY <1>1, <1>4, <1>6 DEF IdsOf
  <2>7. \A i \in DOMAIN conv' : conv'[i].role = "assistant" =>
          i < Len(conv') /\ IdsOf(conv'[i].uses) = IdsOf(conv'[i + 1].replies)
    <3> SUFFICES ASSUME NEW i \in DOMAIN conv', conv'[i].role = "assistant"
                 PROVE  i < Len(conv') /\ IdsOf(conv'[i].uses) = IdsOf(conv'[i + 1].replies)
      OBVIOUS
    <3>1. i \in 1 .. Len(conv) /\ conv'[i] = conv[i]
      BY <1>1, <2>2, <2>3
    <3>2. CASE i = Len(conv)
      BY <1>1, <2>2, <2>3, <2>6, <3>1, <3>2 DEF uses
    <3>3. CASE i # Len(conv)
      <4>1. i < Len(conv) /\ IdsOf(conv[i].uses) = IdsOf(conv[i + 1].replies)
        BY <1>1, <3>1, <3>3 DEF Conversation
      <4>2. conv'[i + 1] = conv[i + 1]
        BY <1>1, <2>3, <3>1, <4>1
      <4>3. QED
        BY <1>1, <2>3, <3>1, <4>1, <4>2
    <3>4. QED
      BY <3>2, <3>3
  <2>8. Conversation'
    <3>1. phase' # "tools" /\ conv' # << >>
      BY <1>1, <2>1, <2>3
    <3>2. QED
      BY <2>1, <2>7, <3>1 DEF Conversation
  <2>9. << >> \in Seq(ToolAnswer)
    BY EmptySeq
  <2>10. QED
    BY <2>1, <2>3, <2>5, <2>8, <2>9
<1>7. QED
  BY <1>5, <1>6

-----------------------------------------------------------------------------
(* Counters, trace and outputs                                             *)

Tally == Counts /\ InOrder /\ OutputsKept

LEMMA TracedCount ==
  ASSUME trace \in Seq(Traces), NEW n, NEW s
  PROVE  IsFiniteSet(Traced(n, s)) /\ Cardinality(Traced(n, s)) \in Nat
<1>1. DOMAIN trace = 1 .. Len(trace) /\ Len(trace) \in Nat
  BY LenProperties
<1>2. IsFiniteSet(1 .. Len(trace)) /\ Traced(n, s) \subseteq 1 .. Len(trace)
  BY <1>1, FS_Interval DEF Traced
<1>3. QED
  BY <1>2, FS_Subset, FS_CardinalityType

\* Nothing is traced, or a call is counted that is not executed.
LEMMA TallyStays ==
  ASSUME ScenarioTypes, Tally, UNCHANGED <<trace, results, outputs>>,
         counter' \in [Node -> Nat], \A n \in Node : counter'[n] >= counter[n]
  PROVE  Tally'
<1>1. Now' = Now /\ \A n, s : Traced(n, s)' = Traced(n, s)
  BY DEF Now, Traced
<1>2. \A n \in Node : Cardinality(Traced(n, Now)) \in Nat /\ counter[n] \in Nat /\ counter'[n] \in Nat
  BY TracedCount DEF ScenarioTypes
<1>3. Counts'
  BY <1>1, <1>2 DEF Counts, Tally
<1>4. InOrder'
  BY <1>1 DEF InOrder, Tally
<1>5. OutputsKept'
  BY <1>1 DEF OutputsKept, LastOf, Tally
<1>6. QED
  BY <1>3, <1>4, <1>5 DEF Tally

\* A scenario is done: what was put out in it is in its result, unless its LLM
\* became unavailable, and the next one has nothing.
LEMMA TallyOfNext ==
  ASSUME ScenarioTypes, Tally, NEW r, Keep(r),
         IF r.error = "unavailable" THEN r.outputs = << >> ELSE r.outputs = outputs
  PROVE  Tally'
<1>1. /\ results' = Append(results, r) /\ trace' = trace
      /\ counter' = [n \in Node |-> 0] /\ outputs' = << >>
  BY DEF Keep, Fresh
<1>2. /\ IsList(results') /\ Len(results) \in Nat /\ Len(results') = Len(results) + 1
      /\ DOMAIN results = 1 .. Len(results) /\ DOMAIN results' = 1 .. Len(results) + 1
      /\ \A i \in 1 .. Len(results) : results'[i] = results[i]
      /\ results'[Len(results) + 1] = r
  BY <1>1, AppendToList DEF ScenarioTypes
<1>3. Now \in Nat /\ Now = Len(results) + 1 /\ Now' = Now + 1
  BY <1>2 DEF Now
<1>4. \A i \in DOMAIN trace : trace[i].at \in Nat /\ trace[i].at <= Now
  <2>1. \A i \in DOMAIN trace : trace[i] \in Traces
    BY ElementOfSeq, LenProperties DEF ScenarioTypes
  <2>2. QED
    BY <2>1 DEF Tally, InOrder, Traces
<1>5. \A n, s : Traced(n, s)' = Traced(n, s)
  BY <1>1 DEF Traced
<1>6. Counts'
  <2>1. \A n \in Node : Traced(n, Now') = {}
    BY <1>3, <1>4 DEF Traced
  <2>2. \A n \in Node : Cardinality(Traced(n, Now)') <= counter'[n]
    <3> SUFFICES ASSUME NEW n \in Node PROVE Cardinality(Traced(n, Now)') <= counter'[n]
      OBVIOUS
    <3>1. Traced(n, Now)' = {}
      BY <1>1, <2>1 DEF Traced
    <3>2. counter'[n] = 0
      BY <1>1
    <3>3. QED
      BY <3>1, <3>2, FS_EmptySet
  <2>3. \A n \in Node, s \in Nat : Cardinality(Traced(n, s)') <= CallLimit
    BY <1>5 DEF Tally, Counts
  <2>4. QED
    BY <2>2, <2>3 DEF Counts
<1>7. InOrder'
  BY <1>1, <1>3, <1>4 DEF Tally, InOrder
<1>8. OutputsKept'
  <2>1. LastOf(<< >>, Now')
    BY <1>3, <1>4 DEF LastOf
  <2>2. \A out, s : LastOf(out, s) => LastOf(out, s)'
    BY <1>1 DEF LastOf
  <2>3. ASSUME NEW s \in DOMAIN results'
        PROVE  IF results'[s].error = "unavailable" THEN results'[s].outputs = << >>
                                                   ELSE LastOf(results'[s].outputs, s)
    <3>1. CASE s \in 1 .. Len(results)
      BY <1>2, <3>1 DEF Tally, OutputsKept
    <3>2. CASE s = Len(results) + 1
      BY <1>2, <1>3, <3>2 DEF Tally, OutputsKept
    <3>3. QED
      BY <1>2, <2>3, <3>1, <3>2
  <2>4. LastOf(outputs, Now)'
    BY <1>1, <2>1 DEF LastOf
  <2>5. \A s \in DOMAIN results' :
          IF results'[s].error = "unavailable" THEN results'[s].outputs = << >>
                                               ELSE LastOf(results[s].outputs, s)'
    BY <1>1, <2>3 DEF LastOf
  <2>6. QED
    BY <2>4, <2>5 DEF OutputsKept
<1>9. QED
  BY <1>6, <1>7, <1>8 DEF Tally

\* A call is executed: it is counted, traced and put out.
LEMMA TallyOfCall ==
  ASSUME ScenarioTypes, Tally, NEW n \in Node, NEW x \in Traces,
         x.node = n, x.at = Now, ~Over(n), Counted(n), Record(n, x), UNCHANGED results
  PROVE  Tally'
<1>1. /\ trace \in Seq(Traces) /\ Len(trace) \in Nat
      /\ trace' \in Seq(Traces) /\ Len(trace') = Len(trace) + 1
      /\ DOMAIN trace = 1 .. Len(trace) /\ DOMAIN trace' = 1 .. Len(trace) + 1
      /\ \A i \in 1 .. Len(trace) : trace'[i] = trace[i]
      /\ trace'[Len(trace) + 1] = x
  BY AppendTyped DEF ScenarioTypes, Record
<1>2. \A i \in DOMAIN trace' : trace'[i].at \in Nat
  <2>1. \A i \in DOMAIN trace' : trace'[i] \in Traces
    BY <1>1, ElementOfSeq
  <2>2. QED
    BY <2>1 DEF Traces
<1>3. Now' = Now /\ Now \in Nat
  <2>1. x.at \in Nat
    BY DEF Traces
  <2>2. QED
    BY <2>1 DEF Now
<1>4. counter[n] + 1 <= CallLimit /\ counter[n] \in Nat /\ CallLimit \in Nat
      /\ counter' = [counter EXCEPT ![n] = counter[n] + 1]
  BY ScenarioAssumption DEF ScenarioTypes, Over, Counted
<1>5. Counts'
  <2>1. ASSUME NEW m \in Node, NEW s \in Nat, m # n \/ s # Now
        PROVE  Traced(m, s)' = Traced(m, s)
    BY <1>1, <2>1 DEF Traced
  <2>2. /\ Traced(n, Now)' = Traced(n, Now) \cup {Len(trace) + 1}
        /\ Len(trace) + 1 \notin Traced(n, Now)
    BY <1>1, <1>3 DEF Traced
  <2>3. /\ Cardinality(Traced(n, Now)') = Cardinality(Traced(n, Now)) + 1
        /\ Cardinality(Traced(n, Now)) \in Nat
    <3> DEFINE S == Traced(n, Now)
    <3>1. IsFiniteSet(S) /\ Cardinality(S) \in Nat
      BY <1>1, TracedCount
    <3>2. Len(trace) + 1 \notin S
      BY <2>2
    <3> HIDE DEF S
    <3>3. Cardinality(S \cup {Len(trace) + 1}) = Cardinality(S) + 1
      BY <3>1, <3>2, FS_AddElement
    <3>4. QED
      BY <2>2, <3>1, <3>3 DEF S
  <2>4. Cardinality(Traced(n, Now)) <= counter[n]
    BY DEF Tally, Counts
  <2>5. \A m \in Node : Cardinality(Traced(m, Now)') <= counter'[m]
    <3> SUFFICES ASSUME NEW m \in Node PROVE Cardinality(Traced(m, Now)') <= counter'[m]
      OBVIOUS
    <3>1. CASE m = n
      BY <1>4, <2>3, <2>4, <3>1 DEF ScenarioTypes
    <3>2. CASE m # n
      <4>1. Traced(m, Now)' = Traced(m, Now)
        BY <1>3, <2>1, <3>2 DEF Traced
      <4>2. counter'[m] = counter[m]
        BY <1>4, <3>2 DEF ScenarioTypes
      <4>3. QED
        BY <4>1, <4>2 DEF Tally, Counts
    <3>3. QED
      BY <3>1, <3>2
  <2>6. ASSUME NEW m \in Node, NEW s \in Nat
        PROVE  Cardinality(Traced(m, s)') <= CallLimit
    <3>1. CASE m = n /\ s = Now
      <4>1. Traced(m, s)' = Traced(n, Now)'
        BY <1>3, <3>1 DEF Traced
      <4>2. QED
        BY <1>4, <2>3, <2>4, <4>1
    <3>2. CASE m # n \/ s # Now
      BY <2>1, <3>2 DEF Tally, Counts
    <3>3. QED
      BY <3>1, <3>2
  <2>7. QED
    BY <2>5, <2>6 DEF Counts
<1>6. InOrder'
  <2>1. \A i \in 1 .. Len(trace) : trace'[i].at <= Now
    BY <1>1 DEF Tally, InOrder
  <2>2. \A i, j \in 1 .. Len(trace) : i < j => trace'[i].at <= trace'[j].at
    BY <1>1 DEF Tally, InOrder
  <2>3. \A i \in DOMAIN trace' : trace'[i].at <= Now'
    BY <1>1, <1>3, <2>1
  <2>4. ASSUME NEW i \in DOMAIN trace', NEW j \in DOMAIN trace', i < j
        PROVE  trace'[i].at <= trace'[j].at
    <3>1. i \in 1 .. Len(trace)
      BY <1>1, <2>4
    <3>2. CASE j \in 1 .. Len(trace)
      BY <2>2, <2>4, <3>1, <3>2
    <3>3. CASE j = Len(trace) + 1
      BY <1>1, <2>1, <3>1, <3>3
    <3>4. QED
      BY <1>1, <3>2, <3>3
  <2>5. QED
    BY <2>3, <2>4 DEF InOrder
<1>7. OutputsKept'
  <2>1. ASSUME NEW out, NEW s, s # Now, LastOf(out, s)
        PROVE  LastOf(out, s)'
    <3>1. {trace'[i].node : i \in {j \in DOMAIN trace' : trace'[j].at = s}}
          = {trace[i].node : i \in {j \in DOMAIN trace : trace[j].at = s}}
      <4>1. {j \in DOMAIN trace' : trace'[j].at = s} = {j \in DOMAIN trace : trace[j].at = s}
        BY <1>1, <2>1
      <4>2. \A i \in {j \in DOMAIN trace : trace[j].at = s} : trace'[i].node = trace[i].node
        BY <1>1
      <4>3. QED
        BY <4>1, <4>2
    <3>2. ASSUME NEW i \in DOMAIN trace', trace'[i].at = s,
                 \A j \in DOMAIN trace' : j > i /\ trace'[j].at = s => trace'[j].node # trace'[i].node
          PROVE  out[trace'[i].node] = trace'[i].out
      <4>1. i \in DOMAIN trace /\ trace'[i] = trace[i]
        BY <1>1, <2>1, <3>2
      <4>2. \A j \in DOMAIN trace : j > i /\ trace[j].at = s => trace[j].node # trace[i].node
        BY <1>1, <3>2, <4>1
      <4>3. QED
        BY <2>1, <3>2, <4>1, <4>2 DEF LastOf
    <3>3. QED
      BY <2>1, <3>1, <3>2 DEF LastOf
  <2>2. LastOf(outputs, Now)'
    <3>1. /\ DOMAIN outputs' = DOMAIN outputs \cup {n}
          /\ outputs'[n] = x.out
          /\ \A m \in DOMAIN outputs : m # n => outputs'[m] = outputs[m]
      BY DEF Record, Override
    <3>2. DOMAIN outputs' = {trace'[i].node : i \in {j \in DOMAIN trace' : trace'[j].at = Now'}}
      <4>1. {j \in DOMAIN trace' : trace'[j].at = Now'}
            = {j \in DOMAIN trace : trace[j].at = Now} \cup {Len(trace) + 1}
        BY <1>1, <1>3
      <4>2. \A i \in {j \in DOMAIN trace : trace[j].at = Now} : trace'[i].node = trace[i].node
        BY <1>1
      <4>3. DOMAIN outputs = {trace[i].node : i \in {j \in DOMAIN trace : trace[j].at = Now}}
        BY DEF Tally, OutputsKept, LastOf
      <4>4. trace'[Len(trace) + 1].node = n
        BY <1>1
      <4>5. QED
        BY <3>1, <4>1, <4>2, <4>3, <4>4
    <3>3. ASSUME NEW i \in DOMAIN trace', trace'[i].at = Now',
                 \A j \in DOMAIN trace' : j > i /\ trace'[j].at = Now' => trace'[j].node # trace'[i].node
          PROVE  outputs'[trace'[i].node] = trace'[i].out
      <4>1. CASE i = Len(trace) + 1
        BY <1>1, <3>1, <4>1
      <4>2. CASE i \in 1 .. Len(trace)
        <5>1. trace[i].node # n
          BY <1>1, <1>3, <3>3, <4>2
        <5>2. \A j \in DOMAIN trace : j > i /\ trace[j].at = Now => trace[j].node # trace[i].node
          BY <1>1, <1>3, <3>3, <4>2
        <5>3. trace[i].node \in DOMAIN outputs /\ outputs[trace[i].node] = trace[i].out
          BY <1>1, <1>3, <3>3, <4>2, <5>2 DEF Tally, OutputsKept, LastOf
        <5>4. QED
          BY <1>1, <3>1, <4>2, <5>1, <5>3
      <4>3. QED
        BY <1>1, <4>1, <4>2
    <3>4. QED
      BY <3>2, <3>3 DEF LastOf
  <2>3. \A s \in DOMAIN results : s # Now
    <3>1. DOMAIN results = 1 .. Len(results) /\ Len(results) \in Nat
      BY LenProperties DEF ScenarioTypes, IsList
    <3>2. QED
      BY <3>1 DEF Now
  <2>4. \A s \in DOMAIN results' :
          IF results'[s].error = "unavailable" THEN results'[s].outputs = << >>
                                               ELSE LastOf(results[s].outputs, s)'
    <3> SUFFICES ASSUME NEW s \in DOMAIN results, results[s].error # "unavailable"
                 PROVE  LastOf(results[s].outputs, s)'
      BY DEF Tally, OutputsKept
    <3>1. LastOf(results[s].outputs, s)
      BY DEF Tally, OutputsKept
    <3>2. PICK out : out = results[s].outputs
      OBVIOUS
    <3>3. LastOf(out, s)'
      BY <2>1, <2>3, <3>1, <3>2
    <3>4. QED
      BY <3>2, <3>3 DEF LastOf
  <2>5. QED
    BY <2>2, <2>4 DEF OutputsKept
<1>8. QED
  BY <1>5, <1>6, <1>7 DEF Tally

-----------------------------------------------------------------------------
(* One lemma per action                                                    *)

LEMMA SuiteIsList ==
  ASSUME ScenarioTypes
  PROVE  suite \in Seq(Range(suite)) /\ Len(suite) \in Nat /\ (suite = << >> <=> Len(suite) = 0)
<1>1. suite \in Seq(Range(suite))
  BY ScenarioAssumption DEF ScenarioTypes
<1>2. QED
  BY <1>1, LenProperties, EmptySeq

LEMMA ScenarioInitInv == ScenarioInit => ScenarioInv
<1> SUFFICES ASSUME ScenarioInit PROVE ScenarioInv
  OBVIOUS
<1> USE DEF ScenarioInit
<1>1. ScenarioTypes
  <2>1. User \in Message
    BY EmptySeq DEF User, Message
  <2>2. << >> \in [{} -> Output] /\ IsList(results) /\ failed \in 0 .. MaxAttempts - 1
    BY EmptySeq, ScenarioAssumption DEF IsList
  <2>3. conv \in Seq(Message) /\ replies \in Seq(ToolAnswer) /\ trace \in Seq(Traces)
    BY <2>1, EmptySeq
  <2>4. counter \in [Node -> Nat] /\ \E S \in SUBSET Node : outputs \in [S -> Output]
    BY <2>2
  <2>5. QED
    BY <2>2, <2>3, <2>4 DEF ScenarioTypes
<1>2. Conversation
  BY DEF Conversation, User
<1>3. TurnsLeft
  BY NothingSaid, ScenarioAssumption DEF TurnsLeft, Turns, Said
<1>4. Now = 1 /\ \A n, s : Traced(n, s) = {}
  BY DEF Now, Traced
<1>5. Counts
  <2>1. \A n, t : Cardinality(Traced(n, t)) = 0
    BY <1>4, FS_EmptySet
  <2>2. CallLimit \in Nat /\ \A n \in Node : counter[n] = 0
    BY ScenarioAssumption
  <2>3. QED
    BY <2>1, <2>2 DEF Counts
<1>6. InOrder /\ OutputsKept /\ LeftInState /\ VerdictFollows
  BY DEF InOrder, OutputsKept, LastOf, LeftInState, VerdictFollows
<1>7. QED
  BY <1>1, <1>2, <1>3, <1>5, <1>6 DEF ScenarioInv

\* The result of a scenario is kept.
LEMMA KeepStep ==
  ASSUME ScenarioInv, NEW r, Keep(r), phase \in {"loop", "exhausted", "attribute"},
         r.blame \in Blame \cup {"none"},
         IF r.error = "unavailable" THEN r.outputs = << >> ELSE r.outputs = outputs,
         Passed(r) <=> r.actual # NotJson /\ Equal(suite[Now], r.actual)
  PROVE  ScenarioInv'
<1> USE DEF ScenarioInv
<1>1. /\ results' = Append(results, r) /\ trace' = trace /\ suite' = suite
      /\ conv' = <<User>> /\ replies' = << >> /\ failed' = 0
      /\ counter' = [n \in Node |-> 0] /\ outputs' = << >>
      /\ phase' \in {"loop", "over"}
  BY DEF Keep, Fresh
<1>2. /\ IsList(results') /\ Len(results) \in Nat /\ Len(results') = Len(results) + 1
      /\ DOMAIN results = 1 .. Len(results) /\ DOMAIN results' = 1 .. Len(results) + 1
      /\ \A i \in 1 .. Len(results) : results'[i] = results[i]
      /\ results'[Len(results) + 1] = r
  BY <1>1, AppendToList DEF ScenarioTypes
<1>3. /\ Len(suite) \in Nat /\ (suite = << >> <=> Len(suite) = 0)
      /\ Len(results) < Len(suite) /\ verdict = "none"
  BY SuiteIsList DEF VerdictFollows
<1>4. IF Len(results') < Len(suite)
      THEN phase' = "loop" /\ verdict' = verdict
      ELSE /\ phase' = "over" /\ merged' = Merge(results')
           /\ verdict' = IF \A i \in DOMAIN results' : Passed(results'[i]) THEN "pass" ELSE "fail"
  BY DEF Keep
<1>5. ScenarioTypes'
  <2>1. User \in Message
    BY EmptySeq DEF User, Message
  <2>2. conv' \in Seq(Message) /\ replies' \in Seq(ToolAnswer) /\ failed' \in 0 .. MaxAttempts - 1
    BY <1>1, <2>1, EmptySeq, ScenarioAssumption
  <2>3. counter' \in [Node -> Nat] /\ \E S \in SUBSET Node : outputs' \in [S -> Output]
    <3>1. << >> \in [{} -> Output]
      OBVIOUS
    <3>2. QED
      BY <1>1, <3>1
  <2>4. \A i \in DOMAIN results' : results'[i].blame \in Blame \cup {"none"}
    <3>1. \A i \in 1 .. Len(results) : results[i].blame \in Blame \cup {"none"}
      BY <1>2 DEF ScenarioTypes
    <3>2. QED
      BY <1>2, <3>1
  <2>5. verdict' \in {"none", "pass", "fail", "raised"}
    BY <1>3, <1>4
  <2>6. suite' \in Suites /\ trace' \in Seq(Traces)
    BY <1>1 DEF ScenarioTypes
  <2>7. QED
    BY <1>1, <1>2, <2>2, <2>3, <2>4, <2>5, <2>6 DEF ScenarioTypes
<1>6. Conversation' /\ TurnsLeft'
  BY <1>1, TalkStarts
<1>7. Tally'
  BY TallyOfNext DEF Tally
<1>8. LeftInState'
  <2>1. \A i \in DOMAIN trace : trace[i].at \in DOMAIN results'
    <3> SUFFICES ASSUME NEW i \in DOMAIN trace PROVE trace[i].at \in DOMAIN results'
      OBVIOUS
    <3>1. trace[i] \in Traces
      BY ElementOfSeq, LenProperties DEF ScenarioTypes
    <3>2. trace[i].at \in Nat \ {0} /\ trace[i].at <= Len(results) + 1
      BY <3>1 DEF Traces, InOrder, Now
    <3>3. QED
      BY <1>2, <3>2
  <2>2. phase' = "over" => merged' = Merge(results')
    BY <1>4
  <2>3. QED
    BY <1>1, <2>1, <2>2 DEF LeftInState, Merge, HasOutput, LastWith
<1>9. VerdictFollows'
  <2>1. \A i \in DOMAIN results' :
          Passed(results'[i]) <=> results'[i].actual # NotJson /\ Equal(suite'[i], results'[i].actual)
    <3> SUFFICES ASSUME NEW i \in DOMAIN results'
                 PROVE  Passed(results'[i]) <=>
                          results'[i].actual # NotJson /\ Equal(suite'[i], results'[i].actual)
      OBVIOUS
    <3>1. CASE i = Len(results) + 1
      BY <1>1, <1>2, <3>1 DEF Now
    <3>2. CASE i \in 1 .. Len(results)
      BY <1>1, <1>2, <3>2 DEF VerdictFollows, Match
    <3>3. QED
      BY <1>2, <3>1, <3>2
  <2>2. CASE Len(results') < Len(suite)
    <3>1. phase' = "loop" /\ verdict' = "none" /\ Len(results') < Len(suite')
      BY <1>1, <1>3, <1>4, <2>2
    <3>2. QED
      BY <2>1, <3>1 DEF VerdictFollows, Match
  <2>3. CASE ~(Len(results') < Len(suite))
    <3>1. Len(results') = Len(suite') /\ suite' # << >>
      BY <1>1, <1>2, <1>3, <2>3
    <3>2. /\ phase' = "over" /\ verdict' \in {"pass", "fail"}
          /\ verdict' = "pass" <=> \A i \in DOMAIN results' : Passed(results'[i])
      BY <1>4, <2>3
    <3>3. QED
      BY <2>1, <3>1, <3>2 DEF VerdictFollows, Match
  <2>4. QED
    BY <2>2, <2>3
<1>10. QED
  BY <1>5, <1>6, <1>7, <1>8, <1>9 DEF Tally

\* What changes nothing but the place, the failures and the answer.
LEMMA MoveStep ==
  ASSUME ScenarioInv, UNCHANGED <<suite, conv, replies, counter, outputs, trace, results, merged>>,
         failed' \in 0 .. MaxAttempts - 1,
         phase \in {"start", "loop", "exhausted"}, phase' \in {"loop", "attribute", "over"},
         phase' = "loop" => phase \in {"start", "loop"} /\ verdict' = verdict,
         phase' = "attribute" => phase # "start" /\ verdict' = verdict
                                 /\ answer' # NotJson /\ ~Equal(suite[Now], answer'),
         phase' = "over" => verdict' = "raised" \/ (phase = "start" /\ suite = << >> /\ verdict' = "fail"),
         phase = "start" /\ phase' = "loop" => suite # << >>
  PROVE  ScenarioInv'
<1> USE DEF ScenarioInv
<1>1. Conversation' /\ TurnsLeft'
  BY TalkEnds
<1>2. Tally'
  <2>1. counter' \in [Node -> Nat] /\ \A n \in Node : counter'[n] >= counter[n]
    BY DEF ScenarioTypes
  <2>2. QED
    BY <2>1, TallyStays DEF Tally
<1>3. verdict = "none"
  BY DEF VerdictFollows
<1>4. ScenarioTypes'
  <2>1. verdict' \in {"none", "pass", "fail", "raised"}
    BY <1>3
  <2>2. IsList(results) /\ IsList(results')
    BY DEF ScenarioTypes, IsList, Range
  <2>3. QED
    BY <2>1, <2>2 DEF ScenarioTypes
<1>5. LeftInState'
  <2>1. CASE phase' = "over" /\ verdict' # "raised"
    <3>1. trace = << >> /\ results = << >> /\ merged = << >>
      BY <2>1 DEF LeftInState
    <3>2. << >> = Merge(<< >>)
      BY DEF Merge
    <3>3. QED
      BY <2>1, <3>1, <3>2 DEF LeftInState
  <2>2. CASE ~(phase' = "over" /\ verdict' # "raised")
    BY <2>2 DEF LeftInState
  <2>3. QED
    BY <2>1, <2>2
<1>6. VerdictFollows'
  <2>1. Len(suite) \in Nat /\ (suite = << >> <=> Len(suite) = 0)
    BY SuiteIsList
  <2>2. \A i \in DOMAIN results' :
          Passed(results'[i]) <=> results'[i].actual # NotJson /\ Equal(suite'[i], results'[i].actual)
    BY DEF VerdictFollows, Match
  <2>3. Now' = Now
    BY DEF Now
  <2>4. CASE phase' = "over"
    <3>1. CASE verdict' = "raised"
      BY <2>2, <2>4, <3>1 DEF VerdictFollows, Match
    <3>2. CASE verdict' # "raised"
      <4>1. results' = << >> /\ suite' = << >> /\ verdict' = "fail"
        BY <2>4, <3>2 DEF LeftInState
      <4>2. QED
        BY <2>2, <2>4, <4>1 DEF VerdictFollows, Match
    <3>3. QED
      BY <3>1, <3>2
  <2>5. CASE phase' # "over"
    <3>1. Len(results) < Len(suite)
      <4>1. CASE phase = "start"
        <5>1. results = << >>
          BY <4>1 DEF LeftInState
        <5>2. suite # << >>
          BY <2>5, <4>1
        <5>3. QED
          BY <2>1, <5>1, <5>2
      <4>2. CASE phase # "start"
        BY <4>2 DEF VerdictFollows
      <4>3. QED
        BY <4>1, <4>2
    <3>2. verdict' = "none"
      BY <1>3, <2>5
    <3>3. phase' = "attribute" => answer' # NotJson /\ ~Equal(suite'[Now'], answer')
      BY <2>3
    <3>4. QED
      BY <2>2, <2>5, <3>1, <3>2, <3>3 DEF VerdictFollows, Match
  <2>6. QED
    BY <2>4, <2>5
<1>7. QED
  BY <1>1, <1>2, <1>4, <1>5, <1>6 DEF Tally

LEMMA StartStep ==
  ASSUME ScenarioInv, Start
  PROVE  ScenarioInv'
<1>1. /\ phase = "start" /\ phase' \in {"loop", "over"}
      /\ UNCHANGED <<suite, conv, replies, failed, counter, outputs, answer, trace, results, merged>>
      /\ phase' = "loop" => suite # << >> /\ verdict' = verdict
      /\ phase' = "over" => suite = << >> /\ verdict' = "fail"
  BY DEF Start, scenario
<1>2. failed' \in 0 .. MaxAttempts - 1
  BY <1>1 DEF ScenarioInv, ScenarioTypes
<1>3. QED
  BY <1>1, <1>2, MoveStep

LEMMA JudgeStep ==
  ASSUME ScenarioInv, phase \in {"loop", "exhausted"}, NEW text, Judge(text)
  PROVE  ScenarioInv'
<1>1. CASE text = NotJson /\ Keep(Result(text, FALSE, "not_json", outputs, {}, "none"))
  <2> DEFINE r == Result(text, FALSE, "not_json", outputs, {}, "none")
  <2>1. /\ r.blame = "none" /\ r.error = "not_json" /\ r.outputs = outputs
        /\ r.actual = text /\ ~Passed(r) /\ Keep(r)
    BY <1>1 DEF Result, Passed
  <2> HIDE DEF r
  <2>2. QED
    BY <1>1, <2>1, KeepStep
<1>2. CASE /\ text # NotJson /\ Equal(suite[Now], text)
           /\ Keep(Result(text, TRUE, "none", outputs, {}, "none"))
  <2> DEFINE r == Result(text, TRUE, "none", outputs, {}, "none")
  <2>1. /\ r.blame = "none" /\ r.error = "none" /\ r.outputs = outputs
        /\ r.actual = text /\ Passed(r) /\ Keep(r)
    BY <1>2 DEF Result, Passed
  <2> HIDE DEF r
  <2>2. QED
    BY <1>2, <2>1, KeepStep
<1>3. CASE /\ text # NotJson /\ ~Equal(suite[Now], text) /\ phase' = "attribute" /\ answer' = text
           /\ UNCHANGED <<suite, conv, replies, failed, counter, outputs, trace, results, verdict, merged>>
  <2>1. failed' \in 0 .. MaxAttempts - 1
    BY <1>3 DEF ScenarioInv, ScenarioTypes
  <2>2. QED
    BY <1>3, <2>1, MoveStep
<1>4. QED
  BY <1>1, <1>2, <1>3 DEF Judge

LEMMA AttributeStep ==
  ASSUME ScenarioInv, Attribute
  PROVE  ScenarioInv'
<1>1. PICK b \in Blame :
        Keep(Result(answer, FALSE, "none", outputs, Differences(suite[Now], answer), b))
  BY DEF Attribute
<1> DEFINE r == Result(answer, FALSE, "none", outputs, Differences(suite[Now], answer), b)
<1>2. /\ r.blame = b /\ r.error = "none" /\ r.outputs = outputs
      /\ r.actual = answer /\ ~Passed(r) /\ Keep(r)
  BY <1>1 DEF Result, Passed
<1>3. phase = "attribute" /\ ~Equal(suite[Now], answer)
  BY DEF Attribute, ScenarioInv, VerdictFollows
<1> HIDE DEF r
<1>4. QED
  BY <1>2, <1>3, KeepStep

LEMMA UnavailableStep ==
  ASSUME ScenarioInv, Unavailable
  PROVE  ScenarioInv'
<1> DEFINE r == Result(NotJson, FALSE, "unavailable", << >>, {}, "none")
<1>1. /\ r.blame = "none" /\ r.error = "unavailable" /\ r.outputs = << >>
      /\ r.actual = NotJson /\ ~Passed(r) /\ Keep(r) /\ phase = "loop"
  BY DEF Unavailable, Result, Passed
<1> HIDE DEF r
<1>2. QED
  BY <1>1, KeepStep

LEMMA TransientStep ==
  ASSUME ScenarioInv, Transient
  PROVE  ScenarioInv'
<1>1. /\ phase = "loop" /\ phase' = "loop" /\ verdict' = verdict
      /\ UNCHANGED <<suite, conv, replies, counter, outputs, trace, results, merged>>
  BY DEF Transient
<1>2. failed' \in 0 .. MaxAttempts - 1
  BY ScenarioAssumption DEF Transient, Retries, ScenarioInv, ScenarioTypes
<1>3. QED
  BY <1>1, <1>2, MoveStep

LEMMA RaiseStep ==
  ASSUME ScenarioInv, Raise
  PROVE  ScenarioInv'
<1>1. /\ phase = "loop" /\ phase' = "over" /\ verdict' = "raised"
      /\ UNCHANGED <<suite, conv, replies, failed, counter, outputs, trace, results, merged>>
  BY DEF Raise, scenario
<1>2. failed' \in 0 .. MaxAttempts - 1
  BY <1>1 DEF ScenarioInv, ScenarioTypes
<1>3. QED
  BY <1>1, <1>2, MoveStep

\* While tools are worked off the handler has no verdict and no new result.
LEMMA ToolsFrame ==
  ASSUME ScenarioInv, phase \in {"loop", "tools"}, phase' \in {"loop", "tools", "exhausted"},
         UNCHANGED <<suite, results, verdict>>
  PROVE  LeftInState' /\ VerdictFollows'
<1>1. phase # "over" /\ phase # "start" /\ phase # "attribute"
  OBVIOUS
<1>2. verdict = "none" /\ Len(results) < Len(suite)
  BY <1>1 DEF ScenarioInv, VerdictFollows
<1>3. LeftInState'
  BY DEF LeftInState
<1>4. VerdictFollows'
  BY <1>2 DEF VerdictFollows, ScenarioInv, Match
<1>5. QED
  BY <1>3, <1>4

\* What the service may answer has calls; each of them gets an id.
LEMMA UsesTyped ==
  ASSUME ScenarioTypes, NEW raw \in Raw
  PROVE  Uses(Parse(raw)) \in Seq(Use) /\ (Parse(raw).uses # << >> => Uses(Parse(raw)) # << >>)
<1>1. raw.uses \in Seq(Range(raw.uses)) /\ Range(raw.uses) \subseteq Calls
  BY ScenarioAssumption DEF Calls
<1>2. Parse(raw).uses = raw.uses
  <2>1. raw = [stop |-> raw.stop, uses |-> raw.uses, text |-> raw.text, garbled |-> raw.garbled]
    BY ScenarioAssumption
  <2>2. PICK st, us, tx, ga : raw = [stop |-> st, uses |-> us, text |-> tx, garbled |-> ga]
    BY <2>1
  <2>3. QED
    BY <2>2 DEF Parse
<1>3. Turns \in Nat
  <2>1. User \in Message /\ conv \in Seq(Message)
    BY EmptySeq DEF User, Message, ScenarioTypes
  <2>2. QED
    BY <2>1, SaidMore DEF Turns, Said
<1> DEFINE us == raw.uses
<1>4. /\ us \in Seq(Calls) /\ Len(us) \in Nat /\ DOMAIN us = 1 .. Len(us)
      /\ \A k \in 1 .. Len(us) : us[k] \in Calls
  BY <1>1, LenProperties, ElementOfSeq
<1>5. Uses(Parse(raw)) = [k \in DOMAIN us |-> [id |-> <<Turns, k>>, call |-> us[k]]]
  BY <1>2 DEF Uses
<1> HIDE DEF us
<1>6. \A k \in 1 .. Len(us) : [id |-> <<Turns, k>>, call |-> us[k]] \in Use
  BY <1>3, <1>4 DEF Use
<1>7. Uses(Parse(raw)) \in Seq(Use)
  BY <1>4, <1>5, <1>6
<1>8. ASSUME us # << >> PROVE Uses(Parse(raw)) # << >>
  <2>1. 1 \in DOMAIN us
    BY <1>4, <1>8, EmptySeq
  <2>2. 1 \in DOMAIN Uses(Parse(raw))
    BY <1>5, <2>1
  <2>3. QED
    BY <2>2
<1>9. QED
  BY <1>2, <1>7, <1>8 DEF us

LEMMA UseToolsStep ==
  ASSUME ScenarioInv, NEW raw \in Raw, UseTools(Parse(raw))
  PROVE  ScenarioInv'
<1> USE DEF ScenarioInv
<1> DEFINE us == Uses(Parse(raw))
<1>1. /\ us \in Seq(Use) /\ us # << >>
  BY UsesTyped DEF UseTools
<1>2. /\ phase = "loop" /\ phase' = "tools" /\ conv' = Append(conv, Assistant(us)) /\ failed' = 0
      /\ UNCHANGED <<suite, replies, counter, outputs, answer, trace, results, verdict, merged>>
  BY DEF UseTools
<1> HIDE DEF us
<1>3. Conversation' /\ TurnsLeft'
  BY <1>1, <1>2, TalkAsks
<1>4. Tally'
  <2>1. counter' \in [Node -> Nat] /\ \A n \in Node : counter'[n] >= counter[n]
    BY <1>2 DEF ScenarioTypes
  <2>2. QED
    BY <1>2, <2>1, TallyStays DEF Tally
<1>5. ScenarioTypes'
  <2>1. conv' \in Seq(Message)
    <3>1. Assistant(us) \in Message
      BY <1>1, EmptySeq DEF Assistant, Message
    <3>2. QED
      BY <1>2, <3>1, AppendTyped DEF ScenarioTypes
  <2>2. failed' \in 0 .. MaxAttempts - 1
    BY <1>2, ScenarioAssumption
  <2>3. IsList(results')
    BY <1>2 DEF ScenarioTypes, IsList, Range
  <2>4. QED
    BY <1>2, <2>1, <2>2, <2>3 DEF ScenarioTypes
<1>6. LeftInState' /\ VerdictFollows'
  BY <1>2, ToolsFrame
<1>7. QED
  BY <1>3, <1>4, <1>5, <1>6 DEF Tally

\* A call is answered: the counters, the trace and the outputs agree if the
\* call has been counted, and traced if it was executed.
LEMMA ToolStep ==
  ASSUME ScenarioInv, phase = "tools", NEW isError \in BOOLEAN, Reply(isError), UNCHANGED Rest,
         counter' \in [Node -> Nat], trace' \in Seq(Traces),
         \E S \in SUBSET Node : outputs' \in [S -> Output],
         Tally'
  PROVE  ScenarioInv'
<1> USE DEF ScenarioInv
<1>1. /\ Conversation' /\ TurnsLeft'
      /\ phase' \in {"loop", "tools", "exhausted"}
      /\ conv' \in Seq(Message) /\ replies' \in Seq(ToolAnswer)
  BY TalkReplies
<1>2. UNCHANGED <<suite, failed, answer, results, verdict, merged>>
  BY DEF Rest
<1>3. ScenarioTypes'
  <2>1. IsList(results')
    BY <1>2 DEF ScenarioTypes, IsList, Range
  <2>2. QED
    BY <1>1, <1>2, <2>1 DEF ScenarioTypes
<1>4. LeftInState' /\ VerdictFollows'
  BY <1>1, <1>2, ToolsFrame
<1>5. QED
  BY <1>1, <1>3, <1>4 DEF Tally

LEMMA RefuseCallStep ==
  ASSUME ScenarioInv, RefuseCall
  PROVE  ScenarioInv'
<1>1. /\ phase = "tools" /\ Reply(TRUE) /\ UNCHANGED Rest
      /\ UNCHANGED <<counter, outputs, trace, results>>
  BY DEF RefuseCall, Rest
<1>2. /\ counter' \in [Node -> Nat] /\ trace' \in Seq(Traces)
      /\ \E S \in SUBSET Node : outputs' \in [S -> Output]
      /\ \A n \in Node : counter'[n] >= counter[n]
  BY <1>1 DEF ScenarioInv, ScenarioTypes
<1>3. Tally'
  BY <1>1, <1>2, TallyStays DEF Tally, ScenarioInv
<1>4. QED
  BY <1>1, <1>2, <1>3, ToolStep

\* A call is counted even if it is not executed.
LEMMA CountedStep ==
  ASSUME ScenarioInv, NEW n \in Node, Counted(n), phase = "tools", Reply(TRUE), UNCHANGED Rest,
         UNCHANGED <<outputs, trace>>
  PROVE  ScenarioInv'
<1>1. UNCHANGED results
  BY DEF Rest
<1>2. /\ counter' \in [Node -> Nat] /\ trace' \in Seq(Traces)
      /\ \E S \in SUBSET Node : outputs' \in [S -> Output]
      /\ \A m \in Node : counter'[m] >= counter[m]
  BY DEF ScenarioInv, ScenarioTypes, Counted
<1>3. Tally'
  BY <1>1, <1>2, TallyStays DEF Tally, ScenarioInv
<1>4. QED
  BY <1>2, <1>3, ToolStep

\* What a simulator answers is of the instance and the scenario.
LEMMA SimulatedTyped ==
  ASSUME ScenarioTypes, NEW n \in Node, NEW x \in Simulated(n)
  PROVE  x \in Traces /\ x.node = n /\ x.at = Now
<1>1. PICK e \in Range(Engines[TemplateOf[n]]) :
        x \in {[node |-> n, at |-> Now, engine |-> e, out |-> o] : o \in OutputOf[e]}
  BY DEF Simulated
<1>2. PICK o \in OutputOf[e] : x = [node |-> n, at |-> Now, engine |-> e, out |-> o]
  BY <1>1
<1>3. TemplateOf[n] \in DOMAIN Engines
  BY ScenarioAssumption DEF Range
<1>4. e \in DOMAIN OutputOf
  BY <1>1, <1>3, ScenarioAssumption
<1>5. o \in Output
  BY <1>2, <1>4 DEF Output, Range
<1>6. Now \in Nat \ {0}
  BY LenProperties DEF Now, ScenarioTypes, IsList
<1>7. QED
  BY <1>2, <1>4, <1>5, <1>6 DEF Traces

LEMMA ExecutedStep ==
  ASSUME ScenarioInv, phase = "tools", NEW n \in Node, ~Over(n), Counted(n),
         NEW x \in Simulated(n), Record(n, x), Reply(FALSE), UNCHANGED Rest
  PROVE  ScenarioInv'
<1>1. x \in Traces /\ x.node = n /\ x.at = Now /\ x.out \in Output
  BY SimulatedTyped DEF ScenarioInv, Traces
<1>2. Tally'
  BY <1>1, TallyOfCall DEF ScenarioInv, Tally, Rest
<1>3. counter' \in [Node -> Nat] /\ trace' \in Seq(Traces)
  <2>1. counter' \in [Node -> Nat]
    BY DEF ScenarioInv, ScenarioTypes, Counted
  <2>2. QED
    BY <1>1, <2>1, AppendTyped DEF ScenarioInv, ScenarioTypes, Record
<1>4. \E S \in SUBSET Node : outputs' \in [S -> Output]
  <2>1. PICK S \in SUBSET Node : outputs \in [S -> Output]
    BY DEF ScenarioInv, ScenarioTypes
  <2>2. outputs' \in [S \cup {n} -> Output]
    BY <1>1, <2>1 DEF Record, Override
  <2>3. QED
    BY <2>2
<1>5. QED
  BY <1>2, <1>3, <1>4, ToolStep

LEMMA ScenarioNextStep ==
  ASSUME ScenarioInv, [ScenarioNext]_scenarioVars
  PROVE  ScenarioInv'
<1>1. CASE Start
  BY <1>1, StartStep
<1>2. CASE Attribute
  BY <1>2, AttributeStep
<1>3. CASE Transient
  BY <1>3, TransientStep
<1>4. CASE Unavailable
  BY <1>4, UnavailableStep
<1>5. CASE TimesOut \/ Raise
  BY <1>5, RaiseStep DEF TimesOut
<1>6. ASSUME NEW raw \in Raw, Answer(Parse(raw)) PROVE ScenarioInv'
  BY <1>6, JudgeStep DEF Answer
<1>7. ASSUME NEW raw \in Raw, UseTools(Parse(raw)) PROVE ScenarioInv'
  BY <1>7, UseToolsStep
<1>8. CASE RefuseCall
  BY <1>8, RefuseCallStep
<1>9. CASE OverLimit
  <2>1. Current.call.node \in Node
    BY <1>9 DEF OverLimit, Refused
  <2>2. QED
    BY <1>9, <2>1, CountedStep DEF OverLimit
<1>10. CASE SimulateCall
  <2> DEFINE n == Current.call.node
  <2>1. /\ n \in Node /\ phase = "tools" /\ ~Over(n) /\ Counted(n) /\ UNCHANGED Rest
        /\ \/ \E x \in Simulated(n) : Record(n, x) /\ Reply(FALSE)
           \/ Reply(TRUE) /\ UNCHANGED <<outputs, trace>>
    BY <1>10 DEF SimulateCall, Refused
  <2> HIDE DEF n
  <2>2. CASE \E x \in Simulated(n) : Record(n, x) /\ Reply(FALSE)
    BY <2>1, <2>2, ExecutedStep
  <2>3. CASE Reply(TRUE) /\ UNCHANGED <<outputs, trace>>
    BY <2>1, <2>3, CountedStep
  <2>4. QED
    BY <2>1, <2>2, <2>3
<1>11. CASE Exhausted
  BY <1>11, JudgeStep DEF Exhausted
<1>12. CASE UNCHANGED scenarioVars
  <2> USE <1>12 DEF scenarioVars, scenario, ScenarioInv
  <2>1. ScenarioTypes'
    <3>1. IsList(results')
      BY DEF ScenarioTypes, IsList, Range
    <3>2. QED
      BY <3>1 DEF ScenarioTypes
  <2>2. Conversation'
    BY DEF Conversation
  <2>3. TurnsLeft'
    BY DEF TurnsLeft, Turns
  <2>4. Tally'
    <3>1. counter' \in [Node -> Nat] /\ \A n \in Node : counter'[n] >= counter[n]
      BY DEF ScenarioTypes
    <3>2. QED
      BY <3>1, TallyStays DEF Tally
  <2>5. LeftInState'
    BY DEF LeftInState
  <2>6. VerdictFollows'
    <3>1. \A i \in DOMAIN results' :
            Passed(results'[i]) <=> results'[i].actual # NotJson /\ Equal(suite'[i], results'[i].actual)
      BY DEF VerdictFollows, Match
    <3>2. Now' = Now
      BY DEF Now
    <3>3. phase' = "attribute" => answer' # NotJson /\ ~Equal(suite'[Now'], answer')
      BY <3>2 DEF VerdictFollows
    <3>4. QED
      BY <3>1, <3>3 DEF VerdictFollows, Match
  <2>7. QED
    BY <2>1, <2>2, <2>3, <2>4, <2>5, <2>6 DEF Tally
<1>13. QED
  BY <1>1, <1>2, <1>3, <1>4, <1>5, <1>6, <1>7, <1>8, <1>9, <1>10, <1>11, <1>12 DEF ScenarioNext

LEMMA ScenarioAlways == ScenarioSpec => []ScenarioInv
<1>1. ScenarioInv /\ [ScenarioNext]_scenarioVars => ScenarioInv'
  BY ScenarioNextStep
<1>2. QED
  BY ScenarioInitInv, <1>1, PTL DEF ScenarioSpec

-----------------------------------------------------------------------------
(* What is told, traced and put out                                        *)

\* The adapter of Claude sends the calls and their results as they are.
\* Whatever the LLM asks for and however a tool fails, the next request shows it
\* the result of each call.  (The one of OpenAI sends neither: it breaks this.)
THEOREM EveryCallAlwaysAnswered ==
  ASSUME Provider = "claude"
  PROVE  ScenarioSpec => []EveryCallAnswered
<1>1. ScenarioInv => EveryCallAnswered
  <2> SUFFICES ASSUME ScenarioInv, phase = "loop",
                      NEW i \in DOMAIN Encode(conv), Encode(conv)[i].role = "assistant"
               PROVE  /\ IdsOf(conv[i].uses) = IdsOf(Encode(conv)[i].uses)
                      /\ i < Len(Encode(conv))
                      /\ IdsOf(Encode(conv)[i].uses) = IdsOf(Encode(conv)[i + 1].replies)
    BY DEF EveryCallAnswered, IdsOf
  <2>1. /\ conv \in Seq(Message) /\ Len(conv) \in Nat /\ DOMAIN conv = 1 .. Len(conv)
        /\ \A j \in 1 .. Len(conv) : conv[j] \in Message
    BY LenProperties, ElementOfSeq DEF ScenarioInv, ScenarioTypes
  <2>2. \A m \in Message : /\ EncodeMessage(m) \in Message
                           /\ EncodeMessage(m).uses = m.uses /\ EncodeMessage(m).replies = m.replies
                           /\ EncodeMessage(m).role = "assistant" <=> m.role = "assistant"
    BY DEF EncodeMessage, Message
  <2>3. /\ Encode(conv) \in Seq(Message) /\ DOMAIN Encode(conv) = 1 .. Len(conv)
        /\ Len(Encode(conv)) = Len(conv)
        /\ \A j \in 1 .. Len(conv) : Encode(conv)[j] = EncodeMessage(conv[j])
    <3>1. Encode(conv) = [j \in 1 .. Len(conv) |-> EncodeMessage(conv[j])]
      BY <2>1 DEF Encode
    <3> HIDE DEF Encode
    <3>2. Encode(conv) \in Seq(Message)
      BY <2>1, <2>2, <3>1
    <3>3. QED
      BY <2>1, <3>1, <3>2, LenProperties
  <2>4. i \in 1 .. Len(conv) /\ conv[i].role = "assistant"
    BY <2>1, <2>2, <2>3
  <2>5. i < Len(conv) /\ IdsOf(conv[i].uses) = IdsOf(conv[i + 1].replies)
    BY <2>1, <2>4 DEF ScenarioInv, Conversation
  <2>6. /\ Encode(conv)[i].uses = conv[i].uses
        /\ Encode(conv)[i + 1].replies = conv[i + 1].replies
    BY <2>1, <2>2, <2>3, <2>4, <2>5
  <2>7. QED
    BY <2>3, <2>5, <2>6
<1>2. QED
  BY <1>1, ScenarioAlways, PTL

LEMMA ScenarioTyped == ScenarioInv => ScenarioTypeOK
<1> SUFFICES ASSUME ScenarioInv PROVE ScenarioTypeOK
  OBVIOUS
<1>1. \A i \in DOMAIN conv : conv[i].role \in {"user", "assistant", "tool_result"}
  <2>1. \A i \in DOMAIN conv : conv[i] \in Message
    BY LenProperties, ElementOfSeq DEF ScenarioInv, ScenarioTypes
  <2>2. QED
    BY <2>1 DEF Message
<1>2. \A i \in DOMAIN trace : trace[i].node \in Node /\ trace[i].out \in Output
  <2>1. \A i \in DOMAIN trace : trace[i] \in Traces
    BY LenProperties, ElementOfSeq DEF ScenarioInv, ScenarioTypes
  <2>2. QED
    BY <2>1 DEF Traces
<1>3. QED
  BY <1>1, <1>2 DEF ScenarioTypeOK, ScenarioInv, ScenarioTypes

\* A nonempty set of naturals that is bounded has a greatest element.
LEMMA GreatestNumber ==
  ASSUME NEW N \in Nat, NEW S, S \subseteq 0 .. N, S # {}
  PROVE  \E m \in S : \A k \in S : k <= m
<1> DEFINE D == {N - k : k \in S}
<1>1. D \subseteq Nat /\ D # {}
  <2>1. \A k \in S : k \in 0 .. N /\ N - k \in Nat
    OBVIOUS
  <2>2. QED
    BY <2>1
<1>2. PICK d \in D : \A e \in D : d <= e
  <2> HIDE DEF D
  <2>1. QED
    BY <1>1, LeastNumber
<1>3. PICK m \in S : d = N - m
  BY <1>2
<1>4. \A k \in S : k \in 0 .. N /\ m \in 0 .. N /\ N - m <= N - k
  BY <1>2, <1>3
<1>5. QED
  BY <1>4

\* What is left in the state is the last output of each instance that was
\* traced in a scenario the handler kept the outputs of.
LEMMA LeftIsTraced == ScenarioInv => OutputsAreTraced
<1> SUFFICES ASSUME ScenarioInv, phase = "over", verdict \in {"pass", "fail"}
             PROVE  /\ DOMAIN merged = {trace[i].node : i \in Kept}
                    /\ \A i \in Kept :
                         (\A j \in Kept : j > i => trace[j].node # trace[i].node)
                           => merged[trace[i].node] = trace[i].out
  BY DEF OutputsAreTraced
<1>1. /\ merged = Merge(results)
      /\ \A i \in DOMAIN trace : trace[i].at \in DOMAIN results
  BY DEF ScenarioInv, LeftInState
<1>2. /\ Len(results) \in Nat /\ DOMAIN results = 1 .. Len(results)
      /\ Len(trace) \in Nat /\ DOMAIN trace = 1 .. Len(trace)
  BY LenProperties DEF ScenarioInv, ScenarioTypes, IsList
<1>3. ASSUME NEW s \in DOMAIN results
      PROVE  DOMAIN results[s].outputs
             = {trace[i].node : i \in {j \in Kept : trace[j].at = s}}
  <2>1. CASE results[s].error = "unavailable"
    BY <2>1 DEF ScenarioInv, OutputsKept, Kept
  <2>2. CASE results[s].error # "unavailable"
    <3>1. LastOf(results[s].outputs, s)
      BY <2>2 DEF ScenarioInv, OutputsKept
    <3>2. {j \in DOMAIN trace : trace[j].at = s} = {j \in Kept : trace[j].at = s}
      BY <2>2 DEF Kept
    <3>3. QED
      BY <3>1, <3>2 DEF LastOf
  <2>3. QED
    BY <2>1, <2>2
<1>4. DOMAIN merged = {trace[i].node : i \in Kept}
  <2>1. DOMAIN merged = UNION {DOMAIN results[i].outputs : i \in DOMAIN results}
    BY <1>1 DEF Merge
  <2>2. \A j \in Kept : trace[j].at \in DOMAIN results
    BY <1>1 DEF Kept
  <2>3. QED
    BY <1>3, <2>1, <2>2
<1>5. ASSUME NEW i \in Kept, \A j \in Kept : j > i => trace[j].node # trace[i].node
      PROVE  merged[trace[i].node] = trace[i].out
  <2> DEFINE n == trace[i].node
             H == HasOutput(results, n)
             last == LastWith(results, n)
  <2>1. /\ i \in DOMAIN trace /\ trace[i].at \in DOMAIN results
        /\ results[trace[i].at].error # "unavailable"
    BY <1>1 DEF Kept
  <2>2. trace[i].at \in H
    BY <1>3, <2>1 DEF HasOutput
  <2>3. last \in H /\ trace[i].at <= last
    <3>1. H \subseteq 0 .. Len(results) /\ H # {}
      BY <1>2, <2>2 DEF HasOutput
    <3> HIDE DEF H
    <3>2. \E m \in H : \A k \in H : k <= m
      BY <1>2, <3>1, GreatestNumber
    <3>3. last = CHOOSE m \in H : \A k \in H : k <= m
      BY DEF LastWith, H
    <3>4. QED
      BY <2>2, <3>2, <3>3
  <2>4. last \in DOMAIN results /\ n \in DOMAIN results[last].outputs
    BY <2>3 DEF HasOutput
  <2>5. PICK j \in Kept : trace[j].at = last /\ trace[j].node = n
    <3> HIDE DEF last, n
    <3>1. QED
      BY <1>3, <2>4
  <2>6. last = trace[i].at
    <3>1. i \in 1 .. Len(trace) /\ j \in 1 .. Len(trace) /\ ~ j > i
      BY <1>2, <1>5, <2>1, <2>5 DEF Kept
    <3>2. j < i => trace[j].at <= trace[i].at
      BY <1>2, <3>1 DEF ScenarioInv, InOrder
    <3>3. trace[i].at \in Nat /\ trace[j].at \in Nat
      BY <1>1, <1>2, <3>1
    <3>4. CASE j = i
      BY <2>5, <3>4
    <3>5. CASE j < i
      <4> HIDE DEF last
      <4>1. QED
        BY <2>3, <2>5, <3>2, <3>3, <3>5
    <3>6. QED
      BY <3>1, <3>4, <3>5
  <2>7. merged[n] = results[last].outputs[n]
    BY <1>1, <2>4 DEF Merge
  <2>8. LastOf(results[trace[i].at].outputs, trace[i].at)
    BY <2>1 DEF ScenarioInv, OutputsKept
  <2>9. \A k \in DOMAIN trace : k > i /\ trace[k].at = trace[i].at => trace[k].node # trace[i].node
    BY <1>5, <2>1 DEF Kept
  <2>10. results[trace[i].at].outputs[n] = trace[i].out
    BY <2>1, <2>8, <2>9 DEF LastOf
  <2>11. QED
    BY <2>6, <2>7, <2>10
<1>6. QED
  BY <1>4, <1>5

\* No node is executed more often for a scenario, and the LLM asked more often,
\* than the limits say; and the outputs that the handler leaves in the state are
\* the last ones that it traced, whatever the LLM answers.
THEOREM TraceAlwaysSound == ScenarioSpec => []TraceSound
<1>1. ScenarioInv => CallsBounded
  <2> SUFFICES ASSUME ScenarioInv PROVE CallsBounded
    OBVIOUS
  <2>1. 1 .. Len(suite) \subseteq Nat
    BY SuiteIsList DEF ScenarioInv
  <2>2. QED
    BY <2>1 DEF ScenarioInv, CallsBounded, Counts, TurnsLeft
<1>2. ScenarioInv => TraceSound
  BY <1>1, ScenarioTyped, LeftIsTraced DEF TraceSound
<1>3. QED
  BY <1>2, ScenarioAlways, PTL

\* The handler passes exactly if each scenario has its result and the comparison
\* takes the answer for the expected one; an LLM that fails, or that gives no
\* JSON, never lets it pass, and neither does an empty list of scenarios.
THEOREM PassAlwaysMeansMatch == ScenarioSpec => []PassMeansMatch
<1>1. ScenarioInv => PassMeansMatch
  <2> SUFFICES ASSUME ScenarioInv, phase = "over", verdict # "raised"
               PROVE  verdict = "pass" <=>
                        /\ suite # << >>
                        /\ Len(results) = Len(suite)
                        /\ \A i \in DOMAIN suite : /\ results[i].actual # NotJson
                                                   /\ Equal(suite[i], results[i].actual)
    BY DEF PassMeansMatch
  <2>1. /\ Len(results) = Len(suite)
        /\ verdict = "pass" <=> suite # << >> /\ \A i \in DOMAIN results : Passed(results[i])
        /\ \A i \in DOMAIN results : Passed(results[i]) <=> Match(i)
    BY DEF ScenarioInv, VerdictFollows
  <2>2. DOMAIN results = 1 .. Len(results) /\ DOMAIN suite = 1 .. Len(suite)
    <3>1. results \in Seq(Range(results)) /\ suite \in Seq(Range(suite))
      BY SuiteIsList DEF ScenarioInv, ScenarioTypes, IsList
    <3>2. QED
      BY <3>1, LenProperties
  <2>3. QED
    BY <2>1, <2>2 DEF Match
<1>2. QED
  BY <1>1, ScenarioAlways, PTL
=============================================================================
