------------------------- MODULE ToolTemplates_proof -------------------------
(***************************************************************************)
(* Theorems about ToolTemplates, for any users, templates, definitions and *)
(* requests that overlap:                                                  *)
(*   - RowsAlwaysSound: the types, and the tables stay usable;             *)
(*   - HistoryAlwaysKept: no committed version is changed or lost;         *)
(*   - SimulatorAlwaysExact: a cached simulator is the one asked for;      *)
(*   - CacheAlwaysAnswersKey: so is a cached template.                     *)
(***************************************************************************)
EXTENDS ToolTemplates, FiniteSetTheorems, SequenceTheorems, TLAPS

-----------------------------------------------------------------------------
(* Definitions                                                             *)

\* An LLM form that is forked stays what it is.
LEMMA ForkedForm ==
  ASSUME NEW d \in Definition
  PROVE  LlmForm(d) \in Definition
<1> DEFINE Base == Submitted \cup {First.defs[1]}
<1>1. CASE d \in Base
  BY <1>1 DEF Definition
<1>2. CASE d \notin Base
  <2>1. PICK b \in Base : d = LlmForm(b)
    BY <1>2 DEF Definition
  <2>2. b \in Definition
    BY DEF Definition
  <2>3. b = [engine |-> b.engine, impl |-> b.impl, fallback |-> b.fallback, lines |-> b.lines,
             schemasValid |-> b.schemasValid, edges |-> b.edges]
    BY <2>2, TemplateAssumption
  <2> HIDE DEF Base
  <2> DEFINE e1 == b.engine
             e2 == b.impl
             e3 == b.fallback
             e4 == b.lines
             e5 == b.schemasValid
             e6 == b.edges
             no == FALSE
  <2>4. b = [engine |-> e1, impl |-> e2, fallback |-> e3, lines |-> e4,
             schemasValid |-> e5, edges |-> e6]
    BY <2>3
  <2>5. LlmForm(b) = [b EXCEPT !.engine = "llm", !.impl = NoImpl, !.fallback = no]
    BY DEF LlmForm
  <2>6. LlmForm(d) = [d EXCEPT !.engine = "llm", !.impl = NoImpl, !.fallback = no]
    BY DEF LlmForm
  <2> HIDE DEF e1, e2, e3, e4, e5, e6, no
  <2>7. d = [engine |-> "llm", impl |-> NoImpl, fallback |-> no, lines |-> e4,
             schemasValid |-> e5, edges |-> e6]
    BY <2>1, <2>4, <2>5
  <2>8. LlmForm(d) = d
    BY <2>6, <2>7
  <2>9. QED
    BY <2>8
<1>3. QED
  BY <1>1, <1>2

\* Freezing a template into a graph version and thawing it loses nothing.
LEMMA ThawedIsSame ==
  ASSUME NEW x \in Template
  PROVE  Thawed(Frozen(x)) = x
<1> DEFINE d == x.def
<1>1. d \in Definition
  BY DEF Template
<1>2. d = [engine |-> d.engine, impl |-> d.impl, fallback |-> d.fallback, lines |-> d.lines,
           schemasValid |-> d.schemasValid, edges |-> d.edges]
  BY <1>1, TemplateAssumption
<1>3. x = [id |-> x.id, name |-> x.name, scope |-> x.scope, owner |-> x.owner,
           version |-> x.version, def |-> d]
  BY DEF Template
<1>4. QED
  BY <1>2, <1>3 DEF Thawed, Frozen

-----------------------------------------------------------------------------
(* _LruTtlCache                                                            *)

\* A cache within its capacity, with a key at most once.
LruSound(c) ==
  /\ Len(c) <= CacheSize
  /\ \A i, j \in DOMAIN c : c[i].key = c[j].key => i = j

\* Popping a key leaves the other entries, in their order.
LEMMA Popped ==
  ASSUME NEW S, NEW c \in Seq(S), LruSound(c), NEW k
  PROVE  /\ Without(c, k) \in Seq(S)
         /\ LruSound(Without(c, k))
         /\ ~Cached(Without(c, k), k)
         /\ \A m \in DOMAIN Without(c, k) : \E i \in DOMAIN c : Without(c, k)[m] = c[i]
<1>1. CASE ~Cached(c, k)
  BY <1>1 DEF Without, Cached
<1>2. CASE Cached(c, k)
  <2> DEFINE i == CHOOSE n \in DOMAIN c : c[n].key = k
             r == Without(c, k)
  <2>1. i \in DOMAIN c /\ c[i].key = k
    BY <1>2 DEF Cached
  <2>2. i \in 1..Len(c) /\ Len(c) \in Nat
    BY <2>1
  <2> DEFINE before == SubSeq(c, 1, i - 1)
             after == SubSeq(c, i + 1, Len(c))
  <2>3. r = before \o after
    BY <1>2 DEF Without, RemoveAt
  <2> HIDE DEF i, r
  <2>4. /\ before \in Seq(S) /\ Len(before) = i - 1
        /\ \A m \in 1..(i - 1) : before[m] = c[m]
    BY <2>2
  <2>5. /\ after \in Seq(S) /\ Len(after) = Len(c) - i
        /\ \A m \in 1..(Len(c) - i) : after[m] = c[m + i]
    BY <2>2
  <2> HIDE DEF before, after
  <2>6. r \in Seq(S) /\ Len(r) = Len(c) - 1
    BY <2>2, <2>3, <2>4, <2>5
  <2>7. \A m \in 1..Len(r) : r[m] = IF m < i THEN c[m] ELSE c[m + 1]
    <3> SUFFICES ASSUME NEW m \in 1..Len(r)
                 PROVE  r[m] = IF m < i THEN c[m] ELSE c[m + 1]
      OBVIOUS
    <3>1. CASE m < i
      BY <2>2, <2>3, <2>6, <2>4, <2>5, <3>1
    <3>2. CASE ~(m < i)
      <4>1. r[m] = after[m - (i - 1)] /\ m - (i - 1) \in 1..(Len(c) - i)
        BY <2>2, <2>3, <2>6, <2>4, <2>5, <3>2
      <4>2. QED
        BY <2>2, <2>6, <2>5, <3>2, <4>1
    <3>3. QED
      BY <3>1, <3>2
  <2>8. \A m \in 1..Len(r) : \E n \in DOMAIN c : n # i /\ r[m] = c[n]
    <3> SUFFICES ASSUME NEW m \in 1..Len(r)
                 PROVE  \E n \in DOMAIN c : n # i /\ r[m] = c[n]
      OBVIOUS
    <3>1. CASE m < i
      BY <2>2, <2>6, <2>7, <3>1
    <3>2. CASE ~(m < i)
      <4>1. m + 1 \in DOMAIN c /\ m + 1 # i
        BY <2>2, <2>6, <3>2
      <4>2. r[m] = c[m + 1]
        BY <2>7, <3>2
      <4>3. QED
        BY <4>1, <4>2
    <3>3. QED
      BY <3>1, <3>2
  <2>9. \A m \in 1..Len(r) : r[m].key # k
    BY <2>1, <2>8 DEF LruSound
  <2>10. \A m, n \in 1..Len(r) : r[m].key = r[n].key => m = n
    <3> SUFFICES ASSUME NEW m \in 1..Len(r), NEW n \in 1..Len(r), r[m].key = r[n].key
                 PROVE  m = n
      OBVIOUS
    <3> DEFINE mm == IF m < i THEN m ELSE m + 1
               nn == IF n < i THEN n ELSE n + 1
    <3>1. mm \in DOMAIN c /\ nn \in DOMAIN c
      BY <2>2, <2>6
    <3>2. r[m] = c[mm] /\ r[n] = c[nn]
      BY <2>7
    <3>3. mm = nn
      BY <3>1, <3>2 DEF LruSound
    <3>4. QED
      BY <2>2, <3>3
  <2>11. DOMAIN r = 1..Len(r)
    BY <2>6
  <2>12. Len(r) <= CacheSize
    BY <2>2, <2>6, TemplateAssumption DEF LruSound
  <2>13. QED
    BY <2>6, <2>8, <2>9, <2>10, <2>11, <2>12 DEF LruSound, Cached, r
<1>3. QED
  BY <1>1, <1>2

\* Dropping the oldest entry.
LEMMA Evicted ==
  ASSUME NEW S, NEW c \in Seq(S), LruSound(c), c # << >>
  PROVE  /\ Tail(c) \in Seq(S)
         /\ Len(Tail(c)) = Len(c) - 1
         /\ LruSound(Tail(c))
         /\ \A m \in DOMAIN Tail(c) : m + 1 \in DOMAIN c /\ Tail(c)[m] = c[m + 1]
<1>1. Tail(c) \in Seq(S) /\ Len(Tail(c)) = Len(c) - 1 /\ Len(c) \in Nat
  OBVIOUS
<1>2. \A m \in 1..(Len(c) - 1) : Tail(c)[m] = c[m + 1]
  OBVIOUS
<1>3. DOMAIN Tail(c) = 1..(Len(c) - 1) /\ DOMAIN c = 1..Len(c)
  BY <1>1
<1>4. \A m \in DOMAIN Tail(c) : m + 1 \in DOMAIN c /\ Tail(c)[m] = c[m + 1]
  BY <1>1, <1>2, <1>3
<1>5. LruSound(Tail(c))
  <2>1. Len(Tail(c)) <= CacheSize
    BY <1>1, TemplateAssumption DEF LruSound
  <2>2. \A i, j \in DOMAIN Tail(c) : Tail(c)[i].key = Tail(c)[j].key => i + 1 = j + 1
    BY <1>4 DEF LruSound
  <2>3. QED
    BY <1>3, <2>1, <2>2 DEF LruSound
<1>6. QED
  BY <1>1, <1>4, <1>5

\* What set() leaves: the new entry, and entries that were there.
LEMMA PutSound ==
  ASSUME NEW S, NEW c \in Seq(S), LruSound(c), NEW k, NEW x, [key |-> k, val |-> x] \in S
  PROVE  /\ Put(c, k, x) \in Seq(S)
         /\ LruSound(Put(c, k, x))
         /\ \A m \in DOMAIN Put(c, k, x) :
              \/ Put(c, k, x)[m] = [key |-> k, val |-> x]
              \/ \E i \in DOMAIN c : Put(c, k, x)[m] = c[i]
<1> DEFINE e == [key |-> k, val |-> x]
           kept == Without(c, k)
           rest == IF Len(kept) = CacheSize THEN Tail(kept) ELSE kept
           p == Put(c, k, x)
<1>1. /\ kept \in Seq(S)
      /\ LruSound(kept)
      /\ ~Cached(kept, k)
      /\ \A m \in DOMAIN kept : \E i \in DOMAIN c : kept[m] = c[i]
  BY Popped
<1>2. p = Append(rest, e)
  BY DEF Put
<1>3. e \in S /\ e.key = k
  OBVIOUS
<1> HIDE DEF kept, p, e
<1>4. /\ rest \in Seq(S)
      /\ Len(rest) < CacheSize
      /\ LruSound(rest)
      /\ \A m \in DOMAIN rest : \E i \in DOMAIN kept : rest[m] = kept[i]
  <2>1. CASE Len(kept) = CacheSize
    <3>1. kept # << >>
      BY <2>1, TemplateAssumption
    <3>2. rest = Tail(kept)
      BY <2>1
    <3> HIDE DEF rest
    <3>3. /\ Tail(kept) \in Seq(S) /\ LruSound(Tail(kept))
          /\ Len(Tail(kept)) = Len(kept) - 1
          /\ \A m \in DOMAIN Tail(kept) : \E i \in DOMAIN kept : Tail(kept)[m] = kept[i]
      BY <1>1, <3>1, Evicted
    <3>4. Len(rest) < CacheSize
      BY <2>1, <3>2, <3>3, TemplateAssumption
    <3>5. QED
      BY <3>2, <3>3, <3>4
  <2>2. CASE Len(kept) # CacheSize
    BY <1>1, <2>2, TemplateAssumption DEF LruSound
  <2>3. QED
    BY <2>1, <2>2
<1> HIDE DEF rest
<1>5. \A m \in DOMAIN rest : rest[m].key # k
  BY <1>1, <1>4 DEF Cached
<1>6. p \in Seq(S) /\ Len(p) = Len(rest) + 1 /\ Len(rest) \in Nat
  BY <1>2, <1>4, <1>3
<1>7. DOMAIN p = 1..(Len(rest) + 1) /\ DOMAIN rest = 1..Len(rest)
  BY <1>4, <1>6
<1>8. /\ \A m \in 1..Len(rest) : p[m] = rest[m]
      /\ p[Len(rest) + 1] = e
  BY <1>2, <1>4
<1>9. LruSound(p)
  <2>1. Len(p) <= CacheSize
    BY <1>4, <1>6, TemplateAssumption
  <2>2. ASSUME NEW i \in DOMAIN p, NEW j \in DOMAIN p, p[i].key = p[j].key PROVE i = j
    <3>1. CASE i \in DOMAIN rest /\ j \in DOMAIN rest
      BY <1>4, <1>7, <1>8, <2>2, <3>1 DEF LruSound
    <3>2. CASE i \notin DOMAIN rest /\ j \notin DOMAIN rest
      BY <1>6, <1>7, <3>2
    <3>3. CASE i \in DOMAIN rest /\ j \notin DOMAIN rest
      <4>1. p[j] = e /\ p[i] = rest[i]
        BY <1>6, <1>7, <1>8, <3>3
      <4>2. QED
        BY <1>5, <1>3, <2>2, <3>3, <4>1
    <3>4. CASE i \notin DOMAIN rest /\ j \in DOMAIN rest
      <4>1. p[i] = e /\ p[j] = rest[j]
        BY <1>6, <1>7, <1>8, <3>4
      <4>2. QED
        BY <1>5, <1>3, <2>2, <3>4, <4>1
    <3>5. QED
      BY <3>1, <3>2, <3>3, <3>4
  <2>3. QED
    BY <2>1, <2>2 DEF LruSound
<1>10. \A m \in DOMAIN p : p[m] = e \/ \E i \in DOMAIN c : p[m] = c[i]
  <2> SUFFICES ASSUME NEW m \in DOMAIN p PROVE p[m] = e \/ \E i \in DOMAIN c : p[m] = c[i]
    OBVIOUS
  <2>1. CASE m \in DOMAIN rest
    BY <1>1, <1>4, <1>7, <1>8, <2>1
  <2>2. CASE m \notin DOMAIN rest
    BY <1>6, <1>7, <1>8, <2>2
  <2>3. QED
    BY <2>1, <2>2
<1>11. QED
  BY <1>6, <1>9, <1>10 DEF p, e

-----------------------------------------------------------------------------
(* Types                                                                   *)

CreateJob   == [at : {"checked", "written"}, op : {"create"}, id : Id, row : Row]
UpdateJob   == [at : {"checked", "written"}, op : {"update"}, id : Id, num : Nat \ {0},
                def : Definition]
ActivateJob == [at : {"checked", "written"}, op : {"activate"}, id : Id, num : Nat \ {0}]

Work == CreateJob \cup UpdateJob \cup ActivateJob

EntryKey == [name : AnyName, owner : Owner, version : Nat]

Sim == [python : Registered \cup {NoImpl}, asks : SUBSET Template]

Types ==
  /\ DOMAIN rows \subseteq Id
  /\ \A t \in DOMAIN rows : rows[t] \in Row
  /\ job \in [Request -> Work \cup {NoJob}]
  /\ cache \in Seq([key : EntryKey, val : Template])
  /\ sims \in Seq([key : EntryKey, val : Sim])
  /\ load \subseteq [key : EntryKey, val : Template]

\* What writing requests are about to do fits the tables as they are by then,
\* and two of them that are flushed do not touch each other.
Fits(j) ==
  /\ j \in CreateJob   => j.id \notin DOMAIN rows /\ j.row.current \in DOMAIN j.row.defs
  /\ j \in UpdateJob   => j.id \in DOMAIN rows /\ j.num <= Len(rows[j.id].defs) + 1
  /\ j \in ActivateJob => j.id \in DOMAIN rows /\ j.num \in DOMAIN rows[j.id].defs

\* Templates that are being made have ids of their own.
IdsApart ==
  \A p, q \in Request :
    p # q /\ job[p] \in CreateJob /\ job[q] \in CreateJob => job[p].id # job[q].id

Apart(j, k) == /\ j.id # k.id
               /\ ~(j.op = "create" /\ k.op = "create" /\ SameName(j.row, k.row))

\* The locks of what is flushed.
LocksApart ==
  \A p, q \in Request :
    p # q /\ job[p].at = "written" /\ job[q].at = "written" => Apart(job[p], job[q])

\* What the unique keys have let pass still violates none at the commit.
KeysHold == \A q \in Request : job[q].at = "written" => ~Taken(job[q])

JobInv == (\A q \in Request : Fits(job[q])) /\ IdsApart /\ LocksApart /\ KeysHold

\* What a job may be.
LEMMA JobShape ==
  ASSUME Types, NEW q \in Request
  PROVE  /\ job[q].at \in {"idle", "checked", "written"}
         /\ job[q].at # "idle" => job[q] \in Work
         /\ job[q] \in CreateJob => job[q].op = "create"
         /\ job[q] \in UpdateJob => job[q].op = "update"
         /\ job[q] \in ActivateJob => job[q].op = "activate"
         /\ job[q] = NoJob => job[q].at = "idle"
BY DEF Types, Work, CreateJob, UpdateJob, ActivateJob, NoJob

\* Every committed version stays, with the name and the owner of its template.
Grows ==
  \A t \in DOMAIN rows :
    /\ t \in DOMAIN rows'
    /\ rows'[t].name = rows[t].name
    /\ rows'[t].scope = rows[t].scope
    /\ rows'[t].owner = rows[t].owner
    /\ \A n \in DOMAIN rows[t].defs :
         n \in DOMAIN rows'[t].defs /\ rows'[t].defs[n] = rows[t].defs[n]

\* A version with the next number is one version more.
LEMMA NextNumber ==
  ASSUME NEW S, NEW c \in Seq(S), NEW x \in S, NEW n, n = Len(c) + 1
  PROVE  [m \in DOMAIN c \cup {n} |-> IF m = n THEN x ELSE c[m]] \in Seq(S)
<1> DEFINE d == [m \in DOMAIN c \cup {n} |-> IF m = n THEN x ELSE c[m]]
           a == Append(c, x)
<1>1. Len(c) \in Nat /\ DOMAIN c = 1..Len(c)
  OBVIOUS
<1>2. DOMAIN c \cup {n} = 1..n
  BY <1>1
<1>3. a \in Seq(S) /\ Len(a) = n /\ DOMAIN a = 1..n
  BY <1>1
<1>4. \A m \in 1..n : a[m] = IF m = n THEN x ELSE c[m]
  BY <1>1
<1>5. d = [m \in 1..n |-> IF m = n THEN x ELSE c[m]]
  BY <1>2, Zenon
<1>6. a = [m \in 1..n |-> a[m]]
  <2> HIDE DEF a
  <2>1. a \in [1..Len(a) -> S]
    BY <1>3, LenProperties
  <2>2. QED
    BY <1>3, <2>1
<1> HIDE DEF a
<1>7. [m \in 1..n |-> a[m]] = [m \in 1..n |-> IF m = n THEN x ELSE c[m]]
  BY <1>4, Zenon
<1>8. d = a
  BY <1>5, <1>6, <1>7, Zenon
<1>9. QED
  BY <1>3, <1>8

\* The row that a commit leaves.
LEMMA CommittedRow ==
  ASSUME Types, JobInv, CurrentExists, NEW q \in Request, job[q].at = "written"
  PROVE  /\ Committed(job[q]) \in Row
         /\ Committed(job[q]).current \in DOMAIN Committed(job[q]).defs
         /\ job[q] \in CreateJob => Committed(job[q]) = job[q].row
         /\ job[q] \notin CreateJob =>
              /\ job[q].id \in DOMAIN rows
              /\ Committed(job[q]).name = rows[job[q].id].name
              /\ Committed(job[q]).scope = rows[job[q].id].scope
              /\ Committed(job[q]).owner = rows[job[q].id].owner
              /\ \A n \in DOMAIN rows[job[q].id].defs :
                   /\ n \in DOMAIN Committed(job[q]).defs
                   /\ Committed(job[q]).defs[n] = rows[job[q].id].defs[n]
<1> DEFINE j == job[q]
           old == rows[j.id]
<1>1. j \in Work /\ Fits(j) /\ ~Taken(j)
  BY JobShape DEF JobInv, KeysHold
<1>2. CASE j \in CreateJob
  <2>1. Committed(j) = j.row
    BY <1>2 DEF Committed, CreateJob
  <2>2. j.row \in Row
    BY <1>2 DEF CreateJob
  <2>3. QED
    BY <1>1, <1>2, <2>1, <2>2 DEF Fits
<1>3. CASE j \in UpdateJob
  <2>1. j.id \in DOMAIN rows /\ old \in Row
    BY <1>1, <1>3 DEF Fits, Types
  <2>2. /\ j.num \in Nat \ {0} /\ j.num <= Len(old.defs) + 1
        /\ j.def \in Definition /\ j.op = "update"
    BY <1>1, <1>3 DEF Fits, UpdateJob
  <2>3. j.num \notin DOMAIN old.defs
    BY <1>1, <2>2 DEF Taken
  <2>4. old.defs \in Seq(Definition)
    BY <2>1 DEF Row
  <2>5. Len(old.defs) \in Nat /\ DOMAIN old.defs = 1..Len(old.defs)
    BY <2>4
  <2>6. j.num = Len(old.defs) + 1
    BY <2>2, <2>3, <2>5
  <2> DEFINE ds == [n \in DOMAIN old.defs \cup {j.num} |->
                      IF n = j.num THEN j.def ELSE old.defs[n]]
  <2>7. Committed(j) = [old EXCEPT !.current = j.num, !.defs = ds]
    BY <2>2 DEF Committed
  <2>8. ds \in Seq(Definition)
    <3> DEFINE c == old.defs
               x == j.def
               m == j.num
    <3>1. c \in Seq(Definition) /\ x \in Definition /\ m = Len(c) + 1
      BY <2>2, <2>4, <2>6
    <3> HIDE DEF c, x, m
    <3>2. [n \in DOMAIN c \cup {m} |-> IF n = m THEN x ELSE c[n]] \in Seq(Definition)
      BY <3>1, NextNumber
    <3>3. QED
      BY <3>2 DEF c, x, m
  <2>9. \A n \in DOMAIN old.defs : n \in DOMAIN ds /\ ds[n] = old.defs[n]
    BY <2>3
  <2>10. j.num \in DOMAIN ds
    OBVIOUS
  <2> HIDE DEF ds
  <2>11. /\ Committed(j) \in Row
         /\ Committed(j).current = j.num /\ Committed(j).defs = ds
         /\ Committed(j).name = old.name
         /\ Committed(j).scope = old.scope
         /\ Committed(j).owner = old.owner
    BY <2>1, <2>2, <2>7, <2>8 DEF Row
  <2>12. j \notin CreateJob
    BY <2>2 DEF CreateJob
  <2>13. QED
    BY <2>1, <2>9, <2>10, <2>11, <2>12
<1>4. CASE j \in ActivateJob
  <2>1. j.id \in DOMAIN rows /\ old \in Row
    BY <1>1, <1>4 DEF Fits, Types
  <2>2. j.num \in Nat \ {0} /\ j.num \in DOMAIN old.defs /\ j.op = "activate"
    BY <1>1, <1>4 DEF Fits, ActivateJob
  <2>3. Committed(j) = [old EXCEPT !.current = j.num]
    BY <2>2 DEF Committed
  <2>4. /\ Committed(j) \in Row
        /\ Committed(j).current = j.num /\ Committed(j).defs = old.defs
        /\ Committed(j).name = old.name
        /\ Committed(j).scope = old.scope
        /\ Committed(j).owner = old.owner
    BY <2>1, <2>2, <2>3 DEF Row
  <2>5. j \notin CreateJob
    BY <2>2 DEF CreateJob
  <2>6. QED
    BY <2>1, <2>2, <2>4, <2>5
<1>5. QED
  BY <1>1, <1>2, <1>3, <1>4 DEF Work

-----------------------------------------------------------------------------
(* Writing requests                                                        *)

TablesInv == Types /\ JobInv /\ CurrentExists /\ PrivateNamesUnique

\* What a request that begins may come to write.
Acceptable(j) ==
  /\ j \in Work /\ j.at = "checked"
  /\ Fits(j)
  /\ j \in CreateJob => j.id \notin Pending

\* A row that is created.
LEMMA RowCreated ==
  ASSUME NEW t \in Id, FreshId(t), NEW n \in AnyName, NEW sc \in {"global", "private"},
         NEW u \in User, NEW d \in Definition
  PROVE  Acceptable([at |-> "checked", op |-> "create", id |-> t, row |-> NewRow(n, sc, u, d)])
<1> DEFINE r == NewRow(n, sc, u, d)
           j == [at |-> "checked", op |-> "create", id |-> t, row |-> r]
<1>1. <<d>> \in Seq(Definition) /\ DOMAIN <<d>> = {1}
  OBVIOUS
<1>2. r \in Row /\ r.current \in DOMAIN r.defs
  BY <1>1 DEF NewRow, Row, Owner
<1>3. t \notin DOMAIN rows /\ t \notin Pending
  BY DEF FreshId, Least
<1> HIDE DEF r
<1>4. j \in CreateJob /\ j \notin UpdateJob /\ j \notin ActivateJob
  BY <1>2 DEF CreateJob, UpdateJob, ActivateJob
<1>5. Acceptable(j)
  BY <1>2, <1>3, <1>4 DEF Acceptable, Fits, Work
<1>6. QED
  BY <1>5 DEF r

\* Whatever a request does before it writes, it comes to something acceptable.
LEMMA Accepted ==
  ASSUME TablesInv, NEW q \in Request, Handle(q)
  PROVE  \E j : Acceptable(j) /\ Begin(q, j)
<1> USE DEF TablesInv
<1>1. PICK t \in Id :
       \/ \E u \in User, d \in Submitted :
            \/ \E n \in Name : \/ \E sc \in {"global", "private"} : CreateGlobal(q, u, t, n, sc, d)
                               \/ CreatePrivate(q, u, t, n, d)
            \/ Update(q, u, t, d)
       \/ \E u \in User, src \in Id : Fork(q, u, src, t)
       \/ \E n \in 1..MaxVersions : Activate(q, t, n)
  BY DEF Handle
<1>2. Name \subseteq AnyName /\ Submitted \subseteq Definition
  BY DEF AnyName, Definition
<1>3. ASSUME NEW u \in User, NEW d \in Submitted, NEW n \in Name,
             NEW sc \in {"global", "private"}, CreateGlobal(q, u, t, n, sc, d)
      PROVE  \E j : Acceptable(j) /\ Begin(q, j)
  BY <1>2, <1>3, RowCreated DEF CreateGlobal
<1>4. ASSUME NEW u \in User, NEW d \in Submitted, NEW n \in Name, CreatePrivate(q, u, t, n, d)
      PROVE  \E j : Acceptable(j) /\ Begin(q, j)
  BY <1>2, <1>4, RowCreated DEF CreatePrivate
<1>5. ASSUME NEW u \in User, NEW d \in Submitted, Update(q, u, t, d)
      PROVE  \E j : Acceptable(j) /\ Begin(q, j)
  <2> DEFINE num == Len(rows[t].defs) + 1
             j == [at |-> "checked", op |-> "update", id |-> t, num |-> num, def |-> d]
  <2>1. t \in DOMAIN rows /\ Begin(q, j)
    BY <1>5 DEF Update
  <2>2. rows[t].defs \in Seq(Definition)
    BY <2>1 DEF Types, Row
  <2>3. num \in Nat \ {0} /\ num <= Len(rows[t].defs) + 1
    BY <2>2
  <2> HIDE DEF num
  <2>4. j \in UpdateJob /\ j \notin CreateJob /\ j \notin ActivateJob
    BY <1>2, <2>3 DEF CreateJob, UpdateJob, ActivateJob
  <2>5. Acceptable(j)
    BY <2>1, <2>3, <2>4 DEF Acceptable, Fits, Work
  <2>6. QED
    BY <2>1, <2>5
<1>6. ASSUME NEW u \in User, NEW src \in Id, Fork(q, u, src, t)
      PROVE  \E j : Acceptable(j) /\ Begin(q, j)
  <2>1. src \in DOMAIN rows /\ rows[src] \in Row /\ rows[src].current \in DOMAIN rows[src].defs
    BY <1>6 DEF Fork, Types, CurrentExists
  <2> DEFINE d == rows[src].defs[rows[src].current]
             n == ForkName[rows[src].name]
  <2>2. d \in Definition
    BY <2>1 DEF Row
  <2>3. LlmForm(d) \in Definition
    BY <2>2, ForkedForm
  <2>4. n \in AnyName
    BY <1>6 DEF Fork, AnyName
  <2>5. /\ FreshId(t)
        /\ Begin(q, [at |-> "checked", op |-> "create", id |-> t,
                     row |-> NewRow(n, "private", u, LlmForm(d))])
    BY <1>6 DEF Fork
  <2> HIDE DEF d, n
  <2>6. QED
    BY <2>3, <2>4, <2>5, RowCreated
<1>7. ASSUME NEW n \in 1..MaxVersions, Activate(q, t, n)
      PROVE  \E j : Acceptable(j) /\ Begin(q, j)
  <2> DEFINE j == [at |-> "checked", op |-> "activate", id |-> t, num |-> n]
  <2>1. t \in DOMAIN rows /\ n \in DOMAIN rows[t].defs /\ Begin(q, j)
    BY <1>7 DEF Activate
  <2>2. n \in Nat \ {0}
    BY TemplateAssumption
  <2>3. j \in ActivateJob /\ j \notin CreateJob /\ j \notin UpdateJob
    BY <2>2 DEF CreateJob, UpdateJob, ActivateJob
  <2>4. Acceptable(j)
    BY <2>1, <2>3 DEF Acceptable, Fits, Work
  <2>5. QED
    BY <2>1, <2>4
<1>8. QED
  BY <1>1, <1>3, <1>4, <1>5, <1>6, <1>7

\* A job that was flushed and stays flushed, over the same tables.
LEMMA KeyStillHolds ==
  ASSUME Types, KeysHold, rows' = rows, NEW p \in Request, job'[p] = job[p],
         job'[p].at = "written"
  PROVE  ~Taken(job[p])'
<1> DEFINE j == job[p]
<1>1. j \in Work
  BY JobShape
<1>2. j.op \in {"create", "update", "activate"}
  BY <1>1 DEF Work, CreateJob, UpdateJob, ActivateJob
<1>3. ~Taken(j)
  BY DEF KeysHold
<1>4. j' = j
  OBVIOUS
<1> HIDE DEF j
<1>5. ~Taken(j)'
  BY <1>2, <1>3, <1>4 DEF Taken, SameName
<1>6. QED
  BY <1>5 DEF j

\* A request that begins.
LEMMA BeginStep ==
  ASSUME TablesInv, NEW q \in Request, NEW j, Acceptable(j), Begin(q, j)
  PROVE  TablesInv'
<1> USE DEF TablesInv
<1>1. /\ job' = [job EXCEPT ![q] = j] /\ rows' = rows
      /\ cache' = cache /\ sims' = sims /\ load' = load
  BY DEF Begin
<1>2. j \in Work /\ j.at = "checked" /\ Fits(j)
  BY DEF Acceptable
<1>3. Types'
  BY <1>1, <1>2 DEF Types
<1>4. job'[q] = j /\ \A p \in Request : p # q => job'[p] = job[p]
  BY <1>1 DEF Types
<1>5. ASSUME NEW p \in Request PROVE Fits(job[p])'
  BY <1>1, <1>2, <1>4 DEF JobInv, Fits
<1>6. IdsApart'
  <2>1. ASSUME NEW p \in Request, p # q, job[p] \in CreateJob, j \in CreateJob
        PROVE  job[p].id # j.id
    <3>1. job[p] # NoJob
      BY <2>1 DEF CreateJob, NoJob
    <3>2. job[p].id \in Pending
      BY <3>1 DEF Pending
    <3>3. QED
      BY <2>1, <3>2 DEF Acceptable
  <2>2. QED
    BY <1>4, <2>1 DEF JobInv, IdsApart
<1>7. LocksApart'
  BY <1>2, <1>4 DEF JobInv, LocksApart, Apart, SameName
<1>8. KeysHold'
  BY <1>1, <1>2, <1>4, KeyStillHolds DEF JobInv, KeysHold
<1>9. QED
  BY <1>1, <1>3, <1>5, <1>6, <1>7, <1>8 DEF JobInv, CurrentExists, PrivateNamesUnique, SameName

\* A job that has been flushed is the same job.
LEMMA Flushed ==
  ASSUME NEW j \in Work
  PROVE  LET k == [j EXCEPT !.at = "written"]
         IN /\ k \in Work /\ k.at = "written" /\ k.op = j.op /\ k.id = j.id
            /\ k \in CreateJob   => j \in CreateJob /\ k.row = j.row
            /\ k \in UpdateJob   => j \in UpdateJob /\ k.num = j.num
            /\ k \in ActivateJob => j \in ActivateJob /\ k.num = j.num
            /\ j.op = "create"   => k.row = j.row
            /\ j.op = "update"   => k.num = j.num
BY DEF Work, CreateJob, UpdateJob, ActivateJob

\* A request whose write the locks and the unique keys let pass.
LEMMA WriteStep ==
  ASSUME TablesInv, NEW q \in Request, Write(q)
  PROVE  TablesInv'
<1> USE DEF TablesInv
<1> DEFINE j == job[q]
           k == [j EXCEPT !.at = "written"]
<1>1. /\ job' = [job EXCEPT ![q] = k] /\ rows' = rows
      /\ cache' = << >> /\ sims' = << >> /\ load' = load
  BY DEF Write
<1>2. j \in Work /\ ~Taken(j) /\ ~Held(q)
  BY JobShape DEF Write
<1> HIDE DEF k
<1>3. /\ k \in Work /\ k.at = "written" /\ k.op = j.op /\ k.id = j.id
      /\ k \in CreateJob   => j \in CreateJob /\ k.row = j.row
      /\ k \in UpdateJob   => j \in UpdateJob /\ k.num = j.num
      /\ k \in ActivateJob => j \in ActivateJob /\ k.num = j.num
      /\ j.op = "create"   => k.row = j.row
      /\ j.op = "update"   => k.num = j.num
  BY <1>2, Flushed DEF k
<1>4. job'[q] = k /\ \A p \in Request : p # q => job'[p] = job[p]
  BY <1>1 DEF Types
<1>5. Types'
  BY <1>1, <1>3 DEF Types
<1>6. ASSUME NEW p \in Request PROVE Fits(job[p])'
  <2>1. Fits(job[p]) /\ Fits(j)
    BY DEF JobInv
  <2>2. QED
    BY <1>1, <1>3, <1>4, <2>1 DEF Fits
<1>7. IdsApart'
  BY <1>3, <1>4 DEF JobInv, IdsApart
<1>8. LocksApart'
  <2>1. ASSUME NEW w \in Request, w # q, job[w].at = "written"
        PROVE  Apart(job[w], k) /\ Apart(k, job[w])
    <3>1. job[w].id # k.id
      BY <1>2, <1>3, <2>1 DEF Held
    <3>2. ~(job[w].op = "create" /\ k.op = "create" /\ SameName(job[w].row, k.row))
      BY <1>2, <1>3, <2>1 DEF Held
    <3>3. SameName(k.row, job[w].row) => SameName(job[w].row, k.row)
      BY DEF SameName
    <3>4. QED
      BY <3>1, <3>2, <3>3 DEF Apart
  <2>2. QED
    BY <1>4, <2>1 DEF JobInv, LocksApart, Apart, SameName
<1>9. KeysHold'
  <2>1. ~Taken(k)
    <3>1. j.op \in {"create", "update", "activate"}
      BY <1>2 DEF Work, CreateJob, UpdateJob, ActivateJob
    <3>2. QED
      BY <1>2, <1>3, <3>1 DEF Taken
  <2>2. ~Taken(job[q])'
    <3> DEFINE l == job[q]
    <3>1. l' = k /\ rows' = rows
      BY <1>1, <1>4
    <3> HIDE DEF l, k
    <3>2. k.op \in {"create", "update", "activate"}
      BY <1>3 DEF Work, CreateJob, UpdateJob, ActivateJob
    <3>3. ~Taken(l)'
      BY <2>1, <3>1, <3>2 DEF Taken, SameName
    <3>4. QED
      BY <3>3 DEF l
  <2>3. QED
    BY <1>1, <1>4, <2>2, KeyStillHolds DEF JobInv, KeysHold
<1>10. QED
  BY <1>1, <1>5, <1>6, <1>7, <1>8, <1>9 DEF JobInv, CurrentExists, PrivateNamesUnique, SameName

\* A request that ends without a commit.
LEMMA RollbackStep ==
  ASSUME TablesInv, NEW q \in Request, Rollback(q)
  PROVE  TablesInv'
<1> USE DEF TablesInv
<1>1. /\ job' = [job EXCEPT ![q] = NoJob] /\ rows' = rows
      /\ cache' = cache /\ sims' = sims /\ load' = load
  BY DEF Rollback
<1>2. NoJob.at = "idle" /\ NoJob \notin CreateJob /\ NoJob \notin UpdateJob /\ NoJob \notin ActivateJob
  BY DEF NoJob, CreateJob, UpdateJob, ActivateJob
<1>3. job'[q] = NoJob /\ \A p \in Request : p # q => job'[p] = job[p]
  BY <1>1 DEF Types
<1>4. Types'
  BY <1>1 DEF Types
<1>5. ASSUME NEW p \in Request PROVE Fits(job[p])'
  BY <1>1, <1>2, <1>3 DEF JobInv, Fits
<1>6. IdsApart' /\ LocksApart'
  BY <1>2, <1>3 DEF JobInv, IdsApart, LocksApart, Apart, SameName
<1>7. KeysHold'
  BY <1>1, <1>2, <1>3, KeyStillHolds DEF JobInv, KeysHold
<1>8. QED
  BY <1>1, <1>4, <1>5, <1>6, <1>7 DEF JobInv, CurrentExists, PrivateNamesUnique, SameName

-----------------------------------------------------------------------------
(* Commits                                                                 *)

\* What a commit does to the tables.
LEMMA CommitRows ==
  ASSUME TablesInv, NEW q \in Request, Commit(q)
  PROVE  /\ job[q] \in Work /\ job[q].at = "written"
         /\ DOMAIN rows' = DOMAIN rows \cup {job[q].id}
         /\ rows'[job[q].id] = Committed(job[q])
         /\ \A t \in DOMAIN rows : t # job[q].id => rows'[t] = rows[t]
         /\ \A t \in DOMAIN rows' : rows'[t] \in Row
         /\ CurrentExists'
         /\ Grows
<1> USE DEF TablesInv
<1> DEFINE j == job[q]
           r == Committed(job[q])
<1>1. j \in Work /\ j.at = "written"
  BY JobShape DEF Commit
<1>2. /\ r \in Row
      /\ r.current \in DOMAIN r.defs
      /\ j \in CreateJob => r = j.row
      /\ j \notin CreateJob =>
           /\ j.id \in DOMAIN rows
           /\ r.name = rows[j.id].name
           /\ r.scope = rows[j.id].scope
           /\ r.owner = rows[j.id].owner
           /\ \A n \in DOMAIN rows[j.id].defs :
                n \in DOMAIN r.defs /\ r.defs[n] = rows[j.id].defs[n]
  BY <1>1, CommittedRow
<1>3. rows' = [t \in DOMAIN rows \cup {j.id} |-> IF t = j.id THEN r ELSE rows[t]]
  BY DEF Commit
<1>4. j \in CreateJob => j.id \notin DOMAIN rows
  BY DEF JobInv, Fits
<1> HIDE DEF r, j
<1>5. /\ DOMAIN rows' = DOMAIN rows \cup {j.id}
      /\ rows'[j.id] = r
      /\ \A t \in DOMAIN rows : t # j.id => rows'[t] = rows[t]
  BY <1>3
<1>6. \A t \in DOMAIN rows' : rows'[t] \in Row
  BY <1>2, <1>5 DEF Types
<1>7. CurrentExists'
  BY <1>2, <1>5 DEF CurrentExists
<1>8. Grows
  BY <1>2, <1>4, <1>5 DEF Grows
<1>9. QED
  BY <1>1, <1>5, <1>6, <1>7, <1>8 DEF j, r

\* A request that commits leaves tables that its write was admitted to.
LEMMA CommitStep ==
  ASSUME TablesInv, NEW q \in Request, Commit(q)
  PROVE  TablesInv'
<1> USE DEF TablesInv
<1> DEFINE j == job[q]
           r == Committed(job[q])
<1>1. /\ j \in Work /\ j.at = "written"
      /\ DOMAIN rows' = DOMAIN rows \cup {j.id}
      /\ rows'[j.id] = r
      /\ \A t \in DOMAIN rows : t # j.id => rows'[t] = rows[t]
      /\ \A t \in DOMAIN rows' : rows'[t] \in Row
      /\ CurrentExists'
      /\ Grows
  BY CommitRows
<1>2. /\ j \in CreateJob => r = j.row
      /\ j \notin CreateJob => /\ j.id \in DOMAIN rows
                               /\ r.name = rows[j.id].name
                               /\ r.scope = rows[j.id].scope
                               /\ r.owner = rows[j.id].owner
  BY <1>1, CommittedRow
<1>3. Fits(j) /\ ~Taken(j)
  BY <1>1 DEF JobInv, KeysHold
<1>4. /\ job' = [job EXCEPT ![q] = NoJob]
      /\ cache' = cache /\ sims' = sims /\ load' = load
  BY DEF Commit
<1>5. j.id \in Id /\ (j \in CreateJob => j.op = "create")
  BY <1>1 DEF Work, CreateJob, UpdateJob, ActivateJob
<1> HIDE DEF j, r
<1>6. Types'
  BY <1>1, <1>4, <1>5 DEF Types
<1>7. NoJob.at = "idle" /\ NoJob \notin CreateJob /\ NoJob \notin UpdateJob /\ NoJob \notin ActivateJob
  BY DEF NoJob, CreateJob, UpdateJob, ActivateJob
<1>8. job'[q] = NoJob /\ \A p \in Request : p # q => job'[p] = job[p]
  BY <1>4 DEF Types
<1>9. ASSUME NEW p \in Request, p # q PROVE Fits(job[p])'
  <2> DEFINE k == job[p]
  <2>1. Fits(k)
    BY DEF JobInv
  <2>2. k' = k
    BY <1>8, <1>9
  <2>3. k \in CreateJob => k.id # j.id
    <3>1. CASE j \in CreateJob
      BY <1>9, <3>1 DEF JobInv, IdsApart, j
    <3>2. CASE j \notin CreateJob
      BY <1>2, <2>1, <3>2 DEF Fits
    <3>3. QED
      BY <3>1, <3>2
  <2>4. k \in UpdateJob => k.num \in Nat
    BY DEF UpdateJob
  <2> HIDE DEF k
  <2>5. ASSUME k \in UpdateJob
        PROVE  k.id \in DOMAIN rows' /\ k.num <= Len(rows'[k.id].defs) + 1
    <3>1. k.id \in DOMAIN rows /\ k.num <= Len(rows[k.id].defs) + 1
      BY <2>1, <2>5 DEF Fits
    <3> DEFINE ds == rows[k.id].defs
               es == rows'[k.id].defs
    <3>2. k.id \in DOMAIN rows' /\ DOMAIN ds \subseteq DOMAIN es
      BY <1>1, <3>1 DEF Grows
    <3>3. ds \in Seq(Definition) /\ es \in Seq(Definition)
      BY <1>1, <3>1, <3>2 DEF Types, Row
    <3> HIDE DEF ds, es
    <3>4. Len(ds) <= Len(es)
      <4>1. Len(ds) \in Nat /\ Len(es) \in Nat /\ DOMAIN ds = 1..Len(ds) /\ DOMAIN es = 1..Len(es)
        BY <3>3
      <4>2. CASE Len(ds) = 0
        BY <4>1, <4>2
      <4>3. CASE Len(ds) # 0
        <5>1. Len(ds) \in DOMAIN ds
          BY <4>1, <4>3
        <5>2. Len(ds) \in 1..Len(es)
          BY <3>2, <4>1, <5>1
        <5>3. QED
          BY <4>1, <5>2
      <4>4. QED
        BY <4>2, <4>3
    <3>5. k.num <= Len(ds) + 1
      BY <3>1 DEF ds
    <3>6. k.num <= Len(es) + 1
      BY <2>4, <2>5, <3>3, <3>4, <3>5
    <3>7. QED
      BY <3>2, <3>6 DEF es
  <2>6. k \in ActivateJob => k.id \in DOMAIN rows' /\ k.num \in DOMAIN rows'[k.id].defs
    BY <1>1, <2>1 DEF Fits, Grows
  <2>7. k \in CreateJob => k.id \notin DOMAIN rows' /\ k.row.current \in DOMAIN k.row.defs
    BY <1>1, <2>1, <2>3 DEF Fits
  <2>8. Fits(k)'
    BY <2>2, <2>5, <2>6, <2>7 DEF Fits
  <2>9. QED
    BY <2>8 DEF k
<1>10. Fits(job[q])'
  BY <1>7, <1>8 DEF Fits
<1>11. IdsApart' /\ LocksApart'
  BY <1>7, <1>8 DEF JobInv, IdsApart, LocksApart, Apart, SameName
<1>12. ASSUME NEW p \in Request, p # q, job'[p].at = "written" PROVE ~Taken(job[p])'
  <2> DEFINE k == job[p]
  <2>1. k' = k /\ k.at = "written"
    BY <1>8, <1>12
  <2>2. ~Taken(k) /\ k \in Work
    BY <2>1, JobShape DEF JobInv, KeysHold
  <2>3. Apart(j, k)
    BY <1>1, <1>12, <2>1 DEF JobInv, LocksApart, j
  <2>4. k.op \in {"create", "update", "activate"}
    BY <2>2 DEF Work, CreateJob, UpdateJob, ActivateJob
  <2>5. Fits(k) /\ (k.op = "update" => k \in UpdateJob)
    BY <2>2 DEF JobInv, Work, CreateJob, UpdateJob, ActivateJob
  <2> HIDE DEF k
  <2>6. ASSUME k.op = "create", NEW t \in DOMAIN rows' PROVE ~SameName(rows'[t], k.row)
    <3>1. CASE t \in DOMAIN rows
      <4>1. /\ rows'[t].name = rows[t].name
            /\ rows'[t].scope = rows[t].scope
            /\ rows'[t].owner = rows[t].owner
        BY <1>1, <3>1 DEF Grows
      <4>2. ~SameName(rows[t], k.row)
        BY <2>2, <2>6, <3>1 DEF Taken
      <4>3. QED
        BY <4>1, <4>2 DEF SameName
    <3>2. CASE t \notin DOMAIN rows
      <4>1. t = j.id /\ j \in CreateJob
        BY <1>1, <1>2, <3>2
      <4>2. rows'[t] = j.row /\ j.op = "create"
        BY <1>1, <1>2, <1>5, <4>1
      <4>3. QED
        BY <2>3, <2>6, <4>2 DEF Apart
    <3>3. QED
      BY <3>1, <3>2
  <2>7. ASSUME k.op = "update" PROVE k.num \notin DOMAIN rows'[k.id].defs
    <3>1. k.id \in DOMAIN rows /\ k.id # j.id
      BY <2>3, <2>5, <2>7 DEF Fits, Apart
    <3>2. rows'[k.id] = rows[k.id]
      BY <1>1, <3>1
    <3>3. QED
      BY <2>2, <2>7, <3>2 DEF Taken
  <2>8. ~Taken(k)'
    BY <2>1, <2>4, <2>6, <2>7 DEF Taken
  <2>9. QED
    BY <2>8 DEF k
<1>13. KeysHold'
  BY <1>7, <1>8, <1>12 DEF KeysHold
<1>14. PrivateNamesUnique'
  <2>1. ASSUME NEW t \in DOMAIN rows, NEW s \in DOMAIN rows, SameName(rows'[t], rows'[s])
        PROVE  t = s
    <3>1. SameName(rows[t], rows[s])
      BY <1>1, <2>1 DEF Grows, SameName
    <3>2. QED
      BY <3>1 DEF PrivateNamesUnique
  <2>2. ASSUME NEW t \in DOMAIN rows, j.id \notin DOMAIN rows
        PROVE  ~SameName(rows'[t], r) /\ ~SameName(r, rows'[t])
    <3>1. j \in CreateJob /\ r = j.row /\ j.op = "create"
      BY <1>2, <1>5, <2>2
    <3>2. ~SameName(rows[t], r)
      BY <1>3, <3>1 DEF Taken
    <3>3. rows'[t] = rows[t]
      BY <1>1, <2>2
    <3>4. QED
      BY <3>2, <3>3 DEF SameName
  <2>3. QED
    BY <1>1, <2>1, <2>2 DEF PrivateNamesUnique
<1>15. QED
  BY <1>1, <1>6, <1>9, <1>10, <1>11, <1>13, <1>14 DEF JobInv

-----------------------------------------------------------------------------
(* The registry                                                            *)

\* The templates that the tables hold, each version of each.
Stored == UNION {{TemplateOf(t, v) : v \in DOMAIN rows[t].defs} : t \in DOMAIN rows}

\* The answer x to a question for key k.
Answers(k, x) ==
  /\ x \in Stored
  /\ x.name = k.name /\ x.owner = k.owner
  /\ k.version # 0 => x.version = k.version

\* A load and a cached template answer their key; a cached simulator was made
\* of a stored template, and goes by its key.
RegistryInv ==
  /\ LruSound(cache) /\ LruSound(sims)
  /\ \A l, m \in load : l = m
  /\ \A l \in load : Answers(l.key, l.val)
  /\ \A i \in DOMAIN cache : Answers(cache[i].key, cache[i].val)
  /\ \A i \in DOMAIN sims :
       \E x \in Stored : sims[i].key = SimKey(x) /\ sims[i].val \in Made(x)

IInv == TablesInv /\ RegistryInv

LEMMA StoredTyped ==
  ASSUME Types, NEW t \in DOMAIN rows, NEW v \in DOMAIN rows[t].defs
  PROVE  TemplateOf(t, v) \in Template /\ TemplateOf(t, v) \in Stored
<1>1. t \in Id /\ rows[t] \in Row
  BY DEF Types
<1>2. rows[t].defs \in Seq(Definition)
  BY <1>1 DEF Row
<1>3. v \in Nat /\ rows[t].defs[v] \in Definition
  BY <1>2
<1>4. TemplateOf(t, v) \in Template
  BY <1>1, <1>3 DEF TemplateOf, Template, Row
<1>5. QED
  BY <1>4 DEF Stored

\* What a load may find.
LEMMA LoadedStored ==
  ASSUME Types, NEW t \in DOMAIN rows, NEW v
  PROVE  /\ \A x \in Loaded(t, v) :
              /\ x \in Stored /\ x \in Template
              /\ x.name = rows[t].name /\ x.owner = rows[t].owner
              /\ v # 0 => x.version = v
         /\ \A x, y \in Loaded(t, v) : x = y
<1> DEFINE n == IF v = 0 THEN rows[t].current ELSE v
<1>1. \A x \in Loaded(t, v) : \E m \in DOMAIN rows[t].defs : x = TemplateOf(t, m) /\ x.version = n
  BY DEF Loaded
<1>2. \A m : TemplateOf(t, m).version = m
  BY DEF TemplateOf
<1>3. \A x \in Loaded(t, v) : x = TemplateOf(t, n) /\ n \in DOMAIN rows[t].defs
  BY <1>1, <1>2
<1> HIDE DEF n
<1>4. TemplateOf(t, n).name = rows[t].name /\ TemplateOf(t, n).owner = rows[t].owner
  BY DEF TemplateOf
<1>5. QED
  BY <1>2, <1>3, <1>4, StoredTyped DEF n

\* A committed version goes on being the template it is.
LEMMA StoredKept ==
  ASSUME Grows
  PROVE  Stored \subseteq Stored'
<1> SUFFICES ASSUME NEW x \in Stored PROVE x \in Stored'
  OBVIOUS
<1>1. PICK t \in DOMAIN rows : \E v \in DOMAIN rows[t].defs : x = TemplateOf(t, v)
  BY DEF Stored
<1>2. PICK v \in DOMAIN rows[t].defs : x = TemplateOf(t, v)
  BY <1>1
<1>3. t \in DOMAIN rows' /\ v \in DOMAIN rows'[t].defs
  BY DEF Grows
<1>4. x = [id |-> t, name |-> rows'[t].name, scope |-> rows'[t].scope, owner |-> rows'[t].owner,
           version |-> v, def |-> rows'[t].defs[v]]
  BY <1>2 DEF TemplateOf, Grows
<1>5. QED
  BY <1>3, <1>4 DEF Stored, TemplateOf

\* A simulator has its types.
LEMMA MadeTyped ==
  ASSUME NEW x \in Template
  PROVE  Made(x) \subseteq Sim
<1>1. x.def.engine \in {"llm", "pure_python", "hybrid"}
  BY TemplateAssumption DEF Template
<1>2. Python(x) \subseteq Registered
  BY DEF Python
<1>3. CASE x.def.engine = "pure_python"
  BY <1>2, <1>3 DEF Made, Simulator, Sim
<1>4. CASE x.def.engine = "llm"
  BY <1>4 DEF Made, Simulator, Sim
<1>5. CASE x.def.engine = "hybrid"
  <2> DEFINE fallback == IF x.def.fallback THEN {x} ELSE {}
  <2>1. fallback \subseteq {x}
    OBVIOUS
  <2>2. Made(x) = IF x.def.impl # NoImpl THEN {Simulator(p, fallback) : p \in Python(x)}
                                         ELSE {Simulator(NoImpl, {y}) : y \in fallback}
    BY <1>5 DEF Made
  <2> HIDE DEF fallback
  <2>3. QED
    BY <1>2, <2>1, <2>2 DEF Simulator, Sim
<1>6. QED
  BY <1>1, <1>3, <1>4, <1>5

\* A simulator that is put into the cache was made of a stored template.
LEMMA SimulateStep ==
  ASSUME Types, RegistryInv, NEW x \in Template, x \in Stored, Simulate(x)
  PROVE  /\ sims' \in Seq([key : EntryKey, val : Sim])
         /\ LruSound(sims')
         /\ \A i \in DOMAIN sims' :
              \E y \in Stored : sims'[i].key = SimKey(y) /\ sims'[i].val \in Made(y)
<1>1. PICK m \in Made(x) : sims' = Put(sims, SimKey(x), m)
  BY DEF Simulate
<1> DEFINE k == SimKey(x)
           e == [key |-> k, val |-> m]
<1>2. k \in EntryKey
  BY DEF SimKey, KeyOf, EntryKey, Template
<1>3. m \in Sim
  BY MadeTyped
<1>4. e \in [key : EntryKey, val : Sim] /\ e.key = k /\ e.val = m
  BY <1>2, <1>3
<1>5. sims \in Seq([key : EntryKey, val : Sim]) /\ LruSound(sims)
  BY DEF Types, RegistryInv
<1> DEFINE p == Put(sims, k, m)
           S == [key : EntryKey, val : Sim]
<1> HIDE DEF k, S
<1>6. /\ p \in Seq(S)
      /\ LruSound(p)
      /\ \A i \in DOMAIN p : p[i] = e \/ \E n \in DOMAIN sims : p[i] = sims[n]
  <2>1. sims \in Seq(S) /\ LruSound(sims) /\ e \in S
    BY <1>4, <1>5 DEF S
  <2>2. QED
    BY <2>1, PutSound
<1>7. sims' = p
  BY <1>1 DEF k
<1> HIDE DEF p, e
<1>8. \A i \in DOMAIN p :
        \E y \in Stored : p[i].key = SimKey(y) /\ p[i].val \in Made(y)
  BY <1>4, <1>6 DEF RegistryInv, k
<1>9. QED
  BY <1>6, <1>7, <1>8 DEF S

\* A template that is put into the other cache.
LEMMA KeepStep ==
  ASSUME Types, LruSound(cache), NEW l \in load, cache' = Put(cache, l.key, l.val)
  PROVE  /\ cache' \in Seq([key : EntryKey, val : Template]) /\ LruSound(cache')
         /\ \A i \in DOMAIN cache' :
              \/ cache'[i].key = l.key /\ cache'[i].val = l.val
              \/ \E n \in DOMAIN cache : cache'[i] = cache[n]
<1> DEFINE S == [key : EntryKey, val : Template]
           k == l.key
           x == l.val
           e == [key |-> k, val |-> x]
           p == Put(cache, k, x)
<1>1. l \in S
  BY DEF Types
<1>2. e \in S /\ e.key = k /\ e.val = x
  BY <1>1
<1>3. cache \in Seq(S)
  BY DEF Types
<1>4. cache' = p
  OBVIOUS
<1> HIDE DEF S, k, x
<1>5. /\ p \in Seq(S)
      /\ LruSound(p)
      /\ \A i \in DOMAIN p : p[i] = e \/ \E n \in DOMAIN cache : p[i] = cache[n]
  BY <1>2, <1>3, PutSound
<1> HIDE DEF p, e
<1>6. QED
  BY <1>2, <1>4, <1>5 DEF S, k, x

\* Steps of the registry that leave the tables and the requests alone.
LEMMA RegistryStep ==
  ASSUME IInv, UNCHANGED <<rows, job>>,
         cache' \in Seq([key : EntryKey, val : Template]), LruSound(cache'),
         \A i \in DOMAIN cache' : Answers(cache'[i].key, cache'[i].val),
         sims' \in Seq([key : EntryKey, val : Sim]), LruSound(sims'),
         \A i \in DOMAIN sims' :
           \E x \in Stored : sims'[i].key = SimKey(x) /\ sims'[i].val \in Made(x),
         load' \subseteq [key : EntryKey, val : Template],
         \A l, m \in load' : l = m,
         \A l \in load' : Answers(l.key, l.val)
  PROVE  IInv'
<1>1. Stored' = Stored
  BY DEF Stored, TemplateOf
<1>2. RegistryInv'
  BY <1>1 DEF RegistryInv, Answers
<1>3. Types'
  BY DEF IInv, TablesInv, Types
<1>4. JobInv'
  <2>1. \A q \in Request : Fits(job[q])'
    BY DEF IInv, TablesInv, JobInv, Fits
  <2>2. IdsApart' /\ LocksApart'
    BY DEF IInv, TablesInv, JobInv, IdsApart, LocksApart, Apart, SameName
  <2>3. KeysHold'
    BY KeyStillHolds DEF IInv, TablesInv, JobInv, KeysHold
  <2>4. QED
    BY <2>1, <2>2, <2>3 DEF JobInv
<1>5. CurrentExists' /\ PrivateNamesUnique'
  BY DEF IInv, TablesInv, CurrentExists, PrivateNamesUnique, SameName
<1>6. QED
  BY <1>2, <1>3, <1>4, <1>5 DEF IInv, TablesInv

\* A load begins with what is committed.
LEMMA ReadStep ==
  ASSUME IInv, NEW t \in DOMAIN rows, NEW v \in Nat, Read(t, v)
  PROVE  IInv'
<1> DEFINE k == KeyOf(rows[t].name, rows[t].owner, v)
<1>1. k \in EntryKey
  BY DEF KeyOf, EntryKey, IInv, TablesInv, Types, Row
<1>2. load' = {[key |-> k, val |-> x] : x \in Loaded(t, v)}
  BY DEF Read
<1> HIDE DEF k
<1>3. /\ \A x \in Loaded(t, v) : x \in Template /\ Answers(k, x)
      /\ \A x, y \in Loaded(t, v) : x = y
  BY LoadedStored DEF IInv, TablesInv, Answers, KeyOf, k
<1>4. /\ load' \subseteq [key : EntryKey, val : Template]
      /\ \A l, m \in load' : l = m
      /\ \A l \in load' : Answers(l.key, l.val)
  BY <1>1, <1>2, <1>3
<1>5. cache' = cache /\ sims' = sims /\ UNCHANGED <<rows, job>>
  BY DEF Read
<1>6. QED
  BY <1>4, <1>5, RegistryStep DEF IInv, TablesInv, Types, RegistryInv

\* Where a request does what TablesInv speaks of and at most empties the
\* caches, the registry stays sound.
LEMMA RequestStep ==
  ASSUME IInv, TablesInv', Grows, load' = load,
         \/ cache' = cache /\ sims' = sims
         \/ cache' = << >> /\ sims' = << >>
  PROVE  IInv'
<1>1. Stored \subseteq Stored'
  BY StoredKept
<1>2. LruSound(<< >>)
  BY TemplateAssumption DEF LruSound
<1>3. RegistryInv'
  BY <1>1, <1>2 DEF IInv, RegistryInv, Answers
<1>4. QED
  BY <1>3 DEF IInv

LEMMA InitIInv == Init => IInv
<1> SUFFICES ASSUME Init PROVE IInv
  OBVIOUS
<1>1. PICK t \in Id : rows = [u \in {t} |-> First]
  BY DEF Init, Least
<1>2. First \in Row /\ First.current \in DOMAIN First.defs
  BY TemplateAssumption
<1>3. Types
  BY <1>1, <1>2 DEF Init, Types
<1>4. NoJob.at = "idle" /\ NoJob \notin CreateJob /\ NoJob \notin UpdateJob /\ NoJob \notin ActivateJob
  BY DEF NoJob, CreateJob, UpdateJob, ActivateJob
<1>5. \A q \in Request : job[q] = NoJob
  BY DEF Init
<1>6. JobInv
  BY <1>4, <1>5 DEF JobInv, Fits, IdsApart, LocksApart, KeysHold
<1>7. CurrentExists /\ PrivateNamesUnique
  BY <1>1, <1>2 DEF CurrentExists, PrivateNamesUnique
<1>8. RegistryInv
  BY TemplateAssumption DEF Init, RegistryInv, LruSound
<1>9. QED
  BY <1>3, <1>6, <1>7, <1>8 DEF IInv, TablesInv

\* Every step keeps the inductive invariant, and every committed version.
LEMMA NextStep ==
  ASSUME IInv, [Next]_vars
  PROVE  IInv' /\ Grows
<1> USE DEF IInv
<1>1. ASSUME rows' = rows PROVE Grows
  BY <1>1 DEF Grows
<1>2. ASSUME NEW q \in Request, Handle(q) PROVE IInv' /\ Grows
  <2>1. PICK j : Acceptable(j) /\ Begin(q, j)
    BY <1>2, Accepted
  <2>2. TablesInv' /\ rows' = rows /\ load' = load /\ cache' = cache /\ sims' = sims
    BY <2>1, BeginStep DEF Begin
  <2>3. QED
    BY <1>1, <2>2, RequestStep
<1>3. ASSUME NEW q \in Request, Write(q) PROVE IInv' /\ Grows
  <2>1. TablesInv' /\ rows' = rows /\ load' = load /\ cache' = << >> /\ sims' = << >>
    BY <1>3, WriteStep DEF Write
  <2>2. QED
    BY <1>1, <2>1, RequestStep
<1>4. ASSUME NEW q \in Request, Commit(q) PROVE IInv' /\ Grows
  <2>1. TablesInv' /\ Grows /\ load' = load /\ cache' = cache /\ sims' = sims
    BY <1>4, CommitStep, CommitRows DEF Commit
  <2>2. QED
    BY <2>1, RequestStep
<1>5. ASSUME NEW q \in Request, Rollback(q) PROVE IInv' /\ Grows
  <2>1. TablesInv' /\ rows' = rows /\ load' = load /\ cache' = cache /\ sims' = sims
    BY <1>5, RollbackStep DEF Rollback
  <2>2. QED
    BY <1>1, <2>1, RequestStep
<1>6. ASSUME NEW t \in Id, NEW v \in Asked, GetById(t, v) PROVE IInv' /\ Grows
  <2>1. v \in Nat /\ t \in DOMAIN rows /\ Read(t, v)
    BY <1>6, TemplateAssumption DEF GetById
  <2>2. QED
    BY <1>1, <2>1, ReadStep DEF Read
<1>7. ASSUME NEW k \in Key, Get(k.name, k.owner, k.version) PROVE IInv' /\ Grows
  <2>1. PICK t \in DOMAIN rows : Read(t, k.version)
    BY <1>7 DEF Get
  <2>2. k.version \in Nat
    BY TemplateAssumption DEF Key
  <2>3. QED
    BY <1>1, <2>1, <2>2, ReadStep DEF Read
<1>8. ASSUME NEW t \in Id, NEW v \in 1..MaxVersions, SimulatorOf(t, v) PROVE IInv' /\ Grows
  <2>1. PICK x \in Loaded(t, v) : t \in DOMAIN rows /\ Simulate(Thawed(Frozen(x)))
    BY <1>8 DEF SimulatorOf
  <2>2. x \in Stored /\ x \in Template
    BY <2>1, LoadedStored DEF TablesInv
  <2>3. Simulate(x)
    BY <2>1, <2>2, ThawedIsSame
  <2>4. UNCHANGED <<rows, job, cache, load>>
    BY <1>8 DEF SimulatorOf
  <2>5. QED
    BY <1>1, <2>2, <2>3, <2>4, SimulateStep, RegistryStep DEF TablesInv, Types, RegistryInv
<1>9. CASE Keep
  <2>1. PICK l \in load : cache' = Put(cache, l.key, l.val)
    BY <1>9 DEF Keep
  <2>2. /\ cache' \in Seq([key : EntryKey, val : Template]) /\ LruSound(cache')
        /\ \A i \in DOMAIN cache' : Answers(cache'[i].key, cache'[i].val)
    BY <2>1, KeepStep DEF TablesInv, RegistryInv
  <2>3. load' = {} /\ UNCHANGED <<rows, job, sims>>
    BY <1>9 DEF Keep
  <2>4. QED
    BY <1>1, <2>2, <2>3, RegistryStep DEF TablesInv, Types, RegistryInv
<1>10. CASE Preview
  <2>1. PICK l \in load : cache' = Put(cache, l.key, l.val) /\ Simulate(l.val)
    BY <1>10 DEF Preview
  <2>2. /\ cache' \in Seq([key : EntryKey, val : Template]) /\ LruSound(cache')
        /\ \A i \in DOMAIN cache' : Answers(cache'[i].key, cache'[i].val)
    BY <2>1, KeepStep DEF TablesInv, RegistryInv
  <2>3. l.val \in Template /\ l.val \in Stored
    BY DEF TablesInv, Types, RegistryInv, Answers
  <2>4. load' = {} /\ UNCHANGED <<rows, job>>
    BY <1>10 DEF Preview
  <2>5. QED
    BY <1>1, <2>1, <2>2, <2>3, <2>4, SimulateStep, RegistryStep DEF TablesInv, RegistryInv
<1>11. CASE LapseSimulator
  <2>1. sims # << >> /\ sims' = Tail(sims) /\ UNCHANGED <<rows, job, cache, load>>
    BY <1>11 DEF LapseSimulator
  <2>2. sims \in Seq([key : EntryKey, val : Sim]) /\ LruSound(sims)
    BY DEF TablesInv, Types, RegistryInv
  <2>3. /\ sims' \in Seq([key : EntryKey, val : Sim]) /\ LruSound(sims')
        /\ \A m \in DOMAIN sims' : m + 1 \in DOMAIN sims /\ sims'[m] = sims[m + 1]
    BY <2>1, <2>2, Evicted
  <2>4. \A i \in DOMAIN sims' :
          \E x \in Stored : sims'[i].key = SimKey(x) /\ sims'[i].val \in Made(x)
    BY <2>3 DEF RegistryInv
  <2>5. QED
    BY <1>1, <2>1, <2>3, <2>4, RegistryStep DEF TablesInv, Types, RegistryInv
<1>12. CASE Invalidated
  <2>1. /\ cache' = << >> /\ sims' = << >> /\ UNCHANGED <<rows, job, load>>
        /\ LruSound(<< >>)
    BY <1>12, TemplateAssumption DEF Invalidated, LruSound
  <2>2. QED
    BY <1>1, <2>1, RegistryStep DEF TablesInv, Types, RegistryInv
<1>13. ASSUME NEW k \in Key, Expire(k) PROVE IInv' /\ Grows
  <2>1. cache' = Without(cache, k) /\ UNCHANGED <<rows, job, sims, load>>
    BY <1>13 DEF Expire
  <2>2. cache \in Seq([key : EntryKey, val : Template]) /\ LruSound(cache)
    BY DEF TablesInv, Types, RegistryInv
  <2>3. /\ cache' \in Seq([key : EntryKey, val : Template]) /\ LruSound(cache')
        /\ \A m \in DOMAIN cache' : \E i \in DOMAIN cache : cache'[m] = cache[i]
    BY <2>1, <2>2, Popped
  <2>4. \A m \in DOMAIN cache' : Answers(cache'[m].key, cache'[m].val)
    BY <2>3 DEF RegistryInv
  <2>5. QED
    BY <1>1, <2>1, <2>3, <2>4, RegistryStep DEF TablesInv, Types, RegistryInv
<1>14. CASE UNCHANGED vars
  <2>1. UNCHANGED <<rows, job, cache, sims, load>>
    BY <1>14 DEF vars
  <2>2. QED
    BY <1>1, <2>1, RegistryStep DEF TablesInv, Types, RegistryInv
<1>15. QED
  BY <1>2, <1>3, <1>4, <1>5, <1>6, <1>7, <1>8, <1>9, <1>10, <1>11, <1>12, <1>13, <1>14
     DEF Next

-----------------------------------------------------------------------------
(* The theorems                                                            *)

LEMMA InvImpliesTypeOK == IInv => TypeOK
<1> SUFFICES ASSUME IInv PROVE TypeOK
  OBVIOUS
<1> USE DEF IInv, TablesInv
<1>1. \A q \in Request : job[q].at \in {"idle", "checked", "written"}
  BY JobShape
<1>2. \A i \in DOMAIN cache : cache[i].val \in Template
  <2> DEFINE S == [key : EntryKey, val : Template]
  <2>1. cache \in Seq(S)
    BY DEF Types
  <2> HIDE DEF S
  <2>2. \A i \in DOMAIN cache : cache[i] \in S
    BY <2>1
  <2>3. QED
    BY <2>2 DEF S
<1>3. \A i \in DOMAIN sims : sims[i].val.python \in Registered \cup {NoImpl}
  <2> DEFINE S == [key : EntryKey, val : Sim]
  <2>1. sims \in Seq(S)
    BY DEF Types
  <2> HIDE DEF S
  <2>2. \A i \in DOMAIN sims : sims[i] \in S
    BY <2>1
  <2>3. QED
    BY <2>2 DEF S, Sim
<1>4. Cardinality(load) <= 1
  <2>1. CASE load = {}
    BY <2>1, FS_EmptySet
  <2>2. CASE load # {}
    <3>1. PICK l \in load : TRUE
      BY <2>2
    <3>2. load = {l}
      BY <3>1, Zenon DEF RegistryInv
    <3>3. Cardinality({l}) = 1
      BY FS_Singleton
    <3>4. QED
      BY <3>2, <3>3
  <2>3. QED
    BY <2>1, <2>2
<1>5. QED
  BY <1>1, <1>2, <1>3, <1>4 DEF TypeOK, Types, RegistryInv, LruSound

\* The cached simulator that has the key of a stored template whose name is
\* its owner's alone was made of that very template.
LEMMA InvImpliesExact == IInv => SimulatorIsExact
<1> SUFFICES ASSUME IInv, NEW t \in DOMAIN rows, Alone(t),
                    NEW v \in 1..MaxVersions, v \in DOMAIN rows[t].defs,
                    NEW x \in Loaded(t, v), NEW i \in DOMAIN sims, sims[i].key = SimKey(x)
             PROVE  sims[i].val \in Made(x)
  BY DEF SimulatorIsExact
<1>1. v # 0
  BY TemplateAssumption
<1>2. x = TemplateOf(t, v)
  <2>1. PICK m \in DOMAIN rows[t].defs : x = TemplateOf(t, m) /\ x.version = v
    BY <1>1 DEF Loaded
  <2>2. TemplateOf(t, m).version = m
    BY DEF TemplateOf
  <2>3. QED
    BY <2>1, <2>2
<1>3. PICK y \in Stored : sims[i].key = SimKey(y) /\ sims[i].val \in Made(y)
  BY DEF IInv, RegistryInv
<1>4. PICK s \in DOMAIN rows : \E n \in DOMAIN rows[s].defs : y = TemplateOf(s, n)
  BY DEF Stored
<1>5. PICK n \in DOMAIN rows[s].defs : y = TemplateOf(s, n)
  BY <1>4
<1>6. rows[s].name = rows[t].name /\ rows[s].owner = rows[t].owner /\ n = v
  BY <1>2, <1>3, <1>5 DEF SimKey, KeyOf, TemplateOf
<1>7. s = t
  BY <1>6 DEF Alone, Named
<1>8. QED
  BY <1>2, <1>3, <1>5, <1>6, <1>7

\* Whatever creates, updates, forks and activations overlap, the tables and
\* the caches keep their types, every template has a current version, and a
\* private name leads to one template of its owner: the checks of a request
\* may be stale when it writes, the unique keys and the row locks are not.
THEOREM RowsAlwaysSound == Spec => []RowsSound
<1>1. IInv /\ [Next]_vars => IInv'
  BY NextStep
<1>2. IInv => RowsSound
  BY InvImpliesTypeOK DEF IInv, TablesInv, RowsSound
<1>3. QED
  BY InitIInv, <1>1, <1>2, PTL DEF Spec

\* No step of any request changes or loses a committed version.
THEOREM HistoryAlwaysKept == Spec => HistoryKept
<1>1. IInv /\ [Next]_vars => IInv'
  BY NextStep
<1>2. IInv /\ [Next]_vars =>
        [\A t \in DOMAIN rows : /\ t \in DOMAIN rows'
                                /\ \A n \in DOMAIN rows[t].defs :
                                     n \in DOMAIN rows'[t].defs /\ rows'[t].defs[n] = rows[t].defs[n]]_rows
  BY NextStep DEF Grows
<1>3. QED
  BY InitIInv, <1>1, <1>2, PTL DEF Spec, HistoryKept

\* A simulator found in the cache is one that the factory would make of the
\* template it is asked for, for any number of updates, activations and
\* invalidations since, and although the template came through a graph
\* version that froze it.
THEOREM SimulatorAlwaysExact == Spec => []SimulatorIsExact
<1>1. IInv /\ [Next]_vars => IInv'
  BY NextStep
<1>2. QED
  BY InitIInv, InvImpliesExact, <1>1, PTL DEF Spec

\* What the registry has cached under a name, an owner and a version is a
\* committed version of a template of that name and that owner, and of that
\* number if one was asked for: a load that is overtaken by requests may make
\* an entry old, never wrong.
CacheAnswersKey ==
  \A i \in DOMAIN cache :
    LET k == cache[i].key
        x == cache[i].val
    IN \E t \in DOMAIN rows :
         /\ rows[t].name = k.name /\ rows[t].owner = k.owner
         /\ x.version \in DOMAIN rows[t].defs
         /\ x = TemplateOf(t, x.version)
         /\ k.version # 0 => x.version = k.version

\* What get() answers from the cache is an answer to what it was asked.
THEOREM CacheAlwaysAnswersKey == Spec => []CacheAnswersKey
<1>1. IInv /\ [Next]_vars => IInv'
  BY NextStep
<1>2. IInv => CacheAnswersKey
  <2> SUFFICES ASSUME IInv, NEW i \in DOMAIN cache,
                      NEW k, NEW x, k = cache[i].key, x = cache[i].val
               PROVE  \E t \in DOMAIN rows :
                        /\ rows[t].name = k.name /\ rows[t].owner = k.owner
                        /\ x.version \in DOMAIN rows[t].defs
                        /\ x = TemplateOf(t, x.version)
                        /\ k.version # 0 => x.version = k.version
    BY DEF CacheAnswersKey
  <2>1. Answers(k, x)
    BY DEF IInv, RegistryInv
  <2>2. PICK t \in DOMAIN rows : \E v \in DOMAIN rows[t].defs : x = TemplateOf(t, v)
    BY <2>1 DEF Answers, Stored
  <2>3. PICK v \in DOMAIN rows[t].defs : x = TemplateOf(t, v)
    BY <2>2
  <2>4. x.version = v /\ x.name = rows[t].name /\ x.owner = rows[t].owner
    BY <2>3 DEF TemplateOf
  <2>5. QED
    BY <2>1, <2>3, <2>4 DEF Answers
<1>3. QED
  BY InitIInv, <1>1, <1>2, PTL DEF Spec

=============================================================================
