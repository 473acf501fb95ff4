---------------------------- MODULE ToolTemplates ----------------------------
(***************************************************************************)
(* Node templates (tools): their rows and versions in MySQL, the requests  *)
(* of ToolService, and the ToolRegistry of one process.  Each request is   *)
(* one transaction, and it invalidates the registry before it commits.     *)
(* What other processes invalidate shows here as Invalidated, at any time  *)
(* and perhaps never: a publish may be lost and a listener may be down.    *)
(***************************************************************************)
EXTENDS Naturals, FiniteSets, SequencesExt, FiniteSetsExt

CONSTANTS
  Request,     \* requests that write, at most so many at a time: numbers
  User,        \* users
  Admin,       \* those who are admins
  Id,          \* template ids there may be: numbers
  Name,        \* names that templates are created with
  ForkName,    \* for the names of some templates, that of a fork
  First,       \* the template that an admin has made already
  Submitted,   \* definitions that requests carry
  Registered,  \* SIMULATOR_REGISTRY: what simulates in Python
  NoImpl,      \* stands for python_impl None
  MaxLines,    \* stands for TOOL_DESCRIPTION_MAX_LENGTH
  Blocklist,   \* TOOL_INJECTION_BLOCKLIST
  Global,      \* stands for owner_id NULL
  CacheSize,   \* capacity of each cache
  Asked,       \* versions that loads ask for: 0 is the current one
  MaxVersions  \* bound: versions of all templates

Owner == User \cup {Global}

AnyName == Name \cup {First.name} \cup {ForkName[n] : n \in DOMAIN ForkName}

\* What a fork makes of a definition: an LLM simulates it.
LlmForm(d) == [d EXCEPT !.engine = "llm", !.impl = NoImpl, !.fallback = FALSE]

Definition == Submitted \cup {First.defs[1]} \cup {LlmForm(d) : d \in Submitted \cup {First.defs[1]}}

Row == [name : AnyName, scope : {"global", "private"}, owner : Owner,
        current : Nat \ {0}, defs : Seq(Definition)]

ASSUME TemplateAssumption ==
  /\ Admin \subseteq User /\ Id \subseteq Nat /\ Request \subseteq Nat
  /\ First \in Row /\ First.current \in DOMAIN First.defs
  /\ Asked \subseteq Nat /\ MaxLines \in Nat
  /\ \A d \in Definition :
       /\ d = [engine |-> d.engine, impl |-> d.impl, fallback |-> d.fallback, lines |-> d.lines,
               schemasValid |-> d.schemasValid, edges |-> d.edges]
       /\ d.engine \in {"llm", "pure_python", "hybrid"}
  /\ Global \notin User /\ NoImpl \notin Registered
  /\ CacheSize \in Nat \ {0} /\ MaxVersions \in Nat \ {0}

VARIABLES
  rows,   \* rows[t]: t_node_template and its t_node_template_version rows
  job,    \* job[q]: what a writing request is about to do
  cache,  \* _cache_tpl, the entry to be evicted first; hits do not reorder it here
  sims,   \* _cache_sim, likewise
  load    \* the load that the registry has under way, if any

vars == <<rows, job, cache, sims, load>>

\* NodeTemplate, what the registry hands out.
Template == [id : Id, name : AnyName, scope : {"global", "private"}, owner : Owner,
             version : Nat, def : Definition]

\* _key: version 0 stands for the current one.
KeyOf(n, o, v) == [name |-> n, owner |-> o, version |-> v]

NoJob == [at |-> "idle"]

\* Which request or id is next makes no difference: it is the least one.
Least(x, S) == x \in S /\ \A y \in S : x <= y

Init ==
  /\ \E t \in Id : Least(t, Id) /\ rows = [u \in {t} |-> First]
  /\ job = [q \in Request |-> NoJob]
  /\ cache = << >>
  /\ sims = << >>
  /\ load = {}

-----------------------------------------------------------------------------
(* Writing requests                                                        *)

\* The duplicate check of create: what is committed, the owner counting only
\* for a private template.
NameFree(n, sc, o) ==
  \A t \in DOMAIN rows :
    ~(rows[t].name = n /\ rows[t].scope = sc /\ (sc = "private" => rows[t].owner = o))

NewRow(n, sc, u, d) ==
  [name |-> n, scope |-> sc, owner |-> IF sc = "private" THEN u ELSE Global,
   current |-> 1, defs |-> <<d>>]

Arrives(q) == Least(q, {p \in Request : job[p] = NoJob})

\* What a request is about to write: a row of its own, a version, or nothing
\* but the number that is current.
Begin(q, what) ==
  /\ job' = [job EXCEPT ![q] = what]
  /\ UNCHANGED <<rows, cache, sims, load>>

Room == FoldSet(LAMBDA t, n : n + Len(rows[t].defs), 0, DOMAIN rows) < MaxVersions

Pending == {job[q].id : q \in {p \in Request : job[p] # NoJob}}

FreshId(t) == Room /\ Least(t, Id \ (DOMAIN rows \cup Pending))

\* parse_definition and what _validate_definition asks of the description.
WellFormed(d) ==
  /\ Len(d.lines) <= MaxLines
  /\ ToSet(d.lines) \cap Blocklist = {}
  /\ d.schemasValid
  /\ IsInjective(d.edges)

\* _validate_definition.  A hybrid needs no registered implementation, and
\* none at all.
Validates(d, sc) ==
  /\ WellFormed(d)
  /\ d.engine = "pure_python" => sc = "global" /\ d.impl \in Registered

\* create_global: for admins, in the scope that the body names.
CreateGlobal(q, u, t, n, sc, d) ==
  /\ u \in Admin
  /\ FreshId(t)
  /\ Validates(d, "global")
  /\ NameFree(n, sc, u)
  /\ Begin(q, [at |-> "checked", op |-> "create", id |-> t, row |-> NewRow(n, sc, u, d)])

\* create_private.
CreatePrivate(q, u, t, n, d) ==
  /\ FreshId(t)
  /\ d.engine = "llm"
  /\ Validates(d, "private")
  /\ NameFree(n, "private", u)
  /\ Begin(q, [at |-> "checked", op |-> "create", id |-> t, row |-> NewRow(n, "private", u, d)])

\* fork_to_private copies the current version and checks no name.
Fork(q, u, src, t) ==
  /\ src \in DOMAIN rows
  /\ rows[src].name \in DOMAIN ForkName
  /\ FreshId(t)
  /\ LET s == rows[src] IN
     Begin(q, [at |-> "checked", op |-> "create", id |-> t,
               row |-> NewRow(ForkName[s.name], "private", u, LlmForm(s.defs[s.current]))])

\* _require_can_write.
CanWrite(u, t) == u \in Admin \/ (rows[t].scope = "private" /\ rows[t].owner = u)

\* update: the number of the new version is that of the newest one plus one.
Update(q, u, t, d) ==
  /\ t \in DOMAIN rows
  /\ Room
  /\ CanWrite(u, t)
  /\ rows[t].scope = "private" => d.engine = "llm"
  /\ Validates(d, rows[t].scope)
  /\ Begin(q, [at |-> "checked", op |-> "update", id |-> t,
               num |-> Len(rows[t].defs) + 1, def |-> d])

\* activate, by any user, of any version there is.
Activate(q, t, n) ==
  /\ t \in DOMAIN rows
  /\ n \in DOMAIN rows[t].defs
  /\ Begin(q, [at |-> "checked", op |-> "activate", id |-> t, num |-> n])

\* uk_tpl_name_scope_owner, which does not bind where the owner is NULL.
SameName(r, s) ==
  r.name = s.name /\ r.scope = s.scope /\ r.owner = s.owner /\ r.owner # Global

\* Slip: there is no unique key over the names.
SlipTaken(j) == j.op = "update" /\ j.num \in DOMAIN rows[j.id].defs

\* uk_tpl_name_scope_owner and uk_tpv_template_version.
Taken(j) ==
  CASE j.op = "create"   -> \E t \in DOMAIN rows : SameName(rows[t], j.row)
    [] j.op = "update"   -> j.num \in DOMAIN rows[j.id].defs
    [] j.op = "activate" -> FALSE

\* Another transaction has written, and not committed, the same index entry or
\* the same template row: this one waits for its lock.
Held(q) ==
  \E w \in Request \ {q} :
    /\ job[w].at = "written"
    /\ \/ job[w].id = job[q].id
       \/ job[w].op = "create" /\ job[q].op = "create" /\ SameName(job[w].row, job[q].row)

\* The write is flushed, and the registry invalidated.
Write(q) ==
  /\ job[q].at = "checked"
  /\ ~Held(q)
  /\ ~Taken(job[q])
  /\ job' = [job EXCEPT ![q].at = "written"]
  /\ cache' = << >>
  /\ sims' = << >>
  /\ UNCHANGED <<rows, load>>

\* IntegrityError, or a connection that fails before the commit.
Rollback(q) ==
  /\ job[q].at # "idle"
  /\ job' = [job EXCEPT ![q] = NoJob]
  /\ UNCHANGED <<rows, cache, sims, load>>

\* Slip: the definition that is current is edited in place.
SlipCommitted(j) ==
  CASE j.op = "create"   -> j.row
    [] j.op = "update"   -> [rows[j.id] EXCEPT !.defs[rows[j.id].current] = j.def]
    [] j.op = "activate" -> [rows[j.id] EXCEPT !.current = j.num]

\* A row as it is once request j has committed.
Committed(j) ==
  CASE j.op = "create"   -> j.row
    [] j.op = "update"   -> [rows[j.id] EXCEPT !.current = j.num,
                               !.defs = [n \in DOMAIN @ \cup {j.num} |->
                                           IF n = j.num THEN j.def ELSE @[n]]]
    [] j.op = "activate" -> [rows[j.id] EXCEPT !.current = j.num]

Commit(q) ==
  /\ job[q].at = "written"
  /\ rows' = [t \in DOMAIN rows \cup {job[q].id} |->
                IF t = job[q].id THEN Committed(job[q]) ELSE rows[t]]
  /\ job' = [job EXCEPT ![q] = NoJob]
  /\ UNCHANGED <<cache, sims, load>>

-----------------------------------------------------------------------------
(* The registry                                                            *)

\* _row_to_tpl.
TemplateOf(t, v) ==
  [id |-> t, name |-> rows[t].name, scope |-> rows[t].scope, owner |-> rows[t].owner,
   version |-> v, def |-> rows[t].defs[v]]

\* A private template must have an LLM engine: NodeTemplate refuses another.
Loads(t, v) ==
  rows[t].scope = "private" => rows[t].defs[v].engine = "llm"

Cached(c, k) == \E i \in DOMAIN c : c[i].key = k

\* A key that is popped.
Without(c, k) ==
  IF Cached(c, k) THEN RemoveAt(c, CHOOSE i \in DOMAIN c : c[i].key = k) ELSE c

\* _LruTtlCache.set: the entry becomes the newest, the oldest makes room.
Put(c, k, x) ==
  LET kept == Without(c, k) IN
  Append(IF Len(kept) = CacheSize THEN Tail(kept) ELSE kept, [key |-> k, val |-> x])

\* load_by_id reads the row and the version that is asked for, or the current
\* one (v = 0).
Loaded(t, v) ==
  LET n == IF v = 0 THEN rows[t].current ELSE v IN
  {x \in {TemplateOf(t, m) : m \in DOMAIN rows[t].defs} : x.version = n /\ Loads(t, n)}

Read(t, v) ==
  /\ load = {}
  /\ load' = {[key |-> KeyOf(rows[t].name, rows[t].owner, v), val |-> x] : x \in Loaded(t, v)}
  /\ load' # {}
  /\ UNCHANGED <<rows, job, cache, sims>>

\* get_by_id goes to the database whatever the cache holds.
GetById(t, v) == t \in DOMAIN rows /\ Read(t, v)

\* scalar_one_or_none: a name that two rows have is refused.
Named(n, o) == {t \in DOMAIN rows : rows[t].name = n /\ rows[t].owner = o}

\* get, of a key that is not cached.
Get(n, o, v) ==
  /\ ~Cached(cache, KeyOf(n, o, v))
  /\ load = {}
  /\ \E t \in DOMAIN rows : Named(n, o) = {t} /\ Read(t, v)

\* The answer arrives and is cached, whatever was invalidated meanwhile.
Keep ==
  /\ \E l \in load : cache' = Put(cache, l.key, l.val)
  /\ load' = {}
  /\ UNCHANGED <<rows, job, sims>>

\* Slip: the version is left out of the key.
SlipSimKey(x) == KeyOf(x.name, x.owner, 0)

SimKey(x) == KeyOf(x.name, x.owner, x.version)

\* template_to_snapshot_dict, into the graph version that the node is saved
\* with: an empty description has no lines.
Frozen(x) ==
  [id |-> x.id, name |-> x.name, scope |-> x.scope, owner_id |-> x.owner, version |-> x.version,
   description |-> x.def.lines, schemas |-> x.def.schemasValid, edge_semantics |-> x.def.edges,
   simulator |-> [engine |-> x.def.engine, python_impl |-> x.def.impl,
                  llm_fallback |-> x.def.fallback]]

\* snapshot_dict_to_template, when the version is read.
Thawed(s) ==
  [id |-> s.id, name |-> s.name, scope |-> s.scope, owner |-> s.owner_id, version |-> s.version,
   def |-> [engine |-> s.simulator.engine, impl |-> s.simulator.python_impl,
            fallback |-> s.simulator.llm_fallback, lines |-> s.description,
            schemasValid |-> s.schemas, edges |-> s.edge_semantics]]

\* A simulator: what runs in Python, if anything, and the template that an LLM
\* is asked to simulate, if any.
Simulator(impl, asked) == [python |-> impl, asks |-> asked]

\* SimulatorFactory._pure: the implementation goes by the template's name if it
\* is not named.
Python(x) == {IF x.def.impl = NoImpl THEN x.name ELSE x.def.impl} \cap Registered

\* SimulatorFactory.create; the empty set: SimulatorNotRegistered.
Made(x) ==
  CASE x.def.engine = "pure_python" -> {Simulator(p, {}) : p \in Python(x)}
    [] x.def.engine = "llm"         -> {Simulator(NoImpl, {x})}
    [] x.def.engine = "hybrid"      ->
         LET fallback == IF x.def.fallback THEN {x} ELSE {} IN
         IF x.def.impl # NoImpl THEN {Simulator(p, fallback) : p \in Python(x)}
                                ELSE {Simulator(NoImpl, {y}) : y \in fallback}

\* simulator_of, of a template that is not cached.
Simulate(x) ==
  /\ ~Cached(sims, SimKey(x))
  /\ \E s \in Made(x) : sims' = Put(sims, SimKey(x), s)

\* The executor of a run, for a node of a graph version.
SimulatorOf(t, v) ==
  /\ t \in DOMAIN rows
  /\ \E x \in Loaded(t, v) : Simulate(Thawed(Frozen(x)))
  /\ UNCHANGED <<rows, job, cache, load>>

\* ToolService.simulate: the template that it asked for arrives, is cached, and
\* is simulated in the same step.
Preview ==
  /\ \E l \in load :
       /\ l.key.version = 0
       /\ cache' = Put(cache, l.key, l.val)
       /\ Simulate(l.val)
  /\ load' = {}
  /\ UNCHANGED <<rows, job>>

\* A message of another process, or the reload endpoint.
Invalidated ==
  /\ cache' = << >>
  /\ sims' = << >>
  /\ UNCHANGED <<rows, job, load>>

\* Slip: cache_ttl is 0, nothing expires.
SlipExpire(k) == Cached(cache, k) /\ UNCHANGED vars

\* An entry outlives cache_ttl.
Expire(k) ==
  /\ Cached(cache, k)
  /\ cache' = Without(cache, k)
  /\ UNCHANGED <<rows, job, sims, load>>

LapseSimulator ==
  /\ sims # << >>
  /\ sims' = Tail(sims)
  /\ UNCHANGED <<rows, job, cache, load>>

-----------------------------------------------------------------------------
Key == [name : AnyName, owner : Owner, version : Asked]

\* One of the requests begins.
Handle(q) ==
  /\ Arrives(q)
  /\ \E t \in Id :
       \/ \E u \in User, d \in Submitted :
            \/ \E n \in Name : \/ \E sc \in {"global", "private"} : CreateGlobal(q, u, t, n, sc, d)
                               \/ CreatePrivate(q, u, t, n, d)
            \/ Update(q, u, t, d)
       \/ \E u \in User, src \in Id : Fork(q, u, src, t)
       \/ \E n \in 1..MaxVersions : Activate(q, t, n)

Next ==
  \/ \E q \in Request : Handle(q)
  \/ \E q \in Request : Write(q) \/ Commit(q) \/ Rollback(q)
  \/ \E t \in Id : \/ \E v \in Asked : GetById(t, v)
                   \/ \E v \in 1..MaxVersions : SimulatorOf(t, v)
  \/ \E k \in Key : Get(k.name, k.owner, k.version) \/ Expire(k)
  \/ Keep
  \/ Preview
  \/ LapseSimulator
  \/ Invalidated

\* A request and a load end, and so does the life of an entry.
Fairness ==
  /\ \A q \in Request : WF_vars(Commit(q) \/ Rollback(q))
  /\ WF_vars(Keep \/ Preview)
  /\ \A k \in Key : WF_vars(Expire(k))

Spec == Init /\ [][Next]_vars /\ Fairness

-----------------------------------------------------------------------------
(* Properties                                                              *)

\* The variables have their types, the caches never exceed their capacity, and
\* no key occurs twice in one.
TypeOK ==
  /\ DOMAIN rows \subseteq Id /\ \A t \in DOMAIN rows : rows[t] \in Row
  /\ \A q \in Request : job[q].at \in {"idle", "checked", "written"}
  /\ \A c \in {cache, sims} :
       /\ Len(c) <= CacheSize
       /\ \A i, j \in DOMAIN c : c[i].key = c[j].key => i = j
  /\ \A i \in DOMAIN cache : cache[i].val \in Template
  /\ \A i \in DOMAIN sims : sims[i].val.python \in Registered \cup {NoImpl}
  /\ Cardinality(load) <= 1

\* No committed version of a template is ever changed or lost, though the next
\* number is read long before it is inserted (update_create_version).
HistoryKept ==
  [][\A t \in DOMAIN rows : /\ t \in DOMAIN rows'
                            /\ \A n \in DOMAIN rows[t].defs :
                                 n \in DOMAIN rows'[t].defs /\ rows'[t].defs[n] = rows[t].defs[n]]_rows

\* What is current is a version that exists, whoever updates and activates.
CurrentExists == \A t \in DOMAIN rows : rows[t].current \in DOMAIN rows[t].defs

\* No user has two private templates of one name, though create checks before
\* it inserts and fork does not check at all.
PrivateNamesUnique ==
  \A t, s \in DOMAIN rows : SameName(rows[t], rows[s]) => t = s

\* Whatever requests overlap, the tables stay usable: every template has a
\* current version, and a name leads to one template of its owner.  (tool_repo.)
RowsSound == TypeOK /\ CurrentExists /\ PrivateNamesUnique

Alone(t) == Named(rows[t].name, rows[t].owner) = {t}

\* The simulator that simulator_of finds cached is the one it would make of the
\* template it is asked for, whatever was updated, activated, frozen and
\* invalidated since.  (Two global templates of one name are the exception:
\* nothing tells them apart.)
SimulatorIsExact ==
  \A t \in DOMAIN rows : Alone(t) =>
    \A v \in 1..MaxVersions : v \in DOMAIN rows[t].defs =>
      \A x \in Loaded(t, v), i \in DOMAIN sims : sims[i].key = SimKey(x) => sims[i].val \in Made(x)

\* Every template can be loaded: a private one has an LLM engine ("private
\* templates are forced to engine=llm", ToolService).
PrivateIsLlm ==
  \A t \in DOMAIN rows, n \in 1..MaxVersions : n \in DOMAIN rows[t].defs => Loads(t, n)

\* Once nobody writes templates any more, the registry comes to serve what is
\* current, though invalidations come before the commit, are overtaken by loads
\* and get lost.
Fresh ==
  \A i \in DOMAIN cache :
    LET k == cache[i].key IN
    k.version = 0 => \A t \in DOMAIN rows :
      Named(k.name, k.owner) = {t} => cache[i].val = TemplateOf(t, rows[t].current)

Quiet == \A q \in Request : job[q] = NoJob

StalenessEnds == <>[]Quiet => <>[]Fresh

====
