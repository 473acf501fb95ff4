-------------------------- MODULE DesignValidator ---------------------------
(***************************************************************************)
(* Whether a snapshot may be saved and run: build_forest, the visitors of  *)
(* DesignValidator, save_version and StructureCheck.  The search for a     *)
(* cycle is a parameter; DesignForest says how it is done.                 *)
(***************************************************************************)
EXTENDS Canvas

CONSTANT
  Cycle(_)  \* CycleCheckerVisitor: the cycle it reports, << >> for none

-----------------------------------------------------------------------------
(* build_forest                                                            *)

\* An edge without a source, a head or a semantic.
ParseError(s) ==
  \E i \in DOMAIN s.edges : 0 \in {s.edges[i].src, s.edges[i].dst} \/ s.edges[i].sem = ""

-----------------------------------------------------------------------------
(* The visitors that follow it                                             *)

BadSemantic(s) ==
  \E i \in DOMAIN s.edges :
    s.edges[i].src \in Ids(s) /\ s.edges[i].sem \notin Allows[LastOf(s, s.edges[i].src).tpl]

DuplicateEdge(s) ==
  ~IsInjective([i \in DOMAIN s.edges |-> <<s.edges[i].src, s.edges[i].sem, s.edges[i].dst>>])

\* Each instance is visited, those with the same id too.
InvalidFields(s) == \E n \in Ids(s) : \E k \in DOMAIN s.nodes[n] : ~s.nodes[n][k].ok

-----------------------------------------------------------------------------
(* DesignValidator.run, the verdict of save_version, StructureCheck        *)

\* The errors reported: the first two visitors end the report.
Errors(s) ==
  CASE NodeRef(s) # "ok"  -> {NodeRef(s)}
    [] NodeRef(s) = "ok" /\ Cycle(s) # << >> -> {"GRAPH_HAS_CYCLE"}
    [] OTHER -> {c \in {"EDGE_SEMANTIC_INVALID", "EDGE_DUPLICATE", "FIELD_VALUE_INVALID"} :
                   \/ c = "EDGE_SEMANTIC_INVALID" /\ BadSemantic(s)
                   \/ c = "EDGE_DUPLICATE" /\ DuplicateEdge(s)
                   \/ c = "FIELD_VALUE_INVALID" /\ InvalidFields(s)}

\* Slip: duplicates are saved with a warning.
SlipFatalCodes == {"GRAPH_HAS_CYCLE", "NODE_REF_INVALID", "EDGE_SELF_LOOP",
                   "BUNDLE_MEMBERSHIP", "EDGE_SEMANTIC_INVALID"}

FatalCodes == {"GRAPH_HAS_CYCLE", "NODE_REF_INVALID", "EDGE_SELF_LOOP", "BUNDLE_MEMBERSHIP",
               "EDGE_SEMANTIC_INVALID", "EDGE_DUPLICATE"}

\* OrphanReportVisitor: nodes without an edge, nodes without a bundle.
Warnings(s) ==
  LET ends == UNION {{s.edges[i].src, s.edges[i].dst} : i \in DOMAIN s.edges}
  IN {<<"ISOLATED_NODE", n>> : n \in Ids(s) \ ends} \cup
     {<<"BUNDLE_FREE_NODE", n>> : n \in {m \in Ids(s) : BundleOf(s, m) = 0}}

\* parse_readonly raises, or a fatal error is found: the save is refused.
SaveVerdict(s) ==
  IF MembershipConflict(s) \/ ParseError(s) \/ Errors(s) \cap FatalCodes # {} THEN "fatal"
  ELSE IF Errors(s) = {} THEN "ok" ELSE "warn"

\* Only a parse error is caught, any other exception ends the run.
StructureCheck(s) ==
  IF MembershipConflict(s) THEN "raises"
  ELSE IF ParseError(s) \/ Errors(s) # {} THEN "fail" ELSE "pass"

-----------------------------------------------------------------------------
(* Properties                                                              *)

\* Reference: what a design must be, said without the visitors.  A graph has no
\* cycle if each of its parts has an instance to which no edge of the part leads.
Leads(s, m, n) == \E i \in DOMAIN s.edges : s.edges[i].src = m /\ s.edges[i].dst = n

Acyclic(s) ==
  \A part \in (SUBSET Ids(s)) \ {{}} : \E n \in part : \A m \in part : ~Leads(s, m, n)

SameArc(e, f) == e.src = f.src /\ e.sem = f.sem /\ e.dst = f.dst

WellFormed(s) ==
  /\ \A i \in DOMAIN s.edges :
       /\ {s.edges[i].src, s.edges[i].dst} \subseteq Ids(s)
       /\ s.edges[i].sem \in Allows[LastOf(s, s.edges[i].src).tpl] \ {""}
       /\ \A j \in DOMAIN s.edges : SameArc(s.edges[i], s.edges[j]) => i = j
  /\ Acyclic(s)
  /\ \A i, j \in DOMAIN s.bundles : \A k \in DOMAIN s.bundles[i].members, l \in DOMAIN s.bundles[j].members :
       s.bundles[i].members[k] = s.bundles[j].members[l] => i = j /\ k = l
  /\ \A i \in DOMAIN s.bundles : ToSet(s.bundles[i].members) \subseteq Ids(s)

\* A snapshot is refused exactly if it is not a well-formed design, in spite
\* of the visitors that are skipped after the first errors.  That an id is given
\* to one instance only is no part of it: nothing checks that.
RefusedIfIllFormed == SaveVerdict(snap) = "fatal" <=> ~WellFormed(snap)

\* What was saved can be run: the structure check raises nothing and finds
\* nothing but invalid field values.
SavedCanRun ==
  SaveVerdict(snap) # "fatal" =>
    /\ StructureCheck(snap) # "raises"
    /\ StructureCheck(snap) = "fail" => Errors(snap) = {"FIELD_VALUE_INVALID"}

\* Saving and running judge a design alike: what is refused is ill-formed, what
\* is saved can run.  (DesignValidator and structure_check.)
ValidationSound == RefusedIfIllFormed /\ SavedCanRun
=============================================================================
