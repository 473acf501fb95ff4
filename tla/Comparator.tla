----------------------------- MODULE Comparator -----------------------------
(***************************************************************************)
(* deep_equal and diff_report, the field by field comparison of what a     *)
(* scenario expects with what the agent answered.                          *)
(*                                                                         *)
(* A JSON value is a pair of its Python type and its content: a dict is a  *)
(* function from keys, a list a sequence, int and float have numbers.  A   *)
(* path is a sequence of steps: a type, and a key or a position.           *)
(***************************************************************************)
EXTENDS Naturals, Sequences, FiniteSets

Type(v) == v[1]
Part(v) == v[2]

Numeric(v) == Type(v) \in {"int", "float"}

\* Python's a == b for two numbers, or for two scalars of one type.
SameScalar(a, b) == Part(a) = Part(b)

RECURSIVE DeepEqual(_, _)

\* Slip: a key that only the answer has is overlooked.
SlipEqualParts(a, b) ==
  CASE Type(a) \in {"dict", "list"} -> DOMAIN Part(a) \subseteq DOMAIN Part(b) /\
         \A k \in DOMAIN Part(a) : DeepEqual(Part(a)[k], Part(b)[k])
    [] OTHER -> SameScalar(a, b)

\* Two values of one type: keys or positions agree, and what is at each.
EqualParts(a, b) ==
  CASE Type(a) \in {"dict", "list"} -> DOMAIN Part(a) = DOMAIN Part(b) /\
         \A k \in DOMAIN Part(a) : DeepEqual(Part(a)[k], Part(b)[k])
    [] OTHER -> SameScalar(a, b)

DeepEqual(a, b) ==
  IF Type(a) # Type(b) THEN Numeric(a) /\ Numeric(b) /\ SameScalar(a, b)
                       ELSE EqualParts(a, b)

Step(path, type, k) == Append(path, <<type, k>>)

Entry(path, kind) == [path |-> path, kind |-> kind]

RECURSIVE Diff(_, _, _)

DiffDict(e, a, path) ==
  {Entry(Step(path, "dict", k), "missing_key") : k \in DOMAIN e \ DOMAIN a} \cup
  {Entry(Step(path, "dict", k), "extra_key") : k \in DOMAIN a \ DOMAIN e} \cup
  UNION {Diff(e[k], a[k], Step(path, "dict", k)) : k \in DOMAIN e \cap DOMAIN a}

\* zip: the positions both lists have.
DiffList(e, a, path) ==
  (IF Len(e) = Len(a) THEN {} ELSE {Entry(path, "length_mismatch")}) \cup
  UNION {Diff(e[i], a[i], Step(path, "list", i)) : i \in DOMAIN e \cap DOMAIN a}

Diff(e, a, path) ==
  CASE Type(e) # Type(a) /\ ~(Numeric(e) /\ Numeric(a)) -> {Entry(path, "type_mismatch")}
    [] Type(e) = Type(a) /\ Type(e) = "dict" -> DiffDict(Part(e), Part(a), path)
    [] Type(e) = Type(a) /\ Type(e) = "list" -> DiffList(Part(e), Part(a), path)
    [] OTHER -> IF SameScalar(e, a) THEN {} ELSE {Entry(path, "value_mismatch")}

-----------------------------------------------------------------------------
(* Reference                                                               *)

\* A value without the difference of int and float.
RECURSIVE Canon(_)
Canon(v) ==
  CASE Numeric(v)                    -> <<"number", Part(v)>>
    [] Type(v) \in {"dict", "list"}  -> <<Type(v), [k \in DOMAIN Part(v) |-> Canon(Part(v)[k])]>>
    [] OTHER                         -> v

\* What a path leads to: nothing, or one value.
RECURSIVE At(_, _)
At(v, path) ==
  IF path = << >> THEN {v}
  ELSE IF Type(v) = Head(path)[1] /\ Head(path)[2] \in DOMAIN Part(v)
       THEN At(Part(v)[Head(path)[2]], Tail(path)) ELSE {}

RECURSIVE Paths(_)
Paths(v) ==
  {<< >>} \cup
  IF Type(v) \in {"dict", "list"}
  THEN UNION {{<<<<Type(v), k>>>> \o p : p \in Paths(Part(v)[k])} : k \in DOMAIN Part(v)}
  ELSE {}

CanonAt(v, path) == {Canon(x) : x \in At(v, path)}
=============================================================================
