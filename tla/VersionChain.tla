---------------------------- MODULE VersionChain ----------------------------
(***************************************************************************)
(* What the versions of a design graph promise: one chain, to which a save *)
(* appends.  Nobody's save changes or removes what is in it, and who names *)
(* a version appends to it only while it is the end of the chain.          *)
(***************************************************************************)
EXTENDS Naturals, Sequences

CONSTANTS
  Edit,   \* changes to the design
  Editor  \* who saves

VARIABLES
  chain,  \* the versions in order
  base    \* base[e]: the version e names, 0 for none

Init == chain = << >> /\ base = [e \in Editor |-> 0]

Open(e) ==
  /\ \E n \in 0 .. Len(chain) : base' = [base EXCEPT ![e] = n]
  /\ UNCHANGED chain

Save(e) ==
  /\ base[e] \in {0, Len(chain)}
  /\ \E snap \in SUBSET Edit : chain' = Append(chain, snap)
  /\ UNCHANGED base

Next == \E e \in Editor : Open(e) \/ Save(e)

Spec == Init /\ [][Next]_<<chain, base>>
=============================================================================
