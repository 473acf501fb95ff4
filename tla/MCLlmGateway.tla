---------------------------- MODULE MCLlmGateway ----------------------------
(* LlmGateway with three runs; each .cfg picks the limit and the tools.     *)
EXTENDS LlmGateway, TLC

CONSTANTS r1, r2, r3

Symmetry == Permutations({r1, r2, r3})
=============================================================================
