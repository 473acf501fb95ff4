---------------------------- MODULE MCRunEvents -----------------------------
(* RunEvents with one run that two pods execute and another beside it.      *)
EXTENDS RunEvents, TLC

CONSTANTS r1, r2, w1, w2, w3

MCRunOf == (w1 :> r1) @@ (w2 :> r1) @@ (w3 :> r2)
MCMaxEvents == (w1 :> 2) @@ (w2 :> 2) @@ (w3 :> 1)
=============================================================================
