---------------------------- MODULE MCApplyPath ----------------------------
(* Two intents that meet on one variable: d1 moves version 0 to state s2,  *)
(* d2 moves version 1 back to s1, so a retry of either meets a variable    *)
(* that holds its own state again under a later version.                   *)
EXTENDS ApplyPath, TLC

CONSTANTS d1, d2, s1, s2

MCDigests   == {d1, d2}
MCStates    == {s1, s2}
MCCommandOf == (d1 :> [expected |-> 0, state |-> s2]) @@ (d2 :> [expected |-> 1, state |-> s1])

Symmetric == Permutations(Threads) \cup Permutations(Ids)
=============================================================================
