----------------------------- MODULE MCMetering ------------------------------
(* Instances of Metering for TLC: one plan with a limit, in cycles of two   *)
(* ticks for calls that race, of one tick for users who stay away.          *)
EXTENDS Metering, TLC

CONSTANTS free, Limit, Cycle

FreePlan ==
    free :> [active |-> TRUE, price |-> 0, limit |-> Limit, cycle |-> Cycle]

NoWrites == {}

ASSUME Gate!GateAssumption

RequestSymmetry == Permutations(Requests)
=============================================================================
