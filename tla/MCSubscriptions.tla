--------------------------- MODULE MCSubscriptions ---------------------------
(* Instances of Subscriptions for TLC: two requests in flight, two or three *)
(* plans, cycles of two ticks, so a period can pass while a request waits.  *)
EXTENDS Subscriptions, TLC

Plan(price, limit, cycle) ==
    [active |-> TRUE, price |-> price, limit |-> limit, cycle |-> cycle]

CONSTANTS free, pro

TwoPlans == (free :> Plan(0, 2, 2)) @@ (pro :> Plan(9, Unlimited, 2))

(* An admin may withdraw the paid plan, written down below the free one,   *)
(* and offer it again as it was.                                           *)
WithdrawPro ==
    {<<pro, TwoPlans[pro]>>, <<pro, [Plan(0, 1, 2) EXCEPT !.active = FALSE]>>}

NoWrites == {}

RequestSymmetry == Permutations(Requests)
=============================================================================
