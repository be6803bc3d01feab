------------------------------ MODULE QuotaGate ------------------------------
(***************************************************************************)
(* What metering promises, without rows, periods or tables: calls pass a   *)
(* gate that compares the charges of the current billing window with the   *)
(* plan's limit, and are charged when they succeed, some time later.       *)
(*                                                                         *)
(* Check and charge are not atomic in the code (checkRequestAllowance runs *)
(* before the provider is called, recordUsage after), so the promise is    *)
(* not used <= Limit but the bound UsageBounded.  Metering implements it.  *)
(***************************************************************************)
EXTENDS Naturals, FiniteSets

CONSTANTS
    Workers,   \* the calls that can be in flight at once
    Limit      \* requestLimit of the plan, at least 1

GateAssumption ==
    /\ IsFiniteSet(Workers) /\ Workers # {}
    /\ Limit \in Nat \ {0}

VARIABLES
    used,    \* charges in the current window
    phase    \* where each call is

vars == <<used, phase>>

(* "stale": being checked against a window that is over. *)
Phases == {"idle", "checking", "stale", "admitted"}

TypeOK == used \in Nat /\ phase \in [Workers -> Phases]

Init == used = 0 /\ phase = [w \in Workers |-> "idle"]

Move(w, from, to) == phase[w] \in from /\ phase' = [phase EXCEPT ![w] = to]

Check(w) == Move(w, {"idle"}, "checking") /\ UNCHANGED used

(* The charges counted are those of the window the check has looked up. *)
Admit(w) ==
    /\ \/ used < Limit /\ Move(w, {"checking"}, "admitted")
       \/ Move(w, {"stale"}, "admitted")
    /\ UNCHANGED used

(* Refused, failed, or never charged. *)
Leave(w) == Move(w, {"checking", "stale", "admitted"}, "idle") /\ UNCHANGED used

Charge(w) == Move(w, {"admitted"}, "idle") /\ used' = used + 1

(* A window ends.  Checks that have looked it up go on with it. *)
NewWindow ==
    /\ used' = 0
    /\ \E late \in SUBSET {w \in Workers : phase[w] = "checking"} :
         phase' = [w \in Workers |-> IF w \in late THEN "stale" ELSE phase[w]]

Next ==
    \/ \E w \in Workers : Check(w) \/ Admit(w) \/ Leave(w) \/ Charge(w)
    \/ NewWindow

Spec == Init /\ [][Next]_vars

-----------------------------------------------------------------------------
(* Calls that are going to be charged whatever used says. *)
Committed == {w \in Workers : phase[w] \in {"stale", "admitted"}}

(* A window is never charged more than the limit and one call for each     *)
(* other call that can be in flight: without concurrency, never more than  *)
(* the limit (subscriptions.service.ts:189, "Enforces subscription request *)
(* limit").                                                                *)
UsageBounded == used + 1 <= Limit + Cardinality(Workers)

(* It holds because a call counts against the bound from the moment it can *)
(* no longer be refused.                                                   *)
GateInv ==
    /\ TypeOK
    /\ used + Cardinality(Committed) + 1 <= Limit + Cardinality(Workers)
=============================================================================
