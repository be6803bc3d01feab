----------------------------- MODULE TokenChain -----------------------------
(***************************************************************************)
(* What the rotation of refresh tokens promises, without tables, locks or  *)
(* requests: every login has a chain of tokens, each one taking the place  *)
(* of the one before in one step, and of a chain at most the last token is *)
(* good.  A token that stops being good never is again, and with it ends   *)
(* its chain.                                                              *)
(***************************************************************************)
EXTENDS Naturals

VARIABLES
    good,     \* the tokens that are accepted
    issued    \* tokens issued so far

vars == <<good, issued>>

(* The serial number of a token, and that of the first of its login. *)
Token(login, serial) == [login |-> login, serial |-> serial]

Init == good = {} /\ issued = 0

Login ==
    /\ issued' = issued + 1
    /\ good' = good \cup {Token(issued + 1, issued + 1)}

Rotate ==
    /\ issued' = issued + 1
    /\ \E t \in good : good' = (good \ {t}) \cup {Token(t.login, issued + 1)}

Revoke == good' \subseteq good /\ UNCHANGED issued

Next == Login \/ Rotate \/ Revoke

Spec == Init /\ [][Next]_vars

-----------------------------------------------------------------------------
(* What follows: a login has at most one good token, a stolen one or its   *)
(* owner's ...                                                             *)
OneGood == \A s, t \in good : s.login = t.login => s = t

(* ... and a token that was replaced or revoked stays so, and the login    *)
(* that has no good token left never gets one again.                       *)
NeverAgain ==
    [][/\ \A t \in good' \ good : t.serial > issued
       /\ \A t \in good' : t.login <= issued => \E s \in good : s.login = t.login]_vars

=============================================================================
