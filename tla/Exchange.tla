------------------------------ MODULE Exchange ------------------------------
(***************************************************************************)
(* What a chat exchange promises its user, whatever becomes of the         *)
(* provider, the connection and the database: what is stored, what is      *)
(* charged and what the client is told agree.  Chat implements it.         *)
(***************************************************************************)
EXTENDS Naturals

CONSTANT Exchanges

VARIABLE ex    \* the outcome of each exchange

Outcome ==
    [open : BOOLEAN,
     answer : Nat,       \* pieces of the answer received from the provider
     sent : Nat,         \* pieces the client has got
     kept : BOOLEAN,     \* question and answer are stored
     charged : BOOLEAN,  \* and count as usage
     told : {"nothing", "error", "done"}]

TypeOK == ex \in [Exchanges -> Outcome]

Pending == [open |-> TRUE, answer |-> 0, sent |-> 0, kept |-> FALSE,
            charged |-> FALSE, told |-> "nothing"]

Init == ex = [x \in Exchanges |-> Pending]

(* A piece of the answer comes; a streaming client gets it at once. *)
Receive(x) ==
    /\ ex[x].open /\ ~ex[x].kept
    /\ \/ ex' = [ex EXCEPT ![x].answer = @ + 1]
       \/ /\ ex[x].sent = ex[x].answer
          /\ ex' = [ex EXCEPT ![x].answer = @ + 1, ![x].sent = @ + 1]

Keep(x) ==
    /\ ex[x].open /\ ~ex[x].kept /\ ex[x].answer > 0
    /\ ex' = [ex EXCEPT ![x].kept = TRUE]

(* The exchange is stored: the client has got what is stored. *)
Done(x) ==
    /\ ex[x].open /\ ex[x].kept
    /\ \E c \in BOOLEAN :
         ex' = [ex EXCEPT ![x].open = FALSE, ![x].charged = c,
                          ![x].told = "done", ![x].sent = ex[x].answer]

(* The exchange is stored, but the client is gone. *)
Unheard(x) ==
    /\ ex[x].open /\ ex[x].kept
    /\ \E c \in BOOLEAN : ex' = [ex EXCEPT ![x].open = FALSE, ![x].charged = c]

(* Nothing is stored, and nothing ever will be. *)
Fail(x) ==
    /\ ex[x].open /\ ~ex[x].kept
    /\ \E t \in {"nothing", "error"} :
         ex' = [ex EXCEPT ![x].open = FALSE, ![x].told = t]

Next == \E x \in Exchanges : Receive(x) \/ Keep(x) \/ Done(x) \/ Unheard(x) \/ Fail(x)

Spec == Init /\ [][Next]_ex

-----------------------------------------------------------------------------
(* A charge is for a stored exchange; a client told that it is done has    *)
(* got the very answer that is stored; one told of an error keeps and pays *)
(* nothing.                                                                *)
Agreement ==
    \A x \in Exchanges :
      /\ ex[x].charged => ex[x].kept
      /\ ex[x].told = "done" => ex[x].kept /\ ex[x].sent = ex[x].answer
      /\ ex[x].told = "error" => ~ex[x].kept /\ ~ex[x].charged
=============================================================================
