----------------------------- MODULE Chat_proofs -----------------------------
(* Proofs about Chat, for any number of requests and pieces: it implements   *)
(* Exchange, keeps no answer that was cut short, and replaces a title or     *)
(* adds to a deleted conversation only in a race.                            *)
EXTENDS Chat, TLAPS

-----------------------------------------------------------------------------
(* What is known of a request by what it waits for. *)
Exchanging == {"allow", "history", "log", "store", "charge"} \cup Calling

Fits(r, me) ==
    /\ Kept(r) => me.pc \in {"charge", "over"}
    /\ me.pc = "charge" => Kept(r)
    /\ Charged(r) => me.pc = "over" /\ Kept(r)
    /\ me.cut => me.pc \in {"log", "over"} /\ ~Kept(r) /\ me.told # "done"
    /\ me.told # "nothing" => me.pc = "over"
    /\ me.pc # "idle" => me.op # "none"
    /\ me.pc \in Exchanging => me.op \in {"send", "stream"}
    /\ me.pc \in {"idle", "find", "allow", "history", "fetch", "connect"} =>
         me.text = 0 /\ me.sent = 0
    /\ me.pc = "read" => me.sent = me.text
    /\ me.pc = "log" => me.status # 200
    /\ me.pc \in {"store", "charge"} => me.text > 0

RequestInv(r) == Fits(r, req[r])

(* A request can tell by the version whether the conversation it read is   *)
(* still untitled, and still there.                                        *)
TitleFits(c, me) ==
    /\ me.seen <= c.version
    /\ me.fresh /\ me.seen = c.version => c.title = "new"
    /\ me.pc \in Exchanging /\ me.seen = c.version => ~c.deleted

TitleInv(r) == TitleFits(conversation, req[r])

ChatInv == TypeOK /\ \A r \in Requests : RequestInv(r) /\ TitleInv(r)

LEMMA ChatInvInit == Init => ChatInv
  <1> SUFFICES ASSUME Init
               PROVE  ChatInv
    OBVIOUS
  <1>1. conversation \in Conversation /\ conversation.version = 0
    <2>1. conversation \in [title : {"new", "user"}, deleted : {FALSE}, version : {0}]
      BY DEF Init
    <2>2. PICK t \in {"new", "user"} :
            conversation = [title |-> t, deleted |-> FALSE, version |-> 0]
      BY <2>1
    <2>3. QED
      BY <2>2 DEF Conversation
  <1>2. TypeOK
    BY <1>1 DEF Init, TypeOK, Request, Ops, Pcs, Idle
  <1>3. ASSUME NEW r \in Requests
        PROVE  RequestInv(r) /\ TitleInv(r)
    BY <1>1 DEF Init, Idle, RequestInv, Fits, TitleInv, TitleFits, Kept, Charged,
       Exchanging, Calling
  <1>4. QED
    BY <1>2, <1>3 DEF ChatInv

-----------------------------------------------------------------------------
(* The steps of Exchange, seen on the outcome of the one exchange they     *)
(* change, field by field.                                                 *)
Receives(o, n) ==
    /\ o.open /\ ~o.kept /\ n.open = o.open /\ n.kept = o.kept
    /\ n.answer = o.answer + 1
    /\ n.sent = o.sent \/ (o.sent = o.answer /\ n.sent = o.sent + 1)
    /\ n.charged = o.charged /\ n.told = o.told

Keeps(o, n) ==
    /\ o.open /\ ~o.kept /\ o.answer > 0 /\ n.open = o.open /\ n.kept
    /\ n.answer = o.answer /\ n.sent = o.sent
    /\ n.charged = o.charged /\ n.told = o.told

Ends(o, n) ==
    /\ o.open /\ o.kept /\ ~n.open /\ n.kept = o.kept
    /\ n.answer = o.answer
    /\ \/ n.told = o.told /\ n.sent = o.sent
       \/ n.told = "done" /\ n.sent = o.answer

Fails(o, n) ==
    /\ o.open /\ ~o.kept /\ ~n.open /\ n.kept = o.kept
    /\ n.answer = o.answer /\ n.sent = o.sent
    /\ n.charged = o.charged /\ n.told \in {"nothing", "error"}

Moves(o, n) == n = o \/ Receives(o, n) \/ Keeps(o, n) \/ Ends(o, n) \/ Fails(o, n)

Outcomes == [r \in Requests |-> OutcomeOf(r)]

LEMMA MovesImplement ==
    ASSUME NEW r \in Requests, OutcomeOf(r) \in Promise!Outcome,
           OutcomeOf(r)' \in Promise!Outcome, Moves(OutcomeOf(r), OutcomeOf(r)'),
           \A q \in Requests \ {r} : OutcomeOf(q)' = OutcomeOf(q)
    PROVE  Promise!Next \/ UNCHANGED Outcomes
  <1> DEFINE o == OutcomeOf(r)
             n == OutcomeOf(r)'
  <1>1. Outcomes[r] = o /\ Outcomes' = [Outcomes EXCEPT ![r] = n]
    BY DEF Outcomes
  <1> SUFFICES ASSUME Outcomes' # Outcomes
               PROVE  \/ Promise!Receive(r) \/ Promise!Keep(r) \/ Promise!Done(r)
                      \/ Promise!Unheard(r) \/ Promise!Fail(r)
    BY DEF Promise!Next, Outcomes
  <1>2. n # o
    BY <1>1 DEF Outcomes
  <1>3. o \in Promise!Outcome /\ n \in Promise!Outcome
    OBVIOUS
  <1> USE DEF Promise!Outcome
  <1> HIDE DEF o, n
  <1>4. ASSUME Receives(o, n)
        PROVE  Promise!Receive(r)
    <2>1. \/ n = [o EXCEPT !.answer = @ + 1]
          \/ o.sent = o.answer /\ n = [o EXCEPT !.answer = @ + 1, !.sent = @ + 1]
      BY <1>3, <1>4 DEF Receives
    <2>2. QED
      <3>1. Outcomes[r].open /\ ~Outcomes[r].kept
        BY <1>1, <1>4 DEF Receives
      <3>2. CASE n = [o EXCEPT !.answer = @ + 1]
        <4>1. Outcomes' = [Outcomes EXCEPT ![r].answer = @ + 1]
          BY <1>1, <3>2 DEF Outcomes
        <4>2. QED
          BY <3>1, <4>1 DEF Promise!Receive, Outcomes
      <3>3. CASE o.sent = o.answer /\ n = [o EXCEPT !.answer = @ + 1, !.sent = @ + 1]
        <4>1. Outcomes' = [Outcomes EXCEPT ![r].answer = @ + 1, ![r].sent = @ + 1]
          BY <1>1, <3>3 DEF Outcomes
        <4>2. Outcomes[r].sent = Outcomes[r].answer
          BY <1>1, <3>3
        <4>3. QED
          BY <3>1, <4>1, <4>2 DEF Promise!Receive, Outcomes
      <3>4. QED
        BY <2>1, <3>2, <3>3
  <1>5. ASSUME Keeps(o, n)
        PROVE  Promise!Keep(r)
    <2>1. n = [o EXCEPT !.kept = TRUE]
      BY <1>3, <1>5 DEF Keeps
    <2>2. QED
      BY <1>1, <1>5, <2>1 DEF Promise!Keep, Keeps, Outcomes
  <1>6. ASSUME Ends(o, n)
        PROVE  Promise!Done(r) \/ Promise!Unheard(r)
    <2>1. CASE n.told = o.told /\ n.sent = o.sent
      <3>1. n = [o EXCEPT !.open = FALSE, !.charged = n.charged]
        BY <1>3, <1>6, <2>1 DEF Ends
      <3>2. QED
        <4>1. Outcomes' = [Outcomes EXCEPT ![r].open = FALSE, ![r].charged = n.charged]
          BY <1>1, <3>1 DEF Outcomes
        <4>2. n.charged \in BOOLEAN /\ Outcomes[r].open /\ Outcomes[r].kept
          BY <1>1, <1>3, <1>6 DEF Ends
        <4>3. QED
          BY <4>1, <4>2 DEF Promise!Unheard, Outcomes
    <2>2. CASE n.told = "done" /\ n.sent = o.answer
      <3>1. n = [o EXCEPT !.open = FALSE, !.charged = n.charged, !.told = "done",
                          !.sent = o.answer]
        BY <1>3, <1>6, <2>2 DEF Ends
      <3>2. Outcomes' = [Outcomes EXCEPT ![r].open = FALSE, ![r].charged = n.charged,
                                         ![r].told = "done", ![r].sent = Outcomes[r].answer]
        BY <1>1, <3>1 DEF Outcomes
      <3>3. n.charged \in BOOLEAN /\ Outcomes[r].open /\ Outcomes[r].kept
        BY <1>1, <1>3, <1>6 DEF Ends
      <3>4. QED
        BY <3>2, <3>3 DEF Promise!Done, Outcomes
    <2>3. QED
      BY <1>6, <2>1, <2>2 DEF Ends
  <1>7. ASSUME Fails(o, n)
        PROVE  Promise!Fail(r)
    <2>1. n = [o EXCEPT !.open = FALSE, !.told = n.told]
      BY <1>3, <1>7 DEF Fails
    <2>2. QED
      <3>1. Outcomes' = [Outcomes EXCEPT ![r].open = FALSE, ![r].told = n.told]
        BY <1>1, <2>1 DEF Outcomes
      <3>2. Outcomes[r].open /\ ~Outcomes[r].kept /\ n.told \in {"nothing", "error"}
        BY <1>1, <1>7 DEF Fails
      <3>3. QED
        BY <3>1, <3>2 DEF Promise!Fail, Outcomes
  <1>8. QED
    BY <1>2, <1>4, <1>5, <1>6, <1>7 DEF Moves, o, n

-----------------------------------------------------------------------------
(* What a step of request r does to it, and leaves alone. *)
Step(r) ==
    /\ TypeOK'
    /\ RequestInv(r)' /\ TitleInv(r)'
    /\ Moves(OutcomeOf(r), OutcomeOf(r)')
    /\ \A q \in Requests \ {r} :
         /\ req'[q] = req[q] /\ TitleInv(q)'
         /\ (Kept(q)' <=> Kept(q)) /\ (Charged(q)' <=> Charged(q))

(* Most steps store and charge nothing.  In the outcome of the request this *)
(* does not show, or as a piece of the answer, or as the end.               *)
Quietly(r, me) ==
    \/ /\ req[r].pc # "over" /\ me.pc # "over"
       /\ me.text = req[r].text /\ me.sent = req[r].sent
    \/ /\ req[r].pc \in Calling /\ me.pc # "over" /\ me.text = req[r].text + 1
       /\ \/ me.sent = req[r].sent
          \/ me.sent = req[r].sent + 1 /\ req[r].sent = req[r].text
    \/ /\ req[r].pc # "over" /\ me.pc = "over" /\ me.op = req[r].op
       /\ me.text = req[r].text /\ me.sent = req[r].sent
       /\ \/ me.told = "nothing"
          \/ ~Kept(r) /\ (me.op \in {"send", "stream"} => me.told # "done")

LEMMA NothingStored ==
    ASSUME ChatInv, NEW r \in Requests, NEW me \in Request,
           req' = [req EXCEPT ![r] = me], conversation' \in Conversation,
           UNCHANGED messages, logs' \subseteq Log,
           \A q \in Requests : Charged(q)' <=> Charged(q),
           \A q \in Requests \ {r} : TitleFits(conversation', req[q]),
           Fits(r, me), TitleFits(conversation', me), Quietly(r, me)
    PROVE  Step(r)
  <1>1. /\ TypeOK' /\ req'[r] = me
        /\ (Kept(r)' <=> Kept(r)) /\ (Charged(r)' <=> Charged(r))
        /\ \A q \in Requests \ {r} :
             /\ req'[q] = req[q] /\ TitleInv(q)'
             /\ (Kept(q)' <=> Kept(q)) /\ (Charged(q)' <=> Charged(q))
    BY DEF ChatInv, TypeOK, Kept, TitleInv, TitleFits
  <1>2. RequestInv(r)' /\ TitleInv(r)'
    BY <1>1 DEF RequestInv, Fits, TitleInv, TitleFits, Exchanging, Calling
  <1>3. Moves(OutcomeOf(r), OutcomeOf(r)')
    <2> DEFINE o == OutcomeOf(r)
               n == OutcomeOf(r)'
               Shown(x) == IF x.op \in {"send", "stream"} THEN x.told ELSE "nothing"
    <2>1. req[r] \in Request /\ Fits(r, req[r])
      BY DEF ChatInv, TypeOK, RequestInv
    <2>2. Kept(r)' = Kept(r) /\ Charged(r)' = Charged(r) /\ Kept(r) \in BOOLEAN
      BY <1>1 DEF Kept, Charged
    <2>3. /\ o.open = (req[r].pc # "over") /\ o.answer = req[r].text /\ o.sent = req[r].sent
          /\ o.kept = Kept(r) /\ o.charged = Charged(r) /\ o.told = Shown(req[r])
      BY DEF OutcomeOf, IsExchange
    <2>4. /\ n.open = (me.pc # "over") /\ n.answer = me.text /\ n.sent = me.sent
          /\ n.kept = Kept(r) /\ n.charged = Charged(r) /\ n.told = Shown(me)
      BY <1>1, <2>2 DEF OutcomeOf, IsExchange
    <2>5. req[r].pc # "over" => Shown(req[r]) = "nothing"
      BY <2>1 DEF Fits
    <2>6. me.pc # "over" => Shown(me) = "nothing"
      BY DEF Fits
    <2>7. CASE /\ req[r].pc # "over" /\ me.pc # "over"
               /\ me.text = req[r].text /\ me.sent = req[r].sent
      <3>1. n = o
        BY <1>1, <2>2, <2>5, <2>6, <2>7 DEF OutcomeOf, IsExchange
      <3>2. QED
        BY <3>1 DEF Moves
    <2> HIDE DEF o, n, Shown
    <2>8. CASE /\ req[r].pc \in Calling /\ me.pc # "over" /\ me.text = req[r].text + 1
               /\ \/ me.sent = req[r].sent
                  \/ me.sent = req[r].sent + 1 /\ req[r].sent = req[r].text
      <3>1. req[r].pc # "over" /\ ~Kept(r)
        BY <2>1, <2>8 DEF Fits, Calling
      <3>2. Receives(o, n)
        BY <2>2, <2>3, <2>4, <2>5, <2>6, <2>8, <3>1 DEF Receives
      <3>3. QED
        BY <3>2 DEF Moves, o, n
    <2>9. CASE /\ req[r].pc # "over" /\ me.pc = "over" /\ me.op = req[r].op
               /\ me.text = req[r].text /\ me.sent = req[r].sent
               /\ \/ me.told = "nothing"
                  \/ ~Kept(r) /\ (me.op \in {"send", "stream"} => me.told # "done")
      <3>1. CASE Kept(r)
        <4>1. Shown(me) = "nothing"
          BY <2>9, <3>1 DEF Shown
        <4>2. Ends(o, n)
          BY <2>2, <2>3, <2>4, <2>5, <2>9, <3>1, <4>1 DEF Ends
        <4>3. QED
          BY <4>2 DEF Moves, o, n
      <3>2. CASE ~Kept(r)
        <4>1. Shown(me) \in {"nothing", "error"}
          BY <2>9, <3>2 DEF Shown, Request
        <4>2. Fails(o, n)
          BY <2>2, <2>3, <2>4, <2>5, <2>9, <3>2, <4>1 DEF Fails
        <4>3. QED
          BY <4>2 DEF Moves, o, n
      <3>3. QED
        BY <3>1, <3>2
    <2>10. QED
      BY <2>7, <2>8, <2>9 DEF Quietly
  <1>4. QED
    BY <1>1, <1>2, <1>3 DEF Step

LEMMA QuietStep ==
    ASSUME ChatInv, NEW r \in Requests, NEW me \in Request,
           req' = [req EXCEPT ![r] = me], UNCHANGED <<conversation, messages, logs>>,
           Fits(r, me), TitleFits(conversation, me), Quietly(r, me)
    PROVE  Step(r)
  BY NothingStored DEF ChatInv, TypeOK, Charged, TitleInv

-----------------------------------------------------------------------------
(* The steps of a request that write its record only. *)

(* A record with the fields of a request, each in its range, is one: the    *)
(* provers need to be told.                                                 *)
Fields == {"op", "pc", "fresh", "seen", "first", "text", "sent", "status",
           "aborted", "cut", "told"}

Whole(me) ==
    me = [op |-> me.op, pc |-> me.pc, fresh |-> me.fresh, seen |-> me.seen,
          first |-> me.first, text |-> me.text, sent |-> me.sent, status |-> me.status,
          aborted |-> me.aborted, cut |-> me.cut, told |-> me.told]

Typed(me) ==
    /\ me.op \in Ops /\ me.pc \in Pcs
    /\ me.fresh \in BOOLEAN /\ me.first \in BOOLEAN
    /\ me.aborted \in BOOLEAN /\ me.cut \in BOOLEAN
    /\ me.seen \in Nat /\ me.text \in Nat /\ me.sent \in Nat
    /\ me.status \in {200, 400, 502, 504}
    /\ me.told \in {"nothing", "error", "done"}

LEMMA RequestFields ==
    ASSUME NEW me \in Request
    PROVE  DOMAIN me = Fields /\ Typed(me)
  BY DEF Request, Fields, Typed

LEMMA RequestMade ==
    ASSUME NEW me, Whole(me), Typed(me)
    PROVE  me \in Request
  BY DEF Request, Whole, Typed

LEMMA Underway ==
    ASSUME ChatInv, NEW r \in Requests, req[r].pc \notin {"log", "charge", "over"}
    PROVE  /\ ~Kept(r) /\ ~Charged(r) /\ ~req[r].cut /\ req[r].told = "nothing"
           /\ req[r] \in Request
           /\ req[r].pc # "idle" => req[r].op # "none"
           /\ req[r].pc \in Exchanging => req[r].op \in {"send", "stream"}
  BY DEF ChatInv, TypeOK, RequestInv, Fits

LEMMA ArriveStep ==
    ASSUME ChatInv, NEW r \in Requests, NEW op \in Ops \ {"none"}, Arrive(r, op)
    PROVE  Step(r)
  <1> USE DEF ChatInv, TypeOK, RequestInv, TitleInv, Arrive
  <1> DEFINE me == [req[r] EXCEPT !.op = op, !.pc = "find"]
  <1>1. me \in Request /\ Fits(r, me)
    BY DEF Request, Ops, Pcs, Fits, Exchanging, Calling
  <1>2. TitleFits(conversation, me) /\ Quietly(r, me)
    BY DEF Request, Quietly, TitleFits, Exchanging, Calling
  <1>3. QED
    BY <1>1, <1>2, QuietStep

LEMMA FindStep ==
    ASSUME ChatInv, NEW r \in Requests, Find(r)
    PROVE  Step(r)
  <1> USE DEF ChatInv, TypeOK, RequestInv, TitleInv, Find
  <1>1. CASE req[r].op \in {"rename", "delete"}
    <2> PICK me : me = [req[r] EXCEPT !.pc = "change"]
      OBVIOUS
    <2>1. me \in Request
      <3>1. req[r] \in Request
        OBVIOUS
      <3>2. Whole(me)
        BY <3>1, RequestFields DEF Whole, Fields
      <3>3. Typed(me)
        BY <3>1, RequestFields DEF Fields, Typed, Pcs
      <3>4. QED
        BY <3>2, <3>3, RequestMade
    <2>2. Fits(r, me)
      BY Underway DEF Request, Fits, Exchanging, Calling
    <2>3. TitleFits(conversation, me) /\ Quietly(r, me)
      BY DEF Request, Quietly, TitleFits, Exchanging, Calling
    <2>4. QED
      BY <1>1, <2>1, <2>2, <2>3, QuietStep DEF Goto
  <1>2. CASE req[r].op \notin {"rename", "delete"}
    <2> PICK me : me = [req[r] EXCEPT !.pc = "allow", !.seen = conversation.version,
                                    !.fresh = conversation.title = "new"]
      OBVIOUS
    <2>1. me \in Request
      <3>1. req[r] \in Request
        OBVIOUS
      <3>2. Whole(me)
        BY <3>1, RequestFields DEF Whole, Fields
      <3>3. Typed(me)
        BY <1>2, <3>1, RequestFields DEF Fields, Typed, Pcs
      <3>4. QED
        BY <3>2, <3>3, RequestMade
    <2>2. Fits(r, me)
      BY <1>2, Underway DEF Request, Ops, Fits, Exchanging, Calling
    <2>3. TitleFits(conversation, me) /\ Quietly(r, me)
      BY DEF Request, Conversation, Quietly, TitleFits, Exchanging, Calling
    <2>4. QED
      BY <1>2, <2>1, <2>2, <2>3, QuietStep
  <1>3. QED
    BY <1>1, <1>2

LEMMA AllowStep ==
    ASSUME ChatInv, NEW r \in Requests, Allow(r)
    PROVE  Step(r)
  <1> USE DEF ChatInv, TypeOK, RequestInv, TitleInv, Allow
  <1> DEFINE me == [req[r] EXCEPT !.pc = "history"]
  <1>1. me \in Request /\ Fits(r, me)
    BY DEF Request, Pcs, Fits, Exchanging, Calling
  <1>2. TitleFits(conversation, me) /\ Quietly(r, me)
    BY DEF Request, Quietly, TitleFits, Exchanging, Calling
  <1>3. QED
    BY <1>1, <1>2, QuietStep DEF Goto

(* A request that has kept nothing is told of an error, or nothing. *)
LEMMA RefusedStep ==
    ASSUME ChatInv, NEW r \in Requests, UNCHANGED <<conversation, messages, logs>>,
           req[r].pc \in {"find", "allow", "history", "store", "change"}, Respond(r, "error")
    PROVE  Step(r)
  <1> USE DEF ChatInv, TypeOK, RequestInv, TitleInv
  <1> PICK me : me = [req[r] EXCEPT !.pc = "over",
                                  !.told = IF req[r].aborted THEN "nothing" ELSE "error"]
    OBVIOUS
  <1>1. me \in Request
    <2>1. req[r] \in Request
      OBVIOUS
    <2>2. Whole(me)
      BY <2>1, RequestFields DEF Whole, Fields
    <2>3. Typed(me)
      BY <2>1, RequestFields DEF Fields, Typed, Pcs
    <2>4. QED
      BY <2>2, <2>3, RequestMade
  <1>2. Fits(r, me)
    BY Underway DEF Request, Fits, Exchanging, Calling
  <1>3. TitleFits(conversation, me) /\ Quietly(r, me)
    BY DEF Request, Quietly, TitleFits, Fits, Exchanging, Calling
  <1>4. QED
    BY <1>1, <1>2, <1>3, QuietStep DEF Respond

LEMMA HistoryStep ==
    ASSUME ChatInv, NEW r \in Requests, History(r)
    PROVE  Step(r)
  <1> USE DEF ChatInv, TypeOK, RequestInv, TitleInv, History
  <1>1. CASE req' = [req EXCEPT ![r].pc = "log", ![r].status = 400]
    <2> PICK me : me = [req[r] EXCEPT !.pc = "log", !.status = 400]
      OBVIOUS
    <2>1. me \in Request
      <3>1. req[r] \in Request
        OBVIOUS
      <3>2. Whole(me)
        BY <3>1, RequestFields DEF Whole, Fields
      <3>3. Typed(me)
        BY <3>1, RequestFields DEF Fields, Typed, Pcs
      <3>4. QED
        BY <3>2, <3>3, RequestMade
    <2>2. Fits(r, me)
      BY Underway DEF Request, Fits, Exchanging, Calling
    <2>3. TitleFits(conversation, me) /\ Quietly(r, me)
      BY DEF Request, Quietly, TitleFits, Exchanging, Calling
    <2>4. QED
      BY <1>1, <2>1, <2>2, <2>3, QuietStep
  <1>2. ASSUME NEW pc \in {"fetch", "connect"},
               req' = [req EXCEPT ![r].pc = pc, ![r].first = messages = {}]
        PROVE  Step(r)
    <2> PICK me : me = [req[r] EXCEPT !.pc = pc, !.first = messages = {}]
      OBVIOUS
    <2>1. me \in Request
      <3>1. req[r] \in Request
        OBVIOUS
      <3>2. Whole(me)
        BY <3>1, RequestFields DEF Whole, Fields
      <3>3. Typed(me)
        BY <3>1, RequestFields DEF Fields, Typed, Pcs
      <3>4. QED
        BY <3>2, <3>3, RequestMade
    <2>2. Fits(r, me)
      BY Underway DEF Request, Fits, Exchanging, Calling
    <2>3. TitleFits(conversation, me) /\ Quietly(r, me)
      BY DEF Request, Quietly, TitleFits, Exchanging, Calling
    <2>4. QED
      BY <1>2, <2>1, <2>2, <2>3, QuietStep
  <1>3. CASE Respond(r, "error")
    BY <1>3, RefusedStep
  <1>4. QED
    BY <1>1, <1>2, <1>3

LEMMA RefuseStep ==
    ASSUME ChatInv, NEW r \in Requests, Refuse(r)
    PROVE  Step(r)
  BY RefusedStep DEF Refuse

LEMMA ConnectedStep ==
    ASSUME ChatInv, NEW r \in Requests, Connected(r)
    PROVE  Step(r)
  <1> USE DEF ChatInv, TypeOK, RequestInv, TitleInv, Connected
  <1> DEFINE me == [req[r] EXCEPT !.pc = "read"]
  <1>1. me \in Request /\ Fits(r, me)
    BY DEF Request, Pcs, Fits, Exchanging, Calling
  <1>2. TitleFits(conversation, me) /\ Quietly(r, me)
    BY DEF Request, Quietly, TitleFits, Exchanging, Calling
  <1>3. QED
    BY <1>1, <1>2, QuietStep DEF Goto

LEMMA PieceStep ==
    ASSUME ChatInv, NEW r \in Requests, Piece(r)
    PROVE  Step(r)
  <1> USE DEF ChatInv, TypeOK, RequestInv, TitleInv, Piece
  <1> DEFINE me == [req[r] EXCEPT !.text = @ + 1, !.sent = @ + 1]
  <1>1. me \in Request /\ Fits(r, me)
    BY DEF Request, Fits, Exchanging, Calling
  <1>2. TitleFits(conversation, me) /\ Quietly(r, me)
    BY DEF Request, Quietly, TitleFits, Fits, Calling, Exchanging
  <1>3. QED
    BY <1>1, <1>2, QuietStep

LEMMA StreamEndsStep ==
    ASSUME ChatInv, NEW r \in Requests, StreamEnds(r)
    PROVE  Step(r)
  <1> USE DEF ChatInv, TypeOK, RequestInv, TitleInv, StreamEnds
  <1> DEFINE me == [req[r] EXCEPT !.pc = "store"]
  <1>1. me \in Request /\ Fits(r, me)
    BY DEF Request, Pcs, Fits, Exchanging, Calling
  <1>2. TitleFits(conversation, me) /\ Quietly(r, me)
    BY DEF Request, Quietly, TitleFits, Exchanging, Calling
  <1>3. QED
    BY <1>1, <1>2, QuietStep DEF Goto, AfterAnswer

LEMMA AnswerStep ==
    ASSUME ChatInv, NEW r \in Requests, Answer(r)
    PROVE  Step(r)
  <1> USE DEF ChatInv, TypeOK, RequestInv, TitleInv, Answer
  <1> DEFINE me == [req[r] EXCEPT !.pc = "store", !.text = 1,
                                  !.sent = IF req[r].op = "stream" THEN 1 ELSE 0]
  <1>1. me \in Request /\ Fits(r, me)
    BY DEF Request, Pcs, Fits, Exchanging, Calling
  <1>2. TitleFits(conversation, me) /\ Quietly(r, me)
    BY DEF Request, Quietly, TitleFits, Fits, Calling, Exchanging
  <1>3. QED
    BY <1>1, <1>2, QuietStep DEF AfterAnswer

LEMMA ProviderFailsStep ==
    ASSUME ChatInv, NEW r \in Requests, ProviderFails(r)
    PROVE  Step(r)
  <1> USE DEF ChatInv, TypeOK, RequestInv, TitleInv, ProviderFails
  <1> PICK me : me = [req[r] EXCEPT !.pc = "log", !.status = 502]
    OBVIOUS
  <1>1. me \in Request
    <2>1. req[r] \in Request
      OBVIOUS
    <2>2. Whole(me)
      BY <2>1, RequestFields DEF Whole, Fields
    <2>3. Typed(me)
      BY <2>1, RequestFields DEF Fields, Typed, Pcs
    <2>4. QED
      BY <2>2, <2>3, RequestMade
  <1>2. Fits(r, me)
    BY Underway DEF Request, Fits, Exchanging, Calling
  <1>3. TitleFits(conversation, me) /\ Quietly(r, me)
    BY DEF Request, Quietly, TitleFits, Calling, Exchanging
  <1>4. req' = [req EXCEPT ![r].pc = "log", ![r].status = 502]
    OBVIOUS
  <1>5. req[r].pc \in {"fetch", "connect", "read"} /\ UNCHANGED <<conversation, messages, logs>>
    BY DEF Calling
  <1> HIDE DEF ProviderFails
  <1>6. req \in [Requests -> Request] /\ me = [req[r] EXCEPT !.pc = "log", !.status = 502]
    OBVIOUS
  <1>7. req' = [req EXCEPT ![r] = me]
    BY ONLY <1>4, <1>6
  <1>8. QED
    BY <1>1, <1>2, <1>3, <1>5, <1>7, QuietStep

LEMMA DeadlineStep ==
    ASSUME ChatInv, NEW r \in Requests, Deadline(r)
    PROVE  Step(r)
  <1> USE DEF ChatInv, TypeOK, RequestInv, TitleInv, Deadline
  <1> PICK me : me = Cut(req[r], 504)
    OBVIOUS
  <1>1. me \in Request
    <2>1. req[r] \in Request
      OBVIOUS
    <2>2. Whole(me)
      BY <2>1, RequestFields DEF Whole, Fields, Cut
    <2>3. Typed(me)
      BY <2>1, RequestFields DEF Fields, Typed, Pcs, Cut
    <2>4. QED
      BY <2>2, <2>3, RequestMade
  <1>2. Fits(r, me)
    BY Underway DEF Request, Fits, Exchanging, Calling, Cut
  <1>3. TitleFits(conversation, me) /\ Quietly(r, me)
    BY DEF Request, Quietly, TitleFits, Calling, Cut, Exchanging
  <1>4. QED
    BY <1>1, <1>2, <1>3, QuietStep

LEMMA AbortStep ==
    ASSUME ChatInv, NEW r \in Requests, Abort(r)
    PROVE  Step(r)
  <1> USE DEF ChatInv, TypeOK, RequestInv, TitleInv, Abort
  <1>1. CASE req[r].pc \in {"fetch", "connect"}
    <2> PICK me : me = [req[r] EXCEPT !.aborted = TRUE, !.cut = TRUE, !.pc = "over"]
      OBVIOUS
    <2>1. me \in Request
      <3>1. req[r] \in Request
        OBVIOUS
      <3>2. Whole(me)
        BY <3>1, RequestFields DEF Whole, Fields
      <3>3. Typed(me)
        BY <1>1, <3>1, RequestFields DEF Fields, Typed, Pcs
      <3>4. QED
        BY <3>2, <3>3, RequestMade
    <2>2. me = Aborted(req[r])
      BY <1>1 DEF Aborted, Calling, Cut, Request
    <2>3. Fits(r, me)
      BY <1>1, Underway DEF Request, Fits, Exchanging, Calling, Aborted, Cut
    <2>4. TitleFits(conversation, me) /\ Quietly(r, me)
      BY <1>1 DEF Request, Quietly, TitleFits, Fits, Exchanging, Calling
    <2>5. QED
      BY <2>1, <2>2, <2>3, <2>4, QuietStep
  <1>2. CASE req[r].pc = "read"
    <2> PICK me : me = Cut([req[r] EXCEPT !.aborted = TRUE], 499)
      OBVIOUS
    <2>1. me \in Request
      <3>1. req[r] \in Request
        OBVIOUS
      <3>2. Whole(me)
        BY <3>1, RequestFields DEF Whole, Fields, Cut
      <3>3. Typed(me)
        BY <1>2, <3>1, RequestFields DEF Fields, Typed, Pcs, Cut
      <3>4. QED
        BY <3>2, <3>3, RequestMade
    <2>2. me = Aborted(req[r])
      BY <1>2 DEF Aborted, Calling, Cut, Request
    <2>3. Fits(r, me)
      BY <1>2, Underway DEF Request, Fits, Exchanging, Calling, Cut, Aborted, Cut
    <2>4. TitleFits(conversation, me) /\ Quietly(r, me)
      BY <1>2 DEF Request, Quietly, TitleFits, Cut, Exchanging, Calling
    <2>5. QED
      BY <2>1, <2>2, <2>3, <2>4, QuietStep
  <1>3. CASE req[r].pc \notin Calling
    <2> PICK me : me = [req[r] EXCEPT !.aborted = TRUE]
      OBVIOUS
    <2>1. me \in Request
      <3>1. req[r] \in Request
        OBVIOUS
      <3>2. Whole(me)
        BY <3>1, RequestFields DEF Whole, Fields
      <3>3. Typed(me)
        BY <1>3, <3>1, RequestFields DEF Fields, Typed, Pcs
      <3>4. QED
        BY <3>2, <3>3, RequestMade
    <2>2. me = Aborted(req[r])
      BY <1>3 DEF Aborted, Calling, Cut, Request
    <2>3. Fits(r, me)
      BY <1>3, Underway DEF Request, Fits, Exchanging, Calling, Aborted, Cut
    <2>4. TitleFits(conversation, me) /\ Quietly(r, me)
      BY <1>3 DEF Request, Quietly, TitleFits, Exchanging, Calling
    <2>5. QED
      BY <2>1, <2>2, <2>3, <2>4, QuietStep
  <1>4. QED
    BY <1>1, <1>2, <1>3 DEF Calling

(* A request whose server dies may have stored its exchange. *)
LEMMA DieStep ==
    ASSUME ChatInv, NEW r \in Requests, Die(r)
    PROVE  Step(r)
  <1> USE DEF ChatInv, TypeOK, RequestInv, TitleInv, Die
  <1> DEFINE me == [req[r] EXCEPT !.pc = "over"]
  <1>1. me \in Request /\ Fits(r, me)
    BY DEF Request, Pcs, Fits, Exchanging, Calling
  <1>2. TitleFits(conversation, me) /\ Quietly(r, me)
    BY DEF Request, Quietly, TitleFits, Fits, Exchanging, Calling
  <1>3. QED
    BY <1>1, <1>2, QuietStep DEF Goto

-----------------------------------------------------------------------------
(* The steps that write a table. *)

LEMMA LogFailureStep ==
    ASSUME ChatInv, NEW r \in Requests, LogFailure(r)
    PROVE  Step(r)
  <1> USE DEF ChatInv, TypeOK, RequestInv, TitleInv, LogFailure
  <1> PICK me : me = [req[r] EXCEPT !.pc = "over",
                        !.told = IF req[r].aborted THEN "nothing" ELSE "error"]
    OBVIOUS
  <1>1. me \in Request
    <2>1. req[r] \in Request
      OBVIOUS
    <2>2. Whole(me)
      BY <2>1, RequestFields DEF Whole, Fields
    <2>3. Typed(me)
      BY <2>1, RequestFields DEF Fields, Typed, Pcs
    <2>4. QED
      BY <2>2, <2>3, RequestMade
  <1>2. Fits(r, me) /\ TitleFits(conversation, me) /\ Quietly(r, me)
    BY DEF Request, Fits, TitleFits, Quietly, Exchanging, Calling
  <1>3. logs' \subseteq Log /\ \A q \in Requests : Charged(q)' <=> Charged(q)
    <2>1. req[r].status \in {400, 502, 504}
      BY DEF Request, Fits
    <2>2. QED
      BY <2>1 DEF SafeRecord, Log, Charged
  <1>4. QED
    BY <1>1, <1>2, <1>3, NothingStored DEF Respond

LEMMA ChangeStep ==
    ASSUME ChatInv, NEW r \in Requests, Change(r)
    PROVE  Step(r)
  <1> USE DEF ChatInv, TypeOK, RequestInv, TitleInv, Change
  <1> PICK me : me = [req[r] EXCEPT !.pc = "over",
                        !.told = IF req[r].aborted THEN "nothing" ELSE "done"]
    OBVIOUS
  <1>1. me \in Request
    <2>1. req[r] \in Request
      OBVIOUS
    <2>2. Whole(me)
      BY <2>1, RequestFields DEF Whole, Fields
    <2>3. Typed(me)
      BY <2>1, RequestFields DEF Fields, Typed, Pcs
    <2>4. QED
      BY <2>2, <2>3, RequestMade
  <1>2. Fits(r, me) /\ Quietly(r, me)
    BY Underway DEF Request, Fits, Quietly, Exchanging, Calling
  <1>3. /\ conversation' \in Conversation
        /\ conversation'.version = conversation.version + 1
    <2>1. conversation \in Conversation
      OBVIOUS
    <2>2. ASSUME NEW t \in {"new", "user"},
                 conversation' = [conversation EXCEPT !.title = t, !.version = @ + 1]
          PROVE  /\ conversation' \in Conversation
                 /\ conversation'.version = conversation.version + 1
      <3>1. /\ conversation' = [title |-> t, deleted |-> conversation.deleted,
                                version |-> conversation.version + 1]
            /\ conversation.version \in Nat
        BY <2>1, <2>2 DEF Conversation
      <3>2. QED
        BY <2>1, <3>1 DEF Conversation
    <2>3. ASSUME conversation' = [conversation EXCEPT !.deleted = TRUE, !.version = @ + 1]
          PROVE  /\ conversation' \in Conversation
                 /\ conversation'.version = conversation.version + 1
      <3>1. /\ conversation' = [title |-> conversation.title, deleted |-> TRUE,
                                version |-> conversation.version + 1]
            /\ conversation.version \in Nat
        BY <2>1, <2>3 DEF Conversation
      <3>2. QED
        BY <2>1, <3>1 DEF Conversation
    <2>4. QED
      BY <2>1, <2>2, <2>3 DEF Conversation
  <1>4. \A q \in Requests : TitleFits(conversation', req[q])
    BY <1>3 DEF Conversation, Request, TitleFits, Exchanging, Calling
  <1>5. TitleFits(conversation', me)
    BY <1>4 DEF Request, TitleFits, Exchanging, Calling
  <1>6. QED
    BY <1>1, <1>2, <1>3, <1>4, <1>5, NothingStored DEF Respond, Charged

LEMMA ChargeStep ==
    ASSUME ChatInv, NEW r \in Requests, Charge(r)
    PROVE  Step(r)
  <1> USE DEF ChatInv, TypeOK, RequestInv, TitleInv, Charge
  <1> PICK me : me = [req[r] EXCEPT !.pc = "over",
                        !.told = IF req[r].aborted THEN "nothing" ELSE "done",
                        !.sent = IF req[r].aborted THEN req[r].sent ELSE req[r].text]
    OBVIOUS
  <1>1. me \in Request
    <2>1. req[r] \in Request
      OBVIOUS
    <2>2. Whole(me)
      BY <2>1, RequestFields DEF Whole, Fields
    <2>3. Typed(me)
      BY <2>1, RequestFields DEF Fields, Typed, Pcs
    <2>4. QED
      BY <2>2, <2>3, RequestMade
  <1>2. req' = [req EXCEPT ![r] = me]
    OBVIOUS
  <1>3. /\ \A q \in Requests : Kept(q)' <=> Kept(q)
        /\ \A q \in Requests \ {r} : Charged(q)' <=> Charged(q)
        /\ Kept(r) /\ logs' \subseteq Log
    <2>1. Kept(r) /\ \A q \in Requests : Kept(q)' <=> Kept(q)
      BY DEF Kept, Fits
    <2>2. logs' \subseteq Log /\ \A q \in Requests \ {r} : Charged(q)' <=> Charged(q)
      BY DEF SafeRecord, Log, Charged
    <2>3. QED
      BY <2>1, <2>2
  <1>4. /\ TypeOK' /\ req'[r] = me /\ TitleInv(r)'
        /\ \A q \in Requests \ {r} : req'[q] = req[q] /\ TitleInv(q)'
    <2>1. /\ conversation' = conversation
          /\ me.pc = "over" /\ me.seen = req[r].seen /\ me.fresh = req[r].fresh
      BY DEF Request
    <2>2. TitleFits(conversation', me)
      BY <2>1 DEF TitleFits, Exchanging, Calling
    <2>3. /\ TypeOK' /\ req'[r] = me
          /\ \A q \in Requests \ {r} : req'[q] = req[q]
      BY <1>1, <1>2, <1>3, <2>1
    <2>4. QED
      BY <2>1, <2>2, <2>3
  <1>5. /\ me.pc = "over" /\ me.op = req[r].op /\ me.cut = req[r].cut /\ me.text = req[r].text
        /\ me.op \in {"send", "stream"} /\ ~me.cut
        /\ \/ me.told = "nothing" /\ me.sent = req[r].sent
           \/ me.told = "done" /\ me.sent = me.text
    BY DEF Request, Fits, Exchanging, Calling
  <1>6. RequestInv(r)'
    BY <1>3, <1>4, <1>5 DEF Fits, Exchanging, Calling
  <1>7. Ends(OutcomeOf(r), OutcomeOf(r)')
    <2>1. Kept(r) = TRUE /\ Kept(r)' = TRUE
      BY <1>3 DEF Kept
    <2>2. req[r].told = "nothing" /\ req[r].op \in {"send", "stream"}
      BY DEF Fits, Exchanging, Calling
    <2>3. QED
      BY <1>4, <1>5, <2>1, <2>2 DEF Ends, OutcomeOf, IsExchange
  <1>8. QED
    BY <1>3, <1>4, <1>6, <1>7 DEF Step, Moves

LEMMA StoreStep ==
    ASSUME ChatInv, NEW r \in Requests, Store(r)
    PROVE  Step(r)
  <1> USE DEF ChatInv, TypeOK, RequestInv, TitleInv, Store
  <1> DEFINE pair == [by |-> r, text |-> req[r].text]
  <1>1. req[r] \in Request /\ pair \in Pair
    BY DEF Request, Pair
  <1>2. req' = [req EXCEPT ![r].pc = "charge"] /\ req' \in [Requests -> Request]
    BY DEF Goto, Request, Pcs
  <1>3. /\ req'[r].pc = "charge" /\ req'[r].op = req[r].op /\ req'[r].cut = req[r].cut
        /\ req'[r].text = req[r].text /\ req'[r].sent = req[r].sent
        /\ req'[r].told = req[r].told
        /\ req'[r].seen = req[r].seen /\ req'[r].fresh = req[r].fresh
        /\ \A q \in Requests \ {r} : req'[q] = req[q]
    BY <1>1, <1>2 DEF Request
  <1>4. Title(r) \in {"new", "user"} \cup Requests
    BY DEF Title, Conversation
  <1>5. conversation' \in Conversation /\ conversation'.version = conversation.version + 1
    <2> DEFINE title == Title(r)
    <2> HIDE DEF title
    <2>1. conversation \in Conversation /\ title \in {"new", "user"} \cup Requests
      BY <1>4 DEF title
    <2>2. conversation' = [title |-> title, deleted |-> conversation.deleted,
                           version |-> conversation.version + 1]
      BY <2>1 DEF Conversation, title
    <2>3. QED
      BY <2>1, <2>2 DEF Conversation
  <1>6. TypeOK'
    BY <1>1, <1>2, <1>5
  <1>7. /\ \A q \in Requests \ {r} : Kept(q)' <=> Kept(q)
        /\ \A q \in Requests : Charged(q)' <=> Charged(q)
        /\ Kept(r)' /\ ~Kept(r) /\ ~Charged(r) /\ req[r].told = "nothing" /\ ~req[r].cut
        /\ req[r].op \in {"send", "stream"} /\ req[r].text > 0
    <2>1. /\ ~Kept(r) /\ ~Charged(r) /\ req[r].told = "nothing" /\ ~req[r].cut
          /\ req[r].op \in {"send", "stream"}
      BY Underway DEF Exchanging
    <2>2. req[r].text > 0
      BY DEF Fits
    <2>3. Kept(r)' /\ \A q \in Requests \ {r} : Kept(q)' <=> Kept(q)
      <3>1. messages' = messages \cup {pair} /\ pair.by = r
        OBVIOUS
      <3> HIDE DEF pair
      <3>2. Kept(r)'
        BY <3>1 DEF Kept
      <3>3. \A q \in Requests \ {r} : Kept(q)' <=> Kept(q)
        BY <3>1 DEF Kept
      <3>4. QED
        BY <3>2, <3>3
    <2>4. \A q \in Requests : Charged(q)' <=> Charged(q)
      BY DEF Charged
    <2>5. QED
      BY <2>1, <2>2, <2>3, <2>4
  <1>8. \A q \in Requests : TitleInv(q)'
    BY <1>3, <1>5, <1>6 DEF TitleFits, Conversation, Request, Exchanging, Calling
  <1>9. RequestInv(r)'
    BY <1>3, <1>7 DEF Fits, Exchanging, Calling
  <1>10. Keeps(OutcomeOf(r), OutcomeOf(r)')
    <2>1. Kept(r) = FALSE /\ Kept(r)' = TRUE /\ Charged(r) = FALSE /\ Charged(r)' = FALSE
      BY <1>7 DEF Kept, Charged
    <2>2. QED
      BY <1>3, <1>7, <2>1 DEF Keeps, OutcomeOf, IsExchange
  <1>11. QED
    BY <1>3, <1>6, <1>7, <1>8, <1>9, <1>10 DEF Step, Moves

-----------------------------------------------------------------------------
(* Every step is the step of one request. *)

LEMMA RequestStep ==
    ASSUME ChatInv, NEW r \in Requests, Serve(r) \/ Deadline(r) \/ Outside(r)
    PROVE  Step(r)
  BY FindStep, AllowStep, HistoryStep, RefuseStep, LogFailureStep, StoreStep, ChargeStep,
     ChangeStep, DeadlineStep, ConnectedStep, PieceStep, StreamEndsStep, AnswerStep,
     ProviderFailsStep, AbortStep, DieStep, ArriveStep
  DEF Serve, Outside

LEMMA StepKeeps ==
    ASSUME ChatInv, NEW r \in Requests, Step(r)
    PROVE  ChatInv'
  <1>1. ASSUME NEW q \in Requests \ {r}
        PROVE  RequestInv(q)'
    BY <1>1 DEF ChatInv, RequestInv, Fits, Step
  <1>2. QED
    BY <1>1 DEF ChatInv, Step

LEMMA ChatInvNext ==
    ASSUME ChatInv, [Next]_vars
    PROVE  ChatInv'
  <1>1. CASE Next
    BY <1>1, RequestStep, StepKeeps DEF Next
  <1>2. CASE UNCHANGED vars
    BY <1>2 DEF vars, ChatInv, TypeOK, RequestInv, Fits, TitleInv, TitleFits, Kept, Charged
  <1>3. QED
    BY <1>1, <1>2

LEMMA ChatInvAlways == Spec => []ChatInv
  BY ChatInvInit, ChatInvNext, PTL DEF Spec

(* Every variable keeps its type, whatever the requests do. *)
THEOREM TypeCorrect == Spec => []TypeOK
  <1>1. ChatInv => TypeOK
    BY DEF ChatInv
  <1>2. QED
    BY <1>1, ChatInvAlways, PTL

(* An answer cut short by the deadline or the client is never stored,        *)
(* charged or reported as done (completeStream, streamMessage).              *)
THEOREM CutIsNeverKept == Spec => []CutNeverKept
  <1>1. ChatInv => CutNeverKept
    BY DEF ChatInv, RequestInv, Fits, CutNeverKept
  <1>2. QED
    BY <1>1, ChatInvAlways, PTL

(* The automatic title replaces none, unless the conversation was written    *)
(* between the read of shouldAutoTitle and the transaction.                  *)
THEOREM TitleIsKept == Spec => TitleKept
  <1>1. ASSUME ChatInv, NEW r \in Requests, Store(r), conversation.title # "new",
               conversation'.title # conversation.title
        PROVE  conversation.version # req[r].seen
    <2>1. conversation \in Conversation
      BY <1>1 DEF ChatInv, TypeOK
    <2>2. conversation'.title = Title(r)
      BY <1>1, <2>1 DEF Store, Conversation
    <2>3. req[r].fresh
      BY <1>1, <2>2 DEF Title
    <2>4. QED
      BY <1>1, <2>3 DEF ChatInv, TitleInv, TitleFits, Exchanging, Calling
  <1>2. ChatInv /\ [Next]_vars =>
          [\A r \in Requests :
             /\ Store(r) /\ conversation.title # "new"
             /\ conversation'.title # conversation.title
             => conversation.version # req[r].seen]_vars
    BY <1>1
  <1>3. QED
    BY <1>2, ChatInvAlways, PTL DEF Spec, TitleKept

(* An exchange that stores into a deleted conversation read it before it     *)
(* was deleted (getOwnedConversation, deleteConversation).                   *)
THEOREM DeletionIsFelt == Spec => DeletedGrowsOnlyByOverlap
  <1>1. ASSUME ChatInv, NEW r \in Requests, Store(r), conversation.deleted
        PROVE  conversation.version # req[r].seen
    BY <1>1 DEF ChatInv, TitleInv, TitleFits, Store, Exchanging
  <1>2. ChatInv /\ [Next]_vars =>
          [\A r \in Requests :
             Store(r) /\ conversation.deleted => conversation.version # req[r].seen]_vars
    BY <1>1
  <1>3. QED
    BY <1>2, ChatInvAlways, PTL DEF Spec, DeletedGrowsOnlyByOverlap

-----------------------------------------------------------------------------
(* The refinement: the outcomes of Chat are those of Exchange. *)

LEMMA PromiseInit == Init => Promise!Init
  <1> SUFFICES ASSUME Init, NEW r \in Requests
               PROVE  OutcomeOf(r) = Promise!Pending
    BY DEF Promise!Init
  <1>1. req[r] = Idle /\ Kept(r) = FALSE /\ Charged(r) = FALSE
    BY DEF Init, Kept, Charged
  <1>2. /\ (req[r].pc # "over") = TRUE /\ req[r].text = 0 /\ req[r].sent = 0
        /\ (IF IsExchange(r) THEN req[r].told ELSE "nothing") = "nothing"
    BY <1>1 DEF Idle
  <1>3. QED
    BY <1>1, <1>2 DEF Promise!Pending, OutcomeOf

LEMMA OutcomeTyped ==
    ASSUME TypeOK, TypeOK', NEW r \in Requests
    PROVE  OutcomeOf(r) \in Promise!Outcome /\ OutcomeOf(r)' \in Promise!Outcome
  BY DEF TypeOK, Request, OutcomeOf, Promise!Outcome, Kept, Charged, IsExchange

LEMMA PromiseNext ==
    ASSUME ChatInv, ChatInv', [Next]_vars
    PROVE  [Promise!Next]_(Outcomes)
  <1>1. ASSUME NEW r \in Requests, Step(r)
        PROVE  [Promise!Next]_(Outcomes)
    <2>1. OutcomeOf(r) \in Promise!Outcome /\ OutcomeOf(r)' \in Promise!Outcome
      BY OutcomeTyped DEF ChatInv
    <2>2. ASSUME NEW q \in Requests \ {r}
          PROVE  OutcomeOf(q)' = OutcomeOf(q)
      <3>1. /\ req'[q] = req[q] /\ Kept(q)' = Kept(q) /\ Charged(q)' = Charged(q)
        BY <1>1 DEF Step, Kept, Charged
      <3>2. QED
        BY <3>1 DEF OutcomeOf, IsExchange
    <2>3. QED
      BY <1>1, <2>1, <2>2, MovesImplement DEF Step
  <1>2. CASE Next
    BY <1>1, <1>2, RequestStep DEF Next
  <1>3. CASE UNCHANGED vars
    BY <1>3 DEF vars, Outcomes, OutcomeOf, IsExchange, Kept, Charged
  <1>4. QED
    BY <1>2, <1>3

(* Failed streams do not consume successful subscription quota               *)
(* (chat.controller.ts:227): what sendMessage and streamMessage store,       *)
(* charge and tell is what Exchange allows.                                  *)
THEOREM ChatImplementsExchange == Spec => ImplementsExchange
  <1>1. ChatInv /\ ChatInv' /\ [Next]_vars => [Promise!Next]_(Outcomes)
    BY PromiseNext
  <1>2. QED
    BY <1>1, PromiseInit, ChatInvAlways, PTL DEF Spec, ImplementsExchange, Promise!Spec, Outcomes

-----------------------------------------------------------------------------
(* The promise itself.  While an exchange is open nobody has been told      *)
(* anything, and nothing has been charged.                                  *)
Settled(o) ==
    /\ o \in Promise!Outcome
    /\ o.open => o.told = "nothing" /\ ~o.charged
    /\ o.charged => o.kept
    /\ o.told = "done" => o.kept /\ o.sent = o.answer
    /\ o.told = "error" => ~o.kept /\ ~o.charged

AllSettled == \A r \in Requests : Settled(Outcomes[r])

LEMMA AllSettledInit == Promise!Init => AllSettled
  <1> SUFFICES ASSUME Promise!Init, NEW r \in Requests
               PROVE  Settled(Outcomes[r])
    BY DEF AllSettled
  <1>1. Outcomes[r] = Promise!Pending
    BY DEF Promise!Init, Outcomes
  <1>2. QED
    BY <1>1 DEF Settled, Promise!Pending, Promise!Outcome

(* A step of Exchange writes the outcome of one exchange. *)
LEMMA OneSettled ==
    ASSUME AllSettled, NEW r \in Requests, NEW o, Settled(o),
           Outcomes' = [Outcomes EXCEPT ![r] = o]
    PROVE  AllSettled'
  <1>1. Outcomes'[r] = o /\ \A q \in Requests \ {r} : Outcomes'[q] = Outcomes[q]
    BY DEF Outcomes
  <1>2. \A q \in Requests : Settled(Outcomes'[q])
    BY <1>1 DEF AllSettled
  <1>3. QED
    BY <1>2 DEF AllSettled, Settled, Promise!Outcome

LEMMA AllSettledNext ==
    ASSUME AllSettled, [Promise!Next]_(Outcomes)
    PROVE  AllSettled'
  <1> USE DEF Settled, Promise!Outcome
  <1>1. ASSUME NEW r \in Requests, Promise!Receive(r)
        PROVE  AllSettled'
    <2> DEFINE one  == [Outcomes[r] EXCEPT !.answer = @ + 1]
               both == [Outcomes[r] EXCEPT !.answer = @ + 1, !.sent = @ + 1]
    <2>1. /\ Outcomes[r].open /\ ~Outcomes[r].kept
          /\ \/ Outcomes' = [Outcomes EXCEPT ![r] = one]
             \/ Outcomes' = [Outcomes EXCEPT ![r] = both]
      BY <1>1 DEF Promise!Receive, Outcomes
    <2>2. Settled(Outcomes[r])
      BY DEF AllSettled
    <2>3. Settled(one)
      BY <2>1, <2>2
    <2>4. Outcomes[r].told # "done" /\ Outcomes[r].answer + 1 \in Nat /\ Outcomes[r].sent + 1 \in Nat
      BY <2>1, <2>2
    <2>5. Settled(both)
      BY <2>1, <2>2, <2>4
    <2>6. QED
      BY <2>1, <2>3, <2>5, OneSettled
  <1>2. ASSUME NEW r \in Requests, Promise!Keep(r)
        PROVE  AllSettled'
    <2> DEFINE o == [Outcomes[r] EXCEPT !.kept = TRUE]
    <2>1. Outcomes[r].open /\ Outcomes' = [Outcomes EXCEPT ![r] = o]
      BY <1>2 DEF Promise!Keep, Outcomes
    <2>2. Settled(o)
      BY <2>1 DEF AllSettled
    <2>3. QED
      BY <2>1, <2>2, OneSettled
  <1>3. ASSUME NEW r \in Requests, Promise!Done(r)
        PROVE  AllSettled'
    <2>1. PICK c \in BOOLEAN :
            Outcomes' = [Outcomes EXCEPT ![r].open = FALSE, ![r].charged = c,
                                         ![r].told = "done", ![r].sent = Outcomes[r].answer]
      BY <1>3 DEF Promise!Done, Outcomes
    <2> DEFINE o == [Outcomes[r] EXCEPT !.open = FALSE, !.charged = c,
                                        !.told = "done", !.sent = Outcomes[r].answer]
    <2>2. Outcomes[r].open /\ Outcomes[r].kept
      BY <1>3 DEF Promise!Done, Outcomes
    <2>3. Settled(o)
      BY <2>2 DEF AllSettled
    <2>4. Outcomes' = [Outcomes EXCEPT ![r] = o]
      BY <2>1 DEF Outcomes
    <2>5. QED
      BY <2>3, <2>4, OneSettled
  <1>4. ASSUME NEW r \in Requests, Promise!Unheard(r)
        PROVE  AllSettled'
    <2>1. PICK c \in BOOLEAN :
            Outcomes' = [Outcomes EXCEPT ![r].open = FALSE, ![r].charged = c]
      BY <1>4 DEF Promise!Unheard, Outcomes
    <2> DEFINE o == [Outcomes[r] EXCEPT !.open = FALSE, !.charged = c]
    <2>2. Outcomes[r].open /\ Outcomes[r].kept
      BY <1>4 DEF Promise!Unheard, Outcomes
    <2>3. Settled(o)
      BY <2>2 DEF AllSettled
    <2>4. Outcomes' = [Outcomes EXCEPT ![r] = o]
      BY <2>1 DEF Outcomes
    <2>5. QED
      BY <2>3, <2>4, OneSettled
  <1>5. ASSUME NEW r \in Requests, Promise!Fail(r)
        PROVE  AllSettled'
    <2>1. PICK t \in {"nothing", "error"} :
            Outcomes' = [Outcomes EXCEPT ![r].open = FALSE, ![r].told = t]
      BY <1>5 DEF Promise!Fail, Outcomes
    <2> DEFINE o == [Outcomes[r] EXCEPT !.open = FALSE, !.told = t]
    <2>2. Outcomes[r].open /\ ~Outcomes[r].kept
      BY <1>5 DEF Promise!Fail, Outcomes
    <2>3. Settled(o)
      BY <2>2 DEF AllSettled
    <2>4. Outcomes' = [Outcomes EXCEPT ![r] = o]
      BY <2>1 DEF Outcomes
    <2>5. QED
      BY <2>3, <2>4, OneSettled
  <1>6. CASE UNCHANGED Outcomes
    BY <1>6 DEF AllSettled
  <1>7. QED
    BY <1>1, <1>2, <1>3, <1>4, <1>5, <1>6 DEF Promise!Next

(* A charge is for a stored exchange; a client told that it is done has got *)
(* the very answer that is stored; one told of an error keeps and pays      *)
(* nothing: whatever behaves as Exchange does keeps that promise ...        *)
THEOREM OutcomesAgree == Promise!Spec => []Promise!Agreement
  <1>1. AllSettled => Promise!Agreement
    BY DEF AllSettled, Settled, Promise!Agreement, Outcomes
  <1>2. AllSettled /\ [Promise!Next]_(Outcomes) => AllSettled'
    BY AllSettledNext
  <1>3. QED
    BY <1>1, <1>2, AllSettledInit, PTL DEF Promise!Spec, Outcomes

(* ... so ChatService's sendMessage and streamMessage do.                   *)
THEOREM ChatOutcomesAgree == Spec => []Promise!Agreement
  BY OutcomesAgree, ChatImplementsExchange, PTL DEF ImplementsExchange

-----------------------------------------------------------------------------
(* How far a request is from its end: the waits ahead of it, the pieces it *)
(* may still be streamed, and an abort, which strikes but once.            *)
PiecesLeft(me) == IF me.text < MaxPieces THEN MaxPieces - me.text ELSE 0

Ahead(me) ==
    IF      me.pc = "over"                        THEN 0
    ELSE IF me.pc \in {"charge", "log", "change"} THEN 1
    ELSE IF me.pc = "store"                       THEN 2
    ELSE IF me.pc = "fetch"                       THEN 3
    ELSE IF me.pc = "read"                        THEN 3 + PiecesLeft(me)
    ELSE IF me.pc = "connect"                     THEN 4 + MaxPieces
    ELSE IF me.pc = "history"                     THEN 5 + MaxPieces
    ELSE IF me.pc = "allow"                       THEN 6 + MaxPieces
    ELSE IF me.pc = "find"                        THEN 7 + MaxPieces
    ELSE 8 + MaxPieces    \* "idle"

Rank(me) == Ahead(me) + (IF me.aborted THEN 0 ELSE 1)

(* A step of one request, which brings it nearer to its end. *)
Nearer(r) ==
    /\ Rank(req'[r]) < Rank(req[r])
    /\ \A q \in Requests \ {r} : req'[q] = req[q]

(* The waits ahead are bounded. *)
LEMMA AheadRange ==
    ASSUME NEW me, me.pc \in Pcs, me.text \in Nat
    PROVE  Ahead(me) \in 0 .. 8 + MaxPieces
  BY PiecesAssumption DEF Ahead, Pcs, PiecesLeft

LEMMA NearerStep ==
    ASSUME TypeOK, NEW r \in Requests, Serve(r) \/ Deadline(r) \/ Outside(r)
    PROVE  Nearer(r)
  <1>1. req[r] \in Request /\ Typed(req[r]) /\ DOMAIN req[r] = Fields
    BY RequestFields DEF TypeOK
  <1>2. req[r].pc \in Pcs /\ req[r].text \in Nat /\ req[r].aborted \in BOOLEAN
    BY <1>1 DEF Typed
  <1>3. CASE \E op \in Ops \ {"none"} : Arrive(r, op)
    BY <1>1, <1>2, <1>3, PiecesAssumption
    DEF Arrive, Nearer, Rank, Ahead, Pcs, PiecesLeft, TypeOK, Request
  <1>4. CASE Find(r)
    BY <1>1, <1>2, <1>4, PiecesAssumption
    DEF Find, Goto, Nearer, Rank, Ahead, Pcs, PiecesLeft, TypeOK, Request
  <1>5. CASE Allow(r)
    <2>1. req[r].pc = "allow" /\ req' = [req EXCEPT ![r].pc = "history"]
      BY <1>5 DEF Allow, Goto
    <2>2. req'[r].pc = "history" /\ req'[r].aborted = req[r].aborted
      BY <1>1, <2>1 DEF TypeOK, Fields
    <2>3. QED
      BY <1>2, <2>1, <2>2, PiecesAssumption DEF Nearer, Rank, Ahead, TypeOK
  <1>6. CASE History(r)
    <2>1. req[r].pc = "history" /\ \A q \in Requests \ {r} : req'[q] = req[q]
      BY <1>6 DEF History, Respond, TypeOK
    <2>2. /\ req'[r].pc \in {"log", "fetch", "connect", "over"}
          /\ req'[r].aborted = req[r].aborted
      <3>1. CASE req' = [req EXCEPT ![r].pc = "log", ![r].status = 400]
        BY <1>1, <3>1 DEF TypeOK, Request
      <3>2. CASE \E pc \in {"fetch", "connect"} :
                   req' = [req EXCEPT ![r].pc = pc, ![r].first = messages = {}]
        BY <1>1, <3>2 DEF TypeOK, Request
      <3>3. CASE Respond(r, "error")
        BY <1>1, <3>3 DEF Respond, TypeOK, Request
      <3>4. QED
        BY <1>6, <3>1, <3>2, <3>3 DEF History
    <2>3. QED
      BY <2>1, <2>2, PiecesAssumption DEF Nearer, Rank, Ahead
  <1>7. CASE Refuse(r)
    BY <1>1, <1>2, <1>7, PiecesAssumption
    DEF Refuse, Respond, Nearer, Rank, Ahead, Pcs, PiecesLeft, TypeOK,
        Request
  <1>8. CASE LogFailure(r) \/ Store(r) \/ Charge(r) \/ Change(r)
    <2>1. CASE Store(r)
      BY <1>1, <1>2, <2>1, PiecesAssumption
      DEF Store, Goto, Nearer, Rank, Ahead, TypeOK, Request
    <2>2. CASE LogFailure(r) \/ Charge(r) \/ Change(r)
      <3>1. req[r].pc \in {"log", "charge", "change"}
        BY <2>2 DEF LogFailure, Charge, Change
      <3>2. PICK me1 : req' = [req EXCEPT ![r] = me1] /\ me1.pc = "over"
                       /\ me1.aborted = req[r].aborted
        BY <1>1, <2>2 DEF LogFailure, Charge, Change, Respond, TypeOK, Request
      <3>3. QED
        BY <1>2, <3>1, <3>2 DEF Nearer, Rank, Ahead, TypeOK
    <2>3. QED
      BY <1>8, <2>1, <2>2
  <1>9. CASE Deadline(r) \/ ProviderFails(r)
    <2>1. req[r].pc \in Calling /\ req'[r].pc = "log" /\ req'[r].aborted = req[r].aborted
      <3>1. CASE Deadline(r)
        <4>1. PICK me : me = Cut(req[r], 504)
          OBVIOUS
        <4>2. me.pc = "log" /\ me.aborted = req[r].aborted
          BY <1>1, <4>1 DEF Cut, Fields
        <4>3. req[r].pc \in Calling /\ req'[r] = me
          BY <3>1, <4>1 DEF Deadline, TypeOK
        <4>4. QED
          BY <4>2, <4>3
      <3>2. CASE ProviderFails(r)
        BY <1>1, <3>2 DEF ProviderFails, TypeOK, Request
      <3>3. QED
        BY <1>9, <3>1, <3>2
    <2>2. \A q \in Requests \ {r} : req'[q] = req[q]
      BY <1>9 DEF Deadline, ProviderFails, TypeOK
    <2>3. QED
      BY <1>2, <2>1, <2>2, PiecesAssumption DEF Calling, Nearer, Rank, Ahead, PiecesLeft
  <1>10. CASE Connected(r) \/ StreamEnds(r) \/ Answer(r)
    BY <1>1, <1>2, <1>10, PiecesAssumption
    DEF Connected, StreamEnds, Answer, AfterAnswer, Goto, Nearer, Rank,
        Ahead, Pcs, PiecesLeft, TypeOK, Request
  <1>11. CASE Piece(r)
    BY <1>1, <1>2, <1>11, PiecesAssumption
    DEF Piece, Nearer, Rank, Ahead, Pcs, PiecesLeft, TypeOK, Request
  <1>12. CASE Abort(r)
    BY <1>1, <1>2, <1>12, PiecesAssumption
    DEF Abort, Aborted, Cut, Nearer, Rank, Ahead, Pcs, PiecesLeft, TypeOK,
        Request
  <1>13. CASE Die(r)
    BY <1>1, <1>2, <1>13, PiecesAssumption
    DEF Die, Goto, Nearer, Rank, Ahead, Pcs, PiecesLeft, TypeOK, Request
  <1>14. QED
    BY <1>3, <1>4, <1>5, <1>6, <1>7, <1>8, <1>9, <1>10, <1>11, <1>12, <1>13
    DEF Serve, Outside

(* sendMessage, streamMessage, updateConversation and deleteConversation   *)
(* never go in circles: every step of the system is a step of one request, *)
(* which brings that request nearer to its end, whatever the provider, the *)
(* client and the other requests do.  It is the part of Served that needs  *)
(* no fairness.                                                            *)
THEOREM EveryStepCounts ==
    Spec => [][\E r \in Requests :
                 /\ Rank(req'[r]) < Rank(req[r])
                 /\ \A q \in Requests \ {r} : req'[q] = req[q]]_vars
  <1>1. ASSUME TypeOK, [Next]_vars
        PROVE  [\E r \in Requests :
                 /\ Rank(req'[r]) < Rank(req[r])
                 /\ \A q \in Requests \ {r} : req'[q] = req[q]]_vars
    BY <1>1, NearerStep DEF Next, Nearer
  <1>2. QED
    BY <1>1, TypeCorrect, PTL DEF Spec

(* The bound: an exchange streamed in MaxPieces pieces (streamMessage) is   *)
(* over after at most 9 + MaxPieces steps, any other request sooner, and   *)
(* only one that is over has none ahead.                                   *)
THEOREM StepsBounded ==
    Spec => [](\A r \in Requests :
                 /\ Rank(req[r]) \in 0 .. 9 + MaxPieces
                 /\ Ahead(req[r]) = 0 <=> req[r].pc = "over")
  <1>1. TypeOK => \A r \in Requests :
                    /\ Rank(req[r]) \in 0 .. 9 + MaxPieces
                    /\ Ahead(req[r]) = 0 <=> req[r].pc = "over"
    <2> SUFFICES ASSUME TypeOK, NEW r \in Requests
                 PROVE  /\ Rank(req[r]) \in 0 .. 9 + MaxPieces
                        /\ Ahead(req[r]) = 0 <=> req[r].pc = "over"
      OBVIOUS
    <2>1. req[r].pc \in Pcs /\ req[r].text \in Nat
      BY RequestFields DEF TypeOK, Typed
    <2>2. Rank(req[r]) \in 0 .. 9 + MaxPieces
      BY <2>1, AheadRange, PiecesAssumption DEF Rank
    <2>3. Ahead(req[r]) = 0 <=> req[r].pc = "over"
      BY <2>1, PiecesAssumption DEF Ahead, Pcs, PiecesLeft
    <2>4. QED
      BY <2>2, <2>3
  <1>2. QED
    BY <1>1, TypeCorrect, PTL

=============================================================================
