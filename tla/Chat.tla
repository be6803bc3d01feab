-------------------------------- MODULE Chat --------------------------------
(***************************************************************************)
(* The exchanges of one conversation: sendMessage and streamMessage, from  *)
(* the controller through the AI provider to the usage log, and the        *)
(* operations on the conversation that overlap with them.                  *)
(*                                                                         *)
(* A step ends where the code awaits I/O.  Node runs everything between    *)
(* two of these without interruption, generators and the SSE loop of the   *)
(* controller included, so the client's abort and the deadline strike only *)
(* while a request waits.  The runtime rejects a fetch, or a read of its   *)
(* body, whose signal is aborted, with an AbortError.                      *)
(*                                                                         *)
(* A pair of messages is one record; an answer is the number of pieces it  *)
(* came in; providers and models of a conversation are left out.           *)
(***************************************************************************)
EXTENDS Naturals, FiniteSets

CONSTANTS
    Requests,    \* the HTTP requests; each comes once
    MaxPieces    \* bound: pieces an answer is streamed in

ASSUME PiecesAssumption == MaxPieces \in Nat

VARIABLES
    conversation,   \* its row of table conversations
    messages,       \* its pairs of messages
    logs,           \* the rows of api_usage_logs of its exchanges
    req             \* what each request is doing, and what came of it

vars == <<conversation, messages, logs, req>>

-----------------------------------------------------------------------------
(* The title is the default, one given by the user, or the prompt of an    *)
(* exchange (which, unlike a user's, is taken never to be the default).    *)
(* version is no column: it counts the writes of the row and of the        *)
(* messages.                                                               *)
Conversation == [title : {"new", "user"} \cup Requests, deleted : BOOLEAN, version : Nat]

Pair == [by : Requests, text : Nat]

Log == [by : Requests, status : {200, 400, 502, 504}]

Ops == {"none", "send", "stream", "rename", "delete"}

(* What a request waits for.  "fetch" is a call whose answer comes whole   *)
(* (fetchJson: sendMessage, and Gemini when streaming), "connect" and      *)
(* "read" are one that is streamed (fetchRaw, iterateSse).                 *)
Pcs == {"idle", "find", "allow", "history", "fetch", "connect", "read",
        "log", "store", "charge", "change", "over"}

Calling == {"fetch", "connect", "read"}

Request ==
    [op : Ops, pc : Pcs,
     fresh : BOOLEAN,    \* the title was the default when it was read
     seen : Nat,         \* the version then
     first : BOOLEAN,    \* the history was empty
     text : Nat,         \* pieces received
     sent : Nat,         \* pieces written to the client
     status : {200, 400, 502, 504},      \* the status of a failure
     aborted : BOOLEAN,  \* abort.signal of the controller
     cut : BOOLEAN,      \* the call to the provider was cut short
     told : {"nothing", "error", "done"}]

Idle == [op |-> "none", pc |-> "idle", fresh |-> FALSE, seen |-> 0, first |-> FALSE,
         text |-> 0, sent |-> 0, status |-> 200, aborted |-> FALSE, cut |-> FALSE,
         told |-> "nothing"]

TypeOK ==
    /\ conversation \in Conversation
    /\ messages \subseteq Pair
    /\ logs \subseteq Log
    /\ req \in [Requests -> Request]

Init ==
    /\ conversation \in [title : {"new", "user"}, deleted : {FALSE}, version : {0}]
    /\ messages = {}
    /\ logs = {}
    /\ req = [r \in Requests |-> Idle]

Goto(r, pc) == req' = [req EXCEPT ![r].pc = pc]

(* The response ends.  After an abort nothing is written any more. *)
Respond(r, what) ==
    req' = [req EXCEPT ![r].pc = "over",
                       ![r].told = IF req[r].aborted THEN "nothing" ELSE what]

-----------------------------------------------------------------------------
Arrive(r, op) ==
    /\ req[r].pc = "idle"
    /\ req' = [req EXCEPT ![r].op = op, ![r].pc = "find"]
    /\ UNCHANGED <<conversation, messages, logs>>

(* Mutant: getOwnedConversation finds a deleted one. *)
FindDeleted(r) ==
    /\ req[r].pc = "find"
    /\ IF req[r].op \in {"rename", "delete"} THEN Goto(r, "change")
       ELSE req' = [req EXCEPT ![r].pc = "allow", ![r].seen = conversation.version,
                               ![r].fresh = conversation.title = "new"]
    /\ UNCHANGED <<conversation, messages, logs>>

(* getOwnedConversation: not of a deleted one. *)
Find(r) ==
    /\ req[r].pc = "find" /\ ~conversation.deleted
    /\ IF req[r].op \in {"rename", "delete"} THEN Goto(r, "change")
       ELSE req' = [req EXCEPT ![r].pc = "allow", ![r].seen = conversation.version,
                               ![r].fresh = conversation.title = "new"]
    /\ UNCHANGED <<conversation, messages, logs>>

(* checkRequestAllowance and resolveChatCredentials. *)
Allow(r) ==
    /\ req[r].pc = "allow"
    /\ Goto(r, "history")
    /\ UNCHANGED <<conversation, messages, logs>>

(* loadRecentMessages, then the provider is called: an unknown one is an   *)
(* error, and a call made after an abort ends at once, without a log.      *)
History(r) ==
    /\ req[r].pc = "history"
    /\ \/ req' = [req EXCEPT ![r].pc = "log", ![r].status = 400]
       \/ /\ ~req[r].aborted
          /\ \E pc \in IF req[r].op = "send" THEN {"fetch"} ELSE {"fetch", "connect"} :
               req' = [req EXCEPT ![r].pc = pc, ![r].first = messages = {}]
       \/ req[r].aborted /\ Respond(r, "error")
    /\ UNCHANGED <<conversation, messages, logs>>

(* A statement before or after the call fails, or refuses the request: the *)
(* conversation is not there, the quota is used up, no provider is active. *)
Refuse(r) ==
    /\ req[r].pc \in {"find", "allow", "history", "store", "change"}
    /\ Respond(r, "error")
    /\ UNCHANGED <<conversation, messages, logs>>

-----------------------------------------------------------------------------
(* The provider. *)

Connected(r) ==
    /\ req[r].pc = "connect"
    /\ Goto(r, "read")
    /\ UNCHANGED <<conversation, messages, logs>>

(* A delta, written to the client as soon as it comes. *)
Piece(r) ==
    /\ req[r].pc = "read" /\ req[r].text < MaxPieces
    /\ req' = [req EXCEPT ![r].text = @ + 1, ![r].sent = @ + 1]
    /\ UNCHANGED <<conversation, messages, logs>>

(* Mutant: the exchange is charged without being stored. *)
AfterAnswerCharge == "charge"

AfterAnswer == "store"

(* The end of the stream, if it held any text.  However it ends, [DONE],   *)
(* after an error event of the provider or without a word, the code takes  *)
(* what has come for the answer.                                           *)
StreamEnds(r) ==
    /\ req[r].pc = "read" /\ req[r].text > 0
    /\ Goto(r, AfterAnswer)
    /\ UNCHANGED <<conversation, messages, logs>>

(* An answer that comes whole. *)
Answer(r) ==
    /\ req[r].pc = "fetch"
    /\ req' = [req EXCEPT ![r].pc = AfterAnswer, ![r].text = 1,
                          ![r].sent = IF req[r].op = "stream" THEN 1 ELSE 0]
    /\ UNCHANGED <<conversation, messages, logs>>

(* The provider refuses, breaks off, or has nothing but blanks to say. *)
ProviderFails(r) ==
    /\ req[r].pc \in Calling
    /\ req' = [req EXCEPT ![r].pc = "log", ![r].status = 502]
    /\ UNCHANGED <<conversation, messages, logs>>

(* Mutant: the reader is cancelled before the body is, so the stream seems *)
(* to have ended.                                                          *)
CutEndsStream(me, status) ==
    IF me.pc = "read"
      THEN [me EXCEPT !.pc = IF me.text > 0 THEN "store" ELSE "log", !.status = 502, !.cut = TRUE]
      ELSE [me EXCEPT !.pc = "log", !.status = status, !.cut = TRUE]

(* A call that is cut short: fetchRaw and fetchJson turn the AbortError    *)
(* into a timeout; while the body is read nothing does, and it is logged   *)
(* as any other failure.                                                   *)
Cut(me, status) ==
    [me EXCEPT !.pc = "log", !.status = IF me.pc = "read" THEN 502 ELSE status, !.cut = TRUE]

(* Mutant: the deadline is disposed of when the response comes. *)
DeadlineToConnect(r) ==
    /\ req[r].pc \in {"fetch", "connect"}
    /\ req' = [req EXCEPT ![r] = Cut(req[r], 504)]
    /\ UNCHANGED <<conversation, messages, logs>>

(* createDeadline: the timer runs until the call is over. *)
Deadline(r) ==
    /\ req[r].pc \in Calling
    /\ req' = [req EXCEPT ![r] = Cut(req[r], 504)]
    /\ UNCHANGED <<conversation, messages, logs>>

(* What an abort makes of a request: a call that has not been answered is  *)
(* over (499, not logged), one being read is cut short, and a request that *)
(* waits for the database does not notice yet.                             *)
Aborted(me) ==
    CASE me.pc \in {"fetch", "connect"} ->
           [me EXCEPT !.aborted = TRUE, !.cut = TRUE, !.pc = "over"]
      [] me.pc = "read" -> Cut([me EXCEPT !.aborted = TRUE], 499)
      [] OTHER          -> [me EXCEPT !.aborted = TRUE]

(* req 'close'; sendMessage does not listen. *)
Abort(r) ==
    /\ req[r].op = "stream" /\ req[r].pc \notin {"idle", "over"} /\ ~req[r].aborted
    /\ req' = [req EXCEPT ![r] = Aborted(req[r])]
    /\ UNCHANGED <<conversation, messages, logs>>

-----------------------------------------------------------------------------
(* safeRecordUsage never throws; the row may be missing after it. *)
SafeRecord(r, status) == logs' \in {logs, logs \cup {[by |-> r, status |-> status]}}

LogFailure(r) ==
    /\ req[r].pc = "log"
    /\ SafeRecord(r, req[r].status)
    /\ Respond(r, "error")
    /\ UNCHANGED <<conversation, messages>>

(* Mutant: whoever finds no messages gives the title. *)
TitleIfFirst(r) == IF req[r].first THEN r ELSE conversation.title

(* shouldAutoTitle, decided by what was read before the call. *)
Title(r) == IF req[r].fresh /\ req[r].first THEN r ELSE conversation.title

(* The transaction: both messages, and the conversation by its id. *)
Store(r) ==
    /\ req[r].pc = "store"
    /\ messages' = messages \cup {[by |-> r, text |-> req[r].text]}
    /\ conversation' = [conversation EXCEPT !.title = Title(r), !.version = @ + 1]
    /\ Goto(r, "charge")
    /\ UNCHANGED logs

Charge(r) ==
    /\ req[r].pc = "charge"
    /\ SafeRecord(r, 200)
    /\ req' = [req EXCEPT ![r].pc = "over",
                          ![r].told = IF req[r].aborted THEN "nothing" ELSE "done",
                          ![r].sent = IF req[r].aborted THEN @ ELSE req[r].text]
    /\ UNCHANGED <<conversation, messages>>

(* updateConversation and deleteConversation, by id; a blank title is the  *)
(* default one.                                                            *)
Change(r) ==
    /\ req[r].pc = "change"
    /\ \/ /\ req[r].op = "rename"
          /\ \E t \in {"new", "user"} :
               conversation' = [conversation EXCEPT !.title = t, !.version = @ + 1]
       \/ /\ req[r].op = "delete"
          /\ conversation' = [conversation EXCEPT !.deleted = TRUE, !.version = @ + 1]
    /\ Respond(r, "done")
    /\ UNCHANGED <<messages, logs>>

(* The server of a request dies; its transaction in progress is rolled back. *)
Die(r) ==
    /\ req[r].pc \notin {"idle", "over"}
    /\ Goto(r, "over")
    /\ UNCHANGED <<conversation, messages, logs>>

-----------------------------------------------------------------------------
(* What the server does of its own once a request has come ... *)
Serve(r) ==
    \/ Find(r) \/ Allow(r) \/ History(r) \/ Refuse(r)
    \/ LogFailure(r) \/ Store(r) \/ Charge(r) \/ Change(r)

(* ... and what is up to the provider and the client. *)
Outside(r) ==
    \/ Connected(r) \/ Piece(r) \/ StreamEnds(r) \/ Answer(r) \/ ProviderFails(r)
    \/ Abort(r) \/ Die(r) \/ \E op \in Ops \ {"none"} : Arrive(r, op)

Next == \E r \in Requests : Serve(r) \/ Deadline(r) \/ Outside(r)

(* The event loop and the database serve a request; timers fire.  Nothing  *)
(* is asked of the provider, or of the client.                             *)
Spec ==
    Init /\ [][Next]_vars /\ \A r \in Requests : WF_vars(Serve(r)) /\ WF_vars(Deadline(r))

-----------------------------------------------------------------------------
(* Properties. *)

IsExchange(r) == req[r].op \in {"send", "stream"}

Kept(r) == \E m \in messages : m.by = r

Charged(r) == [by |-> r, status |-> 200] \in logs

OutcomeOf(r) ==
    [open |-> req[r].pc # "over", answer |-> req[r].text, sent |-> req[r].sent,
     kept |-> Kept(r), charged |-> Charged(r),
     told |-> IF IsExchange(r) THEN req[r].told ELSE "nothing"]

Promise == INSTANCE Exchange WITH
             Exchanges <- Requests, ex <- [r \in Requests |-> OutcomeOf(r)]

(* chat.controller.ts:227, "Failed streams do not consume successful       *)
(* subscription quota": what is stored, charged and told agrees, whoever   *)
(* ends an exchange first and whatever fails in it.                        *)
ImplementsExchange == Promise!Spec

(* An answer that the deadline or the client has cut short is a failure:   *)
(* the part that has come is never stored, charged or reported as done.    *)
CutNeverKept ==
    \A r \in Requests :
      req[r].cut => ~Kept(r) /\ ~Charged(r) /\ req[r].told # "done"

(* An exchange replaces a title that the user or an earlier exchange has   *)
(* given only if it overlapped with them: when nothing has been written    *)
(* since it read the conversation, a title that is there stays.            *)
TitleKept ==
    [][\A r \in Requests :
         /\ Store(r) /\ conversation.title # "new"
         /\ conversation'.title # conversation.title
         => conversation.version # req[r].seen]_vars

(* The messages of an exchange are written by the id of a conversation     *)
(* that may have been deleted while the provider answered: then it was     *)
(* there when the exchange began, and no exchange that begins after a      *)
(* deletion adds to what was deleted.                                      *)
DeletedGrowsOnlyByOverlap ==
    [][\A r \in Requests :
         Store(r) /\ conversation.deleted => conversation.version # req[r].seen]_vars

(* Every request is answered, even if the provider never is heard of again *)
(* or never stops talking: the deadline spans the whole call.              *)
Served == \A r \in Requests : req[r].pc # "idle" ~> req[r].pc = "over"

=============================================================================
