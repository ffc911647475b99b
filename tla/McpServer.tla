----------------------------- MODULE McpServer -----------------------------
(***************************************************************************)
(* The MCP server (mcp/mod.rs, mcp/transport.rs): JSON-RPC requests, one   *)
(* after the other on standard input, or posted to /mcp several at once.   *)
(* What a tool or a resource does is modelled in the other modules; here   *)
(* it ends well or with an error.                                          *)
(***************************************************************************)
EXTENDS Naturals, Sequences

CONSTANT MaxRequests    \* bound on the requests of a session

ASSUME McpServerAssumption == MaxRequests \in Nat

VARIABLES
    inbox,      \* lines written by the client and not read yet
    due,        \* lines read that call for an answer, in order
    replies,    \* what standard output received
    posts,      \* posted requests and their reply, if any yet
    listening,  \* listen has not returned
    requests

mcpServerVars == <<inbox, due, replies, posts, listening, requests>>

(* fixed: initialize, ping and the three lists.  initialized: the method   *)
(* notifications/initialized.  invalid: no method, or not version 2.0.     *)
WellFormed == {"fixed", "tools/call", "resources/read", "unknown"}
Parsed     == WellFormed \cup {"initialized", "invalid"}
Kinds      == Parsed \cup {"oversize", "garbage"}
NoId       == 0
Line       == [kind : Kinds, id : 0 .. MaxRequests]     \* NoId: a notification
Bodies     == {"result", "toolError", "invalidParams", "internalError", "methodNotFound",
               "invalidRequest", "parseError", "bare"}
Reply      == [id : 0 .. MaxRequests, body : Bodies]
Pending    == [id |-> NoId, body |-> "pending"]
NoContent  == [id |-> NoId, body |-> "noContent"]

McpServerTypeOK ==
    /\ \A i \in DOMAIN inbox : inbox[i] \in Line
    /\ \A i \in DOMAIN due : due[i] \in Line
    /\ \A i \in DOMAIN replies : replies[i] \in Reply
    /\ \A p \in posts : p.line \in Line /\ p.reply \in Reply \cup {Pending, NoContent}
    /\ listening \in BOOLEAN /\ requests \in 0 .. MaxRequests

McpServerInit ==
    /\ inbox = <<>> /\ due = <<>> /\ replies = <<>> /\ posts = {}
    /\ listening = TRUE /\ requests = 0

-----------------------------------------------------------------------------
(* handle_request: how a request may end. *)
Outcomes(kind) ==
    CASE kind = "fixed"          -> {"result"}
      [] kind = "tools/call"     -> {"result", "toolError", "invalidParams"}
      [] kind = "resources/read" -> {"result", "invalidParams", "internalError"}
      [] kind = "unknown"        -> {"methodNotFound"}
      [] kind = "initialized"    -> {"bare"}
      [] kind = "invalid"        -> {"invalidRequest"}

(* An Err of handle_request has lost the id, and the answer to             *)
(* notifications/initialized never has one.                                *)
Response(line, body) == [id |-> IF line.kind \in WellFormed THEN line.id ELSE NoId, body |-> body]

(* Mutant: a notification is known by its method. *)
NamedNotification(line) == line.kind = "initialized"

IsNotification(line) == line.kind \in Parsed /\ line.id = NoId

(* What listen writes for a line: nothing for a notification, which is     *)
(* executed all the same.                                                  *)
Written(line) ==
    CASE line.kind = "oversize"  -> {<<[id |-> NoId, body |-> "invalidRequest"]>>}
      [] line.kind = "garbage"   -> {<<[id |-> NoId, body |-> "parseError"]>>}
      [] OTHER -> IF IsNotification(line) THEN {<<>>}
                  ELSE {<<Response(line, b)>> : b \in Outcomes(line.kind)}

(* handle_http_request, http_json_rpc_handler: an Err is answered even to  *)
(* a notification, as an internal error.                                   *)
Answered(line) ==
    CASE line.kind \in {"garbage", "invalid"} -> {[id |-> NoId, body |-> "internalError"]}
      [] OTHER -> IF IsNotification(line) THEN {NoContent}
                  ELSE {Response(line, b) : b \in Outcomes(line.kind)}

-----------------------------------------------------------------------------
(* The client does not wait for an answer before the next request.         *)
ClientWrites ==
    /\ listening /\ requests < MaxRequests
    /\ requests' = requests + 1
    /\ \E kind \in Kinds, id \in {NoId, requests + 1} :
         inbox' = Append(inbox, [kind |-> kind, id |-> id])
    /\ UNCHANGED <<due, replies, posts, listening>>

(* A request has an id; what cannot be parsed may have been one.           *)
CallsForAnswer(line) == line.id # NoId \/ line.kind \in {"oversize", "garbage"}

(* One turn of the loop in listen; a write may fail, which ends it.        *)
Serve ==
    /\ listening /\ inbox # <<>>
    /\ inbox' = Tail(inbox)
    /\ due' = IF CallsForAnswer(Head(inbox)) THEN Append(due, Head(inbox)) ELSE due
    /\ \E out \in Written(Head(inbox)) :
         \/ /\ replies' = replies \o out
            /\ UNCHANGED listening
         \/ /\ out # <<>>
            /\ listening' = FALSE
            /\ UNCHANGED replies
    /\ UNCHANGED <<posts, requests>>

(* End of input with nothing left to read, or a line that is not UTF-8.    *)
StopListening ==
    /\ listening
    /\ listening' = FALSE
    /\ UNCHANGED <<inbox, due, replies, posts, requests>>

ClientPosts ==
    /\ requests < MaxRequests
    /\ requests' = requests + 1
    /\ \E kind \in Kinds \ {"oversize"}, id \in {NoId, requests + 1} :
         posts' = posts \cup {[line |-> [kind |-> kind, id |-> id], reply |-> Pending]}
    /\ UNCHANGED <<inbox, due, replies, listening>>

AnswerPost ==
    \E p \in posts : \E r \in Answered(p.line) :
      /\ p.reply = Pending
      /\ posts' = (posts \ {p}) \cup {[p EXCEPT !.reply = r]}
      /\ UNCHANGED <<inbox, due, replies, listening, requests>>

McpServerNext == ClientWrites \/ Serve \/ StopListening \/ ClientPosts \/ AnswerPost

McpServerSpec == McpServerInit /\ [][McpServerNext]_mcpServerVars

-----------------------------------------------------------------------------
(* Requests are answered once each, in the order in which they were read,  *)
(* each with its id as far as one could be made out, and notifications     *)
(* never, whatever comes between them; only the last answer may be missing *)
(* once the server has stopped (listen).  A posted request is answered     *)
(* with its own id or none.                                                *)
AnsweredOnceInOrder ==
    LET IsAnswer(i) == replies[i].id = IF due[i].kind \in WellFormed THEN due[i].id ELSE NoId
    IN  /\ Len(replies) <= Len(due)
        /\ Len(due) - Len(replies) <= IF listening THEN 0 ELSE 1
        /\ \A i \in DOMAIN replies : IsAnswer(i)
        /\ \A p \in posts : p.reply.id \in {p.line.id, NoId}
=============================================================================
