----------------------------- MODULE ChatClient -----------------------------
(***************************************************************************)
(* The chat page of the client: ChatNotifier and the SSE client behind it  *)
(* (chat_sse_client_default.dart), with the connection to the gateway that *)
(* QAStream models.                                                        *)
(*                                                                         *)
(* A question that is sent gets a StreamController.  Its first POST and    *)
(* every reconnection is a request of its own to the gateway.  Only a      *)
(* failing connect or an answer of 500 and above is tried again; a body    *)
(* that breaks ends with an error and then with its end, which closes the  *)
(* controller.  After the last reconnection the controller polls the       *)
(* message list.  A shown message has the id of the request whose events   *)
(* it took, 0 while it has none; its content is, for every request, the    *)
(* parts of that request's answer appended to it.                          *)
(***************************************************************************)
EXTENDS QAStream

CONSTANTS
    maxReconnectAttempts, \* _maxReconnectAttempts (5)
    MaxTurns              \* bound: questions sent and pages opened anew, together

ASSUME ChatAssumption ==
    /\ 0 \notin Ask
    /\ maxReconnectAttempts \in Nat /\ MaxTurns \in Nat

VARIABLES
    shown,      \* ChatState.messages
    isSending,  \* ChatState.isSending
    ctl,        \* the controller of the question being answered
    load,       \* the load of the page's messages
    sends,      \* questions sent so far
    opens,      \* pages opened anew so far
    origin,     \* history: origin[a], the question that request a carries
    hasty       \* history: was a question sent before the page had loaded?

clientVars == <<shown, isSending, ctl, load, sends, opens, origin, hasty>>

Idle == [phase |-> "idle"]
Connecting(n) == [phase |-> "connecting", attempt |-> n]
Loading == [phase |-> "asked"]
Loaded == [phase |-> "none"]

Message == [role : {"user", "assistant"}, id : Ask \cup {0},
            parts : [Ask -> Seq(1..MaxParts)], streaming : BOOLEAN]

ClientTypeOK ==
    /\ shown \in Seq(Message)
    /\ isSending \in BOOLEAN
    /\ ctl \in {Idle} \cup [phase : {"connecting"}, attempt : 0..maxReconnectAttempts]
            \cup [phase : {"waiting"}, attempt : 0..maxReconnectAttempts, ask : Ask]
            \cup [phase : {"streaming"}, ask : Ask] \cup [phase : {"polling"}]
    /\ load.phase \in {"none", "asked", "served"}
    /\ sends + opens \in 0..MaxTurns
    /\ origin \in [Ask -> 0..MaxTurns] /\ hasty \in BOOLEAN

(* The page of a new conversation, loaded.                                 *)
ClientInit ==
    /\ shown = <<>> /\ isSending = FALSE
    /\ ctl = Idle
    /\ load = Loaded
    /\ sends = 0 /\ opens = 0
    /\ origin = [a \in Ask |-> 0] /\ hasty = FALSE

-----------------------------------------------------------------------------
(* ChatNotifier *)

NoParts == [a \in Ask |-> <<>>]

Map(op(_), seq) == [i \in 1..Len(seq) |-> op(seq[i])]

(* _matchesTarget for an event that carries the id of its request.         *)
matchesTarget(m, a) == m.role = "assistant" /\ m.id \in {a, 0}

(* Mutant: the delta is put before the content.                            *)
appendPart_Swapped(a, n) ==
    LET append(m) == IF matchesTarget(m, a)
                       THEN [m EXCEPT !.id = a, !.parts[a] = <<n>> \o @]
                       ELSE m
    IN Map(append, shown)

(* _appendChunk, _appendReasoning, _appendCitation.                        *)
appendPart(a, n) ==
    LET append(m) == IF matchesTarget(m, a)
                       THEN [m EXCEPT !.id = a, !.parts[a] = Append(@, n)]
                       ELSE m
    IN Map(append, shown)

stopStreaming(messages) ==
    LET stop(m) == [m EXCEPT !.streaming = FALSE]
    IN Map(stop, messages)

(* The controller closes and _stopStreaming runs.                          *)
Close(messages) ==
    /\ ctl' = Idle
    /\ isSending' = FALSE
    /\ shown' = stopStreaming(messages)

HangUp(a) == gone' = gone \cup {a}

Open == ctl.phase \in {"waiting", "streaming"}
DropConnection == IF Open THEN HangUp(ctl.ask) ELSE UNCHANGED gone

serverButGone == <<rows, deleted, handler, code, ctx, channels>>

(* Bound: a question is sent only while requests are left for all of its   *)
(* attempts.                                                               *)
RequestsLeft ==
    Cardinality({a \in Ask : handler[a] = "none"}) > maxReconnectAttempts

(* send: the input bar is disabled while a question is being answered.     *)
Send ==
    /\ ~isSending /\ sends + opens < MaxTurns /\ RequestsLeft
    /\ sends' = sends + 1
    /\ shown' = shown \o <<[role |-> "user", id |-> 0, parts |-> NoParts, streaming |-> FALSE],
                           [role |-> "assistant", id |-> 0, parts |-> NoParts, streaming |-> TRUE]>>
    /\ isSending' = TRUE
    /\ ctl' = Connecting(0)
    /\ hasty' = (hasty \/ load.phase # "none")
    /\ UNCHANGED <<load, opens, origin, qaVars>>

Cancel ==
    /\ isSending
    /\ Close(shown)
    /\ DropConnection
    /\ UNCHANGED <<load, sends, opens, origin, hasty, serverButGone>>

-----------------------------------------------------------------------------
(* ChatSseClientImpl.ask *)

(* The POST leaves, for the next unused request.                           *)
Post(a) ==
    /\ ctl.phase = "connecting"
    /\ \A b \in Ask : b < a => handler[b] # "none"
    /\ AskArrives(a)
    /\ ctl' = [phase |-> "waiting", attempt |-> ctl.attempt, ask |-> a]
    /\ origin' = [origin EXCEPT ![a] = sends]
    /\ UNCHANGED <<shown, isSending, load, sends, opens, hasty>>

(* attemptSse(attempt + 1), after the delay.                               *)
Reconnect ==
    ctl' = IF ctl.attempt + 1 > maxReconnectAttempts THEN [phase |-> "polling"]
                                                      ELSE Connecting(ctl.attempt + 1)

(* Fault: the connect fails, before or after the request has reached the   *)
(* gateway.                                                                *)
ConnectFails ==
    /\ ctl.phase \in {"connecting", "waiting"}
    /\ DropConnection
    /\ Reconnect
    /\ UNCHANGED <<shown, isSending, load, sends, opens, origin, hasty, serverButGone>>

(* The status line arrives.                                                *)
Answered ==
    /\ ctl.phase = "waiting"
    /\ LET status == code[ctl.ask] IN
         \/ /\ status = "ok"
            /\ ctl' = [phase |-> "streaming", ask |-> ctl.ask]
            /\ UNCHANGED <<shown, isSending>>
         \/ status = "4xx" /\ Close(shown)
         \/ status = "5xx" /\ Reconnect /\ UNCHANGED <<shown, isSending>>
    /\ UNCHANGED <<load, sends, opens, origin, hasty, qaVars>>

(* The next event; a terminal one closes the controller.                   *)
Receive ==
    /\ ctl.phase = "streaming" /\ sent[ctl.ask] # <<>>
    /\ LET a == ctl.ask  e == Head(sent[a]) IN
         /\ sent' = [sent EXCEPT ![a] = Tail(@)]
         /\ \/ e.kind = "part" /\ shown' = appendPart(a, e.n) /\ UNCHANGED <<isSending, ctl, gone>>
            \/ e = End /\ Close(shown) /\ HangUp(a)
    /\ UNCHANGED <<load, sends, opens, origin, hasty, rows, deleted, handler, code, ctx, reader,
                   produced, ai, pump, held, answer, out, dropped, unsaved>>

(* Mutant: a body that ends without a terminal event does not close.       *)
BodyEnds_Silent ==
    /\ ctl.phase = "streaming"
    /\ handler[ctl.ask] = "returned" /\ sent[ctl.ask] = <<>>
    /\ HangUp(ctl.ask)
    /\ UNCHANGED <<ctl, isSending, shown, load, sends, opens, origin, hasty, serverButGone>>

(* The end of the body closes the controller, without an error.            *)
BodyEnds ==
    /\ ctl.phase = "streaming"
    /\ handler[ctl.ask] = "returned" /\ sent[ctl.ask] = <<>>
    /\ Close(shown)
    /\ HangUp(ctl.ask)
    /\ UNCHANGED <<load, sends, opens, origin, hasty, serverButGone>>

(* Fault: the body breaks (a pause above receiveTimeout, a lost network).  *)
(* The error starts another attempt, the end of the stream that follows    *)
(* closes the controller and with it that attempt.                         *)
BodyBreaks ==
    /\ ctl.phase = "streaming"
    /\ Close(shown)
    /\ HangUp(ctl.ask)
    /\ UNCHANGED <<load, sends, opens, origin, hasty, serverButGone>>

(* The list's last assistant message is taken for the answer.  The list    *)
(* names its ids differently, so the event has no id and goes to the       *)
(* message that is streaming.                                              *)
Poll ==
    /\ ctl.phase = "polling" /\ ~deleted
    /\ LET answered == {i \in 1..Len(rows) : rows[i].role = "assistant"}
           last == rows[CHOOSE i \in answered : \A j \in answered : j <= i]
           append(m) == IF m.streaming THEN [m EXCEPT !.parts[last.ask] = @ \o last.parts] ELSE m
       IN answered # {} /\ Close(Map(append, shown))
    /\ UNCHANGED <<load, sends, opens, origin, hasty, qaVars>>

-----------------------------------------------------------------------------
(* loadMessages, once for every page *)

LoadServed ==
    /\ load.phase = "asked" /\ ~deleted
    /\ load' = [phase |-> "served", rows |-> rows]
    /\ UNCHANGED <<shown, isSending, ctl, sends, opens, origin, hasty, qaVars>>

(* The result replaces whatever the page shows.                            *)
LoadDone ==
    /\ load.phase = "served"
    /\ LET message(r) == [role |-> r.role, id |-> r.ask, streaming |-> FALSE,
                          parts |-> [NoParts EXCEPT ![r.ask] = r.parts]]
       IN shown' = Map(message, load.rows)
    /\ load' = Loaded
    /\ UNCHANGED <<isSending, ctl, sends, opens, origin, hasty, qaVars>>

(* The list cannot be loaded.                                              *)
LoadFails ==
    /\ load.phase = "asked"
    /\ load' = Loaded
    /\ UNCHANGED <<shown, isSending, ctl, sends, opens, origin, hasty, qaVars>>

(* The user leaves the page (dispose) and comes back to a new one.         *)
Reopen ==
    /\ sends + opens < MaxTurns
    /\ opens' = opens + 1
    /\ shown' = <<>> /\ isSending' = FALSE /\ ctl' = Idle
    /\ load' = Loading
    /\ DropConnection
    /\ hasty' = FALSE
    /\ UNCHANGED <<sends, origin, serverButGone>>

ClientStep ==
    \/ \E a \in Ask : Post(a)
    \/ Answered \/ Receive \/ BodyEnds \/ Poll \/ LoadServed \/ LoadDone \/ LoadFails
User == Send \/ Cancel \/ Reopen
ClientFault == ConnectFails \/ BodyBreaks
=============================================================================
