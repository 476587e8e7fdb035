------------------------------ MODULE QAStream ------------------------------
(***************************************************************************)
(* Question answering in the gateway, for one conversation: the handler of *)
(* POST /conversations/:id/ask, the goroutine that reads the AI service's  *)
(* event stream (readStream), the goroutine that forwards and collects     *)
(* (stream), and the rows both leave in the messages table.                *)
(*                                                                         *)
(* Every request has two channels between its three goroutines, both       *)
(* bounded.  readStream never waits: it drops an event that finds its      *)
(* channel full.  stream waits, but for the context too.                   *)
(*                                                                         *)
(* An event is abstracted to what the gateway does with it: a "part"       *)
(* (chunk, reasoning or citation: forwarded and collected) or the "end"    *)
(* (done or error: forwarded, the last).  node_start and node_end take the *)
(* same way without being collected and are left out.  Parts are numbered  *)
(* in the order the AI service produced them; a collected answer is the    *)
(* sequence of the numbers.                                                *)
(***************************************************************************)
EXTENDS Naturals, Sequences, FiniteSets, Functions

CONSTANTS
    Ask,        \* requests
    aiBuffer,   \* capacity of the channel StreamQA returns (64)
    outBuffer,  \* capacity of the channel Ask returns (64)
    Socket,     \* bound: written events the client has not read
    MaxParts    \* bound: parts of all answers together

ASSUME QAAssumption ==
    /\ aiBuffer \in Nat \ {0} /\ outBuffer \in Nat \ {0} /\ Socket \in Nat \ {0}
    /\ MaxParts \in Nat

VARIABLES
    rows,       \* the messages of the conversation, oldest first
    deleted,    \* has the conversation been deleted?
    handler,    \* handler[a]: where the HTTP handler of a is
    code,       \* code[a]: the class of the status it answered
    ctx,        \* the requests whose context is done
    reader,     \* reader[a]: the readStream goroutine
    produced,   \* produced[a]: parts the AI service has sent
    ai,         \* ai[a]: the channel from readStream to stream
    pump,       \* pump[a]: the stream goroutine
    held,       \* held[a]: the event stream has taken and not yet forwarded
    answer,     \* answer[a]: the parts collected so far
    out,        \* out[a]: the channel from stream to the handler
    sent,       \* sent[a]: written to the response, not yet read by the client
    dropped,    \* history: the requests that lost an event to a full channel
    unsaved,    \* history: the requests whose answer met a failing insert
    gone        \* the requests whose connection the client has closed

qaVars == <<rows, deleted, handler, code, ctx, reader, produced, ai, pump, held,
            answer, out, sent, dropped, unsaved, gone>>

Event == [kind : {"part"}, n : 1..MaxParts] \cup [kind : {"end"}]
Part(n) == [kind |-> "part", n |-> n]
End == [kind |-> "end"]
NoEvent == [kind |-> "none"]

(* What stream collects of an event.                                       *)
Collected(e) == IF e.kind = "part" THEN <<e.n>> ELSE <<>>

UserRow(a) == [role |-> "user", ask |-> a, parts |-> <<>>]
AssistantRow(a) == [role |-> "assistant", ask |-> a, parts |-> answer[a]]

QATypeOK ==
    /\ rows \in Seq([role : {"user", "assistant"}, ask : Ask, parts : Seq(1..MaxParts)])
    /\ deleted \in BOOLEAN
    /\ handler \in [Ask -> {"none", "arrived", "loaded", "saved", "writing", "returned"}]
    /\ code \in [Ask -> {"none", "ok", "4xx", "5xx"}]
    /\ ctx \subseteq Ask /\ gone \subseteq Ask
    /\ dropped \subseteq Ask /\ unsaved \subseteq Ask
    /\ reader \in [Ask -> {"none", "reading", "over"}]
    /\ produced \in [Ask -> 0..MaxParts]
    /\ ai \in [Ask -> Seq(Event)] /\ out \in [Ask -> Seq(Event)]
    /\ sent \in [Ask -> Seq(Event)]
    /\ pump \in [Ask -> {"none", "taking", "offering", "saving", "over"}]
    /\ held \in [Ask -> Event \cup {NoEvent}]
    /\ answer \in [Ask -> Seq(1..MaxParts)]

QAInit ==
    /\ rows = <<>> /\ deleted = FALSE
    /\ handler = [a \in Ask |-> "none"]
    /\ code = [a \in Ask |-> "none"]
    /\ ctx = {} /\ gone = {} /\ dropped = {} /\ unsaved = {}
    /\ reader = [a \in Ask |-> "none"]
    /\ produced = [a \in Ask |-> 0]
    /\ ai = [a \in Ask |-> <<>>] /\ out = [a \in Ask |-> <<>>]
    /\ sent = [a \in Ask |-> <<>>]
    /\ pump = [a \in Ask |-> "none"]
    /\ held = [a \in Ask |-> NoEvent]
    /\ answer = [a \in Ask |-> <<>>]

-----------------------------------------------------------------------------
(* Ask *)

channels == <<reader, produced, ai, pump, held, answer, out, sent, dropped,
              unsaved>>

(* The request reaches the gateway (the client's step).                    *)
AskArrives(a) ==
    /\ handler[a] = "none"
    /\ handler' = [handler EXCEPT ![a] = "arrived"]
    /\ UNCHANGED <<rows, deleted, code, ctx, gone, channels>>

(* The handler returns: net/http cancels the request's context.            *)
Return(a, status) ==
    /\ handler' = [handler EXCEPT ![a] = "returned"]
    /\ code' = [code EXCEPT ![a] = status]
    /\ ctx' = ctx \cup {a}

(* GetByUUIDAndUserID and loadHistory.                                     *)
AskLoad(a) ==
    /\ handler[a] = "arrived"
    /\ CASE a \in ctx -> Return(a, "5xx")
         [] a \notin ctx /\ deleted -> Return(a, "4xx")
         [] OTHER -> /\ handler' = [handler EXCEPT ![a] = "loaded"]
                     /\ UNCHANGED <<code, ctx>>
    /\ UNCHANGED <<rows, deleted, gone, channels>>

(* saveUserMessageAndTitle, one transaction; it fails on a conversation    *)
(* that was deleted meanwhile (foreign key) and when the context is done.  *)
AskSave(a) ==
    /\ handler[a] = "loaded"
    /\ IF deleted \/ a \in ctx
         THEN Return(a, "5xx") /\ UNCHANGED rows
         ELSE /\ rows' = Append(rows, UserRow(a))
              /\ handler' = [handler EXCEPT ![a] = "saved"]
              /\ UNCHANGED <<code, ctx>>
    /\ UNCHANGED <<deleted, gone, channels>>

(* resolveResourceIDs and StreamQA: on success the two goroutines start.   *)
AskConnect(a) ==
    /\ handler[a] = "saved"
    /\ IF a \in ctx
         THEN Return(a, "5xx") /\ UNCHANGED <<reader, pump>>
         ELSE /\ handler' = [handler EXCEPT ![a] = "writing"]
              /\ code' = [code EXCEPT ![a] = "ok"]
              /\ reader' = [reader EXCEPT ![a] = "reading"]
              /\ pump' = [pump EXCEPT ![a] = "taking"]
              /\ UNCHANGED ctx
    /\ UNCHANGED <<rows, deleted, gone, produced, ai, held, answer, out, sent, dropped,
                   unsaved>>

(* Fault: a query or the transaction of the question fails.                *)
AskDbFails(a) ==
    /\ handler[a] \in {"arrived", "loaded", "saved"}
    /\ Return(a, "5xx")
    /\ UNCHANGED <<rows, deleted, gone, channels>>

(* Fault: the AI service cannot be reached (503) or refuses (its own       *)
(* status).  The question stays in the table without an answer.            *)
AskRefused(a) ==
    /\ handler[a] = "saved"
    /\ \E status \in {"4xx", "5xx"} : Return(a, status)
    /\ UNCHANGED <<rows, deleted, gone, channels>>

-----------------------------------------------------------------------------
(* readStream and flushEvent: the AI service's next event                  *)

flushEvent(a, e) ==
    IF Len(ai[a]) < aiBuffer
      THEN ai' = [ai EXCEPT ![a] = Append(@, e)] /\ UNCHANGED dropped
      ELSE dropped' = dropped \cup {a} /\ UNCHANGED ai

(* Bound: parts of all answers.                                            *)
PartsLeft == FoldFunction(LAMBDA x, y : x + y, 0, produced) < MaxParts

AiSends(a) ==
    /\ reader[a] = "reading" /\ PartsLeft
    /\ produced' = [produced EXCEPT ![a] = @ + 1]
    /\ flushEvent(a, Part(produced[a] + 1))
    /\ UNCHANGED <<rows, deleted, handler, code, ctx, reader, pump, held, answer, out,
                   sent, unsaved, gone>>

(* The last event; the body ends after it and readStream returns, which    *)
(* closes the channel.                                                     *)
AiEnds(a) ==
    /\ reader[a] = "reading"
    /\ flushEvent(a, End)
    /\ reader' = [reader EXCEPT ![a] = "over"]
    /\ UNCHANGED <<rows, deleted, handler, code, ctx, produced, pump, held, answer, out,
                   sent, unsaved, gone>>

(* readStream returns without a terminal event: the context is done, the   *)
(* timeout of StreamQA expires or the connection breaks.                   *)
ReaderReturns(a) ==
    /\ reader[a] = "reading"
    /\ reader' = [reader EXCEPT ![a] = "over"]
    /\ UNCHANGED <<rows, deleted, handler, code, ctx, produced, ai, pump, held, answer,
                   out, sent, dropped, unsaved, gone>>

-----------------------------------------------------------------------------
(* stream *)

streamUnchanged == <<rows, deleted, handler, code, ctx, reader, produced, sent, dropped, unsaved, gone>>

StreamTakes(a) ==
    /\ pump[a] = "taking" /\ ai[a] # <<>>
    /\ held' = [held EXCEPT ![a] = Head(ai[a])]
    /\ ai' = [ai EXCEPT ![a] = Tail(@)]
    /\ pump' = [pump EXCEPT ![a] = "offering"]
    /\ UNCHANGED <<answer, out, streamUnchanged>>

(* Forwarded first, collected then.                                        *)
StreamForwards(a) ==
    /\ pump[a] = "offering" /\ Len(out[a]) < outBuffer
    /\ out' = [out EXCEPT ![a] = Append(@, held[a])]
    /\ answer' = [answer EXCEPT ![a] = @ \o Collected(held[a])]
    /\ held' = [held EXCEPT ![a] = NoEvent]
    /\ pump' = [pump EXCEPT ![a] = IF held[a] = End THEN "saving" ELSE "taking"]
    /\ UNCHANGED <<ai, streamUnchanged>>

(* Mutant: waiting for a place in out, the goroutine ignores the context.  *)
StreamStops_Deaf(a) ==
    /\ pump[a] = "taking"
    /\ a \in ctx \/ (ai[a] = <<>> /\ reader[a] = "over")
    /\ pump' = [pump EXCEPT ![a] = "saving"]
    /\ UNCHANGED <<held, ai, answer, out, streamUnchanged>>

(* The context is done, whatever stream is waiting for, or the channel is  *)
(* closed; an event held then is forgotten.                                *)
StreamStops(a) ==
    /\ \/ pump[a] \in {"taking", "offering"} /\ a \in ctx
       \/ pump[a] = "taking" /\ ai[a] = <<>> /\ reader[a] = "over"
    /\ pump' = [pump EXCEPT ![a] = "saving"]
    /\ held' = [held EXCEPT ![a] = NoEvent]
    /\ UNCHANGED <<ai, answer, out, streamUnchanged>>

saveUnchanged == <<deleted, handler, code, ctx, reader, produced, ai, held, answer, out,
                   sent, dropped, gone>>

(* Mutant: the request's own context is used for the insert.               *)
saveAssistant_RequestContext(a) ==
    /\ pump[a] = "saving"
    /\ pump' = [pump EXCEPT ![a] = "over"]
    /\ rows' = IF answer[a] # <<>> /\ ~deleted /\ a \notin ctx
                 THEN Append(rows, AssistantRow(a)) ELSE rows
    /\ UNCHANGED <<unsaved, saveUnchanged>>

(* Mutant: the branch of the context does not return.                      *)
saveAssistant_NoReturn(a) ==
    /\ pump[a] = "saving"
    /\ pump' = [pump EXCEPT ![a] = IF a \in ctx THEN "taking" ELSE "over"]
    /\ answer[a] # <<>> /\ ~deleted
    /\ rows' = Append(rows, AssistantRow(a))
    /\ UNCHANGED <<unsaved, saveUnchanged>>

(* saveAssistant, with a context of its own, and the deferred close.  An   *)
(* empty answer is not saved.                                              *)
saveAssistant(a) ==
    /\ pump[a] = "saving"
    /\ pump' = [pump EXCEPT ![a] = "over"]
    /\ rows' = IF answer[a] # <<>> /\ ~deleted THEN Append(rows, AssistantRow(a)) ELSE rows
    /\ UNCHANGED <<unsaved, saveUnchanged>>

(* Fault: the insert fails, which is only logged.                          *)
saveAssistantFails(a) ==
    /\ pump[a] = "saving" /\ answer[a] # <<>>
    /\ pump' = [pump EXCEPT ![a] = "over"]
    /\ unsaved' = unsaved \cup {a}
    /\ UNCHANGED <<rows, saveUnchanged>>

-----------------------------------------------------------------------------
(* QASSEHandler.Ask: the loop over the events *)

WriteEvent(a) ==
    /\ handler[a] = "writing" /\ out[a] # <<>> /\ Len(sent[a]) < Socket
    /\ out' = [out EXCEPT ![a] = Tail(@)]
    /\ sent' = [sent EXCEPT ![a] = Append(@, Head(out[a]))]
    /\ UNCHANGED <<rows, deleted, handler, code, ctx, reader, produced, ai, pump, held,
                   answer, dropped, unsaved, gone>>

(* The channel is closed and empty, or the write fails.                    *)
HandlerReturns(a) ==
    /\ handler[a] = "writing"
    /\ (out[a] = <<>> /\ pump[a] = "over") \/ (out[a] # <<>> /\ a \in gone)
    /\ Return(a, "ok")
    /\ UNCHANGED <<rows, deleted, gone, channels>>

(* The server sees that the connection is closed.                          *)
Notice(a) ==
    /\ a \in gone \ ctx
    /\ ctx' = ctx \cup {a}
    /\ UNCHANGED <<rows, deleted, handler, code, gone, channels>>

(* ConversationService.Delete, from another page or device: the messages   *)
(* go with their conversation.                                             *)
DeleteConversation ==
    /\ ~deleted
    /\ deleted' = TRUE /\ rows' = <<>>
    /\ UNCHANGED <<handler, code, ctx, gone, channels>>

RequestStep(a) ==
    \/ AskLoad(a) \/ AskSave(a) \/ AskConnect(a) \/ WriteEvent(a) \/ HandlerReturns(a)
    \/ StreamTakes(a) \/ StreamForwards(a) \/ StreamStops(a) \/ saveAssistant(a)
    \/ Notice(a)

AiStep(a) == AiSends(a) \/ AiEnds(a) \/ ReaderReturns(a)
RequestFault(a) == AskDbFails(a) \/ AskRefused(a) \/ saveAssistantFails(a)
=============================================================================
