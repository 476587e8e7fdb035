----------------------------- MODULE TaskEvents -----------------------------
(***************************************************************************)
(* Task events: the in-memory broadcaster, the SSE handler and the report  *)
(* handlers that publish, for one task (tasks do not share anything).      *)
(*                                                                         *)
(* Publish copies the subscriber list under the lock and sends after the   *)
(* unlock; a subscription is removed, and its channel closed, by a         *)
(* goroutine that waits for the stream's context.  Each of these is a      *)
(* process here.  An event is abstracted to the status it carries (a       *)
(* progress event carries "running").  The check and the write of a report *)
(* are one step here: TaskGateway is about what happens between them.      *)
(***************************************************************************)
EXTENDS TaskRow, Sequences, FiniteSets

CONSTANTS
    Stream,         \* SSE requests
    Publisher,      \* report handlers
    maxSubscribers, \* defaultMaxSubscribersPerTask (10)
    subscriberBufSize, \* subscriberBufferSize (4)
    MaxEvents,      \* bound: events published in one behaviour
    Hangups         \* who may hang up: clients ("stream"), workers ("report")

ASSUME EventsAssumption ==
    /\ maxSubscribers \in Nat
    /\ subscriberBufSize \in Nat
    /\ MaxEvents \in Nat
    /\ Hangups \subseteq {"stream", "report"}

VARIABLES
    status,     \* the row's status
    subs,       \* the streams subscribed to the task
    buffer,     \* buffer[s]: the events in the channel of s
    open,       \* the channels that are not closed
    stream,     \* stream[s]: where the SSE handler of s is
    cancelled,  \* the streams whose context is done
    watching,   \* the streams whose clean-up goroutine is waiting
    told,       \* told[s]: the last status written to the client
    pub,        \* pub[h]: the event h is publishing and whom it goes to
    panicked,   \* did a report handler panic?
    events      \* events so far

eventVars == <<status, subs, buffer, open, stream, cancelled, watching, told,
               pub, panicked, events>>

NotPublishing == [pc |-> "idle"]
Terminal == {"completed", "failed"}

TypeOK ==
    /\ status \in Status
    /\ subs \subseteq Stream /\ open \subseteq Stream
    /\ cancelled \subseteq Stream /\ watching \subseteq Stream
    /\ buffer \in [Stream -> Seq(ReportStatus)]
    /\ stream \in [Stream -> {"none", "read", "live", "over"}]
    /\ told \in [Stream -> Status \cup {"none"}]
    /\ pub \in [Publisher ->
          {NotPublishing} \cup [pc : {"copy"}, event : ReportStatus]
            \cup [pc : {"send"}, event : ReportStatus, to : SUBSET Stream]]
    /\ panicked \in BOOLEAN
    /\ events \in 0..MaxEvents

Init ==
    /\ status = "pending"
    /\ subs = {} /\ open = {} /\ cancelled = {} /\ watching = {}
    /\ buffer = [s \in Stream |-> <<>>]
    /\ stream = [s \in Stream |-> "none"]
    /\ told = [s \in Stream |-> "none"]
    /\ pub = [h \in Publisher |-> NotPublishing]
    /\ panicked = FALSE
    /\ events = 0

-----------------------------------------------------------------------------
(* TaskSSEHandler.Stream *)

(* The row is read first; told keeps what will be sent as the first event. *)
StreamGet(s) ==
    /\ stream[s] = "none"
    /\ stream' = [stream EXCEPT ![s] = "read"]
    /\ told' = [told EXCEPT ![s] = status]
    /\ UNCHANGED <<status, subs, buffer, open, cancelled, watching, pub, panicked, events>>

(* The handler returns and its deferred cancel runs.                       *)
StreamReturn(s) ==
    /\ stream' = [stream EXCEPT ![s] = "over"]
    /\ cancelled' = cancelled \cup {s}

(* Mutant: the limit is compared with the wrong bound.                     *)
Subscribe_OffByOne(s) ==
    /\ stream[s] = "read"
    /\ Cardinality(subs) <= maxSubscribers
    /\ subs' = subs \cup {s}
    /\ open' = open \cup {s}
    /\ watching' = watching \cup {s}
    /\ stream' = [stream EXCEPT ![s] = "live"]
    /\ UNCHANGED <<status, buffer, cancelled, told, pub, panicked, events>>

(* Subscribe, then the first event is written.                             *)
Subscribe(s) ==
    /\ stream[s] = "read"
    /\ Cardinality(subs) < maxSubscribers
    /\ subs' = subs \cup {s}
    /\ open' = open \cup {s}
    /\ watching' = watching \cup {s}
    /\ stream' = [stream EXCEPT ![s] = "live"]
    /\ UNCHANGED <<status, buffer, cancelled, told, pub, panicked, events>>

TooManySubscribers(s) ==
    /\ stream[s] = "read"
    /\ Cardinality(subs) >= maxSubscribers
    /\ StreamReturn(s)
    /\ UNCHANGED <<status, subs, buffer, open, watching, told, pub, panicked, events>>

(* Mutant: the stream goes on after a terminal event.                      *)
Receive_GoesOn(s) ==
    /\ stream[s] = "live" /\ buffer[s] # <<>>
    /\ told' = [told EXCEPT ![s] = Head(buffer[s])]
    /\ buffer' = [buffer EXCEPT ![s] = Tail(@)]
    /\ UNCHANGED <<status, subs, open, stream, cancelled, watching, pub, panicked, events>>

(* The select of the stream loop takes any ready case: an event ...        *)
Receive(s) ==
    /\ stream[s] = "live" /\ buffer[s] # <<>>
    /\ told' = [told EXCEPT ![s] = Head(buffer[s])]
    /\ buffer' = [buffer EXCEPT ![s] = Tail(@)]
    /\ IF Head(buffer[s]) \in Terminal THEN StreamReturn(s)
                                       ELSE UNCHANGED <<stream, cancelled>>
    /\ UNCHANGED <<status, subs, open, watching, pub, panicked, events>>

(* ... the closed channel, or the context.                                 *)
StreamEnds(s) ==
    /\ stream[s] = "live"
    /\ (buffer[s] = <<>> /\ s \notin open) \/ s \in cancelled
    /\ StreamReturn(s)
    /\ UNCHANGED <<status, subs, buffer, open, watching, told, pub, panicked, events>>

(* The client goes away at any time.                                       *)
Disconnect(s) ==
    /\ "stream" \in Hangups
    /\ stream[s] \in {"read", "live"} /\ s \notin cancelled
    /\ cancelled' = cancelled \cup {s}
    /\ UNCHANGED <<status, subs, buffer, open, stream, watching, told, pub, panicked, events>>

(* Mutant: the channel is closed but stays in the list.                    *)
removeSubscriber_Keep(s) ==
    /\ s \in watching /\ s \in cancelled
    /\ watching' = watching \ {s}
    /\ open' = open \ {s}
    /\ UNCHANGED <<status, subs, buffer, stream, cancelled, told, pub, panicked, events>>

(* The clean-up goroutine of Subscribe.                                    *)
removeSubscriber(s) ==
    /\ s \in watching /\ s \in cancelled
    /\ watching' = watching \ {s}
    /\ subs' = subs \ {s}
    /\ open' = IF s \in subs THEN open \ {s} ELSE open
    /\ UNCHANGED <<status, buffer, stream, cancelled, told, pub, panicked, events>>

-----------------------------------------------------------------------------
(* ProcessInternalStatusUpdate and UpdateProgress, up to the publication.  *)
Report_(h, new) ==
    /\ pub[h] = NotPublishing /\ events < MaxEvents
    /\ canTransition(status, new)
    /\ status' = new
    /\ pub' = [pub EXCEPT ![h] = [pc |-> "copy", event |-> new]]
    /\ events' = events + 1
    /\ UNCHANGED <<subs, buffer, open, stream, cancelled, watching, told, panicked>>

(* A manual retry publishes nothing.                                       *)
Retry ==
    /\ status \in Terminal
    /\ status' = "pending"
    /\ UNCHANGED <<subs, buffer, open, stream, cancelled, watching, told, pub, panicked, events>>

(* The loop of Publish ends when nobody is left to send to.                *)
Sending(event, to) ==
    IF to = {} THEN NotPublishing ELSE [pc |-> "send", event |-> event, to |-> to]

PublishCopy(h) ==
    /\ pub[h].pc = "copy"
    /\ pub' = [pub EXCEPT ![h] = Sending(@.event, subs)]
    /\ UNCHANGED <<status, subs, buffer, open, stream, cancelled, watching, told, panicked, events>>

(* Mutant: the send waits for room instead of dropping the event.          *)
PublishSend_Blocking(h, s) ==
    /\ pub[h].pc = "send" /\ s \in pub[h].to
    /\ Len(buffer[s]) < subscriberBufSize
    /\ buffer' = [buffer EXCEPT ![s] = Append(@, pub[h].event)]
    /\ pub' = [pub EXCEPT ![h] = Sending(@.event, @.to \ {s})]
    /\ UNCHANGED <<status, subs, open, stream, cancelled, watching, told, panicked, events>>

(* One turn of the loop of Publish (in any order: the list is a set here): *)
(* sent if there is room, dropped otherwise; a send on a closed channel    *)
(* panics and the recovery middleware ends the request.                    *)
PublishSend(h, s) ==
    /\ pub[h].pc = "send" /\ s \in pub[h].to
    /\ IF s \in open
       THEN /\ buffer' = IF Len(buffer[s]) < subscriberBufSize
                         THEN [buffer EXCEPT ![s] = Append(@, pub[h].event)]
                         ELSE buffer
            /\ pub' = [pub EXCEPT ![h] = Sending(@.event, @.to \ {s})]
            /\ UNCHANGED panicked
       ELSE /\ pub' = [pub EXCEPT ![h] = NotPublishing]
            /\ panicked' = TRUE
            /\ UNCHANGED buffer
    /\ UNCHANGED <<status, subs, open, stream, cancelled, watching, told, events>>

(* The reporting worker has hung up: Publish returns at its ctx.Done case. *)
PublishCancelled(h) ==
    /\ "report" \in Hangups
    /\ pub[h].pc = "send"
    /\ pub' = [pub EXCEPT ![h] = NotPublishing]
    /\ UNCHANGED <<status, subs, buffer, open, stream, cancelled, watching, told, panicked, events>>

-----------------------------------------------------------------------------
StreamStep(s)  == Subscribe(s) \/ TooManySubscribers(s) \/ Receive(s) \/ StreamEnds(s)
PublishStep(h) == PublishCopy(h) \/ \E s \in Stream : PublishSend(h, s)

Next ==
    \/ \E s \in Stream : StreamGet(s) \/ StreamStep(s) \/ Disconnect(s) \/ removeSubscriber(s)
    \/ \E h \in Publisher :
        \/ \E new \in ReportStatus : Report_(h, new)
        \/ PublishStep(h) \/ PublishCancelled(h)
    \/ Retry

Spec == Init /\ [][Next]_eventVars

(* Goroutines are scheduled, whatever the clients do.                      *)
GatewayFairness ==
    /\ \A h \in Publisher : WF_eventVars(PublishStep(h))
    /\ \A s \in Stream : WF_eventVars(removeSubscriber(s))

FairSpec == Spec /\ GatewayFairness

-----------------------------------------------------------------------------
(* PROPERTIES                                                              *)

(* The broadcaster's bookkeeping: a channel is open exactly as long as it  *)
(* is in the list (an open one outside it would never be closed, a closed  *)
(* one inside it would make every later Publish panic), its clean-up       *)
(* goroutine is then still there to remove it, and the limit holds.        *)
SubscriptionsSound ==
    /\ subs = open
    /\ subs = watching
    /\ Cardinality(subs) <= maxSubscribers
    /\ \A s \in Stream : stream[s] = "live" => s \in subs \/ s \in cancelled

(* Slow or stuck readers never hold up a report handler (the comment in    *)
(* Publish), even if no client ever reads.                                 *)
PublisherNeverBlocked ==
    \A h \in Publisher : (pub[h].pc # "idle") ~> (pub[h].pc = "idle")

(* A stream whose client has gone is removed and its goroutine ends.       *)
SubscriptionReleased ==
    \A s \in Stream : (s \in cancelled /\ s \in watching) ~> (s \notin subs /\ s \notin watching)

ClientsRead == \A s \in Stream : WF_eventVars(StreamStep(s))

(* When the clients read, a terminal event that reached the channel of a   *)
(* live stream ends the stream, whatever is queued before it.              *)
TerminalEventEndsStream ==
    ClientsRead =>
        \A s \in Stream :
            (stream[s] = "live" /\ \E i \in DOMAIN buffer[s] : buffer[s][i] \in Terminal)
                ~> (stream[s] = "over")

(* PRD_S1-7: when the task completes or fails, all its SSE connections are *)
(* closed.  Violated: the handler reads the row, then subscribes, and does *)
(* not look again; a task that ends in between leaves the stream open (as  *)
(* does a terminal event dropped at a full buffer).  See README.           *)
EndedTaskEndsStream ==
    ClientsRead =>
        \A s \in Stream :
            (stream[s] = "live" /\ told[s] \notin Terminal /\ status \in Terminal)
                ~> (stream[s] = "over" \/ status \notin Terminal)

(* The documented test: publishing never panics.                           *)
NoPanic == ~panicked
=============================================================================
