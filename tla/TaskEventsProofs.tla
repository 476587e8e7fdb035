-------------------------- MODULE TaskEventsProofs --------------------------
(***************************************************************************)
(* Proofs about TaskEvents, for any number of streams and report handlers, *)
(* any subscriber limit and any buffer size.                               *)
(***************************************************************************)
EXTENDS TaskEvents, FiniteSetTheorems, TLAPS

(* The event a report handler is publishing.                               *)
Publishing == {NotPublishing} \cup [pc : {"copy"}, event : ReportStatus]
                \cup [pc : {"send"}, event : ReportStatus, to : SUBSET Stream]

(* The pc of a publication tells which record it is.                       *)
LEMMA PublishingShape ==
    ASSUME NEW q \in Publishing
    PROVE  /\ q.pc = "copy" => q \in [pc : {"copy"}, event : ReportStatus]
           /\ q.pc = "send" => q \in [pc : {"send"}, event : ReportStatus, to : SUBSET Stream]
BY DEF Publishing, NotPublishing

LEMMA SendingShape ==
    ASSUME NEW e \in ReportStatus, NEW to \in SUBSET Stream
    PROVE  Sending(e, to) \in Publishing
BY DEF Sending, Publishing

(* What the SSE handlers and the clean-up goroutine do to the types.       *)
LEMMA StreamTypeStep ==
    ASSUME TypeOK, NEW s \in Stream,
           StreamGet(s) \/ StreamStep(s) \/ Disconnect(s) \/ removeSubscriber(s)
    PROVE  TypeOK'
<1> USE DEF TypeOK
<1>1. CASE StreamGet(s)
  BY <1>1 DEF StreamGet
<1>2. CASE Subscribe(s)
  BY <1>2 DEF Subscribe
<1>3. CASE TooManySubscribers(s)
  BY <1>3 DEF TooManySubscribers, StreamReturn
<1>4. CASE Receive(s)
  <2>1. buffer[s] \in Seq(ReportStatus) /\ buffer[s] # <<>>
    BY <1>4 DEF Receive
  <2>2. Head(buffer[s]) \in ReportStatus /\ Tail(buffer[s]) \in Seq(ReportStatus)
    BY <2>1
  <2>3. Head(buffer[s]) \in Status \cup {"none"}
    BY <2>2 DEF ReportStatus, Status
  <2>4. told' \in [Stream -> Status \cup {"none"}] /\ buffer' \in [Stream -> Seq(ReportStatus)]
    BY <1>4, <2>2, <2>3 DEF Receive
  <2>5. /\ UNCHANGED <<status, subs, open, watching, pub, panicked, events>>
        /\ \/ stream' = [stream EXCEPT ![s] = "over"] /\ cancelled' = cancelled \cup {s}
           \/ UNCHANGED <<stream, cancelled>>
    BY <1>4 DEF Receive, StreamReturn
  <2>6. stream' \in [Stream -> {"none", "read", "live", "over"}] /\ cancelled' \subseteq Stream
    BY <2>5
  <2> QED BY <2>4, <2>5, <2>6
<1>5. CASE StreamEnds(s)
  BY <1>5 DEF StreamEnds, StreamReturn
<1>6. CASE Disconnect(s)
  BY <1>6 DEF Disconnect
<1>7. CASE removeSubscriber(s)
  BY <1>7 DEF removeSubscriber
<1> QED
  BY <1>1, <1>2, <1>3, <1>4, <1>5, <1>6, <1>7 DEF StreamStep

(* What a report handler does to the types while it publishes.             *)
LEMMA PublishTypeStep ==
    ASSUME TypeOK, NEW h \in Publisher,
           (\E new \in ReportStatus : Report_(h, new)) \/ PublishStep(h) \/ PublishCancelled(h)
    PROVE  TypeOK'
<1> USE EventsAssumption
<1>a. pub \in [Publisher -> Publishing] /\ pub[h] \in Publishing
  BY DEF TypeOK, Publishing
<1>b. ASSUME NEW q \in Publishing, pub' = [pub EXCEPT ![h] = q]
      PROVE  pub' \in [Publisher -> Publishing]
  BY <1>a, <1>b
<1>c. ASSUME pub' \in [Publisher -> Publishing],
             UNCHANGED <<subs, open, stream, cancelled, watching, told>>,
             status' \in Status, buffer' \in [Stream -> Seq(ReportStatus)],
             panicked' \in BOOLEAN, events' \in 0..MaxEvents
      PROVE  TypeOK'
  BY <1>c DEF TypeOK, Publishing
<1>1. ASSUME NEW new \in ReportStatus, Report_(h, new) PROVE TypeOK'
  <2>1. [pc |-> "copy", event |-> new] \in Publishing
    BY DEF Publishing
  <2>2. pub' \in [Publisher -> Publishing]
    BY <1>1, <2>1, <1>b DEF Report_
  <2>3. new \in Status /\ events + 1 \in 0..MaxEvents
    BY <1>1 DEF Report_, ReportStatus, Status, TypeOK
  <2> QED BY <1>1, <1>c, <2>2, <2>3 DEF Report_, TypeOK
<1>2. CASE PublishCopy(h)
  <2> DEFINE q == Sending(pub[h].event, subs)
  <2>1. q \in Publishing
    BY <1>2, <1>a, PublishingShape, SendingShape DEF PublishCopy, TypeOK
  <2>2. pub' = [pub EXCEPT ![h] = q]
    BY <1>2, <1>a DEF PublishCopy
  <2> HIDE DEF q
  <2> QED BY <1>2, <1>b, <1>c, <2>1, <2>2 DEF PublishCopy, TypeOK
<1>3. ASSUME NEW s \in Stream, PublishSend(h, s) PROVE TypeOK'
  <2> DEFINE q == Sending(pub[h].event, pub[h].to \ {s})
  <2>0. pub[h] \in [pc : {"send"}, event : ReportStatus, to : SUBSET Stream]
    BY <1>3, <1>a, PublishingShape DEF PublishSend
  <2>1. q \in Publishing /\ NotPublishing \in Publishing
    BY <2>0, SendingShape DEF Publishing
  <2>2. pub' = [pub EXCEPT ![h] = q] \/ pub' = [pub EXCEPT ![h] = NotPublishing]
    BY <1>3, <1>a DEF PublishSend
  <2>3. pub' \in [Publisher -> Publishing]
    <3> HIDE DEF q
    <3> QED BY <1>b, <2>1, <2>2
  <2>4. Append(buffer[s], pub[h].event) \in Seq(ReportStatus)
    BY <2>0 DEF TypeOK
  <2>5. buffer' \in [Stream -> Seq(ReportStatus)]
    BY <1>3, <2>4 DEF PublishSend, TypeOK
  <2> QED BY <1>3, <1>c, <2>3, <2>5 DEF PublishSend, TypeOK
<1>4. CASE PublishCancelled(h)
  <2>1. NotPublishing \in Publishing
    BY DEF Publishing
  <2> QED BY <1>4, <1>b, <1>c, <2>1 DEF PublishCancelled, TypeOK
<1> QED BY <1>1, <1>2, <1>3, <1>4 DEF PublishStep

(* Status, buffers, streams and publications keep their types; a channel   *)
(* only ever holds events a report may carry.                              *)
THEOREM EventsTypeCorrect == Spec => []TypeOK
<1>1. Init => TypeOK
  <2> SUFFICES ASSUME Init PROVE TypeOK
    OBVIOUS
  <2>1. buffer \in [Stream -> Seq(ReportStatus)]
    BY DEF Init
  <2>2. pub \in [Publisher -> {NotPublishing}] /\ 0 \in 0..MaxEvents
    BY EventsAssumption DEF Init
  <2> QED BY <2>1, <2>2 DEF Init, TypeOK, Status
<1>2. TypeOK /\ [Next]_eventVars => TypeOK'
  <2> SUFFICES ASSUME TypeOK, [Next]_eventVars PROVE TypeOK'
    OBVIOUS
  <2>1. CASE Retry
    BY <2>1 DEF Retry, TypeOK, Status
  <2>2. CASE UNCHANGED eventVars
    BY <2>2 DEF eventVars, TypeOK
  <2> QED BY <2>1, <2>2, StreamTypeStep, PublishTypeStep DEF Next
<1> QED BY <1>1, <1>2, PTL DEF Spec

-----------------------------------------------------------------------------
(* SUBSCRIPTIONS                                                           *)

(* The inductive invariant: the property with the finiteness that makes    *)
(* counting meaningful.                                                    *)
SubscriptionInv ==
    /\ SubscriptionsSound
    /\ IsFiniteSet(subs)

LEMMA SubscriptionStep ==
    ASSUME TypeOK, SubscriptionInv, [Next]_eventVars
    PROVE  SubscriptionInv'
<1> USE EventsAssumption DEF SubscriptionInv, SubscriptionsSound
<1>n. Cardinality(subs) \in Nat
  BY FS_CardinalityType
<1>k. ASSUME UNCHANGED <<subs, open, watching>>, cancelled \subseteq cancelled',
             \A s \in Stream : stream'[s] = "live" => stream[s] = "live"
      PROVE  SubscriptionInv'
  BY <1>k
<1>1. ASSUME NEW s \in Stream, Subscribe(s) PROVE SubscriptionInv'
  <2>1. /\ subs' = subs \cup {s} /\ open' = open \cup {s} /\ watching' = watching \cup {s}
        /\ cancelled' = cancelled /\ Cardinality(subs) < maxSubscribers
        /\ \A u \in Stream : u # s => stream'[u] = stream[u]
    BY <1>1 DEF Subscribe, TypeOK
  <2>2. /\ IsFiniteSet(subs \cup {s})
        /\ Cardinality(subs \cup {s}) \in {Cardinality(subs), Cardinality(subs) + 1}
    BY FS_AddElement
  <2>3. IsFiniteSet(subs') /\ Cardinality(subs') <= maxSubscribers
    BY <1>n, <2>1, <2>2
  <2> QED BY <2>1, <2>3
<1>2. ASSUME NEW s \in Stream, removeSubscriber(s) PROVE SubscriptionInv'
  <2>1. /\ subs' = subs \ {s} /\ watching' = watching \ {s} /\ open' = open \ {s}
        /\ s \in cancelled /\ cancelled' = cancelled /\ stream' = stream
    BY <1>2 DEF removeSubscriber
  <2>2. /\ IsFiniteSet(subs \ {s})
        /\ Cardinality(subs \ {s}) \in {Cardinality(subs), Cardinality(subs) - 1}
    BY FS_RemoveElement
  <2>3. IsFiniteSet(subs') /\ Cardinality(subs') <= maxSubscribers
    BY <1>n, <2>1, <2>2
  <2> QED BY <2>1, <2>3
<1>3. ASSUME NEW s \in Stream,
             StreamGet(s) \/ TooManySubscribers(s) \/ Receive(s) \/ StreamEnds(s) \/ Disconnect(s)
      PROVE  SubscriptionInv'
  BY <1>3, <1>k
     DEF StreamGet, TooManySubscribers, Receive, StreamEnds, Disconnect, StreamReturn, TypeOK
<1>4. ASSUME NEW h \in Publisher,
             (\E new \in ReportStatus : Report_(h, new)) \/ PublishStep(h) \/ PublishCancelled(h)
      PROVE  SubscriptionInv'
  BY <1>4, <1>k
     DEF Report_, PublishStep, PublishCopy, PublishSend, PublishCancelled
<1>5. CASE Retry \/ UNCHANGED eventVars
  BY <1>5, <1>k DEF Retry, eventVars
<1> QED BY <1>1, <1>2, <1>3, <1>4, <1>5 DEF Next, StreamStep

(* However subscribing, hanging up, publishing and cleaning up interleave, *)
(* the subscriber list, the open channels and the waiting clean-up         *)
(* goroutines are the same streams, and never more than the limit.         *)
THEOREM SubscriptionsAlwaysSound == Spec => []SubscriptionsSound
<1>1. Init => SubscriptionInv
  BY EventsAssumption, FS_EmptySet DEF Init, SubscriptionInv, SubscriptionsSound
<1>2. TypeOK /\ SubscriptionInv /\ [Next]_eventVars => SubscriptionInv'
  BY SubscriptionStep
<1>3. SubscriptionInv => SubscriptionsSound
  BY DEF SubscriptionInv
<1> QED BY <1>1, <1>2, <1>3, EventsTypeCorrect, PTL DEF Spec
=============================================================================
