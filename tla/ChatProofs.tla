----------------------------- MODULE ChatProofs -----------------------------
(***************************************************************************)
(* Proofs about a conversation (Chat), for any number of requests and any  *)
(* capacity of the channels: what a request leaves in the messages table,  *)
(* and what the page shows of it.                                          *)
(***************************************************************************)
EXTENDS Chat, FiniteSetTheorems, WellFoundedInduction, TLAPS

-----------------------------------------------------------------------------
(* TYPES, without the bounds on what the AI service sends                  *)

Ev    == [kind : {"part"}, n : Nat] \cup {End}
Row   == [role : {"user", "assistant"}, ask : Ask, parts : Seq(Nat)]
Shown == [role : {"user", "assistant"}, id : Ask \cup {0}, parts : [Ask -> Seq(Nat)],
          streaming : BOOLEAN]

ServerTypes ==
    /\ rows \in Seq(Row)
    /\ deleted \in BOOLEAN
    /\ handler \in [Ask -> {"none", "arrived", "loaded", "saved", "writing", "returned"}]
    /\ reader \in [Ask -> {"none", "reading", "over"}]
    /\ produced \in [Ask -> Nat]
    /\ ai \in [Ask -> Seq(Ev)] /\ out \in [Ask -> Seq(Ev)] /\ sent \in [Ask -> Seq(Ev)]
    /\ pump \in [Ask -> {"none", "taking", "offering", "saving", "over"}]
    /\ held \in [Ask -> Ev \cup {NoEvent}]
    /\ \A a \in Ask : pump[a] = "offering" => held[a] \in Ev
    /\ answer \in [Ask -> Seq(Nat)]

ClientTypes ==
    /\ shown \in Seq(Shown)
    /\ isSending \in BOOLEAN
    /\ ctl \in {Idle} \cup [phase : {"connecting"}, attempt : Nat]
            \cup [phase : {"waiting"}, attempt : Nat, ask : Ask]
            \cup [phase : {"streaming"}, ask : Ask] \cup [phase : {"polling"}]
    /\ load \in {Loading, Loaded} \cup [phase : {"served"}, rows : Seq(Row)]

-----------------------------------------------------------------------------
(* THE INDUCTIVE INVARIANT                                                 *)

(* The rows of request a among some rows.                                  *)
Mine(rs, role, a) == {i \in 1..Len(rs) : rs[i].role = role /\ rs[i].ask = a}

(* A question is stored on the way to "saved", an answer on the way to     *)
(* "over", each by the one goroutine that gets there.                      *)
RowsInv(a) ==
    /\ handler[a] \in {"none", "arrived", "loaded"} => Mine(rows, "user", a) = {}
    /\ handler[a] \in {"none", "arrived", "loaded", "saved"} => pump[a] = "none"
    /\ pump[a] # "over" => Mine(rows, "assistant", a) = {}
    /\ (handler[a] = "saved" \/ pump[a] # "none") /\ ~deleted => Mine(rows, "user", a) # {}
    /\ \A role \in {"user", "assistant"} : \A i, j \in Mine(rows, role, a) : i = j
    /\ \A i \in Mine(rows, "assistant", a) : \E j \in Mine(rows, "user", a) : j < i
    /\ \A i \in Mine(rows, "user", a) : rows[i].parts = <<>>
    /\ \A i \in Mine(rows, "assistant", a) : rows[i].parts = answer[a]
    /\ pump[a] = "over" /\ answer[a] # <<>> /\ ~deleted /\ a \notin unsaved =>
          Mine(rows, "assistant", a) # {}

(* Before the stream goroutine starts there is nothing to stream.          *)
EmptyInv(a) ==
    pump[a] = "none" =>
        /\ reader[a] = "none" /\ produced[a] = 0 /\ held[a] = NoEvent /\ answer[a] = <<>>
        /\ ai[a] = <<>> /\ out[a] = <<>> /\ sent[a] = <<>>

(* The number of the last part that stream has taken.                      *)
Base(a) == Len(answer[a]) + IF held[a].kind = "part" THEN 1 ELSE 0

(* As long as flushEvent has found room for every event, the parts come    *)
(* out of the channel in the order of their numbers.                       *)
NumbersInv(a) ==
    /\ pump[a] = "taking" => held[a] = NoEvent
    /\ a \notin dropped => \A i \in 1..Len(answer[a]) : answer[a][i] = i
    /\ a \notin dropped /\ pump[a] \in {"taking", "offering"} =>
          /\ held[a].kind = "part" => held[a].n = Len(answer[a]) + 1
          /\ \A i \in 1..Len(ai[a]) : IF ai[a][i].kind = "part" THEN ai[a][i].n = Base(a) + i
                                                                ELSE i = Len(ai[a])
          /\ reader[a] = "reading" =>
                /\ produced[a] = Base(a) + Len(ai[a])
                /\ held[a].kind # "end"
                /\ \A i \in 1..Len(ai[a]) : ai[a][i].kind = "part"

RequestInv(a) == RowsInv(a) /\ EmptyInv(a) /\ NumbersInv(a)

(* Of what stream has forwarded, the client has received k parts and the   *)
(* rest, q, is on its way.                                                 *)
Flow(q, k, collected, isOpen) ==
    /\ \A j \in 1..Len(q) :
          IF q[j].kind = "part" THEN k + j <= Len(collected) /\ collected[k + j] = q[j].n
                                ELSE j = Len(q)
    /\ isOpen => /\ k + Len(q) = Len(collected)
                 /\ \A j \in 1..Len(q) : q[j].kind = "part"

forwarding == {a \in Ask : pump[a] \in {"none", "taking", "offering"}}

OnTheWay(a, k) == Flow(sent[a] \o out[a], k, answer[a], a \in forwarding)

(* A page that had loaded before its first question shows beginnings of    *)
(* answers only; the messages that take the next event have what was       *)
(* received so far, and the one that a poll would complete is empty.       *)
PageInv ==
    /\ load.phase # "none" => ctl = Idle
    /\ ~isSending => ctl = Idle
    /\ \A i \in 1..Len(shown) : \A a \in Ask : IsPrefix(shown[i].parts[a], answer[a])
    /\ ctl.phase = "waiting" =>
          /\ OnTheWay(ctl.ask, 0)
          /\ \A i \in 1..Len(shown) : shown[i].parts[ctl.ask] = <<>>
    /\ ctl.phase = "streaming" =>
          \A i \in 1..Len(shown) :
             matchesTarget(shown[i], ctl.ask) => OnTheWay(ctl.ask, Len(shown[i].parts[ctl.ask]))
    /\ ctl.phase \in {"connecting", "waiting", "polling"} =>
          \A i \in 1..Len(shown) : shown[i].streaming => \A a \in Ask : shown[i].parts[a] = <<>>
    /\ ctl.phase = "idle" => \A i \in 1..Len(shown) : ~shown[i].streaming

LoadInv ==
    load.phase = "served" =>
        \A i \in 1..Len(load.rows) : IsPrefix(load.rows[i].parts, answer[load.rows[i].ask])

ServerInv ==
    /\ deleted => rows = <<>>
    /\ \A a \in Ask : RequestInv(a)

ChatInv == ServerInv /\ LoadInv /\ (~hasty => PageInv)

-----------------------------------------------------------------------------
(* WHAT THE STEPS DO TO THE SERVER                                         *)

LEMMA EventTypes ==
    /\ End \in Ev /\ \A n \in Nat : Part(n) \in Ev /\ Part(n).kind = "part" /\ Part(n).n = n
    /\ \A e \in Ev : /\ e.kind \in {"part", "end"}
                     /\ e.kind = "part" => e.n \in Nat
                     /\ e.kind = "end" <=> e = End
    /\ NoEvent.kind = "none" /\ NoEvent \notin Ev
BY DEF Ev, End, Part, NoEvent

LEMMA AppendType == \A S : \A s \in Seq(S), e \in S : Append(s, e) \in Seq(S)
OBVIOUS

LEMMA CollectedType ==
    ASSUME NEW e \in Ev
    PROVE  /\ Collected(e) \in Seq(Nat)
           /\ e.kind = "part" => Collected(e) = <<e.n>>
           /\ e.kind = "end" => Collected(e) = <<>>
BY EventTypes DEF Collected

(* The client's steps, seen from the server: a request arrives, an event   *)
(* is read, or nothing happens that the server's state tells.              *)
serverCore == <<rows, deleted, reader, produced, ai, pump, held, answer, out, dropped, unsaved>>

ClientSide ==
    /\ UNCHANGED serverCore
    /\ \/ UNCHANGED <<handler, sent>>
       \/ \E a \in Ask : AskArrives(a)
       \/ \E a \in Ask : sent[a] # <<>> /\ sent' = [sent EXCEPT ![a] = Tail(@)] /\ UNCHANGED handler

LEMMA ClientMoves ==
    ASSUME ClientTypes, ClientStep \/ User \/ ClientFault
    PROVE  ClientSide
<1>1. ASSUME NEW a \in Ask, Post(a) PROVE ClientSide
  BY <1>1 DEF Post, AskArrives, ClientSide, serverCore, channels
<1>2. CASE Answered \/ Poll \/ LoadServed \/ LoadDone \/ LoadFails \/ Send
  BY <1>2 DEF Answered, Poll, LoadServed, LoadDone, LoadFails, Send, qaVars, ClientSide, serverCore
<1>3. CASE Receive
  <2>1. ctl.ask \in Ask
    BY <1>3 DEF Receive, ClientTypes, Idle
  <2> QED BY <1>3, <2>1 DEF Receive, ClientSide, serverCore
<1>4. CASE BodyEnds \/ Cancel \/ Reopen \/ ConnectFails \/ BodyBreaks
  BY <1>4 DEF BodyEnds, Cancel, Reopen, ConnectFails, BodyBreaks, serverButGone, channels, ClientSide, serverCore
<1> QED BY <1>1, <1>2, <1>3, <1>4 DEF ClientStep, User, ClientFault

LEMMA ServerTypesStep ==
    ASSUME ServerTypes, ClientTypes, [Next]_chatVars
    PROVE  ServerTypes'
<1> USE DEF ServerTypes
<1>1. ASSUME NEW a \in Ask, AskLoad(a) \/ AskDbFails(a) \/ AskRefused(a) \/ HandlerReturns(a) \/ Notice(a)
      PROVE  ServerTypes'
  BY <1>1 DEF AskLoad, AskDbFails, AskRefused, HandlerReturns, Notice, Return, channels
<1>2. ASSUME NEW a \in Ask, AskSave(a) PROVE ServerTypes'
  <2>1. UserRow(a) \in Row
    BY DEF UserRow, Row
  <2>2. rows' \in Seq(Row)
    <3>1. rows' = rows \/ rows' = Append(rows, UserRow(a))
      BY <1>2 DEF AskSave
    <3> QED BY <2>1, <3>1, AppendType
  <2> QED BY <1>2, <2>2 DEF AskSave, Return, channels
<1>3. ASSUME NEW a \in Ask, AskConnect(a) PROVE ServerTypes'
  BY <1>3 DEF AskConnect, Return
<1>4. ASSUME NEW a \in Ask, WriteEvent(a) PROVE ServerTypes'
  BY <1>4 DEF WriteEvent
<1>5. ASSUME NEW a \in Ask, StreamTakes(a) PROVE ServerTypes'
  BY <1>5 DEF StreamTakes, streamUnchanged
<1>6. ASSUME NEW a \in Ask, StreamForwards(a) PROVE ServerTypes'
  <2>1. Collected(held[a]) \in Seq(Nat)
    BY <1>6, CollectedType DEF StreamForwards
  <2>2. answer' \in [Ask -> Seq(Nat)] /\ out' \in [Ask -> Seq(Ev)] /\ held' \in [Ask -> Ev \cup {NoEvent}]
    BY <1>6, <2>1 DEF StreamForwards
  <2> QED BY <1>6, <2>2 DEF StreamForwards, streamUnchanged
<1>7. ASSUME NEW a \in Ask, StreamStops(a) PROVE ServerTypes'
  BY <1>7 DEF StreamStops, streamUnchanged
<1>8. ASSUME NEW a \in Ask, saveAssistant(a) \/ saveAssistantFails(a) PROVE ServerTypes'
  <2>1. AssistantRow(a) \in Row
    BY DEF AssistantRow, Row
  <2>2. rows' \in Seq(Row)
    <3>1. rows' = rows \/ rows' = Append(rows, AssistantRow(a))
      BY <1>8 DEF saveAssistant, saveAssistantFails
    <3> QED BY <2>1, <3>1, AppendType
  <2> QED BY <1>8, <2>2 DEF saveAssistant, saveAssistantFails, saveUnchanged
<1>9. ASSUME NEW a \in Ask, AiStep(a) PROVE ServerTypes'
  <2>1. produced[a] + 1 \in Nat /\ Part(produced[a] + 1) \in Ev /\ End \in Ev
    BY EventTypes
  <2>2. ASSUME NEW e \in Ev, flushEvent(a, e) PROVE ai' \in [Ask -> Seq(Ev)]
    <3>1. ai' = ai \/ ai' = [ai EXCEPT ![a] = Append(ai[a], e)]
      BY <2>2 DEF flushEvent
    <3>2. Append(ai[a], e) \in Seq(Ev)
      BY AppendType
    <3> QED BY <3>1, <3>2
  <2>3. CASE AiSends(a)
    BY <2>1, <2>2, <2>3 DEF AiSends
  <2>4. CASE AiEnds(a)
    BY <2>1, <2>2, <2>4 DEF AiEnds
  <2>5. CASE ReaderReturns(a)
    BY <2>5 DEF ReaderReturns
  <2> QED BY <1>9, <2>3, <2>4, <2>5 DEF AiStep
<1>10. CASE DeleteConversation
  BY <1>10 DEF DeleteConversation, channels
<1>11. CASE ClientSide
  <2>1. CASE UNCHANGED <<handler, sent>>
    BY <1>11, <2>1 DEF ClientSide, serverCore
  <2>2. ASSUME NEW a \in Ask, AskArrives(a) PROVE ServerTypes'
    BY <2>2 DEF AskArrives, channels
  <2>3. ASSUME NEW a \in Ask, sent[a] # <<>>, sent' = [sent EXCEPT ![a] = Tail(@)], UNCHANGED handler
        PROVE  ServerTypes'
    <3>1. Tail(sent[a]) \in Seq(Ev)
      BY <2>3
    <3> QED BY <1>11, <2>3, <3>1 DEF ClientSide, serverCore
  <2> QED BY <1>11, <2>1, <2>2, <2>3 DEF ClientSide
<1>12. CASE UNCHANGED chatVars
  BY <1>12 DEF chatVars, qaVars
<1> QED
  <2>1. ASSUME NEW a \in Ask, RequestStep(a) PROVE ServerTypes'
    BY <1>1, <1>2, <1>3, <1>4, <1>5, <1>6, <1>7, <1>8, <2>1 DEF RequestStep
  <2>2. ASSUME NEW a \in Ask, RequestFault(a) PROVE ServerTypes'
    BY <1>1, <1>8, <2>2 DEF RequestFault
  <2> QED BY <1>9, <1>10, <1>11, <1>12, <2>1, <2>2, ClientMoves
          DEF Next, Gateway, AiService, Client, Fault

-----------------------------------------------------------------------------
(* THE SERVER KEEPS ITS INVARIANT                                          *)

LEMMA MineAppend ==
    ASSUME NEW rs \in Seq(Row), NEW r \in Row, NEW role, NEW a
    PROVE  /\ Mine(Append(rs, r), role, a)
                = Mine(rs, role, a) \cup (IF r.role = role /\ r.ask = a THEN {Len(rs) + 1} ELSE {})
           /\ \A i \in 1..Len(rs) : Append(rs, r)[i] = rs[i]
           /\ Append(rs, r)[Len(rs) + 1] = r
           /\ Len(rs) \in Nat /\ Mine(rs, role, a) \subseteq 1..Len(rs)
BY DEF Mine

(* What a step may leave alone of request b.                               *)
Same(b) ==
    /\ handler'[b] = handler[b] /\ reader'[b] = reader[b] /\ produced'[b] = produced[b]
    /\ ai'[b] = ai[b] /\ pump'[b] = pump[b] /\ held'[b] = held[b]
    /\ answer'[b] = answer[b] /\ out'[b] = out[b] /\ sent'[b] = sent[b]
    /\ b \in dropped' <=> b \in dropped
    /\ b \in unsaved' <=> b \in unsaved

RowsKept(b) ==
    /\ deleted' = deleted
    /\ \A role \in {"user", "assistant"} : Mine(rows', role, b) = Mine(rows, role, b)
    /\ \A i \in 1..Len(rows) : rows'[i] = rows[i]

LEMMA RequestKept ==
    ASSUME NEW b \in Ask, RequestInv(b), Same(b), RowsKept(b)
    PROVE  RequestInv(b)'
<1>1. RowsInv(b)'
  <2>1. \A role \in {"user", "assistant"} : Mine(rows, role, b) \subseteq 1..Len(rows)
    BY DEF Mine
  <2>2. \A role \in {"user", "assistant"} : \A i \in Mine(rows, role, b) : rows'[i] = rows[i]
    BY <2>1 DEF RowsKept
  <2> QED BY <2>2 DEF RequestInv, RowsInv, Same, RowsKept
<1>2. EmptyInv(b)'
  BY DEF RequestInv, EmptyInv, Same
<1>3. NumbersInv(b)'
  BY DEF RequestInv, NumbersInv, Base, Same
<1> QED BY <1>1, <1>2, <1>3 DEF RequestInv

(* A step of request a, which may append a row of its own.                 *)
OnlyRequest(a) ==
    /\ \A b \in Ask \ {a} : Same(b)
    /\ deleted' = deleted
    /\ \/ rows' = rows
       \/ ~deleted /\ \E r \in Row : r.ask = a /\ rows' = Append(rows, r)

LEMMA ServerFrame ==
    ASSUME ServerTypes, ServerInv, NEW a \in Ask, OnlyRequest(a), RequestInv(a)'
    PROVE  ServerInv'
<1>1. ASSUME NEW b \in Ask, b # a PROVE RequestInv(b)'
  <2>1. RowsKept(b)
    <3>1. CASE rows' = rows
      BY <3>1 DEF OnlyRequest, RowsKept
    <3>2. ASSUME NEW r \in Row, r.ask = a, rows' = Append(rows, r) PROVE RowsKept(b)
      <4>1. rows \in Seq(Row)
        BY DEF ServerTypes
      <4>2. ASSUME NEW role \in {"user", "assistant"} PROVE Mine(rows', role, b) = Mine(rows, role, b)
        <5>1. Mine(Append(rows, r), role, b)
                = Mine(rows, role, b) \cup (IF r.role = role /\ r.ask = b THEN {Len(rows) + 1} ELSE {})
          BY <4>1, MineAppend
        <5> QED BY <1>1, <3>2, <5>1
      <4>3. \A i \in 1..Len(rows) : rows'[i] = rows[i]
        BY <3>2, <4>1, MineAppend
      <4> QED BY <4>2, <4>3 DEF OnlyRequest, RowsKept
    <3> QED BY <3>1, <3>2 DEF OnlyRequest
  <2>2. Same(b) /\ RequestInv(b)
    BY <1>1 DEF OnlyRequest, ServerInv
  <2> QED BY <2>1, <2>2, RequestKept
<1>2. deleted' => rows' = <<>>
  BY DEF OnlyRequest, ServerInv
<1> QED BY <1>1, <1>2 DEF ServerInv

(* The handler: its question is stored once, before the goroutines start.  *)
LEMMA HandlerKeeps ==
    ASSUME ServerTypes, ServerInv, NEW a \in Ask,
           \/ AskArrives(a) \/ AskLoad(a) \/ AskSave(a) \/ AskConnect(a)
           \/ AskDbFails(a) \/ AskRefused(a) \/ HandlerReturns(a) \/ Notice(a)
    PROVE  ServerInv'
<1>a. RequestInv(a)
  BY DEF ServerInv
<1>s. SUFFICES OnlyRequest(a) /\ RequestInv(a)'
  BY ServerFrame
<1>1. ASSUME NEW hc, handler' = [handler EXCEPT ![a] = hc],
             \/ hc = "arrived" /\ handler[a] = "none"
             \/ hc = "loaded" /\ handler[a] = "arrived"
             \/ hc = "returned",
             UNCHANGED <<rows, deleted, channels>>
      PROVE  OnlyRequest(a) /\ RequestInv(a)'
  <2>1. handler'[a] = hc /\ \A b \in Ask \ {a} : handler'[b] = handler[b]
    BY <1>1 DEF ServerTypes
  <2>2. OnlyRequest(a)
    BY <1>1, <2>1 DEF OnlyRequest, Same, channels
  <2>3. RowsInv(a)'
    BY <1>a, <1>1, <2>1 DEF RequestInv, RowsInv, channels
  <2>4. EmptyInv(a)' /\ NumbersInv(a)'
    BY <1>a, <1>1 DEF RequestInv, EmptyInv, NumbersInv, Base, channels
  <2> QED BY <2>2, <2>3, <2>4 DEF RequestInv
<1>2. CASE AskArrives(a) \/ AskLoad(a) \/ AskDbFails(a) \/ AskRefused(a) \/ HandlerReturns(a)
  <2>1. PICK hc : /\ handler' = [handler EXCEPT ![a] = hc]
                  /\ \/ hc = "arrived" /\ handler[a] = "none"
                     \/ hc = "loaded" /\ handler[a] = "arrived"
                     \/ hc = "returned"
    BY <1>2 DEF AskArrives, AskLoad, AskDbFails, AskRefused, HandlerReturns, Return
  <2>2. UNCHANGED <<rows, deleted, channels>>
    BY <1>2 DEF AskArrives, AskLoad, AskDbFails, AskRefused, HandlerReturns
  <2> QED BY <1>1, <2>1, <2>2
<1>3. CASE Notice(a)
  <2>1. UNCHANGED <<rows, deleted, handler, channels>>
    BY <1>3 DEF Notice
  <2>2. Same(a) /\ OnlyRequest(a) /\ RowsKept(a)
    BY <2>1 DEF OnlyRequest, Same, RowsKept, channels
  <2> QED BY <1>a, <2>2, RequestKept
<1>4. CASE AskSave(a)
  <2>1. CASE deleted \/ a \in ctx
    BY <1>1, <1>4, <2>1 DEF AskSave, Return
  <2>2. CASE ~(deleted \/ a \in ctx)
    <3>1. /\ handler[a] = "loaded" /\ rows' = Append(rows, UserRow(a))
          /\ handler' = [handler EXCEPT ![a] = "saved"] /\ UNCHANGED <<deleted, channels>>
      BY <1>4, <2>2 DEF AskSave
    <3>2. PICK r \in Row : r = UserRow(a) /\ r.role = "user" /\ r.ask = a /\ r.parts = <<>>
      <4>1. UserRow(a) \in Row
        BY DEF UserRow, Row
      <4> QED BY <4>1 DEF UserRow
    <3>3. handler'[a] = "saved" /\ \A b \in Ask \ {a} : handler'[b] = handler[b]
      BY <3>1 DEF ServerTypes
    <3>4. OnlyRequest(a)
      BY <2>2, <3>1, <3>2, <3>3 DEF OnlyRequest, Same, channels
    <3>5. /\ Mine(rows, "user", a) = {} /\ Mine(rows, "assistant", a) = {} /\ pump[a] = "none"
          /\ rows \in Seq(Row)
      BY <1>a, <3>1 DEF RequestInv, RowsInv, ServerTypes
    <3>6. Mine(rows', "user", a) = {Len(rows) + 1} /\ rows'[Len(rows) + 1] = r
      BY <3>1, <3>2, <3>5, MineAppend
    <3>7. Mine(rows', "assistant", a) = {}
      BY <3>1, <3>2, <3>5, MineAppend
    <3>8. RowsInv(a)'
      <4>1. pump'[a] = "none"
        BY <3>1, <3>5 DEF channels
      <4>2. \A role \in {"user", "assistant"} : \A i, j \in Mine(rows', role, a) : i = j
        BY <3>6, <3>7
      <4>3. \A i \in Mine(rows', "user", a) : rows'[i].parts = <<>>
        BY <3>2, <3>6
      <4> QED BY <3>3, <3>6, <3>7, <4>1, <4>2, <4>3 DEF RowsInv
    <3>9. EmptyInv(a)' /\ NumbersInv(a)'
      BY <1>a, <3>1 DEF RequestInv, EmptyInv, NumbersInv, Base, channels
    <3> QED BY <3>4, <3>8, <3>9 DEF RequestInv
  <2> QED BY <2>1, <2>2
<1>5. CASE AskConnect(a)
  <2>1. CASE a \in ctx
    BY <1>1, <1>5, <2>1 DEF AskConnect, Return, channels
  <2>2. CASE a \notin ctx
    <3>1. /\ handler[a] = "saved" /\ handler'[a] = "writing" /\ reader'[a] = "reading" /\ pump'[a] = "taking"
          /\ \A b \in Ask \ {a} : /\ handler'[b] = handler[b] /\ reader'[b] = reader[b]
                                  /\ pump'[b] = pump[b]
          /\ UNCHANGED <<rows, deleted, produced, ai, held, answer, out, sent, dropped, unsaved>>
      BY <1>5, <2>2 DEF AskConnect, ServerTypes
    <3>2. OnlyRequest(a)
      BY <3>1 DEF OnlyRequest, Same
    <3>3. pump[a] = "none"
      BY <1>a, <3>1 DEF RequestInv, RowsInv
    <3>4. RowsInv(a)'
      BY <1>a, <3>1, <3>3 DEF RequestInv, RowsInv
    <3>5. /\ produced[a] = 0 /\ held[a] = NoEvent /\ answer[a] = <<>> /\ ai[a] = <<>>
      BY <1>a, <3>3 DEF RequestInv, EmptyInv
    <3>6. EmptyInv(a)'
      BY <3>1 DEF EmptyInv
    <3>7. NumbersInv(a)'
      BY <3>1, <3>5, EventTypes DEF NumbersInv, Base
    <3> QED BY <3>2, <3>4, <3>6, <3>7 DEF RequestInv
  <2> QED BY <2>1, <2>2
<1> QED BY <1>2, <1>3, <1>4, <1>5

(* The stream goroutine and the channels around it.                        *)
LEMMA StreamKeeps ==
    ASSUME ServerTypes, ServerInv, NEW a \in Ask,
           WriteEvent(a) \/ StreamTakes(a) \/ StreamForwards(a) \/ StreamStops(a)
    PROVE  ServerInv'
<1>a. RequestInv(a) /\ pump[a] \in {"none", "taking", "offering", "saving", "over"}
  BY DEF ServerInv, ServerTypes
<1>s. SUFFICES OnlyRequest(a) /\ RequestInv(a)'
  BY ServerFrame
<1>1. CASE WriteEvent(a)
  <2>1. /\ UNCHANGED <<rows, deleted, handler, reader, produced, ai, pump, held, answer, dropped, unsaved>>
        /\ \A b \in Ask \ {a} : out'[b] = out[b] /\ sent'[b] = sent[b]
        /\ out[a] # <<>>
    BY <1>1 DEF WriteEvent, ServerTypes
  <2>2. OnlyRequest(a)
    BY <2>1 DEF OnlyRequest, Same
  <2>3. pump[a] # "none"
    BY <1>a, <2>1 DEF RequestInv, EmptyInv
  <2>4. RequestInv(a)'
    BY <1>a, <2>1, <2>3 DEF RequestInv, RowsInv, EmptyInv, NumbersInv, Base
  <2> QED BY <2>2, <2>4
<1>2. CASE StreamTakes(a)
  <2>1. /\ UNCHANGED <<rows, deleted, handler, reader, produced, sent, dropped, unsaved, answer, out>>
        /\ pump[a] = "taking" /\ pump'[a] = "offering"
        /\ held'[a] = Head(ai[a]) /\ ai'[a] = Tail(ai[a]) /\ ai[a] # <<>> /\ ai[a] \in Seq(Ev)
        /\ \A b \in Ask \ {a} : ai'[b] = ai[b] /\ held'[b] = held[b] /\ pump'[b] = pump[b]
    BY <1>2 DEF StreamTakes, streamUnchanged, ServerTypes
  <2>2. OnlyRequest(a)
    BY <2>1 DEF OnlyRequest, Same
  <2>3. RowsInv(a)' /\ EmptyInv(a)'
    BY <1>a, <2>1 DEF RequestInv, RowsInv, EmptyInv
  <2>4. NumbersInv(a)'
    <3>1. PICK s \in Seq(Ev) : s = ai[a] /\ s # <<>>
      BY <2>1
    <3>2. /\ Len(s) \in Nat /\ Len(s) >= 1 /\ s[1] = Head(s) /\ s[1] \in Ev
          /\ Len(Tail(s)) = Len(s) - 1 /\ \A i \in 1..Len(Tail(s)) : Tail(s)[i] = s[i + 1]
      BY <3>1
    <3>3. PICK k \in Nat : k = Len(answer[a])
      BY DEF ServerTypes
    <3>4. held[a].kind = "none" /\ Base(a) = k
      <4>1. held[a] = NoEvent
        BY <1>a, <2>1 DEF RequestInv, NumbersInv
      <4>2. held[a].kind = "none"
        BY <4>1, EventTypes
      <4> QED BY <3>3, <4>2 DEF Base
    <3>5. PICK b \in Nat : b = Base(a)' /\ b = k + (IF s[1].kind = "part" THEN 1 ELSE 0)
      <4>1. held'[a] = s[1] /\ Len(answer'[a]) = k
        BY <2>1, <3>1, <3>2, <3>3
      <4>2. Base(a)' = k + (IF s[1].kind = "part" THEN 1 ELSE 0)
        BY <4>1 DEF Base
      <4> QED BY <4>2
    <3>6. ASSUME a \notin dropped
          PROVE  /\ s[1].kind = "part" => s[1].n = k + 1
                 /\ \A i \in 1..Len(Tail(s)) :
                       IF Tail(s)[i].kind = "part" THEN Tail(s)[i].n = b + i ELSE i = Len(Tail(s))
                 /\ reader[a] = "reading" =>
                       /\ produced[a] = b + Len(Tail(s)) /\ s[1].kind # "end"
                       /\ \A i \in 1..Len(Tail(s)) : Tail(s)[i].kind = "part"
      <4>1. /\ \A i \in 1..Len(s) : IF s[i].kind = "part" THEN s[i].n = k + i ELSE i = Len(s)
            /\ reader[a] = "reading" => /\ produced[a] = k + Len(s)
                                        /\ \A i \in 1..Len(s) : s[i].kind = "part"
        BY <1>a, <2>1, <3>1, <3>4, <3>6 DEF RequestInv, NumbersInv
      <4>2. PICK m \in Nat : m = Len(s) /\ m >= 1 /\ Len(Tail(s)) = m - 1
        BY <3>2
      <4>3. s[1].kind = "part" \/ m = 1
        <5>1. 1 \in 1..m
          BY <4>2
        <5> QED BY <4>1, <4>2, <5>1
      <4>4. CASE s[1].kind = "part"
        <5>1. b = k + 1 /\ s[1].n = k + 1
          <6>1. 1 \in 1..m
            BY <4>2
          <6> QED BY <3>5, <4>1, <4>2, <4>4, <6>1
        <5>2. ASSUME NEW i \in 1..(m - 1)
              PROVE  /\ IF Tail(s)[i].kind = "part" THEN Tail(s)[i].n = b + i ELSE i = m - 1
                     /\ reader[a] = "reading" => Tail(s)[i].kind = "part"
          <6>1. i + 1 \in 1..m /\ Tail(s)[i] = s[i + 1]
            BY <3>2, <4>2
          <6>2. IF s[i + 1].kind = "part" THEN s[i + 1].n = k + (i + 1) ELSE i + 1 = m
            BY <4>1, <4>2, <6>1
          <6>3. k + (i + 1) = b + i /\ (i + 1 = m => i = m - 1)
            BY <4>2, <5>1
          <6>4. reader[a] = "reading" => s[i + 1].kind = "part"
            BY <4>1, <4>2, <6>1
          <6> QED BY <6>1, <6>2, <6>3, <6>4
        <5>3. reader[a] = "reading" => produced[a] = b + (m - 1)
          BY <4>1, <4>2, <5>1
        <5> QED BY <4>2, <4>4, <5>1, <5>2, <5>3
      <4>5. CASE s[1].kind # "part" /\ m = 1
        <5>1. Len(Tail(s)) = 0 /\ reader[a] # "reading"
          <6>1. 1 \in 1..m
            BY <4>2
          <6> QED BY <4>1, <4>2, <4>5, <6>1
        <5> QED BY <4>5, <5>1
      <4> QED BY <4>3, <4>4, <4>5
    <3>7. held'[a] = s[1] /\ ai'[a] = Tail(s) /\ Len(answer'[a]) = k
      BY <2>1, <3>1, <3>2, <3>3
    <3>8. a \notin dropped' => \A i \in 1..Len(answer'[a]) : answer'[a][i] = i
      BY <1>a, <2>1 DEF RequestInv, NumbersInv
    <3>9. pump'[a] = "offering" /\ (a \notin dropped' <=> a \notin dropped)
          /\ reader'[a] = reader[a] /\ produced'[a] = produced[a]
      BY <2>1
    <3> QED BY <3>5, <3>6, <3>7, <3>8, <3>9 DEF NumbersInv
  <2> QED BY <2>2, <2>3, <2>4 DEF RequestInv
<1>3. CASE StreamStops(a)
  <2>1. /\ UNCHANGED <<rows, deleted, handler, reader, produced, sent, dropped, unsaved, answer, out, ai>>
        /\ pump[a] \in {"taking", "offering"} /\ pump'[a] = "saving"
        /\ \A b \in Ask \ {a} : held'[b] = held[b] /\ pump'[b] = pump[b]
    BY <1>3 DEF StreamStops, streamUnchanged, ServerTypes
  <2>2. OnlyRequest(a)
    BY <2>1 DEF OnlyRequest, Same
  <2>3. RequestInv(a)'
    BY <1>a, <2>1 DEF RequestInv, RowsInv, EmptyInv, NumbersInv
  <2> QED BY <2>2, <2>3
<1>4. CASE StreamForwards(a)
  <2>1. /\ UNCHANGED <<rows, deleted, handler, reader, produced, sent, dropped, unsaved, ai>>
        /\ pump[a] = "offering" /\ held[a] \in Ev /\ answer[a] \in Seq(Nat)
        /\ pump'[a] = (IF held[a] = End THEN "saving" ELSE "taking")
        /\ answer'[a] = answer[a] \o Collected(held[a]) /\ held'[a] = NoEvent
        /\ \A b \in Ask \ {a} : /\ held'[b] = held[b] /\ pump'[b] = pump[b]
                                /\ answer'[b] = answer[b] /\ out'[b] = out[b]
    BY <1>4 DEF StreamForwards, streamUnchanged, ServerTypes
  <2>2. OnlyRequest(a)
    BY <2>1 DEF OnlyRequest, Same
  <2>3. RowsInv(a)' /\ EmptyInv(a)'
    BY <1>a, <2>1 DEF RequestInv, RowsInv, EmptyInv
  <2>4. NumbersInv(a)'
    <3>1. CASE held[a].kind = "end"
      <4>1. held[a] = End /\ Collected(held[a]) = <<>>
        BY <2>1, <3>1, EventTypes, CollectedType
      <4>2. answer[a] \o <<>> = answer[a]
        BY <2>1
      <4>3. pump'[a] = "saving" /\ answer'[a] = answer[a]
        BY <2>1, <4>1, <4>2
      <4> QED BY <1>a, <2>1, <4>3 DEF RequestInv, NumbersInv
    <3>2. CASE held[a].kind = "part"
      <4>1. PICK s \in Seq(Nat) : s = answer[a]
        BY <2>1
      <4>2. PICK n \in Nat : n = held[a].n
        BY <2>1, <3>2, EventTypes
      <4>3. /\ pump'[a] = "taking" /\ answer'[a] = s \o <<n>> /\ held'[a].kind = "none"
        BY <2>1, <3>2, <4>1, <4>2, EventTypes, CollectedType
      <4>4. /\ Len(s) \in Nat /\ Len(s \o <<n>>) = Len(s) + 1 /\ (s \o <<n>>)[Len(s) + 1] = n
            /\ \A i \in 1..Len(s) : (s \o <<n>>)[i] = s[i]
        OBVIOUS
      <4>5. Base(a) = Len(s) + 1 /\ Base(a)' = Len(s) + 1
        BY <3>2, <4>1, <4>3, <4>4 DEF Base
      <4>6. a \notin dropped => n = Len(s) + 1 /\ \A i \in 1..Len(s) : s[i] = i
        BY <1>a, <2>1, <3>2, <4>1, <4>2 DEF RequestInv, NumbersInv
      <4>7. a \notin dropped => \A i \in 1..Len(answer'[a]) : answer'[a][i] = i
        BY <4>3, <4>4, <4>6
      <4> QED BY <1>a, <2>1, <4>3, <4>5, <4>7 DEF RequestInv, NumbersInv
    <3> QED BY <2>1, <3>1, <3>2, EventTypes
  <2> QED BY <2>2, <2>3, <2>4 DEF RequestInv
<1> QED BY <1>1, <1>2, <1>3, <1>4

(* saveAssistant: the answer is stored once, as it was collected.          *)
LEMMA SaveKeeps ==
    ASSUME ServerTypes, ServerInv, NEW a \in Ask, saveAssistant(a) \/ saveAssistantFails(a)
    PROVE  ServerInv'
<1>a. RequestInv(a) /\ rows \in Seq(Row)
  BY DEF ServerInv, ServerTypes
<1>s. SUFFICES OnlyRequest(a) /\ RequestInv(a)'
  BY ServerFrame
<1>1. /\ pump[a] = "saving" /\ pump'[a] = "over" /\ \A b \in Ask \ {a} : pump'[b] = pump[b]
      /\ UNCHANGED <<deleted, handler, reader, produced, ai, held, answer, out, sent, dropped>>
      /\ \A b \in Ask \ {a} : b \in unsaved' <=> b \in unsaved
  BY DEF saveAssistant, saveAssistantFails, saveUnchanged, ServerTypes
<1>2. EmptyInv(a)' /\ NumbersInv(a)'
  BY <1>a, <1>1 DEF RequestInv, EmptyInv, NumbersInv
<1>3. CASE rows' = rows /\ (answer[a] = <<>> \/ deleted \/ a \in unsaved')
  <2>1. OnlyRequest(a)
    BY <1>1, <1>3 DEF OnlyRequest, Same
  <2>2. RowsInv(a)'
    BY <1>a, <1>1, <1>3 DEF RequestInv, RowsInv
  <2> QED BY <1>2, <2>1, <2>2 DEF RequestInv
<1>4. CASE rows' = Append(rows, AssistantRow(a)) /\ answer[a] # <<>> /\ ~deleted
  <2>1. PICK r \in Row : r = AssistantRow(a) /\ r.role = "assistant" /\ r.ask = a /\ r.parts = answer[a]
    <3>1. AssistantRow(a) \in Row
      BY DEF AssistantRow, Row, ServerTypes
    <3> QED BY <3>1 DEF AssistantRow
  <2>2. OnlyRequest(a)
    BY <1>1, <1>4, <2>1 DEF OnlyRequest, Same
  <2>3. Mine(rows, "assistant", a) = {} /\ Mine(rows, "user", a) # {}
    BY <1>a, <1>1, <1>4 DEF RequestInv, RowsInv
  <2>4. /\ Mine(rows', "assistant", a) = {Len(rows) + 1} /\ rows'[Len(rows) + 1] = r
    BY <1>a, <1>4, <2>1, <2>3, MineAppend
  <2>5. /\ Mine(rows', "user", a) = Mine(rows, "user", a) /\ \A i \in 1..Len(rows) : rows'[i] = rows[i]
        /\ Mine(rows, "user", a) \subseteq 1..Len(rows) /\ Len(rows) \in Nat
    <3>1. Mine(Append(rows, r), "user", a)
            = Mine(rows, "user", a) \cup (IF r.role = "user" /\ r.ask = a THEN {Len(rows) + 1} ELSE {})
      BY <1>a, MineAppend
    <3>2. Mine(rows', "user", a) = Mine(rows, "user", a)
      BY <1>4, <2>1, <3>1
    <3> QED BY <1>a, <1>4, <2>1, <3>2, MineAppend
  <2>6. RowsInv(a)'
    <3>1. \A role \in {"user", "assistant"} : \A i, j \in Mine(rows', role, a) : i = j
      BY <1>a, <2>4, <2>5 DEF RequestInv, RowsInv
    <3>2. \A i \in Mine(rows', "assistant", a) : \E j \in Mine(rows', "user", a) : j < i
      BY <2>3, <2>4, <2>5
    <3>3. \A i \in Mine(rows', "user", a) : rows'[i].parts = <<>>
      <4>1. \A i \in Mine(rows, "user", a) : rows[i].parts = <<>>
        BY <1>a DEF RequestInv, RowsInv
      <4> QED BY <2>5, <4>1
    <3>4. \A i \in Mine(rows', "assistant", a) : rows'[i].parts = answer'[a]
      BY <1>1, <2>1, <2>4
    <3>5. handler'[a] \notin {"none", "arrived", "loaded", "saved"}
      BY <1>a, <1>1 DEF RequestInv, RowsInv
    <3>6. Mine(rows', "user", a) # {} /\ Mine(rows', "assistant", a) # {} /\ pump'[a] = "over"
      BY <1>1, <2>3, <2>4, <2>5
    <3> QED BY <3>1, <3>2, <3>3, <3>4, <3>5, <3>6 DEF RowsInv
  <2> QED BY <1>2, <2>2, <2>6 DEF RequestInv
<1> QED BY <1>3, <1>4 DEF saveAssistant, saveAssistantFails

(* readStream: what it flushes continues the numbers in the channel.       *)
LEMMA ReaderKeeps ==
    ASSUME ServerTypes, ServerInv, NEW a \in Ask, AiStep(a)
    PROVE  ServerInv'
<1>a. RequestInv(a) /\ ai[a] \in Seq(Ev) /\ answer[a] \in Seq(Nat) /\ produced[a] \in Nat
  BY DEF ServerInv, ServerTypes
<1>s. SUFFICES OnlyRequest(a) /\ RequestInv(a)'
  BY ServerFrame
<1>1. /\ reader[a] = "reading"
      /\ UNCHANGED <<rows, deleted, handler, pump, held, answer, out, sent, unsaved>>
  BY DEF AiStep, AiSends, AiEnds, ReaderReturns
<1>2. pump[a] # "none"
  BY <1>a, <1>1 DEF RequestInv, EmptyInv
<1>3. \A b \in Ask \ {a} : /\ ai'[b] = ai[b] /\ produced'[b] = produced[b] /\ reader'[b] = reader[b]
                           /\ b \in dropped' <=> b \in dropped
  <2>1. CASE AiSends(a)
    BY <2>1 DEF AiSends, flushEvent, ServerTypes
  <2>2. CASE AiEnds(a)
    BY <2>2 DEF AiEnds, flushEvent, ServerTypes
  <2>3. CASE ReaderReturns(a)
    BY <2>3 DEF ReaderReturns, ServerTypes
  <2> QED BY <2>1, <2>2, <2>3 DEF AiStep
<1>4. OnlyRequest(a)
  BY <1>1, <1>3 DEF OnlyRequest, Same
<1>5. RowsInv(a)' /\ EmptyInv(a)'
  BY <1>a, <1>1, <1>2 DEF RequestInv, RowsInv, EmptyInv
<1>b. Base(a)' = Base(a) /\ Base(a) \in Nat
  <2>1. PICK k \in Nat : k = Len(answer[a])
    BY <1>a
  <2>2. Base(a) \in Nat
    <3>1. CASE held[a].kind = "part"
      BY <2>1, <3>1 DEF Base
    <3>2. CASE held[a].kind # "part"
      BY <2>1, <3>2 DEF Base
    <3> QED BY <3>1, <3>2
  <2>3. Base(a)' = Base(a)
    BY <1>1 DEF Base
  <2> QED BY <2>2, <2>3
<1>6. ASSUME NEW e \in Ev, flushEvent(a, e),
             \/ e.kind = "part" /\ e.n = produced[a] + 1 /\ produced'[a] = produced[a] + 1 /\ UNCHANGED reader
             \/ e.kind = "end" /\ reader'[a] = "over"
      PROVE  NumbersInv(a)'
  <2>1. CASE a \in dropped'
    BY <1>a, <1>1, <2>1 DEF RequestInv, NumbersInv
  <2>2. CASE a \notin dropped'
    <3>1. /\ ai' = [ai EXCEPT ![a] = Append(ai[a], e)] /\ UNCHANGED dropped
      BY <1>6, <2>2 DEF flushEvent
    <3>2. ai'[a] = Append(ai[a], e)
      BY <3>1 DEF ServerTypes
    <3>3. PICK s \in Seq(Ev) : s = ai[a]
      BY <1>a
    <3>4. PICK m \in Nat : m = Len(s)
      OBVIOUS
    <3>5. /\ Len(ai'[a]) = m + 1 /\ ai'[a][m + 1] = e /\ \A i \in 1..m : ai'[a][i] = s[i]
      BY <3>2, <3>3, <3>4
    <3>6. CASE pump[a] \in {"taking", "offering"}
      <4>1. /\ held[a].kind = "part" => held[a].n = Len(answer[a]) + 1
            /\ \A i \in 1..m : s[i].kind = "part" /\ s[i].n = Base(a) + i
            /\ produced[a] = Base(a) + m /\ held[a].kind # "end"
            /\ \A i \in 1..Len(answer[a]) : answer[a][i] = i
            /\ pump[a] = "taking" => held[a] = NoEvent
        BY <1>a, <1>1, <2>2, <3>1, <3>3, <3>4, <3>6 DEF RequestInv, NumbersInv
      <4>2. \A i \in 1..(m + 1) : IF ai'[a][i].kind = "part" THEN ai'[a][i].n = Base(a) + i ELSE i = m + 1
        <5> SUFFICES ASSUME NEW i \in 1..(m + 1)
                     PROVE  IF ai'[a][i].kind = "part" THEN ai'[a][i].n = Base(a) + i ELSE i = m + 1
          OBVIOUS
        <5>1. CASE i \in 1..m
          BY <3>5, <4>1, <5>1
        <5>2. CASE i = m + 1
          <6>1. e.kind = "part" => e.n = Base(a) + (m + 1)
            BY <1>6, <1>b, <4>1
          <6> QED BY <3>5, <5>2, <6>1
        <5> QED BY <5>1, <5>2
      <4>3. reader'[a] = "reading" => /\ produced'[a] = Base(a) + (m + 1)
                                      /\ \A i \in 1..(m + 1) : ai'[a][i].kind = "part"
        <5> SUFFICES ASSUME reader'[a] = "reading"
                     PROVE  /\ produced'[a] = Base(a) + (m + 1)
                            /\ \A i \in 1..(m + 1) : ai'[a][i].kind = "part"
          OBVIOUS
        <5>1. e.kind = "part" /\ produced'[a] = produced[a] + 1
          BY <1>6
        <5>2. produced'[a] = Base(a) + (m + 1)
          BY <1>b, <4>1, <5>1
        <5>3. \A i \in 1..(m + 1) : i = m + 1 \/ i \in 1..m
          OBVIOUS
        <5> QED BY <3>5, <4>1, <5>1, <5>2, <5>3
      <4>4. UNCHANGED <<pump, held, answer, dropped>>
        BY <1>1, <3>1
      <4> QED BY <1>b, <3>5, <4>1, <4>2, <4>3, <4>4 DEF NumbersInv
    <3>7. CASE pump[a] \notin {"taking", "offering"}
      BY <1>a, <1>1, <3>1, <3>7 DEF RequestInv, NumbersInv
    <3> QED BY <3>6, <3>7
  <2> QED BY <2>1, <2>2
<1>7. CASE AiSends(a)
  <2>1. PICK e \in Ev : e = Part(produced[a] + 1) /\ e.kind = "part" /\ e.n = produced[a] + 1
    BY <1>a, EventTypes
  <2>2. flushEvent(a, e) /\ produced'[a] = produced[a] + 1 /\ UNCHANGED reader
    BY <1>7, <2>1 DEF AiSends, ServerTypes
  <2> QED BY <1>4, <1>5, <1>6, <2>1, <2>2 DEF RequestInv
<1>8. CASE AiEnds(a)
  <2>1. End \in Ev /\ End.kind = "end"
    BY EventTypes
  <2>2. flushEvent(a, End) /\ reader'[a] = "over"
    BY <1>8 DEF AiEnds, ServerTypes
  <2> QED BY <1>4, <1>5, <1>6, <2>1, <2>2 DEF RequestInv
<1>9. CASE ReaderReturns(a)
  <2>1. reader'[a] = "over" /\ UNCHANGED <<ai, produced, dropped>>
    BY <1>9 DEF ReaderReturns, ServerTypes
  <2>2. NumbersInv(a)'
    BY <1>a, <1>b, <1>1, <2>1 DEF RequestInv, NumbersInv
  <2> QED BY <1>4, <1>5, <2>2 DEF RequestInv
<1> QED BY <1>7, <1>8, <1>9 DEF AiStep

LEMMA ServerStep ==
    ASSUME ServerTypes, ClientTypes, ServerInv, [Next]_chatVars
    PROVE  ServerInv'
<1>1. ASSUME NEW a \in Ask, RequestStep(a) \/ RequestFault(a) PROVE ServerInv'
  BY <1>1, HandlerKeeps, StreamKeeps, SaveKeeps DEF RequestStep, RequestFault
<1>2. ASSUME NEW a \in Ask, AiStep(a) PROVE ServerInv'
  BY <1>2, ReaderKeeps
<1>3. CASE DeleteConversation
  <2>1. /\ deleted' = TRUE /\ rows' = <<>>
        /\ UNCHANGED <<handler, reader, produced, ai, pump, held, answer, out, sent, dropped, unsaved>>
    BY <1>3 DEF DeleteConversation, channels
  <2>2. \A role, a : Mine(rows', role, a) = {}
    BY <2>1 DEF Mine
  <2>3. ASSUME NEW a \in Ask PROVE RequestInv(a)'
    <3>1. RequestInv(a)
      BY DEF ServerInv
    <3>2. RowsInv(a)'
      BY <2>1, <2>2, <3>1 DEF RequestInv, RowsInv
    <3>3. EmptyInv(a)' /\ NumbersInv(a)'
      BY <2>1, <3>1 DEF RequestInv, EmptyInv, NumbersInv, Base
    <3> QED BY <3>2, <3>3 DEF RequestInv
  <2> QED BY <2>1, <2>3 DEF ServerInv
<1>4. ASSUME UNCHANGED <<serverCore, handler>>,
             \A a \in Ask : sent'[a] = sent[a] \/ sent[a] # <<>>
      PROVE  ServerInv'
  <2>1. UNCHANGED <<rows, deleted, handler, reader, produced, ai, pump, held, answer, out, dropped, unsaved>>
    BY <1>4 DEF serverCore
  <2>2. ASSUME NEW a \in Ask PROVE RequestInv(a)'
    <3>1. RequestInv(a)
      BY DEF ServerInv
    <3>2. EmptyInv(a)'
      BY <1>4, <2>1, <3>1 DEF RequestInv, EmptyInv
    <3>3. RowsInv(a)' /\ NumbersInv(a)'
      BY <2>1, <3>1 DEF RequestInv, RowsInv, NumbersInv, Base
    <3> QED BY <3>2, <3>3 DEF RequestInv
  <2> QED BY <2>1, <2>2 DEF ServerInv
<1>5. CASE ClientSide
  <2>1. CASE UNCHANGED <<handler, sent>>
    BY <1>4, <1>5, <2>1 DEF ClientSide
  <2>2. ASSUME NEW a \in Ask, AskArrives(a) PROVE ServerInv'
    BY <2>2, HandlerKeeps
  <2>3. ASSUME NEW a \in Ask, sent[a] # <<>>, sent' = [sent EXCEPT ![a] = Tail(@)], UNCHANGED handler
        PROVE  ServerInv'
    <3>1. \A b \in Ask : sent'[b] = sent[b] \/ sent[b] # <<>>
      BY <2>3 DEF ServerTypes
    <3> QED BY <1>4, <1>5, <2>3, <3>1 DEF ClientSide
  <2> QED BY <1>5, <2>1, <2>2, <2>3 DEF ClientSide
<1>6. CASE UNCHANGED chatVars
  <2>1. UNCHANGED <<serverCore, handler, sent>>
    BY <1>6 DEF chatVars, qaVars, serverCore
  <2> QED BY <1>4, <2>1
<1> QED BY <1>1, <1>2, <1>3, <1>5, <1>6, ClientMoves DEF Next, Gateway, AiService, Client, Fault

-----------------------------------------------------------------------------
(* SEQUENCES                                                               *)

LEMMA ConcatFacts ==
    ASSUME NEW S, NEW s \in Seq(S), NEW t \in Seq(S)
    PROVE  /\ s \o t \in Seq(S) /\ Len(s) \in Nat /\ Len(t) \in Nat /\ Len(s \o t) = Len(s) + Len(t)
           /\ \A i \in 1..Len(s) : (s \o t)[i] = s[i]
           /\ \A i \in 1..Len(t) : (s \o t)[Len(s) + i] = t[i]
OBVIOUS

LEMMA SeqExtensional ==
    ASSUME NEW S, NEW s \in Seq(S), NEW t \in Seq(S), Len(s) = Len(t),
           \A i \in 1..Len(s) : s[i] = t[i]
    PROVE  s = t
OBVIOUS

(* An index of a concatenation is an index of one of its parts.            *)
LEMMA ConcatIndex ==
    ASSUME NEW m \in Nat, NEW n \in Nat, NEW i \in 1..(m + n)
    PROVE  i \in 1..m \/ \E j \in 1..n : i = m + j
<1>1. CASE i <= m
  BY <1>1
<1>2. CASE i > m
  <2>1. i - m \in 1..n /\ i = m + (i - m)
    BY <1>2
  <2> QED BY <2>1
<1> QED BY <1>1, <1>2

(* Writing moves an event from one channel to the next.                    *)
LEMMA MoveHead ==
    ASSUME NEW S, NEW s \in Seq(S), NEW t \in Seq(S), t # <<>>
    PROVE  Append(s, Head(t)) \o Tail(t) = s \o t
<1>1. PICK u : u = Append(s, Head(t))
  OBVIOUS
<1>2. PICK v : v = Tail(t)
  OBVIOUS
<1>3. PICK m \in Nat, n \in Nat : m = Len(s) /\ n + 1 = Len(t)
  <2>1. Len(s) \in Nat /\ Len(t) \in Nat /\ Len(t) # 0
    OBVIOUS
  <2>2. Len(t) - 1 \in Nat /\ (Len(t) - 1) + 1 = Len(t)
    BY <2>1
  <2> QED BY <2>1, <2>2
<1>4. /\ u \in Seq(S) /\ v \in Seq(S) /\ Len(u) = m + 1 /\ Len(v) = n
      /\ \A i \in 1..m : u[i] = s[i]
      /\ u[m + 1] = t[1] /\ \A i \in 1..n : v[i] = t[i + 1]
  BY <1>1, <1>2, <1>3
<1>5. /\ u \o v \in Seq(S) /\ Len(u \o v) = (m + 1) + n
      /\ \A i \in 1..(m + 1) : (u \o v)[i] = u[i]
      /\ \A i \in 1..n : (u \o v)[(m + 1) + i] = v[i]
  <2>0. u \in Seq(S) /\ v \in Seq(S)
    BY <1>4
  <2>1. /\ u \o v \in Seq(S) /\ Len(u \o v) = Len(u) + Len(v)
        /\ \A i \in 1..Len(u) : (u \o v)[i] = u[i]
        /\ \A i \in 1..Len(v) : (u \o v)[Len(u) + i] = v[i]
    BY <2>0, ConcatFacts
  <2> QED BY <1>4, <2>1
<1>6. /\ s \o t \in Seq(S) /\ Len(s \o t) = m + (n + 1)
      /\ \A i \in 1..m : (s \o t)[i] = s[i]
      /\ \A i \in 1..(n + 1) : (s \o t)[m + i] = t[i]
  <2>1. /\ s \o t \in Seq(S) /\ Len(s \o t) = Len(s) + Len(t)
        /\ \A i \in 1..Len(s) : (s \o t)[i] = s[i]
        /\ \A i \in 1..Len(t) : (s \o t)[Len(s) + i] = t[i]
    BY ConcatFacts
  <2> QED BY <1>3, <2>1
<1>7. ASSUME NEW i \in 1..((m + 1) + n) PROVE (u \o v)[i] = (s \o t)[i]
  <2>1. CASE i \in 1..m
    <3>1. i \in 1..(m + 1)
      BY <2>1
    <3> QED BY <1>4, <1>5, <1>6, <2>1, <3>1
  <2>2. CASE i = m + 1
    <3>1. i \in 1..(m + 1) /\ 1 \in 1..(n + 1)
      BY <2>2
    <3> QED BY <1>4, <1>5, <1>6, <2>2, <3>1
  <2>3. ASSUME NEW j \in 1..n, i = (m + 1) + j PROVE (u \o v)[i] = (s \o t)[i]
    <3>1. j + 1 \in 1..(n + 1) /\ i = m + (j + 1)
      BY <2>3
    <3>2. (s \o t)[m + (j + 1)] = t[j + 1]
      BY <1>6, <3>1
    <3>3. (u \o v)[(m + 1) + j] = t[j + 1]
      BY <1>4, <1>5
    <3> QED BY <2>3, <3>1, <3>2, <3>3
  <2>4. i \in 1..m \/ i = m + 1 \/ \E j \in 1..n : i = (m + 1) + j
    <3>1. m + 1 \in Nat
      OBVIOUS
    <3>2. i \in 1..(m + 1) \/ \E j \in 1..n : i = (m + 1) + j
      BY <3>1, ConcatIndex
    <3> QED BY <3>2
  <2> QED BY <2>1, <2>2, <2>3, <2>4
<1>8. Len(u \o v) = Len(s \o t) /\ \A i \in 1..Len(u \o v) : (u \o v)[i] = (s \o t)[i]
  BY <1>5, <1>6, <1>7
<1>9. u \o v = s \o t
  BY <1>5, <1>6, <1>8, SeqExtensional
<1> QED BY <1>1, <1>2, <1>9

LEMMA AppendConcat ==
    ASSUME NEW S, NEW s \in Seq(S), NEW t \in Seq(S), NEW e \in S
    PROVE  s \o Append(t, e) = Append(s \o t, e)
<1>1. PICK u : u = Append(t, e)
  OBVIOUS
<1>2. PICK v : v = s \o t
  OBVIOUS
<1>3. PICK m \in Nat, n \in Nat : m = Len(s) /\ n = Len(t)
  OBVIOUS
<1>4. /\ u \in Seq(S) /\ Len(u) = n + 1 /\ u[n + 1] = e /\ \A i \in 1..n : u[i] = t[i]
  BY <1>1, <1>3
<1>5. /\ v \in Seq(S) /\ Len(v) = m + n
      /\ \A i \in 1..m : v[i] = s[i]
      /\ \A i \in 1..n : v[m + i] = t[i]
  <2>1. /\ s \o t \in Seq(S) /\ Len(s \o t) = Len(s) + Len(t)
        /\ \A i \in 1..Len(s) : (s \o t)[i] = s[i]
        /\ \A i \in 1..Len(t) : (s \o t)[Len(s) + i] = t[i]
    BY ConcatFacts
  <2> QED BY <1>2, <1>3, <2>1
<1>6. PICK x : x = Append(v, e)
  OBVIOUS
<1>7. /\ x \in Seq(S) /\ Len(x) = (m + n) + 1 /\ x[(m + n) + 1] = e
      /\ \A i \in 1..(m + n) : x[i] = v[i]
  BY <1>5, <1>6
<1>8. /\ s \o u \in Seq(S) /\ Len(s \o u) = m + (n + 1)
      /\ \A i \in 1..m : (s \o u)[i] = s[i]
      /\ \A i \in 1..(n + 1) : (s \o u)[m + i] = u[i]
  <2>0. u \in Seq(S)
    BY <1>4
  <2>1. /\ s \o u \in Seq(S) /\ Len(s \o u) = Len(s) + Len(u)
        /\ \A i \in 1..Len(s) : (s \o u)[i] = s[i]
        /\ \A i \in 1..Len(u) : (s \o u)[Len(s) + i] = u[i]
    BY <2>0, ConcatFacts
  <2> QED BY <1>3, <1>4, <2>1
<1>9. ASSUME NEW i \in 1..(m + (n + 1)) PROVE (s \o u)[i] = x[i]
  <2>1. CASE i \in 1..m
    <3>1. i \in 1..(m + n)
      BY <2>1
    <3> QED BY <1>5, <1>7, <1>8, <2>1, <3>1
  <2>2. ASSUME NEW j \in 1..(n + 1), i = m + j PROVE (s \o u)[i] = x[i]
    <3>1. CASE j = n + 1
      <4>1. i = (m + n) + 1
        BY <2>2, <3>1
      <4>2. (s \o u)[m + j] = u[j]
        BY <1>8
      <4> QED BY <1>4, <1>7, <2>2, <3>1, <4>1, <4>2
    <3>2. CASE j \in 1..n
      <4>1. i \in 1..(m + n)
        BY <2>2, <3>2
      <4>2. (s \o u)[m + j] = u[j] /\ u[j] = t[j] /\ v[m + j] = t[j]
        BY <1>4, <1>5, <1>8, <3>2
      <4> QED BY <1>7, <2>2, <4>1, <4>2
    <3>3. j = n + 1 \/ j \in 1..n
      OBVIOUS
    <3> QED BY <3>1, <3>2, <3>3
  <2>3. n + 1 \in Nat
    OBVIOUS
  <2>4. i \in 1..m \/ \E j \in 1..(n + 1) : i = m + j
    BY <2>3, ConcatIndex
  <2> QED BY <2>1, <2>2, <2>4
<1>10. Len(s \o u) = Len(x) /\ \A i \in 1..Len(s \o u) : (s \o u)[i] = x[i]
  BY <1>7, <1>8, <1>9
<1>11. s \o u = x
  BY <1>7, <1>8, <1>10, SeqExtensional
<1> QED BY <1>1, <1>2, <1>6, <1>11

LEMMA TailConcat ==
    ASSUME NEW S, NEW s \in Seq(S), NEW t \in Seq(S), s # <<>>
    PROVE  /\ Tail(s) \o t = Tail(s \o t) /\ s \o t # <<>> /\ Head(s \o t) = Head(s)
<1>1. PICK u : u = Tail(s)
  OBVIOUS
<1>2. PICK v : v = s \o t
  OBVIOUS
<1>3. PICK m \in Nat, n \in Nat : m + 1 = Len(s) /\ n = Len(t)
  <2>1. Len(s) \in Nat /\ Len(t) \in Nat /\ Len(s) # 0
    OBVIOUS
  <2>2. Len(s) - 1 \in Nat /\ (Len(s) - 1) + 1 = Len(s)
    BY <2>1
  <2> QED BY <2>1, <2>2
<1>4. u \in Seq(S) /\ Len(u) = m /\ \A i \in 1..m : u[i] = s[i + 1]
  BY <1>1, <1>3
<1>5. /\ v \in Seq(S) /\ Len(v) = (m + 1) + n
      /\ \A i \in 1..(m + 1) : v[i] = s[i]
      /\ \A i \in 1..n : v[(m + 1) + i] = t[i]
  <2>1. /\ s \o t \in Seq(S) /\ Len(s \o t) = Len(s) + Len(t)
        /\ \A i \in 1..Len(s) : (s \o t)[i] = s[i]
        /\ \A i \in 1..Len(t) : (s \o t)[Len(s) + i] = t[i]
    BY ConcatFacts
  <2> QED BY <1>2, <1>3, <2>1
<1>6. v # <<>> /\ Head(v) = Head(s)
  <2>1. Len(v) # 0 /\ 1 \in 1..(m + 1)
    BY <1>5
  <2>2. v[1] = s[1]
    BY <1>5, <2>1
  <2> QED BY <1>5, <2>1, <2>2
<1>7. PICK x : x = Tail(v)
  OBVIOUS
<1>8. x \in Seq(S) /\ Len(x) = m + n /\ \A i \in 1..(m + n) : x[i] = v[i + 1]
  BY <1>5, <1>6, <1>7
<1>9. /\ u \o t \in Seq(S) /\ Len(u \o t) = m + n
      /\ \A i \in 1..m : (u \o t)[i] = u[i]
      /\ \A i \in 1..n : (u \o t)[m + i] = t[i]
  <2>0. u \in Seq(S)
    BY <1>4
  <2>1. /\ u \o t \in Seq(S) /\ Len(u \o t) = Len(u) + Len(t)
        /\ \A i \in 1..Len(u) : (u \o t)[i] = u[i]
        /\ \A i \in 1..Len(t) : (u \o t)[Len(u) + i] = t[i]
    BY <2>0, ConcatFacts
  <2> QED BY <1>3, <1>4, <2>1
<1>10. ASSUME NEW i \in 1..(m + n) PROVE (u \o t)[i] = x[i]
  <2>1. CASE i \in 1..m
    <3>1. i + 1 \in 1..(m + 1)
      BY <2>1
    <3> QED BY <1>4, <1>5, <1>8, <1>9, <2>1, <3>1
  <2>2. ASSUME NEW j \in 1..n, i = m + j PROVE (u \o t)[i] = x[i]
    <3>1. i + 1 = (m + 1) + j
      BY <2>2
    <3>2. (u \o t)[m + j] = t[j] /\ v[(m + 1) + j] = t[j]
      BY <1>5, <1>9
    <3> QED BY <1>8, <2>2, <3>1, <3>2
  <2> QED BY <2>1, <2>2, ConcatIndex
<1>11. Len(u \o t) = Len(x) /\ \A i \in 1..Len(u \o t) : (u \o t)[i] = x[i]
  BY <1>8, <1>9, <1>10
<1>12. u \o t = x
  BY <1>8, <1>9, <1>11, SeqExtensional
<1> QED BY <1>1, <1>2, <1>6, <1>7, <1>12

LEMMA PrefixFacts ==
    /\ \A s \in Seq(Nat) : IsPrefix(<<>>, s) /\ IsPrefix(s, s)
    /\ \A s \in Seq(Nat) : IsPrefix(s, <<>>) => s = <<>>
    /\ \A s, t, u \in Seq(Nat) : IsPrefix(s, t) /\ IsPrefix(t, u) => IsPrefix(s, u)
    /\ \A s, t \in Seq(Nat) : IsPrefix(s, s \o t)
<1>1. \A s \in Seq(Nat) : IsPrefix(<<>>, s) /\ IsPrefix(s, s)
  BY DEF IsPrefix
<1>2. \A s \in Seq(Nat) : IsPrefix(s, <<>>) => s = <<>>
  BY DEF IsPrefix
<1>3. ASSUME NEW s \in Seq(Nat), NEW t \in Seq(Nat), NEW u \in Seq(Nat), IsPrefix(s, t), IsPrefix(t, u)
      PROVE  IsPrefix(s, u)
  <2>1. Len(s) \in Nat /\ Len(t) \in Nat /\ Len(u) \in Nat
    OBVIOUS
  <2>2. 1..Len(s) \subseteq 1..Len(t)
    BY <1>3, <2>1 DEF IsPrefix
  <2> QED BY <1>3, <2>1, <2>2 DEF IsPrefix
<1>4. \A s, t \in Seq(Nat) : IsPrefix(s, s \o t)
  BY DEF IsPrefix
<1> QED BY <1>1, <1>2, <1>3, <1>4

-----------------------------------------------------------------------------
(* THE PAGE'S OPERATORS                                                    *)

LEMMA FunctionIsSeq ==
    ASSUME NEW S, NEW n \in Nat, NEW f \in [1..n -> S]
    PROVE  f \in Seq(S) /\ Len(f) = n
OBVIOUS

(* A set of positions has a last one.                                      *)
LEMMA LastExists ==
    ASSUME NEW n \in Nat, NEW T, T \subseteq 1..n, T # {}
    PROVE  \E i \in T : \A j \in T : j <= i
<1>1. PICK R : R = OpToRel(<, Nat)
  OBVIOUS
<1>2. IsWellFoundedOn(R, Nat)
  BY <1>1, NatLessThanWellFounded
<1>3. \A x, y \in Nat : x < y => <<x, y>> \in R
  BY <1>1 DEF OpToRel
<1>4. PICK U : U = {n - i : i \in T}
  OBVIOUS
<1>5. U \subseteq Nat /\ U # {}
  <2>1. \A i \in T : n - i \in Nat
    OBVIOUS
  <2>2. PICK i : i \in T
    OBVIOUS
  <2>3. n - i \in U
    BY <1>4, <2>2
  <2> QED BY <1>4, <2>1, <2>3
<1>6. PICK x \in U : \A y \in U : ~(<<y, x>> \in R)
  BY <1>2, <1>5, WFMin
<1>7. PICK i \in T : x = n - i
  BY <1>4, <1>6
<1>8. ASSUME NEW j \in T PROVE j <= i
  <2>1. n - j \in U /\ n - j \in Nat /\ n - i \in Nat
    BY <1>4, <1>5
  <2>2. ~(n - j < n - i)
    BY <1>3, <1>6, <1>7, <2>1
  <2>3. i \in Int /\ j \in Int
    OBVIOUS
  <2> QED BY <2>2, <2>3
<1> QED BY <1>8

LEMMA StopStreamingFacts ==
    ASSUME NEW ms \in Seq(Shown)
    PROVE  /\ stopStreaming(ms) \in Seq(Shown) /\ Len(stopStreaming(ms)) = Len(ms)
           /\ \A i \in 1..Len(ms) : /\ stopStreaming(ms)[i].parts = ms[i].parts
                                    /\ ~stopStreaming(ms)[i].streaming
<1>1. PICK f : f = stopStreaming(ms)
  OBVIOUS
<1>2. f = [i \in 1..Len(ms) |-> [ms[i] EXCEPT !.streaming = FALSE]]
  BY <1>1 DEF stopStreaming, Map
<1>3. ASSUME NEW i \in 1..Len(ms)
      PROVE  f[i] \in Shown /\ f[i].parts = ms[i].parts /\ f[i].streaming = FALSE
  <2>1. ms[i] \in Shown
    OBVIOUS
  <2>2. f[i] = [ms[i] EXCEPT !.streaming = FALSE]
    BY <1>2
  <2> QED BY <2>1, <2>2 DEF Shown
<1>4. f \in [1..Len(ms) -> Shown] /\ Len(ms) \in Nat
  <2>1. f = [i \in 1..Len(ms) |-> f[i]]
    BY <1>2, Zenon
  <2>2. \A i \in 1..Len(ms) : f[i] \in Shown
    BY <1>3
  <2> QED BY <2>1, <2>2
<1>5. f \in Seq(Shown) /\ Len(f) = Len(ms)
  BY <1>4, FunctionIsSeq
<1> QED BY <1>1, <1>3, <1>5

LEMMA AppendPartFacts ==
    ASSUME shown \in Seq(Shown), NEW a \in Ask, NEW n \in Nat
    PROVE  /\ appendPart(a, n) \in Seq(Shown) /\ Len(appendPart(a, n)) = Len(shown)
           /\ \A i \in 1..Len(shown) :
                 /\ \A b \in Ask \ {a} : appendPart(a, n)[i].parts[b] = shown[i].parts[b]
                 /\ ~matchesTarget(shown[i], a) => appendPart(a, n)[i] = shown[i]
                 /\ matchesTarget(shown[i], a) =>
                       appendPart(a, n)[i].parts[a] = Append(shown[i].parts[a], n)
                 /\ matchesTarget(appendPart(a, n)[i], a) => matchesTarget(shown[i], a)
<1>1. PICK f : f = appendPart(a, n)
  OBVIOUS
<1>2. f = [i \in 1..Len(shown) |-> IF matchesTarget(shown[i], a)
                                     THEN [shown[i] EXCEPT !.id = a, !.parts[a] = Append(@, n)]
                                     ELSE shown[i]]
  BY <1>1 DEF appendPart, Map
<1>3. ASSUME NEW i \in 1..Len(shown)
      PROVE  /\ f[i] \in Shown
             /\ \A b \in Ask \ {a} : f[i].parts[b] = shown[i].parts[b]
             /\ ~matchesTarget(shown[i], a) => f[i] = shown[i]
             /\ matchesTarget(shown[i], a) => f[i].parts[a] = Append(shown[i].parts[a], n)
             /\ matchesTarget(f[i], a) => matchesTarget(shown[i], a)
  <2>1. PICK m \in Shown : m = shown[i]
    OBVIOUS
  <2>2. CASE matchesTarget(m, a)
    <3>1. PICK p \in [Ask -> Seq(Nat)] : p = m.parts
      BY DEF Shown
    <3>2. PICK q : q = [p EXCEPT ![a] = Append(p[a], n)]
      OBVIOUS
    <3>3. q \in [Ask -> Seq(Nat)] /\ q[a] = Append(p[a], n) /\ \A b \in Ask \ {a} : q[b] = p[b]
      <4>1. Append(p[a], n) \in Seq(Nat)
        BY AppendType
      <4> QED BY <3>2, <4>1
    <3>4. f[i] = [m EXCEPT !.id = a, !.parts = q]
      BY <1>2, <2>1, <2>2, <3>1, <3>2
    <3>5. f[i] \in Shown /\ f[i].parts = q
      BY <2>2, <3>3, <3>4 DEF Shown
    <3> QED BY <2>1, <2>2, <3>1, <3>3, <3>5
  <2>3. CASE ~matchesTarget(m, a)
    BY <1>2, <2>1, <2>3
  <2> QED BY <2>2, <2>3
<1>4. f \in [1..Len(shown) -> Shown] /\ Len(shown) \in Nat
  <2>1. f = [i \in 1..Len(shown) |-> f[i]]
    BY <1>2, Zenon
  <2>2. \A i \in 1..Len(shown) : f[i] \in Shown
    BY <1>3
  <2> QED BY <2>1, <2>2
<1>5. f \in Seq(Shown) /\ Len(f) = Len(shown)
  BY <1>4, FunctionIsSeq
<1> QED BY <1>1, <1>3, <1>5

LEMMA PollFacts ==
    ASSUME rows \in Seq(Row), shown \in Seq(Shown), Poll
    PROVE  \E r \in Row, ms \in Seq(Shown) :
              /\ \E i \in 1..Len(rows) : r = rows[i]
              /\ r.role = "assistant" /\ Close(ms) /\ Len(ms) = Len(shown)
              /\ \A i \in 1..Len(shown) :
                    /\ ~shown[i].streaming => ms[i].parts = shown[i].parts
                    /\ \A a \in Ask \ {r.ask} : ms[i].parts[a] = shown[i].parts[a]
                    /\ shown[i].streaming => ms[i].parts[r.ask] = shown[i].parts[r.ask] \o r.parts
<1> DEFINE answered == {i \in 1..Len(rows) : rows[i].role = "assistant"}
           last == CHOOSE i \in answered : \A j \in answered : j <= i
           completed(x) ==
               [i \in 1..Len(shown) |->
                  IF shown[i].streaming
                    THEN [shown[i] EXCEPT !.parts[rows[x].ask] = @ \o rows[x].parts]
                    ELSE shown[i]]
<1>1. answered # {} /\ Close(completed(last))
  BY DEF Poll, Map
<1>2. PICK k : k = last
  OBVIOUS
<1>3. PICK f : f = completed(k)
  OBVIOUS
<1>4. Close(f)
  <2> HIDE DEF answered, last, completed
  <2> QED BY <1>1, <1>2, <1>3
<1>5. k \in answered
  <2>1. Len(rows) \in Nat /\ answered \subseteq 1..Len(rows)
    OBVIOUS
  <2>2. \E i \in answered : \A j \in answered : j <= i
    <3> HIDE DEF answered, last, completed
    <3> QED BY <1>1, <2>1, LastExists
  <2> QED BY <1>2, <2>2, Zenon
<1>6. PICK r \in Row : r = rows[k] /\ r.role = "assistant"
  BY <1>5
<1>7. r.ask \in Ask /\ r.parts \in Seq(Nat)
  BY DEF Row
<1>8. ASSUME NEW i \in 1..Len(shown)
      PROVE  /\ f[i] \in Shown
             /\ ~shown[i].streaming => f[i].parts = shown[i].parts
             /\ \A a \in Ask \ {r.ask} : f[i].parts[a] = shown[i].parts[a]
             /\ shown[i].streaming => f[i].parts[r.ask] = shown[i].parts[r.ask] \o r.parts
  <2>1. PICK m \in Shown : m = shown[i]
    OBVIOUS
  <2>2. CASE m.streaming
    <3>1. PICK p \in [Ask -> Seq(Nat)] : p = m.parts
      BY DEF Shown
    <3>2. PICK q : q = [p EXCEPT ![r.ask] = p[r.ask] \o r.parts]
      OBVIOUS
    <3>3. /\ q \in [Ask -> Seq(Nat)] /\ q[r.ask] = p[r.ask] \o r.parts
          /\ \A b \in Ask \ {r.ask} : q[b] = p[b]
      <4>1. p[r.ask] \o r.parts \in Seq(Nat)
        BY <1>7
      <4> QED BY <1>7, <3>2, <4>1
    <3>4. f[i] = [m EXCEPT !.parts = q]
      BY <1>3, <1>6, <2>1, <2>2, <3>1, <3>2
    <3>5. f[i] \in Shown /\ f[i].parts = q
      BY <2>2, <3>3, <3>4 DEF Shown
    <3> QED BY <2>1, <2>2, <3>1, <3>3, <3>5
  <2>3. CASE ~m.streaming
    BY <1>3, <2>1, <2>3
  <2> QED BY <2>2, <2>3
<1>9. f \in [1..Len(shown) -> Shown] /\ Len(shown) \in Nat
  <2>1. f = [i \in 1..Len(shown) |-> f[i]]
    BY <1>3, Zenon
  <2>2. \A i \in 1..Len(shown) : f[i] \in Shown
    BY <1>8
  <2> QED BY <2>1, <2>2
<1>10. f \in Seq(Shown) /\ Len(f) = Len(shown)
  BY <1>9, FunctionIsSeq
<1>11. k \in 1..Len(rows)
  BY <1>5
<1> QED BY <1>4, <1>6, <1>8, <1>10, <1>11

LEMMA LoadFacts ==
    ASSUME ClientTypes, LoadDone
    PROVE  /\ shown' \in Seq(Shown) /\ Len(shown') = Len(load.rows) /\ load.rows \in Seq(Row)
           /\ \A i \in 1..Len(load.rows) :
                 /\ ~shown'[i].streaming
                 /\ \A a \in Ask : shown'[i].parts[a] =
                       IF a = load.rows[i].ask THEN load.rows[i].parts ELSE <<>>
<1>1. PICK rs \in Seq(Row) : rs = load.rows
  <2>0. load.phase = "served"
    BY DEF LoadDone
  <2>1. load \in [phase : {"served"}, rows : Seq(Row)]
    BY <2>0 DEF ClientTypes, Loading, Loaded
  <2> QED BY <2>1
<1>2. PICK f : f = [i \in 1..Len(rs) |->
                     [role |-> rs[i].role, id |-> rs[i].ask, streaming |-> FALSE,
                      parts |-> [NoParts EXCEPT ![rs[i].ask] = rs[i].parts]]]
  OBVIOUS
<1>3. shown' = f
  BY <1>1, <1>2 DEF LoadDone, Map
<1>4. ASSUME NEW i \in 1..Len(rs)
      PROVE  /\ f[i] \in Shown /\ f[i].streaming = FALSE
             /\ \A a \in Ask : f[i].parts[a] = IF a = rs[i].ask THEN rs[i].parts ELSE <<>>
  <2>1. PICK r \in Row : r = rs[i]
    OBVIOUS
  <2>2. PICK q : q = [NoParts EXCEPT ![r.ask] = r.parts]
    OBVIOUS
  <2>3. q \in [Ask -> Seq(Nat)] /\ \A a \in Ask : q[a] = IF a = r.ask THEN r.parts ELSE <<>>
    <3>1. r.ask \in Ask /\ r.parts \in Seq(Nat) /\ <<>> \in Seq(Nat)
      BY DEF Row
    <3> QED BY <2>2, <3>1 DEF NoParts
  <2>4. f[i] = [role |-> r.role, id |-> r.ask, streaming |-> FALSE, parts |-> q]
    BY <1>2, <2>1, <2>2
  <2>5. f[i] \in Shown /\ f[i].streaming = FALSE /\ f[i].parts = q
    BY <2>3, <2>4 DEF Shown, Row
  <2> QED BY <2>1, <2>3, <2>5
<1>5. f \in [1..Len(rs) -> Shown] /\ Len(rs) \in Nat
  <2>1. f = [i \in 1..Len(rs) |-> f[i]]
    BY <1>2, Zenon
  <2>2. \A i \in 1..Len(rs) : f[i] \in Shown
    BY <1>4
  <2> QED BY <2>1, <2>2
<1>6. f \in Seq(Shown) /\ Len(f) = Len(rs)
  BY <1>5, FunctionIsSeq
<1> QED BY <1>1, <1>3, <1>4, <1>6

LEMMA SendFacts ==
    ASSUME ClientTypes, Send
    PROVE  /\ shown' \in Seq(Shown)
           /\ \A i \in 1..Len(shown') : \/ i \in 1..Len(shown) /\ shown'[i] = shown[i]
                                        \/ \A a \in Ask : shown'[i].parts[a] = <<>>
<1>1. PICK u : u = [role |-> "user", id |-> 0, parts |-> NoParts, streaming |-> FALSE]
  OBVIOUS
<1>2. PICK m : m = [role |-> "assistant", id |-> 0, parts |-> NoParts, streaming |-> TRUE]
  OBVIOUS
<1>3. NoParts \in [Ask -> Seq(Nat)] /\ \A a \in Ask : NoParts[a] = <<>>
  BY DEF NoParts
<1>4. u \in Shown /\ m \in Shown /\ u.parts = NoParts /\ m.parts = NoParts
  BY <1>1, <1>2, <1>3 DEF Shown
<1>5. shown \in Seq(Shown)
  BY DEF ClientTypes
<1>6. PICK n \in Nat : n = Len(shown)
  BY <1>5
<1>7. PICK t : t = <<u, m>>
  OBVIOUS
<1>8. t \in Seq(Shown) /\ Len(t) = 2 /\ t[1] = u /\ t[2] = m
  BY <1>4, <1>7
<1>9. shown' = shown \o t
  BY <1>1, <1>2, <1>7 DEF Send
<1>10. /\ shown \o t \in Seq(Shown) /\ Len(shown \o t) = n + 2
       /\ \A i \in 1..n : (shown \o t)[i] = shown[i]
       /\ \A i \in 1..2 : (shown \o t)[n + i] = t[i]
  <2>1. t \in Seq(Shown)
    BY <1>8
  <2>2. /\ shown \o t \in Seq(Shown) /\ Len(shown \o t) = Len(shown) + Len(t)
        /\ \A i \in 1..Len(shown) : (shown \o t)[i] = shown[i]
        /\ \A i \in 1..Len(t) : (shown \o t)[Len(shown) + i] = t[i]
    BY <1>5, <2>1, ConcatFacts
  <2> QED BY <1>6, <1>8, <2>2
<1>11. ASSUME NEW i \in 1..(n + 2)
       PROVE  (i \in 1..n /\ shown'[i] = shown[i]) \/ \A a \in Ask : shown'[i].parts[a] = <<>>
  <2>1. CASE i \in 1..n
    BY <1>9, <1>10, <2>1
  <2>2. ASSUME NEW j \in 1..2, i = n + j PROVE \A a \in Ask : shown'[i].parts[a] = <<>>
    <3>1. shown'[i] = t[j] /\ (t[j] = u \/ t[j] = m)
      BY <1>8, <1>9, <1>10, <2>2
    <3> QED BY <1>3, <1>4, <3>1
  <2>3. 2 \in Nat
    OBVIOUS
  <2>4. i \in 1..n \/ \E j \in 1..2 : i = n + j
    BY <2>3, ConcatIndex
  <2> QED BY <2>1, <2>2, <2>4
<1> QED BY <1>6, <1>9, <1>10, <1>11

-----------------------------------------------------------------------------
(* TYPES OF THE PAGE, AND WHAT IS PROVED OF THE SERVER                     *)

LEMMA ClientTypesStep ==
    ASSUME ServerTypes, ClientTypes, [Next]_chatVars
    PROVE  ClientTypes'
<1>a. rows \in Seq(Row) /\ shown \in Seq(Shown)
  BY DEF ServerTypes, ClientTypes
<1>1. ASSUME UNCHANGED clientVars PROVE ClientTypes'
  BY <1>1 DEF ClientTypes, clientVars
<1>2. ASSUME NEW ms \in Seq(Shown), Close(ms), UNCHANGED load PROVE ClientTypes'
  <2>1. shown' \in Seq(Shown)
    BY <1>2, StopStreamingFacts DEF Close
  <2> QED BY <1>2, <2>1 DEF Close, ClientTypes
<1>3. ASSUME Reconnect, UNCHANGED <<shown, isSending, load>>, ctl.phase \in {"connecting", "waiting"}
      PROVE  ClientTypes'
  <2>1. ctl.attempt \in Nat
    BY <1>3 DEF ClientTypes, Idle
  <2>2. PICK n \in Nat : n = ctl.attempt + 1
    BY <2>1
  <2>3. ctl' = [phase |-> "polling"] \/ ctl' = [phase |-> "connecting", attempt |-> n]
    BY <1>3, <2>2 DEF Reconnect, Connecting
  <2>4. ctl' \in [phase : {"polling"}] \cup [phase : {"connecting"}, attempt : Nat]
    BY <2>3
  <2> QED BY <1>3, <2>4 DEF ClientTypes
<1>4. ASSUME NEW a \in Ask, Post(a) PROVE ClientTypes'
  <2>1. ctl.attempt \in Nat
    BY <1>4 DEF Post, ClientTypes, Idle
  <2>2. ctl' \in [phase : {"waiting"}, attempt : Nat, ask : Ask]
    BY <1>4, <2>1 DEF Post
  <2> QED BY <1>4, <2>2 DEF Post, ClientTypes
<1>5. CASE Answered
  <2>1. ctl.phase = "waiting" /\ UNCHANGED load
    BY <1>5 DEF Answered
  <2>2. ctl.ask \in Ask
    BY <2>1 DEF ClientTypes, Idle
  <2>3. CASE ctl' = [phase |-> "streaming", ask |-> ctl.ask] /\ UNCHANGED <<shown, isSending>>
    <3>1. ctl' \in [phase : {"streaming"}, ask : Ask]
      BY <2>2, <2>3
    <3> QED BY <2>1, <2>3, <3>1 DEF ClientTypes
  <2>4. CASE Close(shown)
    BY <1>2, <1>a, <2>1, <2>4
  <2>5. CASE Reconnect /\ UNCHANGED <<shown, isSending>>
    BY <1>3, <2>1, <2>5
  <2> QED BY <1>5, <2>3, <2>4, <2>5 DEF Answered
<1>6. CASE Receive
  <2>1. PICK a \in Ask : a = ctl.ask
    BY <1>6 DEF Receive, ClientTypes, Idle
  <2>2. PICK e \in Ev : e = Head(sent[a])
    BY <1>6, <2>1 DEF Receive, ServerTypes
  <2>3. CASE e.kind = "part" /\ shown' = appendPart(a, e.n) /\ UNCHANGED <<isSending, ctl>>
    <3>1. e.n \in Nat
      BY <2>3, EventTypes
    <3>2. shown' \in Seq(Shown)
      BY <1>a, <2>3, <3>1, AppendPartFacts
    <3>3. UNCHANGED load
      BY <1>6 DEF Receive
    <3> QED BY <2>3, <3>2, <3>3 DEF ClientTypes
  <2>4. CASE Close(shown)
    <3>1. UNCHANGED load
      BY <1>6 DEF Receive
    <3> QED BY <1>2, <1>a, <2>4, <3>1
  <2> QED BY <1>6, <2>1, <2>2, <2>3, <2>4 DEF Receive
<1>7. CASE BodyEnds \/ BodyBreaks \/ Cancel
  BY <1>2, <1>7, <1>a DEF BodyEnds, BodyBreaks, Cancel
<1>8. CASE Poll
  <2>1. PICK ms \in Seq(Shown) : Close(ms)
    BY <1>8, <1>a, PollFacts
  <2>2. UNCHANGED load
    BY <1>8 DEF Poll
  <2> QED BY <1>2, <2>1, <2>2
<1>9. CASE LoadServed
  <2>1. load' \in [phase : {"served"}, rows : Seq(Row)]
    BY <1>9, <1>a DEF LoadServed
  <2> QED BY <1>9, <2>1 DEF LoadServed, ClientTypes
<1>10. CASE LoadDone
  <2>1. shown' \in Seq(Shown)
    BY <1>10, LoadFacts
  <2>2. load' = Loaded /\ UNCHANGED <<isSending, ctl>>
    BY <1>10 DEF LoadDone
  <2> QED BY <2>1, <2>2 DEF ClientTypes
<1>11. CASE LoadFails
  BY <1>11 DEF LoadFails, ClientTypes
<1>12. CASE Send
  <2>1. shown' \in Seq(Shown)
    BY <1>12, SendFacts
  <2>2. isSending' = TRUE /\ ctl' = [phase |-> "connecting", attempt |-> 0] /\ UNCHANGED load
    BY <1>12 DEF Send, Connecting
  <2>3. ctl' \in [phase : {"connecting"}, attempt : Nat]
    BY <2>2
  <2> QED BY <2>1, <2>2, <2>3 DEF ClientTypes
<1>13. CASE Reopen
  <2>1. shown' = <<>> /\ isSending' = FALSE /\ ctl' = Idle /\ load' = Loading
    BY <1>13 DEF Reopen
  <2>2. shown' \in Seq(Shown) /\ isSending' \in BOOLEAN
    <3>1. <<>> \in Seq(Shown)
      OBVIOUS
    <3> QED BY <2>1, <3>1, Zenon
  <2> QED BY <2>1, <2>2 DEF ClientTypes
<1>14. CASE ConnectFails
  BY <1>3, <1>14 DEF ConnectFails
<1>15. CASE UNCHANGED chatVars
  BY <1>1, <1>15 DEF chatVars
<1> QED BY <1>1, <1>4, <1>5, <1>6, <1>7, <1>8, <1>9, <1>10, <1>11, <1>12, <1>13, <1>14, <1>15
        DEF Next, Gateway, AiService, Client, Fault, ClientStep, User, ClientFault

LEMMA TypesInit == Init => ServerTypes /\ ClientTypes
<1> SUFFICES ASSUME Init PROVE ServerTypes /\ ClientTypes
  OBVIOUS
<1>1. ServerTypes
  <2>1. rows = <<>> /\ deleted = FALSE
    BY DEF Init, QAInit
  <2>2. rows \in Seq(Row) /\ deleted \in BOOLEAN
    <3>1. <<>> \in Seq(Row)
      OBVIOUS
    <3> QED BY <2>1, <3>1, Zenon
  <2>3. <<>> \in Seq(Ev) /\ <<>> \in Seq(Nat) /\ 0 \in Nat
    OBVIOUS
  <2>4. /\ ai \in [Ask -> Seq(Ev)] /\ out \in [Ask -> Seq(Ev)] /\ sent \in [Ask -> Seq(Ev)]
        /\ answer \in [Ask -> Seq(Nat)] /\ produced \in [Ask -> Nat]
    BY <2>3 DEF Init, QAInit
  <2>5. /\ handler \in [Ask -> {"none", "arrived", "loaded", "saved", "writing", "returned"}]
        /\ reader \in [Ask -> {"none", "reading", "over"}]
        /\ pump \in [Ask -> {"none", "taking", "offering", "saving", "over"}]
        /\ held \in [Ask -> Ev \cup {NoEvent}]
        /\ \A a \in Ask : pump[a] = "none"
    BY DEF Init, QAInit
  <2> QED BY <2>2, <2>4, <2>5 DEF ServerTypes
<1>2. ClientTypes
  <2>1. shown = <<>> /\ isSending = FALSE /\ ctl = Idle /\ load = Loaded
    BY DEF Init, ClientInit
  <2>2. shown \in Seq(Shown) /\ isSending \in BOOLEAN
    <3>1. <<>> \in Seq(Shown)
      OBVIOUS
    <3> QED BY <2>1, <3>1, Zenon
  <2> QED BY <2>1, <2>2 DEF ClientTypes
<1> QED BY <1>1, <1>2

LEMMA ServerInit == Init => ServerInv
<1> SUFFICES ASSUME Init PROVE ServerInv
  OBVIOUS
<1>1. \A role, a : Mine(rows, role, a) = {}
  BY DEF Init, QAInit, Mine
<1>2. ASSUME NEW a \in Ask PROVE RequestInv(a)
  <2>1. RowsInv(a)
    BY <1>1 DEF Init, QAInit, RowsInv
  <2>2. EmptyInv(a)
    BY DEF Init, QAInit, EmptyInv
  <2>3. NumbersInv(a)
    BY DEF Init, QAInit, NumbersInv
  <2> QED BY <2>1, <2>2, <2>3 DEF RequestInv
<1> QED BY <1>2 DEF Init, QAInit, ServerInv

LEMMA ServerAlways == Spec => [](ServerTypes /\ ClientTypes /\ ServerInv)
<1>1. Init => ServerTypes /\ ClientTypes /\ ServerInv
  BY TypesInit, ServerInit
<1>2. ServerTypes /\ ClientTypes /\ ServerInv /\ [Next]_chatVars => (ServerTypes /\ ClientTypes /\ ServerInv)'
  BY ServerTypesStep, ClientTypesStep, ServerStep
<1> QED BY <1>1, <1>2, PTL DEF Spec

(* saveAssistant: however a request ends, what stream has collected of its *)
(* answer is in the messages table, unless the insert itself failed or the *)
(* conversation was deleted.                                               *)
THEOREM AnswersSaved == Spec => []AnswerSaved
<1>1. ServerTypes /\ ClientTypes /\ ServerInv => AnswerSaved
  <2> SUFFICES ASSUME ServerInv, NEW a \in Ask,
                      pump[a] = "over", answer[a] # <<>>, ~deleted, a \notin unsaved
               PROVE  \E i \in RowsOf("assistant", a) : rows[i].parts = answer[a]
    BY DEF AnswerSaved
  <2>1. RowsInv(a)
    BY DEF ServerInv, RequestInv
  <2>2. RowsOf("assistant", a) = Mine(rows, "assistant", a)
    BY DEF RowsOf, Mine
  <2> QED BY <2>1, <2>2 DEF RowsInv
<1> QED BY <1>1, ServerAlways, PTL

(* saveUserMessageAndTitle and saveAssistant: a request leaves at most one *)
(* question and one answer in the table, the answer after its question,    *)
(* whatever other requests are running.                                    *)
THEOREM AnswersFollowQuestions == Spec => []AnswerFollowsQuestion
<1>1. ServerTypes /\ ClientTypes /\ ServerInv => AnswerFollowsQuestion
  <2> SUFFICES ASSUME ServerInv, NEW a \in Ask
               PROVE  /\ Cardinality(RowsOf("user", a)) <= 1
                      /\ Cardinality(RowsOf("assistant", a)) <= 1
                      /\ \A i \in RowsOf("assistant", a) : \E j \in RowsOf("user", a) : j < i
    BY DEF AnswerFollowsQuestion
  <2>1. RowsInv(a)
    BY DEF ServerInv, RequestInv
  <2>2. \A role : RowsOf(role, a) = Mine(rows, role, a)
    BY DEF RowsOf, Mine
  <2>3. ASSUME NEW role \in {"user", "assistant"} PROVE Cardinality(RowsOf(role, a)) <= 1
    <3>1. PICK T : T = RowsOf(role, a)
      OBVIOUS
    <3>2. \A i, j \in T : i = j
      BY <2>1, <2>2, <3>1 DEF RowsInv
    <3>3. CASE T = {}
      <4>1. Cardinality({}) = 0
        BY FS_EmptySet
      <4> QED BY <3>1, <3>3, <4>1
    <3>4. ASSUME NEW x \in T PROVE Cardinality(T) <= 1
      <4>1. T = {x}
        BY <3>2
      <4>2. Cardinality({x}) = 1
        BY FS_Singleton
      <4> QED BY <4>1, <4>2
    <3> QED BY <3>1, <3>3, <3>4
  <2>4. \A i \in RowsOf("assistant", a) : \E j \in RowsOf("user", a) : j < i
    BY <2>1, <2>2 DEF RowsInv
  <2> QED BY <2>3, <2>4
<1> QED BY <1>1, ServerAlways, PTL

-----------------------------------------------------------------------------
(* EVENTS ON THEIR WAY TO THE PAGE                                         *)

LEMMA FlowEmpty == Flow(<<>>, 0, <<>>, TRUE)
BY DEF Flow

LEMMA FlowWeaken ==
    ASSUME NEW q \in Seq(Ev), NEW k \in Nat, NEW c \in Seq(Nat), NEW b, Flow(q, k, c, b)
    PROVE  Flow(q, k, c, FALSE)
BY DEF Flow

LEMMA FlowPart ==
    ASSUME NEW q \in Seq(Ev), NEW k \in Nat, NEW c \in Seq(Nat), Flow(q, k, c, TRUE),
           NEW e \in Ev, e.kind = "part"
    PROVE  Flow(Append(q, e), k, c \o <<e.n>>, TRUE)
<1>1. e.n \in Nat
  BY EventTypes
<1>2. PICK m \in Nat, n \in Nat : m = Len(q) /\ n = Len(c)
  OBVIOUS
<1>3. k + m = n /\ \A j \in 1..m : q[j].kind = "part" /\ k + j <= n /\ c[k + j] = q[j].n
  BY <1>2 DEF Flow
<1>4. PICK p : p = Append(q, e)
  OBVIOUS
<1>5. Len(p) = m + 1 /\ p[m + 1] = e /\ \A j \in 1..m : p[j] = q[j]
  BY <1>2, <1>4
<1>6. PICK d : d = c \o <<e.n>>
  OBVIOUS
<1>7. Len(d) = n + 1 /\ d[n + 1] = e.n /\ \A j \in 1..n : d[j] = c[j]
  BY <1>1, <1>2, <1>6
<1>8. ASSUME NEW j \in 1..(m + 1)
      PROVE  p[j].kind = "part" /\ k + j <= n + 1 /\ d[k + j] = p[j].n
  <2>1. CASE j \in 1..m
    <3>1. k + j \in 1..n
      BY <1>3, <2>1
    <3>2. d[k + j] = c[k + j]
      BY <1>7, <3>1
    <3>3. q[j].kind = "part" /\ c[k + j] = q[j].n /\ p[j] = q[j]
      BY <1>3, <1>5, <2>1
    <3>4. k + j <= n + 1
      BY <3>1
    <3> QED BY <3>2, <3>3, <3>4
  <2>2. CASE j = m + 1
    <3>1. k + j = n + 1
      BY <1>3, <2>2
    <3> QED BY <1>5, <1>7, <2>2, <3>1
  <2> QED BY <2>1, <2>2
<1>9. k + (m + 1) = n + 1
  BY <1>3
<1>10. Flow(p, k, d, TRUE)
  BY <1>5, <1>7, <1>8, <1>9 DEF Flow
<1> QED BY <1>4, <1>6, <1>10

LEMMA FlowEnd ==
    ASSUME NEW q \in Seq(Ev), NEW k \in Nat, NEW c \in Seq(Nat), Flow(q, k, c, TRUE)
    PROVE  Flow(Append(q, End), k, c, FALSE)
<1>1. End \in Ev /\ End.kind = "end"
  BY EventTypes
<1>2. PICK m \in Nat, n \in Nat : m = Len(q) /\ n = Len(c)
  OBVIOUS
<1>3. \A j \in 1..m : q[j].kind = "part" /\ k + j <= n /\ c[k + j] = q[j].n
  BY <1>2 DEF Flow
<1>4. PICK p : p = Append(q, End)
  OBVIOUS
<1>5. Len(p) = m + 1 /\ p[m + 1] = End /\ \A j \in 1..m : p[j] = q[j]
  BY <1>1, <1>2, <1>4
<1>6. ASSUME NEW j \in 1..(m + 1)
      PROVE  IF p[j].kind = "part" THEN k + j <= n /\ c[k + j] = p[j].n ELSE j = m + 1
  <2>1. CASE j \in 1..m
    BY <1>3, <1>5, <2>1
  <2>2. CASE j = m + 1
    BY <1>1, <1>5, <2>2
  <2> QED BY <2>1, <2>2
<1>7. Flow(p, k, c, FALSE)
  BY <1>2, <1>5, <1>6 DEF Flow
<1> QED BY <1>4, <1>7

LEMMA FlowTail ==
    ASSUME NEW q \in Seq(Ev), NEW k \in Nat, NEW c \in Seq(Nat), NEW b, Flow(q, k, c, b),
           q # <<>>, Head(q).kind = "part"
    PROVE  /\ k + 1 <= Len(c) /\ c[k + 1] = Head(q).n
           /\ Flow(Tail(q), k + 1, c, b)
<1>1. PICK m \in Nat, n \in Nat : m + 1 = Len(q) /\ n = Len(c)
  <2>1. Len(q) \in Nat /\ Len(q) # 0 /\ Len(c) \in Nat
    OBVIOUS
  <2>2. Len(q) - 1 \in Nat /\ (Len(q) - 1) + 1 = Len(q)
    BY <2>1
  <2> QED BY <2>1, <2>2
<1>2. PICK p : p = Tail(q)
  OBVIOUS
<1>3. Len(p) = m /\ \A j \in 1..m : p[j] = q[j + 1]
  BY <1>1, <1>2
<1>4. \A j \in 1..(m + 1) : IF q[j].kind = "part" THEN k + j <= n /\ c[k + j] = q[j].n ELSE j = m + 1
  BY <1>1 DEF Flow
<1>5. Head(q) = q[1] /\ 1 \in 1..(m + 1)
  BY <1>1
<1>6. k + 1 <= n /\ c[k + 1] = Head(q).n
  BY <1>4, <1>5
<1>7. ASSUME NEW j \in 1..m
      PROVE  IF p[j].kind = "part" THEN (k + 1) + j <= n /\ c[(k + 1) + j] = p[j].n ELSE j = m
  <2>1. j + 1 \in 1..(m + 1) /\ (k + 1) + j = k + (j + 1)
    OBVIOUS
  <2>2. IF q[j + 1].kind = "part" THEN k + (j + 1) <= n /\ c[k + (j + 1)] = q[j + 1].n
                                  ELSE j + 1 = m + 1
    BY <1>4, <2>1
  <2>3. j + 1 = m + 1 => j = m
    OBVIOUS
  <2> QED BY <1>3, <2>1, <2>2, <2>3
<1>8. ASSUME b PROVE (k + 1) + m = n /\ \A j \in 1..m : p[j].kind = "part"
  <2>1. k + (m + 1) = n /\ \A j \in 1..(m + 1) : q[j].kind = "part"
    BY <1>1, <1>8 DEF Flow
  <2>2. \A j \in 1..m : j + 1 \in 1..(m + 1)
    OBVIOUS
  <2> QED BY <1>3, <2>1, <2>2
<1>9. Flow(p, k + 1, c, b)
  BY <1>1, <1>3, <1>7, <1>8 DEF Flow
<1> QED BY <1>1, <1>2, <1>6, <1>9

LEMMA PrefixAppend ==
    ASSUME NEW s \in Seq(Nat), NEW c \in Seq(Nat), NEW n \in Nat,
           IsPrefix(s, c), Len(s) + 1 <= Len(c), c[Len(s) + 1] = n
    PROVE  IsPrefix(Append(s, n), c) /\ Len(Append(s, n)) = Len(s) + 1
<1>1. PICK m \in Nat : m = Len(s)
  OBVIOUS
<1>2. PICK t : t = Append(s, n)
  OBVIOUS
<1>3. Len(t) = m + 1 /\ t[m + 1] = n /\ \A i \in 1..m : t[i] = s[i]
  BY <1>1, <1>2
<1>4. ASSUME NEW i \in 1..(m + 1) PROVE t[i] = c[i]
  <2>1. i \in 1..m \/ i = m + 1
    OBVIOUS
  <2> QED BY <1>1, <1>3, <2>1 DEF IsPrefix
<1>5. IsPrefix(t, c)
  BY <1>1, <1>3, <1>4 DEF IsPrefix
<1> QED BY <1>1, <1>2, <1>3, <1>5

(* What a step does to what is on its way: nothing is lost from it, and    *)
(* what stream has collected only grows.                                   *)
FlowKept(b) ==
    /\ IsPrefix(answer[b], answer'[b])
    /\ \A k \in Nat : OnTheWay(b, k) => OnTheWay(b, k)'

LEMMA FlowSame ==
    ASSUME ServerTypes, NEW b \in Ask,
           answer'[b] = answer[b], sent'[b] = sent[b], out'[b] = out[b],
           b \in forwarding' => b \in forwarding
    PROVE  FlowKept(b)
<1>1. PICK q \in Seq(Ev) : q = sent[b] \o out[b]
  <2>1. sent[b] \in Seq(Ev) /\ out[b] \in Seq(Ev)
    BY DEF ServerTypes
  <2>2. sent[b] \o out[b] \in Seq(Ev)
    BY <2>1, ConcatFacts
  <2> QED BY <2>2
<1>2. PICK c \in Seq(Nat) : c = answer[b]
  BY DEF ServerTypes
<1>3. IsPrefix(c, c)
  BY PrefixFacts
<1>4. ASSUME NEW k \in Nat, OnTheWay(b, k) PROVE OnTheWay(b, k)'
  <2>1. Flow(q, k, c, b \in forwarding)
    BY <1>1, <1>2, <1>4 DEF OnTheWay
  <2>2. Flow(q, k, c, b \in forwarding')
    BY <2>1 DEF Flow
  <2> QED BY <1>1, <1>2, <2>2 DEF OnTheWay
<1> QED BY <1>2, <1>3, <1>4 DEF FlowKept

LEMMA FlowStep ==
    ASSUME ServerTypes, ServerInv, NEW a \in Ask, NEW b \in Ask,
           RequestStep(a) \/ RequestFault(a) \/ AiStep(a) \/ DeleteConversation
    PROVE  FlowKept(b)
<1>1. ASSUME UNCHANGED <<answer, sent, out, pump>> PROVE FlowKept(b)
  <2>1. b \in forwarding' => b \in forwarding
    BY <1>1 DEF forwarding
  <2> QED BY <1>1, <2>1, FlowSame
<1>2. CASE AskLoad(a) \/ AskSave(a) \/ HandlerReturns(a) \/ Notice(a) \/ AskDbFails(a) \/ AskRefused(a)
  BY <1>1, <1>2 DEF AskLoad, AskSave, HandlerReturns, Notice, AskDbFails, AskRefused, channels
<1>3. CASE AskConnect(a)
  <2>1. b \in forwarding' => b \in forwarding
    <3>1. pump[a] = "none"
      BY <1>3 DEF AskConnect, ServerInv, RequestInv, RowsInv
    <3> QED BY <1>3, <3>1 DEF AskConnect, forwarding, ServerTypes
  <2> QED BY <1>3, <2>1, FlowSame DEF AskConnect
<1>4. CASE StreamTakes(a)
  <2>1. b \in forwarding' => b \in forwarding
    BY <1>4 DEF StreamTakes, forwarding, ServerTypes
  <2> QED BY <1>4, <2>1, FlowSame DEF StreamTakes, streamUnchanged
<1>5. CASE StreamStops(a) \/ saveAssistant(a) \/ saveAssistantFails(a)
  <2>1. b \in forwarding' => b \in forwarding
    BY <1>5 DEF StreamStops, saveAssistant, saveAssistantFails, forwarding, ServerTypes
  <2> QED BY <1>5, <2>1, FlowSame
          DEF StreamStops, saveAssistant, saveAssistantFails, streamUnchanged, saveUnchanged
<1>6. CASE AiStep(a)
  BY <1>1, <1>6 DEF AiStep, AiSends, AiEnds, ReaderReturns
<1>7. CASE DeleteConversation
  BY <1>1, <1>7 DEF DeleteConversation, channels
<1>8. CASE WriteEvent(a)
  <2>1. UNCHANGED <<answer, pump>>
    BY <1>8 DEF WriteEvent
  <2>2. CASE b # a
    <3>1. sent'[b] = sent[b] /\ out'[b] = out[b]
      BY <1>8, <2>2 DEF WriteEvent, ServerTypes
    <3>2. b \in forwarding' => b \in forwarding
      BY <2>1 DEF forwarding
    <3> QED BY <2>1, <3>1, <3>2, FlowSame
  <2>3. CASE b = a
    <3>1. PICK s \in Seq(Ev), t \in Seq(Ev) : s = sent[a] /\ t = out[a]
      BY DEF ServerTypes
    <3>2. t # <<>> /\ sent'[a] = Append(s, Head(t)) /\ out'[a] = Tail(t)
      BY <1>8, <3>1 DEF WriteEvent, ServerTypes
    <3>3. sent'[a] \o out'[a] = sent[a] \o out[a]
      BY <3>1, <3>2, MoveHead
    <3>4. forwarding' = forwarding
      BY <2>1 DEF forwarding
    <3>5. \A k \in Nat : OnTheWay(b, k) => OnTheWay(b, k)'
      BY <2>1, <2>3, <3>3, <3>4 DEF OnTheWay
    <3>6. IsPrefix(answer[b], answer'[b])
      BY <2>1, PrefixFacts DEF ServerTypes
    <3> QED BY <3>5, <3>6 DEF FlowKept
  <2> QED BY <2>2, <2>3
<1>9. CASE StreamForwards(a)
  <2>1. CASE b # a
    <3>1. sent'[b] = sent[b] /\ out'[b] = out[b] /\ answer'[b] = answer[b] /\ pump'[b] = pump[b]
      BY <1>9, <2>1 DEF StreamForwards, streamUnchanged, ServerTypes
    <3>2. b \in forwarding' => b \in forwarding
      BY <3>1 DEF forwarding
    <3> QED BY <3>1, <3>2, FlowSame
  <2>2. CASE b = a
    <3>1. PICK s \in Seq(Ev), t \in Seq(Ev), c \in Seq(Nat), e \in Ev :
             s = sent[a] /\ t = out[a] /\ c = answer[a] /\ e = held[a]
      BY <1>9 DEF StreamForwards, ServerTypes
    <3>2. sent'[a] = s /\ out'[a] = Append(t, e) /\ answer'[a] = c \o Collected(e)
      BY <1>9, <3>1 DEF StreamForwards, streamUnchanged, ServerTypes
    <3>3. a \in forwarding
      BY <1>9 DEF StreamForwards, forwarding
    <3>4. PICK q \in Seq(Ev) : q = s \o t
      <4>1. s \o t \in Seq(Ev)
        BY ConcatFacts
      <4> QED BY <4>1
    <3>5. sent'[a] \o out'[a] = Append(q, e)
      BY <3>2, <3>4, AppendConcat
    <3>6. Collected(e) \in Seq(Nat)
      BY CollectedType
    <3>7. IsPrefix(c, c \o Collected(e))
      BY <3>6, PrefixFacts
    <3>8. ASSUME NEW k \in Nat, OnTheWay(a, k) PROVE OnTheWay(a, k)'
      <4>1. Flow(q, k, c, a \in forwarding)
        BY <3>1, <3>4, <3>8 DEF OnTheWay
      <4>2. Flow(q, k, c, TRUE)
        BY <3>3, <4>1 DEF Flow
      <4>3. CASE e.kind = "part"
        <5>1. Collected(e) = <<e.n>>
          BY <4>3, CollectedType
        <5>2. Flow(Append(q, e), k, c \o <<e.n>>, TRUE)
          BY <4>2, <4>3, FlowPart
        <5>3. Flow(sent'[a] \o out'[a], k, answer'[a], TRUE)
          BY <3>2, <3>5, <5>1, <5>2
        <5>4. Flow(sent'[a] \o out'[a], k, answer'[a], a \in forwarding')
          BY <5>3 DEF Flow
        <5> QED BY <5>4 DEF OnTheWay
      <4>4. CASE e.kind = "end"
        <5>1. e = End /\ Collected(e) = <<>>
          BY <4>4, CollectedType, EventTypes
        <5>2. c \o <<>> = c
          OBVIOUS
        <5>3. Flow(Append(q, e), k, c, FALSE)
          BY <4>2, <5>1, FlowEnd
        <5>4. Flow(sent'[a] \o out'[a], k, answer'[a], FALSE)
          BY <3>2, <3>5, <5>1, <5>2, <5>3
        <5>5. pump'[a] = "saving"
          BY <1>9, <3>1, <5>1 DEF StreamForwards, ServerTypes
        <5>6. a \notin forwarding'
          BY <5>5 DEF forwarding
        <5>7. Flow(sent'[a] \o out'[a], k, answer'[a], a \in forwarding')
          BY <5>4, <5>6 DEF Flow
        <5> QED BY <5>7 DEF OnTheWay
      <4> QED BY <4>3, <4>4, EventTypes
    <3> QED BY <2>2, <3>1, <3>2, <3>7, <3>8 DEF FlowKept
  <2> QED BY <2>1, <2>2
<1> QED BY <1>2, <1>3, <1>4, <1>5, <1>6, <1>7, <1>8, <1>9 DEF RequestStep, RequestFault

-----------------------------------------------------------------------------
(* THE PAGE KEEPS ITS INVARIANT                                            *)

LEMMA PartsType ==
    ASSUME ClientTypes
    PROVE  shown \in Seq(Shown) /\ \A i \in 1..Len(shown) : \A a \in Ask : shown[i].parts[a] \in Seq(Nat)
<1>1. shown \in Seq(Shown)
  BY DEF ClientTypes
<1>2. ASSUME NEW i \in 1..Len(shown), NEW a \in Ask PROVE shown[i].parts[a] \in Seq(Nat)
  <2>1. PICK m \in Shown : m = shown[i]
    BY <1>1
  <2>2. m.parts \in [Ask -> Seq(Nat)]
    BY DEF Shown
  <2> QED BY <2>1, <2>2
<1> QED BY <1>1, <1>2

(* A controller that closes leaves beginnings of answers behind.           *)
LEMMA ClosedPage ==
    ASSUME NEW ms \in Seq(Shown), Close(ms), UNCHANGED answer,
           \A i \in 1..Len(ms) : \A a \in Ask : IsPrefix(ms[i].parts[a], answer[a])
    PROVE  PageInv'
<1>1. PICK f : f = stopStreaming(ms)
  OBVIOUS
<1>2. Len(f) = Len(ms) /\ \A i \in 1..Len(ms) : f[i].parts = ms[i].parts /\ ~f[i].streaming
  BY <1>1, StopStreamingFacts
<1>3. ctl' = Idle /\ shown' = f /\ ctl'.phase = "idle"
  BY <1>1 DEF Close, Idle
<1>4. /\ \A i \in 1..Len(f) : \A a \in Ask : IsPrefix(f[i].parts[a], answer[a])
      /\ \A i \in 1..Len(f) : ~f[i].streaming
  BY <1>2
<1> QED BY <1>3, <1>4 DEF PageInv

(* Before its next attempt a question has received nothing.                *)
LEMMA ReconnectedPage ==
    ASSUME PageInv, ClientTypes, Reconnect, ctl.phase \in {"connecting", "waiting"},
           UNCHANGED <<shown, isSending, load, answer>>
    PROVE  PageInv'
<1>1. ctl'.phase \in {"connecting", "polling"}
  BY DEF Reconnect, Connecting
<1>2. isSending /\ load.phase = "none"
  BY DEF PageInv, Idle, ClientTypes
<1>3. /\ \A i \in 1..Len(shown) : \A a \in Ask : IsPrefix(shown[i].parts[a], answer[a])
      /\ \A i \in 1..Len(shown) : shown[i].streaming => \A a \in Ask : shown[i].parts[a] = <<>>
  BY DEF PageInv
<1> QED BY <1>1, <1>2, <1>3 DEF PageInv

LEMMA PostPage ==
    ASSUME ServerTypes, ClientTypes, ServerInv, PageInv, NEW a \in Ask, Post(a)
    PROVE  PageInv'
<1>1. UNCHANGED <<shown, isSending, load, answer, sent, out, pump>>
  BY DEF Post, AskArrives, channels
<1>2. ctl.phase = "connecting" /\ ctl'.phase = "waiting" /\ ctl'.ask = a /\ handler[a] = "none"
  BY DEF Post, AskArrives
<1>3. pump[a] = "none" /\ answer[a] = <<>> /\ sent[a] = <<>> /\ out[a] = <<>>
  <2>1. RowsInv(a) /\ EmptyInv(a)
    BY DEF ServerInv, RequestInv
  <2>2. pump[a] = "none"
    BY <1>2, <2>1 DEF RowsInv
  <2> QED BY <2>1, <2>2 DEF EmptyInv
<1>4. OnTheWay(a, 0)'
  <2>1. a \in forwarding'
    BY <1>1, <1>3 DEF forwarding
  <2>2. Flow(<<>>, 0, <<>>, a \in forwarding')
    BY <2>1, FlowEmpty DEF Flow
  <2>3. sent'[a] \o out'[a] = <<>>
    BY <1>1, <1>3
  <2> QED BY <1>1, <1>3, <2>2, <2>3 DEF OnTheWay
<1>5. /\ \A i \in 1..Len(shown) : \A b \in Ask : IsPrefix(shown[i].parts[b], answer[b])
      /\ \A i \in 1..Len(shown) : shown[i].streaming => \A b \in Ask : shown[i].parts[b] = <<>>
  BY <1>2 DEF PageInv
<1>6. ASSUME NEW i \in 1..Len(shown) PROVE shown[i].parts[a] = <<>>
  <2>1. shown[i].parts[a] \in Seq(Nat)
    BY PartsType
  <2>2. IsPrefix(shown[i].parts[a], <<>>)
    BY <1>3, <1>5
  <2> QED BY <2>1, <2>2, PrefixFacts
<1>7. isSending /\ load.phase = "none"
  BY <1>2 DEF PageInv, Idle, ClientTypes
<1> QED BY <1>1, <1>2, <1>4, <1>5, <1>6, <1>7 DEF PageInv

LEMMA AnsweredPage ==
    ASSUME ServerTypes, ClientTypes, PageInv, Answered
    PROVE  PageInv'
<1>1. UNCHANGED <<load, answer, sent, out, pump>> /\ ctl.phase = "waiting"
  BY DEF Answered, qaVars
<1>2. PICK a \in Ask : a = ctl.ask
  BY <1>1 DEF ClientTypes, Idle
<1>3. /\ \A i \in 1..Len(shown) : \A b \in Ask : IsPrefix(shown[i].parts[b], answer[b])
      /\ OnTheWay(a, 0) /\ \A i \in 1..Len(shown) : shown[i].parts[a] = <<>>
  BY <1>1, <1>2 DEF PageInv
<1>4. isSending /\ load.phase = "none"
  BY <1>1 DEF PageInv, Idle, ClientTypes
<1>5. CASE ctl' = [phase |-> "streaming", ask |-> ctl.ask] /\ UNCHANGED <<shown, isSending>>
  <2>1. ctl'.phase = "streaming" /\ ctl'.ask = a
    BY <1>2, <1>5
  <2>2. OnTheWay(a, 0)'
    BY <1>1, <1>3 DEF OnTheWay, forwarding
  <2>3. \A i \in 1..Len(shown) : Len(shown[i].parts[a]) = 0
    BY <1>3
  <2>4. \A i \in 1..Len(shown) : OnTheWay(a, Len(shown[i].parts[a]))'
    BY <1>5, <2>2, <2>3 DEF OnTheWay
  <2> QED BY <1>1, <1>3, <1>4, <1>5, <2>1, <2>4 DEF PageInv
<1>6. CASE Close(shown)
  BY <1>1, <1>3, <1>6, ClosedPage DEF ClientTypes
<1>7. CASE Reconnect /\ UNCHANGED <<shown, isSending>>
  BY <1>1, <1>7, ReconnectedPage
<1> QED BY <1>5, <1>6, <1>7 DEF Answered

LEMMA ReceivePage ==
    ASSUME ServerTypes, ClientTypes, PageInv, Receive
    PROVE  PageInv'
<1>1. UNCHANGED <<load, answer, out, pump>> /\ ctl.phase = "streaming"
  BY DEF Receive
<1>2. PICK a \in Ask : a = ctl.ask
  BY <1>1 DEF ClientTypes, Idle
<1>3. PICK s \in Seq(Ev), t \in Seq(Ev), c \in Seq(Nat) : s = sent[a] /\ t = out[a] /\ c = answer[a]
  BY DEF ServerTypes
<1>4. s # <<>> /\ sent'[a] = Tail(s)
  BY <1>2, <1>3 DEF Receive, ServerTypes
<1>5. PICK e \in Ev : e = Head(s)
  BY <1>4
<1>6. /\ \A i \in 1..Len(shown) : \A b \in Ask : IsPrefix(shown[i].parts[b], answer[b])
      /\ \A i \in 1..Len(shown) :
            matchesTarget(shown[i], a) => OnTheWay(a, Len(shown[i].parts[a]))
  BY <1>1, <1>2 DEF PageInv
<1>7. isSending /\ load.phase = "none"
  BY <1>1 DEF PageInv, Idle, ClientTypes
<1>8. CASE e.kind = "part" /\ shown' = appendPart(a, e.n) /\ UNCHANGED <<isSending, ctl>>
  <2>1. e.n \in Nat
    BY <1>8, EventTypes
  <2>2. PICK f : f = appendPart(a, e.n)
    OBVIOUS
  <2>3. /\ Len(f) = Len(shown)
        /\ \A i \in 1..Len(shown) :
              /\ \A b \in Ask \ {a} : f[i].parts[b] = shown[i].parts[b]
              /\ ~matchesTarget(shown[i], a) => f[i] = shown[i]
              /\ matchesTarget(shown[i], a) => f[i].parts[a] = Append(shown[i].parts[a], e.n)
              /\ matchesTarget(f[i], a) => matchesTarget(shown[i], a)
    <3>1. shown \in Seq(Shown)
      BY PartsType
    <3> QED BY <2>1, <2>2, <3>1, AppendPartFacts
  <2>4. PICK q \in Seq(Ev) : q = s \o t
    <3>1. s \o t \in Seq(Ev)
      BY ConcatFacts
    <3> QED BY <3>1
  <2>5. q # <<>> /\ Head(q) = e /\ sent'[a] \o out'[a] = Tail(q)
    BY <1>1, <1>3, <1>4, <1>5, <2>4, TailConcat
  <2>6. PICK isOpen : isOpen = (a \in forwarding)
    OBVIOUS
  <2>7. (a \in forwarding') = isOpen
    BY <1>1, <2>6 DEF forwarding
  <2>8. ASSUME NEW i \in 1..Len(shown), matchesTarget(shown[i], a)
        PROVE  IsPrefix(f[i].parts[a], c) /\ OnTheWay(a, Len(f[i].parts[a]))'
    <3>1. PICK p \in Seq(Nat) : p = shown[i].parts[a]
      BY PartsType
    <3>2. PICK k \in Nat : k = Len(p)
      OBVIOUS
    <3>3. Flow(q, k, c, isOpen)
      BY <1>3, <1>6, <2>4, <2>6, <2>8, <3>1, <3>2 DEF OnTheWay
    <3>4. k + 1 <= Len(c) /\ c[k + 1] = e.n /\ Flow(Tail(q), k + 1, c, isOpen)
      BY <1>8, <2>5, <3>3, FlowTail
    <3>5. IsPrefix(p, c)
      BY <1>3, <1>6, <3>1
    <3>6. IsPrefix(Append(p, e.n), c) /\ Len(Append(p, e.n)) = k + 1
      BY <2>1, <3>2, <3>4, <3>5, PrefixAppend
    <3>7. f[i].parts[a] = Append(p, e.n)
      BY <2>3, <2>8, <3>1
    <3>8. PICK l : l = k + 1
      OBVIOUS
    <3>9. OnTheWay(a, l)'
      BY <1>1, <1>3, <2>5, <2>7, <3>4, <3>8 DEF OnTheWay
    <3>10. Len(f[i].parts[a]) = l
      BY <3>6, <3>7, <3>8
    <3> QED BY <3>6, <3>7, <3>9, <3>10
  <2>9. ASSUME NEW i \in 1..Len(shown), NEW b \in Ask PROVE IsPrefix(f[i].parts[b], answer[b])
    <3>1. CASE b = a /\ matchesTarget(shown[i], a)
      BY <1>3, <2>8, <3>1
    <3>2. CASE ~(b = a /\ matchesTarget(shown[i], a))
      <4>1. f[i].parts[b] = shown[i].parts[b]
        BY <2>3, <3>2
      <4> QED BY <1>6, <4>1
    <3> QED BY <3>1, <3>2
  <2>10. shown' = f /\ ctl' = ctl
    BY <1>8, <2>2
  <2>11. \A i \in 1..Len(f) : matchesTarget(f[i], a) => OnTheWay(a, Len(f[i].parts[a]))'
    BY <2>3, <2>8
  <2> QED BY <1>1, <1>2, <1>7, <1>8, <2>3, <2>9, <2>10, <2>11 DEF PageInv
<1>9. CASE Close(shown)
  BY <1>1, <1>6, <1>9, ClosedPage DEF ClientTypes
<1> QED BY <1>2, <1>3, <1>5, <1>8, <1>9 DEF Receive

LEMMA PollPage ==
    ASSUME ServerTypes, ClientTypes, ServerInv, PageInv, Poll
    PROVE  PageInv'
<1>1. rows \in Seq(Row) /\ shown \in Seq(Shown)
  BY DEF ServerTypes, ClientTypes
<1>2. PICK r \in Row, ms \in Seq(Shown) :
              /\ \E i \in 1..Len(rows) : r = rows[i]
              /\ r.role = "assistant" /\ Close(ms) /\ Len(ms) = Len(shown)
              /\ \A i \in 1..Len(shown) :
                    /\ ~shown[i].streaming => ms[i].parts = shown[i].parts
                    /\ \A a \in Ask \ {r.ask} : ms[i].parts[a] = shown[i].parts[a]
                    /\ shown[i].streaming => ms[i].parts[r.ask] = shown[i].parts[r.ask] \o r.parts
  BY <1>1, PollFacts
<1>3. UNCHANGED answer /\ ctl.phase = "polling"
  BY DEF Poll, qaVars
<1>4. PICK b \in Ask : b = r.ask
  BY DEF Row
<1>5. r.parts = answer[b] /\ answer[b] \in Seq(Nat)
  <2>1. PICK k \in 1..Len(rows) : r = rows[k]
    BY <1>2
  <2>2. k \in Mine(rows, "assistant", b)
    BY <1>2, <1>4, <2>1 DEF Mine
  <2>3. RowsInv(b)
    BY DEF ServerInv, RequestInv
  <2> QED BY <2>1, <2>2, <2>3 DEF RowsInv, ServerTypes
<1>6. /\ \A i \in 1..Len(shown) : \A a \in Ask : IsPrefix(shown[i].parts[a], answer[a])
      /\ \A i \in 1..Len(shown) : shown[i].streaming => \A a \in Ask : shown[i].parts[a] = <<>>
  BY <1>3 DEF PageInv
<1>7. ASSUME NEW i \in 1..Len(ms), NEW a \in Ask PROVE IsPrefix(ms[i].parts[a], answer[a])
  <2>1. i \in 1..Len(shown)
    BY <1>2
  <2>2. CASE shown[i].streaming /\ a = b
    <3>1. ms[i].parts[a] = <<>> \o answer[b]
      BY <1>2, <1>4, <1>5, <1>6, <2>1, <2>2
    <3>2. <<>> \o answer[b] = answer[b]
      BY <1>5
    <3>3. IsPrefix(answer[b], answer[b])
      BY <1>5, PrefixFacts
    <3> QED BY <2>2, <3>1, <3>2, <3>3
  <2>3. CASE ~(shown[i].streaming /\ a = b)
    <3>1. ms[i].parts[a] = shown[i].parts[a]
      BY <1>2, <1>4, <2>1, <2>3
    <3> QED BY <1>6, <2>1, <3>1
  <2> QED BY <2>2, <2>3
<1> QED BY <1>2, <1>3, <1>7, ClosedPage

LEMMA LoadPage ==
    ASSUME ServerTypes, ClientTypes, LoadInv, PageInv, LoadServed \/ LoadDone \/ LoadFails
    PROVE  PageInv'
<1>1. UNCHANGED <<isSending, ctl, answer, sent, out, pump>> /\ load.phase # "none"
  BY DEF LoadServed, LoadDone, LoadFails, qaVars
<1>2. ctl = Idle /\ ctl'.phase = "idle" /\ ctl' = Idle
  BY <1>1 DEF PageInv, Idle
<1>3. CASE LoadServed \/ LoadFails
  <2>1. UNCHANGED shown
    BY <1>3 DEF LoadServed, LoadFails
  <2>2. /\ \A i \in 1..Len(shown) : \A a \in Ask : IsPrefix(shown[i].parts[a], answer[a])
        /\ \A i \in 1..Len(shown) : ~shown[i].streaming
    BY <1>2 DEF PageInv, Idle
  <2> QED BY <1>1, <1>2, <2>1, <2>2 DEF PageInv
<1>4. CASE LoadDone
  <2>1. load.phase = "served"
    BY <1>4 DEF LoadDone
  <2>2. PICK rs \in Seq(Row) : rs = load.rows
    BY <1>4, LoadFacts
  <2>3. /\ Len(shown') = Len(rs)
        /\ \A i \in 1..Len(rs) :
              /\ ~shown'[i].streaming
              /\ \A a \in Ask : shown'[i].parts[a] = IF a = rs[i].ask THEN rs[i].parts ELSE <<>>
    BY <1>4, <2>2, LoadFacts
  <2>4. \A i \in 1..Len(rs) : IsPrefix(rs[i].parts, answer[rs[i].ask])
    BY <2>1, <2>2 DEF LoadInv
  <2>5. \A a \in Ask : IsPrefix(<<>>, answer[a])
    BY PrefixFacts DEF ServerTypes
  <2>6. \A i \in 1..Len(shown') : \A a \in Ask : IsPrefix(shown'[i].parts[a], answer[a])
    BY <2>3, <2>4, <2>5
  <2> QED BY <1>1, <1>2, <2>3, <2>6 DEF PageInv
<1> QED BY <1>3, <1>4

LEMMA SendPage ==
    ASSUME ServerTypes, ClientTypes, PageInv, Send, load.phase = "none"
    PROVE  PageInv'
<1>1. UNCHANGED <<answer, load>> /\ isSending' = TRUE /\ ctl'.phase = "connecting" /\ ~isSending
  BY DEF Send, qaVars, Connecting
<1>2. ctl.phase = "idle"
  BY <1>1 DEF PageInv, Idle
<1>3. PICK f : f = shown'
  OBVIOUS
<1>4. \A i \in 1..Len(f) : \/ i \in 1..Len(shown) /\ f[i] = shown[i]
                           \/ \A a \in Ask : f[i].parts[a] = <<>>
  BY <1>3, SendFacts
<1>5. \A a \in Ask : IsPrefix(<<>>, answer[a])
  BY PrefixFacts DEF ServerTypes
<1>6. /\ \A i \in 1..Len(shown) : \A a \in Ask : IsPrefix(shown[i].parts[a], answer[a])
      /\ \A i \in 1..Len(shown) : ~shown[i].streaming
  BY <1>2 DEF PageInv
<1>7. \A i \in 1..Len(f) : \A a \in Ask : IsPrefix(f[i].parts[a], answer[a])
  BY <1>4, <1>5, <1>6
<1>8. \A i \in 1..Len(f) : f[i].streaming => \A a \in Ask : f[i].parts[a] = <<>>
  BY <1>4, <1>6
<1> QED BY <1>1, <1>3, <1>7, <1>8 DEF PageInv

(* The server's steps change nothing that the page shows.                  *)
LEMMA ServedPage ==
    ASSUME ServerTypes, ServerTypes', ClientTypes, PageInv, UNCHANGED clientVars,
           \A b \in Ask : FlowKept(b)
    PROVE  PageInv'
<1>1. UNCHANGED <<shown, isSending, ctl, load>>
  BY DEF clientVars
<1>2. ASSUME NEW i \in 1..Len(shown), NEW a \in Ask PROVE IsPrefix(shown[i].parts[a], answer'[a])
  <2>1. IsPrefix(shown[i].parts[a], answer[a]) /\ IsPrefix(answer[a], answer'[a])
    BY DEF PageInv, FlowKept
  <2>2. shown[i].parts[a] \in Seq(Nat) /\ answer[a] \in Seq(Nat) /\ answer'[a] \in Seq(Nat)
    BY PartsType DEF ServerTypes
  <2> QED BY <2>1, <2>2, PrefixFacts
<1>3. ASSUME ctl.phase = "waiting" PROVE OnTheWay(ctl.ask, 0)'
  <2>1. PICK a \in Ask : a = ctl.ask
    BY <1>3 DEF ClientTypes, Idle
  <2>2. OnTheWay(a, 0)
    BY <1>3, <2>1 DEF PageInv
  <2>3. OnTheWay(a, 0)'
    BY <2>2 DEF FlowKept
  <2> QED BY <1>1, <2>1, <2>3 DEF OnTheWay
<1>4. ASSUME ctl.phase = "streaming", NEW i \in 1..Len(shown), matchesTarget(shown[i], ctl.ask)
      PROVE  OnTheWay(ctl.ask, Len(shown[i].parts[ctl.ask]))'
  <2>1. PICK a \in Ask : a = ctl.ask
    BY <1>4 DEF ClientTypes, Idle
  <2>2. PICK k \in Nat : k = Len(shown[i].parts[a])
    BY PartsType
  <2>3. OnTheWay(a, k)
    BY <1>4, <2>1, <2>2 DEF PageInv, OnTheWay
  <2>4. OnTheWay(a, k)'
    BY <2>3 DEF FlowKept
  <2> QED BY <1>1, <2>1, <2>2, <2>4 DEF OnTheWay
<1> QED BY <1>1, <1>2, <1>3, <1>4 DEF PageInv, matchesTarget

LEMMA LoadStep ==
    ASSUME ServerTypes, ServerTypes', ClientTypes, ServerInv, LoadInv,
           \A b \in Ask : IsPrefix(answer[b], answer'[b]),
           UNCHANGED load \/ LoadServed \/ load' = Loaded \/ load' = Loading
    PROVE  LoadInv'
<1>1. CASE UNCHANGED load
  <2> SUFFICES ASSUME load.phase = "served", NEW i \in 1..Len(load.rows)
               PROVE  IsPrefix(load.rows[i].parts, answer'[load.rows[i].ask])
    BY <1>1 DEF LoadInv
  <2>1. PICK rs \in Seq(Row) : rs = load.rows
    <3>1. load \in [phase : {"served"}, rows : Seq(Row)]
      BY DEF ClientTypes, Loading, Loaded
    <3> QED BY <3>1
  <2>2. PICK r \in Row : r = rs[i]
    BY <2>1
  <2>3. r.parts \in Seq(Nat) /\ r.ask \in Ask
    BY DEF Row
  <2>4. IsPrefix(r.parts, answer[r.ask]) /\ IsPrefix(answer[r.ask], answer'[r.ask])
    BY <2>1, <2>2, <2>3 DEF LoadInv
  <2>5. answer[r.ask] \in Seq(Nat) /\ answer'[r.ask] \in Seq(Nat)
    BY <2>3 DEF ServerTypes
  <2>6. IsPrefix(r.parts, answer'[r.ask])
    BY <2>3, <2>4, <2>5, PrefixFacts
  <2> QED BY <2>1, <2>2, <2>6
<1>2. CASE LoadServed
  <2>1. load'.rows = rows /\ UNCHANGED answer
    BY <1>2 DEF LoadServed, qaVars
  <2>2. ASSUME NEW i \in 1..Len(rows) PROVE IsPrefix(rows[i].parts, answer[rows[i].ask])
    <3>1. PICK r \in Row : r = rows[i]
      BY DEF ServerTypes
    <3>2. PICK b \in Ask : b = r.ask
      BY DEF Row
    <3>3. PICK c \in Seq(Nat) : c = answer[b]
      BY DEF ServerTypes
    <3>4. RowsInv(b)
      BY DEF ServerInv, RequestInv
    <3>5. r.role \in {"user", "assistant"} /\ i \in Mine(rows, r.role, b)
      BY <3>1, <3>2 DEF Mine, Row
    <3>6. r.parts = <<>> \/ r.parts = c
      BY <3>1, <3>3, <3>4, <3>5 DEF RowsInv
    <3>7. IsPrefix(<<>>, c) /\ IsPrefix(c, c)
      BY PrefixFacts
    <3> QED BY <3>1, <3>2, <3>3, <3>6, <3>7
  <2> QED BY <2>1, <2>2 DEF LoadInv
<1>3. CASE load' = Loaded \/ load' = Loading
  <2>1. load'.phase # "served"
    BY <1>3 DEF Loaded, Loading
  <2> QED BY <2>1 DEF LoadInv
<1> QED BY <1>1, <1>2, <1>3

LEMMA ChatInvStep ==
    ASSUME ServerTypes, ClientTypes, ServerTypes', ChatInv, [Next]_chatVars
    PROVE  ChatInv'
<1>1. ServerInv /\ ServerInv' /\ LoadInv
  BY ServerStep DEF ChatInv
<1>2. ASSUME NEW a \in Ask, RequestStep(a) \/ RequestFault(a) \/ AiStep(a) \/ DeleteConversation,
             UNCHANGED clientVars
      PROVE  ChatInv'
  <2>1. \A b \in Ask : FlowKept(b)
    BY <1>1, <1>2, FlowStep
  <2>2. UNCHANGED <<load, hasty>>
    BY <1>2 DEF clientVars
  <2>3. LoadInv'
    BY <1>1, <2>1, <2>2, LoadStep DEF FlowKept
  <2>4. PageInv => PageInv'
    BY <1>2, <2>1, ServedPage
  <2> QED BY <1>1, <2>2, <2>3, <2>4 DEF ChatInv
<1>3. \A b \in Ask : IsPrefix(answer[b], answer[b])
  BY PrefixFacts DEF ServerTypes
<1>4. ASSUME UNCHANGED answer, UNCHANGED load \/ LoadServed \/ load' = Loaded \/ load' = Loading
      PROVE  LoadInv'
  BY <1>1, <1>3, <1>4, LoadStep
<1>5. CASE UNCHANGED chatVars \/ (DeleteConversation /\ UNCHANGED clientVars)
  <2>1. UNCHANGED <<answer, sent, out, pump, clientVars>>
    BY <1>5 DEF chatVars, qaVars, DeleteConversation, channels
  <2>2. forwarding' = forwarding
    BY <2>1 DEF forwarding
  <2>3. \A b \in Ask : FlowKept(b)
    BY <2>1, <2>2, FlowSame
  <2>4. UNCHANGED <<load, hasty>>
    BY <2>1 DEF clientVars
  <2>5. PageInv => PageInv'
    BY <2>1, <2>3, ServedPage
  <2> QED BY <1>1, <1>4, <2>1, <2>4, <2>5 DEF ChatInv
<1>6. ASSUME NEW a \in Ask, Post(a) PROVE ChatInv'
  <2>1. UNCHANGED <<answer, load, hasty>>
    BY <1>6 DEF Post, AskArrives, channels
  <2> QED BY <1>1, <1>4, <1>6, <2>1, PostPage DEF ChatInv
<1>7. CASE Answered
  <2>1. UNCHANGED <<answer, load, hasty>>
    BY <1>7 DEF Answered, qaVars
  <2> QED BY <1>1, <1>4, <1>7, <2>1, AnsweredPage DEF ChatInv
<1>8. CASE Receive
  <2>1. UNCHANGED <<answer, load, hasty>>
    BY <1>8 DEF Receive
  <2> QED BY <1>1, <1>4, <1>8, <2>1, ReceivePage DEF ChatInv
<1>9. CASE BodyEnds \/ BodyBreaks \/ Cancel
  <2>1. UNCHANGED <<answer, load, hasty>> /\ Close(shown)
    BY <1>9 DEF BodyEnds, BodyBreaks, Cancel, serverButGone, channels
  <2>2. shown \in Seq(Shown)
    BY PartsType
  <2>3. PageInv => PageInv'
    BY <2>1, <2>2, ClosedPage DEF PageInv
  <2> QED BY <1>1, <1>4, <2>1, <2>3 DEF ChatInv
<1>10. CASE Poll
  <2>1. UNCHANGED <<answer, load, hasty>>
    BY <1>10 DEF Poll, qaVars
  <2> QED BY <1>1, <1>4, <1>10, <2>1, PollPage DEF ChatInv
<1>11. CASE LoadServed \/ LoadDone \/ LoadFails
  <2>1. UNCHANGED <<answer, hasty>> /\ (LoadServed \/ load' = Loaded)
    BY <1>11 DEF LoadServed, LoadDone, LoadFails, qaVars
  <2> QED BY <1>1, <1>4, <1>11, <2>1, LoadPage DEF ChatInv
<1>12. CASE Send
  <2>1. UNCHANGED <<answer, load>> /\ (~hasty' => ~hasty /\ load.phase = "none")
    BY <1>12 DEF Send, qaVars
  <2> QED BY <1>1, <1>4, <1>12, <2>1, SendPage DEF ChatInv
<1>13. CASE Reopen
  <2>1. UNCHANGED answer /\ shown' = <<>> /\ ctl' = Idle /\ load' = Loading /\ ctl'.phase = "idle"
    BY <1>13 DEF Reopen, serverButGone, channels, Idle
  <2>2. PageInv'
    BY <2>1 DEF PageInv
  <2> QED BY <1>1, <1>4, <2>1, <2>2 DEF ChatInv
<1>14. CASE ConnectFails
  <2>1. UNCHANGED <<answer, load, hasty, shown, isSending>> /\ Reconnect /\ ctl.phase \in {"connecting", "waiting"}
    BY <1>14 DEF ConnectFails, serverButGone, channels
  <2>2. PageInv => PageInv'
    BY <2>1, ReconnectedPage
  <2> QED BY <1>1, <1>4, <2>1, <2>2 DEF ChatInv
<1> QED BY <1>2, <1>5, <1>6, <1>7, <1>8, <1>9, <1>10, <1>11, <1>12, <1>13, <1>14
        DEF Next, Gateway, AiService, Client, Fault, ClientStep, User, ClientFault

LEMMA ChatInit == Init => ChatInv
<1> SUFFICES ASSUME Init PROVE ChatInv
  OBVIOUS
<1>1. shown = <<>> /\ ctl = Idle /\ load = Loaded /\ ctl.phase = "idle" /\ load.phase = "none"
  BY DEF Init, ClientInit, Idle, Loaded
<1>2. PageInv /\ LoadInv
  BY <1>1 DEF PageInv, LoadInv
<1> QED BY <1>2, ServerInit DEF ChatInv

(* stream, the SSE client and ChatNotifier together: what the page shows   *)
(* of an answer is a beginning of what the gateway has collected and will  *)
(* save, whatever breaks, is tried again, cancelled or opened anew (a page *)
(* that was asked a question before it had loaded is excepted), and what   *)
(* was collected has no gap unless flushEvent dropped an event.            *)
THEOREM ShownCollected == Spec => []ShownIsCollected
<1>1. Init => ServerTypes /\ ClientTypes /\ ChatInv
  BY TypesInit, ChatInit
<1>2. ServerTypes /\ ClientTypes /\ ChatInv /\ [Next]_chatVars => (ServerTypes /\ ClientTypes /\ ChatInv)'
  BY ServerTypesStep, ClientTypesStep, ChatInvStep
<1>3. ServerTypes /\ ClientTypes /\ ChatInv => ShownIsCollected
  <2> SUFFICES ASSUME ServerTypes, ChatInv PROVE ShownIsCollected
    OBVIOUS
  <2>1. ~hasty => \A i \in 1..Len(shown) : \A a \in Ask : IsPrefix(shown[i].parts[a], answer[a])
    BY DEF ChatInv, PageInv
  <2>2. ASSUME NEW a \in Ask \ dropped PROVE answer[a] = [i \in 1..Len(answer[a]) |-> i]
    <3>1. \A i \in 1..Len(answer[a]) : answer[a][i] = i
      BY <2>2 DEF ChatInv, ServerInv, RequestInv, NumbersInv
    <3>2. answer[a] \in Seq(Nat)
      BY DEF ServerTypes
    <3> QED BY <3>1, <3>2
  <2> QED BY <2>1, <2>2 DEF ShownIsCollected
<1> QED BY <1>1, <1>2, <1>3, PTL DEF Spec
=============================================================================
