------------------------ MODULE AnswerServiceProofs ------------------------
(***************************************************************************)
(* Proofs about the answers of the AI service (AnswerService), for any     *)
(* number of requests, any configuration and anything the model, the       *)
(* stores and the web search may answer: the shape of every response, what *)
(* its citations point at, what the long-term memory holds, and the safety *)
(* part of the contract with the gateway.                                  *)
(***************************************************************************)
EXTENDS AnswerService, FiniteSetTheorems, TLAPS

-----------------------------------------------------------------------------
(* TYPES                                                                   *)

Citation == [index : Nat, original : Nat, resource : STRING]
Code == (CompleteResult \ {"ok"})
        \cup {StreamStart(wire) : wire \in Wire}
        \cup {"AGENT_LLM_ERROR", "FORBIDDEN", "RETRIEVAL_UNAVAILABLE", "LLM_TIMEOUT",
              "LLM_STREAM_ERROR"}

NodeName == {"intent", "retrieve", "validate"} \cup Intents \cup {""}

Event ==
    [type : {"node_start", "node_end"}, node : NodeName]
    \cup [type : {"chunk"}, piece : Nat, index : Nat]
    \cup [type : {"reasoning"}, index : Nat]
    \cup [type : {"citation"}, cite : Citation]
    \cup [type : {"done"}, count : Nat]
    \cup [type : {"error"}, code : Code]

AgentLabel == {"memory", "intent", "retrieve", "generate", "search", "acquired",
               "drafted", "remember", "done"}
QaLabel == {"qa_retrieve", "save_turn"}
Label == {"idle", "stream", "cite", "over", "left"} \cup AgentLabel \cup QaLabel

(* The labels of a response that has begun to cite, and the last ones.     *)
Citing == {"cite", "remember", "done"}
Final == {"over", "save_turn", "left"}

Types ==
    /\ settings \in SettingsShape
    /\ req \in [Req -> RequestShape]
    /\ pc \in [Req -> Label]
    /\ \A r \in Req : IF IsAgent(r) THEN pc[r] \notin QaLabel ELSE pc[r] \notin AgentLabel
    /\ intent \in [Req -> Intents \cup {""}]
    /\ chunks \in [Req -> Seq(STRING)]
    /\ answer \in [Req -> Seq(Nat)]
    /\ log \in [Req -> Seq(Event)]
    /\ memory \subseteq [run : Req, text : Seq(Nat)]
    /\ context \in [Req -> SUBSET memory]
    /\ before \in [Req -> SUBSET Req]
    /\ trouble \subseteq Req

-----------------------------------------------------------------------------
(* THE INDUCTIVE INVARIANT                                                 *)

(* The node n is open in a response: only text came since it began.        *)
Open(events, n) ==
    \E j \in At(events, {"node_start"}) :
       /\ events[j].node = n
       /\ \A k \in (j + 1)..Len(events) : events[k].type \in {"chunk", "reasoning"}

(* The citations a request has or will have.                               *)
citations(r) == IF IsAgent(r) THEN agent_citations(r) ELSE qa_citations(r)

(* A response goes on until its end; its node stays open while text comes; *)
(* what was collected is what was streamed; the citations sent are the     *)
(* first of those the answer has.                                          *)
StreamInv(r) ==
    /\ WellFormed(log[r])
    /\ pc[r] \notin Final => At(log[r], {"done", "error"}) = {}
    /\ pc[r] \in {"idle", "memory"} => log[r] = <<>>
    /\ IsAgent(r) /\ pc[r] \in {"search", "acquired", "stream", "drafted"} =>
          Open(log[r], intent[r])
    /\ pc[r] \in {"idle", "memory", "intent", "retrieve", "qa_retrieve", "generate",
                  "search", "acquired"} => answer[r] = <<>>
    /\ pc[r] \notin {"over", "left"} => IsStreamed(answer[r], log[r])
    /\ pc[r] \notin Citing \cup Final => At(log[r], {"citation"}) = {}
    /\ pc[r] \in Citing =>
          /\ Count("citation", log[r]) <= Len(citations(r))
          /\ \A i \in At(log[r], {"citation"}) :
                \E k \in 1..Count("citation", log[r]) : log[r][i].cite = citations(r)[k]
    /\ pc[r] \in {"remember", "done"} => Count("citation", log[r]) = Len(citations(r))
    /\ pc[r] = "save_turn" => At(log[r], {"error"}) = {}

(* A citation sent is grounded, and the chunks a request retrieved are of  *)
(* the resources it named.                                                 *)
Grounded(r) ==
    /\ \A i \in DOMAIN chunks[r] : chunks[r][i] \in req[r].resources
    /\ \A i \in At(log[r], {"citation"}) :
          LET c == log[r][i].cite
          IN  /\ c.original \in DOMAIN chunks[r]
              /\ chunks[r][c.original] = c.resource
              /\ \E j \in At(log[r], {"chunk"}) : log[r][j].piece = c.original

(* Only a request that is through has a turn in memory, and an agent that  *)
(* says done has, unless the memory failed it.                             *)
MemoryInv ==
    /\ RememberedWasShown
    /\ \A m \in memory : pc[m.run] \in {"done", "over"}
    /\ \A r \in Req : IsAgent(r) /\ (pc[r] = "done" \/ At(log[r], {"done"}) # {}) =>
          r \in trouble \/ \E m \in memory : m.run = r
    /\ \A r \in Req : \A s \in before[r] : At(log[s], {"done"}) # {}
    /\ NextTurnRemembers

AnswerInv == Types /\ (\A r \in Req : StreamInv(r) /\ Grounded(r)) /\ MemoryInv

-----------------------------------------------------------------------------
(* POSITIONS                                                               *)

LEMMA PrefixesDiffer ==
    ASSUME NEW S \in SUBSET Nat, IsFiniteSet(S), NEW i \in S, NEW l \in S, i < l
    PROVE  Cardinality({j \in S : j <= i}) < Cardinality({j \in S : j <= l})
<1> DEFINE A == {j \in S : j <= i}
           B == {j \in S : j <= l}
<1>1. IsFiniteSet(A) /\ IsFiniteSet(B)
  BY FS_Subset
<1>2. A \subseteq B /\ A # B
  <2>1. i \in Nat /\ l \in Nat /\ \A j \in S : j \in Nat
    OBVIOUS
  <2>2. \A j \in S : j <= i => j <= l
    BY <2>1
  <2>3. l <= l /\ ~(l <= i)
    BY <2>1
  <2> QED
    BY <2>2, <2>3, Zenon
<1>3. Cardinality(A) <= Cardinality(B) /\ (Cardinality(A) = Cardinality(B) => A = B)
  BY <1>1, <1>2, FS_Subset
<1>4. Cardinality(A) \in Nat /\ Cardinality(B) \in Nat
  BY <1>1, FS_CardinalityType
<1> HIDE DEF A, B
<1>5. Cardinality(A) < Cardinality(B)
  BY <1>2, <1>3, <1>4
<1> QED
  BY <1>5 DEF A, B

(* A finite set of numbers has a k-th element, and the k-th are in order.  *)
LEMMA NthExists ==
    ASSUME NEW S \in SUBSET Nat, IsFiniteSet(S), NEW k \in 1..Cardinality(S)
    PROVE  /\ Nth(S, k) \in S
           /\ Cardinality({j \in S : j <= Nth(S, k)}) = k
<1> DEFINE Upto(i) == {j \in S : j <= i}
           n == Cardinality(S)
           f == [i \in S |-> Cardinality(Upto(i))]
<1>1. n \in Nat
  BY FS_CardinalityType
<1>2. ASSUME NEW i \in S PROVE f[i] \in 1..n
  <2>1. IsFiniteSet(Upto(i)) /\ Cardinality(Upto(i)) <= n
    BY FS_Subset
  <2>2. Cardinality(Upto(i)) \in Nat
    BY <2>1, FS_CardinalityType
  <2>3. i \in Upto(i)
    BY SMT
  <2>4. Cardinality(Upto(i)) # 0
    BY <2>1, <2>3, FS_EmptySet
  <2> QED
    BY <1>1, <2>1, <2>2, <2>4
<1>3. f \in [S -> 1..n]
  BY <1>2
<1>4. ASSUME NEW i \in S, NEW l \in S, f[i] = f[l] PROVE i = l
  <2>1. CASE i < l
    <3>1. f[i] < f[l]
      BY <2>1, PrefixesDiffer
    <3> QED
      BY <1>1, <1>2, <1>4, <3>1
  <2>2. CASE l < i
    <3>1. f[l] < f[i]
      BY <2>2, PrefixesDiffer
    <3> QED
      BY <1>1, <1>2, <1>4, <3>1
  <2> QED
    BY <2>1, <2>2, SMT
<1>5. f \in Injection(S, 1..n)
  BY <1>3, <1>4 DEF Injection, IsInjective
<1>6. IsFiniteSet(1..n) /\ Cardinality(1..n) = n
  BY <1>1, FS_Interval
<1>7. f \in Surjection(S, 1..n)
  BY <1>5, <1>6, FS_Injection
<1>8. PICK i \in S : f[i] = k
  BY <1>7 DEF Surjection
<1>9. Cardinality({j \in S : j <= i}) = k
  BY <1>8
<1> QED
  BY <1>9 DEF Nth

LEMMA NthIncreases ==
    ASSUME NEW S \in SUBSET Nat, IsFiniteSet(S),
           NEW k \in 1..Cardinality(S), NEW l \in 1..Cardinality(S), k < l
    PROVE  Nth(S, k) < Nth(S, l)
<1> DEFINE m == Nth(S, k)
           n == Nth(S, l)
<1>1. /\ m \in S /\ Cardinality({j \in S : j <= m}) = k
      /\ n \in S /\ Cardinality({j \in S : j <= n}) = l
  BY NthExists
<1> HIDE DEF m, n
<1>2. k \in Nat /\ l \in Nat /\ m \in Nat /\ n \in Nat
  BY <1>1
<1>3. m # n
  BY <1>1, <1>2
<1>4. ~(n < m)
  BY <1>1, <1>2, PrefixesDiffer
<1>5. m < n
  BY <1>2, <1>3, <1>4
<1> QED
  BY <1>5 DEF m, n

-----------------------------------------------------------------------------
(* CITATIONS                                                               *)

LEMMA DomainFinite ==
    \A S : \A s \in Seq(S) : /\ Len(s) \in Nat /\ DOMAIN s = 1..Len(s)
                             /\ IsFiniteSet(DOMAIN s) /\ DOMAIN s \in SUBSET Nat
BY FS_Interval

LEMMA FormatFacts ==
    ASSUME NEW text \in Seq(Nat), NEW found \in Seq(STRING)
    PROVE  /\ Format(text, found) \in Seq(Citation)
           /\ \A k \in DOMAIN Format(text, found) :
                 LET c == Format(text, found)[k]
                 IN  /\ c.index = k /\ c.original \in 1..Len(found)
                     /\ c.resource = found[c.original]
                     /\ \E i \in DOMAIN text : text[i] = c.original
<1> DEFINE uses == first_uses(text, found)
           n == Cardinality(uses)
           Marker(k) == text[Nth(uses, k)]
           cites == [k \in 1..n |-> [index |-> k, original |-> Marker(k),
                                     resource |-> found[Marker(k)]]]
<1>1. IsFiniteSet(uses) /\ uses \in SUBSET Nat
  <2>1. uses \subseteq DOMAIN text
    BY DEF first_uses
  <2> QED
    BY <2>1, DomainFinite, FS_Subset
<1>2. n \in Nat
  BY <1>1, FS_CardinalityType
<1>3. ASSUME NEW k \in 1..n
      PROVE  /\ Nth(uses, k) \in DOMAIN text /\ Marker(k) \in 1..Len(found)
             /\ found[Marker(k)] \in STRING
  <2>1. Nth(uses, k) \in uses
    BY <1>1, NthExists
  <2>2. Nth(uses, k) \in DOMAIN text /\ Marker(k) \in 1..Len(found)
    BY <2>1 DEF first_uses
  <2> QED
    BY <2>2
<1> HIDE DEF n, Marker, uses
<1>4. \A k \in 1..n : cites[k] = [index |-> k, original |-> Marker(k),
                                  resource |-> found[Marker(k)]]
  OBVIOUS
<1>5. \A k \in 1..n : k \in Nat /\ Marker(k) \in Nat /\ found[Marker(k)] \in STRING
  BY <1>2, <1>3
<1>6. \A k \in 1..n : [index |-> k, original |-> Marker(k),
                       resource |-> found[Marker(k)]] \in Citation
  BY <1>5 DEF Citation
<1>7. cites \in [1..n -> Citation]
  BY <1>6
<1>8. cites \in Seq(Citation) /\ DOMAIN cites = 1..n
  BY <1>2, <1>7
<1>9. \A k \in 1..n : \E i \in DOMAIN text : text[i] = Marker(k)
  BY <1>3 DEF Marker
<1>10. Format(text, found) = cites
  BY DEF Format, n, Marker, uses
<1> HIDE DEF cites
<1> QED
  BY <1>3, <1>4, <1>8, <1>9, <1>10

(* What build_citations returns: grounded citations, numbered upwards.     *)
LEMMA CitationFacts ==
    ASSUME NEW text \in Seq(Nat), NEW found \in Seq(STRING), NEW named, NEW max \in Nat
    PROVE  LET cites == build_citations(text, found, named, max)
           IN  /\ cites \in Seq(Citation)
               /\ \A k \in DOMAIN cites :
                     /\ cites[k].original \in DOMAIN found
                     /\ cites[k].resource = found[cites[k].original]
                     /\ \E i \in DOMAIN text : text[i] = cites[k].original
               /\ \A k, l \in DOMAIN cites : k < l => cites[k].index < cites[l].index
<1> DEFINE formatted == Format(text, found)
           kept == {i \in DOMAIN formatted :
                       named = {} \/ formatted[i].resource \in named}
           limit == IF max < 1 THEN 1 ELSE max
           number == IF Cardinality(kept) > limit THEN limit ELSE Cardinality(kept)
           cites == [k \in 1..number |-> formatted[Nth(kept, k)]]
<1>1. /\ formatted \in Seq(Citation)
      /\ \A k \in DOMAIN formatted :
            LET c == formatted[k]
            IN  /\ c.index = k /\ c.original \in 1..Len(found)
                /\ c.resource = found[c.original]
                /\ \E i \in DOMAIN text : text[i] = c.original
  BY FormatFacts
<1> HIDE DEF formatted
<1>2. DOMAIN formatted \in SUBSET Nat /\ IsFiniteSet(DOMAIN formatted) /\ DOMAIN found = 1..Len(found)
  BY <1>1, DomainFinite
<1>3. kept \subseteq DOMAIN formatted /\ IsFiniteSet(kept) /\ kept \in SUBSET Nat
  BY <1>2, FS_Subset
<1> HIDE DEF kept
<1>4. Cardinality(kept) \in Nat
  BY <1>3, FS_CardinalityType
<1>5. number \in Nat /\ \A k \in 1..number : k \in 1..Cardinality(kept)
  BY <1>4
<1> HIDE DEF number
<1>6. \A k \in 1..number : Nth(kept, k) \in DOMAIN formatted
  BY <1>3, <1>5, NthExists
<1>7. \A k, l \in 1..number : k < l => Nth(kept, k) < Nth(kept, l)
  BY <1>3, <1>5, NthIncreases
<1>8. \A k \in 1..number : formatted[Nth(kept, k)] \in Citation
  BY <1>1, <1>6
<1>9. cites \in Seq(Citation) /\ DOMAIN cites = 1..number
  BY <1>5, <1>8
<1>10. \A k \in 1..number :
          /\ cites[k].original \in DOMAIN found
          /\ cites[k].resource = found[cites[k].original]
          /\ cites[k].index = Nth(kept, k)
          /\ \E i \in DOMAIN text : text[i] = cites[k].original
  BY <1>1, <1>2, <1>6
<1>11. CASE found = <<>>
  <2>1. build_citations(text, found, named, max) = <<>>
    BY <1>11 DEF build_citations
  <2> QED
    BY <2>1
<1>12. CASE found # <<>>
  <2>1. build_citations(text, found, named, max) = cites
    BY <1>12 DEF build_citations, validate, formatted, kept, number
  <2> HIDE DEF cites
  <2> QED
    BY <1>7, <1>9, <1>10, <2>1
<1> QED
  BY <1>11, <1>12

-----------------------------------------------------------------------------
(* ONE MORE EVENT                                                          *)

LEMMA AppendFacts ==
    \A S : \A s \in Seq(S), e \in S :
        /\ Append(s, e) \in Seq(S) /\ Len(s) \in Nat
        /\ Len(Append(s, e)) = Len(s) + 1
        /\ DOMAIN Append(s, e) = 1..(Len(s) + 1) /\ DOMAIN s = 1..Len(s)
        /\ \A i \in 1..Len(s) : Append(s, e)[i] = s[i]
        /\ Append(s, e)[Len(s) + 1] = e
OBVIOUS

LEMMA ConcatOne == \A S : \A s \in Seq(S), e \in S : s \o <<e>> = Append(s, e)
OBVIOUS

LEMMA ConcatNone == \A S : \A s \in Seq(S) : s \o <<>> = s
OBVIOUS

LEMMA ConcatAssociates ==
    \A S : \A s, t, u \in Seq(S) : (s \o t) \o u = s \o (t \o u)
OBVIOUS

LEMMA SeqExtensional ==
    ASSUME NEW S, NEW s \in Seq(S), NEW t \in Seq(S), Len(s) = Len(t),
           \A i \in 1..Len(s) : s[i] = t[i]
    PROVE  s = t
OBVIOUS

LEMMA ConcatTwo ==
    ASSUME NEW S, NEW s \in Seq(S), NEW d \in S, NEW e \in S
    PROVE  s \o <<d, e>> = Append(Append(s, d), e)
<1>1. <<d, e>> = <<d>> \o <<e>> /\ <<d>> \in Seq(S) /\ <<e>> \in Seq(S)
  <2>1. <<d>> \in Seq(S) /\ <<e>> \in Seq(S) /\ <<d, e>> \in Seq(S)
    OBVIOUS
  <2>2. Append(<<d>>, e) = <<d>> \o <<e>>
    BY <2>1, ConcatOne
  <2>3. Append(<<d>>, e) = <<d, e>>
    <3>1. PICK u : u = Append(<<d>>, e)
      OBVIOUS
    <3>2. PICK v : v = <<d, e>>
      OBVIOUS
    <3>3. u \in Seq(S) /\ Len(u) = 2 /\ u[1] = d /\ u[2] = e
      BY <3>1
    <3>4. v \in Seq(S) /\ Len(v) = 2 /\ v[1] = d /\ v[2] = e
      BY <3>2
    <3>5. u = v
      BY <3>3, <3>4, SeqExtensional
    <3> QED
      BY <3>1, <3>2, <3>5
  <2> QED
    BY <2>1, <2>2, <2>3, Zenon
<1>2. s \o (<<d>> \o <<e>>) = (s \o <<d>>) \o <<e>>
  BY ConcatAssociates
<1>3. s \o <<d>> = Append(s, d) /\ Append(s, d) \in Seq(S)
  BY ConcatOne, AppendFacts
<1>4. Append(s, d) \o <<e>> = Append(Append(s, d), e)
  BY <1>3, ConcatOne
<1> QED
  BY <1>1, <1>2, <1>3, <1>4

LEMMA AtFacts ==
    ASSUME NEW events \in Seq(Event), NEW types
    PROVE  /\ At(events, types) \subseteq 1..Len(events)
           /\ IsFiniteSet(At(events, types))
           /\ \A t : Count(t, events) = Cardinality(At(events, {t}))
           /\ \A t : Count(t, events) \in Nat
           /\ \A t : Count(t, events) = 0 <=> At(events, {t}) = {}
<1>1. \A ts : At(events, ts) \subseteq DOMAIN events
  BY DEF At
<1>2. \A ts : IsFiniteSet(At(events, ts))
  BY <1>1, DomainFinite, FS_Subset
<1>3. \A t : {i \in DOMAIN events : events[i].type = t} = At(events, {t})
  BY DEF At
<1>4. \A t : Count(t, events) = Cardinality(At(events, {t}))
  BY <1>3 DEF Count
<1> QED
  BY <1>1, <1>2, <1>4, DomainFinite, FS_CardinalityType, FS_EmptySet

LEMMA AtAppend ==
    ASSUME NEW events \in Seq(Event), NEW e \in Event, NEW types
    PROVE  /\ e.type \in types => At(Append(events, e), types) = At(events, types) \cup {Len(events) + 1}
           /\ e.type \notin types => At(Append(events, e), types) = At(events, types)
<1> DEFINE more == Append(events, e)
<1>1. /\ Len(events) \in Nat /\ DOMAIN more = 1..(Len(events) + 1)
      /\ DOMAIN events = 1..Len(events)
      /\ \A i \in 1..Len(events) : more[i] = events[i]
      /\ more[Len(events) + 1] = e
  BY AppendFacts
<1> HIDE DEF more
<1>2. \A i : i \in 1..(Len(events) + 1) <=> i \in 1..Len(events) \/ i = Len(events) + 1
  BY <1>1
<1>3. \A i : i \in At(more, types) <=> i \in DOMAIN more /\ more[i].type \in types
  BY DEF At
<1>4. \A i : i \in At(events, types) <=> i \in DOMAIN events /\ events[i].type \in types
  BY DEF At
<1>5. Len(events) + 1 \notin 1..Len(events)
  BY <1>1
<1>6. \A i : i \in At(more, types) <=>
                i \in At(events, types) \/ (i = Len(events) + 1 /\ e.type \in types)
  BY <1>1, <1>2, <1>3, <1>4, <1>5, Zenon
<1> QED
  BY <1>6 DEF more

LEMMA CountAppend ==
    ASSUME NEW events \in Seq(Event), NEW e \in Event, NEW t
    PROVE  /\ e.type = t => Count(t, Append(events, e)) = Count(t, events) + 1
           /\ e.type # t => Count(t, Append(events, e)) = Count(t, events)
<1> DEFINE A == At(events, {t})
<1>1. Append(events, e) \in Seq(Event) /\ Len(events) \in Nat
  BY AppendFacts
<1>2. Count(t, Append(events, e)) = Cardinality(At(Append(events, e), {t}))
  BY <1>1, AtFacts
<1>3. /\ Count(t, events) = Cardinality(A) /\ IsFiniteSet(A)
      /\ A \subseteq 1..Len(events)
  BY AtFacts
<1>4. Len(events) + 1 \notin A
  <2>1. Len(events) + 1 \notin 1..Len(events)
    BY <1>1
  <2> QED
    BY <1>3, <2>1, Zenon
<1>5. Cardinality(A \cup {Len(events) + 1}) = Cardinality(A) + 1
  BY <1>3, <1>4, FS_AddElement
<1>6. /\ e.type \in {t} => At(Append(events, e), {t}) = A \cup {Len(events) + 1}
      /\ e.type \notin {t} => At(Append(events, e), {t}) = A
  BY AtAppend
<1> HIDE DEF A
<1>7. e.type = t <=> e.type \in {t}
  OBVIOUS
<1> QED
  BY <1>2, <1>3, <1>5, <1>6, <1>7, Zenon

(* What may follow an unfinished response.                                 *)
Fits(events, e) ==
    /\ At(events, {"done", "error"}) = {}
    /\ e.type = "node_end" => Open(events, e.node)
    /\ e.type \in {"chunk", "reasoning"} =>
          e.index = Count(e.type, events) /\ At(events, {"citation"}) = {}
    /\ e.type = "citation" =>
          \A j \in At(events, {"citation"}) : events[j].cite.index < e.cite.index
    /\ e.type = "done" => e.count = Count("citation", events)

(* A well-formed response followed by such an event is well-formed.        *)
LEMMA WellAppend ==
    ASSUME NEW events \in Seq(Event), NEW e \in Event, WellFormed(events), Fits(events, e)
    PROVE  WellFormed(Append(events, e))
<1>1. PICK n \in Nat : n = Len(events)
  BY DomainFinite
<1>2. PICK more : more = Append(events, e)
  OBVIOUS
<1>3. /\ DOMAIN more = 1..(n + 1) /\ DOMAIN events = 1..n /\ Len(more) = n + 1
      /\ \A i \in 1..n : more[i] = events[i]
      /\ more[n + 1] = e
  BY <1>1, <1>2, AppendFacts
<1>4. \A types : /\ e.type \in types => At(more, types) = At(events, types) \cup {n + 1}
                 /\ e.type \notin types => At(more, types) = At(events, types)
  BY <1>1, <1>2, AtAppend
<1>5. \A types : At(events, types) \subseteq 1..n
  BY <1>1, AtFacts
<1>6. \A types : \A i \in At(more, types) :
          i \in At(events, types) \/ (i = n + 1 /\ e.type \in types)
  <2> SUFFICES ASSUME NEW types, NEW i \in At(more, types), i \notin At(events, types)
               PROVE  i = n + 1 /\ e.type \in types
    OBVIOUS
  <2>1. e.type \in types
    BY <1>4
  <2>2. i \in At(events, types) \cup {n + 1}
    BY <1>4, <2>1
  <2> QED
    BY <2>1, <2>2
<1>7. \A i \in 1..n : i \in Nat /\ i < n + 1 /\ i # n + 1
  BY <1>1
<1>8. OneEnd(more)
  <2>1. \A i \in At(more, {"done", "error"}) : i = n + 1
    BY <1>6, Zenon DEF Fits
  <2> QED
    BY <1>3, <2>1 DEF OneEnd
<1>9. NodesNest(more)
  <2> SUFFICES ASSUME NEW i \in At(more, {"node_end"})
               PROVE  \E j \in At(more, {"node_start"}) :
                         /\ j < i /\ more[j].node = more[i].node
                         /\ \A k \in (j + 1)..(i - 1) : more[k].type \in {"chunk", "reasoning"}
    BY DEF NodesNest
  <2>1. \A j \in At(events, {"node_start"}) : j \in At(more, {"node_start"}) /\ j \in 1..n
    BY <1>4, <1>5, Zenon
  <2>2. CASE i \in At(events, {"node_end"})
    <3>1. PICK j \in At(events, {"node_start"}) :
             /\ j < i /\ events[j].node = events[i].node
             /\ \A k \in (j + 1)..(i - 1) : events[k].type \in {"chunk", "reasoning"}
      BY <2>2 DEF WellFormed, NodesNest
    <3>2. i \in 1..n /\ j \in 1..n
      BY <1>5, <2>1, <2>2, Zenon
    <3>3. \A k \in (j + 1)..(i - 1) : k \in 1..n
      BY <1>1, <3>2
    <3> QED
      BY <1>3, <2>1, <3>1, <3>2, <3>3
  <2>3. CASE i = n + 1 /\ e.type = "node_end"
    <3>1. PICK j \in At(events, {"node_start"}) :
             /\ events[j].node = e.node
             /\ \A k \in (j + 1)..n : events[k].type \in {"chunk", "reasoning"}
      BY <1>1, <2>3 DEF Fits, Open
    <3>2. j \in 1..n
      BY <2>1
    <3>3. \A k \in (j + 1)..(i - 1) : k \in 1..n /\ k \in (j + 1)..n
      BY <1>1, <2>3, <3>2
    <3>4. j < i
      BY <1>1, <2>3, <3>2
    <3> QED
      BY <1>3, <2>1, <2>3, <3>1, <3>2, <3>3, <3>4
  <2> QED
    BY <1>6, <2>2, <2>3, Zenon
<1>10. Numbered(more)
  <2> SUFFICES ASSUME NEW t \in {"chunk", "reasoning"}, NEW i \in At(more, {t})
               PROVE  more[i].index = Cardinality({j \in At(more, {t}) : j < i})
    BY DEF Numbered
  <2>1. CASE i \in At(events, {t})
    <3>1. i \in 1..n
      BY <1>5, <2>1, Zenon
    <3>2. events[i].index = Cardinality({j \in At(events, {t}) : j < i})
      BY <2>1 DEF WellFormed, Numbered
    <3>3. ~(n + 1 < i)
      BY <1>1, <3>1
    <3>4. {j \in At(more, {t}) : j < i} = {j \in At(events, {t}) : j < i}
      BY <1>4, <3>3, Zenon
    <3> QED
      BY <1>3, <3>1, <3>2, <3>4
  <2>2. CASE i = n + 1 /\ e.type = t
    <3>1. e.index = Count(t, events)
      BY <2>2 DEF Fits
    <3>2. Count(t, events) = Cardinality(At(events, {t}))
      BY AtFacts
    <3>3. At(more, {t}) = At(events, {t}) \cup {i}
      BY <1>4, <2>2, Zenon
    <3>4. ~(i < i) /\ \A j \in At(events, {t}) : j < i
      BY <1>1, <1>5, <1>7, <2>2
    <3>5. {j \in At(more, {t}) : j < i} = At(events, {t})
      BY <3>3, <3>4, Zenon
    <3> QED
      BY <1>3, <2>2, <3>1, <3>2, <3>5
  <2> QED
    BY <1>6, <2>1, <2>2, Zenon
<1>11. CitationsOrdered(more)
  <2>1. ASSUME NEW i \in At(more, {"citation"}), NEW j \in At(more, {"chunk", "reasoning"})
        PROVE  j < i
    <3>1. CASE j \in At(events, {"chunk", "reasoning"}) /\ i \in At(events, {"citation"})
      BY <3>1 DEF WellFormed, CitationsOrdered
    <3>2. CASE j \in At(events, {"chunk", "reasoning"}) /\ i = n + 1
      BY <1>5, <1>7, <3>2
    <3>3. CASE j = n + 1 /\ e.type \in {"chunk", "reasoning"}
      <4>1. i \in At(events, {"citation"}) \/ e.type = "citation"
        BY <1>6, Zenon
      <4>2. e.type # "citation"
        BY <3>3
      <4> QED
        BY <3>3, <4>1, <4>2 DEF Fits
    <3> QED
      BY <1>6, <3>1, <3>2, <3>3, Zenon
  <2>2. ASSUME NEW i \in At(more, {"citation"}), NEW j \in At(more, {"citation"}), j < i
        PROVE  more[j].cite.index < more[i].cite.index
    <3>1. CASE i \in At(events, {"citation"}) /\ j \in At(events, {"citation"})
      <4>1. i \in 1..n /\ j \in 1..n
        BY <1>5, <3>1, Zenon
      <4>2. events[j].cite.index < events[i].cite.index
        BY <2>2, <3>1 DEF WellFormed, CitationsOrdered
      <4> QED
        BY <1>3, <4>1, <4>2
    <3>2. CASE i = n + 1 /\ e.type = "citation" /\ j \in At(events, {"citation"})
      <4>1. j \in 1..n
        BY <1>5, <3>2, Zenon
      <4>2. events[j].cite.index < e.cite.index
        BY <3>2 DEF Fits
      <4> QED
        BY <1>3, <3>2, <4>1, <4>2
    <3>3. CASE j = n + 1
      <4>1. i \in 1..n \/ i = n + 1
        BY <1>5, <1>6, Zenon
      <4> QED
        BY <1>1, <2>2, <3>3, <4>1
    <3> QED
      BY <1>6, <3>1, <3>2, <3>3, Zenon
  <2>3. ASSUME NEW i \in At(more, {"done"})
        PROVE  more[i].count = Count("citation", more)
    <3>1. i \notin At(events, {"done"})
      BY DEF Fits, At
    <3>2. i = n + 1 /\ e.type = "done"
      BY <1>6, <3>1, Zenon
    <3>3. Count("citation", more) = Count("citation", events)
      BY <1>2, <3>2, CountAppend
    <3> QED
      BY <1>3, <3>2, <3>3 DEF Fits
  <2> QED
    BY <2>1, <2>2, <2>3 DEF CitationsOrdered
<1> QED
  BY <1>2, <1>8, <1>9, <1>10, <1>11 DEF WellFormed

-----------------------------------------------------------------------------
(* TEXT                                                                    *)

LEMMA EventTypes ==
    /\ \A n \in NodeName : /\ NodeStart(n) \in Event /\ NodeStart(n).type = "node_start"
                         /\ NodeStart(n).node = n
                         /\ NodeEnd(n) \in Event /\ NodeEnd(n).type = "node_end"
                         /\ NodeEnd(n).node = n
    /\ \A p, i \in Nat : /\ ChunkEvent(p, i) \in Event /\ ChunkEvent(p, i).type = "chunk"
                         /\ ChunkEvent(p, i).piece = p /\ ChunkEvent(p, i).index = i
    /\ \A i \in Nat : /\ ReasoningEvent(i) \in Event /\ ReasoningEvent(i).type = "reasoning"
                      /\ ReasoningEvent(i).index = i
    /\ \A c \in Citation : /\ CitationEvent(c) \in Event /\ CitationEvent(c).type = "citation"
                           /\ CitationEvent(c).cite = c
    /\ \A n \in Nat : /\ DoneEvent(n) \in Event /\ DoneEvent(n).type = "done"
                      /\ DoneEvent(n).count = n
    /\ \A code \in Code : ErrorEvent(code) \in Event /\ ErrorEvent(code).type = "error"
BY DEF Event, NodeStart, NodeEnd, ChunkEvent, ReasoningEvent, CitationEvent, DoneEvent,
       ErrorEvent

(* Text keeps a node open.                                                 *)
LEMMA OpenAppend ==
    ASSUME NEW events \in Seq(Event), NEW e \in Event, NEW n,
           e.type \in {"chunk", "reasoning"}, Open(events, n)
    PROVE  Open(Append(events, e), n)
<1>1. PICK l \in Nat : l = Len(events)
  BY DomainFinite
<1>2. PICK more : more = Append(events, e)
  OBVIOUS
<1>3. /\ DOMAIN events = 1..l /\ DOMAIN more = 1..(l + 1) /\ Len(more) = l + 1
      /\ \A i \in 1..l : more[i] = events[i]
      /\ more[l + 1] = e
  BY <1>1, <1>2, AppendFacts
<1>4. PICK j \in At(events, {"node_start"}) :
         /\ events[j].node = n
         /\ \A k \in (j + 1)..l : events[k].type \in {"chunk", "reasoning"}
  BY <1>1 DEF Open
<1>5. j \in 1..l /\ events[j].type \in {"node_start"}
  BY <1>3, <1>4 DEF At
<1>6. j \in At(more, {"node_start"}) /\ more[j].node = n
  BY <1>3, <1>4, <1>5 DEF At
<1>7. \A k \in (j + 1)..(l + 1) : k = l + 1 \/ (k \in (j + 1)..l /\ k \in 1..l)
  BY <1>5
<1>8. \A k \in (j + 1)..(l + 1) : more[k].type \in {"chunk", "reasoning"}
  BY <1>3, <1>4, <1>7
<1> QED
  BY <1>2, <1>3, <1>6, <1>8 DEF Open

(* A node that begins is open.                                             *)
LEMMA StartOpens ==
    ASSUME NEW events \in Seq(Event), NEW n \in NodeName
    PROVE  Open(Append(events, NodeStart(n)), n)
<1>1. PICK l \in Nat : l = Len(events)
  BY DomainFinite
<1>2. PICK more : more = Append(events, NodeStart(n))
  OBVIOUS
<1>3. NodeStart(n) \in Event /\ NodeStart(n).type = "node_start" /\ NodeStart(n).node = n
  BY EventTypes
<1>4. DOMAIN more = 1..(l + 1) /\ Len(more) = l + 1 /\ more[l + 1] = NodeStart(n)
  BY <1>1, <1>2, <1>3, AppendFacts
<1>5. l + 1 \in At(more, {"node_start"}) /\ \A k \in (l + 1 + 1)..(l + 1) : FALSE
  BY <1>1, <1>3, <1>4 DEF At
<1> QED
  BY <1>2, <1>3, <1>4, <1>5 DEF Open

(* Other events leave the text as it is.                                   *)
LEMMA StreamedOther ==
    ASSUME NEW events \in Seq(Event), NEW e \in Event, NEW text, e.type # "chunk",
           IsStreamed(text, events)
    PROVE  IsStreamed(text, Append(events, e))
<1>1. Count("chunk", Append(events, e)) = Count("chunk", events)
  BY CountAppend
<1>2. At(Append(events, e), {"chunk"}) = At(events, {"chunk"})
  BY AtAppend
<1>3. \A j \in At(events, {"chunk"}) : Append(events, e)[j] = events[j]
  BY AppendFacts, AtFacts
<1> QED
  BY <1>1, <1>2, <1>3 DEF IsStreamed

LEMMA StreamedChunk ==
    ASSUME NEW events \in Seq(Event), NEW text \in Seq(Nat), NEW p \in Nat,
           IsStreamed(text, events)
    PROVE  IsStreamed(Append(text, p), Append(events, ChunkEvent(p, Count("chunk", events))))
<1>1. PICK n \in Nat : n = Count("chunk", events)
  BY AtFacts
<1>2. PICK e : e = ChunkEvent(p, n)
  OBVIOUS
<1>3. e \in Event /\ e.type = "chunk" /\ e.piece = p /\ e.index = n
  BY <1>1, <1>2, EventTypes
<1>4. PICK more : more = Append(events, e)
  OBVIOUS
<1>5. PICK l \in Nat : l = Len(events)
  BY DomainFinite
<1>6. /\ DOMAIN events = 1..l /\ \A j \in 1..l : more[j] = events[j]
      /\ more[l + 1] = e
  BY <1>3, <1>4, <1>5, AppendFacts
<1>7. Count("chunk", more) = n + 1
  BY <1>1, <1>3, <1>4, CountAppend
<1>8. At(more, {"chunk"}) = At(events, {"chunk"}) \cup {l + 1}
  BY <1>3, <1>4, <1>5, AtAppend
<1>9. Len(text) = n
  BY <1>1 DEF IsStreamed
<1>10. PICK longer : longer = Append(text, p)
  OBVIOUS
<1>11. /\ Len(longer) = n + 1 /\ DOMAIN longer = 1..(n + 1) /\ DOMAIN text = 1..n
       /\ \A i \in 1..n : longer[i] = text[i]
       /\ longer[n + 1] = p
  BY <1>9, <1>10, AppendFacts
<1>12. ASSUME NEW i \in 1..(n + 1)
       PROVE  \E j \in At(more, {"chunk"}) : more[j].index = i - 1 /\ more[j].piece = longer[i]
  <2>1. CASE i = n + 1
    <3>1. l + 1 \in At(more, {"chunk"}) /\ more[l + 1].index = i - 1
      BY <1>3, <1>6, <1>8, <2>1
    <3> QED
      BY <1>3, <1>6, <1>11, <2>1, <3>1
  <2>2. CASE i # n + 1
    <3>1. i \in 1..n
      BY <2>2
    <3>2. PICK j \in At(events, {"chunk"}) : events[j].index = i - 1 /\ events[j].piece = text[i]
      BY <1>11, <3>1 DEF IsStreamed
    <3>3. j \in 1..l
      BY <1>6, <3>2 DEF At
    <3> QED
      BY <1>6, <1>8, <1>11, <3>1, <3>2, <3>3
  <2> QED
    BY <2>1, <2>2
<1>13. IsStreamed(longer, more)
  BY <1>7, <1>11, <1>12 DEF IsStreamed
<1> QED
  BY <1>1, <1>2, <1>4, <1>10, <1>13

(* A response that may get more text.                                      *)
Streaming(events, text) ==
    /\ WellFormed(events)
    /\ At(events, {"done", "error"}) = {} /\ At(events, {"citation"}) = {}
    /\ IsStreamed(text, events)

LEMMA ChunkStep ==
    ASSUME NEW events \in Seq(Event), NEW text \in Seq(Nat), NEW p \in Nat,
           Streaming(events, text)
    PROVE  LET e == ChunkEvent(p, Count("chunk", events))
           IN  /\ e \in Event
               /\ Streaming(Append(events, e), Append(text, p))
               /\ \A n : Open(events, n) => Open(Append(events, e), n)
<1>1. Count("chunk", events) \in Nat
  BY AtFacts
<1>2. PICK e : e = ChunkEvent(p, Count("chunk", events))
  OBVIOUS
<1>3. e \in Event /\ e.type = "chunk" /\ e.index = Count("chunk", events)
  BY <1>1, <1>2, EventTypes
<1>4. Fits(events, e)
  BY <1>3 DEF Fits, Streaming
<1>5. WellFormed(Append(events, e))
  BY <1>3, <1>4, WellAppend DEF Streaming
<1>6. /\ At(Append(events, e), {"done", "error"}) = {}
      /\ At(Append(events, e), {"citation"}) = {}
  BY <1>3, AtAppend DEF Streaming
<1>7. IsStreamed(Append(text, p), Append(events, e))
  BY <1>2, StreamedChunk DEF Streaming
<1>8. \A n : Open(events, n) => Open(Append(events, e), n)
  BY <1>3, OpenAppend
<1> QED
  BY <1>2, <1>3, <1>5, <1>6, <1>7, <1>8 DEF Streaming

LEMMA ReasoningStep ==
    ASSUME NEW events \in Seq(Event), NEW text \in Seq(Nat), Streaming(events, text)
    PROVE  LET e == ReasoningEvent(Count("reasoning", events))
           IN  /\ e \in Event
               /\ Streaming(Append(events, e), text)
               /\ \A n : Open(events, n) => Open(Append(events, e), n)
<1>1. Count("reasoning", events) \in Nat
  BY AtFacts
<1>2. PICK e : e = ReasoningEvent(Count("reasoning", events))
  OBVIOUS
<1>3. e \in Event /\ e.type = "reasoning" /\ e.index = Count("reasoning", events)
  BY <1>1, <1>2, EventTypes
<1>4. Fits(events, e)
  BY <1>3 DEF Fits, Streaming
<1>5. WellFormed(Append(events, e))
  BY <1>3, <1>4, WellAppend DEF Streaming
<1>6. /\ At(Append(events, e), {"done", "error"}) = {}
      /\ At(Append(events, e), {"citation"}) = {}
  BY <1>3, AtAppend DEF Streaming
<1>7. IsStreamed(text, Append(events, e))
  BY <1>3, StreamedOther DEF Streaming
<1>8. \A n : Open(events, n) => Open(Append(events, e), n)
  BY <1>3, OpenAppend
<1> QED
  BY <1>2, <1>3, <1>5, <1>6, <1>7, <1>8 DEF Streaming

(* What a parsed chunk of the model is: one piece of text or none, perhaps *)
(* with reasoning.                                                         *)
Parsed(c) ==
    /\ c.delta = <<>> \/ \E p \in Nat : c.delta = <<p>>
    /\ c.reasoning \in BOOLEAN /\ c.finish \in {"none", "stop", "error"}

LEMMA ParsedChunks ==
    /\ Parsed(ErrorChunk) /\ ErrorChunk.finish = "error" /\ ErrorChunk.delta = <<>>
    /\ ~ErrorChunk.reasoning
    /\ \A provider : \A raw \in Raw : Parsed(parse_stream_chunk(provider, raw))
<1>1. ASSUME NEW provider, NEW raw \in Raw PROVE Parsed(parse_stream_chunk(provider, raw))
  <2>1. CASE raw = NoChoices
    BY <2>1 DEF NoChoices, parse_stream_chunk, Chunk, Parsed
  <2>2. CASE raw # NoChoices
    <3>1. PICK content \in {<<>>} \cup {<<t>> : t \in Text}, reasoning \in BOOLEAN,
               finish \in {"none", "stop", "error"} : raw = Choice(content, reasoning, finish)
      BY <2>2, AnsweringAssumption
    <3>2. parse_stream_chunk(provider, raw)
             = Chunk(content, reasoning /\ provider # "zhipuai", finish)
      BY <3>1 DEF Choice, parse_stream_chunk
    <3>3. \A t \in Text : t \in Nat
      BY AnsweringAssumption
    <3>4. content = <<>> \/ \E p \in Nat : content = <<p>>
      BY <3>3
    <3> QED
      BY <3>2, <3>4 DEF Chunk, Parsed
  <2> QED
    BY <2>1, <2>2
<1> QED
  BY <1>1 DEF ErrorChunk, Chunk, Parsed

(* The events of one chunk of the model keep a response well-formed and    *)
(* its text what was collected.                                            *)
LEMMA ContentStep ==
    ASSUME NEW r \in Req, log[r] \in Seq(Event), NEW text \in Seq(Nat), NEW c, Parsed(c),
           Streaming(log[r], text)
    PROVE  LET more == log[r] \o ContentEvents(r, c)
           IN  /\ ContentEvents(r, c) \in Seq(Event) /\ more \in Seq(Event)
               /\ text \o c.delta \in Seq(Nat)
               /\ Streaming(more, text \o c.delta)
               /\ \A n : Open(log[r], n) => Open(more, n)
<1> DEFINE index == Count("chunk", log[r])
           pieces == [i \in DOMAIN c.delta |-> ChunkEvent(c.delta[i], index)]
           thought == IF c.reasoning THEN <<ReasoningEvent(Count("reasoning", log[r]))>>
                                     ELSE <<>>
           R == ReasoningEvent(Count("reasoning", log[r]))
<1>1. ContentEvents(r, c) = pieces \o thought
  BY DEF ContentEvents
<1>2. PICK events \in Seq(Event) : events = log[r]
  OBVIOUS
<1>3. index \in Nat /\ Count("reasoning", events) \in Nat
  BY <1>2, AtFacts
<1>4. R \in Event
  BY <1>2, <1>3, EventTypes
<1>5. <<R>> \in Seq(Event) /\ <<>> \o <<R>> = <<R>>
  <2> HIDE DEF R
  <2> QED
    BY <1>4
<1>6. (c.reasoning => thought = <<R>>) /\ (~c.reasoning => thought = <<>>)
  OBVIOUS
<1> HIDE DEF thought
<1>7. CASE c.delta = <<>>
  <2>1. pieces = <<>> /\ text \o c.delta = text
    BY <1>7
  <2>2. CASE c.reasoning
    <3>1. ContentEvents(r, c) = <<R>> /\ <<R>> \in Seq(Event)
      BY <1>1, <1>5, <1>6, <2>1, <2>2, Zenon
    <3>2. events \o <<R>> = Append(events, R) /\ Append(events, R) \in Seq(Event)
      BY <1>4, ConcatOne, AppendFacts
    <3>3. Streaming(Append(events, R), text) /\ \A n : Open(events, n) => Open(Append(events, R), n)
      BY <1>2, ReasoningStep
    <3> HIDE DEF R
    <3> QED
      BY <1>2, <2>1, <3>1, <3>2, <3>3
  <2>3. CASE ~c.reasoning
    <3>1. ContentEvents(r, c) = <<>>
      BY <1>1, <1>6, <2>1, <2>3
    <3>2. events \o <<>> = events
      BY ConcatNone
    <3> QED
      BY <1>2, <2>1, <3>1, <3>2
  <2> QED
    BY <2>2, <2>3 DEF Parsed
<1>8. CASE \E p \in Nat : c.delta = <<p>>
  <2>1. PICK p \in Nat : c.delta = <<p>>
    BY <1>8
  <2>2. PICK C : C = ChunkEvent(p, index)
    OBVIOUS
  <2>3. pieces = <<C>>
    BY <2>1, <2>2
  <2>4. text \o c.delta = Append(text, p) /\ Append(text, p) \in Seq(Nat)
    BY <2>1, ConcatOne, AppendFacts
  <2>5. C \in Event /\ C.type = "chunk"
    BY <1>2, <1>3, <2>2, EventTypes
  <2>6. PICK mid : mid = Append(events, C)
    OBVIOUS
  <2>7. events \o <<C>> = mid /\ mid \in Seq(Event) /\ <<C>> \in Seq(Event)
    BY <2>5, <2>6, ConcatOne, AppendFacts
  <2>8. Streaming(mid, Append(text, p)) /\ \A n : Open(events, n) => Open(mid, n)
    BY <1>2, <2>2, <2>6, ChunkStep
  <2>9. CASE c.reasoning
    <3>1. Count("reasoning", mid) = Count("reasoning", events)
      BY <2>5, <2>6, CountAppend
    <3>2. R = ReasoningEvent(Count("reasoning", mid))
      BY <1>2, <3>1
    <3>3. Streaming(Append(mid, R), Append(text, p)) /\ \A n : Open(mid, n) => Open(Append(mid, R), n)
      BY <2>4, <2>7, <2>8, <3>2, ReasoningStep
    <3>4. ContentEvents(r, c) = <<C>> \o <<R>> /\ <<R>> \in Seq(Event)
      BY <1>1, <1>5, <1>6, <2>3, <2>9, Zenon
    <3> HIDE DEF R
    <3>5. <<C>> \o <<R>> \in Seq(Event)
      BY <2>7, <3>4
    <3>6. events \o (<<C>> \o <<R>>) = (events \o <<C>>) \o <<R>>
      BY <2>7, <3>4, ConcatAssociates
    <3>7. mid \o <<R>> = Append(mid, R) /\ Append(mid, R) \in Seq(Event)
      BY <1>4, <2>7, ConcatOne, AppendFacts DEF R
    <3>8. log[r] \o ContentEvents(r, c) = Append(mid, R)
      BY <1>2, <2>7, <3>4, <3>6, <3>7
    <3> QED
      BY <1>2, <2>4, <2>8, <3>3, <3>4, <3>5, <3>7, <3>8
  <2>10. CASE ~c.reasoning
    <3>1. ContentEvents(r, c) = <<C>>
      BY <1>1, <1>6, <2>3, <2>7, <2>10, ConcatNone
    <3> QED
      BY <1>2, <2>4, <2>7, <2>8, <3>1
  <2> QED
    BY <2>9, <2>10 DEF Parsed
<1> QED
  BY <1>7, <1>8 DEF Parsed

LEMMA NodeStep ==
    ASSUME NEW events \in Seq(Event), NEW text \in Seq(Nat), NEW e \in Event,
           e.type \in {"node_start", "node_end"},
           e.type = "node_end" => Open(events, e.node),
           Streaming(events, text)
    PROVE  Append(events, e) \in Seq(Event) /\ Streaming(Append(events, e), text)
<1>1. e.type \notin {"chunk", "reasoning", "citation", "done", "error"}
  OBVIOUS
<1>2. Fits(events, e)
  BY <1>1 DEF Fits, Streaming
<1>3. WellFormed(Append(events, e))
  BY <1>2, WellAppend DEF Streaming
<1>4. /\ At(Append(events, e), {"done", "error"}) = {}
      /\ At(Append(events, e), {"citation"}) = {}
  BY <1>1, AtAppend DEF Streaming
<1>5. IsStreamed(text, Append(events, e))
  BY <1>1, StreamedOther DEF Streaming
<1> QED
  BY <1>3, <1>4, <1>5, AppendFacts DEF Streaming

LEMMA ErrorStep ==
    ASSUME NEW events \in Seq(Event), NEW text, NEW code \in Code, Streaming(events, text)
    PROVE  LET more == Append(events, ErrorEvent(code))
           IN  /\ ErrorEvent(code) \in Event /\ more \in Seq(Event) /\ WellFormed(more)
               /\ At(more, {"citation"}) = {} /\ At(more, {"done"}) = {}
<1>1. PICK e \in Event : e = ErrorEvent(code) /\ e.type = "error"
  BY EventTypes
<1>2. Fits(events, e)
  BY <1>1 DEF Fits, Streaming
<1>3. WellFormed(Append(events, e))
  BY <1>2, WellAppend DEF Streaming
<1>4. At(events, {"done"}) = {}
  BY DEF Streaming, At
<1>5. At(Append(events, e), {"citation"}) = {} /\ At(Append(events, e), {"done"}) = {}
  BY <1>1, <1>4, AtAppend DEF Streaming
<1> QED
  BY <1>1, <1>3, <1>5, AppendFacts

LEMMA DoneStep ==
    ASSUME NEW events \in Seq(Event), WellFormed(events),
           At(events, {"done", "error"}) = {}
    PROVE  LET e == DoneEvent(Count("citation", events))
               more == Append(events, e)
           IN  /\ e \in Event /\ more \in Seq(Event) /\ WellFormed(more)
               /\ At(more, {"done"}) # {} /\ At(more, {"error"}) = {}
               /\ \A t \in {"citation", "chunk"} :
                     At(more, {t}) = At(events, {t}) /\ Count(t, more) = Count(t, events)
               /\ \A i \in At(events, {"citation", "chunk"}) : more[i] = events[i]
               /\ \A text : IsStreamed(text, events) => IsStreamed(text, more)
<1>1. Count("citation", events) \in Nat
  BY AtFacts
<1>2. PICK e \in Event : /\ e = DoneEvent(Count("citation", events)) /\ e.type = "done"
                         /\ e.count = Count("citation", events)
  BY <1>1, EventTypes
<1>3. Fits(events, e)
  BY <1>2 DEF Fits
<1>4. WellFormed(Append(events, e))
  BY <1>3, WellAppend
<1>5. At(events, {"error"}) = {}
  BY DEF At
<1>6. /\ At(Append(events, e), {"done"}) # {} /\ At(Append(events, e), {"error"}) = {}
      /\ \A t \in {"citation", "chunk"} : At(Append(events, e), {t}) = At(events, {t})
  <2>1. e.type \in {"done"} /\ e.type \notin {"error"}
    BY <1>2
  <2>2. \A t \in {"citation", "chunk"} : e.type \notin {t}
    BY <1>2
  <2>3. At(Append(events, e), {"done"}) = At(events, {"done"}) \cup {Len(events) + 1}
    BY <2>1, AtAppend
  <2>4. At(Append(events, e), {"error"}) = {}
    BY <1>5, <2>1, AtAppend
  <2>5. \A t \in {"citation", "chunk"} : At(Append(events, e), {t}) = At(events, {t})
    BY <2>2, AtAppend
  <2> QED
    BY <2>3, <2>4, <2>5
<1>7. \A t \in {"citation", "chunk"} : Count(t, Append(events, e)) = Count(t, events)
  BY <1>2, CountAppend
<1>8. \A i \in At(events, {"citation", "chunk"}) : Append(events, e)[i] = events[i]
  BY AppendFacts, AtFacts
<1>9. \A text : IsStreamed(text, events) => IsStreamed(text, Append(events, e))
  BY <1>2, StreamedOther
<1>10. Append(events, e) \in Seq(Event)
  BY AppendFacts
<1> QED
  BY <1>2, <1>4, <1>6, <1>7, <1>8, <1>9, <1>10

-----------------------------------------------------------------------------
(* THE STEPS                                                               *)

SameRequest(q) ==
    /\ pc'[q] = pc[q] /\ log'[q] = log[q] /\ intent'[q] = intent[q]
    /\ chunks'[q] = chunks[q] /\ answer'[q] = answer[q]

(* What a step of a request must establish about it.                       *)
Kept(r) ==
    /\ StreamInv(r)' /\ Grounded(r)'
    /\ At(log[r], {"done"}) # {} => At(log'[r], {"done"}) # {}
    /\ IsAgent(r) /\ At(log'[r], {"done"}) # {} => pc[r] = "done" \/ log'[r] = log[r]

LEMMA FrameRequest ==
    ASSUME NEW q \in Req, StreamInv(q), Grounded(q), SameRequest(q), req' = req
    PROVE  Kept(q)
<1>1. StreamInv(q)'
  BY DEF StreamInv, SameRequest, citations, agent_citations, qa_citations, draft_answer, IsAgent
<1>2. Grounded(q)'
  BY DEF Grounded, SameRequest
<1> QED
  BY <1>1, <1>2 DEF Kept, SameRequest

(* Until a response cites, it may get more text.                           *)
LEMMA BeforeCiting ==
    ASSUME NEW r \in Req, StreamInv(r), pc[r] \notin Citing \cup Final
    PROVE  Streaming(log[r], answer[r])
BY DEF StreamInv, Streaming, Final

LEMMA StillBefore ==
    ASSUME NEW r \in Req, Streaming(log'[r], answer'[r]),
           pc'[r] \notin Citing \cup Final,
           pc'[r] \notin {"idle", "memory"},
           pc'[r] \in {"intent", "retrieve", "qa_retrieve", "generate", "search", "acquired"}
              => answer'[r] = <<>>,
           IsAgent(r) /\ pc'[r] \in {"search", "acquired", "stream", "drafted"} =>
              Open(log'[r], intent'[r]),
           req' = req, \A i \in DOMAIN chunks'[r] : chunks'[r][i] \in req[r].resources
    PROVE  /\ StreamInv(r)' /\ Grounded(r)' /\ At(log'[r], {"done"}) = {}
<1>1. At(log'[r], {"done"}) = {}
  BY DEF Streaming, At
<1>2. StreamInv(r)'
  BY DEF StreamInv, Streaming, Citing, Final, IsAgent
<1>3. Grounded(r)'
  BY DEF Grounded, Streaming
<1> QED
  BY <1>1, <1>2, <1>3

LEMMA LabelKinds ==
    /\ \A p \in {"idle", "stream", "cite", "over", "left"} :
          p \in Label /\ p \notin QaLabel /\ p \notin AgentLabel
    /\ \A p \in AgentLabel : p \in Label /\ p \notin QaLabel
    /\ \A p \in QaLabel : p \in Label /\ p \notin AgentLabel
BY DEF Label, AgentLabel, QaLabel

LEMMA AgentBegins ==
    ASSUME Types, NEW r \in Req, StreamInv(r), Grounded(r), run_stream(r)
    PROVE  Types' /\ Kept(r)
<1> USE DEF run_stream, Goto
<1>1. pc[r] = "idle" /\ pc'[r] = "memory" /\ IsAgent(r) /\ IsAgent(r)'
  BY DEF Types, IsAgent
<1>2. "memory" \in Label /\ "memory" \notin QaLabel
  BY DEF Label, AgentLabel, QaLabel
<1>3. \A s \in Req : s \in before'[r] => s \in Req
  OBVIOUS
<1>4. Types'
  BY <1>1, <1>2 DEF Types, IsAgent
<1>5. log'[r] = log[r] /\ answer'[r] = answer[r] /\ chunks'[r] = chunks[r] /\ req' = req
  OBVIOUS
<1>6. StreamInv(r)'
  BY <1>1, <1>5 DEF StreamInv, Citing, Final
<1>7. Grounded(r)'
  BY <1>5 DEF Grounded
<1> QED
  BY <1>4, <1>5, <1>6, <1>7 DEF Kept

LEMMA MemoryLoads ==
    ASSUME Types, NEW r \in Req, StreamInv(r), Grounded(r), LoadMemory(r)
    PROVE  Types' /\ Kept(r)
<1> USE DEF LoadMemory, Goto
<1>1. pc[r] = "memory" /\ pc'[r] = "intent" /\ IsAgent(r)
  BY DEF Types
<1>2. "intent" \in Label /\ "intent" \notin QaLabel
  BY DEF Label, AgentLabel, QaLabel
<1>3. Types'
  BY <1>1, <1>2 DEF Types, IsAgent, load_context
<1>4. log'[r] = log[r] /\ answer'[r] = answer[r] /\ chunks'[r] = chunks[r] /\ req' = req
  OBVIOUS
<1>5. StreamInv(r)'
  BY <1>1, <1>4 DEF StreamInv, Citing, Final
<1>6. Grounded(r)'
  BY <1>4 DEF Grounded
<1> QED
  BY <1>3, <1>4, <1>5, <1>6 DEF Kept

(* A node that begins and ends at once.                                    *)
LEMMA NodeRuns ==
    ASSUME NEW events \in Seq(Event), NEW text \in Seq(Nat), NEW n \in NodeName,
           Streaming(events, text)
    PROVE  /\ events \o <<NodeStart(n), NodeEnd(n)>> \in Seq(Event)
           /\ Streaming(events \o <<NodeStart(n), NodeEnd(n)>>, text)
<1>1. /\ NodeStart(n) \in Event /\ NodeStart(n).type = "node_start"
      /\ NodeEnd(n) \in Event /\ NodeEnd(n).type = "node_end" /\ NodeEnd(n).node = n
  BY EventTypes
<1>2. PICK mid : mid = Append(events, NodeStart(n))
  OBVIOUS
<1>3. mid \in Seq(Event) /\ Streaming(mid, text)
  BY <1>1, <1>2, NodeStep
<1>4. Open(mid, n)
  BY <1>2, StartOpens
<1>5. Append(mid, NodeEnd(n)) \in Seq(Event) /\ Streaming(Append(mid, NodeEnd(n)), text)
  BY <1>1, <1>3, <1>4, NodeStep
<1>6. events \o <<NodeStart(n), NodeEnd(n)>> = Append(mid, NodeEnd(n))
  BY <1>1, <1>2, ConcatTwo
<1> QED
  BY <1>5, <1>6

(* A node that begins and fails.                                           *)
LEMMA NodeFails ==
    ASSUME NEW events \in Seq(Event), NEW text \in Seq(Nat), NEW n \in NodeName,
           NEW code \in Code, Streaming(events, text)
    PROVE  LET more == events \o <<NodeStart(n), ErrorEvent(code)>>
           IN  /\ more \in Seq(Event) /\ WellFormed(more)
               /\ At(more, {"citation"}) = {} /\ At(more, {"done"}) = {}
<1>1. NodeStart(n) \in Event /\ NodeStart(n).type = "node_start" /\ ErrorEvent(code) \in Event
  BY EventTypes
<1>2. PICK mid : mid = Append(events, NodeStart(n))
  OBVIOUS
<1>3. mid \in Seq(Event) /\ Streaming(mid, text)
  BY <1>1, <1>2, NodeStep
<1>4. events \o <<NodeStart(n), ErrorEvent(code)>> = Append(mid, ErrorEvent(code))
  BY <1>1, <1>2, ConcatTwo
<1> QED
  BY <1>3, <1>4, ErrorStep

(* A request that ends with an error.                                      *)
LEMMA EndsInError ==
    ASSUME NEW r \in Req, Grounded(r), WellFormed(log'[r]), pc'[r] = "over",
           At(log'[r], {"citation"}) = {}, At(log'[r], {"done"}) = {},
           At(log[r], {"done"}) = {}, req' = req, chunks' = chunks
    PROVE  Kept(r)
<1>1. StreamInv(r)'
  BY DEF StreamInv, Final, Citing
<1>2. Grounded(r)'
  BY DEF Grounded
<1> QED
  BY <1>1, <1>2 DEF Kept

LEMMA IntentFound ==
    ASSUME Types, NEW r \in Req, StreamInv(r), Grounded(r), intent_node(r)
    PROVE  Types' /\ Kept(r)
<1> USE DEF Goto
<1>1. pc[r] = "intent" /\ IsAgent(r) /\ log[r] \in Seq(Event) /\ answer[r] \in Seq(Nat)
  BY DEF intent_node, Types, QaLabel, AgentLabel
<1>2. Streaming(log[r], answer[r]) /\ answer[r] = <<>>
  BY <1>1, BeforeCiting DEF Citing, Final, StreamInv
<1>3. At(log[r], {"done"}) = {}
  BY <1>2 DEF Streaming, At
<1>4. /\ req' = req /\ answer' = answer /\ chunks' = chunks /\ settings' = settings
      /\ memory' = memory /\ context' = context /\ before' = before /\ trouble' = trouble
  BY DEF intent_node
<1> PICK n \in NodeName : n = "intent"
  BY DEF NodeName
<1>5. ASSUME NEW i \in Intents, IntentKnown(r, i) PROVE Types' /\ Kept(r)
  <2>1. PICK p \in {"retrieve", "generate"} : pc' = [pc EXCEPT ![r] = p]
    BY <1>5 DEF IntentKnown, route_by_intent
  <2>2. PICK more : more = log[r] \o <<NodeStart(n), NodeEnd(n)>>
    OBVIOUS
  <2>3. more \in Seq(Event) /\ Streaming(more, answer[r])
    BY <1>1, <1>2, <2>2, NodeRuns
  <2>4. log' = [log EXCEPT ![r] = more] /\ intent' = [intent EXCEPT ![r] = i]
    BY <1>5, <2>2 DEF IntentKnown, Emit
  <2>5. p \in Label /\ p \notin QaLabel
    BY DEF Label, AgentLabel, QaLabel
  <2>6. Types'
    BY <1>1, <1>4, <2>1, <2>3, <2>4, <2>5 DEF Types, IsAgent
  <2>7. log'[r] = more /\ pc'[r] = p
    BY <2>1, <2>4 DEF Types
  <2>8. StreamInv(r)' /\ Grounded(r)' /\ At(log'[r], {"done"}) = {}
    BY <1>2, <1>4, <2>3, <2>7, StillBefore DEF Citing, Final, Grounded
  <2> QED
    BY <1>3, <2>6, <2>8 DEF Kept
<1>6. ASSUME NEW code \in CompleteResult \ {"ok"}, IntentFails(r, code) PROVE Types' /\ Kept(r)
  <2>1. PICK more : more = log[r] \o <<NodeStart(n), ErrorEvent(code)>>
    OBVIOUS
  <2>2. code \in Code
    BY DEF Code
  <2>3. more \in Seq(Event) /\ WellFormed(more) /\ At(more, {"citation"}) = {} /\ At(more, {"done"}) = {}
    BY <1>1, <1>2, <2>1, <2>2, NodeFails
  <2>4. log' = [log EXCEPT ![r] = more] /\ pc' = [pc EXCEPT ![r] = "over"] /\ intent' = intent
    BY <1>6, <2>1 DEF IntentFails, Emit
  <2>5. Types'
    BY <1>1, <1>4, <2>3, <2>4, LabelKinds DEF Types, IsAgent
  <2>6. log'[r] = more /\ pc'[r] = "over"
    BY <2>4 DEF Types
  <2> QED
    BY <1>3, <1>4, <2>3, <2>5, <2>6, EndsInError
<1>7. ~settings.enable_dynamic_intent => classify_by_rules(req[r]) \in Intents
  BY DEF classify_by_rules, Intents
<1> QED
  BY <1>5, <1>6, <1>7 DEF intent_node

LEMMA Retrieves ==
    ASSUME Types, NEW r \in Req, StreamInv(r), Grounded(r), retrieval_node(r)
    PROVE  Types' /\ Kept(r)
<1>1. pc[r] = "retrieve" /\ IsAgent(r) /\ log[r] \in Seq(Event) /\ answer[r] \in Seq(Nat)
  BY DEF retrieval_node, Types, QaLabel, AgentLabel
<1>2. Streaming(log[r], answer[r]) /\ answer[r] = <<>>
  BY <1>1, BeforeCiting DEF Citing, Final, StreamInv
<1>3. At(log[r], {"done"}) = {}
  BY <1>2 DEF Streaming, At
<1>4. /\ req' = req /\ answer' = answer /\ intent' = intent /\ settings' = settings
      /\ memory' = memory /\ context' = context /\ before' = before /\ trouble' = trouble
  BY DEF retrieval_node
<1>5. PICK n \in NodeName : n = "retrieve"
  BY DEF NodeName
<1>6. ASSUME NEW found \in Seq(STRING), \A i \in DOMAIN found : found[i] \in req[r].resources,
             Retrieved(r, found)
      PROVE  Types' /\ Kept(r)
  <2>1. PICK more : more = log[r] \o <<NodeStart(n), NodeEnd(n)>>
    OBVIOUS
  <2>2. more \in Seq(Event) /\ Streaming(more, answer[r])
    BY <1>1, <1>2, <2>1, NodeRuns
  <2>3. /\ log' = [log EXCEPT ![r] = more] /\ chunks' = [chunks EXCEPT ![r] = found]
        /\ pc' = [pc EXCEPT ![r] = "generate"]
    BY <1>5, <1>6, <2>1 DEF Retrieved, Emit, Goto
  <2>4. "generate" \in Label /\ "generate" \notin QaLabel
    BY DEF Label, AgentLabel, QaLabel
  <2>5. Types'
    BY <1>1, <1>4, <2>2, <2>3, <2>4 DEF Types, IsAgent
  <2>6. log'[r] = more /\ pc'[r] = "generate" /\ chunks'[r] = found
    BY <2>3 DEF Types
  <2>7. StreamInv(r)' /\ Grounded(r)' /\ At(log'[r], {"done"}) = {}
    BY <1>2, <1>4, <1>6, <2>2, <2>6, StillBefore DEF Citing, Final
  <2> QED
    BY <1>3, <2>5, <2>7 DEF Kept
<1>7. ASSUME RetrievalForbidden(r) PROVE Types' /\ Kept(r)
  <2>1. PICK code \in Code : code = "FORBIDDEN"
    BY DEF Code
  <2>2. PICK more : more = log[r] \o <<NodeStart(n), ErrorEvent(code)>>
    OBVIOUS
  <2>3. more \in Seq(Event) /\ WellFormed(more) /\ At(more, {"citation"}) = {} /\ At(more, {"done"}) = {}
    BY <1>1, <1>2, <2>2, NodeFails
  <2>4. log' = [log EXCEPT ![r] = more] /\ pc' = [pc EXCEPT ![r] = "over"] /\ chunks' = chunks
    BY <1>5, <1>7, <2>1, <2>2 DEF RetrievalForbidden, Emit, Goto
  <2>5. Types'
    BY <1>1, <1>4, <2>3, <2>4, LabelKinds DEF Types, IsAgent
  <2>6. log'[r] = more /\ pc'[r] = "over"
    BY <2>4 DEF Types
  <2> QED
    BY <1>3, <1>4, <2>3, <2>4, <2>5, <2>6, EndsInError
<1>8. <<>> \in Seq(STRING) /\ DOMAIN <<>> = {} /\ \A found \in Found : found \in Seq(STRING)
  BY AnsweringAssumption
<1>9. CASE req[r].resources = {}
  <2>1. Retrieved(r, <<>>)
    BY <1>9 DEF retrieval_node
  <2> QED
    BY <1>6, <1>8, <2>1
<1>10. CASE req[r].resources # {}
  BY <1>6, <1>7, <1>8, <1>10 DEF retrieval_node
<1> QED
  BY <1>9, <1>10

LEMMA GenerationOpens ==
    ASSUME Types, NEW r \in Req, StreamInv(r), Grounded(r), GenerationStarts(r)
    PROVE  Types' /\ Kept(r)
<1>1. /\ pc[r] = "generate" /\ IsAgent(r) /\ log[r] \in Seq(Event) /\ answer[r] \in Seq(Nat)
      /\ intent[r] \in NodeName
  BY DEF GenerationStarts, Types, QaLabel, AgentLabel, NodeName
<1>2. Streaming(log[r], answer[r]) /\ answer[r] = <<>>
  BY <1>1, BeforeCiting DEF Citing, Final, StreamInv
<1>3. At(log[r], {"done"}) = {}
  BY <1>2 DEF Streaming, At
<1>4. /\ req' = req /\ answer' = answer /\ intent' = intent /\ settings' = settings
      /\ chunks' = chunks
      /\ memory' = memory /\ context' = context /\ before' = before /\ trouble' = trouble
  BY DEF GenerationStarts
<1>5. PICK more : more = Append(log[r], NodeStart(intent[r]))
  OBVIOUS
<1>6. /\ NodeStart(intent[r]) \in Event /\ NodeStart(intent[r]).type = "node_start"
  BY <1>1, EventTypes
<1>7. more \in Seq(Event) /\ Streaming(more, answer[r]) /\ Open(more, intent[r])
  BY <1>1, <1>2, <1>5, <1>6, NodeStep, StartOpens
<1>8. PICK p \in {"search", "stream"} : pc' = [pc EXCEPT ![r] = p]
  BY DEF GenerationStarts, Goto
<1>9. log' = [log EXCEPT ![r] = more]
  BY <1>1, <1>5, <1>6, ConcatOne DEF GenerationStarts, Emit
<1>10. p \in Label /\ p \notin QaLabel
  BY DEF Label, AgentLabel, QaLabel
<1>11. Types'
  BY <1>1, <1>4, <1>7, <1>8, <1>9, <1>10 DEF Types, IsAgent
<1>12. log'[r] = more /\ pc'[r] = p
  BY <1>8, <1>9 DEF Types
<1>13. StreamInv(r)' /\ Grounded(r)' /\ At(log'[r], {"done"}) = {}
  BY <1>2, <1>4, <1>7, <1>12, StillBefore DEF Citing, Final, Grounded
<1> QED
  BY <1>3, <1>11, <1>13 DEF Kept

LEMMA Searches ==
    ASSUME Types, NEW r \in Req, StreamInv(r), Grounded(r),
           AcquireChecks(r) \/ AcquireEnters(r)
    PROVE  Types' /\ Kept(r)
<1>1. pc[r] \in {"search", "acquired"} /\ IsAgent(r)
  BY DEF AcquireChecks, AcquireEnters, Types, QaLabel, AgentLabel
<1>2. Streaming(log[r], answer[r]) /\ answer[r] = <<>> /\ Open(log[r], intent[r])
  BY <1>1, BeforeCiting DEF Citing, Final, StreamInv
<1>3. At(log[r], {"done"}) = {}
  BY <1>2 DEF Streaming, At
<1>4. /\ req' = req /\ answer' = answer /\ intent' = intent /\ settings' = settings
      /\ chunks' = chunks /\ log' = log
      /\ memory' = memory /\ context' = context /\ before' = before /\ trouble' = trouble
  BY DEF AcquireChecks, AcquireEnters
<1>5. PICK p \in {"acquired", "stream"} : pc' = [pc EXCEPT ![r] = p]
  BY DEF AcquireChecks, AcquireEnters, Goto
<1>6. p \in Label /\ p \notin QaLabel
  BY DEF Label, AgentLabel, QaLabel
<1>7. Types'
  BY <1>1, <1>4, <1>5, <1>6 DEF Types, IsAgent
<1>8. pc'[r] = p
  BY <1>5 DEF Types
<1>9. StreamInv(r)' /\ Grounded(r)' /\ At(log'[r], {"done"}) = {}
  BY <1>2, <1>4, <1>8, StillBefore DEF Citing, Final, Grounded
<1> QED
  BY <1>3, <1>7, <1>9 DEF Kept

(* One chunk of the model reaches the agent's client.                      *)
LEMMA AgentGetsChunk ==
    ASSUME Types, NEW r \in Req, StreamInv(r), Grounded(r), NEW c, Parsed(c),
           pc[r] = "stream", IsAgent(r), AgentChunk(r, c),
           UNCHANGED <<settings, req, intent, chunks, memory, context, before, trouble>>
    PROVE  Types' /\ Kept(r)
<1>1. log[r] \in Seq(Event) /\ answer[r] \in Seq(Nat)
  BY DEF Types
<1>2. Streaming(log[r], answer[r]) /\ Open(log[r], intent[r])
  BY BeforeCiting DEF Citing, Final, StreamInv
<1>3. At(log[r], {"done"}) = {}
  BY <1>2 DEF Streaming, At
<1>4. PICK more : more = log[r] \o ContentEvents(r, c)
  OBVIOUS
<1>5. PICK text : text = answer[r] \o c.delta
  OBVIOUS
<1>6. /\ ContentEvents(r, c) \in Seq(Event) /\ more \in Seq(Event) /\ text \in Seq(Nat)
      /\ Streaming(more, text) /\ Open(more, intent[r])
  BY <1>1, <1>2, <1>4, <1>5, ContentStep
<1>7. answer' = [answer EXCEPT ![r] = text]
  BY <1>5 DEF AgentChunk
<1> DEFINE failed == (c.delta # <<>> \/ c.reasoning) /\ c.finish = "error"
<1>8. CASE failed
  <2>1. PICK code \in Code : code = "AGENT_LLM_ERROR"
    BY DEF Code
  <2>2. PICK e \in Event : e = ErrorEvent(code)
    BY EventTypes
  <2>3. log[r] \o (ContentEvents(r, c) \o <<e>>) = Append(more, e)
    <3>1. <<e>> \in Seq(Event)
      OBVIOUS
    <3>2. PICK s \in Seq(Event), t \in Seq(Event), u \in Seq(Event) :
             s = log[r] /\ t = ContentEvents(r, c) /\ u = <<e>>
      BY <1>1, <1>6, <3>1, Zenon
    <3>3. (s \o t) \o u = s \o (t \o u)
      BY ConcatAssociates
    <3>4. more \o <<e>> = Append(more, e)
      BY <1>6, ConcatOne
    <3> QED
      BY <1>4, <3>2, <3>3, <3>4
  <2>4. log' = [log EXCEPT ![r] = Append(more, e)] /\ pc' = [pc EXCEPT ![r] = "over"]
    BY <1>8, <2>1, <2>2, <2>3 DEF AgentChunk, Emit, Goto
  <2>5. PICK ended : ended = Append(more, e)
    OBVIOUS
  <2>6. /\ ended \in Seq(Event) /\ WellFormed(ended)
        /\ At(ended, {"citation"}) = {} /\ At(ended, {"done"}) = {}
    BY <1>6, <2>2, <2>5, ErrorStep
  <2>7. Types'
    BY <1>6, <1>7, <2>4, <2>5, <2>6, LabelKinds DEF Types, IsAgent
  <2>8. log'[r] = ended /\ pc'[r] = "over"
    BY <2>4, <2>5 DEF Types
  <2> QED
    BY <1>3, <2>6, <2>7, <2>8, EndsInError
<1>9. CASE ~failed
  <2>1. PICK p \in {"stream", "drafted"} : pc' = [pc EXCEPT ![r] = p]
    BY <1>9 DEF AgentChunk, Goto
  <2>2. ContentEvents(r, c) \o <<>> = ContentEvents(r, c)
    BY <1>6, ConcatNone
  <2>3. log' = [log EXCEPT ![r] = more]
    BY <1>4, <1>9, <2>2 DEF AgentChunk, Emit
  <2>4. p \in Label /\ p \notin QaLabel
    BY DEF Label, AgentLabel, QaLabel
  <2>5. Types'
    BY <1>6, <1>7, <2>1, <2>3, <2>4 DEF Types, IsAgent
  <2>6. log'[r] = more /\ pc'[r] = p /\ answer'[r] = text /\ intent'[r] = intent[r]
    BY <1>7, <2>1, <2>3 DEF Types
  <2>7. StreamInv(r)' /\ Grounded(r)' /\ At(log'[r], {"done"}) = {}
    BY <1>6, <2>6, StillBefore DEF Citing, Final, Grounded
  <2> QED
    BY <1>3, <2>5, <2>7 DEF Kept
<1> QED
  BY <1>8, <1>9

LEMMA AgentReads ==
    ASSUME Types, NEW r \in Req, StreamInv(r), Grounded(r), AgentReceives(r)
    PROVE  Types' /\ Kept(r)
<1>1. pc[r] = "stream" /\ IsAgent(r)
  BY DEF AgentReceives, MayReceive
<1>2. PICK raw \in Raw : AgentChunk(r, parse_stream_chunk(settings.provider, raw))
  BY DEF AgentReceives
<1>3. Parsed(parse_stream_chunk(settings.provider, raw))
  BY ParsedChunks
<1>4. UNCHANGED <<settings, req, intent, chunks, memory, context, before, trouble>>
  BY DEF AgentReceives
<1> QED
  BY <1>1, <1>2, <1>3, <1>4, AgentGetsChunk

LEMMA AgentStreamEnds ==
    ASSUME Types, NEW r \in Req, StreamInv(r), Grounded(r), AgentStreamOver(r)
    PROVE  Types' /\ Kept(r)
<1>1. pc[r] = "stream" /\ IsAgent(r) /\ log[r] \in Seq(Event) /\ answer[r] \in Seq(Nat)
  BY DEF AgentStreamOver, Types
<1>2. UNCHANGED <<settings, req, intent, chunks, memory, context, before, trouble>>
  BY DEF AgentStreamOver
<1>3. Streaming(log[r], answer[r]) /\ Open(log[r], intent[r])
  BY <1>1, BeforeCiting DEF Citing, Final, StreamInv
<1>4. At(log[r], {"done"}) = {}
  BY <1>3 DEF Streaming, At
<1>5. CASE Goto(r, "drafted") /\ UNCHANGED <<log, answer>>
  <2>1. pc' = [pc EXCEPT ![r] = "drafted"] /\ log' = log /\ answer' = answer
    BY <1>5 DEF Goto
  <2>2. "drafted" \in Label /\ "drafted" \notin QaLabel
    BY DEF Label, AgentLabel, QaLabel
  <2>3. Types'
    BY <1>1, <1>2, <2>1, <2>2 DEF Types, IsAgent
  <2>4. pc'[r] = "drafted"
    BY <2>1 DEF Types
  <2>5. StreamInv(r)' /\ Grounded(r)' /\ At(log'[r], {"done"}) = {}
    BY <1>2, <1>3, <2>1, <2>4, StillBefore DEF Citing, Final, Grounded
  <2> QED
    BY <1>4, <2>3, <2>5 DEF Kept
<1>6. CASE AgentChunk(r, ErrorChunk)
  BY <1>1, <1>2, <1>6, ParsedChunks, AgentGetsChunk
<1>7. ASSUME NEW wire \in Wire, Emit(r, <<ErrorEvent(StreamStart(wire))>>), Goto(r, "over"),
             UNCHANGED answer
      PROVE  Types' /\ Kept(r)
  <2>1. PICK code \in Code : code = StreamStart(wire)
    BY DEF Code
  <2>2. PICK more : more = Append(log[r], ErrorEvent(code))
    OBVIOUS
  <2>3. /\ ErrorEvent(code) \in Event /\ more \in Seq(Event) /\ WellFormed(more)
        /\ At(more, {"citation"}) = {} /\ At(more, {"done"}) = {}
    BY <1>1, <1>3, <2>2, ErrorStep
  <2>4. log' = [log EXCEPT ![r] = more] /\ pc' = [pc EXCEPT ![r] = "over"]
    BY <1>1, <1>7, <2>1, <2>2, <2>3, ConcatOne DEF Emit, Goto
  <2>5. Types'
    BY <1>1, <1>2, <1>7, <2>3, <2>4, LabelKinds DEF Types, IsAgent
  <2>6. log'[r] = more /\ pc'[r] = "over"
    BY <2>4 DEF Types
  <2> QED
    BY <1>2, <1>4, <2>3, <2>5, <2>6, EndsInError
<1> QED
  BY <1>5, <1>6, <1>7 DEF AgentStreamOver

LEMMA AgentValidates ==
    ASSUME Types, NEW r \in Req, StreamInv(r), Grounded(r), ValidateStep(r)
    PROVE  Types' /\ Kept(r)
<1>1. /\ pc[r] = "drafted" /\ IsAgent(r) /\ log[r] \in Seq(Event) /\ answer[r] \in Seq(Nat)
      /\ intent[r] \in NodeName
  BY DEF ValidateStep, Types, QaLabel, AgentLabel, NodeName
<1>2. Streaming(log[r], answer[r]) /\ Open(log[r], intent[r])
  BY <1>1, BeforeCiting DEF Citing, Final, StreamInv
<1>3. At(log[r], {"done"}) = {}
  BY <1>2 DEF Streaming, At
<1>4. /\ req' = req /\ answer' = answer /\ intent' = intent /\ settings' = settings
      /\ chunks' = chunks
      /\ memory' = memory /\ context' = context /\ before' = before /\ trouble' = trouble
  BY DEF ValidateStep
<1>5. PICK n \in NodeName : n = "validate"
  BY DEF NodeName
<1>6. PICK e \in Event : e = NodeEnd(intent[r]) /\ e.type = "node_end" /\ e.node = intent[r]
  BY <1>1, EventTypes
<1>7. PICK mid : mid = Append(log[r], e)
  OBVIOUS
<1>8. mid \in Seq(Event) /\ Streaming(mid, answer[r])
  BY <1>1, <1>2, <1>6, <1>7, NodeStep
<1>9. PICK more : more = mid \o <<NodeStart(n), NodeEnd(n)>>
  OBVIOUS
<1>10. more \in Seq(Event) /\ Streaming(more, answer[r])
  BY <1>1, <1>8, <1>9, NodeRuns
<1>11. log[r] \o <<NodeEnd(intent[r]), NodeStart("validate"), NodeEnd("validate")>> = more
  <2>1. PICK s \in Event : s = NodeStart(n)
    BY EventTypes
  <2>2. PICK t \in Event : t = NodeEnd(n)
    BY EventTypes
  <2>3. <<e>> \in Seq(Event) /\ <<s, t>> \in Seq(Event) /\ <<e, s, t>> = <<e>> \o <<s, t>>
    <3>1. PICK u : u = <<e, s, t>>
      OBVIOUS
    <3>2. PICK v : v = <<e>> \o <<s, t>>
      OBVIOUS
    <3>3. <<e>> \in Seq(Event) /\ <<s, t>> \in Seq(Event)
      OBVIOUS
    <3>4. v \in Seq(Event) /\ Len(v) = 3 /\ v[1] = e /\ v[2] = s /\ v[3] = t
      BY <3>2
    <3>5. u \in Seq(Event) /\ Len(u) = 3 /\ u[1] = e /\ u[2] = s /\ u[3] = t
      BY <3>1
    <3>6. u = v
      BY <3>4, <3>5, SeqExtensional
    <3> QED
      BY <3>1, <3>2, <3>3, <3>6
  <2>4. (log[r] \o <<e>>) \o <<s, t>> = log[r] \o (<<e>> \o <<s, t>>)
    BY <1>1, <2>3, ConcatAssociates
  <2>5. log[r] \o <<e>> = mid
    BY <1>1, <1>7, ConcatOne
  <2>6. log[r] \o <<e, s, t>> = more
    BY <1>9, <2>1, <2>2, <2>3, <2>4, <2>5
  <2> QED
    BY <1>5, <1>6, <2>1, <2>2, <2>6
<1>12. log' = [log EXCEPT ![r] = more]
  BY <1>11 DEF ValidateStep, Emit
<1>13. validate_node(<<>>, chunks[r])
  BY DEF validate_node
<1>14. pc' = [pc EXCEPT ![r] = "cite"]
  BY <1>13 DEF ValidateStep, Goto
<1>15. Types'
  BY <1>1, <1>4, <1>10, <1>12, <1>14, LabelKinds DEF Types, IsAgent
<1>16. log'[r] = more /\ pc'[r] = "cite"
  BY <1>12, <1>14 DEF Types
<1>17. Count("citation", more) = 0
  BY <1>10, AtFacts DEF Streaming
<1>18. citations(r)' \in Seq(Citation)
  <2>1. draft_answer(r) \in Seq(Nat)
    BY <1>1 DEF draft_answer
  <2>2. chunks[r] \in Seq(STRING)
    BY DEF Types
  <2>3. agent_citations(r) \in Seq(Citation)
    BY <2>1, <2>2, CitationFacts, AnsweringAssumption DEF agent_citations
  <2> QED
    BY <1>1, <1>4, <2>3 DEF citations, agent_citations, draft_answer, IsAgent
<1>19. 0 <= Len(citations(r)')
  BY <1>18, DomainFinite
<1>20. StreamInv(r)'
  BY <1>4, <1>10, <1>16, <1>17, <1>19 DEF StreamInv, Streaming, Citing, Final
<1>21. Grounded(r)'
  BY <1>4, <1>10, <1>16 DEF Grounded, Streaming
<1> QED
  BY <1>3, <1>10, <1>15, <1>16, <1>20, <1>21 DEF Kept, Streaming, At

(* The citations of a request point at its chunks and carry markers of its *)
(* answer.                                                                 *)
LEMMA CitationsOf ==
    ASSUME Types, NEW r \in Req
    PROVE  /\ citations(r) \in Seq(Citation)
           /\ \A k \in DOMAIN citations(r) :
                 /\ citations(r)[k].original \in DOMAIN chunks[r]
                 /\ citations(r)[k].resource = chunks[r][citations(r)[k].original]
                 /\ \E i \in DOMAIN answer[r] : answer[r][i] = citations(r)[k].original
           /\ \A k, l \in DOMAIN citations(r) :
                 k < l => citations(r)[k].index < citations(r)[l].index
<1>1. chunks[r] \in Seq(STRING) /\ answer[r] \in Seq(Nat) /\ max_citations \in Nat
  BY AnsweringAssumption DEF Types
<1>2. CASE IsAgent(r)
  <2>1. draft_answer(r) \in Seq(Nat)
    BY <1>1 DEF draft_answer
  <2>2. PICK cites : cites = build_citations(draft_answer(r), chunks[r], req[r].resources, max_citations)
    OBVIOUS
  <2>3. /\ cites \in Seq(Citation)
        /\ \A k \in DOMAIN cites :
              /\ cites[k].original \in DOMAIN chunks[r]
              /\ cites[k].resource = chunks[r][cites[k].original]
              /\ \E i \in DOMAIN draft_answer(r) : draft_answer(r)[i] = cites[k].original
        /\ \A k, l \in DOMAIN cites : k < l => cites[k].index < cites[l].index
    BY <1>1, <2>1, <2>2, CitationFacts
  <2>4. ASSUME NEW k \in DOMAIN cites
        PROVE  \E i \in DOMAIN answer[r] : answer[r][i] = cites[k].original
    <3>1. PICK i \in DOMAIN draft_answer(r) : draft_answer(r)[i] = cites[k].original
      BY <2>3
    <3>2. cites[k].original \in 1..Len(chunks[r])
      BY <1>1, <2>3, DomainFinite
    <3>3. cites[k].original # 0
      BY <3>2
    <3>4. answer[r] # <<>>
      BY <3>1, <3>3 DEF draft_answer
    <3> QED
      BY <3>1, <3>4 DEF draft_answer
  <2>5. citations(r) = cites
    BY <1>2, <2>2 DEF citations, agent_citations
  <2> QED
    BY <2>3, <2>4, <2>5
<1>3. CASE ~IsAgent(r)
  <2>1. PICK cites : cites = build_citations(answer[r], chunks[r], req[r].resources, max_citations)
    OBVIOUS
  <2>2. /\ cites \in Seq(Citation)
        /\ \A k \in DOMAIN cites :
              /\ cites[k].original \in DOMAIN chunks[r]
              /\ cites[k].resource = chunks[r][cites[k].original]
              /\ \E i \in DOMAIN answer[r] : answer[r][i] = cites[k].original
        /\ \A k, l \in DOMAIN cites : k < l => cites[k].index < cites[l].index
    BY <1>1, <2>1, CitationFacts
  <2>3. citations(r) = cites
    BY <1>3, <2>1 DEF citations, qa_citations
  <2> QED
    BY <2>2, <2>3
<1> QED
  BY <1>2, <1>3

(* The next citation is sent.                                              *)
LEMMA CiteStep ==
    ASSUME Types, NEW r \in Req, StreamInv(r), Grounded(r), pc[r] = "cite",
           Count("citation", log[r]) < Len(citations(r)),
           Emit(r, <<CitationEvent(citations(r)[Count("citation", log[r]) + 1])>>),
           UNCHANGED <<settings, req, pc, intent, chunks, answer, memory, context, before,
                       trouble>>
    PROVE  Types' /\ Kept(r)
<1>1. PICK events \in Seq(Event) : events = log[r]
  BY DEF Types
<1>2. PICK sent \in Nat : sent = Count("citation", events)
  BY AtFacts
<1>3. PICK cites \in Seq(Citation) : cites = citations(r)
  BY CitationsOf
<1>4. sent < Len(cites) /\ Len(cites) \in Nat /\ DOMAIN cites = 1..Len(cites)
  BY <1>1, <1>2, <1>3
<1>5. sent + 1 \in 1..Len(cites) /\ \A k \in 1..sent : k \in 1..Len(cites) /\ k < sent + 1
  BY <1>4
<1>6. PICK c \in Citation : c = cites[sent + 1]
  BY <1>4, <1>5
<1>7. PICK e \in Event : e = CitationEvent(c) /\ e.type = "citation" /\ e.cite = c
  BY EventTypes
<1>8. PICK n \in Nat : n = Len(events)
  BY DomainFinite
<1>9. PICK more : more = Append(events, e)
  OBVIOUS
<1>10. /\ more \in Seq(Event) /\ DOMAIN events = 1..n
       /\ \A i \in 1..n : more[i] = events[i]
       /\ more[n + 1] = e
  BY <1>8, <1>9, AppendFacts
<1>11. log' = [log EXCEPT ![r] = more]
  <2>1. events \o <<e>> = more
    BY <1>9, ConcatOne
  <2> QED
    BY <1>1, <1>2, <1>3, <1>6, <1>7, <2>1 DEF Emit
<1>12. Types'
  BY <1>10, <1>11 DEF Types, IsAgent
<1>13. log'[r] = more /\ pc'[r] = "cite" /\ citations(r)' = cites
  BY <1>3, <1>11 DEF Types, citations, agent_citations, qa_citations, draft_answer, IsAgent
<1>14. /\ WellFormed(events) /\ At(events, {"done", "error"}) = {}
       /\ IsStreamed(answer[r], events)
       /\ \A i \in At(events, {"citation"}) : \E k \in 1..sent : events[i].cite = cites[k]
  BY <1>1, <1>2, <1>3 DEF StreamInv, Citing, Final
<1>15. Fits(events, e)
  <2>1. \A k \in 1..sent : cites[k].index < c.index
    BY <1>3, <1>4, <1>5, <1>6, CitationsOf
  <2>2. \A i \in At(events, {"citation"}) : events[i].cite.index < e.cite.index
    BY <1>7, <1>14, <2>1
  <2> QED
    BY <1>7, <1>14, <2>2 DEF Fits
<1>16. WellFormed(more)
  BY <1>9, <1>14, <1>15, WellAppend
<1>17. IsStreamed(answer[r], more) /\ Count("citation", more) = sent + 1
  BY <1>2, <1>7, <1>9, <1>14, StreamedOther, CountAppend
<1>18. /\ At(more, {"done", "error"}) = {}
       /\ At(more, {"citation"}) = At(events, {"citation"}) \cup {n + 1}
       /\ At(more, {"chunk"}) = At(events, {"chunk"})
  BY <1>7, <1>8, <1>9, <1>14, AtAppend
<1>19. \A i \in At(events, {"citation"}) \cup At(events, {"chunk"}) : i \in 1..n
  BY <1>10 DEF At
<1>20. \A i \in At(more, {"citation"}) : \E k \in 1..(sent + 1) : more[i].cite = cites[k]
  <2>1. \A k \in 1..sent : k \in 1..(sent + 1)
    OBVIOUS
  <2>2. sent + 1 \in 1..(sent + 1)
    OBVIOUS
  <2>3. ASSUME NEW i \in At(events, {"citation"})
        PROVE  \E k \in 1..(sent + 1) : more[i].cite = cites[k]
    BY <1>10, <1>14, <1>19, <2>1
  <2>4. more[n + 1].cite = cites[sent + 1]
    BY <1>6, <1>7, <1>10
  <2> QED
    BY <1>18, <2>2, <2>3, <2>4
<1>21. sent + 1 <= Len(cites)
  BY <1>4
<1>22. StreamInv(r)'
  BY <1>13, <1>16, <1>17, <1>18, <1>20, <1>21 DEF StreamInv, Citing, Final
<1>23. ASSUME NEW i \in At(more, {"citation"})
       PROVE  LET d == more[i].cite
              IN  /\ d.original \in DOMAIN chunks[r]
                  /\ chunks[r][d.original] = d.resource
                  /\ \E j \in At(more, {"chunk"}) : more[j].piece = d.original
  <2>1. CASE i \in At(events, {"citation"})
    BY <1>1, <1>10, <1>18, <1>19, <2>1 DEF Grounded
  <2>2. CASE i = n + 1
    <3>1. more[i].cite = c
      BY <1>7, <1>10, <2>2
    <3>2. /\ c.original \in DOMAIN chunks[r] /\ c.resource = chunks[r][c.original]
          /\ \E k \in DOMAIN answer[r] : answer[r][k] = c.original
      BY <1>3, <1>4, <1>5, <1>6, CitationsOf
    <3>3. PICK j \in At(events, {"chunk"}) : events[j].piece = c.original
      BY <1>14, <3>2 DEF IsStreamed
    <3> QED
      BY <1>10, <1>18, <1>19, <3>1, <3>2, <3>3
  <2> QED
    BY <1>18, <2>1, <2>2
<1>24. Grounded(r)'
  BY <1>13, <1>23 DEF Grounded
<1>25. At(events, {"done"}) = {} /\ At(more, {"done"}) = {}
  BY <1>14, <1>18 DEF At
<1> QED
  BY <1>1, <1>12, <1>13, <1>22, <1>24, <1>25 DEF Kept

LEMMA AgentCites ==
    ASSUME Types, NEW r \in Req, StreamInv(r), Grounded(r), SendCitation(r)
    PROVE  Types' /\ Kept(r)
<1>1. pc[r] = "cite" /\ citations(r) = agent_citations(r)
  BY DEF SendCitation, citations
<1> QED
  BY <1>1, CiteStep DEF SendCitation

LEMMA CheckpointSaves ==
    ASSUME Types, NEW r \in Req, StreamInv(r), Grounded(r), SaveCheckpoint(r)
    PROVE  Types' /\ Kept(r)
<1>1. /\ pc[r] = "cite" /\ IsAgent(r) /\ pc' = [pc EXCEPT ![r] = "remember"]
      /\ citations(r) = agent_citations(r) /\ Count("citation", log[r]) = Len(citations(r))
      /\ UNCHANGED <<settings, req, log, intent, chunks, answer, memory, context, before,
                     trouble>>
  BY DEF SaveCheckpoint, Goto, citations
<1>2. "remember" \in Label /\ "remember" \notin QaLabel
  BY DEF Label, AgentLabel, QaLabel
<1>3. Types'
  BY <1>1, <1>2 DEF Types, IsAgent
<1>4. pc'[r] = "remember" /\ citations(r)' = citations(r)
  BY <1>1 DEF Types, citations, agent_citations, qa_citations, draft_answer, IsAgent
<1>5. StreamInv(r)'
  BY <1>1, <1>4 DEF StreamInv, Citing, Final
<1>6. Grounded(r)'
  BY <1>1 DEF Grounded
<1> QED
  BY <1>1, <1>3, <1>5, <1>6 DEF Kept

LEMMA SavedTurn ==
    ASSUME Types, NEW r \in Req, NEW text \in Seq(Nat), save_turn(r, text)
    PROVE  /\ memory' \subseteq [run : Req, text : Seq(Nat)] /\ memory \subseteq memory'
           /\ trouble' \subseteq Req /\ trouble \subseteq trouble'
           /\ \A m \in memory' : m \in memory \/ (m.run = r /\ m.text = text)
           /\ text # <<>> => r \in trouble' \/ \E m \in memory' : m.run = r
<1>1. [run |-> r, text |-> text] \in [run : Req, text : Seq(Nat)]
  OBVIOUS
<1>2. CASE memory' = (IF text = <<>> THEN memory
                      ELSE memory \cup {[run |-> r, text |-> text]}) /\ UNCHANGED trouble
  <2>1. PICK turn \in [run : Req, text : Seq(Nat)] :
           turn = [run |-> r, text |-> text] /\ turn.run = r /\ turn.text = text
    BY <1>1
  <2>2. text = <<>> => memory' = memory
    BY <1>2
  <2>3. text # <<>> => memory' = memory \cup {turn}
    BY <1>2, <2>1
  <2>4. memory \subseteq [run : Req, text : Seq(Nat)] /\ trouble \subseteq Req
    BY DEF Types
  <2> QED
    BY <1>2, <2>1, <2>2, <2>3, <2>4, Zenon
<1>3. CASE trouble' = trouble \cup {r} /\ UNCHANGED memory
  BY <1>3 DEF Types
<1> QED
  BY <1>2, <1>3 DEF save_turn

LEMMA AgentRemembers ==
    ASSUME Types, NEW r \in Req, StreamInv(r), Grounded(r), Remember(r)
    PROVE  Types' /\ Kept(r)
<1>1. /\ pc[r] = "remember" /\ IsAgent(r) /\ pc' = [pc EXCEPT ![r] = "done"]
      /\ UNCHANGED <<settings, req, log, intent, chunks, answer, context, before>>
  BY DEF Remember, Goto, Types, QaLabel, AgentLabel
<1>2. "done" \in Label /\ "done" \notin QaLabel
  BY DEF Label, AgentLabel, QaLabel
<1>3. answer[r] \in Seq(Nat)
  BY DEF Types
<1>4. draft_answer(r) \in Seq(Nat)
  BY <1>3 DEF draft_answer
<1>5. /\ memory' \subseteq [run : Req, text : Seq(Nat)] /\ memory \subseteq memory'
      /\ trouble' \subseteq Req
  BY <1>4, SavedTurn DEF Remember
<1>6. Types'
  BY <1>1, <1>2, <1>5 DEF Types, IsAgent
<1>7. pc'[r] = "done" /\ citations(r)' = citations(r)
  BY <1>1 DEF Types, citations, agent_citations, qa_citations, draft_answer, IsAgent
<1>8. StreamInv(r)'
  BY <1>1, <1>7 DEF StreamInv, Citing, Final
<1>9. Grounded(r)'
  BY <1>1 DEF Grounded
<1> QED
  BY <1>1, <1>6, <1>8, <1>9 DEF Kept

(* A response is complete: done counts its citations.                      *)
LEMMA DoneSent ==
    ASSUME Types, NEW r \in Req, StreamInv(r), Grounded(r), pc[r] \in Citing,
           Emit(r, <<DoneEvent(Count("citation", log[r]))>>),
           req' = req, chunks' = chunks, answer' = answer
    PROVE  /\ log' \in [Req -> Seq(Event)]
           /\ WellFormed(log'[r]) /\ Grounded(r)'
           /\ At(log'[r], {"done"}) # {} /\ At(log'[r], {"error"}) = {}
           /\ IsStreamed(answer[r], log'[r])
           /\ Count("chunk", log'[r]) = Count("chunk", log[r])
           /\ \A text : IsStreamed(text, log[r]) => IsStreamed(text, log'[r])
<1>1. PICK events \in Seq(Event) : events = log[r]
  BY DEF Types
<1>2. PICK e : e = DoneEvent(Count("citation", events))
  OBVIOUS
<1>3. PICK more : more = Append(events, e)
  OBVIOUS
<1>4. /\ WellFormed(events) /\ At(events, {"done", "error"}) = {}
      /\ IsStreamed(answer[r], events)
  BY <1>1 DEF StreamInv, Citing, Final
<1>5. /\ e \in Event /\ more \in Seq(Event) /\ WellFormed(more)
      /\ At(more, {"done"}) # {} /\ At(more, {"error"}) = {}
      /\ \A t \in {"citation", "chunk"} :
            At(more, {t}) = At(events, {t}) /\ Count(t, more) = Count(t, events)
      /\ \A i \in At(events, {"citation", "chunk"}) : more[i] = events[i]
      /\ \A text : IsStreamed(text, events) => IsStreamed(text, more)
  BY <1>2, <1>3, <1>4, DoneStep
<1>6. log' = [log EXCEPT ![r] = more]
  <2>1. events \o <<e>> = more
    BY <1>3, <1>5, ConcatOne
  <2> QED
    BY <1>1, <1>2, <2>1 DEF Emit
<1>7. log' \in [Req -> Seq(Event)] /\ log'[r] = more
  BY <1>5, <1>6 DEF Types
<1>8. \A i \in At(events, {"citation"}) \cup At(events, {"chunk"}) : more[i] = events[i]
  BY <1>5 DEF At
<1>9. Grounded(r)'
  BY <1>1, <1>5, <1>7, <1>8 DEF Grounded
<1> QED
  BY <1>1, <1>4, <1>5, <1>7, <1>9

LEMMA AgentEnds ==
    ASSUME Types, NEW r \in Req, StreamInv(r), Grounded(r), AgentDone(r)
    PROVE  Types' /\ Kept(r)
<1>1. /\ pc[r] = "done" /\ IsAgent(r) /\ pc' = [pc EXCEPT ![r] = "over"]
      /\ UNCHANGED <<settings, req, intent, chunks, answer, memory, context, before, trouble>>
  BY DEF AgentDone, Goto, Types, QaLabel, AgentLabel
<1>2. Count("citation", log[r]) = Len(agent_citations(r))
  BY <1>1 DEF StreamInv, citations
<1>3. Emit(r, <<DoneEvent(Count("citation", log[r]))>>)
  BY <1>2 DEF AgentDone
<1>4. /\ log' \in [Req -> Seq(Event)] /\ WellFormed(log'[r]) /\ Grounded(r)'
      /\ At(log'[r], {"done"}) # {}
  BY <1>1, <1>3, DoneSent DEF Citing
<1>5. Types'
  BY <1>1, <1>4, LabelKinds DEF Types, IsAgent
<1>6. pc'[r] = "over"
  BY <1>1 DEF Types
<1>7. StreamInv(r)'
  BY <1>4, <1>6 DEF StreamInv, Citing, Final
<1> QED
  BY <1>1, <1>4, <1>5, <1>7 DEF Kept

(* The plain service goes on with the text or begins to cite.              *)
LEMMA QaMayCite ==
    ASSUME NEW r \in Req, Types', ~IsAgent(r)', Streaming(log'[r], answer'[r]),
           pc'[r] \in {"stream", "cite"},
           \A i \in DOMAIN chunks'[r] : chunks'[r][i] \in req'[r].resources
    PROVE  StreamInv(r)' /\ Grounded(r)' /\ At(log'[r], {"done"}) = {}
<1>1. At(log'[r], {"done"}) = {}
  BY DEF Streaming, At
<1>2. Count("citation", log'[r]) = 0
  BY AtFacts DEF Streaming, Types
<1>3. citations(r)' \in Seq(Citation)
  <2>1. chunks'[r] \in Seq(STRING) /\ answer'[r] \in Seq(Nat) /\ max_citations \in Nat
    BY AnsweringAssumption DEF Types
  <2>2. build_citations(answer'[r], chunks'[r], req'[r].resources, max_citations) \in Seq(Citation)
    BY <2>1, CitationFacts
  <2> QED
    BY <2>2 DEF citations, qa_citations, IsAgent
<1>4. 0 <= Len(citations(r)')
  BY <1>3, DomainFinite
<1>5. StreamInv(r)'
  BY <1>2, <1>4 DEF StreamInv, Streaming, Citing, Final, IsAgent
<1>6. Grounded(r)'
  BY DEF Grounded, Streaming
<1> QED
  BY <1>1, <1>5, <1>6

LEMMA QaBegins ==
    ASSUME Types, NEW r \in Req, StreamInv(r), Grounded(r), stream_answer(r)
    PROVE  Types' /\ Kept(r)
<1> USE DEF stream_answer, Goto
<1>1. pc[r] = "idle" /\ pc'[r] = "qa_retrieve" /\ ~IsAgent(r)
  BY DEF Types, IsAgent, IsQa
<1>2. "qa_retrieve" \in Label /\ "qa_retrieve" \notin AgentLabel
  BY DEF Label, AgentLabel, QaLabel
<1>3. \A s \in Req : s \in before'[r] => s \in Req
  OBVIOUS
<1>4. Types'
  BY <1>1, <1>2 DEF Types, IsAgent, load_context
<1>5. log'[r] = log[r] /\ answer'[r] = answer[r] /\ chunks'[r] = chunks[r] /\ req' = req
  OBVIOUS
<1>6. StreamInv(r)'
  BY <1>1, <1>5 DEF StreamInv, Citing, Final, IsAgent
<1>7. Grounded(r)'
  BY <1>5 DEF Grounded
<1> QED
  BY <1>4, <1>5, <1>6, <1>7 DEF Kept

LEMMA QaFinds ==
    ASSUME Types, NEW r \in Req, StreamInv(r), Grounded(r), QaRetrieves(r)
    PROVE  Types' /\ Kept(r)
<1>1. pc[r] = "qa_retrieve" /\ ~IsAgent(r) /\ log[r] \in Seq(Event) /\ answer[r] \in Seq(Nat)
  BY DEF QaRetrieves, Types, QaLabel, AgentLabel
<1>2. Streaming(log[r], answer[r])
  BY <1>1, BeforeCiting DEF Citing, Final, StreamInv
<1>3. At(log[r], {"done"}) = {}
  BY <1>2 DEF Streaming, At
<1>4. /\ req' = req /\ answer' = answer /\ intent' = intent /\ settings' = settings
      /\ memory' = memory /\ context' = context /\ before' = before /\ trouble' = trouble
  BY DEF QaRetrieves
<1>5. ASSUME NEW found \in Found, \A i \in DOMAIN found : found[i] \in req[r].resources,
             chunks' = [chunks EXCEPT ![r] = found], Goto(r, "stream"), log' = log
      PROVE  Types' /\ Kept(r)
  <2>1. found \in Seq(STRING)
    BY AnsweringAssumption
  <2>2. pc' = [pc EXCEPT ![r] = "stream"]
    BY <1>5 DEF Goto
  <2>3. Types'
    BY <1>1, <1>4, <1>5, <2>1, <2>2, LabelKinds DEF Types, IsAgent
  <2>4. pc'[r] = "stream" /\ chunks'[r] = found
    BY <1>5, <2>2 DEF Types
  <2>5. ~IsAgent(r)'
    BY <1>1, <1>4 DEF IsAgent
  <2>6. StreamInv(r)' /\ Grounded(r)' /\ At(log'[r], {"done"}) = {}
    BY <1>1, <1>2, <1>4, <1>5, <2>4, <2>5, StillBefore DEF Citing, Final
  <2> QED
    BY <1>3, <2>3, <2>6 DEF Kept
<1>6. ASSUME NEW code \in {"FORBIDDEN", "RETRIEVAL_UNAVAILABLE"}, Emit(r, <<ErrorEvent(code)>>),
             Goto(r, "over"), chunks' = chunks
      PROVE  Types' /\ Kept(r)
  <2>1. code \in Code
    BY DEF Code
  <2>2. PICK more : more = Append(log[r], ErrorEvent(code))
    OBVIOUS
  <2>3. /\ ErrorEvent(code) \in Event /\ more \in Seq(Event) /\ WellFormed(more)
        /\ At(more, {"citation"}) = {} /\ At(more, {"done"}) = {}
    BY <1>1, <1>2, <2>1, <2>2, ErrorStep
  <2>4. log[r] \o <<ErrorEvent(code)>> = more
    BY <1>1, <2>2, <2>3, ConcatOne
  <2>5. log' = [log EXCEPT ![r] = more] /\ pc' = [pc EXCEPT ![r] = "over"]
    BY <1>6, <2>4 DEF Emit, Goto
  <2>6. Types'
    BY <1>1, <1>4, <1>6, <2>3, <2>5, LabelKinds DEF Types, IsAgent
  <2>7. log'[r] = more /\ pc'[r] = "over"
    BY <2>5 DEF Types
  <2> QED
    BY <1>3, <1>4, <1>6, <2>3, <2>6, <2>7, EndsInError
<1> QED
  BY <1>5, <1>6 DEF QaRetrieves

(* One chunk of the model reaches the client of the plain service; when    *)
(* the model fails, the fallback answer goes on with the numbering.        *)
LEMMA QaGetsChunk ==
    ASSUME Types, NEW r \in Req, StreamInv(r), Grounded(r), NEW c, Parsed(c),
           pc[r] = "stream", ~IsAgent(r), QaChunk(r, c),
           UNCHANGED <<settings, req, intent, chunks, memory, context, before, trouble>>
    PROVE  Types' /\ Kept(r)
<1>1. log[r] \in Seq(Event) /\ answer[r] \in Seq(Nat)
  BY DEF Types
<1>2. Streaming(log[r], answer[r])
  BY BeforeCiting DEF Citing, Final
<1>3. At(log[r], {"done"}) = {}
  BY <1>2 DEF Streaming, At
<1>4. PICK more : more = log[r] \o ContentEvents(r, c)
  OBVIOUS
<1>5. PICK text : text = answer[r] \o c.delta
  OBVIOUS
<1>6. /\ ContentEvents(r, c) \in Seq(Event) /\ more \in Seq(Event) /\ text \in Seq(Nat)
      /\ Streaming(more, text)
  BY <1>1, <1>2, <1>4, <1>5, ContentStep
<1>7. answer' = [answer EXCEPT ![r] = text]
  BY <1>5 DEF QaChunk
<1>8. ~IsAgent(r)'
  BY DEF IsAgent
<1>9. CASE c.finish = "error" /\ chunks[r] = <<>>
  <2>1. PICK code \in Code : code = "LLM_TIMEOUT"
    BY DEF Code
  <2>2. PICK e \in Event : e = ErrorEvent(code)
    BY EventTypes
  <2>3. log[r] \o (ContentEvents(r, c) \o <<e>>) = Append(more, e)
    <3>1. <<e>> \in Seq(Event)
      OBVIOUS
    <3>2. PICK s \in Seq(Event), t \in Seq(Event), u \in Seq(Event) :
             s = log[r] /\ t = ContentEvents(r, c) /\ u = <<e>>
      BY <1>1, <1>6, <3>1, Zenon
    <3>3. (s \o t) \o u = s \o (t \o u)
      BY ConcatAssociates
    <3>4. more \o <<e>> = Append(more, e)
      BY <1>6, ConcatOne
    <3> QED
      BY <1>4, <3>2, <3>3, <3>4
  <2>4. fallback_answer(r, c) = <<e>>
    BY <1>9, <2>1, <2>2 DEF fallback_answer
  <2>5. log' = [log EXCEPT ![r] = Append(more, e)] /\ pc' = [pc EXCEPT ![r] = "over"]
    BY <1>9, <2>3, <2>4 DEF QaChunk, Emit, Goto
  <2>6. PICK ended : ended = Append(more, e)
    OBVIOUS
  <2>7. /\ ended \in Seq(Event) /\ WellFormed(ended)
        /\ At(ended, {"citation"}) = {} /\ At(ended, {"done"}) = {}
    BY <1>6, <2>2, <2>6, ErrorStep
  <2>8. Types'
    BY <1>6, <1>7, <2>5, <2>6, <2>7, LabelKinds DEF Types, IsAgent
  <2>9. log'[r] = ended /\ pc'[r] = "over"
    BY <2>5, <2>6 DEF Types
  <2> QED
    BY <1>3, <2>7, <2>8, <2>9, EndsInError
<1>10. CASE c.finish = "error" /\ chunks[r] # <<>>
  <2>1. PICK index \in Nat : index = Count("chunk", more)
    BY <1>6, AtFacts
  <2>2. Count("chunk", log[r]) + Len(c.delta) = index
    <3>1. Len(text) = index /\ Len(answer[r]) = Count("chunk", log[r])
      BY <1>2, <1>6, <2>1 DEF Streaming, IsStreamed
    <3>2. c.delta \in Seq(Nat)
      <4>1. <<>> \in Seq(Nat) /\ \A p \in Nat : <<p>> \in Seq(Nat)
        OBVIOUS
      <4> QED
        BY <4>1, Zenon DEF Parsed
    <3>3. Len(answer[r] \o c.delta) = Len(answer[r]) + Len(c.delta)
      BY <1>1, <3>2
    <3> QED
      BY <1>5, <3>1, <3>3
  <2>3. PICK e : e = ChunkEvent(0, index)
    OBVIOUS
  <2>4. e \in Event
    BY <2>1, <2>3, EventTypes
  <2>5. PICK mid : mid = Append(more, e)
    OBVIOUS
  <2>6. mid \in Seq(Event) /\ Streaming(mid, Append(text, 0))
    <3>1. Streaming(Append(more, ChunkEvent(0, Count("chunk", more))), Append(text, 0))
      BY <1>6, ChunkStep
    <3> QED
      BY <1>6, <2>1, <2>3, <2>4, <2>5, <3>1, AppendFacts
  <2>7. Count("citation", mid) = 0
    BY <2>6, AtFacts DEF Streaming
  <2>8. PICK d : d = DoneEvent(0)
    OBVIOUS
  <2>9. PICK ended : ended = Append(mid, d)
    OBVIOUS
  <2>10. /\ d \in Event /\ ended \in Seq(Event) /\ WellFormed(ended)
         /\ At(ended, {"citation"}) = {}
    <3>1. WellFormed(mid) /\ At(mid, {"done", "error"}) = {} /\ At(mid, {"citation"}) = {}
      BY <2>6 DEF Streaming
    <3> QED
      BY <2>6, <2>7, <2>8, <2>9, <3>1, DoneStep
  <2>11. fallback_answer(r, c) = <<e, d>>
    BY <1>10, <2>2, <2>3, <2>8 DEF fallback_answer
  <2>12. log[r] \o (ContentEvents(r, c) \o <<e, d>>) = ended
    <3>1. <<e, d>> \in Seq(Event)
      BY <2>4, <2>10
    <3>2. PICK s \in Seq(Event), t \in Seq(Event), u \in Seq(Event) :
             s = log[r] /\ t = ContentEvents(r, c) /\ u = <<e, d>>
      BY <1>1, <1>6, <3>1, Zenon
    <3>3. (s \o t) \o u = s \o (t \o u)
      BY ConcatAssociates
    <3>4. more \o <<e, d>> = ended
      BY <1>6, <2>4, <2>5, <2>9, <2>10, ConcatTwo
    <3> QED
      BY <1>4, <3>2, <3>3, <3>4
  <2>13. log' = [log EXCEPT ![r] = ended] /\ pc' = [pc EXCEPT ![r] = "over"]
    BY <1>10, <2>11, <2>12 DEF QaChunk, Emit, Goto
  <2>14. Types'
    BY <1>6, <1>7, <2>10, <2>13, LabelKinds DEF Types, IsAgent
  <2>15. log'[r] = ended /\ pc'[r] = "over"
    BY <2>13 DEF Types
  <2>16. StreamInv(r)'
    BY <2>10, <2>15 DEF StreamInv, Citing, Final
  <2>17. Grounded(r)'
    BY <2>10, <2>15 DEF Grounded
  <2> QED
    BY <1>3, <2>14, <2>16, <2>17 DEF Kept
<1>11. CASE c.finish # "error"
  <2>1. PICK p \in {"stream", "cite"} : pc' = [pc EXCEPT ![r] = p]
    BY <1>11 DEF QaChunk, Goto, Parsed
  <2>2. ContentEvents(r, c) \o <<>> = ContentEvents(r, c)
    BY <1>6, ConcatNone
  <2>3. log' = [log EXCEPT ![r] = more]
    BY <1>4, <1>11, <2>2 DEF QaChunk, Emit
  <2>4. Types'
    BY <1>6, <1>7, <2>1, <2>3, LabelKinds DEF Types, IsAgent
  <2>5. log'[r] = more /\ pc'[r] = p /\ answer'[r] = text
    BY <1>7, <2>1, <2>3 DEF Types
  <2>6. StreamInv(r)' /\ Grounded(r)' /\ At(log'[r], {"done"}) = {}
    BY <1>6, <1>8, <2>4, <2>5, QaMayCite DEF Grounded
  <2> QED
    BY <1>3, <2>4, <2>6 DEF Kept
<1> QED
  BY <1>9, <1>10, <1>11

LEMMA QaReads ==
    ASSUME Types, NEW r \in Req, StreamInv(r), Grounded(r), QaReceives(r)
    PROVE  Types' /\ Kept(r)
<1>1. pc[r] = "stream" /\ ~IsAgent(r)
  BY DEF QaReceives, MayReceive, IsQa, IsAgent
<1>2. PICK raw \in Raw : QaChunk(r, parse_stream_chunk(settings.provider, raw))
  BY DEF QaReceives
<1>3. Parsed(parse_stream_chunk(settings.provider, raw))
  BY ParsedChunks
<1>4. UNCHANGED <<settings, req, intent, chunks, memory, context, before, trouble>>
  BY DEF QaReceives
<1> QED
  BY <1>1, <1>2, <1>3, <1>4, QaGetsChunk

LEMMA QaStreamEnds ==
    ASSUME Types, NEW r \in Req, StreamInv(r), Grounded(r), QaStreamOver(r)
    PROVE  Types' /\ Kept(r)
<1>1. pc[r] = "stream" /\ ~IsAgent(r) /\ log[r] \in Seq(Event) /\ answer[r] \in Seq(Nat)
  BY DEF QaStreamOver, Types, IsQa, IsAgent
<1>2. UNCHANGED <<settings, req, intent, chunks, memory, context, before, trouble>>
  BY DEF QaStreamOver
<1>3. Streaming(log[r], answer[r])
  BY <1>1, BeforeCiting DEF Citing, Final, StreamInv
<1>4. At(log[r], {"done"}) = {}
  BY <1>3 DEF Streaming, At
<1>5. CASE Goto(r, "cite") /\ UNCHANGED <<log, answer>>
  <2>1. pc' = [pc EXCEPT ![r] = "cite"] /\ log' = log /\ answer' = answer
    BY <1>5 DEF Goto
  <2>2. Types'
    BY <1>1, <1>2, <2>1, LabelKinds DEF Types, IsAgent
  <2>3. pc'[r] = "cite" /\ ~IsAgent(r)'
    BY <1>1, <1>2, <2>1 DEF Types, IsAgent
  <2>4. StreamInv(r)' /\ Grounded(r)' /\ At(log'[r], {"done"}) = {}
    BY <1>2, <1>3, <2>1, <2>2, <2>3, QaMayCite DEF Grounded
  <2> QED
    BY <1>4, <2>2, <2>4 DEF Kept
<1>6. CASE QaChunk(r, ErrorChunk)
  BY <1>1, <1>2, <1>6, ParsedChunks, QaGetsChunk
<1>7. ASSUME Emit(r, <<ErrorEvent("LLM_STREAM_ERROR")>>), Goto(r, "over"), UNCHANGED answer
      PROVE  Types' /\ Kept(r)
  <2>1. PICK code \in Code : code = "LLM_STREAM_ERROR"
    BY DEF Code
  <2>2. PICK more : more = Append(log[r], ErrorEvent(code))
    OBVIOUS
  <2>3. /\ ErrorEvent(code) \in Event /\ more \in Seq(Event) /\ WellFormed(more)
        /\ At(more, {"citation"}) = {} /\ At(more, {"done"}) = {}
    BY <1>1, <1>3, <2>2, ErrorStep
  <2>4. log' = [log EXCEPT ![r] = more] /\ pc' = [pc EXCEPT ![r] = "over"]
    BY <1>1, <1>7, <2>1, <2>2, <2>3, ConcatOne DEF Emit, Goto
  <2>5. Types'
    BY <1>1, <1>2, <1>7, <2>3, <2>4, LabelKinds DEF Types, IsAgent
  <2>6. log'[r] = more /\ pc'[r] = "over"
    BY <2>4 DEF Types
  <2> QED
    BY <1>2, <1>4, <2>3, <2>5, <2>6, EndsInError
<1> QED
  BY <1>5, <1>6, <1>7 DEF QaStreamOver

LEMMA QaCitesOrEnds ==
    ASSUME Types, NEW r \in Req, StreamInv(r), Grounded(r), QaCites(r)
    PROVE  Types' /\ Kept(r)
<1>1. pc[r] = "cite" /\ ~IsAgent(r) /\ citations(r) = qa_citations(r)
  BY DEF QaCites, citations, IsQa, IsAgent
<1>2. UNCHANGED <<settings, req, intent, chunks, answer, memory, context, before, trouble>>
  BY DEF QaCites
<1>3. Count("citation", log[r]) \in Nat /\ Len(citations(r)) \in Nat
  BY <1>1, AtFacts, CitationsOf, DomainFinite DEF Types
<1>4. CASE Count("citation", log[r]) < Len(citations(r))
  BY <1>1, <1>2, <1>4, CiteStep DEF QaCites
<1>5. CASE ~(Count("citation", log[r]) < Len(citations(r)))
  <2>1. Count("citation", log[r]) <= Len(citations(r))
    BY <1>1 DEF StreamInv, Citing
  <2>2. Count("citation", log[r]) = Len(citations(r))
    BY <1>3, <1>5, <2>1
  <2>3. Emit(r, <<DoneEvent(Count("citation", log[r]))>>) /\ Goto(r, "save_turn")
    BY <1>1, <1>5, <2>2 DEF QaCites
  <2>4. /\ log' \in [Req -> Seq(Event)] /\ WellFormed(log'[r]) /\ Grounded(r)'
        /\ At(log'[r], {"done"}) # {} /\ At(log'[r], {"error"}) = {}
        /\ IsStreamed(answer[r], log'[r])
    BY <1>1, <1>2, <2>3, DoneSent DEF Citing
  <2>5. pc' = [pc EXCEPT ![r] = "save_turn"]
    BY <2>3 DEF Goto
  <2>6. "save_turn" \in Label /\ "save_turn" \notin AgentLabel
    BY DEF Label, AgentLabel, QaLabel
  <2>7. Types'
    BY <1>1, <1>2, <2>4, <2>5, <2>6 DEF Types, IsAgent
  <2>8. pc'[r] = "save_turn"
    BY <2>5 DEF Types
  <2>9. StreamInv(r)'
    BY <1>2, <2>4, <2>8 DEF StreamInv, Citing, Final
  <2> QED
    BY <1>1, <2>4, <2>7, <2>9 DEF Kept
<1> QED
  BY <1>4, <1>5

LEMMA QaSavesTurn ==
    ASSUME Types, NEW r \in Req, StreamInv(r), Grounded(r), QaRemembers(r)
    PROVE  Types' /\ Kept(r)
<1>1. /\ pc[r] = "save_turn" /\ ~IsAgent(r) /\ pc' = [pc EXCEPT ![r] = "over"]
      /\ UNCHANGED <<settings, req, log, intent, chunks, answer, context, before>>
  BY DEF QaRemembers, Goto, Types, QaLabel, AgentLabel
<1>2. answer[r] \in Seq(Nat)
  BY DEF Types
<1>3. /\ memory' \subseteq [run : Req, text : Seq(Nat)] /\ memory \subseteq memory'
      /\ trouble' \subseteq Req
  BY <1>2, SavedTurn DEF QaRemembers
<1>4. Types'
  BY <1>1, <1>3, LabelKinds DEF Types, IsAgent
<1>5. pc'[r] = "over"
  BY <1>1 DEF Types
<1>6. StreamInv(r)'
  BY <1>1, <1>5 DEF StreamInv, Citing, Final
<1>7. Grounded(r)'
  BY <1>1 DEF Grounded
<1> QED
  BY <1>1, <1>4, <1>6, <1>7 DEF Kept

LEMMA Leaves ==
    ASSUME Types, NEW r \in Req, StreamInv(r), Grounded(r), ClientLeaves(r)
    PROVE  Types' /\ Kept(r)
<1>1. /\ pc' = [pc EXCEPT ![r] = "left"]
      /\ UNCHANGED <<settings, req, log, intent, chunks, answer, memory, context, before,
                     trouble>>
  BY DEF ClientLeaves, Goto
<1>2. Types'
  BY <1>1, LabelKinds DEF Types, IsAgent
<1>3. pc'[r] = "left"
  BY <1>1 DEF Types
<1>4. StreamInv(r)'
  BY <1>1, <1>3 DEF StreamInv, Citing, Final
<1>5. Grounded(r)'
  BY <1>1 DEF Grounded
<1> QED
  BY <1>1, <1>2, <1>4, <1>5 DEF Kept

Step(r) == AgentStep(r) \/ QaStep(r) \/ ClientLeaves(r)

LEMMA StepKeeps ==
    ASSUME Types, NEW r \in Req, StreamInv(r), Grounded(r), Step(r)
    PROVE  Types' /\ Kept(r)
<1>1. CASE AgentStep(r)
  BY <1>1, AgentBegins, MemoryLoads, IntentFound, Retrieves, GenerationOpens, Searches,
     AgentReads, AgentStreamEnds, AgentValidates, AgentCites, CheckpointSaves,
     AgentRemembers, AgentEnds, Zenon DEF AgentStep
<1>2. CASE QaStep(r)
  BY <1>2, QaBegins, QaFinds, QaReads, QaStreamEnds, QaCitesOrEnds, QaSavesTurn, Zenon
     DEF QaStep
<1> QED
  BY <1>1, <1>2, Leaves DEF Step

(* A step changes the state of its own request only.                       *)
LEMMA OthersKept ==
    ASSUME Types, NEW r \in Req, Step(r)
    PROVE  req' = req /\ \A q \in Req \ {r} : SameRequest(q)
<1> USE DEF Goto, Emit, SameRequest, Types
<1>1. CASE AgentStep(r)
  <2>1. CASE run_stream(r)
    BY <2>1 DEF run_stream
  <2>2. CASE LoadMemory(r)
    BY <2>2 DEF LoadMemory
  <2>3. CASE intent_node(r)
    BY <2>3 DEF intent_node, IntentKnown, IntentFails
  <2>4. CASE retrieval_node(r)
    BY <2>4 DEF retrieval_node, Retrieved, RetrievalForbidden
  <2>5. CASE GenerationStarts(r)
    BY <2>5 DEF GenerationStarts
  <2>6. CASE AcquireChecks(r) \/ AcquireEnters(r)
    BY <2>6 DEF AcquireChecks, AcquireEnters
  <2>7. CASE AgentReceives(r)
    BY <2>7 DEF AgentReceives, AgentChunk
  <2>8. CASE AgentStreamOver(r)
    BY <2>8 DEF AgentStreamOver, AgentChunk
  <2>9. CASE ValidateStep(r)
    BY <2>9 DEF ValidateStep
  <2>10. CASE SendCitation(r)
    BY <2>10 DEF SendCitation
  <2>11. CASE SaveCheckpoint(r) \/ Remember(r) \/ AgentDone(r)
    BY <2>11 DEF SaveCheckpoint, Remember, AgentDone
  <2> QED
    BY <1>1, <2>1, <2>2, <2>3, <2>4, <2>5, <2>6, <2>7, <2>8, <2>9, <2>10, <2>11
    DEF AgentStep
<1>2. CASE QaStep(r)
  <2>1. CASE stream_answer(r)
    BY <2>1 DEF stream_answer
  <2>2. CASE QaRetrieves(r)
    BY <2>2 DEF QaRetrieves
  <2>3. CASE QaReceives(r)
    BY <2>3 DEF QaReceives, QaChunk
  <2>4. CASE QaStreamOver(r)
    BY <2>4 DEF QaStreamOver, QaChunk
  <2>5. CASE QaCites(r)
    BY <2>5 DEF QaCites
  <2>6. CASE QaRemembers(r)
    BY <2>6 DEF QaRemembers
  <2> QED
    BY <1>2, <2>1, <2>2, <2>3, <2>4, <2>5, <2>6 DEF QaStep
<1>3. CASE ClientLeaves(r)
  BY <1>3 DEF ClientLeaves
<1> QED
  BY <1>1, <1>2, <1>3 DEF Step

-----------------------------------------------------------------------------
(* MEMORY                                                                  *)

finished == {s \in Req : Count("done", log[s]) > 0}

(* What a step does to what requests remember of each other.               *)
Effects(r) ==
    /\ \A q \in Req \ {r} : before'[q] = before[q] /\ context'[q] = context[q]
    /\ pc[r] \notin {"idle", "memory"} =>
          before'[r] = before[r] /\ context'[r] = context[r]
    /\ pc[r] = "memory" =>
          before'[r] = before[r] /\ (r \in trouble' \/ context'[r] = memory)
    /\ pc[r] = "idle" =>
          /\ before'[r] = finished /\ log' = log
          /\ pc'[r] = "memory" \/ r \in trouble' \/ context'[r] = memory
    /\ pc'[r] = "done" => Remember(r)
    /\ pc[r] \in {"done", "over"} => AgentDone(r)
    /\ memory' = memory \/ Remember(r) \/ QaRemembers(r)
    /\ trouble \subseteq trouble'

LEMMA StepEffects ==
    ASSUME Types, NEW r \in Req, Step(r)
    PROVE  Effects(r)
<1> USE DEF Effects, Types, Goto
<1>1. CASE AgentStep(r)
  <2>1. CASE run_stream(r)
    BY <2>1 DEF run_stream, finished
  <2>2. CASE LoadMemory(r)
    BY <2>2 DEF LoadMemory, load_context
  <2>3. CASE intent_node(r)
    BY <2>3 DEF intent_node, IntentKnown, IntentFails, route_by_intent
  <2>4. CASE retrieval_node(r)
    BY <2>4 DEF retrieval_node, Retrieved, RetrievalForbidden
  <2>5. CASE GenerationStarts(r)
    BY <2>5 DEF GenerationStarts
  <2>6. CASE AcquireChecks(r) \/ AcquireEnters(r)
    BY <2>6 DEF AcquireChecks, AcquireEnters
  <2>7. CASE AgentReceives(r)
    BY <2>7 DEF AgentReceives, AgentChunk, MayReceive
  <2>8. CASE AgentStreamOver(r)
    BY <2>8 DEF AgentStreamOver, AgentChunk
  <2>9. CASE ValidateStep(r)
    BY <2>9 DEF ValidateStep
  <2>10. CASE SendCitation(r)
    BY <2>10 DEF SendCitation
  <2>11. CASE SaveCheckpoint(r)
    BY <2>11 DEF SaveCheckpoint
  <2>12. CASE Remember(r)
    <3>1. pc[r] = "remember" /\ before' = before /\ context' = context
      BY <2>12 DEF Remember
    <3>2. trouble \subseteq trouble'
      BY <2>12 DEF Remember, save_turn
    <3> QED
      BY <2>12, <3>1, <3>2, Zenon
  <2>13. CASE AgentDone(r)
    BY <2>13 DEF AgentDone
  <2> QED
    BY <1>1, <2>1, <2>2, <2>3, <2>4, <2>5, <2>6, <2>7, <2>8, <2>9, <2>10, <2>11, <2>12,
       <2>13 DEF AgentStep
<1>2. CASE QaStep(r)
  <2>1. CASE stream_answer(r)
    BY <2>1 DEF stream_answer, load_context, finished
  <2>2. CASE QaRetrieves(r)
    BY <2>2 DEF QaRetrieves
  <2>7. ASSUME NEW c, Parsed(c), QaChunk(r, c) PROVE pc'[r] \in {"over", "cite", "stream"}
    BY <2>7 DEF QaChunk, Parsed
  <2>3. CASE QaReceives(r)
    <3>1. PICK raw \in Raw : QaChunk(r, parse_stream_chunk(settings.provider, raw))
      BY <2>3 DEF QaReceives
    <3>2. pc'[r] # "done"
      BY <2>7, <3>1, ParsedChunks
    <3> QED
      BY <2>3, <3>2 DEF QaReceives, MayReceive
  <2>4. CASE QaStreamOver(r)
    <3>1. QaChunk(r, ErrorChunk) => pc'[r] # "done"
      BY <2>7, ParsedChunks
    <3>2. pc'[r] # "done"
      BY <2>4, <3>1 DEF QaStreamOver
    <3> QED
      BY <2>4, <3>2 DEF QaStreamOver
  <2>5. CASE QaCites(r)
    BY <2>5 DEF QaCites
  <2>6. CASE QaRemembers(r)
    <3>1. pc[r] = "save_turn" /\ pc'[r] = "over" /\ before' = before /\ context' = context
      BY <2>6 DEF QaRemembers
    <3>2. trouble \subseteq trouble'
      BY <2>6 DEF QaRemembers, save_turn
    <3> QED
      BY <2>6, <3>1, <3>2, Zenon
  <2> QED
    BY <1>2, <2>1, <2>2, <2>3, <2>4, <2>5, <2>6 DEF QaStep
<1>3. CASE ClientLeaves(r)
  BY <1>3 DEF ClientLeaves, Yielded
<1> QED
  BY <1>1, <1>2, <1>3 DEF Step

LEMMA MemoryStep ==
    ASSUME Types, Types', NEW r \in Req, \A q \in Req : StreamInv(q) /\ Grounded(q),
           MemoryInv, Step(r), Kept(r), req' = req,
           \A q \in Req \ {r} : SameRequest(q)
    PROVE  MemoryInv'
<1>1. Effects(r)
  BY StepEffects
<1>2. IsAgent(r)' = IsAgent(r) /\ \A q \in Req : IsAgent(q)' = IsAgent(q)
  BY DEF IsAgent
<1>3. \A q \in Req : log[q] \in Seq(Event) /\ log'[q] \in Seq(Event) /\ answer[q] \in Seq(Nat)
  BY DEF Types
<1>4. \A m \in memory : m.run \in Req
  BY DEF Types
<1>5. /\ memory \subseteq memory'
      /\ \A m \in memory' : m \in memory \/
            /\ m.run = r
            /\ \/ Remember(r) /\ m.text = draft_answer(r)
               \/ QaRemembers(r) /\ m.text = answer[r]
      /\ Remember(r) => r \in trouble' \/ \E m \in memory' : m.run = r
  <2>1. CASE memory' = memory /\ ~Remember(r) /\ ~QaRemembers(r)
    BY <2>1
  <2>2. CASE Remember(r)
    <3>1. draft_answer(r) \in Seq(Nat) /\ draft_answer(r) # <<>>
      BY <1>3 DEF draft_answer
    <3> QED
      BY <2>2, <3>1, SavedTurn DEF Remember
  <2>3. CASE QaRemembers(r) /\ ~Remember(r)
    BY <1>3, <2>3, SavedTurn DEF QaRemembers
  <2> QED
    BY <1>1, <2>1, <2>2, <2>3 DEF Effects
<1>6. \A m \in memory' :
         /\ pc'[m.run] \in {"done", "over"}
         /\ At(log'[m.run], {"error"}) = {}
         /\ IsStreamed(m.text, log'[m.run])
               \/ (m.text = <<0>> /\ Count("chunk", log'[m.run]) = 0)
  <2> SUFFICES ASSUME NEW m \in memory'
               PROVE  /\ pc'[m.run] \in {"done", "over"}
                      /\ At(log'[m.run], {"error"}) = {}
                      /\ IsStreamed(m.text, log'[m.run])
                            \/ (m.text = <<0>> /\ Count("chunk", log'[m.run]) = 0)
    OBVIOUS
  <2>1. ASSUME m \in memory
        PROVE  /\ pc[m.run] \in {"done", "over"}
               /\ At(log[m.run], {"error"}) = {}
               /\ IsStreamed(m.text, log[m.run])
                     \/ (m.text = <<0>> /\ Count("chunk", log[m.run]) = 0)
    BY <2>1 DEF MemoryInv, RememberedWasShown
  <2>2. CASE m \in memory /\ m.run # r
    <3>1. m.run \in Req \ {r}
      BY <1>4, <2>2
    <3> QED
      BY <2>1, <2>2, <3>1 DEF SameRequest
  <2>3. CASE m \in memory /\ m.run = r
    <3>1. AgentDone(r)
      BY <1>1, <2>1, <2>3 DEF Effects
    <3>2. pc[r] = "done" /\ pc'[r] = "over"
      BY <3>1 DEF AgentDone, Goto, Types
    <3>3. Count("citation", log[r]) = Len(agent_citations(r)) /\ chunks' = chunks /\ answer' = answer
      <4>1. IsAgent(r)
        BY <3>2 DEF Types, AgentLabel
      <4> QED
        BY <3>1, <3>2, <4>1 DEF AgentDone, StreamInv, citations
    <3>4. Emit(r, <<DoneEvent(Count("citation", log[r]))>>)
      BY <3>1, <3>3 DEF AgentDone
    <3>5. /\ At(log'[r], {"error"}) = {}
          /\ Count("chunk", log'[r]) = Count("chunk", log[r])
          /\ \A text : IsStreamed(text, log[r]) => IsStreamed(text, log'[r])
      BY <3>2, <3>3, <3>4, DoneSent DEF Citing
    <3> QED
      BY <2>1, <2>3, <3>2, <3>5
  <2>4. CASE m \notin memory
    <3>1. m.run = r
      BY <1>5, <2>4
    <3>2. CASE Remember(r) /\ m.text = draft_answer(r)
      <4>1. pc[r] = "remember" /\ pc'[r] = "done" /\ log' = log
        BY <3>2 DEF Remember, Goto, Types
      <4>2. At(log[r], {"done", "error"}) = {} /\ IsStreamed(answer[r], log[r])
        BY <4>1 DEF StreamInv, Final
      <4>3. At(log[r], {"error"}) = {}
        BY <4>2 DEF At
      <4>4. answer[r] = <<>> => Count("chunk", log[r]) = 0
        BY <4>2 DEF IsStreamed
      <4> QED
        BY <3>1, <3>2, <4>1, <4>2, <4>3, <4>4 DEF draft_answer
    <3>3. CASE QaRemembers(r) /\ m.text = answer[r]
      <4>1. pc[r] = "save_turn" /\ pc'[r] = "over" /\ log' = log
        BY <3>3 DEF QaRemembers, Goto, Types
      <4>2. At(log[r], {"error"}) = {} /\ IsStreamed(answer[r], log[r])
        BY <4>1 DEF StreamInv
      <4> QED
        BY <3>1, <3>3, <4>1, <4>2
    <3> QED
      BY <1>5, <2>4, <3>2, <3>3
  <2> QED
    BY <2>2, <2>3, <2>4
<1>7. ASSUME NEW q \in Req, IsAgent(q), pc'[q] = "done" \/ At(log'[q], {"done"}) # {}
      PROVE  q \in trouble' \/ \E m \in memory' : m.run = q
  <2>1. (pc[q] = "done" \/ At(log[q], {"done"}) # {}) => q \in trouble' \/ \E m \in memory' : m.run = q
    BY <1>1, <1>5, <1>7 DEF MemoryInv, Effects
  <2>2. CASE q # r
    BY <1>7, <2>1, <2>2 DEF SameRequest
  <2>3. CASE q = r /\ pc'[q] = "done"
    BY <1>1, <1>5, <2>3 DEF Effects
  <2>4. CASE q = r /\ At(log'[q], {"done"}) # {}
    BY <1>7, <2>1, <2>4 DEF Kept
  <2> QED
    BY <1>7, <2>2, <2>3, <2>4
<1>8. \A s \in Req : At(log[s], {"done"}) # {} => At(log'[s], {"done"}) # {}
  BY DEF Kept, SameRequest
<1>9. \A s \in finished : s \in Req /\ At(log[s], {"done"}) # {}
  <2> SUFFICES ASSUME NEW s \in finished PROVE s \in Req /\ At(log[s], {"done"}) # {}
    OBVIOUS
  <2>1. s \in Req /\ Count("done", log[s]) > 0
    BY DEF finished
  <2>2. log[s] \in Seq(Event)
    BY <1>3, <2>1
  <2>3. Count("done", log[s]) # 0
    BY <2>1
  <2> QED
    BY <2>1, <2>2, <2>3, AtFacts
<1>10. ASSUME NEW q \in Req, NEW s \in before'[q]
       PROVE  s \in Req /\ At(log'[s], {"done"}) # {}
  <2>1. s \in before[q] => s \in Req /\ At(log'[s], {"done"}) # {}
    BY <1>8 DEF MemoryInv, Types
  <2>2. s \in before[q] \/ s \in finished
    BY <1>1 DEF Effects, Types, Label
  <2> QED
    BY <1>8, <1>9, <2>1, <2>2
<1>11. ASSUME NEW q \in Req, NEW s \in Req, s \in before'[q], IsAgent(s),
              {q, s} \cap trouble' = {}, pc'[q] \notin {"idle", "memory"}
       PROVE  \E m \in context'[q] : m.run = s
  <2>1. {q, s} \cap trouble = {} /\ q \notin trouble' /\ s \notin trouble'
    BY <1>1, <1>11 DEF Effects
  <2>2. s \in before[q] /\ pc[q] \notin {"idle", "memory"} => \E m \in context[q] : m.run = s
    BY <1>11, <2>1 DEF MemoryInv, NextTurnRemembers
  <2>3. At(log[s], {"done"}) # {} => \E m \in memory : m.run = s
    BY <1>11, <2>1 DEF MemoryInv
  <2>4. CASE q # r
    BY <1>1, <1>11, <2>2, <2>4 DEF Effects, SameRequest
  <2>5. CASE q = r /\ pc[r] \notin {"idle", "memory"}
    BY <1>1, <1>11, <2>2, <2>5 DEF Effects
  <2>6. CASE q = r /\ pc[r] = "memory"
    <3>1. s \in before[q] /\ context'[q] = memory
      BY <1>1, <1>11, <2>1, <2>6 DEF Effects
    <3>2. At(log[s], {"done"}) # {}
      BY <3>1 DEF MemoryInv
    <3> QED
      BY <2>3, <3>1, <3>2
  <2>7. CASE q = r /\ pc[r] = "idle"
    <3>1. s \in finished /\ context'[q] = memory
      BY <1>1, <1>11, <2>1, <2>7 DEF Effects
    <3> QED
      BY <1>9, <2>3, <3>1
  <2> QED
    BY <2>4, <2>5, <2>6, <2>7
<1>12. RememberedWasShown'
  BY <1>6 DEF RememberedWasShown
<1>13. NextTurnRemembers'
  BY <1>2, <1>11 DEF NextTurnRemembers
<1> QED
  BY <1>2, <1>6, <1>7, <1>10, <1>12, <1>13 DEF MemoryInv

-----------------------------------------------------------------------------
(* THE INVARIANT                                                           *)

LEMMA AnswerInvInit == AnsweringInit => AnswerInv
<1> SUFFICES ASSUME AnsweringInit PROVE AnswerInv
  OBVIOUS
<1> USE DEF AnsweringInit
<1>1. PICK w \in Scenario : settings = w.settings /\ req = w.req
  OBVIOUS
<1>2. settings \in SettingsShape /\ req \in [Req -> RequestShape]
  BY <1>1, AnsweringAssumption
<1>3. \A r \in Req : req[r].intent \in Intents \cup {""}
  BY <1>2 DEF RequestShape
<1>4. <<>> \in Seq(Event) /\ <<>> \in Seq(Nat) /\ <<>> \in Seq(STRING)
  OBVIOUS
<1>5. Types
  BY <1>2, <1>3, <1>4, LabelKinds DEF Types
<1>6. \A types : At(<<>>, types) = {}
  BY DEF At
<1>7. \A t : Count(t, <<>>) = 0
  BY <1>4, <1>6, AtFacts
<1>8. WellFormed(<<>>) /\ IsStreamed(<<>>, <<>>)
  BY <1>6, <1>7 DEF WellFormed, OneEnd, NodesNest, Numbered, CitationsOrdered, IsStreamed
<1>9. ASSUME NEW r \in Req PROVE StreamInv(r) /\ Grounded(r)
  BY <1>6, <1>8 DEF StreamInv, Grounded, Citing, Final
<1>10. MemoryInv
  BY <1>6 DEF MemoryInv, RememberedWasShown, NextTurnRemembers
<1> QED
  BY <1>5, <1>9, <1>10 DEF AnswerInv

LEMMA AnswerInvStep == AnswerInv /\ [Next]_answerVars => AnswerInv'
<1> SUFFICES ASSUME AnswerInv, [Next]_answerVars PROVE AnswerInv'
  OBVIOUS
<1> USE DEF AnswerInv
<1>1. ASSUME NEW r \in Req, Step(r) PROVE AnswerInv'
  <2>1. Types' /\ Kept(r)
    BY <1>1, StepKeeps
  <2>2. req' = req /\ \A q \in Req \ {r} : SameRequest(q)
    BY <1>1, OthersKept
  <2>3. \A q \in Req \ {r} : Kept(q)
    BY <2>2, FrameRequest
  <2>4. \A q \in Req : StreamInv(q)' /\ Grounded(q)'
    BY <2>1, <2>3 DEF Kept
  <2>5. MemoryInv'
    BY <1>1, <2>1, <2>2, MemoryStep
  <2> QED
    BY <2>1, <2>4, <2>5
<1>2. CASE WindowPasses \/ UNCHANGED answerVars
  <2>1. UNCHANGED <<settings, req, pc, intent, chunks, answer, log, memory, context, before,
                    trouble>>
    BY <1>2 DEF WindowPasses, answerVars
  <2>2. Types'
    BY <2>1 DEF Types, IsAgent
  <2>3. \A q \in Req : Kept(q)
    BY <2>1, FrameRequest DEF SameRequest
  <2>4. MemoryInv'
    BY <2>1 DEF MemoryInv, RememberedWasShown, NextTurnRemembers, IsAgent
  <2> QED
    BY <2>2, <2>3, <2>4 DEF Kept
<1> QED
  BY <1>1, <1>2 DEF Next, Step

LEMMA AnswerInvHolds == Spec => []AnswerInv
<1>1. AnsweringInit => AnswerInv
  BY AnswerInvInit
<1>2. AnswerInv /\ [Next]_answerVars => AnswerInv'
  BY AnswerInvStep
<1> QED
  BY <1>1, <1>2, PTL DEF Spec

-----------------------------------------------------------------------------
(* THEOREMS                                                                *)

(* Whatever the model, the stores and the web search do, and whenever the  *)
(* client leaves, a response is well-formed: one end and nothing after it, *)
(* nodes that nest, text and reasoning numbered without a gap (through the *)
(* fallback of qa_service.py, too), citations after the text in their      *)
(* order, and a done that counts them.                                     *)
THEOREM ResponsesWellFormed == Spec => []StreamWellFormed
<1>1. AnswerInv => StreamWellFormed
  BY DEF AnswerInv, StreamInv, StreamWellFormed
<1> QED
  BY <1>1, AnswerInvHolds, PTL

(* The citations sent by _build_citations of both services point at chunks *)
(* this very request retrieved, of resources it named, and the text sent   *)
(* carries their markers.                                                  *)
THEOREM CitationsAlwaysGrounded == Spec => []CitationsGrounded
<1>1. AnswerInv => CitationsGrounded
  <2> SUFFICES ASSUME AnswerInv, NEW r \in Req, NEW i \in At(log[r], {"citation"})
               PROVE  LET c == log[r][i].cite
                      IN  /\ c.original \in DOMAIN chunks[r]
                          /\ chunks[r][c.original] = c.resource
                          /\ c.resource \in req[r].resources
                          /\ \E j \in At(log[r], {"chunk"}) : log[r][j].piece = c.original
    BY DEF CitationsGrounded
  <2> QED
    BY DEF AnswerInv, Grounded
<1> QED
  BY <1>1, AnswerInvHolds, PTL

(* MemoryService.save_turn is given the text that was streamed, or the     *)
(* fallback message where there was none, and never of a failed answer.    *)
THEOREM RememberedTurnsShown == Spec => []RememberedWasShown
<1>1. AnswerInv => RememberedWasShown
  BY DEF AnswerInv, MemoryInv
<1> QED
  BY <1>1, AnswerInvHolds, PTL

(* A question asked after the agent's done finds the turn before it in the *)
(* memory, unless the memory failed one of the two: run_stream saves       *)
(* before it says done.                                                    *)
THEOREM TurnsRemembered == Spec => []NextTurnRemembers
<1>1. AnswerInv => NextTurnRemembers
  BY DEF AnswerInv, MemoryInv
<1> QED
  BY <1>1, AnswerInvHolds, PTL

-----------------------------------------------------------------------------
(* THE CONTRACT WITH THE GATEWAY                                           *)

(* Events are only ever added to a response, and the thread of a response  *)
(* whose client has left does not go on.                                   *)
Extends(r) ==
    /\ pc[r] \notin {"over", "left"} /\ pc'[r] # "left"
    /\ \E more \in Seq(Event) : log'[r] = log[r] \o more

LEMMA TupleTypes ==
    /\ <<>> \in Seq(Event)
    /\ \A d \in Event : <<d>> \in Seq(Event)
    /\ \A d, e \in Event : <<d, e>> \in Seq(Event)
    /\ \A d, e, f \in Event : <<d, e, f>> \in Seq(Event)
OBVIOUS

LEMMA EmitExtends ==
    ASSUME Types, NEW r \in Req, NEW more \in Seq(Event),
           Emit(r, more) \/ (more = <<>> /\ log' = log)
    PROVE  log'[r] = log[r] \o more
<1>1. log[r] \in Seq(Event)
  BY DEF Types
<1>2. log[r] \o <<>> = log[r]
  BY <1>1, ConcatNone
<1> QED
  BY <1>2 DEF Emit, Types

LEMMA ChunkExtends ==
    ASSUME Types, NEW r \in Req, StreamInv(r), NEW c, Parsed(c), pc[r] = "stream",
           (IsAgent(r) /\ AgentChunk(r, c)) \/ QaChunk(r, c)
    PROVE  Extends(r)
<1>1. log[r] \in Seq(Event) /\ answer[r] \in Seq(Nat)
  BY DEF Types
<1>2. Streaming(log[r], answer[r])
  BY BeforeCiting DEF Citing, Final
<1>3. ContentEvents(r, c) \in Seq(Event)
  BY <1>1, <1>2, ContentStep
<1>4. pc'[r] # "left"
  BY DEF AgentChunk, QaChunk, Goto, Types, Parsed
<1>5. ASSUME NEW last \in Seq(Event), Emit(r, ContentEvents(r, c) \o last)
      PROVE  \E more \in Seq(Event) : log'[r] = log[r] \o more
  <2>1. PICK more \in Seq(Event) : more = ContentEvents(r, c) \o last
    <3>1. PICK t \in Seq(Event) : t = ContentEvents(r, c)
      BY <1>3
    <3>2. t \o last \in Seq(Event)
      OBVIOUS
    <3> QED
      BY <3>1, <3>2
  <2>2. log'[r] = log[r] \o more
    BY <1>5, <2>1, EmitExtends
  <2> QED
    BY <2>2
<1>6. \A code \in Code : <<ErrorEvent(code)>> \in Seq(Event)
  BY EventTypes, TupleTypes
<1>7. CASE AgentChunk(r, c)
  <2>1. PICK code \in Code : code = "AGENT_LLM_ERROR"
    BY DEF Code
  <2>2. \E last \in Seq(Event) : Emit(r, ContentEvents(r, c) \o last)
    BY <1>6, <1>7, <2>1, TupleTypes DEF AgentChunk
  <2> QED
    BY <1>4, <1>5, <2>2 DEF Extends
<1>8. CASE QaChunk(r, c)
  <2>1. PICK code \in Code : code = "LLM_TIMEOUT"
    BY DEF Code
  <2>2. PICK index \in Nat : index = Count("chunk", log[r]) + Len(c.delta)
    <3>1. PICK n \in Nat : n = Len(c.delta)
      BY DEF Parsed
    <3>2. PICK events \in Seq(Event) : events = log[r]
      BY <1>1
    <3>3. PICK sent \in Nat : sent = Count("chunk", events)
      BY AtFacts
    <3>4. sent + n \in Nat
      OBVIOUS
    <3> QED
      BY <3>1, <3>2, <3>3, <3>4
  <2>3. ChunkEvent(0, index) \in Event /\ DoneEvent(0) \in Event
    BY EventTypes
  <2>4. fallback_answer(r, c) \in Seq(Event)
    BY <1>6, <2>1, <2>2, <2>3, TupleTypes DEF fallback_answer
  <2>5. \E last \in Seq(Event) : Emit(r, ContentEvents(r, c) \o last)
    BY <1>8, <2>4, TupleTypes DEF QaChunk
  <2> QED
    BY <1>4, <1>5, <2>5 DEF Extends
<1> QED
  BY <1>7, <1>8

LEMMA NextCitation ==
    ASSUME Types, NEW r \in Req
    PROVE  /\ DoneEvent(Len(citations(r))) \in Event
           /\ Count("citation", log[r]) < Len(citations(r)) =>
                 CitationEvent(citations(r)[Count("citation", log[r]) + 1]) \in Event
<1>1. PICK events \in Seq(Event) : events = log[r]
  BY DEF Types
<1>2. PICK sent \in Nat : sent = Count("citation", events)
  BY AtFacts
<1>3. PICK cites \in Seq(Citation) : cites = citations(r)
  BY CitationsOf
<1>4. PICK n \in Nat : n = Len(cites) /\ DOMAIN cites = 1..n
  BY DomainFinite
<1>5. sent < n => sent + 1 \in 1..n
  OBVIOUS
<1>6. sent < n => cites[sent + 1] \in Citation
  BY <1>4, <1>5
<1>7. sent < n => CitationEvent(cites[sent + 1]) \in Event
  BY <1>6, EventTypes
<1>8. DoneEvent(n) \in Event
  BY EventTypes
<1> QED
  BY <1>1, <1>2, <1>3, <1>4, <1>7, <1>8

LEMMA StepExtends ==
    ASSUME Types, NEW r \in Req, StreamInv(r), AgentStep(r) \/ QaStep(r)
    PROVE  Extends(r)
<1> USE DEF Types, Goto
<1>1. ASSUME pc[r] \notin {"over", "left"}, pc'[r] # "left",
             NEW more \in Seq(Event), Emit(r, more) \/ (more = <<>> /\ log' = log)
      PROVE  Extends(r)
  BY <1>1, EmitExtends DEF Extends
<1>2. <<>> \in Seq(Event)
  BY TupleTypes
<1>3. \A n \in NodeName : NodeStart(n) \in Event /\ NodeEnd(n) \in Event
  BY EventTypes
<1>4. \A code \in Code : ErrorEvent(code) \in Event
  BY EventTypes
<1>5. {"intent", "retrieve", "validate"} \subseteq NodeName /\ intent[r] \in NodeName
  BY DEF NodeName
<1>6. {"FORBIDDEN", "RETRIEVAL_UNAVAILABLE", "LLM_STREAM_ERROR"} \subseteq Code
  BY DEF Code
<1>7. /\ DoneEvent(Len(citations(r))) \in Event
      /\ Count("citation", log[r]) < Len(citations(r)) =>
            CitationEvent(citations(r)[Count("citation", log[r]) + 1]) \in Event
  BY NextCitation
<1>8. CASE AgentStep(r)
  <2>1. CASE run_stream(r) \/ LoadMemory(r) \/ AcquireChecks(r) \/ AcquireEnters(r)
             \/ SaveCheckpoint(r) \/ Remember(r)
    BY <1>1, <1>2, <2>1
    DEF run_stream, LoadMemory, AcquireChecks, AcquireEnters, SaveCheckpoint, Remember
  <2>2. CASE intent_node(r)
    <3>1. /\ pc[r] = "intent" /\ pc'[r] # "left"
      BY <2>2 DEF intent_node, IntentKnown, IntentFails, route_by_intent
    <3>2. \/ Emit(r, <<NodeStart("intent"), NodeEnd("intent")>>)
          \/ \E code \in Code : Emit(r, <<NodeStart("intent"), ErrorEvent(code)>>)
      BY <2>2 DEF intent_node, IntentKnown, IntentFails, Code
    <3>3. \E more \in Seq(Event) : Emit(r, more)
      BY <1>3, <1>4, <1>5, <3>2, TupleTypes
    <3> QED
      BY <1>1, <3>1, <3>3
  <2>3. CASE retrieval_node(r)
    <3>1. /\ pc[r] = "retrieve" /\ pc'[r] # "left"
      BY <2>3 DEF retrieval_node, Retrieved, RetrievalForbidden
    <3>2. \/ Emit(r, <<NodeStart("retrieve"), NodeEnd("retrieve")>>)
          \/ Emit(r, <<NodeStart("retrieve"), ErrorEvent("FORBIDDEN")>>)
      BY <2>3 DEF retrieval_node, Retrieved, RetrievalForbidden
    <3>3. \E more \in Seq(Event) : Emit(r, more)
      BY <1>3, <1>4, <1>5, <1>6, <3>2, TupleTypes
    <3> QED
      BY <1>1, <3>1, <3>3
  <2>4. CASE GenerationStarts(r)
    <3>1. pc[r] = "generate" /\ pc'[r] # "left" /\ Emit(r, <<NodeStart(intent[r])>>)
      BY <2>4 DEF GenerationStarts
    <3>2. <<NodeStart(intent[r])>> \in Seq(Event)
      BY <1>3, <1>5, TupleTypes
    <3> QED
      BY <1>1, <3>1, <3>2
  <2>5. CASE AgentReceives(r)
    BY <2>5, ParsedChunks, ChunkExtends DEF AgentReceives, MayReceive
  <2>6. CASE AgentStreamOver(r)
    <3>1. CASE AgentChunk(r, ErrorChunk)
      BY <2>6, <3>1, ParsedChunks, ChunkExtends DEF AgentStreamOver
    <3>2. CASE Goto(r, "drafted") /\ log' = log
      BY <1>1, <1>2, <2>6, <3>2 DEF AgentStreamOver
    <3>3. ASSUME NEW wire \in Wire, Emit(r, <<ErrorEvent(StreamStart(wire))>>), Goto(r, "over")
          PROVE  Extends(r)
      <4>1. StreamStart(wire) \in Code
        BY DEF Code
      <4>2. <<ErrorEvent(StreamStart(wire))>> \in Seq(Event)
        BY <1>4, <4>1, TupleTypes
      <4>3. pc[r] = "stream" /\ pc'[r] = "over"
        BY <2>6, <3>3 DEF AgentStreamOver
      <4> QED
        BY <1>1, <3>3, <4>2, <4>3
    <3> QED
      BY <2>6, <3>1, <3>2, <3>3 DEF AgentStreamOver
  <2>7. CASE ValidateStep(r)
    <3>1. /\ pc[r] = "drafted" /\ pc'[r] # "left"
          /\ Emit(r, <<NodeEnd(intent[r]), NodeStart("validate"), NodeEnd("validate")>>)
      BY <2>7 DEF ValidateStep
    <3>2. <<NodeEnd(intent[r]), NodeStart("validate"), NodeEnd("validate")>> \in Seq(Event)
      BY <1>3, <1>5, TupleTypes
    <3> QED
      BY <1>1, <3>1, <3>2
  <2>8. CASE SendCitation(r)
    <3>1. /\ pc[r] = "cite" /\ pc' = pc
          /\ Emit(r, <<CitationEvent(citations(r)[Count("citation", log[r]) + 1])>>)
          /\ Count("citation", log[r]) < Len(citations(r))
      BY <2>8 DEF SendCitation, citations
    <3>2. <<CitationEvent(citations(r)[Count("citation", log[r]) + 1])>> \in Seq(Event)
      BY <1>7, <3>1, TupleTypes
    <3> QED
      BY <1>1, <3>1, <3>2
  <2>9. CASE AgentDone(r)
    <3>1. /\ pc[r] = "done" /\ pc'[r] = "over"
          /\ Emit(r, <<DoneEvent(Len(citations(r)))>>)
      BY <2>9 DEF AgentDone, citations, AgentLabel
    <3>2. <<DoneEvent(Len(citations(r)))>> \in Seq(Event)
      BY <1>7, TupleTypes
    <3> QED
      BY <1>1, <3>1, <3>2
  <2> QED
    BY <1>8, <2>1, <2>2, <2>3, <2>4, <2>5, <2>6, <2>7, <2>8, <2>9 DEF AgentStep
<1>9. CASE QaStep(r)
  <2>1. CASE stream_answer(r) \/ QaRemembers(r)
    BY <1>1, <1>2, <2>1 DEF stream_answer, QaRemembers
  <2>2. CASE QaRetrieves(r)
    <3>1. pc[r] = "qa_retrieve" /\ pc'[r] # "left"
      BY <2>2 DEF QaRetrieves
    <3>2. log' = log \/ \E code \in Code : Emit(r, <<ErrorEvent(code)>>)
      BY <1>6, <2>2 DEF QaRetrieves
    <3>3. \E more \in Seq(Event) : Emit(r, more) \/ (more = <<>> /\ log' = log)
      BY <1>2, <1>4, <3>2, TupleTypes
    <3> QED
      BY <1>1, <3>1, <3>3
  <2>3. CASE QaReceives(r)
    BY <2>3, ParsedChunks, ChunkExtends DEF QaReceives, MayReceive
  <2>4. CASE QaStreamOver(r)
    <3>1. CASE QaChunk(r, ErrorChunk)
      BY <2>4, <3>1, ParsedChunks, ChunkExtends DEF QaStreamOver
    <3>2. CASE Goto(r, "cite") /\ log' = log
      BY <1>1, <1>2, <2>4, <3>2 DEF QaStreamOver
    <3>3. CASE Emit(r, <<ErrorEvent("LLM_STREAM_ERROR")>>) /\ Goto(r, "over")
      <4>1. <<ErrorEvent("LLM_STREAM_ERROR")>> \in Seq(Event)
        BY <1>4, <1>6, TupleTypes
      <4>2. pc[r] = "stream" /\ pc'[r] = "over"
        BY <2>4, <3>3 DEF QaStreamOver
      <4> QED
        BY <1>1, <3>3, <4>1, <4>2
    <3> QED
      BY <2>4, <3>1, <3>2, <3>3 DEF QaStreamOver
  <2>5. CASE QaCites(r)
    <3>1. /\ pc[r] = "cite" /\ pc'[r] # "left" /\ citations(r) = qa_citations(r)
      BY <2>5 DEF QaCites, citations, IsQa, IsAgent
    <3>2. CASE Count("citation", log[r]) < Len(citations(r))
      <4>1. <<CitationEvent(citations(r)[Count("citation", log[r]) + 1])>> \in Seq(Event)
        BY <1>7, <3>2, TupleTypes
      <4>2. Emit(r, <<CitationEvent(citations(r)[Count("citation", log[r]) + 1])>>)
        BY <2>5, <3>1, <3>2 DEF QaCites
      <4> QED
        BY <1>1, <3>1, <4>1, <4>2
    <3>3. CASE ~(Count("citation", log[r]) < Len(citations(r)))
      <4>1. <<DoneEvent(Len(citations(r)))>> \in Seq(Event)
        BY <1>7, TupleTypes
      <4>2. Emit(r, <<DoneEvent(Len(citations(r)))>>)
        BY <2>5, <3>1, <3>3 DEF QaCites
      <4> QED
        BY <1>1, <3>1, <4>1, <4>2
    <3> QED
      BY <3>2, <3>3
  <2> QED
    BY <1>9, <2>1, <2>2, <2>3, <2>4, <2>5 DEF QaStep
<1> QED
  BY <1>8, <1>9

(* The events of a response but its end, as the contract counts them.      *)
Body(events) == Len(events) - Count("done", events) - Count("error", events)
Stage(r) == IF Ended(r) THEN "ended" ELSE IF pc[r] = "left" THEN "closed" ELSE "open"

LEMMA BodyFacts ==
    ASSUME NEW events \in Seq(Event), OneEnd(events)
    PROVE  /\ At(events, {"done", "error"}) = {} => Body(events) = Len(events)
           /\ Body(events) \in Int /\ Body(events) >= Len(events) - 1
<1>1. PICK n \in Nat : n = Len(events)
  BY DomainFinite
<1>2. PICK d \in Nat : d = Count("done", events)
  BY AtFacts
<1>3. PICK x \in Nat : x = Count("error", events)
  BY AtFacts
<1>4. Body(events) = n - d - x
  BY <1>1, <1>2, <1>3 DEF Body
<1>5. At(events, {"done"}) \subseteq {n} /\ At(events, {"error"}) \subseteq {n}
  BY <1>1 DEF OneEnd, At
<1>6. At(events, {"done"}) = {} \/ At(events, {"error"}) = {}
  BY <1>5 DEF At
<1>7. \A S : S \subseteq {n} => Cardinality(S) <= 1
  <2>1. Cardinality({n}) = 1 /\ IsFiniteSet({n})
    BY FS_Singleton
  <2> QED
    BY <2>1, FS_Subset
<1>8. d = Cardinality(At(events, {"done"})) /\ x = Cardinality(At(events, {"error"}))
  BY <1>2, <1>3, AtFacts
<1>9. d <= 1 /\ x <= 1
  BY <1>5, <1>7, <1>8
<1>10. /\ At(events, {"done"}) = {} => d = 0
       /\ At(events, {"error"}) = {} => x = 0
  BY <1>2, <1>3, AtFacts
<1>11. d + x <= 1
  BY <1>6, <1>9, <1>10
<1>12. At(events, {"done", "error"}) = {} => d = 0 /\ x = 0
  BY <1>10 DEF At
<1> QED
  BY <1>1, <1>4, <1>11, <1>12

LEMMA BodyGrows ==
    ASSUME NEW events \in Seq(Event), NEW more \in Seq(Event), NEW longer \in Seq(Event),
           longer = events \o more, OneEnd(events), OneEnd(longer),
           At(events, {"done", "error"}) = {}
    PROVE  Body(longer) >= Body(events)
<1>1. CASE more = <<>>
  <2>1. longer = events
    BY <1>1, ConcatNone
  <2> QED
    BY <2>1, BodyFacts
<1>2. CASE more # <<>>
  <2>1. Len(longer) = Len(events) + Len(more) /\ Len(more) \in Nat /\ Len(more) # 0
    BY <1>2
  <2>2. Len(events) \in Nat /\ Body(events) = Len(events)
    BY BodyFacts, DomainFinite
  <2>3. Body(longer) \in Int /\ Body(longer) >= Len(longer) - 1
    BY BodyFacts
  <2>4. PICK n \in Nat, m \in Nat \ {0}, b \in Int :
           n = Len(events) /\ m = Len(more) /\ b = Body(longer)
    BY <2>1, <2>2, <2>3
  <2>5. b >= n + m - 1
    BY <2>1, <2>3, <2>4
  <2>6. b >= n
    BY <2>4, <2>5
  <2> QED
    BY <2>2, <2>4, <2>6
<1> QED
  BY <1>1, <1>2

(* The stages the contract sees, from what the invariant says of a request.*)
LEMMA StageFacts ==
    ASSUME NEW r \in Req
    PROVE  Ended(r) <=> At(log[r], {"done", "error"}) # {}
BY DEF Ended, At

LEMMA SavingIsSilent ==
    ASSUME Types, NEW r \in Req, AgentStep(r) \/ QaStep(r), pc[r] = "save_turn"
    PROVE  log' = log
<1>1. ~IsAgent(r)
  BY DEF Types, AgentLabel, QaLabel
<1>2. CASE AgentStep(r)
  BY <1>1, <1>2
  DEF AgentStep, run_stream, LoadMemory, intent_node, retrieval_node, GenerationStarts,
      AcquireChecks, AcquireEnters, AgentReceives, MayReceive, AgentStreamOver, ValidateStep,
      SendCitation, SaveCheckpoint, Remember, AgentDone
<1>3. CASE QaStep(r)
  BY <1>3
  DEF QaStep, stream_answer, QaRetrieves, QaReceives, MayReceive, QaStreamOver, QaCites,
      QaRemembers
<1> QED
  BY <1>2, <1>3

(* What one request may do in the contract's eyes: write, leave, nothing.  *)
Seen(r) ==
    \/ /\ Stage(r) = "open" /\ Stage(r)' \in {"open", "ended"}
       /\ Body(log'[r]) >= Body(log[r])
    \/ /\ Stage(r) = "open" /\ Stage(r)' = "closed" /\ log'[r] = log[r]
    \/ Stage(r)' = Stage(r) /\ log'[r] = log[r]

LEMMA StepSeen ==
    ASSUME AnswerInv, AnswerInv', NEW r \in Req, Step(r)
    PROVE  Seen(r)
<1> USE DEF AnswerInv
<1>1. /\ Types /\ StreamInv(r) /\ WellFormed(log[r]) /\ WellFormed(log'[r])
      /\ log[r] \in Seq(Event) /\ log'[r] \in Seq(Event)
  BY DEF StreamInv, Types
<1>2. CASE ClientLeaves(r)
  <2>1. log' = log /\ pc'[r] = "left" /\ pc[r] # "left"
    BY <1>1, <1>2 DEF ClientLeaves, Goto, Yielded, Types
  <2>2. Ended(r)' <=> Ended(r)
    BY <2>1 DEF Ended
  <2> QED
    BY <2>1, <2>2 DEF Seen, Stage
<1>3. CASE AgentStep(r) \/ QaStep(r)
  <2>1. Extends(r)
    BY <1>1, <1>3, StepExtends
  <2>2. CASE Ended(r)
    <3>1. pc[r] = "save_turn"
      BY <1>1, <2>1, <2>2, StageFacts DEF StreamInv, Final, Extends
    <3>2. log' = log
      BY <1>1, <1>3, <3>1, SavingIsSilent
    <3>3. Ended(r)'
      BY <2>2, <3>2 DEF Ended
    <3> QED
      BY <2>2, <3>2, <3>3 DEF Seen, Stage
  <2>3. CASE ~Ended(r)
    <3>1. Stage(r) = "open" /\ Stage(r)' \in {"open", "ended"}
      BY <2>1, <2>3 DEF Stage, Extends
    <3>2. PICK more \in Seq(Event) : log'[r] = log[r] \o more
      BY <2>1 DEF Extends
    <3>3. At(log[r], {"done", "error"}) = {}
      BY <2>3, StageFacts
    <3>4. OneEnd(log[r]) /\ OneEnd(log'[r])
      BY <1>1 DEF WellFormed
    <3>5. Body(log'[r]) >= Body(log[r])
      BY <1>1, <3>2, <3>3, <3>4, BodyGrows
    <3> QED
      BY <3>1, <3>5 DEF Seen
  <2> QED
    BY <2>2, <2>3
<1> QED
  BY <1>2, <1>3 DEF Step

(* Every step of the AI service is a step of the contract or none.         *)
LEMMA StepMaps == AnswerInv /\ AnswerInv' /\ [Next]_answerVars =>
                     [Contract!StreamNext]_Contract!streamVars
<1> SUFFICES ASSUME AnswerInv, AnswerInv', [Next]_answerVars
             PROVE  [Contract!StreamNext]_Contract!streamVars
  OBVIOUS
<1> DEFINE parts == [r \in Req |-> Body(log[r])]
           stage == [r \in Req |-> Stage(r)]
<1>1. ASSUME NEW r \in Req, Step(r)
      PROVE  [Contract!StreamNext]_Contract!streamVars
  <2>1. Seen(r)
    BY <1>1, StepSeen
  <2>2. \A q \in Req \ {r} : SameRequest(q)
    BY <1>1, OthersKept DEF AnswerInv
  <2>3. \A q \in Req \ {r} : log'[q] = log[q] /\ pc'[q] = pc[q]
    BY <2>2 DEF SameRequest
  <2>4. \A q \in Req \ {r} : Stage(q)' = Stage(q) /\ Body(log'[q]) = Body(log[q])
    BY <2>3 DEF Stage, Ended
  <2>5. /\ parts' = [parts EXCEPT ![r] = parts'[r]]
        /\ parts[r] = Body(log[r]) /\ parts'[r] = Body(log'[r])
        /\ stage[r] = Stage(r)
        /\ stage' = [stage EXCEPT ![r] = Stage(r)']
    BY <2>4
  <2>6. CASE Stage(r) = "open" /\ Stage(r)' \in {"open", "ended"}
             /\ Body(log'[r]) >= Body(log[r])
    <3>1. stage' \in {stage, [stage EXCEPT ![r] = "ended"]}
      BY <2>4, <2>6
    <3>2. Contract!Write(r)
      BY <2>5, <2>6, <3>1 DEF Contract!Write, Body, Stage
    <3> QED
      BY <3>2 DEF Contract!StreamNext
  <2>7. CASE Stage(r) = "open" /\ Stage(r)' = "closed" /\ log'[r] = log[r]
    <3>1. parts' = parts /\ stage' = [stage EXCEPT ![r] = "closed"]
      BY <2>4, <2>7
    <3>2. Contract!Close(r)
      BY <2>5, <2>7, <3>1 DEF Contract!Close, Body, Stage
    <3> QED
      BY <3>2 DEF Contract!StreamNext
  <2>8. CASE Stage(r)' = Stage(r) /\ log'[r] = log[r]
    <3>1. parts' = parts /\ stage' = stage
      BY <2>4, <2>8
    <3> QED
      BY <3>1 DEF Contract!streamVars, Body, Stage
  <2> QED
    BY <2>1, <2>6, <2>7, <2>8 DEF Seen
<1>2. CASE WindowPasses \/ UNCHANGED answerVars
  <2>1. log' = log /\ pc' = pc
    BY <1>2 DEF WindowPasses, answerVars
  <2>2. parts' = parts /\ stage' = stage
    BY <2>1 DEF Stage, Ended
  <2> QED
    BY <2>2 DEF Contract!streamVars, Body, Stage
<1> QED
  BY <1>1, <1>2 DEF Next, Step

(* The safety half of the contract the gateway relies on (AnswerStream):   *)
(* through errors, fallbacks, retries and departures, run_stream and       *)
(* stream_answer only ever add to a response, write its end once, and      *)
(* nothing after it or after the reader has gone.                          *)
THEOREM ContractKept == Spec => Contract!StreamSafety
<1>1. AnsweringInit => Contract!StreamInit
  <2> SUFFICES ASSUME AnsweringInit PROVE Contract!StreamInit
    OBVIOUS
  <2>1. \A r \in Req : log[r] = <<>> /\ pc[r] = "idle"
    BY DEF AnsweringInit
  <2>2. OneEnd(<<>>) /\ At(<<>>, {"done", "error"}) = {} /\ <<>> \in Seq(Event)
    BY TupleTypes DEF OneEnd, At
  <2>3. Body(<<>>) = 0
    BY <2>2, BodyFacts
  <2>4. \A r \in Req : Body(log[r]) = 0 /\ Stage(r) = "open"
    BY <2>1, <2>2, <2>3, StageFacts DEF Stage
  <2>5. /\ [r \in Req |-> Body(log[r])] = [r \in Req |-> 0]
        /\ [r \in Req |-> Stage(r)] = [r \in Req |-> "open"]
    BY <2>4
  <2> QED
    BY <2>5 DEF Contract!StreamInit, Body, Stage
<1>2. AnswerInv /\ AnswerInv' /\ [Next]_answerVars =>
         [Contract!StreamNext]_Contract!streamVars
  BY StepMaps
<1> QED
  BY <1>1, <1>2, AnswerInvHolds, PTL DEF Spec, Contract!StreamSafety
=============================================================================
