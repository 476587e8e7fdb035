-------------------------- MODULE ProcessingProofs --------------------------
(***************************************************************************)
(* Proofs about the processing of a resource (Processing), for any         *)
(* recording or document, configuration, replies of the models, failures   *)
(* and lost workers.                                                       *)
(***************************************************************************)
EXTENDS Processing, ArrangementProofs

-----------------------------------------------------------------------------
(* INVARIANTS                                                              *)

Derived == Job \ {"parse"}
DigestLabel == {"digest", "save", "post"}
ParseLabel == Active \ DigestLabel
Row == {"summary", "tags"}
Keeps(f, S) == f = [x \in S |-> f[x]]

Types ==
    /\ world \in Scenario
    /\ jpc \in [Job -> Active \cup Over \cup {"queued", "waiting"}]
    /\ jpc["parse"] \in ParseLabel \cup Over \cup {"queued"}
    /\ \A j \in Derived : jpc[j] \in DigestLabel \cup Over \cup {"queued", "waiting"}
    /\ \A j \in Derived : jpc[j] # "waiting" => j \in world.derived
    /\ doc = [recognised |-> doc.recognised, segments |-> doc.segments,
              subtitles |-> doc.subtitles, pages |-> doc.pages, toc |-> doc.toc]
    /\ Keeps(draft, Job) /\ Keeps(objects, Key) /\ Keeps(rows, Row)
    /\ overlap \in BOOLEAN

(* What CleanedThroughout says of a transcript and its cleaned version.    *)
SameTimes(raw, new) ==
    /\ Len(new) = Len(raw)
    /\ \A i \in DOMAIN raw : new[i].start = raw[i].start /\ new[i].end = raw[i].end
CleanText(t, mode) ==
    /\ ~IsBlank(t)
    /\ IF mode = "llm" THEN ToSet(t) = {Polish} ELSE Filler \notin ToSet(t)
WellCleaned(raw, new, mode) ==
    /\ SameTimes(raw, new)
    /\ new = raw \/ \A i \in DOMAIN raw : CleanText(new[i].text, mode)

(* The parse task: what a label says of the kind of the resource, of what  *)
(* was recognised and of what has been stored.                             *)
ParseInv ==
    LET label == jpc["parse"] IN
    /\ label \in {"transcribe", "clean", "subtitle"} => world.kind = "asr"
    /\ label \in {"extract", "ocr"} => world.kind = "pdf"
    /\ world.kind = "pdf" => doc.recognised = <<>>
    /\ label = "clean" => doc.recognised \in world.speech
    /\ label \in {"store", "subtitle", "done"} =>
          doc.recognised = <<>> \/ WellCleaned(doc.recognised, doc.segments, world.cleaning.mode)
    /\ label = "subtitle" => objects["transcript"] = Object(doc.segments)
    /\ label = "done" =>
          IF world.kind = "pdf" THEN objects["parsed"] = Object(doc.pages)
          ELSE /\ objects["transcript"] = Object(doc.segments)
               /\ objects["subtitle"] = Object(doc.subtitles)

(* The jobs for a row.  Without an overlap a job that has its object saved *)
(* finds it there when it posts the row, and a row whose jobs are over is  *)
(* the one posted last.                                                    *)
Settled(k) == /\ \E j \in JobsOf(k) : jpc[j] = "done"
              /\ \A j \in JobsOf(k) : jpc[j] \in {"done", "waiting"}
OneAtATime == \A i, j \in Summaries : jpc[i] \in Active /\ jpc[j] \in Active => i = j
ObjectSaved == \A j \in Derived : jpc[j] = "post" => objects[KeyOf(j)] = Object(draft[j])
RowSaved == \A k \in Row : Settled(k) => rows[k] # None /\ objects[k] = Object(rows[k])
SaveInv ==
    /\ \A j \in Derived : jpc[j] \in {"save", "post"} => draft[j] # None
    /\ ~overlap => OneAtATime /\ ObjectSaved /\ RowSaved

(* Tags are named once, in a draft and in the row.                         *)
Unique(tags) ==
    \A i, k \in DOMAIN tags : i # k => lower(synonym(tags[i])) # lower(synonym(tags[k]))
Tagged(d) == "tags" \in DOMAIN d /\ Unique(d.tags)
TagsInv ==
    /\ draft["tags"] # None => Tagged(draft["tags"])
    /\ rows["tags"] # None => Unique(rows["tags"].tags)

ProcessingInv == Types /\ ParseInv /\ SaveInv /\ TagsInv

-----------------------------------------------------------------------------
(* CLEANING                                                                *)

(* A sequence whose characters are among those of another set.             *)
LEMMA ToSetPicked ==
    ASSUME NEW X, NEW t \in Seq(X), NEW K \in SUBSET DOMAIN t
    PROVE  /\ Picked(t, K) \in Seq(X)
           /\ ToSet(Picked(t, K)) \subseteq {t[i] : i \in K}
           /\ ToSet(Picked(t, K)) \subseteq ToSet(t)
<1>1. PICK o \in [1..Cardinality(K) -> K] :
         \A i \in 1..Cardinality(K) : Picked(t, K)[i] = t[o[i]]
  BY PickedFacts DEF Picks
<1>2. Picked(t, K) \in Seq(X) /\ DOMAIN Picked(t, K) = 1..Cardinality(K)
  BY PickedFacts
<1>3. \A i \in DOMAIN Picked(t, K) : Picked(t, K)[i] \in {t[k] : k \in K}
  BY <1>1, <1>2
<1> QED
  BY <1>2, <1>3 DEF ToSet

LEMMA StripFacts ==
    ASSUME NEW X, NEW t \in Seq(X)
    PROVE  strip(t) \in Seq(X) /\ ToSet(strip(t)) \subseteq ToSet(t)
<1> DEFINE ink == {i \in DOMAIN t : t[i] \notin Blank}
<1>1. Len(t) \in Nat /\ DOMAIN t = 1..Len(t)
  OBVIOUS
<1>2. CASE ink = {}
  BY <1>2 DEF strip, ToSet
<1>3. CASE ink # {}
  <2>1. ink \in SUBSET (0..Len(t)) /\ ink \in SUBSET Nat
    BY <1>1
  <2>2. IsFiniteSet(0..Len(t))
    BY <1>1, FS_Interval
  <2>3. IsFiniteSet(ink)
    BY <2>1, <2>2, FS_Subset
  <2>4. \E m \in ink : \A x \in ink : m <= x
    BY <1>1, <1>3, <2>1, SmallestExists
  <2>5. \E m \in ink : \A x \in ink : x <= m
    BY <1>3, <2>1, <2>3, LargestExists
  <2>6. Min(ink) \in ink
    BY <2>4 DEF Min
  <2>7. \E m \in ink : \A x \in ink : m >= x
    BY <2>1, <2>5
  <2>8. Max(ink) \in ink
    BY <2>7 DEF Max
  <2>9. strip(t) = SubSeq(t, Min(ink), Max(ink))
    BY <1>3 DEF strip
  <2>10. PICK a \in 1..Len(t), b \in 1..Len(t) : strip(t) = SubSeq(t, a, b)
    BY <1>1, <2>6, <2>8, <2>9
  <2>11. /\ SubSeq(t, a, b) \in Seq(X)
         /\ \A i \in DOMAIN SubSeq(t, a, b) :
               a + i - 1 \in DOMAIN t /\ SubSeq(t, a, b)[i] = t[a + i - 1]
    BY <1>1
  <2> QED
    BY <2>10, <2>11 DEF ToSet
<1> QED
  BY <1>2, <1>3

(* RuleCleaner.clean leaves no filler word, and adds nothing but spaces.   *)
LEMMA RuleCleanFacts ==
    ASSUME NEW X, NEW t \in Seq(X)
    PROVE  /\ rule_clean(t) \in Seq(X \cup {Space})
           /\ Filler \notin ToSet(rule_clean(t))
<1> DEFINE words == Picked(t, {i \in DOMAIN t : t[i] # Filler})
           once == Picked(words, {i \in DOMAIN words : ~Repeated(words, i)})
           single == Picked(once, {i \in DOMAIN once :
                                     once[i] \in Blank => i = 1 \/ once[i - 1] \notin Blank})
           spaced == [i \in DOMAIN single |-> IF single[i] \in Blank THEN Space ELSE single[i]]
<1>1. words \in Seq(X) /\ ToSet(words) \subseteq {t[i] : i \in {k \in DOMAIN t : t[k] # Filler}}
  BY ToSetPicked
<1>2. Filler \notin ToSet(words)
  BY <1>1
<1>3. words \in Seq(X) /\ Filler \notin ToSet(words)
  BY <1>1, <1>2
<1> HIDE DEF words
<1>4. once \in Seq(X) /\ ToSet(once) \subseteq ToSet(words)
  <2> DEFINE K == {i \in DOMAIN words : ~Repeated(words, i)}
  <2>1. K \in SUBSET DOMAIN words
    OBVIOUS
  <2> HIDE DEF K
  <2>2. Picked(words, K) \in Seq(X) /\ ToSet(Picked(words, K)) \subseteq ToSet(words)
    BY <1>3, <2>1, ToSetPicked
  <2> QED
    BY <2>2 DEF K
<1> HIDE DEF once
<1>5. single \in Seq(X) /\ ToSet(single) \subseteq ToSet(once)
  <2> DEFINE K == {i \in DOMAIN once : once[i] \in Blank => i = 1 \/ once[i - 1] \notin Blank}
  <2>1. K \in SUBSET DOMAIN once
    OBVIOUS
  <2> HIDE DEF K
  <2>2. Picked(once, K) \in Seq(X) /\ ToSet(Picked(once, K)) \subseteq ToSet(once)
    BY <1>4, <2>1, ToSetPicked
  <2> QED
    BY <2>2 DEF K
<1> HIDE DEF single
<1>6. Len(single) \in Nat /\ DOMAIN single = 1..Len(single) /\ \A i \in DOMAIN single : single[i] \in X
  BY <1>5
<1>7. spaced \in Seq(X \cup {Space})
  BY <1>6
<1>8. ToSet(spaced) \subseteq ToSet(single) \cup {Space}
  BY <1>6 DEF ToSet
<1>9. rule_clean(t) = strip(spaced)
  BY DEF rule_clean, normalize_whitespace, collapse, words, once, single
<1> HIDE DEF spaced
<1>10. strip(spaced) \in Seq(X \cup {Space}) /\ ToSet(strip(spaced)) \subseteq ToSet(spaced)
  BY <1>7, StripFacts
<1>11. Filler # Space
  BY DEF Filler, Space
<1> QED
  BY <1>3, <1>4, <1>5, <1>8, <1>9, <1>10, <1>11

LEMMA DivisionFacts ==
    ASSUME NEW n \in Nat, NEW d \in Nat \ {0}
    PROVE  \E q \in Nat, r \in 0..(d - 1) : n = d * q + r /\ q = n \div d /\ r = n % d
OBVIOUS

(* batch = segments[offset : offset + size]: where a segment gets to.      *)
LEMMA BatchFacts ==
    ASSUME NEW X, NEW s \in Seq(X), NEW size \in Nat \ {0}, NEW i \in DOMAIN s
    PROVE  \E q \in Nat, r \in Nat :
              /\ q = (i - 1) \div size /\ r = (i - 1) % size
              /\ q + 1 \in DOMAIN Batches(s, size)
              /\ r + 1 \in DOMAIN Batches(s, size)[q + 1]
              /\ Batches(s, size)[q + 1][r + 1] = s[i]
<1> DEFINE n == Len(s)
<1>1. n \in Nat /\ i \in 1..n /\ DOMAIN s = 1..n /\ i - 1 \in Nat /\ n + size - 1 \in Nat
  OBVIOUS
<1>2. PICK q \in Nat, r \in 0..(size - 1) :
         i - 1 = size * q + r /\ q = (i - 1) \div size /\ r = (i - 1) % size
  BY <1>1, DivisionFacts
<1>3. PICK D \in Nat, e \in 0..(size - 1) :
         n + size - 1 = size * D + e /\ D = (n + size - 1) \div size
  BY <1>1, DivisionFacts
<1>4. Batches(s, size) = [b \in 1..D |->
         SubSeq(s, (b - 1) * size + 1, Min({b * size, n}))]
  BY <1>3 DEF Batches
<1>5. PICK m \in Nat : m = size * q
  OBVIOUS
<1>6. i - 1 = m + r
  <2>1. i - 1 = size * q + r
    BY <1>2
  <2> QED
    BY <1>5, <2>1
<1>7. r \in Nat /\ r + 1 <= size /\ m + r + 1 = i
  BY <1>1, <1>6
<1>8. q + 1 \in 1..D
  <2>1. n + size - 1 = size * D + e
    BY <1>3
  <2>2. SUFFICES ASSUME D <= q PROVE FALSE
    OBVIOUS
  <2>3. q - D \in Nat /\ q = D + (q - D)
    BY <2>2
  <2>4. PICK a \in Nat : q = D + a
    BY <2>3
  <2>5. m = size * D + size * a
    BY <1>5, <2>4
  <2>6. size * D \in Nat /\ size * a \in Nat
    OBVIOUS
  <2>7. PICK x \in Nat, y \in Nat : m = x + y /\ n + size - 1 = x + e
    BY <2>1, <2>5, <2>6
  <2> QED
    BY <1>1, <1>7, <2>7
<1>9. ((q + 1) - 1) * size + 1 = m + 1 /\ (q + 1) * size = m + size
  BY <1>5
<1>10. Batches(s, size)[q + 1] = SubSeq(s, m + 1, Min({m + size, n}))
  BY <1>4, <1>8, <1>9
<1> DEFINE last == Min({m + size, n})
<1>11. /\ last \in Nat /\ last <= n /\ last <= m + size
       /\ last = m + size \/ last = n
  <2>1. \E x \in {m + size, n} : \A y \in {m + size, n} : x <= y
    BY <1>1
  <2>2. last \in {m + size, n} /\ \A y \in {m + size, n} : last <= y
    BY <2>1 DEF Min
  <2> QED
    BY <1>1, <2>2
<1>12. Batches(s, size)[q + 1] = SubSeq(s, m + 1, last)
  BY <1>10
<1> HIDE DEF last
<1>18. PICK l \in Nat : l = last
  BY <1>11
<1>13. m + r + 1 <= l /\ l <= n
  <2>1. l <= n /\ (l = m + size \/ l = n)
    BY <1>11, <1>18
  <2>2. m + r + 1 <= n /\ n \in Nat
    BY <1>1, <1>7
  <2> QED
    BY <1>7, <2>1, <2>2
<1>14. SubSeq(s, m + 1, l) \in Seq(X)
  BY <1>1, <1>13
<1>15. /\ r + 1 \in DOMAIN SubSeq(s, m + 1, l)
       /\ SubSeq(s, m + 1, l)[r + 1] = s[i]
  <2>1. Len(SubSeq(s, m + 1, l)) = l - m
    BY <1>1, <1>7, <1>13
  <2>2. r + 1 \in 1..(l - m)
    BY <1>7, <1>13
  <2>3. SubSeq(s, m + 1, l)[r + 1] = s[(m + 1) + (r + 1) - 1]
    BY <1>1, <1>7, <1>13, <2>2
  <2>4. (m + 1) + (r + 1) - 1 = i
    BY <1>7
  <2> QED
    BY <1>14, <2>1, <2>2, <2>3, <2>4
<1>16. q = (i - 1) \div size /\ r = (i - 1) % size
  BY <1>2
<1>17. q + 1 \in DOMAIN Batches(s, size)
  BY <1>4, <1>8
<1> QED
  BY <1>7, <1>12, <1>15, <1>16, <1>17, <1>18

(* A function on 1..n is a sequence.                                       *)
LEMMA FunctionIsSeq ==
    ASSUME NEW S, NEW n \in Nat, NEW f \in [1..n -> S]
    PROVE  f \in Seq(S) /\ Len(f) = n /\ DOMAIN f = 1..n
OBVIOUS

SegmentOf(X) == [start : Nat, end : Nat, text : Seq(X)]

(* What the model returns for a segment: its times, and a text of its own  *)
(* or none.                                                                *)
Polished(new, s) ==
    /\ Len(new) = Len(s) /\ DOMAIN new = DOMAIN s
    /\ \A i \in DOMAIN s : /\ new[i].start = s[i].start /\ new[i].end = s[i].end
                           /\ ToSet(new[i].text) \subseteq {Polish}
LEMMA LlmCleanFacts ==
    ASSUME NEW X, NEW s \in Seq(SegmentOf(X)), NEW size \in Nat \ {0}, NEW replies
    PROVE  Polished(llm_clean_segments(s, replies, size).segments, s)
<1> DEFINE batches == Batches(s, size)
           cleaned == [b \in DOMAIN batches |-> clean_batch(batches[b], replies[b])]
           parts == [b \in DOMAIN cleaned |-> cleaned[b].segments]
           new == llm_clean_segments(s, replies, size).segments
<1>1. new = [i \in 1..Len(s) |-> parts[((i - 1) \div size) + 1][((i - 1) % size) + 1]]
  BY DEF llm_clean_segments, Rejoined
<1>2. Len(s) \in Nat /\ DOMAIN s = 1..Len(s)
  OBVIOUS
<1>3. Len(new) = Len(s) /\ DOMAIN new = DOMAIN s
  BY <1>1, <1>2
<1>4. ASSUME NEW i \in DOMAIN s
      PROVE  /\ new[i].start = s[i].start /\ new[i].end = s[i].end
             /\ ToSet(new[i].text) \subseteq {Polish}
  <2>9. PICK q \in Nat, r \in Nat :
            /\ q = (i - 1) \div size /\ r = (i - 1) % size
            /\ q + 1 \in DOMAIN batches
            /\ r + 1 \in DOMAIN batches[q + 1] /\ batches[q + 1][r + 1] = s[i]
    BY BatchFacts
  <2> DEFINE b == q + 1
             e == r + 1
  <2>1. b \in DOMAIN batches /\ e \in DOMAIN batches[b] /\ batches[b][e] = s[i]
    BY <2>9
  <2>2. new[i] = parts[b][e]
    <3>1. q = (i - 1) \div size /\ r = (i - 1) % size
      BY <2>9
    <3>2. new[i] = parts[((i - 1) \div size) + 1][((i - 1) % size) + 1]
      BY <1>1, <1>2
    <3> HIDE DEF parts
    <3> QED
      BY <3>1, <3>2
  <2> HIDE DEF b, e, batches, new
  <2>3. parts[b] = clean_batch(batches[b], replies[b]).segments
    BY <2>1
  <2> DEFINE text == IF replies[b] = "blank" /\ e = 1 THEN <<>>
                     ELSE [c \in DOMAIN batches[b][e].text |-> Polish]
  <2>4. clean_batch(batches[b], replies[b]).segments[e] = Retexted(s[i], text)
    BY <2>1 DEF clean_batch
  <2>5. new[i] = Retexted(s[i], text)
    BY <2>2, <2>3, <2>4
  <2>6. \A c \in DOMAIN text : text[c] = Polish
    OBVIOUS
  <2> HIDE DEF text
  <2>7. s[i] \in SegmentOf(X)
    OBVIOUS
  <2>8. new[i].start = s[i].start /\ new[i].end = s[i].end /\ new[i].text = text
    BY <2>5, <2>7 DEF Retexted, SegmentOf
  <2> QED
    BY <2>6, <2>8 DEF ToSet
<1> QED
  BY <1>3, <1>4 DEF Polished

(* TextCleaningService.clean returns a transcript that is cleaned          *)
(* throughout, or the original.                                            *)
LEMMA CleanFacts ==
    ASSUME NEW X, NEW s \in Seq(SegmentOf(X)), s # <<>>,
           NEW config, config.mode \in {"rule", "llm"}, config.batch_size \in Nat \ {0},
           NEW replies
    PROVE  WellCleaned(s, clean(s, config, replies).segments, config.mode)
<1> DEFINE ruled == [i \in DOMAIN s |-> Retexted(s[i], rule_clean(s[i].text))]
           llm == llm_clean_segments(ruled, replies, config.batch_size)
           cleaned == IF config.mode = "llm" THEN llm ELSE [raised |-> FALSE, segments |-> ruled]
           Valid(t) == \A i \in DOMAIN t : ~IsBlank(t[i].text)
           new == clean(s, config, replies).segments
<1>1. Len(s) \in Nat /\ DOMAIN s = 1..Len(s)
  OBVIOUS
<1>2. ASSUME NEW i \in DOMAIN s
      PROVE  /\ ruled[i] \in SegmentOf(X \cup {Space})
             /\ ruled[i].start = s[i].start /\ ruled[i].end = s[i].end
             /\ Filler \notin ToSet(ruled[i].text)
  <2>1. s[i] \in SegmentOf(X)
    OBVIOUS
  <2>2. s[i].text \in Seq(X)
    BY <2>1 DEF SegmentOf
  <2>3. /\ rule_clean(s[i].text) \in Seq(X \cup {Space})
        /\ Filler \notin ToSet(rule_clean(s[i].text))
    BY <2>2, RuleCleanFacts
  <2>4. ruled[i] = Retexted(s[i], rule_clean(s[i].text))
    OBVIOUS
  <2> HIDE DEF ruled
  <2>5. /\ ruled[i] = [start |-> s[i].start, end |-> s[i].end, text |-> rule_clean(s[i].text)]
        /\ s[i].start \in Nat /\ s[i].end \in Nat
    BY <2>1, <2>4 DEF Retexted, SegmentOf
  <2> QED
    BY <2>3, <2>5 DEF SegmentOf
<1>3. ruled \in Seq(SegmentOf(X \cup {Space})) /\ Len(ruled) = Len(s) /\ DOMAIN ruled = DOMAIN s
  <2>1. ruled \in [1..Len(s) -> SegmentOf(X \cup {Space})]
    BY <1>1, <1>2
  <2> HIDE DEF ruled
  <2> QED
    BY <1>1, <2>1, FunctionIsSeq
<1>4. new = IF ~cleaned.raised /\ Valid(cleaned.segments) THEN cleaned.segments ELSE s
  BY DEF clean
<1>5. CASE ~cleaned.raised /\ Valid(cleaned.segments)
  <2>1. new = cleaned.segments
    BY <1>4, <1>5
  <2>2. CASE config.mode = "llm"
    <3>1. /\ Len(new) = Len(ruled) /\ DOMAIN new = DOMAIN ruled
          /\ \A i \in DOMAIN ruled : /\ new[i].start = ruled[i].start /\ new[i].end = ruled[i].end
                                     /\ ToSet(new[i].text) \subseteq {Polish}
      <4>1. new = llm_clean_segments(ruled, replies, config.batch_size).segments
        BY <2>1, <2>2
      <4>2. config.batch_size \in Nat \ {0}
        OBVIOUS
      <4> HIDE DEF new, ruled
      <4>3. Polished(llm_clean_segments(ruled, replies, config.batch_size).segments, ruled)
        BY <1>3, <4>2, LlmCleanFacts
      <4> QED
        BY <4>1, <4>3 DEF Polished
    <3>2. \A i \in DOMAIN new : ~IsBlank(new[i].text)
      BY <1>5, <2>1
    <3> HIDE DEF new, ruled
    <3>3. \A i \in DOMAIN s : ToSet(new[i].text) = {Polish} /\ ~IsBlank(new[i].text)
      <4>1. SUFFICES ASSUME NEW i \in DOMAIN s
                     PROVE  ToSet(new[i].text) = {Polish} /\ ~IsBlank(new[i].text)
        OBVIOUS
      <4>2. ~IsBlank(new[i].text) /\ ToSet(new[i].text) \subseteq {Polish}
        BY <1>3, <3>1, <3>2
      <4> QED
        BY <4>2 DEF IsBlank
    <3>4. SameTimes(s, new)
      BY <1>2, <1>3, <3>1 DEF SameTimes
    <3>5. \A i \in DOMAIN s : CleanText(new[i].text, config.mode)
      BY <2>2, <3>3 DEF CleanText
    <3>6. WellCleaned(s, new, config.mode)
      BY <3>4, <3>5 DEF WellCleaned
    <3> QED
      BY <3>6 DEF new
  <2>3. CASE config.mode # "llm"
    <3>1. new = ruled
      BY <2>1, <2>3
    <3>2. \A i \in DOMAIN new : ~IsBlank(new[i].text)
      BY <1>5, <2>1
    <3> HIDE DEF new, ruled
    <3>3. \A i \in DOMAIN s : Filler \notin ToSet(new[i].text) /\ ~IsBlank(new[i].text)
      BY <1>2, <1>3, <3>1, <3>2
    <3>4. SameTimes(s, new)
      BY <1>2, <1>3, <3>1 DEF SameTimes
    <3>5. \A i \in DOMAIN s : CleanText(new[i].text, config.mode)
      BY <2>3, <3>3 DEF CleanText
    <3>6. WellCleaned(s, new, config.mode)
      BY <3>4, <3>5 DEF WellCleaned
    <3> QED
      BY <3>6 DEF new
  <2> QED
    BY <2>2, <2>3
<1>6. CASE ~(~cleaned.raised /\ Valid(cleaned.segments))
  <2>1. new = s
    BY <1>4, <1>6
  <2> QED
    BY <1>1, <2>1 DEF WellCleaned, SameTimes
<1> QED
  BY <1>5, <1>6

-----------------------------------------------------------------------------
(* TAGS                                                                    *)

LEMMA SynonymFacts ==
    ASSUME NEW t
    PROVE  lower(synonym(synonym(t))) = lower(synonym(t))
<1>1. CASE lower(t) \in {"ai", "artificial intelligence"}
  <2>1. synonym(t) = "rengong"
    BY <1>1 DEF synonym
  <2>2. synonym("rengong") = "rengong"
    BY DEF synonym, lower
  <2> QED
    BY <2>1, <2>2
<1>2. CASE lower(t) \notin {"ai", "artificial intelligence"}
  <2>1. synonym(t) = t
    BY <1>2 DEF synonym
  <2> QED
    BY <2>1
<1> QED
  BY <1>1, <1>2

(* TagNormalizer.normalize names nothing twice: the second of two equal    *)
(* tags is not a first occurrence, and merging synonyms a second time      *)
(* changes nothing.                                                        *)
LEMMA NormalizeFacts ==
    ASSUME NEW tags \in Seq(STRING), NEW n \in Nat
    PROVE  Unique(normalize(tags, n))
<1> DEFINE Same(a, b) == lower(synonym(a)) = lower(synonym(b))
           K == {i \in DOMAIN tags :
                    tags[i] # "" /\ \A k \in 1..(i - 1) : ~Same(tags[k], tags[i])}
           picked == Picked(tags, K)
           kept == Truncated(picked, n)
<1>1. normalize(tags, n) = [i \in DOMAIN kept |-> synonym(kept[i])]
  BY DEF normalize
<1>2. K \in SUBSET DOMAIN tags
  OBVIOUS
<1>3. \A i \in K : \A k \in DOMAIN tags : k < i => ~Same(tags[k], tags[i])
  <2>1. \A i \in K : \A k \in 1..(i - 1) : ~Same(tags[k], tags[i])
    BY Zenon
  <2> HIDE DEF K, Same
  <2>2. \A i \in K : \A k \in DOMAIN tags : k < i => k \in 1..(i - 1)
    BY <1>2
  <2> QED
    BY <2>1, <2>2
<1>4. picked \in Seq(STRING) /\ Subsequence(picked, tags) /\ Picks(picked, tags, K)
      /\ DOMAIN picked = 1..Cardinality(K)
  <2> HIDE DEF K
  <2> QED
    BY <1>2, PickedFacts, PickedSubsequence
<1> HIDE DEF K, picked
<1>5. PICK o \in [DOMAIN picked -> K] :
         /\ \A i \in DOMAIN picked : picked[i] = tags[o[i]]
         /\ \A i, k \in DOMAIN picked : i < k => o[i] < o[k]
  BY <1>4 DEF Picks
<1>6. \A i, k \in DOMAIN picked : i < k => ~Same(picked[i], picked[k])
  <2> SUFFICES ASSUME NEW i \in DOMAIN picked, NEW k \in DOMAIN picked, i < k
               PROVE  ~Same(picked[i], picked[k])
    OBVIOUS
  <2>1. o[i] \in K /\ o[k] \in K /\ o[i] < o[k] /\ o[i] \in DOMAIN tags
    BY <1>2, <1>5
  <2>2. ~Same(tags[o[i]], tags[o[k]])
    BY <1>3, <2>1
  <2> QED
    BY <1>5, <2>2
<1>7. PICK p \in [DOMAIN kept -> DOMAIN picked] :
         /\ \A i \in DOMAIN kept : kept[i] = picked[p[i]]
         /\ \A i, k \in DOMAIN kept : i < k => p[i] < p[k]
  BY <1>4, TruncatedSubsequence DEF Subsequence
<1>8. \A i \in DOMAIN kept : i \in Nat
  <2>1. kept \in Seq(STRING)
    BY <1>4, TruncatedFacts
  <2> HIDE DEF kept
  <2> QED
    BY <2>1
<1> HIDE DEF kept
<1>9. \A i, k \in DOMAIN kept : i < k => ~Same(kept[i], kept[k])
  <2> SUFFICES ASSUME NEW i \in DOMAIN kept, NEW k \in DOMAIN kept, i < k
               PROVE  ~Same(kept[i], kept[k])
    OBVIOUS
  <2>1. p[i] \in DOMAIN picked /\ p[k] \in DOMAIN picked /\ p[i] < p[k]
    BY <1>7
  <2> QED
    BY <1>6, <1>7, <2>1
<1>10. \A i, k \in DOMAIN kept : i # k => lower(synonym(kept[i])) # lower(synonym(kept[k]))
  BY <1>8, <1>9
<1> DEFINE new == normalize(tags, n)
<1>11. DOMAIN new = DOMAIN kept /\ \A i \in DOMAIN kept : new[i] = synonym(kept[i])
  BY <1>1
<1> HIDE DEF new
<1>12. Unique(new)
  BY <1>10, <1>11, SynonymFacts DEF Unique
<1> QED
  BY <1>12 DEF new

-----------------------------------------------------------------------------
(* STEPS                                                                   *)

(* A step of job j that ends at a label.                                   *)
Moves(j, label) ==
    /\ jpc' = [jpc EXCEPT ![j] = label]
    /\ world' = world

LEMMA MoveFacts ==
    ASSUME Types, NEW j \in Job, NEW label, Moves(j, label)
    PROVE  jpc'[j] = label /\ \A i \in Job : i # j => jpc'[i] = jpc[i]
BY DEF Types, Moves

(* An exception ends the job.                                              *)
LEMMA RaiseFacts ==
    ASSUME NEW j \in Job, Raise(j), world' = world
    PROVE  Moves(j, "failed")
BY DEF Raise, Goto, Moves

(* An upload stores its content if the job goes on.                        *)
LEMMA UploadFacts ==
    ASSUME Types, NEW j \in Job, NEW key \in Key, NEW content, NEW goal,
           Upload(j, key, content, goal), world' = world
    PROVE  /\ Keeps(objects', Key)
           /\ \A k \in Key : k # key => objects'[k] = objects[k]
           /\ \E label \in {goal, "failed"} :
                 /\ Moves(j, label)
                 /\ label # "failed" => objects'[key] = Object(content)
<1>1. Keeps(objects, Key)
  BY DEF Types
<1>2. CASE objects' = [objects EXCEPT ![key] = Object(content)] /\ Goto(j, goal)
  <2>1. Moves(j, goal)
    BY <1>2 DEF Goto, Moves
  <2>2. /\ Keeps(objects', Key) /\ objects'[key] = Object(content)
        /\ \A k \in Key : k # key => objects'[k] = objects[k]
    BY <1>1, <1>2 DEF Keeps
  <2> QED
    BY <2>1, <2>2
<1>3. CASE /\ objects' = [objects EXCEPT ![key] = Object(content)] \/ UNCHANGED objects
           /\ Raise(j)
  <2>1. Moves(j, "failed")
    BY <1>3, RaiseFacts
  <2>2. Keeps(objects', Key) /\ \A k \in Key : k # key => objects'[k] = objects[k]
    BY <1>1, <1>3 DEF Keeps
  <2> QED
    BY <2>1, <2>2
<1> QED
  BY <1>2, <1>3 DEF Upload

(* What a step of the parse task leaves alone.                             *)
ParseFrame ==
    /\ UNCHANGED <<draft, rows>> /\ (overlap' = overlap)
    /\ \A k \in Row : objects'[k] = objects[k]
    /\ Keeps(objects', Key)
    /\ doc' = [recognised |-> doc'.recognised, segments |-> doc'.segments,
               subtitles |-> doc'.subtitles, pages |-> doc'.pages, toc |-> doc'.toc]

LEMMA ParseKeeps ==
    ASSUME ProcessingInv, ParseFrame,
           NEW label \in ParseLabel \cup Over \cup {"queued"}, Moves("parse", label)
    PROVE  Types' /\ SaveInv' /\ TagsInv'
<1>1. /\ jpc'["parse"] = label /\ \A j \in Derived : jpc'[j] = jpc[j]
      /\ jpc' \in [Job -> Active \cup Over \cup {"queued", "waiting"}]
  BY DEF ProcessingInv, Types, Moves, Job, Derived, ParseLabel
<1>2. world' = world /\ draft' = draft /\ rows' = rows /\ overlap' = overlap
  BY DEF Moves, ParseFrame
<1>3. Types'
  <2>1. \A j \in Derived : jpc'[j] \in DigestLabel \cup Over \cup {"queued", "waiting"}
    BY <1>1 DEF ProcessingInv, Types
  <2>2. \A j \in Derived : jpc'[j] # "waiting" => j \in world'.derived
    BY <1>1, <1>2 DEF ProcessingInv, Types
  <2> QED
    BY <1>1, <1>2, <2>1, <2>2 DEF ProcessingInv, Types, ParseFrame, Keeps
<1>4. \A j \in Derived : KeyOf(j) \in Row
  BY DEF KeyOf, Row
<1>5. Summaries \subseteq Derived /\ \A k \in Row : JobsOf(k) \subseteq Derived
  <2>1. world.derived \subseteq {"auto", "manual", "tags"}
    BY ProcessingAssumption DEF ProcessingInv, Types
  <2> QED
    BY <2>1 DEF Summaries, Derived, Job, JobsOf
<1>6. \A k \in Row : JobsOf(k)' = JobsOf(k)
  BY <1>2 DEF JobsOf
<1>7. \A k \in Row : Settled(k)' <=> Settled(k)
  BY <1>1, <1>5, <1>6 DEF Settled
<1>8. SaveInv'
  <2>1. \A j \in Derived : jpc'[j] \in {"save", "post"} => draft'[j] # None
    BY <1>1, <1>2 DEF ProcessingInv, SaveInv
  <2>2. ASSUME ~overlap' PROVE OneAtATime' /\ ObjectSaved' /\ RowSaved'
    <3>1. OneAtATime /\ ObjectSaved /\ RowSaved
      BY <1>2, <2>2 DEF ProcessingInv, SaveInv
    <3>2. OneAtATime'
      BY <1>1, <1>5, <3>1 DEF OneAtATime
    <3>3. ObjectSaved'
      BY <1>1, <1>2, <1>4, <3>1 DEF ObjectSaved, ParseFrame
    <3>4. RowSaved'
      BY <1>2, <1>7, <3>1 DEF RowSaved, ParseFrame
    <3> QED
      BY <3>2, <3>3, <3>4
  <2> QED
    BY <2>1, <2>2 DEF SaveInv
<1>9. TagsInv'
  BY <1>2 DEF ProcessingInv, TagsInv
<1> QED
  BY <1>3, <1>8, <1>9

(* What a step of another job leaves alone.                                *)
DigestFrame ==
    /\ doc' = doc
    /\ \A k \in Key \ Row : objects'[k] = objects[k]
    /\ Keeps(objects', Key) /\ Keeps(draft', Job) /\ Keeps(rows', Row)
    /\ overlap' \in BOOLEAN

LEMMA DigestKeeps ==
    ASSUME ProcessingInv, DigestFrame, NEW j \in Derived,
           NEW label \in DigestLabel \cup Over \cup {"queued"}, Moves(j, label),
           j \in world.derived
    PROVE  Types' /\ ParseInv'
<1>1. /\ j \in Job /\ "parse" \in Job /\ j # "parse"
      /\ jpc' = [jpc EXCEPT ![j] = label]
      /\ jpc \in [Job -> Active \cup Over \cup {"queued", "waiting"}]
  BY DEF ProcessingInv, Types, Moves, Job, Derived
<1>2. jpc'["parse"] = jpc["parse"] /\ jpc'[j] = label
      /\ \A i \in Derived : i # j => jpc'[i] = jpc[i]
  BY <1>1 DEF Derived
<1>3. jpc' \in [Job -> Active \cup Over \cup {"queued", "waiting"}]
  BY <1>1 DEF DigestLabel, Active
<1>4. world' = world /\ doc' = doc
  BY DEF Moves, DigestFrame
<1>5. Types'
  <2>1. jpc'["parse"] \in ParseLabel \cup Over \cup {"queued"}
    BY <1>2 DEF ProcessingInv, Types
  <2>2. \A i \in Derived : jpc'[i] \in DigestLabel \cup Over \cup {"queued", "waiting"}
    BY <1>2 DEF ProcessingInv, Types
  <2>3. \A i \in Derived : jpc'[i] # "waiting" => i \in world'.derived
    BY <1>2, <1>4 DEF ProcessingInv, Types
  <2> QED
    BY <1>3, <1>4, <2>1, <2>2, <2>3 DEF ProcessingInv, Types, DigestFrame
<1>6. /\ objects'["transcript"] = objects["transcript"]
      /\ objects'["subtitle"] = objects["subtitle"] /\ objects'["parsed"] = objects["parsed"]
  BY DEF DigestFrame, Key, Row
<1>7. ParseInv'
  BY <1>2, <1>4, <1>6 DEF ProcessingInv, ParseInv
<1> QED
  BY <1>5, <1>7

(* A step of the parse task that ends at a label of which ParseInv says    *)
(* nothing.                                                                *)
LEMMA ParseRestarts ==
    ASSUME ProcessingInv, ParseFrame, NEW label \in {"queued", "failed", "download"},
           Moves("parse", label), world.kind = "pdf" => doc'.recognised = <<>>
    PROVE  ProcessingInv'
<1>1. jpc'["parse"] = label /\ world' = world
  BY DEF ProcessingInv, Types, Moves, Job
<1>2. ParseInv'
  BY <1>1 DEF ParseInv
<1>3. Types' /\ SaveInv' /\ TagsInv'
  BY ParseKeeps DEF ParseLabel, Active, DigestLabel, Over
<1> QED
  BY <1>2, <1>3 DEF ProcessingInv

LEMMA ParseUnchanged ==
    ASSUME ProcessingInv, UNCHANGED <<draft, objects, rows, overlap>>,
           doc' = [recognised |-> doc'.recognised, segments |-> doc'.segments,
                   subtitles |-> doc'.subtitles, pages |-> doc'.pages, toc |-> doc'.toc]
    PROVE  ParseFrame
BY DEF ParseFrame, ProcessingInv, Types, Keeps

LEMMA DocUnchanged ==
    ASSUME ProcessingInv, UNCHANGED <<doc, draft, objects, rows, overlap>>
    PROVE  ParseFrame /\ (world.kind = "pdf" => doc'.recognised = <<>>)
<1>1. doc' = [recognised |-> doc'.recognised, segments |-> doc'.segments,
              subtitles |-> doc'.subtitles, pages |-> doc'.pages, toc |-> doc'.toc]
  BY DEF ProcessingInv, Types
<1> QED
  BY <1>1, ParseUnchanged DEF ProcessingInv, ParseInv

LEMMA StartParseStep ==
    ASSUME ProcessingInv, Start("parse")
    PROVE  ProcessingInv'
<1>1. Moves("parse", "download")
  BY DEF Start, Goto, Moves
<1>2. overlap' = overlap
  BY DEF Start, Summaries, ProcessingInv, Types
<1> QED
  BY <1>1, <1>2, DocUnchanged, ParseRestarts DEF Start

(* A step that passes on, or raises.                                       *)
LEMMA PassesStep ==
    ASSUME ProcessingInv, NEW goal \in {"transcribe", "extract"}, Passes("parse", goal),
           goal = "transcribe" => world.kind = "asr", goal = "extract" => world.kind = "pdf"
    PROVE  ProcessingInv'
<1>1. ParseFrame /\ (world.kind = "pdf" => doc'.recognised = <<>>) /\ world' = world
  BY DocUnchanged DEF Passes
<1>2. CASE Goto("parse", goal)
  <2>1. Moves("parse", goal)
    BY <1>1, <1>2 DEF Goto, Moves
  <2>2. Types' /\ SaveInv' /\ TagsInv'
    BY <1>1, <2>1, ParseKeeps DEF ParseLabel, Active, DigestLabel
  <2>3. jpc'["parse"] = goal
    BY <2>1, MoveFacts DEF Job, ProcessingInv
  <2>4. ParseInv'
    BY <1>1, <2>3 DEF ParseInv
  <2> QED
    BY <2>2, <2>4 DEF ProcessingInv
<1>3. CASE Raise("parse")
  <2>1. Moves("parse", "failed")
    BY <1>1, <1>3, RaiseFacts DEF Job
  <2> QED
    BY <1>1, <2>1, ParseRestarts
<1> QED
  BY <1>2, <1>3 DEF Passes

LEMMA DownloadStep ==
    ASSUME ProcessingInv, DownloadAudio \/ DownloadPdf
    PROVE  ProcessingInv'
BY PassesStep DEF DownloadAudio, DownloadPdf

(* The step of the parse task ends at a label that ParseInv speaks of.     *)
LEMMA ParseArrives ==
    ASSUME ProcessingInv, ParseFrame, NEW label \in ParseLabel \cup Over \cup {"queued"},
           Moves("parse", label), ParseInv'
    PROVE  ProcessingInv'
BY ParseKeeps DEF ProcessingInv

LEMMA TranscribeStep ==
    ASSUME ProcessingInv, Transcribe
    PROVE  ProcessingInv'
<1>1. world.kind = "asr" /\ world' = world
  BY DEF Transcribe, ProcessingInv, ParseInv
<1>2. ASSUME NEW s \in world.speech, doc' = [EmptyDoc EXCEPT !.recognised = s],
             Goto("parse", "clean")
      PROVE  ProcessingInv'
  <2>1. Moves("parse", "clean")
    BY <1>1, <1>2 DEF Goto, Moves
  <2>2. jpc'["parse"] = "clean"
    BY <2>1, MoveFacts DEF Job, ProcessingInv
  <2>3. /\ doc'.recognised = s
        /\ doc' = [recognised |-> doc'.recognised, segments |-> doc'.segments,
                   subtitles |-> doc'.subtitles, pages |-> doc'.pages, toc |-> doc'.toc]
    BY <1>2 DEF EmptyDoc
  <2>4. ParseFrame
    BY <2>3, ParseUnchanged DEF Transcribe
  <2>5. ParseInv'
    BY <1>1, <2>2, <2>3 DEF ParseInv
  <2> QED
    BY <2>1, <2>4, <2>5, ParseArrives DEF ParseLabel, Active, DigestLabel
<1>3. CASE Raise("parse") /\ UNCHANGED doc
  <2>1. Moves("parse", "failed")
    BY <1>1, <1>3, RaiseFacts DEF Job
  <2> QED
    BY <1>3, <2>1, DocUnchanged, ParseRestarts DEF Transcribe
<1> QED
  BY <1>2, <1>3 DEF Transcribe

(* TextCleaningService.clean returned, or raised.                          *)
LEMMA CleanStep ==
    ASSUME ProcessingInv, Clean
    PROVE  ProcessingInv'
<1>1. world.kind = "asr" /\ world' = world /\ doc.recognised \in world.speech
  BY DEF Clean, ProcessingInv, ParseInv
<1>2. PICK replies :
        /\ doc' = [doc EXCEPT !.segments = clean(doc.recognised, world.cleaning, replies).segments]
        /\ IF clean(doc.recognised, world.cleaning, replies).raised
             THEN Raise("parse") ELSE Goto("parse", "store")
  BY DEF Clean
<1> DEFINE new == clean(doc.recognised, world.cleaning, replies).segments
<1>3. /\ doc'.recognised = doc.recognised /\ doc'.segments = new
      /\ doc' = [recognised |-> doc'.recognised, segments |-> doc'.segments,
                 subtitles |-> doc'.subtitles, pages |-> doc'.pages, toc |-> doc'.toc]
  <2>1. doc = [recognised |-> doc.recognised, segments |-> doc.segments,
               subtitles |-> doc.subtitles, pages |-> doc.pages, toc |-> doc.toc]
    BY DEF ProcessingInv, Types
  <2>2. doc' = [doc EXCEPT !.segments = new]
    BY <1>2
  <2> HIDE DEF new
  <2> QED
    BY <2>1, <2>2
<1>4. ParseFrame
  BY <1>3, ParseUnchanged DEF Clean
<1>5. CASE Goto("parse", "store")
  <2>1. Moves("parse", "store")
    BY <1>1, <1>5 DEF Goto, Moves
  <2>2. jpc'["parse"] = "store"
    BY <2>1, MoveFacts DEF Job, ProcessingInv
  <2>3. doc.recognised = <<>> \/ WellCleaned(doc.recognised, new, world.cleaning.mode)
    <3>1. doc.recognised \in Seq(SegmentOf(DOMAIN Weight))
      BY <1>1, ProcessingAssumption DEF SegmentOf, ProcessingInv, Types
    <3>2. world.cleaning.mode \in {"rule", "llm"} /\ world.cleaning.batch_size \in Nat \ {0}
      BY ProcessingAssumption DEF ProcessingInv, Types
    <3> QED
      BY <3>1, <3>2, CleanFacts
  <2> HIDE DEF new
  <2>4. ParseInv'
    BY <1>1, <1>3, <2>2, <2>3 DEF ParseInv
  <2> QED
    BY <1>4, <2>1, <2>4, ParseArrives DEF ParseLabel, Active, DigestLabel
<1>6. CASE Raise("parse")
  <2>1. Moves("parse", "failed")
    BY <1>1, <1>6, RaiseFacts DEF Job
  <2> QED
    BY <1>1, <1>4, <2>1, ParseRestarts
<1> QED
  BY <1>2, <1>5, <1>6

(* Both uploads of a recording, and the one of a document.                 *)
LEMMA StoreTranscriptStep ==
    ASSUME ProcessingInv, StoreTranscript
    PROVE  ProcessingInv'
<1>1. world.kind = "asr" /\ world' = world /\ doc' = doc /\ jpc["parse"] = "store"
  BY DEF StoreTranscript
<1>2. /\ Keeps(objects', Key) /\ \A k \in Key : k # "transcript" => objects'[k] = objects[k]
      /\ \E label \in {"subtitle", "failed"} :
            /\ Moves("parse", label)
            /\ label # "failed" => objects'["transcript"] = Object(doc.segments)
  BY <1>1, UploadFacts DEF StoreTranscript, ProcessingInv, Job, Key
<1>3. ParseFrame
  BY <1>1, <1>2 DEF ParseFrame, Row, Key, StoreTranscript, ProcessingInv, Types
<1>4. PICK label \in {"subtitle", "failed"} :
         /\ Moves("parse", label)
         /\ label = "subtitle" => objects'["transcript"] = Object(doc.segments)
  BY <1>2
<1>5. CASE label = "subtitle"
  <2>1. jpc'["parse"] = "subtitle"
    BY <1>4, <1>5, MoveFacts DEF Job, ProcessingInv
  <2>2. ParseInv'
    BY <1>1, <1>4, <1>5, <2>1 DEF ParseInv, ProcessingInv
  <2> QED
    BY <1>3, <1>4, <1>5, <2>2, ParseArrives DEF ParseLabel, Active, DigestLabel
<1>6. CASE label # "subtitle"
  BY <1>1, <1>3, <1>4, <1>6, ParseRestarts
<1> QED
  BY <1>5, <1>6

LEMMA SubtitleStep ==
    ASSUME ProcessingInv, Subtitle
    PROVE  ProcessingInv'
<1> DEFINE blocks == generate_srt(doc.segments, world.limits)
<1>1. /\ world.kind = "asr" /\ world' = world /\ jpc["parse"] = "subtitle"
      /\ objects["transcript"] = Object(doc.segments)
      /\ doc.recognised = <<>>
           \/ WellCleaned(doc.recognised, doc.segments, world.cleaning.mode)
  BY DEF Subtitle, ProcessingInv, ParseInv
<1>2. /\ doc' = [doc EXCEPT !.subtitles = blocks]
      /\ IF blocks = <<>> THEN Raise("parse") /\ UNCHANGED objects ELSE save_to_minio(blocks)
  BY DEF Subtitle
<1> HIDE DEF blocks
<1>3. /\ doc'.recognised = doc.recognised /\ doc'.segments = doc.segments
      /\ doc'.subtitles = blocks
      /\ doc' = [recognised |-> doc'.recognised, segments |-> doc'.segments,
                 subtitles |-> doc'.subtitles, pages |-> doc'.pages, toc |-> doc'.toc]
  BY <1>2 DEF ProcessingInv, Types
<1>4. CASE Raise("parse") /\ UNCHANGED objects
  <2>1. ParseFrame
    BY <1>3, <1>4, ParseUnchanged DEF Subtitle
  <2>2. Moves("parse", "failed")
    BY <1>1, <1>4, RaiseFacts DEF Job
  <2> QED
    BY <1>1, <2>1, <2>2, ParseRestarts
<1>5. CASE save_to_minio(blocks)
  <2>1. /\ Keeps(objects', Key) /\ \A k \in Key : k # "subtitle" => objects'[k] = objects[k]
        /\ \E label \in {"done", "failed"} :
              /\ Moves("parse", label)
              /\ label # "failed" => objects'["subtitle"] = Object(blocks)
    BY <1>1, <1>5, UploadFacts DEF save_to_minio, ProcessingInv, Job, Key
  <2>2. ParseFrame
    BY <1>3, <2>1 DEF ParseFrame, Row, Key, Subtitle
  <2>3. PICK label \in {"done", "failed"} :
           /\ Moves("parse", label)
           /\ label = "done" => objects'["subtitle"] = Object(blocks)
    BY <2>1
  <2>4. CASE label = "done"
    <3>1. jpc'["parse"] = "done"
      BY <2>3, <2>4, MoveFacts DEF Job, ProcessingInv
    <3>2. objects'["transcript"] = Object(doc.segments)
      BY <1>1, <2>1 DEF Key
    <3>3. ParseInv'
      BY <1>1, <1>3, <2>3, <2>4, <3>1, <3>2 DEF ParseInv
    <3> QED
      BY <2>2, <2>3, <2>4, <3>3, ParseArrives DEF Over
  <2>5. CASE label # "done"
    BY <1>1, <2>2, <2>3, <2>5, ParseRestarts
  <2> QED
    BY <2>4, <2>5
<1> QED
  BY <1>2, <1>4, <1>5

LEMMA ExtractStep ==
    ASSUME ProcessingInv, Extract
    PROVE  ProcessingInv'
<1>1. world.kind = "pdf" /\ world' = world
  BY DEF Extract, ProcessingInv, ParseInv
<1>2. ASSUME NEW label \in {"store", "ocr"}, Goto("parse", label), doc' \in {extracted, EmptyDoc}
      PROVE  ProcessingInv'
  <2>1. Moves("parse", label)
    BY <1>1, <1>2 DEF Goto, Moves
  <2>2. jpc'["parse"] = label
    BY <2>1, MoveFacts DEF Job, ProcessingInv
  <2>3. /\ doc'.recognised = <<>>
        /\ doc' = [recognised |-> doc'.recognised, segments |-> doc'.segments,
                   subtitles |-> doc'.subtitles, pages |-> doc'.pages, toc |-> doc'.toc]
    <3>1. extracted = [recognised |-> <<>>, segments |-> <<>>, subtitles |-> <<>>,
                       pages |-> world.pages, toc |-> world.toc]
      <4>1. EmptyDoc = [recognised |-> <<>>, segments |-> <<>>, subtitles |-> <<>>,
                        pages |-> <<>>, toc |-> <<>>]
        BY DEF EmptyDoc
      <4>2. extracted = [EmptyDoc EXCEPT !.pages = world.pages, !.toc = world.toc]
        BY DEF extracted
      <4> QED
        BY <4>1, <4>2
    <3>2. CASE doc' = extracted
      BY <3>1, <3>2
    <3>3. CASE doc' = EmptyDoc
      BY <3>3 DEF EmptyDoc
    <3> QED
      BY <1>2, <3>2, <3>3
  <2>4. ParseFrame
    BY <2>3, ParseUnchanged DEF Extract
  <2>5. ParseInv'
    BY <1>1, <2>2, <2>3 DEF ParseInv
  <2> QED
    BY <2>1, <2>4, <2>5, ParseArrives DEF ParseLabel, Active, DigestLabel
<1>3. CASE Raise("parse") /\ UNCHANGED doc
  <2>1. Moves("parse", "failed")
    BY <1>1, <1>3, RaiseFacts DEF Job
  <2> QED
    BY <1>3, <2>1, DocUnchanged, ParseRestarts DEF Extract
<1> QED
  BY <1>2, <1>3 DEF Extract

LEMMA OcrStep ==
    ASSUME ProcessingInv, OcrPage \/ RenderFails \/ OcrEnds
    PROVE  ProcessingInv'
<1>1. /\ world.kind = "pdf" /\ world' = world /\ jpc["parse"] = "ocr"
      /\ doc.recognised = <<>>
  BY DEF OcrPage, RenderFails, OcrEnds, ProcessingInv, ParseInv
<1>2. /\ doc'.recognised = <<>>
      /\ doc' = [recognised |-> doc'.recognised, segments |-> doc'.segments,
                 subtitles |-> doc'.subtitles, pages |-> doc'.pages, toc |-> doc'.toc]
  <2>1. doc = [recognised |-> doc.recognised, segments |-> doc.segments,
               subtitles |-> doc.subtitles, pages |-> doc.pages, toc |-> doc.toc]
    BY DEF ProcessingInv, Types
  <2>2. CASE OcrPage
    <3>1. PICK text : doc' = [doc EXCEPT !.pages = Append(doc.pages, text)]
      BY <2>2 DEF OcrPage
    <3> QED
      BY <1>1, <2>1, <3>1
  <2>3. CASE RenderFails \/ OcrEnds
    BY <1>1, <2>1, <2>3 DEF RenderFails, OcrEnds
  <2> QED
    BY <2>2, <2>3
<1>3. ParseFrame
  BY <1>2, ParseUnchanged DEF OcrPage, RenderFails, OcrEnds
<1>4. ASSUME NEW label \in {"ocr", "store"}, Goto("parse", label)
      PROVE  ProcessingInv'
  <2>1. Moves("parse", label)
    BY <1>1, <1>4 DEF Goto, Moves
  <2>2. jpc'["parse"] = label
    BY <2>1, MoveFacts DEF Job, ProcessingInv
  <2>3. ParseInv'
    BY <1>1, <1>2, <2>2 DEF ParseInv
  <2> QED
    BY <1>3, <2>1, <2>3, ParseArrives DEF ParseLabel, Active, DigestLabel
<1>5. CASE Raise("parse")
  <2>1. Moves("parse", "failed")
    BY <1>1, <1>5, RaiseFacts DEF Job
  <2> QED
    BY <1>2, <1>3, <2>1, ParseRestarts
<1> QED
  BY <1>4, <1>5 DEF OcrPage, RenderFails, OcrEnds

LEMMA StoreParsedStep ==
    ASSUME ProcessingInv, StoreParsed
    PROVE  ProcessingInv'
<1>1. /\ world.kind = "pdf" /\ world' = world /\ doc' = doc /\ jpc["parse"] = "store"
      /\ doc.recognised = <<>>
  BY DEF StoreParsed, ProcessingInv, ParseInv
<1>2. /\ Keeps(objects', Key) /\ \A k \in Key : k # "parsed" => objects'[k] = objects[k]
      /\ \E label \in {"done", "failed"} :
            /\ Moves("parse", label)
            /\ label # "failed" => objects'["parsed"] = Object(doc.pages)
  BY <1>1, UploadFacts DEF StoreParsed, ProcessingInv, Job, Key
<1>3. ParseFrame
  BY <1>1, <1>2 DEF ParseFrame, Row, Key, StoreParsed, ProcessingInv, Types
<1>4. PICK label \in {"done", "failed"} :
         /\ Moves("parse", label)
         /\ label = "done" => objects'["parsed"] = Object(doc.pages)
  BY <1>2
<1>5. CASE label = "done"
  <2>1. jpc'["parse"] = "done"
    BY <1>4, <1>5, MoveFacts DEF Job, ProcessingInv
  <2>2. ParseInv'
    BY <1>1, <1>4, <1>5, <2>1 DEF ParseInv
  <2> QED
    BY <1>3, <1>4, <1>5, <2>2, ParseArrives DEF Over
<1>6. CASE label # "done"
  BY <1>1, <1>3, <1>4, <1>6, ParseRestarts
<1> QED
  BY <1>5, <1>6

(* What a step of a job for a row, which ends at a label, has to keep:     *)
(* only its own draft, object and row change; it has a draft if it goes on *)
(* to save it, its object if it goes on to post, and its row if it ends    *)
(* well; it becomes active only if the other job for the row is not, or    *)
(* the overlap is remembered.                                              *)
DigestEffect(j, label) ==
    /\ \A i \in Job : i # j => draft'[i] = draft[i]
    /\ \A k \in Row : k # KeyOf(j) => objects'[k] = objects[k] /\ rows'[k] = rows[k]
    /\ label \in {"save", "post"} => draft'[j] # None
    /\ label = "post" => objects'[KeyOf(j)] = Object(draft'[j])
    /\ label = "done" => rows'[KeyOf(j)] # None
                         /\ objects'[KeyOf(j)] = Object(rows'[KeyOf(j)])
    /\ jpc[j] \in Active \/ UNCHANGED <<objects, rows>>
    /\ ~overlap' => ~overlap
    /\ ~overlap' /\ label \in Active /\ j \in Summaries =>
          jpc[j] \in Active \/ \A i \in Summaries \ {j} : jpc[i] \notin Active
    /\ draft'["tags"] # draft["tags"] => Tagged(draft'["tags"])
    /\ rows'["tags"] # rows["tags"] => Unique(rows'["tags"].tags)

LEMMA DigestArrives ==
    ASSUME ProcessingInv, DigestFrame, NEW j \in Derived,
           NEW label \in DigestLabel \cup Over \cup {"queued"}, Moves(j, label),
           j \in world.derived, DigestEffect(j, label)
    PROVE  ProcessingInv'
<1>1. Types' /\ ParseInv'
  BY DigestKeeps
<1>2. /\ world' = world /\ jpc'[j] = label
      /\ \A i \in Derived : i # j => jpc'[i] = jpc[i]
  BY MoveFacts DEF ProcessingInv, Moves, Derived
<1>3. /\ Summaries \subseteq Derived /\ \A k \in Row : JobsOf(k) \subseteq Derived
      /\ KeyOf(j) \in Row /\ j \in JobsOf(KeyOf(j))
      /\ \A i \in Derived : KeyOf(i) \in Row
      /\ \A i \in Derived : i # j /\ KeyOf(i) = KeyOf(j) => i \in Summaries /\ j \in Summaries
      /\ \A k \in Row : k # KeyOf(j) => j \notin JobsOf(k)
  <2>1. world.derived \subseteq {"auto", "manual", "tags"}
    BY ProcessingAssumption DEF ProcessingInv, Types
  <2> QED
    BY <2>1 DEF Summaries, Derived, Job, JobsOf, KeyOf, Row
<1>4. \A i \in Derived : jpc'[i] \in {"save", "post"} => draft'[i] # None
  BY <1>2 DEF ProcessingInv, SaveInv, DigestEffect, Derived
<1>5. ASSUME ~overlap' PROVE OneAtATime' /\ ObjectSaved' /\ RowSaved'
  <2>1. OneAtATime /\ ObjectSaved /\ RowSaved /\ ~overlap
    BY <1>5 DEF ProcessingInv, SaveInv, DigestEffect
  <2>2. OneAtATime'
    <3>1. label \in Active /\ j \in Summaries =>
             \A i \in Summaries \ {j} : jpc[i] \notin Active
      BY <1>5, <2>1 DEF OneAtATime, DigestEffect
    <3> QED
      BY <1>2, <1>3, <2>1, <3>1 DEF OneAtATime
  <2>3. ObjectSaved'
    <3> SUFFICES ASSUME NEW i \in Derived, jpc'[i] = "post"
                 PROVE  objects'[KeyOf(i)] = Object(draft'[i])
      BY DEF ObjectSaved
    <3>1. CASE i = j
      BY <1>2, <3>1 DEF DigestEffect
    <3>2. CASE i # j
      <4>1. objects[KeyOf(i)] = Object(draft[i]) /\ draft'[i] = draft[i] /\ jpc[i] = "post"
        BY <1>2, <2>1, <3>2 DEF ObjectSaved, DigestEffect, Derived
      <4>2. CASE KeyOf(i) # KeyOf(j)
        BY <1>3, <4>1, <4>2 DEF DigestEffect
      <4>3. CASE KeyOf(i) = KeyOf(j)
        <5>1. jpc[j] \notin Active
          BY <1>3, <2>1, <3>2, <4>1, <4>3 DEF OneAtATime, Active
        <5> QED
          BY <4>1, <5>1 DEF DigestEffect
      <4> QED
        BY <4>2, <4>3
    <3> QED
      BY <3>1, <3>2
  <2>4. RowSaved'
    <3> SUFFICES ASSUME NEW k \in Row, Settled(k)'
                 PROVE  rows'[k] # None /\ objects'[k] = Object(rows'[k])
      BY DEF RowSaved
    <3>1. JobsOf(k)' = JobsOf(k)
      BY <1>2 DEF JobsOf
    <3>2. CASE k = KeyOf(j)
      <4>1. label \in {"done", "waiting"}
        BY <1>2, <1>3, <3>1, <3>2 DEF Settled
      <4>2. label = "done"
        BY <4>1 DEF DigestLabel, Over
      <4> QED
        BY <3>2, <4>2 DEF DigestEffect
    <3>3. CASE k # KeyOf(j)
      <4>1. Settled(k)
        BY <1>2, <1>3, <3>1, <3>3 DEF Settled
      <4> QED
        BY <2>1, <3>3, <4>1 DEF RowSaved, DigestEffect
    <3> QED
      BY <3>2, <3>3
  <2> QED
    BY <2>2, <2>3, <2>4
<1>6. SaveInv'
  BY <1>4, <1>5 DEF SaveInv
<1>7. TagsInv'
  BY DEF ProcessingInv, TagsInv, DigestEffect
<1> QED
  BY <1>1, <1>6, <1>7 DEF ProcessingInv

LEMMA DigestUnchanged ==
    ASSUME ProcessingInv, UNCHANGED <<doc, draft, objects, rows, overlap>>
    PROVE  DigestFrame
BY DEF DigestFrame, ProcessingInv, Types, Keeps

(* A job at work, or queued, was asked for.                                *)
LEMMA WasAskedFor ==
    ASSUME ProcessingInv, NEW j \in Derived, jpc[j] # "waiting"
    PROVE  j \in world.derived
BY DEF ProcessingInv, Types

(* A step that only queues, or ends, a job changes nothing else.           *)
LEMMA JobRestarts ==
    ASSUME ProcessingInv, NEW j \in Derived, NEW label \in {"queued", "failed"},
           Moves(j, label), j \in world.derived,
           UNCHANGED <<doc, draft, objects, rows, overlap>>
    PROVE  ProcessingInv'
<1>1. DigestFrame
  BY DigestUnchanged
<1>2. DigestEffect(j, label)
  BY DEF DigestEffect, Active
<1> QED
  BY <1>1, <1>2, DigestArrives DEF Over

LEMMA DispatchStep ==
    ASSUME ProcessingInv, NEW j \in Derived, Dispatch(j)
    PROVE  ProcessingInv'
<1>1. Moves(j, "queued")
  BY DEF Dispatch, Goto, Moves
<1> QED
  BY <1>1, JobRestarts DEF Dispatch

LEMMA SummaryFailsStep ==
    ASSUME ProcessingInv, NEW j \in Derived, SummaryFails(j)
    PROVE  ProcessingInv'
<1>1. j \in world.derived /\ j \in Job
  BY WasAskedFor DEF SummaryFails, Derived
<1>2. Moves(j, "failed")
  BY <1>1, RaiseFacts DEF SummaryFails
<1> QED
  BY <1>1, <1>2, JobRestarts DEF SummaryFails

LEMMA StartStep ==
    ASSUME ProcessingInv, NEW j \in Derived, Start(j)
    PROVE  ProcessingInv'
<1>1. j \in world.derived /\ j # "parse"
  BY WasAskedFor DEF Start, Derived
<1>2. Moves(j, "digest")
  BY <1>1 DEF Start, Goto, Moves
<1>3. DigestFrame
  BY DEF Start, DigestFrame, ProcessingInv, Types, Keeps
<1>4. DigestEffect(j, "digest")
  BY DEF Start, DigestEffect
<1> QED
  BY <1>1, <1>2, <1>3, <1>4, DigestArrives DEF DigestLabel

(* What a job makes is not nothing.                                        *)
LEMMA SummaryIsDraft ==
    ASSUME NEW a, NEW b, NEW c, NEW d, NEW e, NEW f
    PROVE  [by |-> a, try |-> b, fallback |-> c, read |-> d, full |-> e, sections |-> f] # None
<1> DEFINE new == [by |-> a, try |-> b, fallback |-> c, read |-> d, full |-> e, sections |-> f]
<1>1. "by" \in DOMAIN new
  OBVIOUS
<1>2. "by" \notin DOMAIN None
  BY DEF None
<1> QED
  BY <1>1, <1>2

LEMMA TagsAreDraft ==
    ASSUME NEW tags, NEW entities, NEW source
    PROVE  /\ Extracted(tags, entities, source) # None
           /\ "tags" \in DOMAIN Extracted(tags, entities, source)
           /\ Extracted(tags, entities, source).tags = normalize(tags, max_count)
<1> DEFINE found == normalize(tags, max_count)
           resolved == resolve(entities)
           new == [by |-> "tags", try |-> faults, tags |-> found,
                   entities |-> resolved, source |-> source, fallback |-> source = "rule"]
<1>1. Extracted(tags, entities, source) = new
  BY DEF Extracted
<1> HIDE DEF found, resolved
<1>2. "by" \in DOMAIN new /\ "tags" \in DOMAIN new /\ new.tags = found
  OBVIOUS
<1>3. "by" \notin DOMAIN None
  BY DEF None
<1>4. new # None
  BY <1>2, <1>3
<1> HIDE DEF new
<1> QED
  BY <1>1, <1>2, <1>4 DEF found

(* A job has made its draft.                                               *)
LEMMA DraftMade ==
    ASSUME ProcessingInv, NEW j \in Derived, jpc[j] = "digest",
           Goto(j, "save"), NEW new, draft' = [draft EXCEPT ![j] = new],
           UNCHANGED <<world, doc, objects, rows, overlap>>,
           new # None, j = "tags" => Tagged(new)
    PROVE  ProcessingInv'
<1>1. j \in world.derived /\ j \in Job
  BY WasAskedFor DEF Derived
<1>2. Moves(j, "save")
  BY DEF Goto, Moves
<1>3. Keeps(draft, Job)
  BY DEF ProcessingInv, Types
<1>4. Keeps(draft', Job) /\ draft'[j] = new /\ \A i \in Job : i # j => draft'[i] = draft[i]
  BY <1>1, <1>3 DEF Keeps
<1>5. DigestFrame
  BY <1>4 DEF DigestFrame, ProcessingInv, Types, Keeps
<1>6. "tags" # j => draft'["tags"] = draft["tags"]
  BY <1>4 DEF Job
<1>7. DigestEffect(j, "save")
  BY <1>4, <1>6 DEF DigestEffect, Active
<1> QED
  BY <1>1, <1>2, <1>5, <1>7, DigestArrives DEF DigestLabel

LEMMA SummarizeStep ==
    ASSUME ProcessingInv, NEW j \in Derived, Summarize(j)
    PROVE  ProcessingInv'
<1>1. PICK new : draft' = [draft EXCEPT ![j] = new] /\ new # None
  <2> DEFINE text == full_text(doc, world.limits.spaced)
             read == split_chunks(text, chunk_token_limit, overlap_tokens)
  <2>1. PICK blank \in BOOLEAN :
           draft' = [draft EXCEPT ![j] =
              [by |-> j, try |-> faults, fallback |-> blank, read |-> read,
               full |-> ~blank \/ text # <<>>, sections |-> sections(doc, section_length)]]
    BY Zenon DEF Summarize
  <2> HIDE DEF text, read
  <2> QED
    BY <2>1, SummaryIsDraft
<1>2. j # "tags" /\ jpc[j] = "digest" /\ Goto(j, "save")
      /\ UNCHANGED <<world, doc, objects, rows, overlap>>
  BY DEF Summarize, Summaries
<1> QED
  BY <1>1, <1>2, DraftMade

(* Whoever finds the tags, and if there is nothing to find them in, they   *)
(* are normalised.                                                         *)
LEMMA ExtractTagsStep ==
    ASSUME ProcessingInv, ExtractTags
    PROVE  ProcessingInv'
<1>1. \E tags \in Seq(STRING) : \E entities, source :
         draft' = [draft EXCEPT !["tags"] = Extracted(tags, entities, source)]
  <2>1. CASE draft' = [draft EXCEPT !["tags"] = Extracted(<<>>, <<>>, "rule")]
    <3>1. <<>> \in Seq(STRING)
      OBVIOUS
    <3> QED
      BY <2>1, <3>1
  <2>2. CASE ModelFinds
    <3>1. PICK tags \in Tags : \E entities :
             draft' = [draft EXCEPT !["tags"] =
                Extracted(Picked(tags, {i \in DOMAIN tags : tags[i] # ""}), entities, "llm")]
      BY <2>2 DEF ModelFinds
    <3> DEFINE K == {i \in DOMAIN tags : tags[i] # ""}
    <3>2. tags \in Seq(STRING) /\ K \in SUBSET DOMAIN tags
      BY ProcessingAssumption
    <3> HIDE DEF K
    <3>3. Picked(tags, K) \in Seq(STRING)
      BY <3>2, PickedFacts
    <3> QED
      BY <3>1, <3>3 DEF K
  <2>3. CASE RulesFind
    <3>1. PICK tags \in Tags : \E entities :
             draft' = [draft EXCEPT !["tags"] = Extracted(tags, entities, "rule")]
      BY <2>3 DEF RulesFind
    <3>2. tags \in Seq(STRING)
      BY ProcessingAssumption
    <3> QED
      BY <3>1, <3>2
  <2> QED
    BY <2>1, <2>2, <2>3 DEF ExtractTags
<1>2. PICK tags \in Seq(STRING) : \E entities, source :
         draft' = [draft EXCEPT !["tags"] = Extracted(tags, entities, source)]
  BY <1>1
<1>3. PICK entities, source :
         draft' = [draft EXCEPT !["tags"] = Extracted(tags, entities, source)]
  BY <1>2
<1> DEFINE new == Extracted(tags, entities, source)
<1>4. new # None /\ "tags" \in DOMAIN new /\ new.tags = normalize(tags, max_count)
  BY TagsAreDraft
<1>5. draft' = [draft EXCEPT !["tags"] = new]
  BY <1>3
<1> HIDE DEF new
<1>6. Unique(normalize(tags, max_count))
  BY NormalizeFacts, ProcessingAssumption
<1>7. Tagged(new)
  BY <1>4, <1>6 DEF Tagged
<1>8. /\ "tags" \in Derived /\ jpc["tags"] = "digest" /\ Goto("tags", "save")
      /\ UNCHANGED <<world, doc, objects, rows, overlap>>
  BY DEF ExtractTags, Derived, Job
<1> QED
  BY <1>4, <1>5, <1>7, <1>8, DraftMade

(* SummaryRepository.save and ExtractionRepository.save: the object, which *)
(* is there when the job goes on ...                                       *)
LEMMA SaveStep ==
    ASSUME ProcessingInv, NEW j \in Derived, Save(j)
    PROVE  ProcessingInv'
<1>1. /\ j \in world.derived /\ j \in Job /\ KeyOf(j) \in Row /\ KeyOf(j) \in Key
      /\ jpc[j] \in Active
  BY WasAskedFor DEF Save, Derived, KeyOf, Row, Key, Active
<1>2. UNCHANGED <<world, doc, draft, rows, overlap>> /\ draft[j] # None
  BY DEF Save, ProcessingInv, SaveInv
<1>3. /\ Keeps(objects', Key) /\ \A k \in Key : k # KeyOf(j) => objects'[k] = objects[k]
      /\ \E label \in {"post", "failed"} :
            /\ Moves(j, label)
            /\ label # "failed" => objects'[KeyOf(j)] = Object(draft[j])
  BY <1>1, <1>2, UploadFacts DEF Save, ProcessingInv
<1>4. PICK label \in {"post", "failed"} :
         /\ Moves(j, label)
         /\ label = "post" => objects'[KeyOf(j)] = Object(draft[j])
  BY <1>3
<1>5. DigestFrame
  BY <1>1, <1>2, <1>3 DEF DigestFrame, ProcessingInv, Types, Keeps
<1>6. DigestEffect(j, label)
  BY <1>1, <1>2, <1>3, <1>4 DEF DigestEffect, Row, Key
<1> QED
  BY <1>1, <1>4, <1>5, <1>6, DigestArrives DEF DigestLabel, Over

(* Of a post that is not answered: only the job's own row has changed, and *)
(* tags that were replaced without their entities are named once, too.     *)
LEMMA PostedFacts ==
    ASSUME ProcessingInv, NEW j \in Derived, jpc[j] = "post",
           Posted(j) \/ UNCHANGED rows
    PROVE  /\ Keeps(rows', Row) /\ \A k \in Row : k # KeyOf(j) => rows'[k] = rows[k]
           /\ rows'["tags"] # rows["tags"] => Unique(rows'["tags"].tags)
<1>1. Keeps(rows, Row) /\ draft[j] # None
  BY DEF ProcessingInv, Types, SaveInv
<1>2. KeyOf(j) \in Row /\ "tags" \in Row /\ (j = "tags" <=> KeyOf(j) = "tags")
  BY DEF Derived, Job, KeyOf, Row
<1>3. CASE UNCHANGED rows
  BY <1>1, <1>3 DEF Keeps
<1>4. ASSUME NEW row, rows' = [rows EXCEPT ![KeyOf(j)] = row], j = "tags" => Unique(row.tags)
      PROVE  /\ Keeps(rows', Row) /\ \A k \in Row : k # KeyOf(j) => rows'[k] = rows[k]
             /\ rows'["tags"] # rows["tags"] => Unique(rows'["tags"].tags)
  <2>1. /\ Keeps(rows', Row) /\ rows'[KeyOf(j)] = row
        /\ \A k \in Row : k # KeyOf(j) => rows'[k] = rows[k]
    BY <1>1, <1>2, <1>4 DEF Keeps
  <2> QED
    BY <1>2, <1>4, <2>1
<1>5. j = "tags" => Tagged(draft["tags"])
  BY <1>1 DEF ProcessingInv, TagsInv
<1>6. CASE rows' = [rows EXCEPT ![KeyOf(j)] = draft[j]]
  <2>1. j = "tags" => Unique(draft[j].tags)
    BY <1>5 DEF Tagged
  <2> QED
    BY <1>4, <1>6, <2>1
<1>7. CASE j = "tags" /\ rows' = [rows EXCEPT !["tags"] = TagsOnly(draft["tags"])]
  <2>1. TagsOnly(draft["tags"]).tags = draft["tags"].tags
    BY <1>5, <1>7 DEF Tagged, TagsOnly
  <2>2. Unique(TagsOnly(draft["tags"]).tags)
    BY <1>5, <1>7, <2>1 DEF Tagged
  <2>3. rows' = [rows EXCEPT ![KeyOf(j)] = TagsOnly(draft["tags"])]
    BY <1>2, <1>7
  <2> QED
    BY <1>4, <2>2, <2>3
<1> QED
  BY <1>3, <1>6, <1>7 DEF Posted

(* ... and then the row: without an overlap nothing has replaced the       *)
(* object since.                                                           *)
LEMMA PostStep ==
    ASSUME ProcessingInv, NEW j \in Derived, Post(j)
    PROVE  ProcessingInv'
<1>1. /\ j \in world.derived /\ j \in Job /\ KeyOf(j) \in Row /\ jpc[j] \in Active
      /\ j = "tags" <=> KeyOf(j) = "tags"
  BY WasAskedFor DEF Post, Derived, KeyOf, Row, Active, Job
<1>2. UNCHANGED <<world, doc, draft, objects, overlap>> /\ draft[j] # None /\ jpc[j] = "post"
  BY DEF Post, ProcessingInv, SaveInv
<1>3. Keeps(rows, Row)
  BY DEF ProcessingInv, Types
<1>4. Posted(j) \/ UNCHANGED rows
  BY DEF Post, Posted
<1>5. /\ Keeps(rows', Row) /\ \A k \in Row : k # KeyOf(j) => rows'[k] = rows[k]
      /\ rows'["tags"] # rows["tags"] => Unique(rows'["tags"].tags)
  BY <1>2, <1>4, PostedFacts
<1>7. DigestFrame
  BY <1>2, <1>5 DEF DigestFrame, ProcessingInv, Types, Keeps
<1>8. CASE rows' = [rows EXCEPT ![KeyOf(j)] = draft[j]] /\ Goto(j, "done")
  <2>1. Moves(j, "done")
    BY <1>2, <1>8 DEF Goto, Moves
  <2>2. rows'[KeyOf(j)] = draft[j]
    BY <1>1, <1>3, <1>8 DEF Keeps
  <2>3. ASSUME ~overlap PROVE objects[KeyOf(j)] = Object(draft[j])
    BY <2>3 DEF Post, ProcessingInv, SaveInv, ObjectSaved
  <2>4. CASE ~overlap
    <3>1. DigestEffect(j, "done")
      BY <1>1, <1>2, <1>5, <2>2, <2>3, <2>4 DEF DigestEffect
    <3> QED
      BY <1>1, <1>7, <2>1, <3>1, DigestArrives DEF Over
  <2>5. CASE overlap
    <3>1. Types' /\ ParseInv'
      BY <1>1, <1>7, <2>1, DigestKeeps DEF Over
    <3>2. \A i \in Derived : jpc'[i] \in {"save", "post"} => jpc[i] \in {"save", "post"}
      BY <1>1, <2>1, MoveFacts DEF ProcessingInv, Derived
    <3>3. SaveInv'
      BY <1>2, <2>5, <3>2 DEF ProcessingInv, SaveInv
    <3>4. TagsInv'
      BY <1>2, <1>5 DEF ProcessingInv, TagsInv
    <3> QED
      BY <3>1, <3>3, <3>4 DEF ProcessingInv
  <2> QED
    BY <2>4, <2>5
<1>9. CASE Raise(j)
  <2>1. Moves(j, "failed")
    BY <1>1, <1>2, <1>9, RaiseFacts
  <2>2. DigestEffect(j, "failed")
    BY <1>1, <1>2, <1>5 DEF DigestEffect, Active
  <2> QED
    BY <1>1, <1>7, <2>1, <2>2, DigestArrives DEF Over
<1> QED
  BY <1>8, <1>9 DEF Post

(* The task is delivered again to another worker, be it after its post was *)
(* served.                                                                 *)
LEMMA WorkerLostStep ==
    ASSUME ProcessingInv, NEW j \in Job, WorkerLost(j)
    PROVE  ProcessingInv'
<1>1. Moves(j, "queued") /\ UNCHANGED <<doc, draft, objects, overlap>> /\ jpc[j] \in Active
  BY DEF WorkerLost, Goto, Moves
<1>2. CASE j = "parse"
  <2>1. UNCHANGED rows
    BY <1>2 DEF WorkerLost, ProcessingInv, Types, ParseLabel, DigestLabel, Over
  <2> QED
    BY <1>1, <1>2, <2>1, DocUnchanged, ParseRestarts
<1>3. CASE j # "parse"
  <2>1. j \in Derived
    BY <1>3 DEF Derived
  <2>2. j \in world.derived
    BY <2>1, WasAskedFor DEF WorkerLost, Active
  <2>3. CASE UNCHANGED rows
    BY <1>1, <2>1, <2>2, <2>3, JobRestarts
  <2>4. CASE jpc[j] = "post" /\ Posted(j)
    <3>1. /\ Keeps(rows', Row) /\ \A k \in Row : k # KeyOf(j) => rows'[k] = rows[k]
          /\ rows'["tags"] # rows["tags"] => Unique(rows'["tags"].tags)
      BY <2>1, <2>4, PostedFacts
    <3>2. DigestFrame
      BY <1>1, <3>1 DEF DigestFrame, ProcessingInv, Types, Keeps
    <3>3. DigestEffect(j, "queued")
      BY <1>1, <3>1 DEF DigestEffect, Active
    <3> QED
      BY <1>1, <2>1, <2>2, <3>2, <3>3, DigestArrives
  <2> QED
    BY <2>3, <2>4 DEF WorkerLost
<1> QED
  BY <1>2, <1>3

LEMMA ProcessingUnchanged ==
    ASSUME ProcessingInv, UNCHANGED <<world, jpc, doc, draft, objects, rows, overlap>>
    PROVE  ProcessingInv'
<1>1. Types'
  BY DEF ProcessingInv, Types, Keeps
<1>2. ParseInv'
  BY DEF ProcessingInv, ParseInv
<1>3. \A k \in Row : JobsOf(k)' = JobsOf(k)
  BY DEF JobsOf
<1>4. SaveInv'
  BY <1>3 DEF ProcessingInv, SaveInv, OneAtATime, ObjectSaved, RowSaved, Settled
<1>5. TagsInv'
  BY DEF ProcessingInv, TagsInv
<1> QED
  BY <1>1, <1>2, <1>4, <1>5 DEF ProcessingInv

-----------------------------------------------------------------------------
(* THEOREMS                                                                *)

LEMMA ProcessingInitially == Init => ProcessingInv
<1> SUFFICES ASSUME Init PROVE ProcessingInv
  OBVIOUS
<1>1. /\ jpc["parse"] = "queued" /\ \A j \in Derived : jpc[j] = "waiting"
      /\ jpc \in [Job -> Active \cup Over \cup {"queued", "waiting"}]
  BY DEF Init, Job, Derived
<1>2. Types
  <2>1. doc = [recognised |-> doc.recognised, segments |-> doc.segments,
               subtitles |-> doc.subtitles, pages |-> doc.pages, toc |-> doc.toc]
    BY DEF Init, EmptyDoc
  <2> QED
    BY <1>1, <2>1 DEF Init, Types, Keeps, Row
<1>3. ParseInv
  BY <1>1 DEF Init, ParseInv, EmptyDoc
<1>4. Summaries \subseteq Derived /\ \A k \in Row : JobsOf(k) \subseteq Derived
  <2>1. world.derived \subseteq {"auto", "manual", "tags"}
    BY ProcessingAssumption DEF Init
  <2> QED
    BY <2>1 DEF Summaries, Derived, Job, JobsOf
<1>5. OneAtATime /\ ObjectSaved
  BY <1>1, <1>4 DEF OneAtATime, ObjectSaved, Active
<1>6. RowSaved
  BY <1>1, <1>4 DEF RowSaved, Settled
<1>7. SaveInv
  BY <1>1, <1>5, <1>6 DEF SaveInv
<1>8. TagsInv
  BY DEF Init, TagsInv, Job
<1> QED
  BY <1>2, <1>3, <1>7, <1>8 DEF ProcessingInv

LEMMA ProcessingStep == ProcessingInv /\ [Next]_vars => ProcessingInv'
<1> SUFFICES ASSUME ProcessingInv, [Next]_vars PROVE ProcessingInv'
  OBVIOUS
<1>1. CASE ParseStep
  BY <1>1, StartParseStep, DownloadStep, TranscribeStep, CleanStep, StoreTranscriptStep,
     SubtitleStep, ExtractStep, OcrStep, StoreParsedStep DEF ParseStep
<1>2. CASE Index
  BY <1>2, ProcessingUnchanged DEF Index
<1>3. CASE UNCHANGED vars
  BY <1>3, ProcessingUnchanged DEF vars
<1>4. ASSUME NEW j \in Job \ {"parse"}, DigestStep(j) \/ Dispatch(j) PROVE ProcessingInv'
  <2>1. j \in Derived
    BY DEF Derived
  <2> QED
    BY <1>4, <2>1, StartStep, SummarizeStep, SummaryFailsStep, ExtractTagsStep, SaveStep,
       PostStep, DispatchStep DEF DigestStep
<1>5. ASSUME NEW j \in Job, WorkerLost(j) PROVE ProcessingInv'
  BY <1>5, WorkerLostStep
<1> QED
  BY <1>1, <1>2, <1>3, <1>4, <1>5 DEF Next, Idle

(* What is known of a resource at every label of its jobs: the invariant   *)
(* both theorems below rest on.                                            *)
THEOREM ProcessingInvariant == Spec => []ProcessingInv
BY ProcessingInitially, ProcessingStep, PTL DEF Spec

(* A transcript that is stored is cleaned throughout or not at all         *)
(* (TextCleaningService.clean and its fallback): every segment is there    *)
(* with its times, and no batch the model failed on leaves a mixture, for  *)
(* any speech, size of the batches and replies.                            *)
THEOREM TranscriptsCleaned == Spec => []CleanedThroughout
<1>1. ProcessingInv => CleanedThroughout
  BY DEF ProcessingInv, ParseInv, WellCleaned, SameTimes, CleanText, CleanedThroughout
<1> QED
  BY <1>1, ProcessingInvariant, PTL

(* A job that is done has left its result in the object store and in the   *)
(* row of the gateway, and they are the same (SummaryRepository.save,      *)
(* ExtractionRepository.save): for any number of lost workers, half        *)
(* written tags included, if no two summary jobs overlapped.               *)
THEOREM ResultsSaved == Spec => []DoneIsSaved
<1>1. ProcessingInv => DoneIsSaved
  <2> SUFFICES ASSUME ProcessingInv PROVE DoneIsSaved
    OBVIOUS
  <2>1. \A k \in {"summary", "tags"} :
           Settled(k) /\ ~overlap => rows[k] # None /\ objects[k] = Object(rows[k])
    BY DEF ProcessingInv, SaveInv, RowSaved, Row
  <2>2. jpc["parse"] = "done" =>
           IF world.kind = "pdf" THEN objects["parsed"] = Object(doc.pages)
           ELSE /\ objects["transcript"] = Object(doc.segments)
                /\ objects["subtitle"] = Object(doc.subtitles)
    BY DEF ProcessingInv, ParseInv
  <2>3. rows["tags"] # None => Unique(rows["tags"].tags)
    BY DEF ProcessingInv, TagsInv
  <2> QED
    BY <2>1, <2>2, <2>3 DEF DoneIsSaved, Settled, Unique
<1> QED
  BY <1>1, ProcessingInvariant, PTL
=============================================================================
