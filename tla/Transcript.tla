----------------------------- MODULE Transcript -----------------------------
(***************************************************************************)
(* What is made of a transcription: cleaned segments, subtitles, and the   *)
(* text with the times of its characters.  A segment has a start and an    *)
(* end, in milliseconds, and a text.                                       *)
(***************************************************************************)
EXTENDS Chunking, FiniteSetsExt

Filler == "e"     \* a filler word
Polish == "p"     \* what the model writes for a character

Segment(start, end, text) == [start |-> start, end |-> end, text |-> text]
Retexted(segment, text) == [segment EXCEPT !.text = text]

-----------------------------------------------------------------------------
(* Cleaning *)

(* RuleCleaner.clean: fillers go, three or more of the same in a row       *)
(* become one, white space becomes single spaces.                          *)
Repeated(t, i) ==
    /\ i > 1 /\ t[i] = t[i - 1]
    /\ \E k \in {i - 2, i - 1, i} : k >= 1 /\ k + 2 <= Len(t)
                                   /\ t[k] = t[k + 1] /\ t[k + 1] = t[k + 2]
collapse(t) == Picked(t, {i \in DOMAIN t : ~Repeated(t, i)})
normalize_whitespace(t) ==
    LET single == Picked(t, {i \in DOMAIN t : t[i] \in Blank => i = 1 \/ t[i - 1] \notin Blank})
    IN  [i \in DOMAIN single |-> IF single[i] \in Blank THEN Space ELSE single[i]]
rule_clean(t) ==
    strip(normalize_whitespace(collapse(Picked(t, {i \in DOMAIN t : t[i] # Filler}))))

(* What the model may reply to one batch: the cleaned texts, one of them   *)
(* empty (in a JSON array), one too few, or nothing usable.                *)
Reply == {"texts", "blank", "short", "error"}

(* LlmCleaner._clean_batch; raised stands for the ValueError of a reply    *)
(* that does not have one text for each segment.                           *)
clean_batch(batch, reply) ==
    LET Text(i) == IF reply = "blank" /\ i = 1 THEN <<>>
                   ELSE [c \in DOMAIN batch[i].text |-> Polish]
    IN  [raised |-> reply \in {"short", "error"},
         segments |-> [i \in DOMAIN batch |-> Retexted(batch[i], Text(i))]]

Batches(s, size) ==
    [b \in 1..((Len(s) + size - 1) \div size) |->
        SubSeq(s, (b - 1) * size + 1, Min({b * size, Len(s)}))]

(* cleaned.extend, one batch after the other.                              *)
Rejoined(parts, n, size) ==
    [i \in 1..n |-> parts[((i - 1) \div size) + 1][((i - 1) % size) + 1]]

(* Mutant: a batch that fails keeps its text.                              *)
llm_clean_segments_PerBatch(segments, replies, batch_size) ==
    LET batches == Batches(segments, batch_size)
        Cleaned(b) == LET c == clean_batch(batches[b], replies[b])
                      IN  IF c.raised THEN batches[b] ELSE c.segments
    IN  [raised |-> FALSE,
         segments |-> Rejoined([b \in DOMAIN batches |-> Cleaned(b)], Len(segments), batch_size)]

(* LlmCleaner.clean_segments: the first batch that raises ends it.         *)
llm_clean_segments(segments, replies, batch_size) ==
    LET batches == Batches(segments, batch_size)
        cleaned == [b \in DOMAIN batches |-> clean_batch(batches[b], replies[b])]
    IN  [raised |-> \E b \in DOMAIN cleaned : cleaned[b].raised,
         segments |-> Rejoined([b \in DOMAIN cleaned |-> cleaned[b].segments],
                               Len(segments), batch_size)]

(* TextCleaningService.clean and _validate: any failure, a blank text      *)
(* included, gives the original back or, without the fallback, is raised.  *)
clean(segments, config, replies) ==
    LET ruled == [i \in DOMAIN segments |->
                     Retexted(segments[i], rule_clean(segments[i].text))]
        cleaned == IF config.mode = "llm"
                     THEN llm_clean_segments(ruled, replies, config.batch_size)
                     ELSE [raised |-> FALSE, segments |-> ruled]
        Valid(s) == \A i \in DOMAIN s : ~IsBlank(s[i].text)
    IN  IF segments = <<>> \/ (~cleaned.raised /\ Valid(cleaned.segments))
          THEN [raised |-> FALSE, segments |-> IF segments = <<>> THEN <<>>
                                              ELSE cleaned.segments]
          ELSE [raised |-> ~config.fallback_on_error, segments |-> segments]

-----------------------------------------------------------------------------
(* Subtitles *)

(* SegmentMerger._normalize: by start (the sort is stable), with no end    *)
(* before its start.                                                       *)
normalized(segments) ==
    LET Before(i, j) == \/ segments[i].start < segments[j].start
                        \/ segments[i].start = segments[j].start /\ i < j
        At(n) == CHOOSE i \in DOMAIN segments :
                    Cardinality({j \in DOMAIN segments : Before(j, i)}) = n - 1
        Fixed(s) == [s EXCEPT !.end = Max({s.start, @})]
    IN  [n \in DOMAIN segments |-> Fixed(segments[At(n)])] \o <<>>

(* Texts of languages without spaces are put together without one.         *)
join_text(left, right, spaced) ==
    IF spaced THEN strip(left \o <<Space>> \o right) ELSE left \o right

(* _split_long_segment: the time is shared out by characters.              *)
split_long_segment(s, max_chars) ==
    LET parts == Batches(s.text, max_chars)
        share == ((s.end - s.start) * max_chars) \div Len(s.text)
        Start(i) == Min({s.start + (i - 1) * share, s.end})
    IN  [i \in DOMAIN parts |->
            Segment(Start(i), IF i = Len(parts) THEN s.end ELSE Start(i + 1), parts[i])]

(* Mutant: what is merged keeps the end of its first part.                 *)
extend_KeepsEnd(current, s, text) == Retexted(current, text)

(* The subtitle that is being made takes in the next segment.              *)
extend(current, s, text) == Segment(current.start, s.end, text)

(* SegmentMerger.merge: short neighbours become one subtitle, long ones    *)
(* several.                                                                *)
merge(segments, limits) ==
    LET all == normalized(segments)
        Ready(s) == IF Len(s.text) <= limits.max_chars THEN <<s>>
                    ELSE split_long_segment(s, limits.max_chars)
        Add(acc, s) ==
            LET duration == s.end - acc.current.start
                text == join_text(acc.current.text, s.text, limits.spaced)
            IN  IF \/ duration < limits.min_duration
                   \/ duration < limits.max_duration /\ Len(text) < limits.max_chars
                  THEN [acc EXCEPT !.current = extend(acc.current, s, text)]
                  ELSE [done |-> acc.done \o Ready(acc.current), current |-> s]
        last == FoldLeft(Add, [done |-> <<>>, current |-> Head(all)], Tail(all))
    IN  IF segments = <<>> THEN <<>> ELSE last.done \o Ready(last.current)

(* format_timecode: hours, minutes, seconds, milliseconds.                 *)
format_timecode(ms) ==
    <<ms \div 3600000, (ms % 3600000) \div 60000, (ms % 60000) \div 1000, ms % 1000>>

(* SrtGenerator.generate (SRT; WebVTT only lacks the numbers).             *)
generate_srt(segments, limits) ==
    LET merged == merge(segments, limits)
    IN  [i \in DOMAIN merged |->
            [number |-> i, from |-> format_timecode(merged[i].start),
             to |-> format_timecode(merged[i].end), text |-> merged[i].text]] \o <<>>

-----------------------------------------------------------------------------
(* The text to be indexed *)

(* Mutant: the space between two segments is not counted.                  *)
text_range_NoSpace(gap, text, s) ==
    [from |-> Len(text), to |-> Len(text) + Len(s.text), start |-> s.start, end |-> s.end]

(* Where a segment is in the text, after what there is of it and the gap.  *)
text_range(gap, text, s) ==
    LET from == Len(text) + Len(gap)
    IN  [from |-> from, to |-> from + Len(s.text), start |-> s.start, end |-> s.end]

(* VectorIndexService._build_asr_text_ranges: the texts with one space     *)
(* between them, and where each segment is.                                *)
build_asr_text_ranges(segments) ==
    LET Add(acc, s) ==
            LET gap == IF acc.text = <<>> THEN <<>> ELSE <<Space>>
            IN  IF s.text = <<>> THEN acc
                ELSE [text |-> acc.text \o gap \o s.text,
                      ranges |-> Append(acc.ranges, text_range(gap, acc.text, s))]
    IN  FoldLeft(Add, [text |-> <<>>, ranges |-> <<>>], segments)

(* _apply_time_ranges: from the first start to the last end of the         *)
(* segments a chunk has characters of; none if it has none.                *)
time_range(piece, ranges) ==
    LET touched == {i \in DOMAIN ranges :
                       Min({piece.end, ranges[i].to}) > Max({piece.start, ranges[i].from})}
    IN  IF touched = {} THEN <<>>
        ELSE <<Min({ranges[i].start : i \in touched}), Max({ranges[i].end : i \in touched})>>

-----------------------------------------------------------------------------
(* Embedding *)

(* A vector is identified by the text it was computed from; the empty text *)
(* stands for the zero vector.                                             *)
prepare_text(text, max_text_chars) ==
    LET t == strip(text) IN IF Len(t) > max_text_chars THEN SubSeq(t, 1, max_text_chars) ELSE t

(* _embed_batch_with_fallback: only the texts that are not empty are sent, *)
(* and the vectors put back in their places.                               *)
embed_batch(texts, max_text_chars) ==
    LET prepared == [i \in DOMAIN texts |-> prepare_text(texts[i], max_text_chars)] \o <<>>
        Sent(t) == t # <<>>
        returned == SelectSeq(prepared, Sent)
        Place(i) == Cardinality({j \in 1..i : prepared[j] # <<>>})
    IN  [i \in DOMAIN texts |-> IF prepared[i] = <<>> THEN <<>> ELSE returned[Place(i)]] \o <<>>

(* EmbeddingService.embed                                                  *)
embed(texts, config) ==
    LET Add(all, batch) == all \o embed_batch(batch, config.max_text_chars)
    IN  FoldLeft(Add, <<>>, Batches(texts, config.batch_size))
=============================================================================
