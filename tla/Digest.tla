------------------------------- MODULE Digest -------------------------------
(***************************************************************************)
(* What is derived from a parsed resource: the parts of it a summary is    *)
(* made from, and its tags and entities.  A page is its text, a table of   *)
(* contents the sequence of the pages its entries begin on.                *)
(***************************************************************************)
EXTENDS Transcript

(* separator.join(texts)                                                   *)
Joined(texts, separator) ==
    LET Add(all, i) == all \o (IF i = 1 THEN <<>> ELSE <<separator>>) \o texts[i]
    IN  FoldLeft(Add, <<>>, [i \in 1..Len(texts) |-> i])

-----------------------------------------------------------------------------
(* Pages *)

(* is_scanned_page, _is_fully_scanned (all of no pages are not scanned).   *)
is_scanned_page(text, threshold) == Len(strip(text)) < threshold
is_fully_scanned(pages, threshold) ==
    pages # <<>> /\ \A i \in DOMAIN pages : is_scanned_page(pages[i], threshold)

-----------------------------------------------------------------------------
(* Summaries *)

(* MapReduceSummarizer._split_chunks: windows of limit tokens that begin   *)
(* step tokens apart (a token is a character here), up to the first that   *)
(* reaches the end.  One window means no map-reduce.                       *)
split_chunks(text, limit, overlap) ==
    LET step == Max({1, limit - overlap})
        n == IF limit = 0 \/ Len(text) <= limit THEN 0
             ELSE (Len(text) - limit + step - 1) \div step
        size == IF limit = 0 THEN Len(text) ELSE limit
    IN  [i \in 1..(n + 1) |->
            Piece(SubSeq(text, (i - 1) * step + 1, Min({(i - 1) * step + size, Len(text)})),
                  (i - 1) * step)]

(* SectionSplitter.split_pdf: from the page of an entry to the one before  *)
(* the next entry's.                                                       *)
split_pdf(toc, pages) ==
    LET n == Len(pages)
        Next(i) == IF i < Len(toc) THEN toc[i + 1] ELSE n + 1
        End(i) == Max({toc[i], Min({Next(i) - 1, n})})
    IN  IF pages = <<>> THEN <<>>
        ELSE [i \in DOMAIN toc |->
                 [range |-> <<toc[i], End(i)>>,
                  content |-> Joined(SubSeq(pages, toc[i], Min({End(i), n})), NL)]]

(* Mutant: the last bucket is forgotten.                                   *)
buckets_DropsLast(acc) == acc.buckets

(* All buckets, the last one as well if there is something in it.          *)
buckets(acc) == IF acc.bucket = <<>> THEN acc.buckets ELSE Append(acc.buckets, acc.bucket)

(* SectionSplitter.split_audio: a section ends with the first segment that *)
(* ends so long after it began.                                            *)
split_audio(segments, length) ==
    LET Add(acc, s) ==
            LET bucket == Append(acc.bucket, s)
            IN  IF s.end >= acc.start + length
                  THEN [buckets |-> Append(acc.buckets, bucket), bucket |-> <<>>, start |-> s.end]
                  ELSE [acc EXCEPT !.bucket = bucket]
        all == buckets(FoldLeft(Add, [buckets |-> <<>>, bucket |-> <<>>,
                                      start |-> segments[1].start], segments))
    IN  IF segments = <<>> THEN <<>>
        ELSE [i \in DOMAIN all |->
                 [range |-> <<all[i][1].start, Last(all[i]).end>>,
                  content |-> Joined([k \in DOMAIN all[i] |-> all[i][k].text], NL)]]

(* SummaryService._full_text: the content, else the pages, else the        *)
(* segments.                                                               *)
full_text(doc, spaced) ==
    LET texts == [i \in DOMAIN doc.segments |-> doc.segments[i].text]
        content == IF spaced THEN Joined(texts, Space) ELSE FlattenSeq(texts)
    IN  IF content # <<>> THEN content
        ELSE IF doc.pages # <<>> THEN Joined(doc.pages, NL) ELSE Joined(texts, NL)

(* _split_sections, without the blank ones, which _summarize_sections      *)
(* leaves out.                                                             *)
sections(doc, length) ==
    LET all == IF doc.pages # <<>> THEN split_pdf(doc.toc, doc.pages)
               ELSE split_audio(doc.segments, length)
        Inked(s) == ~IsBlank(s.content)
    IN  SelectSeq(all, Inked)

-----------------------------------------------------------------------------
(* Tags and entities *)

(* A small vocabulary: tags written in two ways, and a synonym.            *)
lower(tag) == CASE tag = "AI" -> "ai" [] tag = "B" -> "b" [] OTHER -> tag
synonym(tag) == IF lower(tag) \in {"ai", "artificial intelligence"} THEN "rengong" ELSE tag

(* TagNormalizer.normalize: blank tags are dropped, synonyms merged,       *)
(* repetitions told without case, and the first max_count kept.            *)
normalize(tags, max_count) ==
    LET Same(a, b) == lower(synonym(a)) = lower(synonym(b))
        first == {i \in DOMAIN tags :
                     tags[i] # "" /\ \A k \in 1..(i - 1) : ~Same(tags[k], tags[i])}
        kept == Truncated(Picked(tags, first), max_count)
    IN  [i \in DOMAIN kept |-> synonym(kept[i])]

(* EntityResolver.resolve: known types only, the same entity, type and     *)
(* mention once.                                                           *)
EntityType == {"PERSON", "ORG", "DATE", "LOC", "GPE", "MISC"}
resolve(entities) ==
    LET Sound(e) == e.entity # "" /\ e.mention # "" /\ e.type \in EntityType
        Same(a, b) == /\ lower(a.entity) = lower(b.entity) /\ lower(a.mention) = lower(b.mention)
                      /\ a.type = b.type
    IN  Picked(entities, {i \in DOMAIN entities :
            /\ Sound(entities[i])
            /\ \A k \in 1..(i - 1) : ~Same(entities[k], entities[i])})
=============================================================================
