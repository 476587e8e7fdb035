------------------------------ MODULE Chunking ------------------------------
(***************************************************************************)
(* Chunking: how a text is cut into the chunks that are embedded, by one   *)
(* of three strategies.  A text is a sequence of characters; a piece is a  *)
(* part of it with its position, counted from 0, the end excluded.         *)
(***************************************************************************)
EXTENDS Arrangement, SequencesExt

CONSTANTS
    Weight   \* the tokens of a character, for the token estimator

NL == "n"       \* newline
Space == " "
Blank == {NL, Space}

(* TokenEstimator.count.  The encoding is taken to be additive, as the     *)
(* fallback estimator's is.                                                *)
count(text) ==
    LET Plus(n, c) == n + Weight[c] IN FoldLeft(Plus, 0, text)

IsBlank(text) == ToSet(text) \subseteq Blank

(* str.strip *)
strip(text) ==
    LET ink == {i \in DOMAIN text : text[i] \notin Blank}
    IN  IF ink = {} THEN <<>> ELSE SubSeq(text, Min(ink), Max(ink))

Piece(text, start) == [text |-> text, start |-> start, end |-> start + Len(text)]

size_exceeded(text, size) == Len(text) > size \/ count(text) > size

(* The last resort: as many characters as the size counts tokens.          *)
split_chars(text, start, size) ==
    [i \in 1..((Len(text) + size - 1) \div size) |->
        Piece(SubSeq(text, (i - 1) * size + 1, Min({i * size, Len(text)})),
              start + (i - 1) * size)]

(* Neighbours become one piece as long as it is not too large.             *)
merge_pieces(pieces, size) ==
    LET Add(merged, p) ==
            IF merged = <<>> \/ size_exceeded(Last(merged).text \o p.text, size)
              THEN Append(merged, p)
              ELSE Append(Front(merged), [text |-> Last(merged).text \o p.text,
                                          start |-> Last(merged).start, end |-> p.end])
    IN  FoldLeft(Add, <<>>, pieces)

(* text.split(sep), every part but the first with its separator in front,  *)
(* and no empty piece.                                                     *)
cut_before(text, start, sep) ==
    LET Add(pieces, i) ==
            IF pieces = <<>> \/ text[i] = sep
              THEN Append(pieces, Piece(<<text[i]>>, start + i - 1))
              ELSE Append(Front(pieces), Piece(Append(Last(pieces).text, text[i]),
                                               Last(pieces).start))
    IN  FoldLeft(Add, <<>>, [i \in 1..Len(text) |-> i])

(* From the coarsest separator to the finest, then by characters ("" as a  *)
(* separator means the same as having none left).                          *)
split_text(text, start, separators, size, merge_across) ==
    LET Parts[used \in 0..Len(separators), t \in Seq(DOMAIN Weight), from \in Nat] ==
            LET pieces == cut_before(t, from, separators[used + 1])
                Add(all, p) == all \o Parts[used + 1, p.text, p.start]
                parts == FoldLeft(Add, <<>>, pieces)
            IN  IF t = <<>> THEN <<>>
                ELSE IF ~size_exceeded(t, size) THEN <<Piece(t, from)>>
                ELSE IF used = Len(separators) THEN split_chars(t, from, size)
                ELSE IF used > 0 \/ merge_across THEN merge_pieces(parts, size) ELSE parts
    IN  Parts[0, text, start]

-----------------------------------------------------------------------------
(* The strategies *)

(* SemanticChunker.split: headings stay apart.                             *)
semantic_split(text, size) ==
    split_text(text, 0, <<"#", NL, ".", Space>>, size, FALSE)

(* ParagraphChunker.split.  A break reaches from the first to the last     *)
(* newline of a stretch of white space with at least two of them; blank    *)
(* paragraphs are dropped.                                                 *)
InBreak(text, i) ==
    \E j \in 1..i, k \in i..Len(text) :
        /\ j < k /\ text[j] = NL /\ text[k] = NL
        /\ \A m \in j..k : text[m] \in Blank

paragraphs(text) ==
    LET Add(pieces, i) ==
            IF InBreak(text, i) THEN pieces
            ELSE IF pieces # <<>> /\ Last(pieces).end = i - 1
              THEN Append(Front(pieces), Piece(Append(Last(pieces).text, text[i]),
                                               Last(pieces).start))
              ELSE Append(pieces, Piece(<<text[i]>>, i - 1))
        Inked(p) == ~IsBlank(p.text)
    IN  SelectSeq(FoldLeft(Add, <<>>, [i \in 1..Len(text) |-> i]), Inked)

paragraph_split(text, size) ==
    LET Add(all, p) == all \o split_text(p.text, p.start, <<NL, ".", Space>>, size, TRUE)
    IN  FoldLeft(Add, <<>>, paragraphs(text))

(* FixedTokenChunker.split: windows of at most size tokens, each beginning *)
(* within the last one, by at most the overlap, and at least one character *)
(* further on.                                                             *)
find_max_end(text, start, size) ==
    Max({e \in start..Len(text) : count(SubSeq(text, start + 1, e)) <= size})

find_overlap_chars(text, start, end, overlap) ==
    Max({m \in 0..(end - start) : count(SubSeq(text, end - m + 1, end)) <= overlap})

windows(text, size, overlap) ==
    LET From[start \in 0..Len(text)] ==
            LET end == find_max_end(text, start, size)
                back == end - find_overlap_chars(text, start, end, overlap)
                next == IF back <= start THEN start + 1 ELSE back
                window == Piece(SubSeq(text, start + 1, end), start)
            IN  IF start = Len(text) THEN <<>>
                ELSE IF end = Len(text) THEN <<window>>
                ELSE <<window>> \o From[next]
    IN  From[0]

fixed_token_split(text, size, overlap) ==
    windows(text, size, Min({overlap, size - 1}))

(* ChunkingService.chunk *)
chunk(text, config) ==
    CASE config.strategy = "paragraph" -> paragraph_split(text, config.chunk_size)
      [] config.strategy = "semantic" -> semantic_split(text, config.chunk_size)
      [] config.strategy = "fixed_token" ->
            fixed_token_split(text, config.chunk_size, config.chunk_overlap)
=============================================================================
