---------------------------- MODULE MCProcessing ----------------------------
(***************************************************************************)
(* Instances of Processing.  A recording is at most three segments; their  *)
(* times are chosen so that short neighbours merge, long ones split, some  *)
(* overlap or come in the wrong order, and one crosses a full minute.      *)
(***************************************************************************)
EXTENDS Processing

(* One token for most characters, two for "w", as a Chinese one may have.  *)
MCWeight == [c \in {"a", "b", "w", "e", "p", "#", ".", NL, Space} |-> IF c = "w" THEN 2 ELSE 1]

MCSpan == {<<0, 400>>, <<300, 900>>, <<59500, 61500>>, <<1000, 900>>}
MCSpoken == {<<>>, <<"e", "a">>, <<"a", "a", "a", "b">>, <<"b", Space, "w", "a", ".">>}
MCSegment == {Segment(t[1], t[2], text) : t \in MCSpan, text \in MCSpoken}
MCShort == {<<>>, <<Segment(0, 400, <<"e">>)>>,
            <<Segment(0, 1200, <<"a">>), Segment(1200, 1500, <<"b">>)>>,
            <<Segment(0, 400, <<"a">>), Segment(400, 900, <<"b">>),
              Segment(900, 3661001, <<"w", "a", "b">>)>>}
MCSpeech ==
    MCShort \cup {<<s>> : s \in MCSegment} \cup {<<s, t>> : s \in MCSegment, t \in MCSegment}

MCLimits(max_chars, spaced) ==
    [min_duration |-> 500, max_duration |-> 1500, max_chars |-> max_chars, spaced |-> spaced]
MCChunking(strategy, size) == [strategy |-> strategy, chunk_size |-> size, chunk_overlap |-> 1]
MCCleaning(mode, fallback) ==
    [mode |-> mode, batch_size |-> 1, fallback_on_error |-> fallback]

Recording(speech, losses, cleaning, limits, chunking, derived) ==
    [kind |-> "asr", speech |-> speech, losses |-> losses, derived |-> derived, cleaning |-> cleaning, limits |-> limits,
     chunking |-> chunking, embedding |-> [batch_size |-> 2, max_text_chars |-> 3],
     pages |-> <<>>, toc |-> <<>>, ocr_fallback |-> FALSE, ocr |-> FALSE]
Document(pages, toc, ocr_fallback, ocr, chunking, derived) ==
    [Recording({}, 1, MCCleaning("rule", TRUE), MCLimits(4, TRUE), chunking, derived) EXCEPT
        !.kind = "pdf", !.pages = pages, !.toc = toc, !.ocr_fallback = ocr_fallback, !.ocr = ocr]

MCText1 == <<"#", "a", NL, "b", ".", "a", NL, NL, Space, "w", "a", "b">>
MCText2 == <<"a", "b", Space, "w", "w", "a", "#", "b">>
MCChunkings == {MCChunking("paragraph", 4), MCChunking("semantic", 3), MCChunking("fixed_token", 3)}

MCScenario ==
    {Recording(MCSpeech, 0, c, MCLimits(m, m = 4), MCChunking("paragraph", 3), {}) :
        c \in {MCCleaning("rule", TRUE), MCCleaning("llm", TRUE)}, m \in {3, 4}}
    \cup {Recording(MCSpeech, 0, MCCleaning("rule", TRUE), MCLimits(4, TRUE), k, {}) :
              k \in MCChunkings}
    \cup {Recording(MCShort, 1, MCCleaning("llm", FALSE), MCLimits(4, TRUE),
                    MCChunking("semantic", 3), d) : d \in {{}, {"manual"}}}
    \cup {Document(<<MCText1, <<>>, MCText2>>, <<1, 3>>, TRUE, TRUE, k, {}) : k \in MCChunkings}
    \cup {Document(<<<<"a">>, <<Space>>>>, <<1>>, f, o, MCChunking("paragraph", 4), {}) :
             f \in BOOLEAN, o \in BOOLEAN}
    \cup {Document(<<MCText2, MCText1, <<"a">>>>, toc, TRUE, FALSE, MCChunking("paragraph", 4),
                   {"auto"}) : toc \in {<<>>, <<1, 2, 2>>, <<2, 3>>, <<3, 1>>}}
    \cup {Document(<<MCText2>>, <<1>>, FALSE, FALSE, MCChunking("paragraph", 4), d) :
             d \in {{"auto", "manual"}, {"tags"}}}

MCOcrText == {<<"a", "b", NL, "w">>}
MCTags == {<<"AI", "", "ai", "artificial intelligence", "b", "B">>, <<"a", "b", "c">>}
MCEntities == {<<[entity |-> "AI", type |-> "ORG", mention |-> "ai"],
                 [entity |-> "ai", type |-> "ORG", mention |-> "AI"],
                 [entity |-> "x", type |-> "THING", mention |-> "x"]>>}
=============================================================================
