----------------------------- MODULE Processing -----------------------------
(***************************************************************************)
(* The bodies of the Celery tasks that process one resource: run_asr or    *)
(* run_pdf_parse, then the indexing of its result, summaries and tags.     *)
(* When the parse task is done, the gateway asks for a summary and for the *)
(* tags by itself, and the user may ask for another summary at any time;   *)
(* these jobs run in processes of their own and write to the same keys of  *)
(* the object store and to the same rows.                                  *)
(*                                                                         *)
(* What the gateway does with the reports of the parse task is the subject *)
(* of modules CeleryWorker and TaskPipeline; the task ids of summaries and *)
(* tags are unknown to it, and their reports change nothing.               *)
(***************************************************************************)
EXTENDS Digest

CONSTANTS
    Scenario,    \* the resources and configurations to look at; bounds in them:
                 \* speech, what the engine may recognise, and losses, how many
                 \* processes are lost
    OcrText,     \* bound: what OCR may find on a page
    Tags,        \* bound: the tags a model, or the rules, may find
    Entities,    \* bound: the entities found with them
    ocr_threshold, max_count, chunk_token_limit, overlap_tokens, section_length

ASSUME ProcessingAssumption ==
    /\ \A w \in Scenario :
          /\ w.kind \in {"asr", "pdf"} /\ w.losses \in Nat
          /\ w.derived \subseteq {"auto", "manual", "tags"}
          /\ w.speech \subseteq Seq([start : Nat, end : Nat, text : Seq(DOMAIN Weight)])
          /\ w.cleaning.mode \in {"rule", "llm"} /\ w.cleaning.batch_size \in Nat \ {0}
          /\ w.cleaning.fallback_on_error \in BOOLEAN
    /\ Tags \subseteq Seq(STRING)
    /\ ocr_threshold \in Nat /\ max_count \in Nat \ {0} /\ section_length \in Nat
    /\ chunk_token_limit \in Nat /\ overlap_tokens \in Nat

Job == {"parse", "auto", "manual", "tags"}
Summaries == {"auto", "manual"}
None == [none |-> TRUE]
Object(content) == [content |-> content]

VARIABLES
    world,     \* the resource and the configuration
    jpc,       \* where each job is
    doc,       \* the parsed resource: segments as recognised and cleaned, pages, toc
    draft,     \* the summary, or the tags, a job has made
    objects,   \* the object store: key -> content
    rows,      \* the gateway's summaries and tags: what they were saved from
    records,   \* the records the indexing of the result makes
    faults,
    overlap    \* history: have two summary jobs run at the same time?

vars == <<world, jpc, doc, draft, objects, rows, records, faults, overlap>>

Active == {"download", "transcribe", "clean", "store", "subtitle",
           "extract", "ocr", "digest", "save", "post"}
Over == {"done", "failed"}
Key == {"transcript", "subtitle", "parsed", "summary", "tags"}
KeyOf(j) == IF j = "tags" THEN "tags" ELSE "summary"

EmptyDoc == [recognised |-> <<>>, segments |-> <<>>, subtitles |-> <<>>, pages |-> <<>>,
             toc |-> <<>>]

Init ==
    /\ world \in Scenario
    /\ jpc = [j \in Job |-> IF j = "parse" THEN "queued" ELSE "waiting"]
    /\ doc = EmptyDoc
    /\ draft = [j \in Job |-> None]
    /\ objects = [k \in Key |-> None]
    /\ rows = [k \in {"summary", "tags"} |-> None]
    /\ records = <<>>
    /\ faults = 0
    /\ overlap = FALSE

Goto(j, label) == jpc' = [jpc EXCEPT ![j] = label]

(* Mutant: the task is tried again for ever.                               *)
Raise_Requeued(j) == Goto(j, "queued")

(* An exception leaves the body.  run_asr would retry a model that does    *)
(* not load, but that is wrapped in another error before; the others       *)
(* compare self.request.retries with self.request.max_retries, which is an *)
(* attribute of the task and not of Celery's request: that raises in turn. *)
(* No job is tried a second time.                                          *)
Raise(j) == Goto(j, "failed")

Start(j) ==
    /\ jpc[j] = "queued"
    /\ Goto(j, IF j = "parse" THEN "download" ELSE "digest")
    /\ overlap' = (overlap \/ (j \in Summaries /\ \E k \in Summaries \ {j} : jpc[k] \in Active))
    /\ UNCHANGED <<world, doc, draft, objects, rows, records, faults>>

(* A step of the body that only passes on, or raises.                      *)
Passes(j, goal) ==
    /\ Goto(j, goal) \/ Raise(j)
    /\ UNCHANGED <<world, doc, draft, objects, rows, records, faults, overlap>>

(* download_audio, then convert_to_wav.                                    *)
DownloadAudio ==
    /\ jpc["parse"] = "download" /\ world.kind = "asr"
    /\ Passes("parse", "transcribe")

(* download_file, then the size limit.                                     *)
DownloadPdf ==
    /\ jpc["parse"] = "download" /\ world.kind = "pdf"
    /\ Passes("parse", "extract")

(* upload_json: a failed upload may have happened.                         *)
Upload(j, key, content, goal) ==
    LET Effect == objects' = [objects EXCEPT ![key] = Object(content)]
    IN  \/ Effect /\ Goto(j, goal)
        \/ (Effect \/ UNCHANGED objects) /\ Raise(j)

-----------------------------------------------------------------------------
(* AsrService.process *)

Transcribe ==
    /\ jpc["parse"] = "transcribe"
    /\ \/ \E s \in world.speech : doc' = [EmptyDoc EXCEPT !.recognised = s] /\ Goto("parse", "clean")
       \/ Raise("parse") /\ UNCHANGED doc
    /\ UNCHANGED <<world, draft, objects, rows, records, faults, overlap>>

Clean ==
    /\ jpc["parse"] = "clean"
    /\ \E replies \in [1..Len(Batches(doc.recognised, world.cleaning.batch_size)) ->
                          IF world.cleaning.mode = "llm" THEN Reply ELSE {"texts"}] :
          LET cleaned == clean(doc.recognised, world.cleaning, replies)
          IN  /\ doc' = [doc EXCEPT !.segments = cleaned.segments]
              /\ IF cleaned.raised THEN Raise("parse") ELSE Goto("parse", "store")
    /\ UNCHANGED <<world, draft, objects, rows, records, faults, overlap>>

StoreTranscript ==
    /\ jpc["parse"] = "store" /\ world.kind = "asr"
    /\ Upload("parse", "transcript", doc.segments, "subtitle")
    /\ UNCHANGED <<world, doc, draft, rows, records, faults, overlap>>

(* SrtGenerator.save_to_minio                                              *)
save_to_minio(blocks) == Upload("parse", "subtitle", blocks, "done")

(* _generate_subtitle: nothing was recognised, nothing can be shown.       *)
Subtitle ==
    LET blocks == generate_srt(doc.segments, world.limits)
    IN  /\ jpc["parse"] = "subtitle"
        /\ doc' = [doc EXCEPT !.subtitles = blocks]
        /\ IF blocks = <<>> THEN Raise("parse") /\ UNCHANGED objects
                            ELSE save_to_minio(blocks)
        /\ UNCHANGED <<world, draft, rows, records, faults, overlap>>

-----------------------------------------------------------------------------
(* PdfParserService.parse *)

(* PyMuPDFExtractor.extract: the text of every page and the outline.       *)
extracted == [EmptyDoc EXCEPT !.pages = world.pages, !.toc = world.toc]

(* _extract_and_report, _apply_ocr_fallback: a document that can be read   *)
(* has its pages; if all of them look scanned they are read again by OCR.  *)
Extract ==
    LET scanned == is_fully_scanned(extracted.pages, ocr_threshold)
    IN  /\ jpc["parse"] = "extract"
        /\ \/ /\ ~scanned \/ ~world.ocr_fallback
              /\ doc' = extracted
              /\ Goto("parse", "store")
           \/ /\ scanned /\ world.ocr_fallback /\ world.ocr
              /\ doc' = EmptyDoc /\ Goto("parse", "ocr")
           \/ Raise("parse") /\ UNCHANGED doc
        /\ UNCHANGED <<world, draft, objects, rows, records, faults, overlap>>

(* PaddleOCREngine.recognize: some text or none.                           *)
recognize == OcrText \cup {<<>>}

(* OcrService.process_pdf, one page: a page that cannot be recognised is an *)
(* empty page.                                                             *)
OcrPage ==
    /\ jpc["parse"] = "ocr" /\ Len(doc.pages) < Len(world.pages)
    /\ \E text \in recognize : doc' = [doc EXCEPT !.pages = Append(@, text)]
    /\ Goto("parse", "ocr")
    /\ UNCHANGED <<world, draft, objects, rows, records, faults, overlap>>

(* PdfRenderer.render_pages raises: unlike a page of the engine that ends  *)
(* the document.                                                           *)
RenderFails ==
    /\ jpc["parse"] = "ocr" /\ Len(doc.pages) < Len(world.pages)
    /\ Raise("parse")
    /\ UNCHANGED <<world, doc, draft, objects, rows, records, faults, overlap>>

OcrEnds ==
    /\ jpc["parse"] = "ocr" /\ Len(doc.pages) = Len(world.pages)
    /\ IF \A i \in DOMAIN doc.pages : IsBlank(doc.pages[i])
         THEN Raise("parse") ELSE Goto("parse", "store")
    /\ UNCHANGED <<world, doc, draft, objects, rows, records, faults, overlap>>

StoreParsed ==
    /\ jpc["parse"] = "store" /\ world.kind = "pdf"
    /\ Upload("parse", "parsed", doc.pages, "done")
    /\ UNCHANGED <<world, doc, draft, rows, records, faults, overlap>>

-----------------------------------------------------------------------------
(* VectorIndexService.index_asr and index_pdf: the records of the result.  *)
Record(piece, page, times, vector) ==
    [text |-> piece.text, start_pos |-> piece.start, page |-> page, times |-> times,
     vector |-> vector]

asr_records ==
    LET joined == build_asr_text_ranges(doc.segments)
        pieces == chunk(joined.text, world.chunking)
        vectors == embed([i \in DOMAIN pieces |-> pieces[i].text], world.embedding)
    IN  IF IsBlank(joined.text) THEN <<>>
        ELSE [i \in DOMAIN pieces |->
                 Record(pieces[i], 0, time_range(pieces[i], joined.ranges), vectors[i])]

pdf_records ==
    LET Add(all, p) == IF IsBlank(doc.pages[p]) THEN all
                       ELSE LET pieces == chunk(doc.pages[p], world.chunking)
                            IN  all \o [i \in DOMAIN pieces |-> <<pieces[i], p>>]
        paged == FoldLeft(Add, <<>>, [p \in 1..Len(doc.pages) |-> p])
        vectors == embed([i \in DOMAIN paged |-> paged[i][1].text], world.embedding)
    IN  [i \in DOMAIN paged |-> Record(paged[i][1], paged[i][2], <<>>, vectors[i])]

(* index_resource_vectors.delay may fail: then nothing is indexed.         *)
Index ==
    /\ jpc["parse"] = "done" /\ records = <<>>
    /\ records' = IF world.kind = "asr" THEN asr_records ELSE pdf_records
    /\ UNCHANGED <<world, jpc, doc, draft, objects, rows, faults, overlap>>

-----------------------------------------------------------------------------
(* Summaries and tags *)

(* dispatchAutoSummary, dispatchAutoExtraction, Trigger.                   *)
Dispatch(j) ==
    /\ j \in world.derived /\ jpc[j] = "waiting" /\ jpc["parse"] = "done"
    /\ Goto(j, "queued")
    /\ UNCHANGED <<world, doc, draft, objects, rows, records, faults, overlap>>

(* SummaryService.generate.  A blank summary of the whole is replaced by   *)
(* the beginning of the text.  by and try (the processes lost before) tell *)
(* the versions apart.                                                     *)
Summarize(j) ==
    LET text == full_text(doc, world.limits.spaced)
    IN  /\ jpc[j] = "digest" /\ j \in Summaries
        /\ \E blank \in BOOLEAN :
              draft' = [draft EXCEPT ![j] =
                 [by |-> j, try |-> faults, fallback |-> blank,
                  read |-> split_chunks(text, chunk_token_limit, overlap_tokens),
                  full |-> ~blank \/ text # <<>>,
                  sections |-> sections(doc, section_length)]]
        /\ Goto(j, "save")
        /\ UNCHANGED <<world, doc, objects, rows, records, faults, overlap>>

(* SummaryLLMProvider: every part is one call of the model or more, tried  *)
(* three times; any that fails, or is not the JSON asked for, ends the job.*)
SummaryFails(j) ==
    /\ jpc[j] = "digest" /\ j \in Summaries
    /\ Raise(j)
    /\ UNCHANGED <<world, doc, draft, objects, rows, records, faults, overlap>>

(* ExtractionService.extract: what was found, normalised.                  *)
Extracted(tags, entities, source) ==
    [by |-> "tags", try |-> faults, tags |-> normalize(tags, max_count),
     entities |-> resolve(entities), source |-> source, fallback |-> source = "rule"]

(* LLMExtractionProvider.extract keeps tags that are not blank and entities*)
(* of a known type only; an entity without a mention is its own.           *)
ModelFinds ==
    LET named(tags) == Picked(tags, {i \in DOMAIN tags : tags[i] # ""})
        Known(e) == e.entity # "" /\ e.type \in EntityType
        Mentioned(es) == [i \in DOMAIN es |->
            IF es[i].mention = "" THEN [es[i] EXCEPT !.mention = es[i].entity] ELSE es[i]]
        known(es) == Picked(es, {i \in DOMAIN es : Known(es[i])})
    IN  \E tags \in Tags, entities \in Entities :
           draft' = [draft EXCEPT !["tags"] =
                        Extracted(named(tags), Mentioned(known(entities)), "llm")]

(* RuleExtractionProvider.extract, when the model fails: dates, bodies and *)
(* places, each its own mention.                                           *)
RulesFind ==
    LET Matched(e) == e.entity # "" /\ e.type \in {"DATE", "ORG", "GPE"}
        matched(es) == Picked(es, {i \in DOMAIN es : Matched(es[i])})
        Own(es) == [i \in DOMAIN es |-> [es[i] EXCEPT !.mention = es[i].entity]]
    IN  \E tags \in Tags, entities \in Entities :
           draft' = [draft EXCEPT !["tags"] =
               Extracted(tags, Own(matched(entities)), "rule")]

(* Blank text has neither tags nor entities.                               *)
ExtractTags ==
    /\ jpc["tags"] = "digest"
    /\ IF IsBlank(full_text(doc, world.limits.spaced))
         THEN draft' = [draft EXCEPT !["tags"] = Extracted(<<>>, <<>>, "rule")]
         ELSE ModelFinds \/ RulesFind
    /\ Goto("tags", "save")
    /\ UNCHANGED <<world, doc, objects, rows, records, faults, overlap>>

(* SummaryRepository.save and ExtractionRepository.save: the object ...    *)
Save(j) ==
    /\ jpc[j] = "save"
    /\ Upload(j, KeyOf(j), draft[j], "post")
    /\ UNCHANGED <<world, doc, draft, rows, records, faults, overlap>>

(* The gateway's SaveInternal refuses a summary with nothing in it.        *)
Accepted(d) == d.by \in Summaries => d.full \/ d.sections # <<>>

(* Mutant: the answer of the gateway is not looked at.                     *)
Post_Blind(j) ==
    /\ jpc[j] = "post"
    /\ \/ rows' = [rows EXCEPT ![KeyOf(j)] = draft[j]]
       \/ UNCHANGED rows
    /\ Goto(j, "done")
    /\ UNCHANGED <<world, doc, draft, objects, records, faults, overlap>>

(* SaveInternal of the tags is two transactions: the tags may be replaced  *)
(* and the entities not.                                                   *)
TagsOnly(d) ==
    [d EXCEPT !.entities = IF rows["tags"] = None THEN <<>> ELSE rows["tags"].entities]

(* What the gateway may have done when it does not answer.                 *)
Posted(j) ==
    /\ Accepted(draft[j])
    /\ \/ rows' = [rows EXCEPT ![KeyOf(j)] = draft[j]]
       \/ j = "tags" /\ rows' = [rows EXCEPT !["tags"] = TagsOnly(draft["tags"])]

(* ... then the row; an error of the gateway, or no answer in time, when   *)
(* the row may have been written, is raised.                               *)
Post(j) ==
    LET Effect == rows' = [rows EXCEPT ![KeyOf(j)] = draft[j]]
    IN  /\ jpc[j] = "post"
        /\ \/ Accepted(draft[j]) /\ Effect /\ Goto(j, "done")
           \/ (Posted(j) \/ UNCHANGED rows) /\ Raise(j)
        /\ UNCHANGED <<world, doc, draft, objects, records, faults, overlap>>

(* task_acks_late, task_reject_on_worker_lost: a process that is lost, be  *)
(* it after its post was served, leaves its job to another.                *)
WorkerLost(j) ==
    /\ jpc[j] \in Active /\ faults < world.losses
    /\ faults' = faults + 1
    /\ Goto(j, "queued")
    /\ (jpc[j] = "post" /\ Posted(j)) \/ UNCHANGED rows
    /\ UNCHANGED <<world, doc, draft, objects, records, overlap>>

-----------------------------------------------------------------------------
ParseStep ==
    \/ Start("parse") \/ DownloadAudio \/ DownloadPdf \/ Transcribe \/ Clean \/ StoreTranscript \/ Subtitle
    \/ Extract \/ OcrPage \/ RenderFails \/ OcrEnds \/ StoreParsed
DigestStep(j) ==
    \/ Start(j) \/ Summarize(j) \/ SummaryFails(j) \/ (j = "tags" /\ ExtractTags) \/ Save(j) \/ Post(j)

(* Nothing is left to do.  Any other state without a step is a job that is *)
(* stuck, which TLC reports as a deadlock.                                 *)
Idle == /\ \A j \in Job : jpc[j] \in Over \cup {"waiting"}
        /\ UNCHANGED vars

Next ==
    \/ ParseStep \/ Index \/ Idle
    \/ \E j \in Job \ {"parse"} : DigestStep(j) \/ Dispatch(j)
    \/ \E j \in Job : WorkerLost(j)

Spec == Init /\ [][Next]_vars

(* Workers go on with a job they have: every outside call is answered or   *)
(* times out, and a document has finitely many pages, so that a job gets   *)
(* to its next label.  That it always has a step to do so is what the      *)
(* check for deadlocks shows.  Nothing is assumed of the dispatch.         *)
Advances(j) ==
    /\ jpc[j] \in Active \cup {"queued"}
    /\ \E label \in Active \cup Over \cup {"queued"} : jpc' = [jpc EXCEPT ![j] = label]
FairSpec == Spec /\ \A j \in Job : WF_jpc(Advances(j))

-----------------------------------------------------------------------------
(* Properties *)

(* Everything that was said, or is on a page, is prepared for the index:   *)
(* every character that is not blank is in a record, and the record leads  *)
(* back to it: its times enclose the segment, or its page is the page, and *)
(* its vector is that of its own text.                                     *)
Holds(r, pos, character) ==
    pos - r.start_pos \in DOMAIN r.text /\ r.text[pos - r.start_pos] = character
Offset(i) ==
    LET Add(n, k) == IF doc.segments[k].text = <<>> THEN n ELSE n + Len(doc.segments[k].text) + 1
    IN  FoldLeft(Add, 0, [k \in 1..(i - 1) |-> k])
ContentSearchable ==
    records # <<>> =>
      /\ \A i \in DOMAIN doc.segments :
            LET s == doc.segments[i] IN
            \A c \in DOMAIN s.text : s.text[c] \in Blank \/
               \E r \in ToSet(records) : /\ Holds(r, Offset(i) + c, s.text[c])
                                         /\ r.times # <<>>
                                         /\ r.times[1] <= s.start /\ s.end <= r.times[2]
      /\ \A p \in DOMAIN doc.pages : \A c \in DOMAIN doc.pages[p] :
            doc.pages[p][c] \in Blank
            \/ \E r \in ToSet(records) : r.page = p /\ Holds(r, c, doc.pages[p][c])
      /\ \A r \in ToSet(records) :
            r.vector = prepare_text(r.text, world.embedding.max_text_chars)

(* The subtitles show the cleaned transcript, all of it and in the order   *)
(* of time: no block ends before it begins or, if no two segments overlap, *)
(* begins before the end of the one before it, and the timecodes stand for *)
(* the times of the segments.                                              *)
Millis(code) == ((code[1] * 60 + code[2]) * 60 + code[3]) * 1000 + code[4]
Ink(texts) == LET Inked(c) == c \notin Blank IN SelectSeq(FlattenSeq(texts), Inked)
SubtitlesFaithful ==
    LET b == doc.subtitles
        s == normalized(doc.segments)
    IN  b # <<>> =>
          /\ Ink([i \in DOMAIN b |-> b[i].text]) = Ink([i \in DOMAIN s |-> s[i].text])
          /\ \A i \in DOMAIN b :
                /\ Millis(b[i].from) <= Millis(b[i].to)
                /\ Len(b[i].text) <= world.limits.max_chars
                /\ i > 1 /\ (\A k \in 2..Len(s) : s[k - 1].end <= s[k].start)
                     => Millis(b[i - 1].to) <= Millis(b[i].from)
          /\ Millis(b[1].from) = s[1].start /\ Millis(Last(b).to) = Last(s).end

(* A cleaned transcript is cleaned throughout or not at all, keeps every   *)
(* segment with its times, and loses none of its text: a batch the model   *)
(* fails on does not leave a mixture.                                      *)
CleanedThroughout ==
    LET raw == doc.recognised
        new == doc.segments
    IN  jpc["parse"] \in {"store", "subtitle", "done"} /\ raw # <<>> =>
          /\ Len(new) = Len(raw)
          /\ \A i \in DOMAIN raw : new[i].start = raw[i].start /\ new[i].end = raw[i].end
          /\ \/ new = raw
             \/ \A i \in DOMAIN raw :
                   /\ ~IsBlank(new[i].text)
                   /\ IF world.cleaning.mode = "llm"
                        THEN ToSet(new[i].text) = {Polish}
                        ELSE Filler \notin ToSet(new[i].text)

(* Nothing of the resource is kept from the model: the windows of the      *)
(* map-reduce cover the text, the sections of a recording all of it, those *)
(* of a PDF every page from the first entry of an ordered table of         *)
(* contents on.                                                            *)
SummaryReadsAll ==
    \A j \in Summaries : draft[j] # None =>
        LET d == draft[j]
            text == full_text(doc, world.limits.spaced)
        IN  /\ \A i \in DOMAIN text :
                  \E w \in ToSet(d.read) : w.start < i /\ i <= w.end
                                           /\ w.text[i - w.start] = text[i]
            /\ doc.pages = <<>> =>
                  Ink([i \in DOMAIN d.sections |-> d.sections[i].content]) = Ink(<<text>>)
            /\ doc.toc # <<>> /\ (\A i \in 2..Len(doc.toc) : doc.toc[i - 1] <= doc.toc[i]) =>
                  \A p \in doc.toc[1]..Len(doc.pages) : IsBlank(doc.pages[p]) \/
                     \E s \in ToSet(d.sections) : s.range[1] <= p /\ p <= s.range[2]

(* A finished job has left its result in both places: once the jobs for a  *)
(* row are over, and one of them is done, the row and the object are the   *)
(* same, whatever was delivered again on the way, half written or not      *)
(* (unless one failed, or two ran at the same time).  The parse task has   *)
(* its transcript and subtitles, or its pages, in the object store, and a  *)
(* row of tags names nothing twice, whoever found them.                    *)
JobsOf(k) == {j \in world.derived : KeyOf(j) = k}
DoneIsSaved ==
    /\ \A k \in {"summary", "tags"} :
          /\ \E j \in JobsOf(k) : jpc[j] = "done"
          /\ \A j \in JobsOf(k) : jpc[j] \in {"done", "waiting"}
          /\ ~overlap
          => rows[k] # None /\ objects[k] = Object(rows[k])
    /\ jpc["parse"] = "done" =>
          IF world.kind = "pdf" THEN objects["parsed"] = Object(doc.pages)
          ELSE /\ objects["transcript"] = Object(doc.segments)
               /\ objects["subtitle"] = Object(doc.subtitles)
    /\ rows["tags"] # None =>
          LET tags == rows["tags"].tags
          IN  \A i, k \in DOMAIN tags : i # k => lower(synonym(tags[i])) # lower(synonym(tags[k]))

(* Every job that is queued ends, done or failed.                          *)
JobsEnd == \A j \in Job : jpc[j] = "queued" ~> jpc[j] \in Over
=============================================================================
