--------------------------- MODULE MCKnowledgeBase --------------------------
(* A PDF indexed twice (the second version shorter, or empty) beside a    *)
(* recording of another user; two searches at a time.                      *)
EXTENDS KnowledgeBase

Doc(resource, user, pages) == [resource |-> resource, user |-> user, pages |-> pages]
MCJob == {1, 2}
FirstPdf == Doc("pdf", "u", <<<<1, 2>>, <<>>, <<3>>>>)
MCDocuments == {<<FirstPdf, Doc("pdf", "u", <<<<4>>>>)>>, <<FirstPdf, Doc("pdf", "u", <<<<>>>>)>>}
MCEarlier == {Record("audio", 0, "v", 5)}
MCText == 1..5
MCScore == <<90, 70, 70, 80, 50>>
MCBm25Score == <<0, 3, 2, 1, 4>>
MCTokens == <<2, 2, 1, 1, 1>>

Query(kind, user, resources, top_k, threshold) ==
    [kind |-> kind, user |-> user, resources |-> resources, top_k |-> top_k,
     rerank_top_n |-> 2, max_docs |-> 9, score_threshold |-> threshold]
MCSearch == {1, 2}
Both == {"pdf", "audio"}
MCRequests ==
    {<<Query("hybrid", "u", {"pdf"}, 1, 0), Query("hybrid", "v", {"audio"}, 1, 0)>>,
     <<Query("hybrid", "u", Both, 2, 75), Query("legacy", "u", {"pdf"}, 3, 0)>>,
     <<Query("llamaindex", "u", Both, 2, 15), Query("legacy", "v", Both, 2, 55)>>}
MCEarlierIndexes == <<[key |-> <<"u", {"pdf"}>>, docs |-> {}]>>
MCOrder == <<"pdf", "audio">>
=============================================================================
