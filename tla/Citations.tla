----------------------------- MODULE Citations -----------------------------
(***************************************************************************)
(* Citations: the footnote markers of an answer become references to the   *)
(* retrieved chunks.  An answer is the sequence of its pieces (module LLM):*)
(* piece n > 0 carries the marker [^n].  A chunk is abstracted to the      *)
(* resource it comes from.                                                 *)
(***************************************************************************)
EXTENDS Naturals, Sequences, FiniteSets

(* The positions of the markers a citation is made of: the first use of    *)
(* each, without those that point at no chunk.                             *)
first_uses(answer, chunks) ==
    {i \in DOMAIN answer :
        /\ answer[i] \in 1..Len(chunks)
        /\ \A j \in 1..(i - 1) : answer[j] # answer[i]}

(* The k-th of some positions.                                             *)
Nth(positions, k) ==
    CHOOSE i \in positions : Cardinality({j \in positions : j <= i}) = k

(* Mutant: the marker the model wrote is forgotten.                        *)
Format_LosesMarker(answer, chunks) ==
    LET uses == first_uses(answer, chunks)
    IN  [k \in 1..Cardinality(uses) |->
            [index |-> k, original |-> k, resource |-> chunks[answer[Nth(uses, k)]]]]

(* CitationFormatter.format: citations are numbered from 1, and original   *)
(* is the marker the model wrote.  Both callers discard the renumbered     *)
(* text: the client has had the markers as the model wrote them.           *)
Format(answer, chunks) ==
    LET uses == first_uses(answer, chunks)
        Marker(k) == answer[Nth(uses, k)]
    IN  [k \in 1..Cardinality(uses) |->
            [index |-> k, original |-> Marker(k), resource |-> chunks[Marker(k)]]]

(* CitationValidator.validate: citations of resources the request did not  *)
(* name are dropped (unless it named none), and the first max are kept (the*)
(* count is tested after adding one).  Numbers are not assigned again.     *)
validate(cites, authorized, max) ==
    LET kept == {i \in DOMAIN cites :
                    authorized = {} \/ cites[i].resource \in authorized}
        limit == IF max < 1 THEN 1 ELSE max
        number == IF Cardinality(kept) > limit THEN limit ELSE Cardinality(kept)
    IN  [k \in 1..number |-> cites[Nth(kept, k)]]

(* CitationService.build_citations, _build_citations of both callers.      *)
build_citations(answer, chunks, authorized, max) ==
    IF chunks = <<>> THEN <<>> ELSE validate(Format(answer, chunks), authorized, max)
=============================================================================
