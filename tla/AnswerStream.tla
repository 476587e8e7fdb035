---------------------------- MODULE AnswerStream ----------------------------
(***************************************************************************)
(* What the gateway relies on when it reads an answer from the AI service  *)
(* (module QAStream, AiSends and AiEnds): a response is a number of events *)
(* that are not the end, then one end (done or error) and nothing after    *)
(* it; and every response the reader stays for ends.                       *)
(***************************************************************************)
EXTENDS Naturals

CONSTANT Response
VARIABLES parts,    \* parts[r]: events before the end
          stage     \* stage[r]: "open", "ended", or "closed" by the reader

streamVars == <<parts, stage>>

StreamInit ==
    /\ parts = [r \in Response |-> 0]
    /\ stage = [r \in Response |-> "open"]

(* Events are written, the last of them perhaps the end.                   *)
Write(r) ==
    /\ stage[r] = "open"
    /\ stage' \in {stage, [stage EXCEPT ![r] = "ended"]}
    /\ parts'[r] >= parts[r]
    /\ parts' = [parts EXCEPT ![r] = parts'[r]]

Close(r) ==
    /\ stage[r] = "open"
    /\ stage' = [stage EXCEPT ![r] = "closed"]
    /\ UNCHANGED parts

StreamNext == \E r \in Response : Write(r) \/ Close(r)

StreamSafety == StreamInit /\ [][StreamNext]_streamVars

StreamSpec == StreamSafety /\ \A r \in Response : <>(stage[r] # "open")
=============================================================================
