-------------------------- MODULE MCAnswerService --------------------------
(* Small instances of AnswerService for TLC.                               *)
EXTENDS AnswerService

Ask(kind, explicit, words, resources, web) ==
    [kind |-> kind, intent |-> explicit, words |-> words, resources |-> resources,
     web |-> web]

Doc == {"doc"}
Question == Ask("agent", "", {}, Doc, FALSE)
Compare == Ask("agent", "", {"summarize", "compare"}, {}, FALSE)
Summarize == Ask("agent", "summarize", {"compare"}, Doc, FALSE)
Generate == Ask("agent", "", {"generate"}, Doc, TRUE)
Plain == Ask("qa", "", {}, Doc, FALSE)

Rules == [provider |-> "kimi", enable_dynamic_intent |-> FALSE, enable_web_search |-> TRUE]
Dynamic == [provider |-> "zhipuai", enable_dynamic_intent |-> TRUE, enable_web_search |-> TRUE]

World(s, first, second) == [settings |-> s, req |-> <<first, second>>]

(* Two requests at a time: every branch of the agent by the rules or by    *)
(* the model's choice, two web searches, and the service beside the agent. *)
MCScenario ==
    {World(Rules, Question, Summarize), World(Rules, Plain, Compare),
     World(Rules, Generate, Generate), World(Dynamic, Compare, Plain)}

MCReq == {1, 2}
MCMaxChunks == <<2, 0>>

MCRaw ==
    {NoChoices, Choice(<<1>>, TRUE, "none"), Choice(<<2>>, FALSE, "none"),
     Choice(<<2>>, FALSE, "error"), Choice(<<>>, TRUE, "stop")}

MCFound == {<<>>, <<"doc", "doc">>}
=============================================================================
