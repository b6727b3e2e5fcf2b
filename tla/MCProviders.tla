----------------------------- MODULE MCProviders -----------------------------
(***************************************************************************)
(* Either conversations of up to three messages with a short answer, or    *)
(* answers of up to three lines, cut into chunks everywhere, to a short    *)
(* conversation, or one of the other operations.                           *)
(***************************************************************************)
EXTENDS Providers

M(role, content) == [role |-> role, content |-> content]
MCMessages == {M("system", <<"plain">>), M("user", <<"plain">>), M("tool", <<"plain">>),
               M("tool", <<"text">>), M("user", <<"text", "data", "text">>),
               M("assistant", <<"link">>)}
MCTools == {<<>>, <<[name |-> "f", properties |-> [x |-> "integer", y |-> "null"], required |-> {"x"}]>>}
Body(m, t, c) == [messages |-> m, tools |-> t, choice |-> c, sampling |-> {"temperature"}]
Short == Body(<<M("user", <<"plain">>)>>, <<>>, "unset")
MCBodies == {Short} \cup
  {Body(m, t, c) : m \in UNION {[1 .. n -> MCMessages] : n \in 1 .. 3}, t \in MCTools, c \in {"unset", "named"}}

MCLines == {Line("data", TRUE, 0, FALSE), Line("data", TRUE, 1, FALSE), Line("data", FALSE, 2, FALSE),
            Line("data", FALSE, 0, TRUE), Line("empty", FALSE, 0, FALSE), Line("bad", FALSE, 0, FALSE),
            Line("other", FALSE, 0, FALSE), Line("done", FALSE, 0, FALSE)}
MCFewLines == {l \in MCLines : ~l.text \/ l.calls = 0} \ {Line("empty", FALSE, 0, FALSE), Line("other", FALSE, 0, FALSE), Line("data", FALSE, 0, TRUE)}
MCScripts == UNION {[1 .. n -> MCLines] : n \in 0 .. 2} \cup [1 .. 3 -> MCFewLines]
Hello == <<Line("data", TRUE, 0, FALSE)>>

MCListings == SUBSET {"vision", "embed", "image_gen"}
MCInputs == <<"a", "b">>

MCInit ==
  \/ Idle /\ body = Short /\ mode \in {"stream", "direct"} /\ StreamInit
  \/ Idle /\ answer = Hello /\ closed = TRUE /\ mode = "whole" /\ StreamInit
  \/ /\ body = Short /\ answer = Hello /\ closed = TRUE /\ mode = "whole" /\ adapter = "generic"
     /\ StreamInit /\ AccessInit

MCSpec == MCInit /\ [][Next]_vars /\ StreamFairness
=============================================================================
