------------------------------ MODULE Providers ------------------------------
(***************************************************************************)
(* The adapters together: a chat request, or one of the other operations,  *)
(* and what they must keep of the conversation, of its answer and of what  *)
(* else they ask a provider.                                               *)
(***************************************************************************)
EXTENDS ProviderStreams, ProviderAccess

vars == <<streamVars, accessVars>>

Idle == op = "none" /\ provider = "generic" /\ calls = 0 /\ caps = {} /\ results = <<>>
        /\ verdict = "none" /\ seen = {}

Init == StreamInit /\ (AccessInit \/ Idle)

Next ==
  \/ StreamNext /\ UNCHANGED accessVars
  \/ AccessNext /\ UNCHANGED streamVars

Spec == Init /\ [][Next]_vars /\ StreamFairness

-----------------------------------------------------------------------------
\* The type invariant; a stream never reads ahead of what has arrived.
ProvidersTypeOK ==
  /\ phase \in {"new", "sent", "open", "raised", "finished", "over", "aborted"}
  /\ arrived \in 0 .. Len(Wire)
  /\ \A n \in DOMAIN buffer : buffer[n][1] <= (arrived + 2) \div 3 /\ buffer[n][2] # "newline"
  /\ \A n \in DOMAIN ready : \A k \in DOMAIN ready[n] : ready[n][k][2] # "newline"
  /\ caps \subseteq {"chat", "vision", "embed", "image_gen", "audio_stt", "audio_tts"}

\* All of a message's text, block by block and in order, or a rewriting of it as
\* one text.
TextKept(m, parts) ==
  \/ parts \in {Whole("notation"), Whole("result")}
  \/ /\ \A j \in DOMAIN m.content : m.content[j] \in {"plain", "text"} =>
          \E k \in DOMAIN parts : parts[k] = Part(j, "text")
     /\ \A j, k \in DOMAIN parts : j < k => parts[j][1] < parts[k][1]

\* Every message is sent as one entry, in order and with all of its text.  The
\* exceptions are the code's: a Google tool result is sent twice, and a list
\* without text becomes Cohere's placeholder, a list of the generic adapter and
\* a tool result one text (the message conversions of the four adapters).
ConversationKept ==
  payload # <<>> =>
    LET entries == payload.messages
        madeFrom(i) == {n \in DOMAIN entries : entries[n].from = i}
    IN /\ \A i \in DOMAIN body.messages :
            LET m == body.messages[i]
            IN /\ Cardinality(madeFrom(i)) =
                    IF adapter = "google" /\ m.role = "tool" /\ body.tools # <<>> THEN 2 ELSE 1
               /\ \A n \in madeFrom(i) : TextKept(m, entries[n].parts)
       /\ \A n, k \in DOMAIN entries : n < k => entries[n].from <= entries[k].from
       /\ Len(payload.tools) = Len(body.tools)
       /\ \A n \in DOMAIN body.tools : \A p \in DOMAIN body.tools[n].properties :
            payload.tools[n].parameters[p].required = (p \in body.tools[n].required)

\* What the adapter can hear of the answer: the byte loops lose a last line
\* that has no newline.
Heard == IF closed \/ DecodesLines \/ script = <<>> THEN script ELSE Front(script)

Meaning ==
  LET stops == {i \in DOMAIN Heard : Reading(adapter, Heard[i]) \in {"return", "raise"}}
      upto  == IF stops = {} THEN Len(Heard) ELSE Min(stops) - 1
  IN FlattenSeq([i \in 1 .. upto |->
       IF Reading(adapter, Heard[i]) = "chunk" THEN Chunk(adapter, i, Heard[i], FALSE) ELSE <<>>])

Mended(pieces) == [n \in DOMAIN pieces |-> [pieces[n] EXCEPT !.damaged = FALSE]]

\* However the network cuts the answer, the client receives the events of its
\* complete lines, in order and once, up to a damaged character in the loops
\* that decode chunk by chunk (the parsers of the stream_chat_completion of
\* openai_compat.py, cloudflare.py, google.py and cohere.py).
FramingTransparent ==
  /\ phase \in {"open", "raised", "finished", "aborted"} => IsPrefix(Mended(out), Meaning)
  /\ phase = "finished" => Mended(out) = Meaning
  /\ DecodesLines => Mended(out) = out

\* The client of an auto-routed stream receives [DONE] once, at the end,
\* whatever happened to the provider, and a finish reason before it if the answer
\* is not complete (unless the failure cannot be stored, which breaks it off); the client of a direct stream receives it only if nothing
\* failed (proxy/api.py stream_gen).
DoneOnceAtTheEnd ==
  LET dones == {n \in DOMAIN out : out[n] = DONE}
  IN /\ mode # "whole" /\ phase = "over" => dones = {Len(out)}
     /\ phase # "over" => dones = {}
     /\ mode = "stream" /\ phase = "over" /\ Mended(Front(out)) # Meaning =>
          out[Len(out) - 1] = Stop

\* The provider's answer arrived in full and in proper form.
Proper ==
  /\ closed
  /\ \A i \in DOMAIN answer : answer[i].kind = "done" => i = Len(answer)
  /\ \A i \in DOMAIN answer : Reading(adapter, answer[i]) # "raise"

\* The client heard the calls of the whole answer in the same order, or else its text.
\* (google.py keeps only the last call of a chunk.)
HeardAsWhole ==
  LET whole == WholeAnswer(adapter, answer)
      heardCalls == FlattenSeq([n \in DOMAIN out |-> out[n].calls])
      heardTexts == FlattenSeq([n \in DOMAIN out |-> out[n].texts])
  IN /\ IF adapter = "google" /\ \E i \in DOMAIN answer : answer[i].calls > 1
        THEN Range(heardCalls) \subseteq Range(whole.calls) ELSE heardCalls = whole.calls
     /\ whole.calls = <<>> => heardTexts = whole.texts

\* A complete answer means the same streamed and whole (stream_chat_completion and
\* chat_completion of openai_compat.py, cloudflare.py and google.py), if a stream was
\* asked for.  cohere.py asks for none, and no line of the one JSON text that comes back
\* is an event: its client hears nothing of the answer before the end, where README.md
\* promises "SSE for `stream: true`".
StreamedAsWhole ==
  phase = "finished" /\ Proper =>
    IF StreamAsked(adapter, mode) THEN HeardAsWhole ELSE out = <<>>

\* Every stream and every whole request comes to an end (the time-outs of the
\* adapters' clients).
StreamEnds == <>(phase \in {"over", "aborted"})

\* What google.py returns is one embedding for each input, in order, its own or an
\* empty one, and nothing of a batch whose later call failed.  (cohere.py returns what
\* the answer holds, however many.)
EmbeddingsInOrder ==
  /\ op = "embedded" /\ provider = "google" =>
       /\ Len(results) = Len(Inputs)
       /\ \A k \in 1 .. Len(Inputs) : results[k] \in {Inputs[k], "empty"}
  /\ op = "failed" => results = <<>>

\* A probe adds only what the provider listed, and a provider with one list
\* call, if it answered, gets all of it (probe_capabilities, list_models).
ProbeFindsListed ==
  op = "done" =>
    LET listed == UNION {UNION ListModels(provider, names) : names \in seen}
    IN /\ caps \subseteq Default(provider) \cup {"audio_tts"} \cup listed
       /\ provider \in {"generic", "cohere"} /\ seen # {} =>
            Looked(provider, 1) \cap listed \subseteq caps

=============================================================================
