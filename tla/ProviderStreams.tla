--------------------------- MODULE ProviderStreams ---------------------------
(***************************************************************************)
(* One chat request through an adapter: the request is converted and sent, *)
(* and the answer comes whole or as a stream of server-sent events that    *)
(* the network cuts into chunks anywhere, that may break off anywhere, and *)
(* that the gateway sends on event by event (proxy/api.py stream_gen).     *)
(***************************************************************************)
EXTENDS ProviderMessages, ProviderAnswers, FiniteSets

CONSTANTS
  Bodies,   \* chat requests: [messages, tools, choice, sampling]
  Scripts   \* answers: sequences of lines

ASSUME ScriptsAssumption == Scripts \subseteq Seq(Lines)
ASSUME BodiesAssumption ==
  \A b \in Bodies : b.messages \in Seq(Messages) /\ b.tools \in Seq(Range(b.tools))

VARIABLES
  adapter, mode,  \* mode: "whole", "stream" (auto-routed), "direct" (by model name)
  body,
  answer,         \* what the provider answers
  script, closed, \* the lines it sends, and whether the last one ends with a newline
  phase,          \* "new", "sent", "open", "raised", "finished", "over", "aborted"
  payload,        \* what was sent to the provider
  arrived,        \* bytes of the answer received so far
  buffer,         \* bytes that are not a complete line yet
  ready,          \* complete lines of the last network chunk
  out             \* what the client has received

streamVars == <<adapter, mode, body, answer, script, closed, phase, payload, arrived, buffer, ready, out>>
request == <<adapter, mode, body, answer, script, closed, payload>>

\* A line on the wire: two parts that meet inside a character of more than one
\* byte, and the newline.
Wire ==
  LET all == FlattenSeq([i \in DOMAIN script |-> <<<<i, "head">>, <<i, "tail">>, <<i, "newline">>>>])
  IN IF closed \/ all = <<>> THEN all ELSE Front(all)

\* The lines of an answer: events if a stream was asked for, and otherwise those of
\* one JSON text, none of which begins with "data: ".
LinesSent(lines) ==
  IF StreamAsked(adapter, mode) THEN lines ELSE [i \in DOMAIN lines |-> Line("other", FALSE, 0, FALSE)]

DONE == Piece(<<>>, <<>>, <<>>, "[DONE]", FALSE)
Stop == Piece(<<>>, <<>>, <<>>, "stop", FALSE)

StreamInit ==
  /\ adapter \in Adapters /\ mode \in {"whole", "stream", "direct"}
  /\ body \in Bodies /\ answer \in Scripts /\ script = LinesSent(answer) /\ closed \in BOOLEAN
  /\ phase = "new" /\ payload = <<>>
  /\ arrived = 0 /\ buffer = <<>> /\ ready = <<>> /\ out = <<>>

Goto(p) == phase' = p
SameStream == UNCHANGED <<arrived, buffer, ready, out>>

Send ==
  /\ phase = "new" /\ Goto("sent")
  /\ payload' = Payload(adapter, mode, body)
  /\ UNCHANGED <<adapter, mode, body, answer, script, closed>> /\ SameStream

\* No connection, a time-out or an error status (raise_for_status, RuntimeError
\* of cloudflare.py), or a Cloudflare key without its account: nothing is sent.
Refused ==
  /\ \/ phase = "sent"
     \/ phase = "new" /\ adapter = "cloudflare"
  /\ Goto("raised") /\ UNCHANGED request /\ SameStream

AnswersWhole ==
  /\ phase = "sent" /\ mode = "whole" /\ Goto("over")
  /\ out' = <<WholeAnswer(adapter, answer)>>
  /\ UNCHANGED request /\ UNCHANGED <<arrived, buffer, ready>>

Opens ==
  /\ phase = "sent" /\ mode # "whole" /\ Goto("open")
  /\ UNCHANGED request /\ SameStream

-----------------------------------------------------------------------------
\* The adapters' loops over a stream.  aiter_lines decodes across chunks; the
\* loops over aiter_bytes decode each chunk by itself, so a character that two
\* chunks share is replaced.
DecodesLines == adapter \in {"google", "cohere"}

Decoded(chunk) ==
  IF chunk[1][2] = "tail" /\ ~DecodesLines
  THEN <<<<chunk[1][1], "damaged">>>> \o Tail(chunk) ELSE chunk

\* buffer.split("\n"): the complete lines, and the last piece.
Newlines(s) == Ordered({n \in DOMAIN s : s[n][2] = "newline"})
Complete(s) ==
  LET at == Newlines(s)
  IN [n \in DOMAIN at |-> SubSeq(s, IF n = 1 THEN 1 ELSE at[n - 1] + 1, at[n] - 1)]
Forgotten(s) == <<>>
Everything(s) == s
Unfinished(s) ==
  LET at == Newlines(s)
  IN SubSeq(s, (IF at = <<>> THEN 0 ELSE Last(at)) + 1, Len(s))

Receive ==
  /\ phase = "open" /\ ready = <<>>
  /\ \E n \in arrived + 1 .. Len(Wire) :
       LET text == buffer \o Decoded(SubSeq(Wire, arrived + 1, n))
       IN /\ ready' = Complete(text)
          /\ buffer' = Unfinished(text)
          /\ arrived' = n
  /\ UNCHANGED <<phase, out>> /\ UNCHANGED request

\* A piece of text between two newlines as the line it is.
Read(piece) ==
  IF piece = <<>> \/ piece[1][2] # "head" THEN Line("other", FALSE, 0, FALSE)
  ELSE IF Len(piece) = 1 THEN Line("bad", FALSE, 0, FALSE)
  ELSE script[piece[1][1]]

\* (Mutant: `continue` with the line still to be read.)
TakeLineAgain ==
  /\ phase = "open" /\ ready # <<>>
  /\ LET piece   == Head(ready)
         line    == Read(piece)
         reading == Reading(adapter, line)
     IN /\ out' = IF reading = "chunk" THEN out \o Chunk(adapter, piece[1][1], line, FALSE) ELSE out
        /\ phase' = IF reading = "raise" THEN "raised" ELSE IF reading = "return" THEN "finished" ELSE phase
        /\ ready' = IF reading = "skip" THEN ready ELSE Tail(ready)
  /\ UNCHANGED <<arrived, buffer>> /\ UNCHANGED request

TakeLine ==
  /\ phase = "open" /\ ready # <<>>
  /\ LET piece   == Head(ready)
         line    == Read(piece)
         reading == Reading(adapter, line)
         damaged == \E n \in DOMAIN piece : piece[n][2] = "damaged"
     IN /\ out' = IF reading = "chunk"
                  THEN out \o Chunk(adapter, piece[1][1], line, damaged) ELSE out
        /\ phase' = CASE reading = "raise"  -> "raised"
                      [] reading = "return" -> "finished"
                      [] OTHER              -> phase
  /\ ready' = Tail(ready)
  /\ UNCHANGED <<arrived, buffer>> /\ UNCHANGED request

\* The connection is lost or idle for too long.
Breaks ==
  /\ phase = "open" /\ ready = <<>>
  /\ Goto("raised") /\ UNCHANGED request /\ SameStream

\* The provider has closed the stream.  aiter_lines hands out an unterminated
\* last line; the byte loops drop it.
Closes ==
  /\ phase = "open" /\ ready = <<>> /\ arrived = Len(Wire)
  /\ IF DecodesLines /\ buffer # <<>>
     THEN /\ ready' = <<buffer>> /\ buffer' = <<>>
          /\ UNCHANGED <<phase, arrived, out>>
     ELSE Goto("finished") /\ SameStream
  /\ UNCHANGED request

\* Cohere's generator yields its own last chunk, whatever came before.
LastOfAdapter == IF adapter = "cohere" THEN <<Stop>> ELSE <<>>

\* stream_gen, after the loop; its except clause makes the end look regular.
Finish ==
  /\ phase = "finished" /\ Goto("over")
  /\ out' = out \o LastOfAdapter \o <<DONE>>
  /\ UNCHANGED request /\ UNCHANGED <<arrived, buffer, ready>>

\* (Mutant: the except clause sends no last chunk.)
RescueSilently ==
  /\ phase = "raised" /\ mode = "stream" /\ Goto("over")
  /\ UNCHANGED request /\ SameStream

Rescue ==
  /\ phase = "raised" /\ mode = "stream" /\ Goto("over")
  /\ out' = out \o <<Stop, DONE>>
  /\ UNCHANGED request /\ UNCHANGED <<arrived, buffer, ready>>

\* Without that clause (a direct stream), before a response (a whole answer), or
\* when the clause cannot store its cooldown, the exception leaves the handler.
Abort ==
  /\ phase = "raised" /\ Goto("aborted")
  /\ UNCHANGED request /\ SameStream

StreamNext ==
  \/ Send \/ Refused \/ AnswersWhole \/ Opens
  \/ Receive \/ TakeLine \/ Breaks \/ Closes \/ Finish \/ Rescue \/ Abort

\* Requests have time-outs (60 and 120 seconds, timeout_ms), so a provider that
\* falls silent raises; the gateway's own steps are never held up.
StreamFairness == WF_streamVars(StreamNext)

StreamSpec == StreamInit /\ [][StreamNext]_streamVars /\ StreamFairness
=============================================================================
