--------------------------- MODULE ProviderAnswers ---------------------------
(***************************************************************************)
(* What an adapter makes of its provider's answer, whole or line by line.  *)
(* An answer is a sequence of lines.  A data line may hold text, some tool *)
(* calls and the mark of the last line (a finish reason, Cohere's          *)
(* is_final); an "empty" one has no candidates; a "bad" line is malformed,  *)
(* an "other" line is no data, and a "done" line is [DONE].  Texts and      *)
(* calls are known by the line i they come from: i, and <<i, k>>.          *)
(***************************************************************************)
EXTENDS Naturals, Sequences, SequencesExt

Line(kind, text, calls, last) == [kind |-> kind, text |-> text, calls |-> calls, last |-> last]

\* Only a data line holds anything.
Lines == {line \in [kind : {"data", "empty", "bad", "other", "done"},
                    text : BOOLEAN, calls : Nat, last : BOOLEAN] :
            line.kind # "data" => ~line.text /\ line.calls = 0 /\ ~line.last}

\* A piece of the answer in OpenAI's form: the texts it holds, the calls and
\* their ids, the finish reason, and whether a character of it was damaged.
Piece(texts, calls, ids, finish, damaged) ==
  [texts |-> texts, calls |-> calls, ids |-> ids, finish |-> finish, damaged |-> damaged]

TextsOf(i, line) == IF line.text THEN <<i>> ELSE <<>>
CallsOf(i, line) == [k \in 1 .. line.calls |-> <<i, k>>]
Own(finish, line) == IF ~line.last THEN "none" ELSE IF line.calls > 0 THEN "tool_calls" ELSE finish

\* The passing adapters forward choices as they are; their ids are the
\* provider's.
PassChunk(i, line, damaged) ==
  <<Piece(TextsOf(i, line), CallsOf(i, line), CallsOf(i, line), Own("stop", line), damaged)>>

\* google.py _to_openai_chunk: each functionCall of the chunk replaces the one
\* before it, a call drops the text, and the provider's finishReason is not read.
\* (Mutant: text comes before a call.)
ToOpenaiChunkTextFirst(i, line, damaged) ==
  IF line.text \/ line.calls = 0
  THEN <<Piece(TextsOf(i, line), <<>>, <<>>, "none", damaged)>>
  ELSE LET call == <<Last(CallsOf(i, line))>> IN <<Piece(<<>>, call, call, "tool_calls", damaged)>>
ToOpenaiChunk(i, line, damaged) ==
  LET calls == CallsOf(i, line)
      last  == IF calls = <<>> THEN <<>> ELSE <<Last(calls)>>
  IN IF calls = <<>> THEN <<Piece(TextsOf(i, line), <<>>, <<>>, "none", damaged)>>
                     ELSE <<Piece(<<>>, last, last, "tool_calls", damaged)>>

\* cohere.py stream_chat_completion: the ids start again with each chunk.
CohereChunk(i, line, damaged) ==
  CASE line.last      -> <<>>
    [] ~line.last /\ line.calls > 0 ->
         <<Piece(<<>>, CallsOf(i, line), [k \in 1 .. line.calls |-> k - 1], "none", damaged)>>
    [] ~line.last /\ line.calls = 0 /\ line.text ->
         <<Piece(<<i>>, <<>>, <<>>, "none", damaged)>>
    [] OTHER          -> <<>>

Chunk(adapter, i, line, damaged) ==
  CASE adapter = "google" -> ToOpenaiChunk(i, line, damaged)
    [] adapter = "cohere" -> CohereChunk(i, line, damaged)
    [] OTHER              -> PassChunk(i, line, damaged)

\* What a line does to the stream: it yields a chunk, is skipped, ends the
\* generator, or raises (google.py parses without a guard and takes the first
\* of the candidates).
Reading(adapter, line) ==
  CASE line.kind = "other" -> "skip"
    [] line.kind = "bad"   -> IF adapter = "google" THEN "raise" ELSE "skip"
    [] line.kind = "done"  -> CASE adapter = "google" -> "raise"
                                [] adapter = "cohere" -> "skip"
                                [] OTHER              -> "return"
    [] line.kind = "empty" -> IF adapter = "google" THEN "raise" ELSE "chunk"
    [] line.kind = "data"  -> "chunk"

-----------------------------------------------------------------------------
\* chat_completion: the same answer in one piece.
AllTexts(lines) == FlattenSeq([i \in DOMAIN lines |-> TextsOf(i, lines[i])])
AllCalls(lines) == FlattenSeq([i \in DOMAIN lines |-> CallsOf(i, lines[i])])

\* cohere.py _convert_from_cohere_response and google.py _to_openai_response:
\* with a call there is no text, and the reason is tool_calls; Gemini's own
\* reason is not translated.
WholeConverted(lines, reason) ==
  LET calls == AllCalls(lines)
  IN IF calls # <<>>
     THEN Piece(<<>>, calls, [k \in DOMAIN calls |-> k - 1], "tool_calls", FALSE)
     ELSE Piece(AllTexts(lines), <<>>, <<>>, reason, FALSE)

WholeAnswer(adapter, lines) ==
  CASE adapter = "google" -> WholeConverted(lines, "STOP")
    [] adapter = "cohere" -> WholeConverted(lines, "stop")
    [] OTHER -> Piece(AllTexts(lines), AllCalls(lines), AllCalls(lines),
                      IF AllCalls(lines) = <<>> THEN "stop" ELSE "tool_calls", FALSE)
=============================================================================
