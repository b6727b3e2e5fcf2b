------------------------- MODULE ProviderStreamProofs -------------------------
(***************************************************************************)
(* Theorems about the streams of the adapters, for any answer and however  *)
(* the network cuts it: the client hears its complete lines, the stream    *)
(* ends with one [DONE], and a complete answer means the same as in one    *)
(* piece.  A stream is a place on the wire: so many lines have been heard, *)
(* the next ones are ready and what is buffered follows them.              *)
(***************************************************************************)
EXTENDS ProvidersProofs

-----------------------------------------------------------------------------
(* Pieces of an answer *)

Finishes == {"none", "tool_calls", "stop", "STOP", "[DONE]"}
Ids == Seq(Nat \X Nat) \cup Seq(Nat)
Pieces == [texts : Seq(Nat), calls : Seq(Nat \X Nat), ids : Ids, finish : Finishes, damaged : BOOLEAN]

Mend(p) == [p EXCEPT !.damaged = FALSE]

\* Mending a piece changes nothing but its damage.
LEMMA MendType ==
  ASSUME NEW p \in Pieces
  PROVE  /\ Mend(p) \in Pieces /\ Mend(p).texts = p.texts /\ Mend(p).calls = p.calls
         /\ Mend(p).ids = p.ids /\ Mend(p).finish = p.finish /\ Mend(p).damaged = FALSE
BY DEF Mend, Pieces

\* A piece is its five parts.
LEMMA PieceEqual ==
  ASSUME NEW p \in Pieces, NEW q \in Pieces, p.texts = q.texts, p.calls = q.calls,
         p.ids = q.ids, p.finish = q.finish, p.damaged = q.damaged
  PROVE  p = q
BY SMTT(30) DEF Pieces

\* There is nothing to mend in an undamaged piece.
LEMMA MendWhole ==
  ASSUME NEW p \in Pieces, p.damaged = FALSE
  PROVE  Mend(p) = p
BY MendType, PieceEqual

\* The texts, the calls and the identifiers of a line.
LEMMA LineParts ==
  ASSUME NEW i \in Nat, NEW line \in Lines
  PROVE  /\ TextsOf(i, line) \in Seq(Nat) /\ CallsOf(i, line) \in Seq(Nat \X Nat)
         /\ [k \in 1 .. line.calls |-> k - 1] \in Seq(Nat)
         /\ <<i>> \in Seq(Nat) /\ <<>> \in Seq(Nat) /\ <<>> \in Seq(Nat \X Nat)
         /\ Seq(Nat \X Nat) \subseteq Ids /\ Seq(Nat) \subseteq Ids
         /\ Own("stop", line) \in Finishes \ {"[DONE]"}
         /\ CallsOf(i, line) # <<>> => <<Last(CallsOf(i, line))>> \in Seq(Nat \X Nat)
<1>1. line.calls \in Nat
  BY DEF Lines
<1>2. CallsOf(i, line) \in Seq(Nat \X Nat) /\ Len(CallsOf(i, line)) = line.calls
      /\ \A k \in 1 .. line.calls : CallsOf(i, line)[k] = <<i, k>>
  BY <1>1 DEF CallsOf
<1>3. [k \in 1 .. line.calls |-> k - 1] \in Seq(Nat)
  BY <1>1
<1>4. TextsOf(i, line) \in Seq(Nat) /\ <<i>> \in Seq(Nat) /\ <<>> \in Seq(Nat) /\ <<>> \in Seq(Nat \X Nat)
  BY DEF TextsOf
<1>5. ASSUME CallsOf(i, line) # <<>> PROVE <<Last(CallsOf(i, line))>> \in Seq(Nat \X Nat)
  <2>1. Len(CallsOf(i, line)) \in 1 .. Len(CallsOf(i, line))
    BY <1>1, <1>2, <1>5
  <2>2. Last(CallsOf(i, line)) \in Nat \X Nat
    BY <1>2, <2>1, ElementOfSeq DEF Last
  <2> QED BY <2>2
<1>6. Own("stop", line) \in Finishes \ {"[DONE]"}
  BY DEF Own, Finishes
<1>7. Seq(Nat \X Nat) \subseteq Ids /\ Seq(Nat) \subseteq Ids
  BY DEF Ids
<1> QED BY <1>2, <1>3, <1>4, <1>5, <1>6, <1>7

\* The Cohere adapter makes one piece of a line with calls,
LEMMA CohereCalls ==
  ASSUME NEW i, NEW line \in Lines, NEW d, ~line.last, line.calls > 0
  PROVE  CohereChunk(i, line, d)
           = <<Piece(<<>>, CallsOf(i, line), [k \in 1 .. line.calls |-> k - 1], "none", d)>>
BY DEF CohereChunk

\* of a line with text,
LEMMA CohereText ==
  ASSUME NEW i, NEW line \in Lines, NEW d, ~line.last, line.calls = 0, line.text
  PROVE  CohereChunk(i, line, d) = <<Piece(<<i>>, <<>>, <<>>, "none", d)>>
BY DEF CohereChunk

\* and none of any other.
LEMMA CohereNothing ==
  ASSUME NEW i, NEW line \in Lines, NEW d, line.last \/ (line.calls = 0 /\ ~line.text)
  PROVE  CohereChunk(i, line, d) = <<>>
BY DEF CohereChunk

\* Mending keeps the number of pieces.
LEMMA MendedType ==
  ASSUME NEW s \in Seq(Pieces)
  PROVE  /\ Mended(s) \in Seq(Pieces) /\ Len(Mended(s)) = Len(s)
         /\ \A n \in 1 .. Len(s) : Mended(s)[n] = Mend(s[n])
<1>1. ASSUME NEW n \in 1 .. Len(s) PROVE Mend(s[n]) \in Pieces
  <2>1. s[n] \in Pieces
    BY ElementOfSeq
  <2> QED BY <2>1, MendType
<1>2. DOMAIN s = 1 .. Len(s) /\ Len(s) \in Nat
  OBVIOUS
<1>3. Mended(s) = [n \in 1 .. Len(s) |-> Mend(s[n])]
  BY <1>2 DEF Mended, Mend
<1> DEFINE m(n) == Mend(s[n])
<1>4. [n \in 1 .. Len(s) |-> m(n)] \in Seq(Pieces) /\ Len([n \in 1 .. Len(s) |-> m(n)]) = Len(s)
  <2>1. \A n \in 1 .. Len(s) : m(n) \in Pieces
    BY <1>1
  <2> HIDE DEF m
  <2> QED BY <1>2, <2>1
<1> QED BY <1>3, <1>4

\* Sequences of pieces are mended one piece at a time.
LEMMA MendedConcat ==
  ASSUME NEW s \in Seq(Pieces), NEW t \in Seq(Pieces)
  PROVE  Mended(s \o t) = Mended(s) \o Mended(t)
<1>1. /\ s \o t \in Seq(Pieces) /\ Len(s \o t) = Len(s) + Len(t)
      /\ \A i \in 1 .. Len(s) + Len(t) : (s \o t)[i] = IF i <= Len(s) THEN s[i] ELSE t[i - Len(s)]
  BY ConcatProperties
<1>2. Mended(s \o t) \in Seq(Pieces) /\ Mended(s) \o Mended(t) \in Seq(Pieces)
  BY <1>1, MendedType, ConcatProperties
<1>3. Len(Mended(s \o t)) = Len(s) + Len(t) /\ Len(Mended(s) \o Mended(t)) = Len(s) + Len(t)
  <2>1. Len(Mended(s \o t)) = Len(s \o t)
    BY <1>1, MendedType
  <2>2. Mended(s) \in Seq(Pieces) /\ Len(Mended(s)) = Len(s) /\ Mended(t) \in Seq(Pieces) /\ Len(Mended(t)) = Len(t)
    BY MendedType
  <2>3. Len(Mended(s) \o Mended(t)) = Len(Mended(s)) + Len(Mended(t))
    BY <2>2, ConcatProperties
  <2> QED BY <1>1, <2>1, <2>2, <2>3
<1>4. ASSUME NEW i \in 1 .. Len(s) + Len(t) PROVE Mended(s \o t)[i] = (Mended(s) \o Mended(t))[i]
  <2>1. Mended(s \o t)[i] = Mend((s \o t)[i])
    BY <1>1, MendedType
  <2>2. (Mended(s) \o Mended(t))[i] = IF i <= Len(s) THEN Mended(s)[i] ELSE Mended(t)[i - Len(s)]
    BY MendedType, ConcatProperties
  <2>3. CASE i <= Len(s)
    <3>1. (s \o t)[i] = s[i] /\ i \in 1 .. Len(s)
      BY <1>1, <2>3
    <3>2. Mended(s)[i] = Mend(s[i])
      BY <3>1, MendedType
    <3> QED BY <2>1, <2>2, <2>3, <3>1, <3>2
  <2>4. CASE i > Len(s)
    <3>1. i - Len(s) \in 1 .. Len(t) /\ (s \o t)[i] = t[i - Len(s)]
      BY <1>1, <2>4
    <3>2. Mended(t)[i - Len(s)] = Mend(t[i - Len(s)])
      BY <3>1, MendedType
    <3>3. (Mended(s) \o Mended(t))[i] = Mended(t)[i - Len(s)]
      BY <2>2, <2>4
    <3> QED BY <2>1, <3>1, <3>2, <3>3
  <2>5. Len(s) \in Nat /\ Len(t) \in Nat
    OBVIOUS
  <2>6. i <= Len(s) \/ i > Len(s)
    BY <2>5
  <2> QED BY <2>3, <2>4, <2>6
<1> QED BY <1>2, <1>3, <1>4, SeqEqual

\* No piece and one piece, mended.
LEMMA MendedSmall ==
  /\ Mended(<<>>) = <<>> /\ <<>> \in Seq(Pieces)
  /\ \A p \in Pieces : Mended(<<p>>) = <<Mend(p)>> /\ <<p>> \in Seq(Pieces)
<1>1. Mended(<<>>) = <<>>
  <2>1. <<>> \in Seq(Pieces) /\ Len(<<>>) = 0
    OBVIOUS
  <2>2. Mended(<<>>) \in Seq(Pieces) /\ Len(Mended(<<>>)) = 0
    BY <2>1, MendedType
  <2> QED BY <2>2, EmptySeq
<1>2. ASSUME NEW p \in Pieces PROVE Mended(<<p>>) = <<Mend(p)>>
  <2>1. <<p>> \in Seq(Pieces) /\ Len(<<p>>) = 1 /\ <<p>>[1] = p
    OBVIOUS
  <2> DEFINE s == <<p>>
  <2> HIDE DEF s
  <2>2. Mended(s) \in Seq(Pieces) /\ Len(Mended(s)) = 1 /\ Mended(s)[1] = Mend(p)
    <3>1. s \in Seq(Pieces) /\ Len(s) = 1 /\ s[1] = p
      BY <2>1 DEF s
    <3> QED BY <3>1, MendedType
  <2>3. Mended(s) = <<Mend(p)>>
    BY <2>2
  <2> QED BY <2>3 DEF s
<1> QED BY <1>1, <1>2

\* A line is one piece or none; damage is all that a cut inside a character does.
Yields(s, whole, d) ==
  /\ s \in Seq(Pieces) /\ Mended(s) = whole
  /\ \A n \in 1 .. Len(s) : s[n].damaged = d /\ s[n].finish # "[DONE]"

\* A line that yields nothing.
LEMMA NoPiece == ASSUME NEW d PROVE Yields(<<>>, <<>>, d)
<1>1. \A n \in 1 .. Len(<<>>) : FALSE
  OBVIOUS
<1> QED BY <1>1, MendedSmall DEF Yields

\* A line that yields one piece.
LEMMA OnePiece ==
  ASSUME NEW t \in Seq(Nat), NEW c \in Seq(Nat \X Nat), NEW e \in Ids, NEW f \in Finishes,
         f # "[DONE]", NEW d \in BOOLEAN
  PROVE  Yields(<<Piece(t, c, e, f, d)>>, <<Piece(t, c, e, f, FALSE)>>, d)
<1> DEFINE p == Piece(t, c, e, f, d)
           q == Piece(t, c, e, f, FALSE)
<1>0. /\ p \in Pieces /\ p.texts = t /\ p.calls = c /\ p.ids = e /\ p.finish = f /\ p.damaged = d
      /\ q \in Pieces /\ q.texts = t /\ q.calls = c /\ q.ids = e /\ q.finish = f /\ q.damaged = FALSE
  BY DEF Piece, Pieces
<1> HIDE DEF p, q
<1>1. Mend(p) = q
  <2>1. /\ Mend(p) \in Pieces /\ Mend(p).texts = p.texts /\ Mend(p).calls = p.calls
        /\ Mend(p).ids = p.ids /\ Mend(p).finish = p.finish /\ Mend(p).damaged = FALSE
    BY <1>0, MendType
  <2> QED BY <1>0, <2>1, PieceEqual
<1>2. Mended(<<p>>) = <<q>> /\ <<p>> \in Seq(Pieces) /\ Len(<<p>>) = 1 /\ <<p>>[1] = p
  BY <1>0, <1>1, MendedSmall
<1>3. \A n \in 1 .. 1 : n = 1
  OBVIOUS
<1>4. Yields(<<p>>, <<q>>, d)
  BY <1>0, <1>2, <1>3 DEF Yields
<1> QED BY <1>4 DEF p, q

\* Each adapter makes one piece of a line or none, and a cut inside a character only damages it.
LEMMA ChunkFacts ==
  ASSUME NEW a, NEW i \in Nat, NEW line \in Lines, NEW d \in BOOLEAN
  PROVE  Yields(Chunk(a, i, line, d), Chunk(a, i, line, FALSE), d)
<1>1. /\ TextsOf(i, line) \in Seq(Nat) /\ CallsOf(i, line) \in Seq(Nat \X Nat) /\ CallsOf(i, line) \in Ids
      /\ [k \in 1 .. line.calls |-> k - 1] \in Ids
      /\ <<i>> \in Seq(Nat) /\ <<>> \in Seq(Nat) /\ <<>> \in Seq(Nat \X Nat) /\ <<>> \in Ids
      /\ Own("stop", line) \in Finishes /\ Own("stop", line) # "[DONE]"
  BY LineParts
<1>2. "none" \in Finishes /\ "tool_calls" \in Finishes /\ "none" # "[DONE]" /\ "tool_calls" # "[DONE]"
  BY DEF Finishes
<1>3. CASE a = "google"
  <2>1. CASE CallsOf(i, line) = <<>>
    <3>1. /\ Chunk(a, i, line, d) = <<Piece(TextsOf(i, line), <<>>, <<>>, "none", d)>>
          /\ Chunk(a, i, line, FALSE) = <<Piece(TextsOf(i, line), <<>>, <<>>, "none", FALSE)>>
      BY <1>3, <2>1 DEF Chunk, ToOpenaiChunk
    <3>2. Yields(<<Piece(TextsOf(i, line), <<>>, <<>>, "none", d)>>,
                 <<Piece(TextsOf(i, line), <<>>, <<>>, "none", FALSE)>>, d)
      BY <1>1, <1>2, OnePiece
    <3> QED BY <3>1, <3>2
  <2>2. CASE CallsOf(i, line) # <<>>
    <3> DEFINE last == <<Last(CallsOf(i, line))>>
    <3>1. /\ Chunk(a, i, line, d) = <<Piece(<<>>, last, last, "tool_calls", d)>>
          /\ Chunk(a, i, line, FALSE) = <<Piece(<<>>, last, last, "tool_calls", FALSE)>>
      BY <1>3, <2>2 DEF Chunk, ToOpenaiChunk
    <3>2. last \in Seq(Nat \X Nat) /\ last \in Ids
      BY <2>2, LineParts
    <3> HIDE DEF last
    <3>3. Yields(<<Piece(<<>>, last, last, "tool_calls", d)>>, <<Piece(<<>>, last, last, "tool_calls", FALSE)>>, d)
      BY <1>1, <1>2, <3>2, OnePiece
    <3> QED BY <3>1, <3>3
  <2> QED BY <2>1, <2>2
<1>4. CASE a = "cohere"
  <2>1. /\ Chunk(a, i, line, d) = CohereChunk(i, line, d)
        /\ Chunk(a, i, line, FALSE) = CohereChunk(i, line, FALSE)
    BY <1>4 DEF Chunk
  <2>2. CASE ~line.last /\ line.calls > 0
    <3> DEFINE c == CallsOf(i, line)
               e == [k \in 1 .. line.calls |-> k - 1]
    <3>1. /\ CohereChunk(i, line, d) = <<Piece(<<>>, c, e, "none", d)>>
          /\ CohereChunk(i, line, FALSE) = <<Piece(<<>>, c, e, "none", FALSE)>>
      BY <2>2, CohereCalls
    <3>2. c \in Seq(Nat \X Nat) /\ e \in Ids
      BY <1>1
    <3> HIDE DEF c, e
    <3>3. Yields(<<Piece(<<>>, c, e, "none", d)>>, <<Piece(<<>>, c, e, "none", FALSE)>>, d)
      BY <1>1, <1>2, <3>2, OnePiece
    <3> QED BY <2>1, <3>1, <3>3
  <2>3. CASE ~line.last /\ line.calls = 0 /\ line.text
    <3>1. /\ CohereChunk(i, line, d) = <<Piece(<<i>>, <<>>, <<>>, "none", d)>>
          /\ CohereChunk(i, line, FALSE) = <<Piece(<<i>>, <<>>, <<>>, "none", FALSE)>>
      BY <2>3, CohereText
    <3>2. Yields(<<Piece(<<i>>, <<>>, <<>>, "none", d)>>, <<Piece(<<i>>, <<>>, <<>>, "none", FALSE)>>, d)
      BY <1>1, <1>2, OnePiece
    <3> QED BY <2>1, <3>1, <3>2
  <2>4. CASE line.last \/ (line.calls = 0 /\ ~line.text)
    <3>1. /\ CohereChunk(i, line, d) = <<>>
          /\ CohereChunk(i, line, FALSE) = <<>>
      BY <2>4, CohereNothing
    <3> QED BY <2>1, <3>1, NoPiece
  <2>5. line.calls \in Nat /\ line.last \in BOOLEAN /\ line.text \in BOOLEAN
    BY DEF Lines
  <2>6. line.last \/ line.calls > 0 \/ line.calls = 0
    BY <2>5
  <2>7. line.text \/ ~line.text
    BY <2>5
  <2> QED BY <2>2, <2>3, <2>4, <2>6, <2>7, Zenon
<1>5. CASE a # "google" /\ a # "cohere"
  <2> DEFINE t == TextsOf(i, line)
             c == CallsOf(i, line)
             f == Own("stop", line)
  <2>1. /\ Chunk(a, i, line, d) = <<Piece(t, c, c, f, d)>>
        /\ Chunk(a, i, line, FALSE) = <<Piece(t, c, c, f, FALSE)>>
    BY <1>5 DEF Chunk, PassChunk
  <2>2. Yields(<<Piece(t, c, c, f, d)>>, <<Piece(t, c, c, f, FALSE)>>, d)
    BY <1>1, OnePiece
  <2> QED BY <2>1, <2>2
<1> QED BY <1>3, <1>4, <1>5

-----------------------------------------------------------------------------
(* The bytes of an answer *)

\* The p-th byte of an answer whose lines all end with a newline.
Byte(p) ==
  <<(p + 2) \div 3, IF p % 3 = 0 THEN "newline" ELSE IF p % 3 = 1 THEN "head" ELSE "tail">>

Bytes == Nat \X {"head", "tail", "newline", "damaged"}

\* The kind of a byte is its place within its line.
LEMMA ByteFacts ==
  ASSUME NEW p \in Nat
  PROVE  /\ Byte(p) \in Bytes
         /\ Byte(3 * p + 1) = <<p + 1, "head">> /\ Byte(3 * p + 2) = <<p + 1, "tail">>
         /\ Byte(3 * p + 3) = <<p + 1, "newline">>
<1>1. (p + 2) \div 3 \in Nat
  OBVIOUS
<1>2. Byte(p) \in Bytes
  BY <1>1 DEF Byte, Bytes
<1>3. /\ (3 * p + 1) % 3 = 1 /\ ((3 * p + 1) + 2) \div 3 = p + 1
      /\ (3 * p + 2) % 3 = 2 /\ ((3 * p + 2) + 2) \div 3 = p + 1
      /\ (3 * p + 3) % 3 = 0 /\ ((3 * p + 3) + 2) \div 3 = p + 1
  OBVIOUS
<1> QED BY <1>2, <1>3 DEF Byte

\* The three bytes of a line.
OnWire(i) == <<<<i, "head">>, <<i, "tail">>, <<i, "newline">>>>

\* The bytes of a line in their order.
LEMMA OnWireBytes ==
  ASSUME NEW k \in Nat
  PROVE  /\ OnWire(k + 1) \in Seq(Bytes) /\ Len(OnWire(k + 1)) = 3
         /\ \A j \in 1 .. 3 : OnWire(k + 1)[j] = Byte(3 * k + j)
<1>1. OnWire(k + 1) \in Seq(Bytes) /\ Len(OnWire(k + 1)) = 3
  BY DEF OnWire, Bytes
<1>2. OnWire(k + 1)[1] = Byte(3 * k + 1) /\ OnWire(k + 1)[2] = Byte(3 * k + 2)
      /\ OnWire(k + 1)[3] = Byte(3 * k + 3)
  BY ByteFacts DEF OnWire
<1>3. ASSUME NEW j \in 1 .. 3 PROVE j = 1 \/ j = 2 \/ j = 3
  OBVIOUS
<1> QED BY <1>1, <1>2, <1>3

\* The lines of an answer end to end.
LEMMA LinesOnWire ==
  ASSUME NEW N \in Nat
  PROVE  LET all == FlattenSeq([i \in 1 .. N |-> OnWire(i)])
         IN all \in Seq(Bytes) /\ Len(all) = 3 * N /\ \A p \in 1 .. 3 * N : all[p] = Byte(p)
<1> DEFINE f == [i \in 1 .. N |-> OnWire(i)]
           J(n) == Joined(f, n)
           P == {n \in Nat : n <= N => Len(J(n)) = 3 * n /\ \A p \in 1 .. 3 * n : J(n)[p] = Byte(p)}
<1>1. ASSUME NEW i \in 1 .. N PROVE f[i] = OnWire(i) /\ f[i] \in Seq(Bytes)
  <2>1. i - 1 \in Nat /\ (i - 1) + 1 = i
    OBVIOUS
  <2>2. OnWire((i - 1) + 1) \in Seq(Bytes)
    BY <2>1, OnWireBytes
  <2> QED BY <2>1, <2>2
<1> HIDE DEF f
<1>2. /\ J(0) = <<>>
      /\ \A n \in 0 .. N : J(n) \in Seq(Bytes)
      /\ \A n \in 0 .. N - 1 : J(n + 1) = J(n) \o f[n + 1]
  BY <1>1, JoinedStep
<1> HIDE DEF J
<1>3. 0 \in P
  BY <1>2
<1>4. ASSUME NEW n \in Nat, n \in P PROVE n + 1 \in P
  <2> SUFFICES ASSUME n + 1 <= N
               PROVE  /\ Len(J(n + 1)) = 3 * (n + 1)
                      /\ \A p \in 1 .. 3 * (n + 1) : J(n + 1)[p] = Byte(p)
    OBVIOUS
  <2>1. n \in 0 .. N /\ n \in 0 .. N - 1 /\ n + 1 \in 1 .. N
    OBVIOUS
  <2>2. J(n + 1) = J(n) \o OnWire(n + 1) /\ J(n) \in Seq(Bytes)
    BY <1>1, <1>2, <2>1
  <2>3. Len(J(n)) = 3 * n /\ \A p \in 1 .. 3 * n : J(n)[p] = Byte(p)
    BY <1>4, <2>1
  <2>4. /\ OnWire(n + 1) \in Seq(Bytes) /\ Len(OnWire(n + 1)) = 3
        /\ \A j \in 1 .. 3 : OnWire(n + 1)[j] = Byte(3 * n + j)
    BY OnWireBytes
  <2>5. /\ Len(J(n + 1)) = 3 * n + 3
        /\ \A p \in 1 .. 3 * n + 3 : J(n + 1)[p] = IF p <= 3 * n THEN J(n)[p] ELSE OnWire(n + 1)[p - 3 * n]
    <3> DEFINE s == J(n)
               t == OnWire(n + 1)
    <3>1. /\ s \in Seq(Bytes) /\ t \in Seq(Bytes) /\ Len(s) = 3 * n /\ Len(t) = 3
          /\ J(n + 1) = s \o t
      BY <2>2, <2>3, <2>4
    <3> HIDE DEF s, t, P
    <3>1a. /\ Len(s \o t) = Len(s) + Len(t)
           /\ \A i \in 1 .. Len(s) + Len(t) :
                (s \o t)[i] = IF i <= Len(s) THEN s[i] ELSE t[i - Len(s)]
      BY <3>1, ConcatProperties
    <3>2. /\ Len(s \o t) = 3 * n + 3
          /\ \A p \in 1 .. 3 * n + 3 : (s \o t)[p] = IF p <= 3 * n THEN s[p] ELSE t[p - 3 * n]
      BY <3>1, <3>1a
    <3> QED BY <3>1, <3>2 DEF s, t
  <2>6. ASSUME NEW p \in 1 .. 3 * (n + 1) PROVE J(n + 1)[p] = Byte(p)
    <3>1. CASE p <= 3 * n
      BY <2>3, <2>5, <3>1
    <3>2. CASE p > 3 * n
      <4>1. p - 3 * n \in 1 .. 3 /\ 3 * n + (p - 3 * n) = p
        BY <3>2
      <4>2. J(n + 1)[p] = OnWire(n + 1)[p - 3 * n]
        BY <2>5, <3>2
      <4>3. OnWire(n + 1)[p - 3 * n] = Byte(3 * n + (p - 3 * n))
        BY <2>4, <4>1
      <4> QED BY <4>1, <4>2, <4>3
    <3> QED BY <3>1, <3>2
  <2> QED BY <2>5, <2>6
<1>5. N \in P
  <2> HIDE DEF P
  <2> QED BY <1>3, <1>4, AllNaturals
<1>6. f = [i \in 1 .. N |-> f[i]]
  BY DEF f
<1>7. J(N) = FlattenSeq(f)
  BY <1>6 DEF J, Joined
<1>8. /\ J(N) \in Seq(Bytes) /\ Len(J(N)) = 3 * N
      /\ \A p \in 1 .. 3 * N : J(N)[p] = Byte(p)
  BY <1>2, <1>5
<1> QED BY <1>7, <1>8 DEF f

\* How many bytes the answer has.
Size == IF closed \/ Len(script) = 0 THEN 3 * Len(script) ELSE 3 * Len(script) - 1

\* The wire holds the bytes of the lines, the last newline only if the answer has one.
LEMMA WireIs ==
  ASSUME script \in Seq(Lines)
  PROVE  /\ Size \in Nat /\ Wire \in Seq(Bytes) /\ Len(Wire) = Size
         /\ \A p \in 1 .. Size : Wire[p] = Byte(p)
<1> DEFINE all == FlattenSeq([i \in 1 .. Len(script) |-> OnWire(i)])
<1>1. Len(script) \in Nat /\ DOMAIN script = 1 .. Len(script)
  OBVIOUS
<1>2. /\ all \in Seq(Bytes) /\ Len(all) = 3 * Len(script)
      /\ \A p \in 1 .. 3 * Len(script) : all[p] = Byte(p)
  BY <1>1, LinesOnWire
<1>3. Wire = IF closed \/ all = <<>> THEN all ELSE Front(all)
  BY <1>1 DEF Wire, OnWire
<1> HIDE DEF all
<1>4. all = <<>> <=> Len(script) = 0
  <2>1. all = <<>> <=> Len(all) = 0
    BY <1>2
  <2> QED BY <1>1, <1>2, <2>1
<1>5. CASE closed \/ Len(script) = 0
  <2>1. Wire = all /\ Size = 3 * Len(script)
    BY <1>3, <1>4, <1>5 DEF Size
  <2> QED BY <1>1, <1>2, <2>1
<1>6. CASE ~(closed \/ Len(script) = 0)
  <2>1. Wire = Front(all) /\ Size = 3 * Len(script) - 1 /\ Size \in Nat
    BY <1>1, <1>3, <1>4, <1>6 DEF Size
  <2>2. Wire = SubSeq(all, 1, Size)
    BY <1>1, <1>2, <2>1 DEF Front
  <2>3. \A p \in 1 .. Size : p \in 1 .. 3 * Len(script) /\ all[p] \in Bytes
    BY <1>1, <1>2, <2>1
  <2>4. /\ Wire \in Seq(Bytes) /\ Len(Wire) = IF 1 <= Size THEN Size - 1 + 1 ELSE 0
        /\ \A p \in 1 .. Size - 1 + 1 : Wire[p] = all[1 + p - 1]
    <3>1. 1 \in Int /\ Size \in Int
      BY <2>1
    <3> QED BY <2>2, <2>3, <3>1, SubSeqProperties
  <2>5. \A p \in 1 .. Size : Wire[p] = all[p]
    BY <2>1, <2>4
  <2> QED BY <1>2, <2>1, <2>3, <2>4, <2>5
<1> QED BY <1>5, <1>6

\* A piece of text that the byte o + 1 begins: a loop that decodes chunk by chunk may
\* have damaged characters of it.
LineLoops == {"google", "cohere"}
Reads(s, o, by) ==
  /\ s \in Seq(Bytes)
  /\ \A j \in 1 .. Len(s) :
       \/ s[j] = Byte(o + j)
       \/ by \notin LineLoops /\ Byte(o + j)[2] = "tail" /\ s[j] = <<Byte(o + j)[1], "damaged">>

\* What has been read of two adjacent stretches of the wire, end to end.
LEMMA ReadsJoin ==
  ASSUME NEW by, NEW s, NEW t, NEW o \in Nat, Reads(s, o, by), Reads(t, o + Len(s), by)
  PROVE  Reads(s \o t, o, by) /\ Len(s \o t) = Len(s) + Len(t)
<1>1. s \in Seq(Bytes) /\ t \in Seq(Bytes) /\ Len(s) \in Nat /\ Len(t) \in Nat
  BY DEF Reads
<1>2. /\ s \o t \in Seq(Bytes) /\ Len(s \o t) = Len(s) + Len(t)
      /\ \A i \in 1 .. Len(s) + Len(t) : (s \o t)[i] = IF i <= Len(s) THEN s[i] ELSE t[i - Len(s)]
  BY <1>1, ConcatProperties
<1> DEFINE OK(b, p) == \/ b = Byte(p)
                       \/ by \notin LineLoops /\ Byte(p)[2] = "tail" /\ b = <<Byte(p)[1], "damaged">>
<1>3. /\ \A j \in 1 .. Len(s) : OK(s[j], o + j)
      /\ \A j \in 1 .. Len(t) : OK(t[j], o + Len(s) + j)
  BY DEF Reads
<1> HIDE DEF OK
<1>4. ASSUME NEW j \in 1 .. Len(s) + Len(t) PROVE OK((s \o t)[j], o + j)
  <2>1. CASE j <= Len(s)
    <3>1. (s \o t)[j] = s[j] /\ j \in 1 .. Len(s)
      BY <1>1, <1>2, <2>1
    <3> QED BY <1>3, <3>1
  <2>2. CASE j > Len(s)
    <3>1. /\ (s \o t)[j] = t[j - Len(s)] /\ j - Len(s) \in 1 .. Len(t)
          /\ o + Len(s) + (j - Len(s)) = o + j
      BY <1>1, <1>2, <2>2
    <3>2. OK(t[j - Len(s)], o + Len(s) + (j - Len(s)))
      BY <1>3, <3>1
    <3> QED BY <3>1, <3>2
  <2>3. j <= Len(s) \/ j > Len(s)
    BY <1>1
  <2> QED BY <2>1, <2>2, <2>3
<1> QED BY <1>2, <1>4 DEF Reads, OK

\* A part of what has been read.
LEMMA ReadsPart ==
  ASSUME NEW by, NEW s, NEW o \in Nat, Reads(s, o, by), NEW m \in Nat \ {0}, NEW n \in Nat, n <= Len(s)
  PROVE  /\ Reads(SubSeq(s, m, n), o + m - 1, by)
         /\ Len(SubSeq(s, m, n)) = IF m <= n THEN n - m + 1 ELSE 0
<1>1. s \in Seq(Bytes) /\ Len(s) \in Nat
  BY DEF Reads
<1>2. \A i \in m .. n : s[i] \in Bytes
  BY <1>1
<1>3. /\ SubSeq(s, m, n) \in Seq(Bytes)
      /\ Len(SubSeq(s, m, n)) = IF m <= n THEN n - m + 1 ELSE 0
      /\ \A i \in 1 .. n - m + 1 : SubSeq(s, m, n)[i] = s[m + i - 1]
  BY <1>1, <1>2, SubSeqProperties
<1> DEFINE t == SubSeq(s, m, n)
           OK(b, p) == \/ b = Byte(p)
                       \/ by \notin LineLoops /\ Byte(p)[2] = "tail" /\ b = <<Byte(p)[1], "damaged">>
<1>4. \A j \in 1 .. Len(s) : OK(s[j], o + j)
  BY DEF Reads
<1> HIDE DEF OK, t
<1>5. ASSUME NEW i \in 1 .. Len(t) PROVE OK(t[i], (o + m - 1) + i)
  <2>1. t[i] = s[m + i - 1] /\ m + i - 1 \in 1 .. Len(s) /\ o + (m + i - 1) = (o + m - 1) + i
    BY <1>1, <1>3 DEF t
  <2> QED BY <1>4, <2>1
<1>6. t \in Seq(Bytes)
  BY <1>3 DEF t
<1>7. Reads(t, o + m - 1, by)
  BY <1>5, <1>6 DEF Reads, OK
<1> QED BY <1>3, <1>7 DEF t

\* The kind and the line of a byte, whether damaged or not.
LEMMA ReadsBytes ==
  ASSUME NEW by, NEW s, NEW q \in Nat, Reads(s, 3 * q, by), NEW j \in 1 .. Len(s)
  PROVE  /\ s[j][1] = (3 * q + j + 2) \div 3
         /\ s[j][2] = "newline" <=> j % 3 = 0
         /\ s[j][2] = "head" <=> j % 3 = 1
         /\ by \in LineLoops => s[j][2] # "damaged"
<1>1. j \in Nat /\ 3 * q + j \in Nat /\ (3 * q + j) % 3 = j % 3
  BY DEF Reads
<1>2. Byte(3 * q + j) = <<(3 * q + j + 2) \div 3,
                          IF j % 3 = 0 THEN "newline" ELSE IF j % 3 = 1 THEN "head" ELSE "tail">>
  BY <1>1 DEF Byte
<1>3. CASE s[j] = Byte(3 * q + j)
  BY <1>2, <1>3
<1>4. CASE by \notin LineLoops /\ Byte(3 * q + j)[2] = "tail" /\ s[j] = <<Byte(3 * q + j)[1], "damaged">>
  BY <1>2, <1>4
<1> QED BY <1>3, <1>4 DEF Reads

\* What the network brings, decoded.
LEMMA DecodedReads ==
  ASSUME script \in Seq(Lines), NEW n \in Nat, n <= Size, NEW a \in Nat, a < n
  PROVE  LET t == Decoded(SubSeq(Wire, a + 1, n)) IN Reads(t, a, adapter) /\ Len(t) = n - a
<1> DEFINE chunk == SubSeq(Wire, a + 1, n)
<1>1. /\ Wire \in Seq(Bytes) /\ Len(Wire) = Size /\ Size \in Nat
      /\ \A p \in 1 .. Size : Wire[p] = Byte(p)
  BY WireIs
<1>2. \A p \in a + 1 .. n : Wire[p] \in Bytes
  BY <1>1
<1>3. /\ chunk \in Seq(Bytes) /\ Len(chunk) = n - a
      /\ \A i \in 1 .. n - a : chunk[i] = Byte(a + i)
  <2>1. /\ chunk \in Seq(Bytes)
        /\ Len(chunk) = IF a + 1 <= n THEN n - (a + 1) + 1 ELSE 0
        /\ \A i \in 1 .. n - (a + 1) + 1 : chunk[i] = Wire[(a + 1) + i - 1]
    BY <1>2, SubSeqProperties
  <2>2. ASSUME NEW i \in 1 .. n - a PROVE chunk[i] = Byte(a + i)
    <3>1. a + i \in 1 .. Size /\ (a + 1) + i - 1 = a + i /\ i \in 1 .. n - (a + 1) + 1
      BY <1>1
    <3>2. chunk[i] = Wire[a + i]
      BY <2>1, <3>1
    <3> QED BY <1>1, <3>1, <3>2
  <2> QED BY <2>1, <2>2
<1> HIDE DEF chunk
<1>4. 1 \in 1 .. n - a
  OBVIOUS
<1>5. CASE ~(chunk[1][2] = "tail" /\ ~DecodesLines)
  <2>1. Decoded(chunk) = chunk
    BY <1>5 DEF Decoded
  <2> QED BY <1>3, <2>1 DEF Reads, DecodesLines, LineLoops, chunk
<1>6. CASE chunk[1][2] = "tail" /\ ~DecodesLines
  <2> DEFINE first == <<<<chunk[1][1], "damaged">>>>
  <2>1. Decoded(chunk) = first \o Tail(chunk)
    BY <1>6 DEF Decoded
  <2>2. chunk[1] = Byte(a + 1) /\ chunk[1] \in Bytes
    BY <1>3, <1>4
  <2>3. first \in Seq(Bytes) /\ Len(first) = 1 /\ first[1] = <<Byte(a + 1)[1], "damaged">>
    BY <2>2 DEF Bytes
  <2>4. Reads(first, a, adapter)
    <3>1. \A j \in 1 .. 1 : j = 1
      OBVIOUS
    <3>2. Byte(a + 1)[2] = "tail"
      BY <1>6, <2>2
    <3> HIDE DEF first
    <3> QED BY <1>6, <2>3, <3>1, <3>2 DEF Reads, DecodesLines, LineLoops
  <2>5. chunk # <<>>
    BY <1>3
  <2>6. /\ Tail(chunk) \in Seq(Bytes) /\ Len(Tail(chunk)) = Len(chunk) - 1
        /\ \A i \in 1 .. Len(Tail(chunk)) : Tail(chunk)[i] = chunk[i + 1]
    BY <1>3, <2>5, HeadTailProperties
  <2>7. ASSUME NEW i \in 1 .. Len(Tail(chunk)) PROVE Tail(chunk)[i] = Byte((a + 1) + i)
    <3>1. i + 1 \in 1 .. n - a /\ (a + 1) + i = a + (i + 1)
      BY <1>3, <2>6
    <3>2. Tail(chunk)[i] = chunk[i + 1] /\ chunk[i + 1] = Byte(a + (i + 1))
      BY <1>3, <2>6, <3>1
    <3> QED BY <3>1, <3>2
  <2>8. Reads(Tail(chunk), a + 1, adapter)
    BY <2>6, <2>7 DEF Reads, DecodesLines, LineLoops
  <2> HIDE DEF first
  <2>9. Reads(first \o Tail(chunk), a, adapter) /\ Len(first \o Tail(chunk)) = Len(first) + Len(Tail(chunk))
    <3>1. a + Len(first) = a + 1
      BY <2>3
    <3> QED BY <2>4, <2>8, <3>1, ReadsJoin
  <2>10. Len(first \o Tail(chunk)) = n - a
    BY <1>3, <2>3, <2>6, <2>9
  <2> QED BY <2>1, <2>9, <2>10 DEF chunk
<1> QED BY <1>5, <1>6

\* The multiples of three in order.
LEMMA OrderedMultiples ==
  ASSUME NEW m \in Nat
  PROVE  Ordered({3 * k : k \in 1 .. m}) = [k \in 1 .. m |-> 3 * k]
<1> DEFINE S == {3 * k : k \in 1 .. m}
           g == [k \in 1 .. m |-> 3 * k]
<1>1. Cardinality(S) = m
  <2>1. g \in Bijection(1 .. m, S)
    <3>1. g \in [1 .. m -> S]
      OBVIOUS
    <3>2. \A a, b \in 1 .. m : g[a] = g[b] => a = b
      OBVIOUS
    <3>3. \A t \in S : \E s \in 1 .. m : g[s] = t
      OBVIOUS
    <3> QED BY <3>1, <3>2, <3>3 DEF Bijection, Injection, Surjection, IsInjective
  <2>2. ExistsBijection(1 .. m, S)
    BY <2>1 DEF ExistsBijection
  <2>3. IsFiniteSet(1 .. m) /\ Cardinality(1 .. m) = m
    BY FS_Interval
  <2> QED BY <2>2, <2>3, FS_Bijection
<1> DEFINE Rising(f) == f \in [1 .. m -> S] /\ \A j, k \in 1 .. m : j < k => f[j] < f[k]
<1>2. Rising(g)
  OBVIOUS
<1>3. ASSUME NEW f, Rising(f) PROVE f = g
  <2>1. ASSUME NEW k \in 1 .. m PROVE f[k] \in Int /\ f[k] \in S /\ f[k] % 3 = 0 /\ f[k] >= 3 /\ f[k] <= 3 * m
    <3>1. f[k] \in S
      BY <1>3
    <3>2. PICK j \in 1 .. m : f[k] = 3 * j
      BY <3>1
    <3> QED BY <3>1, <3>2
  <2>2. \A j, k \in 1 .. m : j < k => f[j] < f[k]
    BY <1>3
  <2> HIDE DEF Rising, S, g
  <2> DEFINE Up == {k \in 1 .. m : f[k] >= 3 * k}
             Down == {i \in 1 .. m : f[m - i + 1] <= 3 * (m - i + 1)}
  <2>3. 1 .. m \subseteq Up
    <3>1. m # 0 => 1 \in Up
      BY <2>1
    <3>2. ASSUME NEW k \in 1 .. m - 1, k \in Up PROVE k + 1 \in Up
      <4>1. k \in 1 .. m /\ k + 1 \in 1 .. m /\ k < k + 1
        OBVIOUS
      <4>2. f[k] < f[k + 1] /\ f[k] >= 3 * k
        BY <2>2, <3>2, <4>1
      <4>3. f[k + 1] % 3 = 0 /\ f[k + 1] \in Int /\ f[k] \in Int
        BY <2>1, <4>1
      <4>4. f[k + 1] >= 3 * (k + 1)
        BY <4>2, <4>3
      <4> QED BY <4>1, <4>4
    <3> HIDE DEF Up
    <3> QED BY <3>1, <3>2, AllPlaces
  <2>4. 1 .. m \subseteq Down
    <3>1. m # 0 => 1 \in Down
      BY <2>1
    <3>2. ASSUME NEW i \in 1 .. m - 1, i \in Down PROVE i + 1 \in Down
      <4> DEFINE k == m - (i + 1) + 1
      <4>1. k \in 1 .. m /\ k + 1 \in 1 .. m /\ k < k + 1 /\ m - i + 1 = k + 1
        OBVIOUS
      <4>2. f[k] < f[k + 1] /\ f[k + 1] <= 3 * (k + 1)
        BY <2>2, <3>2, <4>1
      <4>3. f[k] % 3 = 0 /\ f[k + 1] \in Int /\ f[k] \in Int
        BY <2>1, <4>1
      <4>4. f[k] <= 3 * k
        BY <4>2, <4>3
      <4> QED BY <4>4
    <3> HIDE DEF Down
    <3> QED BY <3>1, <3>2, AllPlaces
  <2>5. ASSUME NEW k \in 1 .. m PROVE f[k] = 3 * k
    <3>1. m - k + 1 \in 1 .. m /\ m - (m - k + 1) + 1 = k
      OBVIOUS
    <3>2. f[k] <= 3 * k
      BY <2>4, <3>1
    <3>3. f[k] >= 3 * k
      BY <2>3
    <3> QED BY <2>1, <3>2, <3>3
  <2> QED BY <1>3, <2>5 DEF Rising, g
<1>4. Ordered(S) = CHOOSE f : Rising(f)
  <2>1. Ordered(S) = CHOOSE f \in [1 .. m -> S] : \A j, k \in DOMAIN f : j < k => f[j] < f[k]
    BY <1>1 DEF Ordered
  <2> QED BY <2>1
<1>5. Ordered(S) = g
  <2> HIDE DEF Rising, g, S
  <2> QED BY <1>2, <1>3, <1>4
<1> QED BY <1>5

\* A complete line, without its newline.
IsLine(piece, i, by) == Reads(piece, 3 * (i - 1), by) /\ Len(piece) = 2

\* Splitting a text that starts with a line.
LEMMA SplitText ==
  ASSUME NEW by, NEW s, NEW q \in Nat, Reads(s, 3 * q, by)
  PROVE  /\ Len(Complete(s)) = Len(s) \div 3 /\ Complete(s) \in Seq(Seq(Bytes))
         /\ \A k \in 1 .. Len(s) \div 3 : IsLine(Complete(s)[k], q + k, by)
         /\ Reads(Unfinished(s), 3 * (q + (Len(s) \div 3)), by)
         /\ Len(Unfinished(s)) = Len(s) - 3 * (Len(s) \div 3)
<1> DEFINE n == Len(s)
           m == Len(s) \div 3
<1>1. s \in Seq(Bytes) /\ n \in Nat /\ m \in Nat /\ 3 * m <= n /\ n < 3 * m + 3 /\ DOMAIN s = 1 .. n
  BY DEF Reads
<1>2. Newlines(s) = [k \in 1 .. m |-> 3 * k]
  <2>1. {j \in 1 .. n : s[j][2] = "newline"} = {j \in 1 .. n : j % 3 = 0}
    BY ReadsBytes
  <2>2. {j \in 1 .. n : j % 3 = 0} = {3 * k : k \in 1 .. m}
    <3>1. ASSUME NEW j \in 1 .. n, j % 3 = 0 PROVE j \div 3 \in 1 .. m /\ j = 3 * (j \div 3)
      BY <1>1, <3>1
    <3>2. ASSUME NEW k \in 1 .. m PROVE 3 * k \in 1 .. n /\ (3 * k) % 3 = 0
      BY <1>1
    <3> HIDE DEF m, n
    <3> QED BY <3>1, <3>2
  <2> QED BY <1>1, <2>1, <2>2, OrderedMultiples DEF Newlines
<1> DEFINE at == [k \in 1 .. m |-> 3 * k]
<1>3. ASSUME NEW k \in 1 .. m
      PROVE  /\ (IF k = 1 THEN 1 ELSE at[k - 1] + 1) = 3 * k - 2
             /\ at[k] - 1 = 3 * k - 1
  <2>1. at[k] = 3 * k
    OBVIOUS
  <2>2. ASSUME k # 1 PROVE at[k - 1] = 3 * (k - 1)
    <3>1. k - 1 \in 1 .. m
      BY <1>1, <2>2
    <3> QED BY <3>1
  <2> HIDE DEF at, m
  <2> QED BY <1>1, <2>1, <2>2
<1>4. Complete(s) = [k \in 1 .. m |-> SubSeq(s, 3 * k - 2, 3 * k - 1)]
  <2>1. Newlines(s) = at /\ DOMAIN at = 1 .. m
    BY <1>2
  <2>2. Complete(s) = [k \in 1 .. m |-> SubSeq(s, IF k = 1 THEN 1 ELSE at[k - 1] + 1, at[k] - 1)]
    <3> HIDE DEF at, m
    <3> QED BY <2>1 DEF Complete
  <2> HIDE DEF at, m
  <2> QED BY <1>3, <2>2
<1>5. ASSUME NEW k \in 1 .. m PROVE IsLine(SubSeq(s, 3 * k - 2, 3 * k - 1), q + k, by)
  <2>1. /\ 3 * k - 2 \in Nat \ {0} /\ 3 * k - 1 \in Nat /\ 3 * k - 1 <= Len(s) /\ 3 * q \in Nat
        /\ 3 * q + (3 * k - 2) - 1 = 3 * ((q + k) - 1)
        /\ (IF 3 * k - 2 <= 3 * k - 1 THEN 3 * k - 1 - (3 * k - 2) + 1 ELSE 0) = 2
    BY <1>1
  <2>2. /\ Reads(SubSeq(s, 3 * k - 2, 3 * k - 1), 3 * q + (3 * k - 2) - 1, by)
        /\ Len(SubSeq(s, 3 * k - 2, 3 * k - 1))
             = IF 3 * k - 2 <= 3 * k - 1 THEN 3 * k - 1 - (3 * k - 2) + 1 ELSE 0
    BY <2>1, ReadsPart
  <2> QED BY <2>1, <2>2 DEF IsLine
<1>6. \A k \in 1 .. m : IsLine(Complete(s)[k], q + k, by)
  BY <1>4, <1>5
<1>7. Complete(s) \in Seq(Seq(Bytes)) /\ Len(Complete(s)) = m
  <2>1. \A k \in 1 .. m : SubSeq(s, 3 * k - 2, 3 * k - 1) \in Seq(Bytes)
    BY <1>5 DEF IsLine, Reads
  <2> HIDE DEF m
  <2> QED BY <1>1, <1>4, <2>1
<1>8. Unfinished(s) = SubSeq(s, 3 * m + 1, n)
  <2>1. at = <<>> <=> m = 0
    BY <1>1
  <2>2. m # 0 => Last(at) = 3 * m
    BY <1>1 DEF Last
  <2>3. (IF at = <<>> THEN 0 ELSE Last(at)) + 1 = 3 * m + 1
    <3> HIDE DEF at, m
    <3> QED BY <1>1, <2>1, <2>2
  <2> QED BY <1>2, <2>3 DEF Unfinished
<1>9. /\ Reads(Unfinished(s), 3 * (q + m), by)
      /\ Len(Unfinished(s)) = n - 3 * m
  <2>1. /\ 3 * m + 1 \in Nat \ {0} /\ 3 * q \in Nat /\ n <= Len(s)
        /\ 3 * q + (3 * m + 1) - 1 = 3 * (q + m)
        /\ (IF 3 * m + 1 <= n THEN n - (3 * m + 1) + 1 ELSE 0) = n - 3 * m
    <3>1. n <= Len(s)
      BY <1>1
    <3> HIDE DEF m, n, at
    <3> QED BY <1>1, <3>1
  <2>2. /\ Reads(SubSeq(s, 3 * m + 1, n), 3 * q + (3 * m + 1) - 1, by)
        /\ Len(SubSeq(s, 3 * m + 1, n)) = IF 3 * m + 1 <= n THEN n - (3 * m + 1) + 1 ELSE 0
    BY <1>1, <2>1, ReadsPart
  <2> QED BY <1>8, <2>1, <2>2
<1> QED BY <1>6, <1>7, <1>9

-----------------------------------------------------------------------------
(* What the client should hear *)

\* The lines a stream carries: those of the script whose newline is on the wire, or all.
LEMMA HeardIs ==
  ASSUME script \in Seq(Lines)
  PROVE  /\ Heard \in Seq(Lines)
         /\ Len(Heard) = IF closed \/ DecodesLines \/ Len(script) = 0
                         THEN Len(script) ELSE Len(script) - 1
         /\ \A i \in 1 .. Len(Heard) : Heard[i] = script[i] /\ Heard[i] \in Lines
<1>1. Len(script) \in Nat /\ (script = <<>> <=> Len(script) = 0)
  OBVIOUS
<1>2. CASE closed \/ DecodesLines \/ script = <<>>
  BY <1>1, <1>2 DEF Heard
<1>3. CASE ~(closed \/ DecodesLines \/ script = <<>>)
  <2> DEFINE n == Len(script) - 1
  <2>1. n \in Nat /\ Heard = SubSeq(script, 1, n) /\ \A i \in 1 .. n : script[i] \in Lines
    BY <1>1, <1>3 DEF Heard, Front
  <2>2. /\ Heard \in Seq(Lines) /\ Len(Heard) = IF 1 <= n THEN n - 1 + 1 ELSE 0
        /\ \A i \in 1 .. n - 1 + 1 : Heard[i] = script[1 + i - 1]
    <3>1. 1 \in Int /\ n \in Int
      BY <2>1
    <3> HIDE DEF n
    <3> QED BY <2>1, <3>1, SubSeqProperties
  <2>3. Len(Heard) = n
    <3> HIDE DEF n
    <3> QED BY <2>1, <2>2
  <2> QED BY <1>1, <1>3, <2>1, <2>2, <2>3
<1> QED BY <1>2, <1>3

\* The pieces each line is heard as.
Told == [i \in 1 .. Len(Heard) |->
           IF Reading(adapter, Heard[i]) = "chunk" THEN Chunk(adapter, i, Heard[i], FALSE) ELSE <<>>]

Stops == {i \in DOMAIN Heard : Reading(adapter, Heard[i]) \in {"return", "raise"}}

Upto == IF Stops = {} THEN Len(Heard) ELSE Min(Stops) - 1

\* Every line is heard as pieces that are whole and are not the end of the stream.
LEMMA ToldType ==
  ASSUME script \in Seq(Lines)
  PROVE  \A i \in 1 .. Len(Heard) : Told[i] \in Seq(Pieces)
<1> SUFFICES ASSUME NEW i \in 1 .. Len(Heard) PROVE Told[i] \in Seq(Pieces)
  OBVIOUS
<1>1. i \in Nat /\ Heard[i] \in Lines
  BY HeardIs
<1>2. Chunk(adapter, i, Heard[i], FALSE) \in Seq(Pieces)
  BY <1>1, ChunkFacts DEF Yields
<1>3. <<>> \in Seq(Pieces)
  BY MendedSmall
<1> QED BY <1>2, <1>3 DEF Told

\* The generator reads no line past the first that ends it.
LEMMA UptoFacts ==
  ASSUME script \in Seq(Lines)
  PROVE  /\ Upto \in 0 .. Len(Heard) /\ Stops \subseteq 1 .. Len(Heard)
         /\ \A i \in Stops : Upto < i
         /\ Upto = Len(Heard) \/ Upto + 1 \in Stops
<1>1. Len(Heard) \in Nat /\ Stops \subseteq 1 .. Len(Heard)
  BY HeardIs DEF Stops
<1>2. CASE Stops = {}
  BY <1>1, <1>2 DEF Upto
<1>3. CASE Stops # {}
  <2>1. PICK n \in Stops : \A m \in Stops : ~(<<m, n>> \in OpToRel(<, Nat))
    <3>1. Stops \subseteq Nat
      BY <1>1
    <3> QED BY <1>3, <3>1, NatLessThanWellFounded, WFMin
  <2>2. Stops \subseteq Nat /\ n \in Nat
    BY <1>1
  <2>3. ASSUME NEW m \in Stops PROVE n <= m
    <3>1. ~(m < n) /\ m \in Nat
      BY <2>1, <2>2 DEF OpToRel
    <3> QED BY <2>2, <3>1
  <2>4. Min(Stops) \in Stops /\ \A m \in Stops : Min(Stops) <= m
    BY <2>3 DEF Min
  <2>5. Upto = Min(Stops) - 1
    BY <1>3 DEF Upto
  <2> DEFINE least == Min(Stops)
  <2> HIDE DEF least
  <2>6. least \in Stops /\ Upto = least - 1 /\ \A m \in Stops : least <= m
    BY <2>4, <2>5 DEF least
  <2> QED BY <1>1, <2>6
<1> QED BY <1>2, <1>3

\* What a stream means is what its lines are heard as, up to that line.
LEMMA MeaningIs ==
  ASSUME script \in Seq(Lines)
  PROVE  Meaning = Joined(Told, Upto)
<1> DEFINE f(i) == IF Reading(adapter, Heard[i]) = "chunk" THEN Chunk(adapter, i, Heard[i], FALSE) ELSE <<>>
<1>1. Meaning = FlattenSeq([i \in 1 .. Upto |-> f(i)])
  BY DEF Meaning, Upto, Stops
<1>2. Told = [i \in 1 .. Len(Heard) |-> f(i)]
  BY DEF Told
<1> HIDE DEF f
<1>3. [i \in 1 .. Upto |-> f(i)] = [i \in 1 .. Upto |-> Told[i]]
  <2>1. Upto \in 0 .. Len(Heard) /\ Len(Heard) \in Nat
    BY UptoFacts, HeardIs
  <2>2. \A i \in 1 .. Upto : Told[i] = f(i)
    BY <1>2, <2>1
  <2> QED BY <2>2
<1> QED BY <1>1, <1>3 DEF Joined

\* A shorter part of the same pieces is a prefix.
LEMMA PrefixIs ==
  ASSUME NEW S, NEW s \in Seq(S), NEW t \in Seq(S)
  PROVE  IsPrefix(s, s \o t) /\ IsPrefix(s, s) /\ IsPrefix(<<>>, t)
<1>1. ASSUME NEW u \in Seq(S) PROVE IsPrefix(s, s \o u)
  <2>1. /\ s \o u \in Seq(S) /\ Len(s \o u) = Len(s) + Len(u) /\ Len(s) \in Nat /\ Len(u) \in Nat
        /\ \A i \in 1 .. Len(s) + Len(u) : (s \o u)[i] = IF i <= Len(s) THEN s[i] ELSE u[i - Len(s)]
    BY ConcatProperties
  <2>2. SubSeq(s, 1, Len(s)) = s
    BY SubSeqFull
  <2> DEFINE n == Len(s)
             w == s \o u
  <2>3. \A i \in 1 .. n : w[i] = s[i] /\ w[i] \in S
    BY <2>1
  <2>4. n \in Nat /\ w \in Seq(S)
    BY <2>1
  <2> HIDE DEF n, w
  <2>5. /\ SubSeq(w, 1, n) \in Seq(S) /\ Len(SubSeq(w, 1, n)) = IF 1 <= n THEN n - 1 + 1 ELSE 0
        /\ \A i \in 1 .. n - 1 + 1 : SubSeq(w, 1, n)[i] = w[1 + i - 1]
    <3>1. 1 \in Int /\ n \in Int
      BY <2>4
    <3> QED BY <2>3, <3>1, SubSeqProperties
  <2>6. Len(SubSeq(w, 1, n)) = n /\ \A i \in 1 .. n : SubSeq(w, 1, n)[i] = s[i]
    BY <2>3, <2>4, <2>5
  <2>7. SubSeq(w, 1, n) = s
    BY <2>5, <2>6, SeqEqual DEF n
  <2> QED BY <2>1, <2>2, <2>7 DEF IsPrefix, n, w
<1>2. IsPrefix(s, s)
  BY <1>1, ConcatEmptySeq, EmptySeq
<1>3. IsPrefix(<<>>, t)
  <2>1. Len(<<>>) = 0 /\ Len(t) \in Nat /\ 0 <= Len(t)
    OBVIOUS
  <2>2. SubSeq(<<>>, 1, 0) = <<>> /\ SubSeq(t, 1, 0) = <<>>
    BY SubSeqEmpty
  <2> QED BY <2>1, <2>2 DEF IsPrefix
<1> QED BY <1>1, <1>2, <1>3

\* Fewer lines are heard as a prefix of what more lines are heard as.
LEMMA JoinedPrefix ==
  ASSUME NEW S, NEW N \in Nat, NEW f, \A i \in 1 .. N : f[i] \in Seq(S),
         NEW a \in 0 .. N, NEW b \in 0 .. N, a <= b
  PROVE  IsPrefix(Joined(f, a), Joined(f, b))
<1> DEFINE J(n) == Joined(f, n)
           P == {d \in Nat : a + d <= N => \E t \in Seq(S) : J(a + d) = J(a) \o t}
<1>1. /\ \A n \in 0 .. N : J(n) \in Seq(S)
      /\ \A n \in 0 .. N - 1 : J(n + 1) = J(n) \o f[n + 1]
  BY JoinedStep
<1> HIDE DEF J
<1>2. 0 \in P
  <2>1. J(a) = J(a) \o <<>> /\ <<>> \in Seq(S) /\ a + 0 = a
    BY <1>1, ConcatEmptySeq, EmptySeq
  <2> QED BY <2>1
<1>3. ASSUME NEW d \in Nat, d \in P PROVE d + 1 \in P
  <2> SUFFICES ASSUME a + (d + 1) <= N PROVE \E t \in Seq(S) : J(a + (d + 1)) = J(a) \o t
    OBVIOUS
  <2>1. a + d <= N /\ a + d \in 0 .. N - 1 /\ a + (d + 1) = (a + d) + 1 /\ (a + d) + 1 \in 1 .. N
    OBVIOUS
  <2>2. PICK t \in Seq(S) : J(a + d) = J(a) \o t
    BY <1>3, <2>1
  <2>3. J((a + d) + 1) = J(a + d) \o f[(a + d) + 1]
    BY <1>1, <2>1
  <2> DEFINE u == f[(a + d) + 1]
  <2>4. u \in Seq(S) /\ J(a) \in Seq(S)
    BY <1>1, <2>1
  <2> HIDE DEF u
  <2>5. (J(a) \o t) \o u = J(a) \o (t \o u)
    <3> DEFINE s == J(a)
    <3>1. s \in Seq(S)
      BY <2>4
    <3> HIDE DEF s
    <3>2. (s \o t) \o u = s \o (t \o u)
      BY <2>4, <3>1, ConcatAssociative
    <3> QED BY <3>2 DEF s
  <2>6. t \o u \in Seq(S)
    BY <2>4, ConcatProperties
  <2>7. J(a + (d + 1)) = J(a) \o (t \o u)
    BY <2>1, <2>2, <2>3, <2>5 DEF u
  <2> QED BY <2>6, <2>7
<1>4. b - a \in Nat /\ a + (b - a) = b /\ b <= N
  OBVIOUS
<1>5. b - a \in P
  <2> HIDE DEF P
  <2> QED BY <1>2, <1>3, <1>4, AllNaturals
<1>6. PICK t \in Seq(S) : J(b) = J(a) \o t
  BY <1>4, <1>5
<1>7. IsPrefix(J(a), J(a) \o t)
  BY <1>1, PrefixIs
<1> QED BY <1>6, <1>7 DEF J

-----------------------------------------------------------------------------
(* The invariant of a stream *)

\* The client has heard the first c lines; the next ones are ready, and what is in
\* the buffer follows them.  An adapter that decodes lines may have been handed an
\* unterminated last line.
Progress(c) ==
  /\ c + Len(ready) <= Len(Heard)
  /\ \A i \in 1 .. c : i \notin Stops
  /\ Mended(out) = Joined(Told, c)
  /\ \A j \in 1 .. Len(ready) : IsLine(ready[j], c + j, adapter)
  /\ \/ /\ Len(buffer) <= 2 /\ arrived = 3 * (c + Len(ready)) + Len(buffer)
        /\ Reads(buffer, 3 * (c + Len(ready)), adapter)
     \/ /\ DecodesLines /\ buffer = <<>> /\ arrived = Size /\ c + Len(ready) = Len(script)

\* What the adapter holds of the answer.
Held ==
  /\ script \in Seq(Lines) /\ arrived \in 0 .. Size
  /\ phase \in {"new", "sent", "open", "raised", "finished", "over", "aborted"}
  /\ buffer \in Seq(Bytes) /\ ready \in Seq(Seq(Bytes))
  /\ \A n \in 1 .. Len(buffer) : buffer[n][1] <= (arrived + 2) \div 3 /\ buffer[n][2] # "newline"
  /\ \A n \in 1 .. Len(ready) : \A k \in 1 .. Len(ready[n]) : ready[n][k][2] # "newline"

\* What the client holds of it.
Regular(s) == \A n \in 1 .. Len(s) : s[n].finish # "[DONE]"
Undamaged(s) == \A n \in 1 .. Len(s) : s[n].damaged = FALSE

Given ==
  /\ out \in Seq(Pieces)
  /\ phase # "over" => Regular(out)
  /\ DecodesLines => Undamaged(out)

\* The end of a stream.
Ended ==
  /\ Len(out) # 0 /\ out[Len(out)] = DONE
  /\ Regular(Front(out))
  /\ mode = "stream" /\ Mended(Front(out)) # Meaning => out[Len(out) - 1] = Stop

Outcome ==
  /\ phase \in {"new", "sent"} => arrived = 0 /\ buffer = <<>> /\ ready = <<>> /\ out = <<>>
  /\ phase \in {"open", "finished"} => mode # "whole"
  /\ phase = "open" => \E c \in Nat : Progress(c)
  /\ phase = "finished" => Mended(out) = Meaning
  /\ phase \in {"raised", "aborted"} => IsPrefix(Mended(out), Meaning)
  /\ phase = "over" /\ mode # "whole" => Ended

StreamInv == Held /\ Given /\ Outcome

\* The lines on the wire are those of the answer, as the request asked for them.
AnswerInv == answer \in Seq(Lines) /\ script = LinesSent(answer)

LEMMA AnswerInit == Init => AnswerInv
BY ScriptsAssumption DEF Init, StreamInit, AnswerInv

LEMMA AnswerNext == AnswerInv /\ [Next]_vars => AnswerInv'
<1>1. [Next]_vars => UNCHANGED <<adapter, mode, answer, script>>
  BY DEF Next, vars, streamVars, request, StreamNext, Send, Refused, AnswersWhole, Opens, Receive, TakeLine, Breaks,
     Closes, Finish, Rescue, Abort
<1> QED BY <1>1 DEF AnswerInv, LinesSent, StreamAsked

\* Either kind of line is a line.
LEMMA EitherKind ==
  ASSUME AnswerInv
  PROVE  script \in Seq(Lines)
<1> DEFINE other == Line("other", FALSE, 0, FALSE)
<1>1. other \in Lines
  BY DEF Line, Lines
<1>2. DOMAIN answer = 1 .. Len(answer) /\ Len(answer) \in Nat
  BY DEF AnswerInv
<1> HIDE DEF other
<1>3. [i \in DOMAIN answer |-> other] \in Seq(Lines)
  BY <1>1, <1>2
<1>4. script = answer \/ script = [i \in DOMAIN answer |-> other]
  BY DEF AnswerInv, LinesSent, other
<1>5. answer \in Seq(Lines)
  BY DEF AnswerInv
<1> QED BY <1>3, <1>4, <1>5

\* What an answer means depends on the request and the script alone.
LEMMA SameAnswer ==
  ASSUME UNCHANGED <<adapter, script, closed>>
  PROVE  /\ Heard' = Heard /\ Told' = Told /\ Stops' = Stops /\ Upto' = Upto /\ Meaning' = Meaning
         /\ Size' = Size /\ Wire' = Wire /\ (DecodesLines' <=> DecodesLines)
<1>1. DecodesLines' <=> DecodesLines
  BY DEF DecodesLines
<1>2. Heard' = Heard
  BY <1>1 DEF Heard
<1>3. Told' = Told /\ Stops' = Stops
  BY <1>2 DEF Told, Stops
<1>4. Upto' = Upto
  BY <1>2, <1>3 DEF Upto
<1>5. Meaning' = Meaning
  BY <1>2 DEF Meaning
<1>6. Size' = Size /\ Wire' = Wire
  BY DEF Size, Wire
<1> QED BY <1>1, <1>2, <1>3, <1>4, <1>5, <1>6

\* The pieces the adapters and stream_gen add themselves.
LEMMA OwnPieces ==
  /\ DONE \in Pieces /\ DONE.finish = "[DONE]" /\ DONE.damaged = FALSE
  /\ Stop \in Pieces /\ Stop.finish = "stop" /\ Stop.damaged = FALSE
  /\ LastOfAdapter \in Seq(Pieces)
<1>1. <<>> \in Seq(Nat) /\ <<>> \in Seq(Nat \X Nat) /\ <<>> \in Ids /\ "stop" \in Finishes /\ "[DONE]" \in Finishes
  BY DEF Ids, Finishes
<1>2. DONE \in Pieces /\ DONE.finish = "[DONE]" /\ DONE.damaged = FALSE
  BY <1>1 DEF DONE, Piece, Pieces
<1>3. Stop \in Pieces /\ Stop.finish = "stop" /\ Stop.damaged = FALSE
  BY <1>1 DEF Stop, Piece, Pieces
<1>4. LastOfAdapter \in Seq(Pieces)
  <2>1. LastOfAdapter = <<>> \/ LastOfAdapter = <<Stop>>
    BY DEF LastOfAdapter
  <2>2. <<>> \in Seq(Pieces) /\ <<Stop>> \in Seq(Pieces)
    BY <1>3, MendedSmall
  <2> QED BY <2>1, <2>2
<1> QED BY <1>2, <1>3, <1>4

\* An answer in one piece.
LEMMA WholeType ==
  ASSUME NEW lines \in Seq(Lines)
  PROVE  WholeAnswer(adapter, lines) \in Pieces /\ WholeAnswer(adapter, lines).damaged = FALSE
<1>1. \A i \in 1 .. Len(lines) : lines[i] \in Lines /\ i \in Nat
  OBVIOUS
<1>2. DOMAIN lines = 1 .. Len(lines) /\ Len(lines) \in Nat
  OBVIOUS
<1> DEFINE texts == [i \in 1 .. Len(lines) |-> TextsOf(i, lines[i])]
           callsOf == [i \in 1 .. Len(lines) |-> CallsOf(i, lines[i])]
<1>3. texts \in Seq(Seq(Nat))
  <2>1. \A i \in 1 .. Len(lines) : TextsOf(i, lines[i]) \in Seq(Nat)
    BY <1>1, LineParts
  <2> QED BY <1>2, <2>1
<1>4. callsOf \in Seq(Seq(Nat \X Nat))
  <2>1. \A i \in 1 .. Len(lines) : CallsOf(i, lines[i]) \in Seq(Nat \X Nat)
    BY <1>1, LineParts
  <2> QED BY <1>2, <2>1
<1>5. AllTexts(lines) = FlattenSeq(texts) /\ AllCalls(lines) = FlattenSeq(callsOf)
  BY <1>2 DEF AllTexts, AllCalls
<1> HIDE DEF texts, callsOf
<1>6. AllTexts(lines) \in Seq(Nat)
  BY <1>3, <1>5, FlattenSeqType
<1>7. AllCalls(lines) \in Seq(Nat \X Nat)
  BY <1>4, <1>5, FlattenSeqType
<1>8. [k \in DOMAIN AllCalls(lines) |-> k - 1] \in Seq(Nat)
  BY <1>7
<1> DEFINE t == AllTexts(lines)
           c == AllCalls(lines)
           e == [k \in DOMAIN AllCalls(lines) |-> k - 1]
<1>9. /\ t \in Seq(Nat) /\ c \in Seq(Nat \X Nat) /\ c \in Ids /\ e \in Ids
      /\ <<>> \in Seq(Nat) /\ <<>> \in Seq(Nat \X Nat) /\ <<>> \in Ids
      /\ {"tool_calls", "stop", "STOP"} \subseteq Finishes
  BY <1>6, <1>7, <1>8 DEF Ids, Finishes
<1>10. \E f \in {"tool_calls", "stop", "STOP"} :
         \/ WholeAnswer(adapter, lines) = Piece(<<>>, c, e, f, FALSE)
         \/ WholeAnswer(adapter, lines) = Piece(t, <<>>, <<>>, f, FALSE)
         \/ WholeAnswer(adapter, lines) = Piece(t, c, c, f, FALSE)
  <2>1. CASE adapter = "google"
    BY <2>1 DEF WholeAnswer, WholeConverted
  <2>2. CASE adapter = "cohere"
    BY <2>2 DEF WholeAnswer, WholeConverted
  <2>3. CASE adapter # "google" /\ adapter # "cohere"
    BY <2>3 DEF WholeAnswer
  <2> QED BY <2>1, <2>2, <2>3
<1> HIDE DEF t, c, e
<1>11. ASSUME NEW x \in Seq(Nat), NEW y \in Seq(Nat \X Nat), NEW z \in Ids, NEW f \in Finishes
       PROVE  Piece(x, y, z, f, FALSE) \in Pieces /\ Piece(x, y, z, f, FALSE).damaged = FALSE
  BY DEF Piece, Pieces
<1>12. PICK f \in {"tool_calls", "stop", "STOP"} :
         \/ WholeAnswer(adapter, lines) = Piece(<<>>, c, e, f, FALSE)
         \/ WholeAnswer(adapter, lines) = Piece(t, <<>>, <<>>, f, FALSE)
         \/ WholeAnswer(adapter, lines) = Piece(t, c, c, f, FALSE)
  BY <1>10
<1>13. f \in Finishes
  BY <1>9
<1>14. Piece(<<>>, c, e, f, FALSE) \in Pieces /\ Piece(<<>>, c, e, f, FALSE).damaged = FALSE
  BY <1>9, <1>11, <1>13
<1>15. Piece(t, <<>>, <<>>, f, FALSE) \in Pieces /\ Piece(t, <<>>, <<>>, f, FALSE).damaged = FALSE
  BY <1>9, <1>11, <1>13
<1>16. Piece(t, c, c, f, FALSE) \in Pieces /\ Piece(t, c, c, f, FALSE).damaged = FALSE
  BY <1>9, <1>11, <1>13
<1> QED BY <1>12, <1>14, <1>15, <1>16

\* What a line may do to a stream.
LEMMA ReadingType ==
  ASSUME NEW line \in Lines
  PROVE  Reading(adapter, line) \in {"skip", "raise", "return", "chunk"}
<1>1. line.kind \in {"data", "empty", "bad", "other", "done"}
  BY DEF Lines
<1>2. CASE line.kind = "other"
  BY <1>2 DEF Reading
<1>3. CASE line.kind = "bad"
  BY <1>3 DEF Reading
<1>4. CASE line.kind = "done"
  <2>1. Reading(adapter, line)
          = CASE adapter = "google" -> "raise" [] adapter = "cohere" -> "skip" [] OTHER -> "return"
    BY <1>4 DEF Reading
  <2> QED BY <2>1
<1>5. CASE line.kind = "empty"
  BY <1>5 DEF Reading
<1>6. CASE line.kind = "data"
  BY <1>6 DEF Reading
<1> QED BY <1>1, <1>2, <1>3, <1>4, <1>5, <1>6

\* A complete line reads as the line it is.
LEMMA ReadLine ==
  ASSUME NEW c \in Nat, NEW piece, IsLine(piece, c + 1, adapter)
  PROVE  /\ Read(piece) = script[c + 1] /\ piece[1][1] = c + 1
         /\ DecodesLines => ~ \E n \in DOMAIN piece : piece[n][2] = "damaged"
<1>1. Reads(piece, 3 * c, adapter) /\ Len(piece) = 2 /\ piece \in Seq(Bytes)
  <2>1. 3 * ((c + 1) - 1) = 3 * c
    OBVIOUS
  <2> QED BY <2>1 DEF IsLine, Reads
<1>2. 1 \in 1 .. Len(piece) /\ 1 % 3 = 1 /\ (3 * c + 1 + 2) \div 3 = c + 1
  BY <1>1
<1>3. piece[1][1] = c + 1 /\ piece[1][2] = "head"
  BY <1>1, <1>2, ReadsBytes
<1>4. piece # <<>>
  BY <1>1, EmptySeq
<1>5. Read(piece) = script[c + 1]
  BY <1>1, <1>3, <1>4 DEF Read
<1>6. ASSUME DecodesLines, NEW n \in DOMAIN piece PROVE piece[n][2] # "damaged"
  <2>1. n \in 1 .. Len(piece) /\ adapter \in LineLoops
    BY <1>1, <1>6 DEF DecodesLines, LineLoops
  <2> QED BY <1>1, <2>1, ReadsBytes
<1> QED BY <1>3, <1>5, <1>6

\* Where the first line that ends the generator is.
LEMMA UptoIs ==
  ASSUME script \in Seq(Lines), NEW c \in Nat, c <= Len(Heard), \A i \in 1 .. c : i \notin Stops
  PROVE  /\ c <= Upto
         /\ c + 1 \in Stops \/ c = Len(Heard) => Upto = c
<1>1. Upto \in 0 .. Len(Heard) /\ Stops \subseteq 1 .. Len(Heard) /\ Len(Heard) \in Nat
  BY UptoFacts, HeardIs
<1>2. (\A i \in Stops : Upto < i) /\ (Upto = Len(Heard) \/ Upto + 1 \in Stops)
  BY UptoFacts
<1>3. c <= Upto
  <2>1. CASE Upto = Len(Heard)
    BY <2>1
  <2>2. CASE Upto + 1 \in Stops
    <3>1. Upto + 1 \notin 1 .. c /\ Upto + 1 \in Nat
      BY <1>1, <2>2
    <3> QED BY <1>1, <3>1
  <2> QED BY <1>2, <2>1, <2>2
<1>4. ASSUME c + 1 \in Stops PROVE Upto = c
  BY <1>1, <1>2, <1>3, <1>4
<1>5. ASSUME c = Len(Heard) PROVE Upto = c
  BY <1>1, <1>3, <1>5
<1> QED BY <1>3, <1>4, <1>5

\* Whatever has been heard so far is a prefix of the meaning.
LEMMA ProgressPrefix ==
  ASSUME script \in Seq(Lines), NEW c \in Nat, c <= Len(Heard), \A i \in 1 .. c : i \notin Stops
  PROVE  /\ IsPrefix(Joined(Told, c), Meaning)
         /\ c + 1 \in Stops \/ c = Len(Heard) => Joined(Told, c) = Meaning
<1>1. Meaning = Joined(Told, Upto)
  BY MeaningIs
<1>2. Upto \in 0 .. Len(Heard) /\ Len(Heard) \in Nat /\ \A i \in 1 .. Len(Heard) : Told[i] \in Seq(Pieces)
  BY UptoFacts, HeardIs, ToldType
<1>3. c <= Upto /\ (c + 1 \in Stops \/ c = Len(Heard) => Upto = c)
  BY UptoIs
<1>4. IsPrefix(Joined(Told, c), Joined(Told, Upto))
  <2>1. c \in 0 .. Len(Heard)
    OBVIOUS
  <2> QED BY <1>2, <1>3, <2>1, JoinedPrefix
<1> QED BY <1>1, <1>3, <1>4

\* How many lines the client can hear, and how many bytes carry them.
LEMMA SizeIs ==
  ASSUME script \in Seq(Lines)
  PROVE  /\ Len(script) \in Nat /\ Size \in Nat /\ Len(Heard) \in Nat
         /\ Size \in {3 * Len(script), 3 * Len(script) - 1}
         /\ Len(script) = 0 => Size = 0
         /\ DecodesLines => Len(Heard) = Len(script)
         /\ ~DecodesLines /\ Size = 3 * Len(script) => Len(Heard) = Len(script)
         /\ ~DecodesLines /\ Size = 3 * Len(script) - 1 => Len(Heard) = Len(script) - 1
<1>1. Len(script) \in Nat
  OBVIOUS
<1>2. Len(Heard) \in Nat /\ Len(Heard) = IF closed \/ DecodesLines \/ Len(script) = 0
                                          THEN Len(script) ELSE Len(script) - 1
  BY HeardIs
<1>3. CASE closed \/ Len(script) = 0
  BY <1>1, <1>2, <1>3 DEF Size
<1>4. CASE ~closed /\ Len(script) # 0
  BY <1>1, <1>2, <1>4 DEF Size
<1> QED BY <1>3, <1>4

\* The next bytes arrive.
LEMMA ReceiveProgress ==
  ASSUME script \in Seq(Lines), arrived \in 0 .. Size, NEW c \in Nat, Progress(c), Receive
  PROVE  Progress(c)' /\ arrived' \in 0 .. Size /\ ready' \in Seq(Seq(Bytes))
<1> DEFINE text(n) == buffer \o Decoded(SubSeq(Wire, arrived + 1, n))
<1>1. PICK n \in arrived + 1 .. Len(Wire) :
        ready' = Complete(text(n)) /\ buffer' = Unfinished(text(n)) /\ arrived' = n
  BY DEF Receive
<1>2. Len(Wire) = Size /\ Size \in Nat /\ arrived \in Nat
  BY WireIs
<1>3. n \in Nat /\ arrived < n /\ n <= Size
  BY <1>1, <1>2
<1>4. Len(buffer) <= 2 /\ arrived = 3 * c + Len(buffer) /\ Reads(buffer, 3 * c, adapter)
  <2>1. ready = <<>> /\ Len(ready) = 0 /\ c + 0 = c
    BY DEF Receive
  <2> QED BY <1>2, <1>3, <2>1 DEF Progress
<1> DEFINE t == Decoded(SubSeq(Wire, arrived + 1, n))
<1>5. Reads(t, arrived, adapter) /\ Len(t) = n - arrived
  BY <1>2, <1>3, DecodedReads
<1> HIDE DEF t
<1>6. Reads(buffer \o t, 3 * c, adapter) /\ Len(buffer \o t) = Len(buffer) + Len(t)
  <2>1. 3 * c \in Nat /\ 3 * c + Len(buffer) = arrived
    BY <1>4
  <2> QED BY <1>4, <1>5, <2>1, ReadsJoin
<1>7. Len(buffer) \in Nat /\ Len(buffer \o t) = n - 3 * c
  <2>1. Len(buffer) \in Nat
    BY <1>4 DEF Reads
  <2> QED BY <1>2, <1>3, <1>4, <1>5, <1>6, <2>1
<1> DEFINE m == (n - 3 * c) \div 3
<1>8. /\ Len(Complete(buffer \o t)) = m /\ Complete(buffer \o t) \in Seq(Seq(Bytes))
      /\ \A k \in 1 .. m : IsLine(Complete(buffer \o t)[k], c + k, adapter)
      /\ Reads(Unfinished(buffer \o t), 3 * (c + m), adapter)
      /\ Len(Unfinished(buffer \o t)) = (n - 3 * c) - 3 * m
  BY <1>6, <1>7, SplitText
<1>9. buffer \o t = text(n)
  BY DEF t
<1>10. /\ ready' \in Seq(Seq(Bytes)) /\ Len(ready') = m
       /\ \A k \in 1 .. m : IsLine(ready'[k], c + k, adapter)
       /\ Reads(buffer', 3 * (c + m), adapter) /\ Len(buffer') = (n - 3 * c) - 3 * m
  BY <1>1, <1>8, <1>9
<1>11. m \in Nat /\ n - 3 * c \in Nat /\ Len(buffer') <= 2 /\ n = 3 * (c + m) + Len(buffer')
  <2>1. n - 3 * c \in Nat
    BY <1>3, <1>4, <1>7
  <2>2. m \in Nat /\ (n - 3 * c) - 3 * m \in 0 .. 2
    BY <2>1
  <2> HIDE DEF m
  <2> QED BY <1>3, <1>10, <2>1, <2>2
<1> HIDE DEF m
<1>12. c + m <= Len(Heard)
  <2>1. 3 * (c + m) <= Size
    <3>1. Len(buffer') \in Nat
      BY <1>10 DEF Reads
    <3> DEFINE b == Len(buffer')
    <3>2. b \in Nat /\ n = 3 * (c + m) + b
      BY <1>11, <3>1
    <3> HIDE DEF b
    <3> QED BY <1>2, <1>3, <1>11, <3>2
  <2>2. c + m \in Nat
    BY <1>11
  <2> DEFINE k == c + m
  <2> HIDE DEF k
  <2>3. k <= Len(Heard)
    BY <2>1, <2>2, SizeIs DEF k
  <2> QED BY <2>3 DEF k
<1>13. UNCHANGED <<adapter, script, closed>> /\ out' = out
  BY DEF Receive, request
<1>14. Heard' = Heard /\ Told' = Told /\ Stops' = Stops /\ Size' = Size
  BY <1>13, SameAnswer
<1>15. (\A i \in 1 .. c : i \notin Stops') /\ Mended(out') = Joined(Told', c)
  BY <1>13, <1>14 DEF Progress
<1>16. arrived' = 3 * (c + Len(ready')) + Len(buffer') /\ Reads(buffer', 3 * (c + Len(ready')), adapter')
  BY <1>1, <1>10, <1>11, <1>13
<1>17. Progress(c)'
  BY <1>10, <1>11, <1>12, <1>13, <1>14, <1>15, <1>16 DEF Progress
<1> QED BY <1>1, <1>3, <1>10, <1>17

\* The last line of an answer, if it has no newline.
LEMMA FlushProgress ==
  ASSUME script \in Seq(Lines), NEW c \in Nat, Progress(c), Closes, DecodesLines, buffer # <<>>
  PROVE  Progress(c)'
<1>1. /\ ready = <<>> /\ arrived = Len(Wire) /\ ready' = <<buffer>> /\ buffer' = <<>>
      /\ arrived' = arrived /\ out' = out /\ UNCHANGED <<adapter, script, closed>>
  BY DEF Closes, request
<1>2. Len(Wire) = Size
  BY WireIs
<1>3. Len(buffer) <= 2 /\ Size = 3 * c + Len(buffer) /\ Reads(buffer, 3 * c, adapter)
  <2>1. Len(ready) = 0 /\ c + 0 = c
    BY <1>1
  <2> QED BY <1>1, <1>2, <2>1 DEF Progress
<1>4. Len(buffer) \in 1 .. 2 /\ buffer \in Seq(Bytes)
  <2>1. buffer \in Seq(Bytes)
    BY <1>3 DEF Reads
  <2>2. Len(buffer) \in Nat /\ Len(buffer) # 0
    BY <2>1, EmptySeq
  <2>3. Len(buffer) <= 2
    BY <1>3
  <2> DEFINE b == Len(buffer)
  <2> HIDE DEF b
  <2>4. b \in Nat /\ b # 0 /\ b <= 2
    BY <2>2, <2>3 DEF b
  <2>5. b \in 1 .. 2
    BY <2>4
  <2> QED BY <2>1, <2>5 DEF b
<1>5. Len(buffer) = 2 /\ c + 1 = Len(script) /\ Len(Heard) = Len(script)
  <2> DEFINE b == Len(buffer)
  <2>1. Size = 3 * c + b
    BY <1>3
  <2>2. b \in 1 .. 2
    BY <1>4
  <2> HIDE DEF b
  <2>3. b = 2 /\ c + 1 = Len(script) /\ Len(Heard) = Len(script)
    BY <2>1, <2>2, SizeIs
  <2> QED BY <2>3 DEF b
<1>6. IsLine(buffer, c + 1, adapter)
  <2>1. 3 * ((c + 1) - 1) = 3 * c
    OBVIOUS
  <2> QED BY <1>3, <1>5, <2>1 DEF IsLine
<1>7. Heard' = Heard /\ Told' = Told /\ Stops' = Stops /\ Size' = Size /\ DecodesLines'
  BY <1>1, SameAnswer
<1>8. Len(ready') = 1 /\ ready'[1] = buffer /\ \A j \in 1 .. 1 : j = 1
  BY <1>1
<1>9. \A j \in 1 .. Len(ready') : IsLine(ready'[j], c + j, adapter')
  BY <1>1, <1>6, <1>8
<1>10. (\A i \in 1 .. c : i \notin Stops') /\ Mended(out') = Joined(Told', c)
  BY <1>1, <1>7 DEF Progress
<1>11. c + Len(ready') <= Len(Heard') /\ c + Len(ready') = Len(script') /\ arrived' = Size'
  <2>1. Len(Heard) \in Nat
    BY SizeIs
  <2> QED BY <1>1, <1>2, <1>5, <1>7, <1>8, <2>1
<1> QED BY <1>1, <1>7, <1>9, <1>10, <1>11 DEF Progress

\* The stream has ended by itself: every line has been heard.
LEMMA CloseMeaning ==
  ASSUME script \in Seq(Lines), NEW c \in Nat, Progress(c), Closes, ~(DecodesLines /\ buffer # <<>>)
  PROVE  Mended(out) = Meaning
<1>1. ready = <<>> /\ arrived = Size
  BY WireIs DEF Closes
<1>2. c = Len(Heard)
  <2>1. Len(ready) = 0 /\ c + 0 = c
    BY <1>1
  <2>2. CASE DecodesLines /\ buffer = <<>> /\ c = Len(script)
    BY <2>2, SizeIs
  <2>3. CASE Len(buffer) <= 2 /\ Size = 3 * c + Len(buffer) /\ Reads(buffer, 3 * c, adapter)
    <3>1. Len(buffer) <= 2 /\ Size = 3 * c + Len(buffer)
      BY <2>3
    <3>2. Len(buffer) \in Nat
      BY <2>3 DEF Reads
    <3>3. DecodesLines => Len(buffer) = 0
      OBVIOUS
    <3> DEFINE b == Len(buffer)
    <3> HIDE DEF b
    <3>4. b <= 2 /\ Size = 3 * c + b /\ b \in Nat /\ (DecodesLines => b = 0)
      BY <3>1, <3>2, <3>3 DEF b
    <3> QED BY <3>4, SizeIs
  <2> QED BY <1>1, <2>1, <2>2, <2>3 DEF Progress
<1>3. Joined(Told, c) = Meaning
  <2>1. c <= Len(Heard) /\ \A i \in 1 .. c : i \notin Stops
    BY <1>2, SizeIs DEF Progress
  <2> QED BY <1>2, <2>1, ProgressPrefix
<1> QED BY <1>3 DEF Progress

\* What holds of every piece of two sequences holds of every piece of both.
LEMMA BothRegular ==
  ASSUME NEW s \in Seq(Pieces), NEW t \in Seq(Pieces)
  PROVE  /\ s \o t \in Seq(Pieces)
         /\ Regular(s) /\ Regular(t) => Regular(s \o t)
         /\ Undamaged(s) /\ Undamaged(t) => Undamaged(s \o t)
<1>1. /\ s \o t \in Seq(Pieces) /\ Len(s \o t) = Len(s) + Len(t) /\ Len(s) \in Nat /\ Len(t) \in Nat
      /\ \A i \in 1 .. Len(s) + Len(t) : (s \o t)[i] = IF i <= Len(s) THEN s[i] ELSE t[i - Len(s)]
  BY ConcatProperties
<1>2. ASSUME NEW n \in 1 .. Len(s) + Len(t)
      PROVE  \/ n \in 1 .. Len(s) /\ (s \o t)[n] = s[n]
             \/ n - Len(s) \in 1 .. Len(t) /\ (s \o t)[n] = t[n - Len(s)]
  BY <1>1
<1>3. ASSUME Regular(s), Regular(t) PROVE Regular(s \o t)
  BY <1>1, <1>2, <1>3 DEF Regular
<1>4. ASSUME Undamaged(s), Undamaged(t) PROVE Undamaged(s \o t)
  BY <1>1, <1>2, <1>4 DEF Undamaged
<1> QED BY <1>1, <1>3, <1>4

\* What a line adds for the client.
LEMMA TakenLine ==
  ASSUME script \in Seq(Lines), out \in Seq(Pieces), NEW c \in Nat, Progress(c), TakeLine,
         ready \in Seq(Seq(Bytes))
  PROVE  /\ c + 1 \in 1 .. Len(Heard) /\ Heard[c + 1] = script[c + 1] /\ Heard[c + 1] \in Lines
         /\ \E d \in BOOLEAN :
              /\ DecodesLines => d = FALSE
              /\ out' = IF Reading(adapter, Heard[c + 1]) = "chunk"
                        THEN out \o Chunk(adapter, c + 1, Heard[c + 1], d) ELSE out
         /\ phase' = CASE Reading(adapter, Heard[c + 1]) = "raise"  -> "raised"
                       [] Reading(adapter, Heard[c + 1]) = "return" -> "finished"
                       [] OTHER -> "open"
<1>1. ready # <<>> /\ phase = "open" /\ Len(ready) \in Nat \ {0} /\ Head(ready) = ready[1]
  BY EmptySeq DEF TakeLine
<1>2. IsLine(ready[1], c + 1, adapter) /\ c + 1 <= Len(Heard)
  <2>1. Len(Heard) \in Nat /\ c + Len(ready) <= Len(Heard)
    BY SizeIs DEF Progress
  <2>2. c + 1 <= Len(Heard)
    BY <1>1, <2>1
  <2>3. 1 \in 1 .. Len(ready)
    BY <1>1
  <2> QED BY <2>2, <2>3 DEF Progress
<1>3. c + 1 \in 1 .. Len(Heard) /\ Heard[c + 1] = script[c + 1] /\ Heard[c + 1] \in Lines
  <2>1. c + 1 \in 1 .. Len(Heard)
    BY <1>2, SizeIs
  <2> QED BY <2>1, HeardIs
<1> DEFINE piece == Head(ready)
           damaged == \E n \in DOMAIN piece : piece[n][2] = "damaged"
<1>4. Read(piece) = Heard[c + 1] /\ piece[1][1] = c + 1 /\ (DecodesLines => ~damaged)
  <2> HIDE DEF piece
  <2>1. IsLine(piece, c + 1, adapter)
    BY <1>1, <1>2 DEF piece
  <2> QED BY <1>3, <2>1, ReadLine
<1>5. /\ out' = IF Reading(adapter, Read(piece)) = "chunk"
                THEN out \o Chunk(adapter, piece[1][1], Read(piece), damaged) ELSE out
      /\ phase' = CASE Reading(adapter, Read(piece)) = "raise"  -> "raised"
                    [] Reading(adapter, Read(piece)) = "return" -> "finished"
                    [] OTHER -> "open"
  BY <1>1 DEF TakeLine
<1>6. damaged \in BOOLEAN
  OBVIOUS
<1> HIDE DEF piece, damaged
<1> QED BY <1>3, <1>4, <1>5, <1>6

\* The pieces of one more line.
LEMMA ToldMore ==
  ASSUME script \in Seq(Lines), NEW c \in Nat, c + 1 \in 1 .. Len(Heard)
  PROVE  /\ Told[c + 1] \in Seq(Pieces) /\ Joined(Told, c) \in Seq(Pieces)
         /\ Joined(Told, c + 1) = Joined(Told, c) \o Told[c + 1]
<1>1. Len(Heard) \in Nat /\ \A i \in 1 .. Len(Heard) : Told[i] \in Seq(Pieces)
  BY HeardIs, ToldType
<1> DEFINE n == Len(Heard)
<1>2. n \in Nat /\ c \in 0 .. n - 1 /\ c \in 0 .. n /\ c + 1 \in 1 .. n
  BY <1>1
<1>3. \A i \in 1 .. n : Told[i] \in Seq(Pieces)
  BY <1>1
<1> DEFINE f == Told
<1>4. n \in Nat /\ \A i \in 1 .. n : f[i] \in Seq(Pieces)
  BY <1>2, <1>3
<1> HIDE DEF n, f
<1>5. /\ \A k \in 0 .. n : Joined(f, k) \in Seq(Pieces)
      /\ \A k \in 0 .. n - 1 : Joined(f, k + 1) = Joined(f, k) \o f[k + 1]
  BY <1>4, JoinedStep
<1>6. Joined(f, c) \in Seq(Pieces) /\ Joined(f, c + 1) = Joined(f, c) \o f[c + 1]
  BY <1>2, <1>5
<1> QED BY <1>2, <1>3, <1>6 DEF f

\* What TakeLine hands on, and when it does not end the stream.
LEMMA TakeOut ==
  ASSUME script \in Seq(Lines), out \in Seq(Pieces), NEW c \in Nat, Progress(c), TakeLine,
         ready \in Seq(Seq(Bytes))
  PROVE  /\ out' \in Seq(Pieces)
         /\ Regular(out) => Regular(out')
         /\ DecodesLines /\ Undamaged(out) => Undamaged(out')
         /\ phase' \in {"open", "finished", "raised"}
         /\ phase' = "open" => c + 1 \notin Stops /\ Mended(out') = Joined(Told, c + 1)
         /\ phase' # "open" => c + 1 \in Stops /\ out' = out
<1> DEFINE line == Heard[c + 1]
           r == Reading(adapter, Heard[c + 1])
<1>1. c + 1 \in 1 .. Len(Heard) /\ line = script[c + 1] /\ line \in Lines
  BY TakenLine
<1>2. PICK d \in BOOLEAN : /\ DecodesLines => d = FALSE
                           /\ out' = IF r = "chunk" THEN out \o Chunk(adapter, c + 1, line, d) ELSE out
  BY TakenLine
<1>3. phase' = CASE r = "raise" -> "raised" [] r = "return" -> "finished" [] OTHER -> "open"
  BY TakenLine
<1>4. r \in {"skip", "raise", "return", "chunk"}
  BY <1>1, ReadingType
<1>5. Told[c + 1] = IF r = "chunk" THEN Chunk(adapter, c + 1, line, FALSE) ELSE <<>>
  BY <1>1 DEF Told
<1>6. c + 1 \in Stops <=> r \in {"return", "raise"}
  <2>1. c + 1 \in DOMAIN Heard
    BY <1>1, HeardIs
  <2> QED BY <2>1 DEF Stops
<1>7. /\ Told[c + 1] \in Seq(Pieces) /\ Joined(Told, c) \in Seq(Pieces)
      /\ Joined(Told, c + 1) = Joined(Told, c) \o Told[c + 1]
  BY <1>1, ToldMore
<1>8. Mended(out) = Joined(Told, c)
  BY DEF Progress
<1> HIDE DEF line, r
<1>9. CASE r = "chunk"
  <2> DEFINE t == Chunk(adapter, c + 1, line, d)
  <2> DEFINE whole == Chunk(adapter, c + 1, line, FALSE)
  <2>0. Yields(t, whole, d)
    <3>1. c + 1 \in Nat
      OBVIOUS
    <3> QED BY <1>1, <3>1, ChunkFacts
  <2>11. Told[c + 1] = whole
    BY <1>5, <1>9
  <2> HIDE DEF t, whole
  <2>1. Yields(t, Told[c + 1], d)
    BY <2>0, <2>11
  <2>2. t \in Seq(Pieces) /\ Mended(t) = Told[c + 1] /\ Regular(t) /\ (DecodesLines => Undamaged(t))
    <3>1. \A n \in 1 .. Len(t) : t[n].damaged = d /\ t[n].finish # "[DONE]"
      BY <2>1 DEF Yields
    <3>2. t \in Seq(Pieces) /\ Mended(t) = Told[c + 1]
      BY <2>1 DEF Yields
    <3>3. Regular(t)
      BY <3>1 DEF Regular
    <3>4. ASSUME DecodesLines PROVE Undamaged(t)
      <4>1. d = FALSE
        BY <1>2, <3>4
      <4> QED BY <3>1, <4>1 DEF Undamaged
    <3> QED BY <3>2, <3>3, <3>4
  <2>3. out' = out \o t
    BY <1>2, <1>9 DEF t
  <2>4. out' \in Seq(Pieces) /\ (Regular(out) => Regular(out')) /\ (DecodesLines /\ Undamaged(out) => Undamaged(out'))
    BY <2>2, <2>3, BothRegular
  <2>5. Mended(out') = Joined(Told, c + 1)
    BY <1>7, <1>8, <2>2, <2>3, MendedConcat
  <2> QED BY <1>3, <1>6, <1>9, <2>4, <2>5
<1>10. CASE r = "skip"
  <2>1. out' = out /\ Told[c + 1] = <<>> /\ phase' = "open"
    BY <1>2, <1>3, <1>5, <1>10
  <2>2. Joined(Told, c + 1) = Joined(Told, c)
    BY <1>7, <2>1, ConcatEmptySeq
  <2> QED BY <1>6, <1>8, <1>10, <2>1, <2>2
<1>11. CASE r \in {"return", "raise"}
  BY <1>2, <1>3, <1>6, <1>11
<1> QED BY <1>4, <1>9, <1>10, <1>11

\* A line that does not end the stream.
LEMMA TakeProgress ==
  ASSUME script \in Seq(Lines), out \in Seq(Pieces), NEW c \in Nat, Progress(c), TakeLine,
         ready \in Seq(Seq(Bytes)), phase' = "open"
  PROVE  Progress(c + 1)'
<1>1. ready # <<>> /\ ready' = Tail(ready) /\ UNCHANGED <<adapter, script, closed, arrived, buffer>>
  BY DEF TakeLine, request
<1>2. Len(ready) \in Nat \ {0} /\ Len(ready') = Len(ready) - 1
      /\ \A j \in 1 .. Len(ready') : ready'[j] = ready[j + 1]
  BY <1>1, EmptySeq, HeadTailProperties
<1>3. /\ Heard' = Heard /\ Told' = Told /\ Stops' = Stops /\ Size' = Size
      /\ (DecodesLines' <=> DecodesLines)
  BY <1>1, SameAnswer
<1>4. (c + 1) + Len(ready') = c + Len(ready)
  BY <1>2
<1>5. \A j \in 1 .. Len(ready') : IsLine(ready'[j], (c + 1) + j, adapter')
  <2> SUFFICES ASSUME NEW j \in 1 .. Len(ready') PROVE IsLine(ready'[j], (c + 1) + j, adapter')
    OBVIOUS
  <2>1. j + 1 \in 1 .. Len(ready) /\ c + (j + 1) = (c + 1) + j /\ ready'[j] = ready[j + 1]
    <3>1. ready'[j] = ready[j + 1]
      BY <1>2
    <3> DEFINE k == Len(ready)
    <3>2. k \in Nat /\ j \in 1 .. k - 1
      BY <1>2
    <3> HIDE DEF k
    <3>3. j + 1 \in 1 .. k /\ c + (j + 1) = (c + 1) + j
      BY <3>2
    <3> QED BY <3>1, <3>3 DEF k
  <2>2. IsLine(ready[j + 1], c + (j + 1), adapter)
    BY <2>1 DEF Progress
  <2> QED BY <1>1, <2>1, <2>2
<1>6. c + 1 \notin Stops /\ Mended(out') = Joined(Told, c + 1)
  BY TakeOut
<1>7. (\A i \in 1 .. c + 1 : i \notin Stops') /\ Mended(out') = Joined(Told', c + 1)
  <2>1. \A i \in 1 .. c : i \notin Stops
    BY DEF Progress
  <2>2. \A i \in 1 .. c + 1 : i \in 1 .. c \/ i = c + 1
    OBVIOUS
  <2> QED BY <1>3, <1>6, <2>1, <2>2
<1>8. \/ /\ Len(buffer) <= 2 /\ arrived = 3 * (c + Len(ready)) + Len(buffer)
         /\ Reads(buffer, 3 * (c + Len(ready)), adapter)
      \/ /\ DecodesLines /\ buffer = <<>> /\ arrived = Size /\ c + Len(ready) = Len(script)
  BY DEF Progress
<1>9. c + Len(ready) <= Len(Heard)
  BY DEF Progress
<1>10. \/ /\ Len(buffer') <= 2 /\ arrived' = 3 * ((c + 1) + Len(ready')) + Len(buffer')
          /\ Reads(buffer', 3 * ((c + 1) + Len(ready')), adapter')
       \/ /\ DecodesLines' /\ buffer' = <<>> /\ arrived' = Size' /\ (c + 1) + Len(ready') = Len(script')
  BY <1>1, <1>3, <1>4, <1>8
<1> QED BY <1>3, <1>4, <1>5, <1>7, <1>9, <1>10 DEF Progress

\* A line that ends it.
LEMMA TakeEnds ==
  ASSUME script \in Seq(Lines), out \in Seq(Pieces), NEW c \in Nat, Progress(c), TakeLine,
         ready \in Seq(Seq(Bytes)), phase' # "open"
  PROVE  Mended(out') = Meaning' /\ Meaning \in Seq(Pieces)
<1>1. c + 1 \in Stops /\ out' = out
  BY TakeOut
<1>2. c <= Len(Heard) /\ \A i \in 1 .. c : i \notin Stops
  <2>1. c + 1 \in 1 .. Len(Heard) /\ Len(Heard) \in Nat
    BY TakenLine, SizeIs
  <2>2. \A i \in 1 .. c : i \notin Stops
    BY DEF Progress
  <2> QED BY <2>1, <2>2
<1>3. Joined(Told, c) = Meaning
  BY <1>1, <1>2, ProgressPrefix
<1>4. Meaning' = Meaning
  <2>1. UNCHANGED <<adapter, script, closed>>
    BY DEF TakeLine, request
  <2> QED BY <2>1, SameAnswer
<1>5. Mended(out) = Joined(Told, c) /\ Mended(out) \in Seq(Pieces)
  BY MendedType DEF Progress
<1> QED BY <1>1, <1>3, <1>4, <1>5

\* A request that has not been sent holds nothing of an answer.
LEMMA StreamInvInit == Init => StreamInv
<1> SUFFICES ASSUME Init PROVE StreamInv
  OBVIOUS
<1>1. /\ script \in Seq(Lines) /\ phase = "new" /\ arrived = 0
      /\ buffer = <<>> /\ ready = <<>> /\ out = <<>>
  <2>1. script \in Seq(Lines)
    BY AnswerInit, EitherKind
  <2> QED BY <2>1 DEF Init, StreamInit
<1>2. <<>> \in Seq(Pieces) /\ <<>> \in Seq(Bytes) /\ <<>> \in Seq(Seq(Bytes)) /\ Len(<<>>) = 0
      /\ 1 .. 0 = {}
  OBVIOUS
<1>3. Size \in Nat
  BY <1>1, WireIs
<1>4. Held
  BY <1>1, <1>2, <1>3 DEF Held
<1>5. Given
  BY <1>1, <1>2 DEF Given, Regular, Undamaged
<1>6. Outcome
  BY <1>1 DEF Outcome
<1> QED BY <1>4, <1>5, <1>6 DEF StreamInv

\* The place of a byte within its line.
LEMMA Thirds ==
  ASSUME NEW q \in Nat, NEW n \in 1 .. 2
  PROVE  (3 * q + n + 2) \div 3 = q + 1 /\ n % 3 # 0
<1>1. CASE n = 1
  <2>1. (3 * q + 3) \div 3 = q + 1 /\ 3 * q + 1 + 2 = 3 * q + 3 /\ 1 % 3 = 1
    OBVIOUS
  <2> QED BY <1>1, <2>1
<1>2. CASE n = 2
  <2>1. (3 * q + 4) \div 3 = q + 1 /\ 3 * q + 2 + 2 = 3 * q + 4 /\ 2 % 3 = 2
    OBVIOUS
  <2> QED BY <1>2, <2>1
<1> QED BY <1>1, <1>2

\* The bytes an adapter may hold, while it follows a stream.
LEMMA HeldBytes ==
  ASSUME NEW c \in Nat, NEW rest, NEW lines \in Seq(Seq(Bytes)), NEW upto \in Nat, NEW by,
         \A j \in 1 .. Len(lines) : IsLine(lines[j], c + j, by),
         \/ rest = <<>>
         \/ /\ Len(rest) <= 2 /\ upto = 3 * (c + Len(lines)) + Len(rest)
            /\ Reads(rest, 3 * (c + Len(lines)), by)
  PROVE  /\ rest \in Seq(Bytes)
         /\ \A n \in 1 .. Len(rest) : rest[n][1] <= (upto + 2) \div 3 /\ rest[n][2] # "newline"
         /\ \A n \in 1 .. Len(lines) : \A k \in 1 .. Len(lines[n]) : lines[n][k][2] # "newline"
<1>1. Len(lines) \in Nat
  OBVIOUS
<1> DEFINE q == c + Len(lines)
<1>2. q \in Nat
  BY <1>1
<1>3. ASSUME NEW n \in 1 .. Len(lines), NEW k \in 1 .. Len(lines[n]) PROVE lines[n][k][2] # "newline"
  <2> DEFINE p == lines[n]
             r == c + n - 1
  <2>1. r \in Nat /\ c + n = r + 1 /\ 3 * ((r + 1) - 1) = 3 * r
    BY <1>1
  <2>2. IsLine(p, c + n, by)
    OBVIOUS
  <2> HIDE DEF p, r
  <2>3. Reads(p, 3 * r, by) /\ Len(p) = 2
    BY <2>1, <2>2 DEF IsLine
  <2>4. k \in 1 .. Len(p)
    BY DEF p
  <2>5. k % 3 # 0
    <3>1. k \in 1 .. 2
      BY <2>3, <2>4
    <3> QED BY <3>1, Thirds
  <2>6. p[k][2] # "newline"
    BY <2>1, <2>3, <2>4, <2>5, ReadsBytes
  <2> QED BY <2>6 DEF p
<1>4. CASE rest = <<>>
  <2>1. rest \in Seq(Bytes) /\ 1 .. Len(rest) = {}
    BY <1>4
  <2> QED BY <1>3, <2>1
<1>5. CASE Len(rest) <= 2 /\ upto = 3 * q + Len(rest) /\ Reads(rest, 3 * q, by)
  <2> HIDE DEF q
  <2>1. rest \in Seq(Bytes) /\ Len(rest) \in Nat
    BY <1>5 DEF Reads
  <2>2. ASSUME NEW n \in 1 .. Len(rest)
        PROVE  rest[n][1] <= (upto + 2) \div 3 /\ rest[n][2] # "newline"
    <3>1. /\ rest[n][1] = (3 * q + n + 2) \div 3
          /\ rest[n][2] = "newline" <=> n % 3 = 0
      BY <1>2, <1>5, ReadsBytes
    <3> DEFINE b == Len(rest)
    <3>2. b \in Nat /\ b <= 2 /\ upto = 3 * q + b /\ n \in 1 .. b
      BY <1>5, <2>1
    <3> HIDE DEF b
    <3>3. n \in 1 .. 2 /\ b \in 1 .. 2
      BY <3>2
    <3>4. (3 * q + n + 2) \div 3 = q + 1 /\ n % 3 # 0
      BY <1>2, <3>3, Thirds
    <3>5. (upto + 2) \div 3 = q + 1
      <4>1. (3 * q + b + 2) \div 3 = q + 1
        BY <1>2, <3>3, Thirds
      <4> QED BY <3>2, <4>1
    <3> QED BY <1>2, <3>1, <3>4, <3>5
  <2> QED BY <1>3, <2>1, <2>2
<1> QED BY <1>4, <1>5

\* Steps that touch nothing the adapter holds.
LEMMA SameHeld ==
  ASSUME Held, UNCHANGED <<adapter, script, closed, arrived, buffer, ready>>,
         phase' \in {"new", "sent", "open", "raised", "finished", "over", "aborted"}
  PROVE  Held'
<1>1. Size' = Size
  BY SameAnswer
<1> QED BY <1>1 DEF Held

\* Steps that touch nothing the client holds.
LEMMA SameGiven ==
  ASSUME Given, UNCHANGED <<adapter, out>>, phase' # "over"  => phase # "over"
  PROVE  Given'
BY DEF Given, DecodesLines, Regular, Undamaged

\* A step that follows the stream.
LEMMA HeldOf ==
  ASSUME Held, UNCHANGED <<adapter, script, closed>>, phase' = "open", arrived' \in 0 .. Size,
         ready' \in Seq(Seq(Bytes)), NEW c \in Nat, Progress(c)'
  PROVE  Held'
<1>1. Size' = Size /\ Size \in Nat
  <2>1. script \in Seq(Lines)
    BY DEF Held
  <2> QED BY <2>1, SameAnswer, WireIs
<1>2. arrived' \in Nat
  BY <1>1
<1>3. /\ buffer' \in Seq(Bytes)
      /\ \A n \in 1 .. Len(buffer') : buffer'[n][1] <= (arrived' + 2) \div 3 /\ buffer'[n][2] # "newline"
      /\ \A n \in 1 .. Len(ready') : \A k \in 1 .. Len(ready'[n]) : ready'[n][k][2] # "newline"
  <2>1. \A j \in 1 .. Len(ready') : IsLine(ready'[j], c + j, adapter')
    BY DEF Progress
  <2>2. \/ buffer' = <<>>
        \/ /\ Len(buffer') <= 2 /\ arrived' = 3 * (c + Len(ready')) + Len(buffer')
           /\ Reads(buffer', 3 * (c + Len(ready')), adapter')
    BY DEF Progress
  <2> QED BY <1>2, <2>1, <2>2, HeldBytes
<1>4. script' \in Seq(Lines)
  BY DEF Held
<1> QED BY <1>1, <1>3, <1>4 DEF Held

\* What a stream means is a sequence of pieces, and nothing is a prefix of it.
LEMMA MeaningType ==
  ASSUME script \in Seq(Lines)
  PROVE  Meaning \in Seq(Pieces) /\ IsPrefix(Meaning, Meaning)
<1>1. Meaning \in Seq(Pieces)
  <2>1. Upto \in 0 .. Len(Heard) /\ Len(Heard) \in Nat /\ \A i \in 1 .. Len(Heard) : Told[i] \in Seq(Pieces)
    BY UptoFacts, HeardIs, ToldType
  <2>2. Joined(Told, Upto) \in Seq(Pieces)
    BY <2>1, JoinedStep
  <2> QED BY <2>2, MeaningIs
<1> QED BY <1>1, PrefixIs

\* Nothing has been received yet.
LEMMA EarlyKeeps ==
  ASSUME StreamInv, Send \/ Refused \/ Opens
  PROVE  StreamInv'
<1>1. /\ UNCHANGED <<adapter, script, closed, arrived, buffer, ready, out, mode>>
      /\ phase \in {"new", "sent"}
      /\ \/ phase' \in {"sent", "raised"}
         \/ phase' = "open" /\ mode # "whole"
  BY DEF Send, Refused, Opens, Goto, SameStream, request
<1>2. Held /\ Given /\ Outcome /\ script \in Seq(Lines)
  BY DEF StreamInv, Held
<1>3. arrived = 0 /\ buffer = <<>> /\ ready = <<>> /\ out = <<>>
  BY <1>1, <1>2 DEF Outcome
<1>4. Held'
  BY <1>1, <1>2, SameHeld
<1>5. Given'
  BY <1>1, <1>2, SameGiven
<1>6. ASSUME phase' = "sent" PROVE Outcome'
  BY <1>1, <1>3, <1>6 DEF Outcome
<1>7. ASSUME phase' = "raised" PROVE Outcome'
  <2>1. IsPrefix(Mended(out'), Meaning')
    <3>1. Mended(out') = <<>> /\ Meaning' = Meaning
      BY <1>1, <1>3, MendedSmall, SameAnswer
    <3>2. Meaning \in Seq(Pieces) /\ <<>> \in Seq(Pieces)
      BY <1>2, MeaningType, MendedSmall
    <3> QED BY <3>1, <3>2, PrefixIs
  <2> QED BY <1>7, <2>1 DEF Outcome
<1>8. ASSUME phase' = "open", mode # "whole" PROVE Outcome'
  <2>1. /\ Heard' = Heard /\ Told' = Told /\ Stops' = Stops /\ Size' = Size
        /\ Len(Heard) \in Nat /\ Len(ready') = 0 /\ Len(buffer') = 0
    BY <1>1, <1>2, <1>3, SameAnswer, SizeIs
  <2>2. Mended(out') = Joined(Told', 0)
    <3>1. Joined(Told, 0) = <<>>
      <4>1. \A i \in 1 .. Len(Heard) : Told[i] \in Seq(Pieces)
        BY <1>2, ToldType
      <4> QED BY <2>1, <4>1, JoinedStep
    <3> QED BY <1>1, <1>3, <2>1, <3>1, MendedSmall
  <2>3. Reads(buffer', 0, adapter')
    <3>1. buffer' = <<>> /\ <<>> \in Seq(Bytes) /\ \A j \in 1 .. Len(<<>>) : FALSE
      BY <1>1, <1>3
    <3> QED BY <3>1 DEF Reads
  <2>4. 3 * (0 + Len(ready')) = 0 /\ 0 + Len(ready') = 0 /\ 1 .. 0 = {} /\ 1 .. Len(ready') = {}
        /\ arrived' = 0 + Len(buffer') /\ Len(buffer') <= 2
    BY <1>1, <1>3, <2>1
  <2>5. Progress(0)'
    BY <2>1, <2>2, <2>3, <2>4 DEF Progress
  <2> QED BY <1>1, <1>8, <2>5 DEF Outcome
<1>9. Outcome'
  BY <1>1, <1>6, <1>7, <1>8
<1> QED BY <1>4, <1>5, <1>9 DEF StreamInv

\* An answer in one piece.
LEMMA WholeKeeps ==
  ASSUME StreamInv, AnswerInv, AnswersWhole
  PROVE  StreamInv'
<1>1. /\ UNCHANGED <<adapter, script, closed, arrived, buffer, ready, mode>>
      /\ phase' = "over" /\ mode = "whole" /\ out' = <<WholeAnswer(adapter, answer)>>
  BY DEF AnswersWhole, Goto, request
<1>2. Held /\ script \in Seq(Lines)
  BY DEF StreamInv, Held
<1>3. Held'
  BY <1>1, <1>2, SameHeld
<1> DEFINE p == WholeAnswer(adapter, answer)
<1>4. p \in Pieces /\ p.damaged = FALSE
  BY WholeType DEF AnswerInv
<1> HIDE DEF p
<1>5. <<p>> \in Seq(Pieces) /\ Undamaged(<<p>>)
  <2>1. Len(<<p>>) = 1 /\ <<p>>[1] = p /\ \A n \in 1 .. 1 : n = 1
    OBVIOUS
  <2> QED BY <1>4, <2>1, MendedSmall DEF Undamaged
<1>6. Given'
  BY <1>1, <1>5 DEF Given, p
<1>7. Outcome'
  BY <1>1 DEF Outcome
<1> QED BY <1>3, <1>6, <1>7 DEF StreamInv

\* The steps of a stream keep its invariant: bytes arrive,
LEMMA ReceiveKeeps ==
  ASSUME StreamInv, Receive
  PROVE  StreamInv'
<1>1. /\ UNCHANGED <<adapter, script, closed, out, mode, phase>> /\ phase = "open"
  BY DEF Receive, request
<1>2. Held /\ Given /\ Outcome /\ script \in Seq(Lines) /\ arrived \in 0 .. Size
  BY DEF StreamInv, Held
<1>3. PICK c \in Nat : Progress(c)
  BY <1>1, <1>2 DEF Outcome
<1>4. Progress(c)' /\ arrived' \in 0 .. Size /\ ready' \in Seq(Seq(Bytes))
  BY <1>2, <1>3, ReceiveProgress
<1>5. Held'
  BY <1>1, <1>2, <1>4, HeldOf
<1>6. Given'
  BY <1>1, <1>2, SameGiven
<1>7. Outcome'
  BY <1>1, <1>2, <1>4 DEF Outcome
<1> QED BY <1>5, <1>6, <1>7 DEF StreamInv

\* a line is taken,
LEMMA TakeKeeps ==
  ASSUME StreamInv, TakeLine
  PROVE  StreamInv'
<1>1. /\ UNCHANGED <<adapter, script, closed, arrived, buffer, mode>> /\ phase = "open"
      /\ ready # <<>> /\ ready' = Tail(ready)
  BY DEF TakeLine, request
<1>2. /\ Held /\ Given /\ Outcome /\ script \in Seq(Lines) /\ arrived \in 0 .. Size
      /\ ready \in Seq(Seq(Bytes)) /\ out \in Seq(Pieces)
  BY DEF StreamInv, Held, Given
<1>3. PICK c \in Nat : Progress(c)
  BY <1>1, <1>2 DEF Outcome
<1>4. /\ out' \in Seq(Pieces) /\ (Regular(out) => Regular(out'))
      /\ (DecodesLines /\ Undamaged(out) => Undamaged(out'))
      /\ phase' \in {"open", "finished", "raised"}
  BY <1>2, <1>3, TakeOut
<1>5. ready' \in Seq(Seq(Bytes)) /\ Len(ready) \in Nat /\ Len(ready') = Len(ready) - 1
      /\ \A n \in 1 .. Len(ready') : ready'[n] = ready[n + 1]
  BY <1>1, <1>2, HeadTailProperties
<1>6. Given'
  BY <1>1, <1>2, <1>4 DEF Given, Regular, Undamaged, DecodesLines
<1>7. Held'
  <2>1. Size' = Size
    BY <1>1, SameAnswer
  <2>2. \A n \in 1 .. Len(ready) : \A k \in 1 .. Len(ready[n]) : ready[n][k][2] # "newline"
    BY <1>2 DEF Held
  <2>3. \A n \in 1 .. Len(ready') : \A k \in 1 .. Len(ready'[n]) : ready'[n][k][2] # "newline"
    <3> SUFFICES ASSUME NEW n \in 1 .. Len(ready')
                 PROVE \A k \in 1 .. Len(ready'[n]) : ready'[n][k][2] # "newline"
      OBVIOUS
    <3>1. ready'[n] = ready[n + 1]
      BY <1>5
    <3> DEFINE l == Len(ready)
    <3>2. l \in Nat /\ n \in 1 .. l - 1
      BY <1>5
    <3> HIDE DEF l
    <3>3. n + 1 \in 1 .. l
      BY <3>2
    <3>4. \A k \in 1 .. Len(ready[n + 1]) : ready[n + 1][k][2] # "newline"
      BY <2>2, <3>3 DEF l
    <3> QED BY <3>1, <3>4
  <2> QED BY <1>1, <1>2, <1>4, <1>5, <2>1, <2>3 DEF Held
<1>8. Outcome'
  <2>1. CASE phase' = "open"
    <3>1. Progress(c + 1)' /\ c + 1 \in Nat
      BY <1>2, <1>3, <2>1, TakeProgress
    <3> QED BY <1>1, <1>2, <2>1, <3>1 DEF Outcome
  <2>2. CASE phase' \in {"finished", "raised"}
    <3>1. Mended(out') = Meaning' /\ Meaning' = Meaning
      <4>1. phase' # "open"
        BY <2>2
      <4>2. Mended(out') = Meaning'
        BY <1>2, <1>3, <4>1, TakeEnds
      <4> QED BY <1>1, <4>2, SameAnswer
    <3>2. IsPrefix(Mended(out'), Meaning')
      BY <1>2, <3>1, MeaningType
    <3> QED BY <1>1, <1>2, <2>2, <3>1, <3>2 DEF Outcome
  <2> QED BY <1>4, <2>1, <2>2
<1> QED BY <1>6, <1>7, <1>8 DEF StreamInv

\* The connection breaks, or the provider closes it.
LEMMA BreaksKeeps ==
  ASSUME StreamInv, Breaks
  PROVE  StreamInv'
<1>1. /\ UNCHANGED <<adapter, script, closed, arrived, buffer, ready, out, mode>>
      /\ phase = "open" /\ phase' = "raised"
  BY DEF Breaks, Goto, SameStream, request
<1>2. Held /\ Given /\ Outcome /\ script \in Seq(Lines) /\ ready \in Seq(Seq(Bytes))
  BY DEF StreamInv, Held
<1>3. PICK c \in Nat : Progress(c)
  BY <1>1, <1>2 DEF Outcome
<1>4. Held'
  BY <1>1, <1>2, SameHeld
<1>5. Given'
  BY <1>1, <1>2, SameGiven
<1>6. IsPrefix(Mended(out), Meaning)
  <2>1. c <= Len(Heard)
    <3>1. c + Len(ready) <= Len(Heard)
      BY <1>3 DEF Progress
    <3> DEFINE k == Len(ready)
    <3>2. k \in Nat
      BY <1>2
    <3> HIDE DEF k
    <3>3. c + k <= Len(Heard) /\ Len(Heard) \in Nat
      BY <1>2, <3>1, SizeIs DEF k
    <3> QED BY <3>2, <3>3
  <2>2. (\A i \in 1 .. c : i \notin Stops) /\ Mended(out) = Joined(Told, c)
    BY <1>3 DEF Progress
  <2> QED BY <1>2, <2>1, <2>2, ProgressPrefix
<1>7. Outcome'
  <2>1. IsPrefix(Mended(out'), Meaning')
    BY <1>1, <1>6, SameAnswer
  <2> QED BY <1>1, <2>1 DEF Outcome
<1> QED BY <1>4, <1>5, <1>7 DEF StreamInv

\* The provider closes the connection: an unterminated last line is taken or is lost.
LEMMA ClosesKeeps ==
  ASSUME StreamInv, Closes
  PROVE  StreamInv'
<1>1. /\ UNCHANGED <<adapter, script, closed, arrived, out, mode>> /\ phase = "open"
  BY DEF Closes, SameStream, request
<1>2. /\ Held /\ Given /\ Outcome /\ script \in Seq(Lines) /\ arrived \in 0 .. Size
      /\ buffer \in Seq(Bytes)
  BY DEF StreamInv, Held
<1>3. PICK c \in Nat : Progress(c)
  BY <1>1, <1>2 DEF Outcome
<1>4. ASSUME DecodesLines, buffer # <<>> PROVE StreamInv'
  <2>1. ready' = <<buffer>> /\ phase' = phase
    BY <1>4 DEF Closes
  <2>2. Progress(c)'
    BY <1>2, <1>3, <1>4, FlushProgress
  <2>3. ready' \in Seq(Seq(Bytes)) /\ arrived' \in 0 .. Size
    BY <1>1, <1>2, <2>1
  <2>4. Held'
    BY <1>1, <1>2, <2>1, <2>2, <2>3, HeldOf
  <2>5. Given'
    BY <1>1, <1>2, <2>1, SameGiven
  <2>6. Outcome'
    BY <1>1, <1>2, <2>1, <2>2 DEF Outcome
  <2> QED BY <2>4, <2>5, <2>6 DEF StreamInv
<1>5. ASSUME ~(DecodesLines /\ buffer # <<>>) PROVE StreamInv'
  <2>1. phase' = "finished" /\ UNCHANGED <<buffer, ready>>
    BY <1>5 DEF Closes, Goto, SameStream
  <2>2. Held'
    BY <1>1, <1>2, <2>1, SameHeld
  <2>3. Given'
    BY <1>1, <1>2, <2>1, SameGiven
  <2>4. Mended(out) = Meaning
    BY <1>2, <1>3, <1>5, CloseMeaning
  <2>5. Mended(out') = Meaning'
    BY <1>1, <2>4, SameAnswer
  <2>6. Outcome'
    BY <1>1, <1>2, <2>1, <2>5 DEF Outcome
  <2> QED BY <2>2, <2>3, <2>6 DEF StreamInv
<1> QED BY <1>4, <1>5

\* The last pieces of a stream.
LEMMA LastPieces ==
  ASSUME NEW s \in Seq(Pieces), NEW p \in Pieces
  PROVE  /\ s \o <<p>> \in Seq(Pieces) /\ Len(s \o <<p>>) = Len(s) + 1 /\ Len(s) \in Nat
         /\ (s \o <<p>>)[Len(s) + 1] = p /\ Front(s \o <<p>>) = s
         /\ \A n \in 1 .. Len(s) : (s \o <<p>>)[n] = s[n]
<1> DEFINE w == s \o <<p>>
           k == Len(s)
<1>1. <<p>> \in Seq(Pieces) /\ Len(<<p>>) = 1 /\ <<p>>[1] = p /\ k \in Nat
  OBVIOUS
<1>2. /\ w \in Seq(Pieces) /\ Len(w) = k + 1
      /\ \A i \in 1 .. k + 1 : w[i] = IF i <= k THEN s[i] ELSE <<p>>[i - k]
  BY <1>1, ConcatProperties
<1> HIDE DEF w
<1>3. w[k + 1] = p /\ \A n \in 1 .. k : w[n] = s[n]
  <2> HIDE DEF k
  <2> QED BY <1>1, <1>2
<1>4. SubSeq(w, 1, k) = s
  <2>1. \A i \in 1 .. k : w[i] \in Pieces
    BY <1>1, <1>2
  <2> HIDE DEF k
  <2>2. 1 \in Int /\ k \in Int
    BY <1>1
  <2>3. /\ SubSeq(w, 1, k) \in Seq(Pieces) /\ Len(SubSeq(w, 1, k)) = IF 1 <= k THEN k - 1 + 1 ELSE 0
        /\ \A i \in 1 .. k - 1 + 1 : SubSeq(w, 1, k)[i] = w[1 + i - 1]
    BY <2>1, <2>2, SubSeqProperties
  <2>4. Len(SubSeq(w, 1, k)) = k /\ \A i \in 1 .. k : SubSeq(w, 1, k)[i] = s[i]
    BY <1>1, <1>3, <2>3
  <2> QED BY <2>3, <2>4, SeqEqual DEF k
<1>5. Front(w) = s
  <2>1. Len(w) - 1 = k
    BY <1>1, <1>2
  <2> QED BY <1>4, <2>1 DEF Front
<1> QED BY <1>1, <1>2, <1>3, <1>5 DEF w

\* A sequence of one piece of the adapter's or the handler's own.
LEMMA OwnSingle ==
  ASSUME NEW p \in {Stop, DONE}
  PROVE  <<p>> \in Seq(Pieces) /\ Undamaged(<<p>>) /\ (p = Stop => Regular(<<p>>))
<1>1. p \in Pieces /\ p.damaged = FALSE /\ (p = Stop => p.finish # "[DONE]")
  BY OwnPieces
<1>2. <<p>> \in Seq(Pieces) /\ Len(<<p>>) = 1 /\ <<p>>[1] = p /\ \A n \in 1 .. 1 : n = 1
  BY <1>1
<1> QED BY <1>1, <1>2 DEF Undamaged, Regular

\* stream_gen ends a stream whose pieces are s.
LEMMA Ends ==
  ASSUME NEW s \in Seq(Pieces), Regular(s), out' = s \o <<DONE>>,
         Mended(s) = Meaning' \/ (Len(s) # 0 /\ s[Len(s)] = Stop)
  PROVE  /\ out' \in Seq(Pieces) /\ Ended'
         /\ Undamaged(s) => Undamaged(out')
<1>1. DONE \in Pieces
  BY OwnPieces
<1>2. /\ out' \in Seq(Pieces) /\ Len(out') = Len(s) + 1 /\ Len(s) \in Nat
      /\ out'[Len(s) + 1] = DONE /\ Front(out') = s
      /\ \A n \in 1 .. Len(s) : out'[n] = s[n]
  BY <1>1, LastPieces
<1>3. Undamaged(s) => Undamaged(out')
  <2>1. <<DONE>> \in Seq(Pieces) /\ Undamaged(<<DONE>>)
    BY OwnSingle
  <2> QED BY <2>1, BothRegular
<1>4. Len(out') # 0 /\ Len(out') - 1 = Len(s)
  BY <1>2
<1>5. Mended(Front(out')) # Meaning' => out'[Len(out') - 1] = Stop
  <2> SUFFICES ASSUME Mended(s) # Meaning' PROVE out'[Len(s)] = Stop
    BY <1>2, <1>4
  <2>1. Len(s) # 0 /\ s[Len(s)] = Stop
    OBVIOUS
  <2>2. Len(s) \in 1 .. Len(s)
    BY <1>2, <2>1
  <2> QED BY <1>2, <2>1, <2>2
<1>6. Ended'
  BY <1>2, <1>4, <1>5 DEF Ended
<1> QED BY <1>2, <1>3, <1>6

\* The adapter ends the stream,
LEMMA FinishKeeps ==
  ASSUME StreamInv, Finish
  PROVE  StreamInv'
<1>1. /\ UNCHANGED <<adapter, script, closed, arrived, buffer, ready, mode>> /\ phase = "finished"
      /\ phase' = "over" /\ out' = (out \o LastOfAdapter) \o <<DONE>>
  BY DEF Finish, Goto, request
<1>2. Held /\ Given /\ Outcome /\ out \in Seq(Pieces) /\ Regular(out) /\ (DecodesLines => Undamaged(out))
  BY <1>1 DEF StreamInv, Given
<1>3. Mended(out) = Meaning /\ Meaning' = Meaning
  BY <1>1, <1>2, SameAnswer DEF Outcome
<1> DEFINE s == out \o LastOfAdapter
<1> DEFINE EndsWell(t) == /\ t \in Seq(Pieces) /\ Regular(t) /\ (DecodesLines => Undamaged(t))
                          /\ Mended(t) = Meaning' \/ (Len(t) # 0 /\ t[Len(t)] = Stop)
<1>4. ASSUME LastOfAdapter = <<>> PROVE EndsWell(s)
  <2>1. s = out
    BY <1>2, <1>4, ConcatEmptySeq
  <2> HIDE DEF s
  <2> QED BY <1>2, <1>3, <2>1
<1>5. ASSUME LastOfAdapter = <<Stop>> PROVE EndsWell(s)
  <2>1. <<Stop>> \in Seq(Pieces) /\ Undamaged(<<Stop>>) /\ Regular(<<Stop>>)
    BY OwnSingle
  <2>2. s \in Seq(Pieces) /\ Regular(s) /\ (DecodesLines => Undamaged(s))
    BY <1>2, <1>5, <2>1, BothRegular
  <2>3. Len(s) = Len(out) + 1 /\ Len(out) \in Nat /\ s[Len(out) + 1] = Stop
    BY <1>2, <1>5, OwnPieces, LastPieces
  <2> HIDE DEF s
  <2>4. Len(s) # 0 /\ s[Len(s)] = Stop
    BY <2>3
  <2> QED BY <2>2, <2>4
<1>6. /\ s \in Seq(Pieces) /\ Regular(s) /\ (DecodesLines => Undamaged(s))
      /\ Mended(s) = Meaning' \/ (Len(s) # 0 /\ s[Len(s)] = Stop)
  BY <1>4, <1>5 DEF LastOfAdapter
<1> HIDE DEF s
<1>7. out' = s \o <<DONE>>
  BY <1>1 DEF s
<1>8. out' \in Seq(Pieces) /\ Ended' /\ (Undamaged(s) => Undamaged(out'))
  BY <1>6, <1>7, Ends
<1>9. Held'
  BY <1>1, <1>2, SameHeld
<1>10. Given'
  BY <1>1, <1>6, <1>8 DEF Given, DecodesLines, Undamaged
<1>11. Outcome'
  BY <1>1, <1>8 DEF Outcome
<1> QED BY <1>9, <1>10, <1>11 DEF StreamInv

\* stream_gen ends it after a failure,
LEMMA RescueKeeps ==
  ASSUME StreamInv, Rescue
  PROVE  StreamInv'
<1>1. /\ UNCHANGED <<adapter, script, closed, arrived, buffer, ready, mode>> /\ phase = "raised"
      /\ phase' = "over" /\ out' = out \o <<Stop, DONE>>
  BY DEF Rescue, Goto, request
<1>2. Held /\ out \in Seq(Pieces) /\ Regular(out) /\ (DecodesLines => Undamaged(out))
  BY <1>1 DEF StreamInv, Given
<1>3. <<Stop>> \in Seq(Pieces) /\ <<DONE>> \in Seq(Pieces) /\ Undamaged(<<Stop>>) /\ Regular(<<Stop>>)
  BY OwnSingle
<1> DEFINE s == out \o <<Stop>>
<1>4. out' = s \o <<DONE>>
  <2>1. <<Stop>> \o <<DONE>> = <<Stop, DONE>>
    <3>1. ASSUME NEW p \in Pieces, NEW q \in Pieces PROVE <<p>> \o <<q>> = <<p, q>>
      <4>1. /\ <<p>> \in Seq(Pieces) /\ <<q>> \in Seq(Pieces) /\ <<p, q>> \in Seq(Pieces)
            /\ Len(<<p>>) = 1 /\ Len(<<q>>) = 1 /\ Len(<<p, q>>) = 2
            /\ <<p>>[1] = p /\ <<q>>[1] = q /\ <<p, q>>[1] = p /\ <<p, q>>[2] = q
        OBVIOUS
      <4> DEFINE a == <<p>>
                 b == <<q>>
                 w == <<p, q>>
      <4> HIDE DEF a, b, w
      <4>2. /\ a \in Seq(Pieces) /\ b \in Seq(Pieces) /\ w \in Seq(Pieces)
            /\ Len(a) = 1 /\ Len(b) = 1 /\ Len(w) = 2 /\ a[1] = p /\ b[1] = q /\ w[1] = p /\ w[2] = q
        BY <4>1 DEF a, b, w
      <4>3. /\ a \o b \in Seq(Pieces) /\ Len(a \o b) = 1 + 1
            /\ \A i \in 1 .. 1 + 1 : (a \o b)[i] = IF i <= 1 THEN a[i] ELSE b[i - 1]
        BY <4>2, ConcatProperties
      <4>4. \A i \in 1 .. 2 : (a \o b)[i] = w[i]
        BY <4>2, <4>3
      <4>5. a \o b = w
        BY <4>2, <4>3, <4>4, SeqEqual
      <4> QED BY <4>5 DEF a, b, w
    <3> QED BY <3>1, OwnPieces
  <2>2. (out \o <<Stop>>) \o <<DONE>> = out \o (<<Stop>> \o <<DONE>>)
    BY <1>2, <1>3, ConcatAssociative
  <2> QED BY <1>1, <2>1, <2>2
<1>5. s \in Seq(Pieces) /\ Regular(s) /\ (DecodesLines => Undamaged(s))
  BY <1>2, <1>3, BothRegular
<1>6. Len(s) = Len(out) + 1 /\ Len(out) \in Nat /\ s[Len(out) + 1] = Stop
  BY <1>2, OwnPieces, LastPieces
<1> HIDE DEF s
<1>7. Len(s) # 0 /\ s[Len(s)] = Stop
  BY <1>6
<1>8. out' \in Seq(Pieces) /\ Ended' /\ (Undamaged(s) => Undamaged(out'))
  BY <1>4, <1>5, <1>7, Ends
<1>9. Held'
  BY <1>1, <1>2, SameHeld
<1>10. Given'
  BY <1>1, <1>5, <1>8 DEF Given, DecodesLines, Undamaged
<1>11. Outcome'
  BY <1>1, <1>8 DEF Outcome
<1> QED BY <1>9, <1>10, <1>11 DEF StreamInv

\* or the exception leaves the handler.
LEMMA AbortKeeps ==
  ASSUME StreamInv, Abort
  PROVE  StreamInv'
<1>1. /\ UNCHANGED <<adapter, script, closed, arrived, buffer, ready, out, mode>>
      /\ phase = "raised" /\ phase' = "aborted"
  BY DEF Abort, Goto, SameStream, request
<1>2. Held /\ Given /\ Outcome
  BY DEF StreamInv
<1>3. Held'
  BY <1>1, <1>2, SameHeld
<1>4. Given'
  BY <1>1, <1>2, SameGiven
<1>5. IsPrefix(Mended(out'), Meaning')
  BY <1>1, <1>2, SameAnswer DEF Outcome
<1>6. Outcome'
  BY <1>1, <1>5 DEF Outcome
<1> QED BY <1>3, <1>4, <1>6 DEF StreamInv

\* Steps of embeddings and probes do not touch a stream.
LEMMA StutterKeeps ==
  ASSUME StreamInv, UNCHANGED streamVars
  PROVE  StreamInv'
<1>1. UNCHANGED <<adapter, script, closed, arrived, buffer, ready, out, mode, phase>>
  BY DEF streamVars
<1>2. Held /\ Given /\ Outcome
  BY DEF StreamInv
<1>3. phase' \in {"new", "sent", "open", "raised", "finished", "over", "aborted"}
  BY <1>1, <1>2 DEF Held
<1>4. Held'
  BY <1>1, <1>2, <1>3, SameHeld
<1>5. Given'
  BY <1>1, <1>2, SameGiven
<1>6. /\ Heard' = Heard /\ Told' = Told /\ Stops' = Stops /\ Size' = Size /\ Meaning' = Meaning
      /\ (DecodesLines' <=> DecodesLines)
  BY <1>1, SameAnswer
<1>7. ASSUME NEW c \in Nat, Progress(c) PROVE Progress(c)'
  BY <1>1, <1>6, <1>7 DEF Progress
<1>8. Ended => Ended'
  BY <1>1, <1>6 DEF Ended
<1>9. Outcome'
  BY <1>1, <1>2, <1>6, <1>7, <1>8 DEF Outcome
<1> QED BY <1>4, <1>5, <1>9 DEF StreamInv

\* Every step keeps the invariant of the streams.
LEMMA StreamInvNext == StreamInv /\ AnswerInv /\ [Next]_vars => StreamInv'
<1> SUFFICES ASSUME StreamInv, AnswerInv, [Next]_vars PROVE StreamInv'
  OBVIOUS
<1>1. StreamNext \/ UNCHANGED streamVars
  BY DEF Next, vars
<1>2. CASE StreamNext
  BY <1>2, EarlyKeeps, WholeKeeps, ReceiveKeeps, TakeKeeps, BreaksKeeps, ClosesKeeps, FinishKeeps,
     RescueKeeps, AbortKeeps DEF StreamNext
<1> QED BY <1>1, <1>2, StutterKeeps

\* What is not damaged needs no mending.
LEMMA NothingToMend ==
  ASSUME NEW s \in Seq(Pieces), Undamaged(s)
  PROVE  Mended(s) = s
<1>1. Mended(s) \in Seq(Pieces) /\ Len(Mended(s)) = Len(s) /\ \A n \in 1 .. Len(s) : Mended(s)[n] = Mend(s[n])
  BY MendedType
<1>2. ASSUME NEW n \in 1 .. Len(s) PROVE Mend(s[n]) = s[n]
  <2>1. s[n] \in Pieces /\ s[n].damaged = FALSE
    BY DEF Undamaged
  <2> QED BY <2>1, MendWhole
<1> QED BY <1>1, <1>2, SeqEqual

\* However the network cuts a stream, what the client has heard is a prefix of the
\* events of its complete lines, and all of them once the generator returns; the
\* adapters that decode by lines damage no character (the parsers of the
\* stream_chat_completion of openai_compat.py, cloudflare.py, google.py, cohere.py).
THEOREM FramingTransparentAlways == Spec => []FramingTransparent
<1>1. StreamInv => FramingTransparent
  <2> SUFFICES ASSUME StreamInv PROVE FramingTransparent
    OBVIOUS
  <2>1. Held /\ Given /\ Outcome /\ script \in Seq(Lines) /\ ready \in Seq(Seq(Bytes)) /\ out \in Seq(Pieces)
    BY DEF StreamInv, Held, Given
  <2>2. ASSUME phase = "open" PROVE IsPrefix(Mended(out), Meaning)
    <3>1. PICK c \in Nat : Progress(c)
      BY <2>1, <2>2 DEF Outcome
    <3>2. c <= Len(Heard)
      <4> DEFINE k == Len(ready)
      <4>1. k \in Nat /\ c + k <= Len(Heard) /\ Len(Heard) \in Nat
        BY <2>1, <3>1, SizeIs DEF Progress
      <4> HIDE DEF k
      <4> QED BY <4>1
    <3>3. (\A i \in 1 .. c : i \notin Stops) /\ Mended(out) = Joined(Told, c)
      BY <3>1 DEF Progress
    <3> QED BY <2>1, <3>2, <3>3, ProgressPrefix
  <2>3. ASSUME phase \in {"raised", "aborted"} PROVE IsPrefix(Mended(out), Meaning)
    BY <2>1, <2>3 DEF Outcome
  <2>4. ASSUME phase = "finished" PROVE Mended(out) = Meaning /\ IsPrefix(Mended(out), Meaning)
    <3>1. Mended(out) = Meaning
      BY <2>1, <2>4 DEF Outcome
    <3> QED BY <2>1, <3>1, MeaningType
  <2>5. DecodesLines => Mended(out) = out
    BY <2>1, NothingToMend DEF Given
  <2> QED BY <2>2, <2>3, <2>4, <2>5 DEF FramingTransparent
<1> QED BY <1>1, AnswerInit, AnswerNext, StreamInvInit, StreamInvNext, PTL DEF Spec

\* The client of a stream that is over has received [DONE] once, at the end, and a
\* finish reason of the gateway's own before it if an auto-routed answer is not
\* complete; before the end it has received none (proxy/api.py stream_gen).
THEOREM DoneOnceAtTheEndAlways == Spec => []DoneOnceAtTheEnd
<1>1. StreamInv => DoneOnceAtTheEnd
  <2> SUFFICES ASSUME StreamInv PROVE DoneOnceAtTheEnd
    OBVIOUS
  <2>1. Given /\ Outcome /\ out \in Seq(Pieces) /\ DOMAIN out = 1 .. Len(out) /\ Len(out) \in Nat
    BY DEF StreamInv, Given
  <2> DEFINE dones == {n \in DOMAIN out : out[n] = DONE}
  <2>2. DONE.finish = "[DONE]"
    BY OwnPieces
  <2>3. ASSUME phase # "over" PROVE dones = {}
    BY <2>1, <2>2, <2>3 DEF Given, Regular
  <2>4. ASSUME mode # "whole", phase = "over" PROVE Ended /\ dones = {Len(out)}
    <3>1. Ended
      BY <2>1, <2>4 DEF Outcome
    <3>2. Len(out) # 0 /\ out[Len(out)] = DONE /\ Regular(Front(out))
      BY <3>1 DEF Ended
    <3> DEFINE k == Len(out) - 1
    <3>3. k \in Nat /\ Len(out) = k + 1
      BY <2>1, <3>2
    <3>4. Front(out) = SubSeq(out, 1, k)
      BY DEF Front
    <3> HIDE DEF k
    <3>5. \A i \in 1 .. k : out[i] \in Pieces
      BY <2>1, <3>3
    <3>6. Len(SubSeq(out, 1, k)) = k /\ \A i \in 1 .. k : SubSeq(out, 1, k)[i] = out[i]
      <4>1. 1 \in Int /\ k \in Int
        BY <3>3
      <4>2. /\ Len(SubSeq(out, 1, k)) = IF 1 <= k THEN k - 1 + 1 ELSE 0
            /\ \A i \in 1 .. k - 1 + 1 : SubSeq(out, 1, k)[i] = out[1 + i - 1]
        BY <3>5, <4>1, SubSeqProperties
      <4> QED BY <3>3, <4>2
    <3>7. \A i \in 1 .. k : out[i] # DONE
      BY <2>2, <3>2, <3>4, <3>6 DEF Regular
    <3>8. dones = {k + 1}
      BY <2>1, <3>2, <3>3, <3>7
    <3> QED BY <3>1, <3>3, <3>8
  <2>5. mode = "stream" /\ phase = "over" /\ Mended(Front(out)) # Meaning => out[Len(out) - 1] = Stop
    BY <2>4 DEF Ended
  <2> QED BY <2>3, <2>4, <2>5 DEF DoneOnceAtTheEnd
<1> QED BY <1>1, AnswerInit, AnswerNext, StreamInvInit, StreamInvNext, PTL DEF Spec

\* A probe or a listing finds no capability but the gateway's own six.
Capabilities == {"chat", "vision", "embed", "image_gen", "audio_stt", "audio_tts"}
CapsInv == caps \subseteq Capabilities

\* Every step keeps the capabilities among the six.
LEMMA CapabilitiesNext == CapsInv /\ [Next]_vars => CapsInv'
<1> SUFFICES ASSUME CapsInv, [Next]_vars PROVE CapsInv'
  OBVIOUS
<1>1. CASE Probe
  <2>1. ASSUME NEW n \in {1, 2}, ProbeList(n) PROVE CapsInv'
    <3>1. PICK names \in Listings : Lists(n, names)
      BY <2>1 DEF ProbeList
    <3>2. Looked(provider, n) \subseteq Capabilities
      BY DEF Looked, Capabilities
    <3> QED BY <3>1, <3>2 DEF CapsInv, Lists
  <2>2. ASSUME ProbeSpeech PROVE CapsInv'
    BY <2>2 DEF CapsInv, ProbeSpeech, Capabilities
  <2>3. ASSUME ProbeListFails \/ UNCHANGED caps PROVE CapsInv'
    BY <2>3 DEF CapsInv, ProbeListFails
  <2>4. ProbeSpeech \/ ProbeListFails \/ UNCHANGED caps \/ ProbeList(1) \/ ProbeList(2)
    <3>1. CASE provider \in {"cloudflare", "stability"}
      BY <1>1, <3>1 DEF Probe
    <3>2. CASE provider = "google" /\ calls = 1
      BY <1>1, <3>2 DEF Probe
    <3>3. CASE provider = "google" /\ calls = 0
      BY <1>1, <3>3 DEF Probe
    <3>4. CASE /\ provider \notin {"cloudflare", "stability"}
               /\ ~(provider = "google" /\ calls = 1) /\ ~(provider = "google" /\ calls = 0)
      BY <1>1, <3>4 DEF Probe
    <3> QED BY <3>1, <3>2, <3>3, <3>4
  <2> QED BY <2>1, <2>2, <2>3, <2>4
<1>2. CASE Validate \/ Embed \/ ImageGeneration \/ UNCHANGED accessVars
  BY <1>2 DEF CapsInv, Validate, Embed, EmbedNext, EmbedEnds, EmbedAll, Raises, ImageGeneration, accessVars
<1> QED BY <1>1, <1>2 DEF Next, AccessNext, vars

\* The streams keep their types and never read ahead of what has arrived, and no
\* probe finds a capability of another name (the parsers of the adapters,
\* probe_capabilities).
THEOREM ProvidersTypeOKAlways == Spec => []ProvidersTypeOK
<1>1. Init => CapsInv
  BY DEF CapsInv, Init, AccessInit, Idle, Default, Capabilities
<1>2. StreamInv /\ CapsInv => ProvidersTypeOK
  <2> SUFFICES ASSUME StreamInv, CapsInv PROVE ProvidersTypeOK
    OBVIOUS
  <2>1. Held /\ script \in Seq(Lines) /\ buffer \in Seq(Bytes) /\ ready \in Seq(Seq(Bytes))
    BY DEF StreamInv, Held
  <2>2. arrived \in 0 .. Len(Wire)
    BY <2>1, WireIs DEF Held
  <2>3. DOMAIN buffer = 1 .. Len(buffer) /\ DOMAIN ready = 1 .. Len(ready)
        /\ \A n \in 1 .. Len(ready) : DOMAIN ready[n] = 1 .. Len(ready[n])
    <3>1. \A n \in 1 .. Len(ready) : ready[n] \in Seq(Bytes)
      BY <2>1
    <3> QED BY <2>1, <3>1
  <2> QED BY <2>1, <2>2, <2>3 DEF CapsInv, Held, ProvidersTypeOK, Capabilities
<1> QED BY <1>1, <1>2, AnswerInit, AnswerNext, StreamInvInit, StreamInvNext, CapabilitiesNext, PTL DEF Spec

-----------------------------------------------------------------------------
(* The calls and the texts of an answer, streamed and whole *)

CallsIn(s) == FlattenSeq([n \in DOMAIN s |-> s[n].calls])
TextsIn(s) == FlattenSeq([n \in DOMAIN s |-> s[n].texts])

\* What is gathered from two sequences of pieces, end to end.
LEMMA Gathered ==
  /\ CallsIn(<<>>) = <<>> /\ TextsIn(<<>>) = <<>>
  /\ \A s \in Seq(Pieces) : CallsIn(s) \in Seq(Nat \X Nat) /\ TextsIn(s) \in Seq(Nat)
  /\ \A s \in Seq(Pieces), p \in Pieces : /\ CallsIn(s \o <<p>>) = CallsIn(s) \o p.calls
                                          /\ TextsIn(s \o <<p>>) = TextsIn(s) \o p.texts
<1>1. CallsIn(<<>>) = <<>> /\ TextsIn(<<>>) = <<>>
  <2>1. [n \in DOMAIN <<>> |-> <<>>[n].calls] = <<>> /\ [n \in DOMAIN <<>> |-> <<>>[n].texts] = <<>>
    OBVIOUS
  <2> QED BY <2>1 DEF CallsIn, TextsIn, FlattenSeq
<1>2. ASSUME NEW s \in Seq(Pieces)
      PROVE  /\ [n \in DOMAIN s |-> s[n].calls] \in Seq(Seq(Nat \X Nat))
             /\ [n \in DOMAIN s |-> s[n].texts] \in Seq(Seq(Nat))
  <2>1. \A n \in 1 .. Len(s) : s[n].calls \in Seq(Nat \X Nat) /\ s[n].texts \in Seq(Nat)
    <3>1. \A n \in 1 .. Len(s) : s[n] \in Pieces
      OBVIOUS
    <3> QED BY <3>1 DEF Pieces
  <2>2. DOMAIN s = 1 .. Len(s) /\ Len(s) \in Nat
    OBVIOUS
  <2> QED BY <2>1, <2>2
<1>3. ASSUME NEW s \in Seq(Pieces) PROVE CallsIn(s) \in Seq(Nat \X Nat) /\ TextsIn(s) \in Seq(Nat)
  <2>1. CallsIn(s) \in Seq(Nat \X Nat)
    BY <1>2, FlattenSeqType DEF CallsIn
  <2>2. TextsIn(s) \in Seq(Nat)
    BY <1>2, FlattenSeqType DEF TextsIn
  <2> QED BY <2>1, <2>2
<1>4. ASSUME NEW s \in Seq(Pieces), NEW p \in Pieces
      PROVE  /\ CallsIn(s \o <<p>>) = CallsIn(s) \o p.calls
             /\ TextsIn(s \o <<p>>) = TextsIn(s) \o p.texts
  <2> DEFINE w == s \o <<p>>
             k == Len(s)
  <2>1. /\ w \in Seq(Pieces) /\ Len(w) = k + 1 /\ k \in Nat /\ w[k + 1] = p
        /\ \A n \in 1 .. k : w[n] = s[n]
    BY LastPieces
  <2>2. DOMAIN w = 1 .. k + 1 /\ DOMAIN s = 1 .. k
    BY <2>1
  <2>3. p.calls \in Seq(Nat \X Nat) /\ p.texts \in Seq(Nat)
    BY DEF Pieces
  <2> DEFINE sc == [n \in DOMAIN s |-> s[n].calls]
             wc == [n \in DOMAIN w |-> w[n].calls]
             st == [n \in DOMAIN s |-> s[n].texts]
             wt == [n \in DOMAIN w |-> w[n].texts]
  <2>4. sc \in Seq(Seq(Nat \X Nat)) /\ st \in Seq(Seq(Nat))
    BY <1>2
  <2>5. wc \in Seq(Seq(Nat \X Nat)) /\ wt \in Seq(Seq(Nat))
    <3> HIDE DEF w
    <3> QED BY <1>2, <2>1
  <2>6. /\ Len(sc) = k /\ Len(wc) = k + 1 /\ wc[k + 1] = p.calls /\ \A n \in 1 .. k : wc[n] = sc[n]
        /\ Len(st) = k /\ Len(wt) = k + 1 /\ wt[k + 1] = p.texts /\ \A n \in 1 .. k : wt[n] = st[n]
    <3> HIDE DEF w, k
    <3> QED BY <2>1, <2>2
  <2>7. CallsIn(w) = FlattenSeq(wc) /\ CallsIn(s) = FlattenSeq(sc) /\ TextsIn(w) = FlattenSeq(wt) /\ TextsIn(s) = FlattenSeq(st)
    BY DEF CallsIn, TextsIn
  <2> HIDE DEF w, k, sc, wc, st, wt
  <2>8. wc = Append(sc, p.calls)
    <3>1. /\ Append(sc, p.calls) \in Seq(Seq(Nat \X Nat)) /\ Len(Append(sc, p.calls)) = k + 1
          /\ Append(sc, p.calls)[k + 1] = p.calls /\ \A n \in 1 .. k : Append(sc, p.calls)[n] = sc[n]
      BY <2>1, <2>3, <2>4, <2>6, AppendProperties
    <3>2. \A n \in 1 .. k + 1 : wc[n] = Append(sc, p.calls)[n]
      BY <2>1, <2>6, <3>1
    <3> QED BY <2>5, <2>6, <3>1, <3>2, SeqEqual
  <2>9. wt = Append(st, p.texts)
    <3>1. /\ Append(st, p.texts) \in Seq(Seq(Nat)) /\ Len(Append(st, p.texts)) = k + 1
          /\ Append(st, p.texts)[k + 1] = p.texts /\ \A n \in 1 .. k : Append(st, p.texts)[n] = st[n]
      BY <2>1, <2>3, <2>4, <2>6, AppendProperties
    <3>2. \A n \in 1 .. k + 1 : wt[n] = Append(st, p.texts)[n]
      BY <2>1, <2>6, <3>1
    <3> QED BY <2>5, <2>6, <3>1, <3>2, SeqEqual
  <2>10. CallsIn(w) = CallsIn(s) \o p.calls
    BY <2>3, <2>4, <2>7, <2>8, FlattenAppend
  <2>11. TextsIn(w) = TextsIn(s) \o p.texts
    BY <2>3, <2>4, <2>7, <2>9, FlattenAppend
  <2> QED BY <2>10, <2>11 DEF w
<1> QED BY <1>1, <1>3, <1>4

\* A line as one piece, or as none when it holds nothing.
Faithful(s, i, line) ==
  \/ s = <<>> /\ line.calls = 0 /\ ~line.text
  \/ \E p \in Pieces :
       /\ s = <<p>>
       /\ \/ p.calls = CallsOf(i, line)
          \/ adapter = "google" /\ line.calls > 1 /\ p.calls = <<Last(CallsOf(i, line))>>
       /\ line.calls = 0 => p.texts = TextsOf(i, line)

\* Every adapter is faithful to every line.
LEMMA ToldFaithful ==
  ASSUME script \in Seq(Lines), NEW i \in 1 .. Len(Heard), Reading(adapter, Heard[i]) # "raise",
         adapter = "cohere" /\ Heard[i].last => ~Heard[i].text /\ Heard[i].calls = 0
  PROVE  Faithful(Told[i], i, Heard[i])
<1> DEFINE line == Heard[i]
           r == Reading(adapter, Heard[i])
<1>1. i \in Nat /\ line \in Lines
  BY HeardIs
<1>2. Told[i] = IF r = "chunk" THEN Chunk(adapter, i, line, FALSE) ELSE <<>>
  BY DEF Told
<1>3. /\ line.kind \in {"data", "empty", "bad", "other", "done"} /\ line.calls \in Nat
      /\ line.text \in BOOLEAN /\ line.last \in BOOLEAN
      /\ line.kind # "data" => ~line.text /\ line.calls = 0 /\ ~line.last
  BY <1>1 DEF Lines
<1>4. CASE line.kind # "data" /\ r # "chunk"
  BY <1>2, <1>3, <1>4 DEF Faithful
<1>5. r # "chunk" => line.kind # "data"
  BY DEF Reading
<1>6. CASE r = "chunk"
  <2> DEFINE t == TextsOf(i, line)
             c == CallsOf(i, line)
             e == [k \in 1 .. line.calls |-> k - 1]
             f == Own("stop", line)
  <2>1. /\ t \in Seq(Nat) /\ c \in Seq(Nat \X Nat) /\ e \in Ids /\ c \in Ids
        /\ <<i>> \in Seq(Nat) /\ <<>> \in Seq(Nat) /\ <<>> \in Seq(Nat \X Nat) /\ <<>> \in Ids
        /\ f \in Finishes /\ "none" \in Finishes /\ "tool_calls" \in Finishes
    BY <1>1, LineParts DEF Finishes
  <2>8. c # <<>> => <<Last(c)>> \in Seq(Nat \X Nat) /\ <<Last(c)>> \in Ids
    BY <1>1, LineParts
  <2>2. c = <<>> <=> line.calls = 0
    BY <1>3 DEF CallsOf
  <2>4. Told[i] = Chunk(adapter, i, line, FALSE)
    BY <1>2, <1>6
  <2>5. CASE adapter = "google"
    <3>1. CASE c = <<>>
      <4>1. Told[i] = <<Piece(t, <<>>, <<>>, "none", FALSE)>>
        BY <2>4, <2>5, <3>1 DEF Chunk, ToOpenaiChunk
      <4> DEFINE p == Piece(t, <<>>, <<>>, "none", FALSE)
      <4>2. p \in Pieces /\ p.texts = t /\ p.calls = <<>>
        <5>1. t \in Seq(Nat) /\ "none" \in Finishes
          BY <2>1
        <5>2. <<>> \in Seq(Nat \X Nat) /\ <<>> \in Ids
          BY <2>1
        <5> HIDE DEF t
        <5> QED BY <5>1, <5>2 DEF Piece, Pieces
      <4> HIDE DEF p, t, c
      <4>3. Told[i] = <<p>> /\ p.calls = c
        BY <3>1, <4>1, <4>2 DEF p
      <4> QED BY <4>2, <4>3 DEF Faithful, t, c
    <3>2. CASE c # <<>>
      <4> DEFINE l == <<Last(c)>>
                 p == Piece(<<>>, l, l, "tool_calls", FALSE)
      <4>1. Told[i] = <<p>>
        BY <2>4, <2>5, <3>2 DEF Chunk, ToOpenaiChunk
      <4>2. l \in Seq(Nat \X Nat) /\ l \in Ids
        BY <2>8, <3>2
      <4>3. p \in Pieces /\ p.calls = l
        <5>1. <<>> \in Seq(Nat) /\ "tool_calls" \in Finishes
          BY <2>1
        <5> HIDE DEF l
        <5> QED BY <5>1, <4>2 DEF Piece, Pieces
      <4>4. line.calls # 0 /\ (line.calls = 1 => c = l)
        <5>1. line.calls # 0
          BY <2>2, <3>2
        <5>2. ASSUME line.calls = 1 PROVE c = l
          <6>1. Len(c) = 1 /\ c[1] = <<i, 1>> /\ c \in Seq(Nat \X Nat)
            BY <2>1, <5>2 DEF CallsOf
          <6>2. Last(c) = c[1]
            BY <6>1 DEF Last
          <6> HIDE DEF c
          <6> QED BY <6>1, <6>2
        <5> QED BY <5>1, <5>2
      <4>5. line.calls = 1 \/ line.calls > 1
        BY <1>3, <4>4
      <4> HIDE DEF p, l
      <4> QED BY <2>5, <4>1, <4>3, <4>4, <4>5 DEF Faithful, l
    <3> QED BY <3>1, <3>2
  <2>6. CASE adapter = "cohere"
    <3>1. Told[i] = CohereChunk(i, line, FALSE)
      BY <2>4, <2>6 DEF Chunk
    <3>2. CASE ~line.last /\ line.calls > 0
      <4> DEFINE p == Piece(<<>>, c, e, "none", FALSE)
      <4>1. Told[i] = <<p>>
        <5>1. ~line.last /\ line.calls > 0 /\ line \in Lines
          BY <1>1, <3>2
        <5>2. CohereChunk(i, line, FALSE) = <<p>>
          BY <5>1, CohereCalls
        <5> QED BY <3>1, <5>2
      <4>2. p \in Pieces /\ p.calls = c
        <5>1. <<>> \in Seq(Nat) /\ "none" \in Finishes
          BY <2>1
        <5>2. c \in Seq(Nat \X Nat) /\ e \in Ids
          BY <2>1
        <5> HIDE DEF c, e
        <5> QED BY <5>1, <5>2 DEF Piece, Pieces
      <4> HIDE DEF p
      <4> QED BY <3>2, <4>1, <4>2 DEF Faithful
    <3>3. CASE ~line.last /\ line.calls = 0 /\ line.text
      <4> DEFINE p == Piece(<<i>>, <<>>, <<>>, "none", FALSE)
      <4>1. Told[i] = <<p>>
        BY <1>1, <3>1, <3>3, CohereText
      <4>2. p \in Pieces /\ p.calls = <<>> /\ p.texts = <<i>>
        <5>1. <<i>> \in Seq(Nat) /\ "none" \in Finishes
          BY <2>1
        <5>2. <<>> \in Seq(Nat \X Nat) /\ <<>> \in Ids
          BY <2>1
        <5> QED BY <5>1, <5>2 DEF Piece, Pieces
      <4>3. t = <<i>>
        BY <3>3 DEF TextsOf
      <4> HIDE DEF p
      <4> QED BY <2>2, <3>3, <4>1, <4>2, <4>3 DEF Faithful
    <3>4. CASE line.last \/ (line.calls = 0 /\ ~line.text)
      <4>1. Told[i] = <<>>
        BY <1>1, <3>1, <3>4, CohereNothing
      <4>2. line.calls = 0 /\ ~line.text
        BY <2>6, <3>4
      <4> QED BY <4>1, <4>2 DEF Faithful
    <3>5. line.last \/ line.calls > 0 \/ line.calls = 0
      BY <1>3
    <3>6. line.text \/ ~line.text
      BY <1>3
    <3> QED BY <3>2, <3>3, <3>4, <3>5, <3>6, Zenon
  <2>7. CASE adapter # "google" /\ adapter # "cohere"
    <3> DEFINE p == Piece(t, c, c, f, FALSE)
    <3>1. Told[i] = <<p>>
      BY <2>4, <2>7 DEF Chunk, PassChunk
    <3>2. p \in Pieces /\ p.calls = c /\ p.texts = t
      <4>1. t \in Seq(Nat) /\ f \in Finishes
        BY <2>1
      <4>2. c \in Seq(Nat \X Nat) /\ c \in Ids
        BY <2>1
      <4> HIDE DEF c, t, f
      <4> QED BY <4>1, <4>2 DEF Piece, Pieces
    <3> HIDE DEF p
    <3> QED BY <3>1, <3>2 DEF Faithful
  <2> QED BY <2>5, <2>6, <2>7
<1> QED BY <1>4, <1>5, <1>6

\* The members of two sequences end to end.
LEMMA RangeConcat ==
  ASSUME NEW S, NEW s \in Seq(S), NEW t \in Seq(S)
  PROVE  Range(s \o t) = Range(s) \cup Range(t)
<1>1. /\ s \o t \in Seq(S) /\ Len(s \o t) = Len(s) + Len(t) /\ Len(s) \in Nat /\ Len(t) \in Nat
      /\ \A i \in 1 .. Len(s) + Len(t) : (s \o t)[i] = IF i <= Len(s) THEN s[i] ELSE t[i - Len(s)]
  BY ConcatProperties
<1> DEFINE w == s \o t
           m == Len(s)
           n == Len(t)
<1>2. /\ DOMAIN w = 1 .. m + n /\ DOMAIN s = 1 .. m /\ DOMAIN t = 1 .. n /\ m \in Nat /\ n \in Nat
      /\ \A i \in 1 .. m + n : w[i] = IF i <= m THEN s[i] ELSE t[i - m]
  BY <1>1
<1> HIDE DEF w, m, n
<1>3. ASSUME NEW x \in Range(w) PROVE x \in Range(s) \cup Range(t)
  <2>1. PICK i \in 1 .. m + n : x = w[i]
    BY <1>2 DEF Range
  <2>2. CASE i <= m
    <3>1. i \in 1 .. m /\ x = s[i]
      BY <1>2, <2>1, <2>2
    <3> QED BY <1>2, <3>1 DEF Range
  <2>3. CASE i > m
    <3>1. i - m \in 1 .. n /\ x = t[i - m]
      BY <1>2, <2>1, <2>3
    <3> QED BY <1>2, <3>1 DEF Range
  <2>4. i <= m \/ i > m
    BY <1>2
  <2> QED BY <2>2, <2>3, <2>4
<1>4. ASSUME NEW x \in Range(s) PROVE x \in Range(w)
  <2>1. PICK i \in 1 .. m : x = s[i]
    BY <1>2 DEF Range
  <2>2. i \in 1 .. m + n /\ w[i] = x
    BY <1>2, <2>1
  <2> QED BY <1>2, <2>2 DEF Range
<1>5. ASSUME NEW x \in Range(t) PROVE x \in Range(w)
  <2>1. PICK i \in 1 .. n : x = t[i]
    BY <1>2 DEF Range
  <2>2. i + m \in 1 .. m + n /\ ~(i + m <= m) /\ (i + m) - m = i
    BY <1>2, <2>1
  <2>3. w[i + m] = x
    BY <1>2, <2>1, <2>2
  <2> QED BY <1>2, <2>2, <2>3 DEF Range
<1>6. Range(w) = Range(s) \cup Range(t)
  BY <1>3, <1>4, <1>5
<1> QED BY <1>6 DEF w

\* One more line, in what the client has and in the whole answer.
Adds(s, t, i, line, before, said) ==
  /\ ~(adapter = "google" /\ line.calls > 1) /\ CallsIn(s) = before
       => CallsIn(s \o t) = before \o CallsOf(i, line)
  /\ Range(CallsIn(s)) \subseteq Range(before)
       => Range(CallsIn(s \o t)) \subseteq Range(before \o CallsOf(i, line))
  /\ line.calls = 0 /\ TextsIn(s) = said => TextsIn(s \o t) = said \o TextsOf(i, line)

\* One more line adds its calls and its texts.
LEMMA SaysMore ==
  ASSUME NEW i \in Nat, NEW line \in Lines, NEW s \in Seq(Pieces), NEW t \in Seq(Pieces),
         Faithful(t, i, line), NEW before \in Seq(Nat \X Nat), NEW said \in Seq(Nat)
  PROVE  Adds(s, t, i, line, before, said)
<1> DEFINE c == CallsOf(i, line)
           d == TextsOf(i, line)
<1>1. /\ c \in Seq(Nat \X Nat) /\ d \in Seq(Nat)
      /\ c # <<>> => <<Last(c)>> \in Seq(Nat \X Nat)
  BY LineParts
<1>2. (c = <<>> <=> line.calls = 0) /\ (~line.text => d = <<>>) /\ line.calls \in Nat
  <2>1. line.calls \in Nat
    BY DEF Lines
  <2>2. c = <<>> <=> line.calls = 0
    <3>1. ASSUME line.calls = 0 PROVE c = <<>>
      BY <3>1 DEF CallsOf
    <3>2. Len(c) = line.calls /\ Len(<<>>) = 0
      BY <2>1 DEF CallsOf
    <3> HIDE DEF c
    <3> QED BY <3>1, <3>2
  <2>3. ~line.text => d = <<>>
    BY DEF TextsOf
  <2> QED BY <2>1, <2>2, <2>3
<1>3. CallsIn(s) \in Seq(Nat \X Nat) /\ TextsIn(s) \in Seq(Nat)
  BY Gathered
<1>4. Range(before \o c) = Range(before) \cup Range(c)
  <2> HIDE DEF c
  <2> QED BY <1>1, RangeConcat
<1>5. CASE t = <<>> /\ line.calls = 0 /\ ~line.text
  <2>1. s \o t = s
    BY <1>5, ConcatEmptySeq
  <2>2. c = <<>> /\ d = <<>>
    BY <1>2, <1>5
  <2> HIDE DEF c, d
  <2>3. before \o c = before /\ said \o d = said
    BY <2>2, ConcatEmptySeq
  <2> QED BY <2>1, <2>3 DEF Adds, c, d
<1>6. ASSUME NEW p \in Pieces, t = <<p>>,
             p.calls = c \/ (adapter = "google" /\ line.calls > 1 /\ p.calls = <<Last(c)>>),
             line.calls = 0 => p.texts = d
      PROVE  Adds(s, t, i, line, before, said)
  <2>1. CallsIn(s \o t) = CallsIn(s) \o p.calls /\ TextsIn(s \o t) = TextsIn(s) \o p.texts
    BY <1>6, Gathered
  <2>2. p.calls \in Seq(Nat \X Nat)
    BY DEF Pieces
  <2>3. Range(CallsIn(s \o t)) = Range(CallsIn(s)) \cup Range(p.calls)
    BY <1>3, <2>1, <2>2, RangeConcat
  <2>4. Range(p.calls) \subseteq Range(c)
    <3>1. CASE p.calls = c
      BY <3>1
    <3>2. CASE line.calls > 1 /\ p.calls = <<Last(c)>>
      <4>1. Len(c) = line.calls /\ Len(c) \in DOMAIN c
        BY <1>2, <3>2 DEF CallsOf
      <4> HIDE DEF c
      <4>2. Last(c) \in Range(c)
        BY <4>1 DEF Range, Last
      <4>3. Range(<<Last(c)>>) = {Last(c)}
        BY DEF Range
      <4> QED BY <3>2, <4>2, <4>3
    <3> QED BY <1>6, <3>1, <3>2
  <2> HIDE DEF c, d
  <2>5. ASSUME ~(adapter = "google" /\ line.calls > 1), CallsIn(s) = before
        PROVE  CallsIn(s \o t) = before \o c
    BY <1>6, <2>1, <2>5
  <2>6. ASSUME Range(CallsIn(s)) \subseteq Range(before)
        PROVE  Range(CallsIn(s \o t)) \subseteq Range(before \o c)
    BY <1>4, <2>3, <2>4, <2>6
  <2>7. ASSUME line.calls = 0, TextsIn(s) = said PROVE TextsIn(s \o t) = said \o d
    BY <1>6, <2>1, <2>7
  <2> QED BY <2>5, <2>6, <2>7 DEF Adds, c, d
<1> HIDE DEF c, d
<1>7. \/ t = <<>> /\ line.calls = 0 /\ ~line.text
      \/ \E p \in Pieces :
           /\ t = <<p>>
           /\ p.calls = c \/ (adapter = "google" /\ line.calls > 1 /\ p.calls = <<Last(c)>>)
           /\ line.calls = 0 => p.texts = d
  BY DEF Faithful, c, d
<1>8. CASE \E p \in Pieces :
           /\ t = <<p>>
           /\ p.calls = c \/ (adapter = "google" /\ line.calls > 1 /\ p.calls = <<Last(c)>>)
           /\ line.calls = 0 => p.texts = d
  <2>1. PICK p \in Pieces :
           /\ t = <<p>>
           /\ p.calls = c \/ (adapter = "google" /\ line.calls > 1 /\ p.calls = <<Last(c)>>)
           /\ line.calls = 0 => p.texts = d
    BY <1>8
  <2> QED BY <1>6, <2>1 DEF c, d
<1> QED BY <1>5, <1>7, <1>8

\* No part of a sequence that is put together is longer than the whole.
LEMMA JoinedLonger ==
  ASSUME NEW S, NEW N \in Nat, NEW f, \A i \in 1 .. N : f[i] \in Seq(S)
  PROVE  \A i \in 1 .. N : Len(f[i]) <= Len(Joined(f, N))
<1> DEFINE J(n) == Joined(f, n)
           P == {n \in Nat : n <= N => \A i \in 1 .. n : Len(f[i]) <= Len(J(n))}
<1>1. /\ \A n \in 0 .. N : J(n) \in Seq(S)
      /\ \A n \in 0 .. N - 1 : J(n + 1) = J(n) \o f[n + 1]
  BY JoinedStep
<1> HIDE DEF J
<1>2. 0 \in P
  OBVIOUS
<1>3. ASSUME NEW n \in Nat, n \in P PROVE n + 1 \in P
  <2> SUFFICES ASSUME n + 1 <= N PROVE \A i \in 1 .. n + 1 : Len(f[i]) <= Len(J(n + 1))
    OBVIOUS
  <2>1. n \in 0 .. N - 1 /\ n \in 0 .. N /\ n + 1 \in 1 .. N /\ n <= N
    OBVIOUS
  <2> DEFINE a == J(n)
             b == f[n + 1]
  <2>2. a \in Seq(S) /\ b \in Seq(S) /\ J(n + 1) = a \o b
    BY <1>1, <2>1
  <2>3. \A i \in 1 .. n : Len(f[i]) <= Len(a)
    BY <1>3, <2>1
  <2>4. \A i \in 1 .. n : Len(f[i]) \in Nat
    <3>1. \A i \in 1 .. n : f[i] \in Seq(S)
      BY <2>1
    <3> QED BY <3>1
  <2> HIDE DEF a, b, P
  <2>5. Len(J(n + 1)) = Len(a) + Len(b) /\ Len(a) \in Nat /\ Len(b) \in Nat
    BY <2>2, ConcatProperties
  <2>6. ASSUME NEW i \in 1 .. n PROVE Len(f[i]) <= Len(J(n + 1))
    BY <2>3, <2>4, <2>5
  <2>7. Len(f[n + 1]) <= Len(J(n + 1))
    BY <2>5 DEF b
  <2>8. \A i \in 1 .. n + 1 : i \in 1 .. n \/ i = n + 1
    OBVIOUS
  <2> QED BY <2>6, <2>7, <2>8
<1>4. N \in P
  <2> HIDE DEF P
  <2> QED BY <1>2, <1>3, AllNaturals
<1> QED BY <1>4 DEF J

\* The calls and the texts of each line of the answer.
CallsPer == [i \in 1 .. Len(script) |-> CallsOf(i, script[i])]
TextsPer == [i \in 1 .. Len(script) |-> TextsOf(i, script[i])]

\* All calls and texts of an answer, line by line.
LEMMA PerLine ==
  ASSUME script \in Seq(Lines)
  PROVE  /\ \A i \in 1 .. Len(script) : CallsPer[i] \in Seq(Nat \X Nat) /\ TextsPer[i] \in Seq(Nat)
         /\ \A k \in 0 .. Len(script) : /\ Joined(CallsPer, k) \in Seq(Nat \X Nat)
                                        /\ Joined(TextsPer, k) \in Seq(Nat)
         /\ \A k \in 0 .. Len(script) - 1 :
              /\ Joined(CallsPer, k + 1) = Joined(CallsPer, k) \o CallsOf(k + 1, script[k + 1])
              /\ Joined(TextsPer, k + 1) = Joined(TextsPer, k) \o TextsOf(k + 1, script[k + 1])
         /\ Joined(CallsPer, 0) = <<>> /\ Joined(TextsPer, 0) = <<>>
         /\ AllCalls(script) = Joined(CallsPer, Len(script))
         /\ AllTexts(script) = Joined(TextsPer, Len(script))
<1>1. Len(script) \in Nat /\ DOMAIN script = 1 .. Len(script)
  OBVIOUS
<1>2. \A i \in 1 .. Len(script) : CallsPer[i] \in Seq(Nat \X Nat) /\ TextsPer[i] \in Seq(Nat)
  <2> SUFFICES ASSUME NEW i \in 1 .. Len(script)
               PROVE CallsPer[i] \in Seq(Nat \X Nat) /\ TextsPer[i] \in Seq(Nat)
    OBVIOUS
  <2>1. i \in Nat /\ script[i] \in Lines
    OBVIOUS
  <2>2. CallsOf(i, script[i]) \in Seq(Nat \X Nat) /\ TextsOf(i, script[i]) \in Seq(Nat)
    BY <2>1, LineParts
  <2> QED BY <2>2 DEF CallsPer, TextsPer
<1>3. /\ Joined(CallsPer, 0) = <<>>
      /\ \A k \in 0 .. Len(script) : Joined(CallsPer, k) \in Seq(Nat \X Nat)
      /\ \A k \in 0 .. Len(script) - 1 : Joined(CallsPer, k + 1) = Joined(CallsPer, k) \o CallsPer[k + 1]
  <2> DEFINE n == Len(script)
             S == Nat \X Nat
  <2>1. n \in Nat /\ \A i \in 1 .. n : CallsPer[i] \in Seq(S)
    BY <1>1, <1>2
  <2> HIDE DEF n, S
  <2>2. /\ Joined(CallsPer, 0) = <<>>
        /\ \A k \in 0 .. n : Joined(CallsPer, k) \in Seq(S)
        /\ \A k \in 0 .. n - 1 : Joined(CallsPer, k + 1) = Joined(CallsPer, k) \o CallsPer[k + 1]
    BY <2>1, JoinedStep
  <2> QED BY <2>2 DEF n, S
<1>4. /\ Joined(TextsPer, 0) = <<>>
      /\ \A k \in 0 .. Len(script) : Joined(TextsPer, k) \in Seq(Nat)
      /\ \A k \in 0 .. Len(script) - 1 : Joined(TextsPer, k + 1) = Joined(TextsPer, k) \o TextsPer[k + 1]
  <2> DEFINE n == Len(script)
             S == Nat
  <2>1. n \in Nat /\ \A i \in 1 .. n : TextsPer[i] \in Seq(S)
    BY <1>1, <1>2
  <2> HIDE DEF n, S
  <2>2. /\ Joined(TextsPer, 0) = <<>>
        /\ \A k \in 0 .. n : Joined(TextsPer, k) \in Seq(S)
        /\ \A k \in 0 .. n - 1 : Joined(TextsPer, k + 1) = Joined(TextsPer, k) \o TextsPer[k + 1]
    BY <2>1, JoinedStep
  <2> QED BY <2>2 DEF n, S
<1>5. \A k \in 0 .. Len(script) - 1 : /\ CallsPer[k + 1] = CallsOf(k + 1, script[k + 1])
                                      /\ TextsPer[k + 1] = TextsOf(k + 1, script[k + 1])
  <2>1. \A k \in 0 .. Len(script) - 1 : k + 1 \in 1 .. Len(script)
    BY <1>1
  <2> QED BY <2>1 DEF CallsPer, TextsPer
<1>6. AllCalls(script) = FlattenSeq(CallsPer) /\ AllTexts(script) = FlattenSeq(TextsPer)
  BY <1>1 DEF AllCalls, AllTexts, CallsPer, TextsPer
<1>7. /\ CallsPer = [i \in 1 .. Len(script) |-> CallsPer[i]]
      /\ TextsPer = [i \in 1 .. Len(script) |-> TextsPer[i]]
  BY DEF CallsPer, TextsPer
<1>8. /\ AllCalls(script) = Joined(CallsPer, Len(script))
      /\ AllTexts(script) = Joined(TextsPer, Len(script))
  BY <1>6, <1>7 DEF Joined
<1> QED BY <1>2, <1>3, <1>4, <1>5, <1>8

\* What the client hears of the first lines is what they hold.
Says(k) ==
  /\ ~(adapter = "google" /\ \E i \in 1 .. Len(script) : script[i].calls > 1)
       => CallsIn(Joined(Told, k)) = Joined(CallsPer, k)
  /\ Range(CallsIn(Joined(Told, k))) \subseteq Range(Joined(CallsPer, k))
  /\ (\A i \in 1 .. Len(script) : script[i].calls = 0)
       => TextsIn(Joined(Told, k)) = Joined(TextsPer, k)

\* It is so for every number of lines.
LEMMA SaysAll ==
  ASSUME script \in Seq(Lines), \A i \in 1 .. Upto : Faithful(Told[i], i, Heard[i])
  PROVE  Says(Upto)
<1>1. Upto \in 0 .. Len(Heard) /\ Len(Heard) \in Nat /\ Len(script) \in Nat /\ Len(Heard) <= Len(script)
  BY UptoFacts, HeardIs, SizeIs
<1> DEFINE P == {k \in Nat : k <= Upto => Says(k)}
<1>2. 0 \in P
  <2>1. Joined(Told, 0) = <<>>
    BY <1>1, ToldType, JoinedStep
  <2>2. Joined(CallsPer, 0) = <<>> /\ Joined(TextsPer, 0) = <<>>
    BY PerLine
  <2>3. CallsIn(<<>>) = <<>> /\ TextsIn(<<>>) = <<>>
    BY Gathered
  <2> QED BY <2>1, <2>2, <2>3 DEF Says
<1>3. ASSUME NEW k \in Nat, k \in P PROVE k + 1 \in P
  <2> SUFFICES ASSUME k + 1 <= Upto PROVE Says(k + 1)
    OBVIOUS
  <2>1. /\ k <= Upto /\ k + 1 \in 1 .. Upto /\ k + 1 \in 1 .. Len(Heard) /\ k + 1 \in Nat
        /\ k \in 0 .. Len(script) - 1 /\ k \in 0 .. Len(script) /\ k + 1 \in 1 .. Len(script)
    BY <1>1
  <2>2. Says(k)
    BY <1>3, <2>1
  <2> DEFINE line == script[k + 1]
             s == Joined(Told, k)
             t == Told[k + 1]
             c == Joined(CallsPer, k)
             d == Joined(TextsPer, k)
  <2>3. Heard[k + 1] = line /\ line \in Lines
    BY <2>1, HeardIs
  <2>4. s \in Seq(Pieces) /\ t \in Seq(Pieces) /\ Joined(Told, k + 1) = s \o t
    BY <2>1, ToldMore
  <2>5. c \in Seq(Nat \X Nat) /\ d \in Seq(Nat)
    BY <2>1, PerLine
  <2>6. /\ Joined(CallsPer, k + 1) = c \o CallsOf(k + 1, line)
        /\ Joined(TextsPer, k + 1) = d \o TextsOf(k + 1, line)
    BY <2>1, PerLine
  <2>7. Faithful(t, k + 1, line)
    BY <2>1, <2>3
  <2> HIDE DEF s, t, c, d, P
  <2>8. Adds(s, t, k + 1, line, c, d)
    <3> HIDE DEF line
    <3> QED BY <2>1, <2>3, <2>4, <2>5, <2>7, SaysMore
  <2>9. /\ ~(adapter = "google" /\ \E i \in 1 .. Len(script) : script[i].calls > 1) => CallsIn(s) = c
        /\ Range(CallsIn(s)) \subseteq Range(c)
        /\ (\A i \in 1 .. Len(script) : script[i].calls = 0) => TextsIn(s) = d
    BY <2>2 DEF Says, s, c, d
  <2>10. ASSUME ~(adapter = "google" /\ \E i \in 1 .. Len(script) : script[i].calls > 1)
         PROVE  CallsIn(Joined(Told, k + 1)) = Joined(CallsPer, k + 1)
    <3>1. ~(adapter = "google" /\ line.calls > 1) /\ CallsIn(s) = c
      BY <2>1, <2>9, <2>10
    <3> HIDE DEF line
    <3> QED BY <2>4, <2>6, <2>8, <3>1 DEF Adds
  <2>11. Range(CallsIn(Joined(Told, k + 1))) \subseteq Range(Joined(CallsPer, k + 1))
    <3> HIDE DEF line
    <3> QED BY <2>4, <2>6, <2>8, <2>9 DEF Adds
  <2>12. ASSUME \A i \in 1 .. Len(script) : script[i].calls = 0
         PROVE  TextsIn(Joined(Told, k + 1)) = Joined(TextsPer, k + 1)
    <3>1. line.calls = 0 /\ TextsIn(s) = d
      BY <2>1, <2>9, <2>12
    <3> HIDE DEF line
    <3> QED BY <2>4, <2>6, <2>8, <3>1 DEF Adds
  <2> QED BY <2>10, <2>11, <2>12 DEF Says
<1>4. Upto \in P
  <2> HIDE DEF P
  <2> QED BY <1>1, <1>2, <1>3, AllNaturals
<1> QED BY <1>1, <1>4

\* What an answer holds when it comes in one piece.
LEMMA WholeSays ==
  ASSUME NEW lines \in Seq(Lines)
  PROVE  /\ WholeAnswer(adapter, lines).calls = AllCalls(lines)
         /\ AllCalls(lines) = <<>> => WholeAnswer(adapter, lines).texts = AllTexts(lines)
<1>1. ASSUME NEW reason
      PROVE  /\ WholeConverted(lines, reason).calls = AllCalls(lines)
             /\ AllCalls(lines) = <<>> => WholeConverted(lines, reason).texts = AllTexts(lines)
  BY DEF WholeConverted, Piece
<1>2. CASE adapter = "google"
  <2>1. WholeAnswer(adapter, lines) = WholeConverted(lines, "STOP")
    BY <1>2 DEF WholeAnswer
  <2> QED BY <1>1, <2>1
<1>3. CASE adapter = "cohere"
  <2>1. WholeAnswer(adapter, lines) = WholeConverted(lines, "stop")
    BY <1>3 DEF WholeAnswer
  <2> QED BY <1>1, <2>1
<1>4. CASE adapter # "google" /\ adapter # "cohere"
  BY <1>4 DEF WholeAnswer, Piece
<1> QED BY <1>2, <1>3, <1>4

\* Mending changes neither calls nor texts.
LEMMA MendedSays ==
  ASSUME NEW s \in Seq(Pieces)
  PROVE  CallsIn(Mended(s)) = CallsIn(s) /\ TextsIn(Mended(s)) = TextsIn(s)
<1>1. /\ Mended(s) \in Seq(Pieces) /\ Len(Mended(s)) = Len(s)
      /\ \A n \in 1 .. Len(s) : Mended(s)[n] = Mend(s[n])
  BY MendedType
<1>2. DOMAIN Mended(s) = 1 .. Len(s) /\ DOMAIN s = 1 .. Len(s)
  BY <1>1
<1>3. ASSUME NEW n \in 1 .. Len(s) PROVE Mended(s)[n].calls = s[n].calls /\ Mended(s)[n].texts = s[n].texts
  <2>1. s[n] \in Pieces
    OBVIOUS
  <2> QED BY <1>1, <2>1, MendType
<1> DEFINE w == Mended(s)
<1> HIDE DEF w
<1>4. /\ [n \in DOMAIN w |-> w[n].calls] = [n \in DOMAIN s |-> s[n].calls]
      /\ [n \in DOMAIN w |-> w[n].texts] = [n \in DOMAIN s |-> s[n].texts]
  BY <1>2, <1>3 DEF w
<1>5. CallsIn(w) = CallsIn(s) /\ TextsIn(w) = TextsIn(s)
  BY <1>4 DEF CallsIn, TextsIn
<1> QED BY <1>5 DEF w

\* The client hears all of it: a line that ends the generator holds nothing.
LEMMA ProperUpto ==
  ASSUME script \in Seq(Lines), script = answer, Proper
  PROVE  /\ Joined(CallsPer, Len(script)) = Joined(CallsPer, Upto)
         /\ Joined(TextsPer, Len(script)) = Joined(TextsPer, Upto)
<1>1. Heard = script /\ Len(script) \in Nat /\ DOMAIN script = 1 .. Len(script)
  BY DEF Heard, Proper
<1>2. Upto \in 0 .. Len(script) /\ (Upto = Len(script) \/ Upto + 1 \in Stops)
  BY <1>1, UptoFacts
<1>3. CASE Upto + 1 \in Stops
  <2> DEFINE line == script[Upto + 1]
  <2>1. Upto + 1 \in 1 .. Len(script) /\ Reading(adapter, line) \in {"return", "raise"}
    BY <1>1, <1>3 DEF Stops
  <2>2. line \in Lines
    BY <2>1
  <2>3. Reading(adapter, line) = "return"
    BY <1>1, <2>1 DEF Proper
  <2>4. line.kind \in {"data", "empty", "bad", "other", "done"}
    BY <2>2 DEF Lines
  <2>5. line.kind = "done"
    <3> HIDE DEF line
    <3> QED BY <2>3, <2>4 DEF Reading
  <2>6. line.calls = 0 /\ ~line.text
    <3> HIDE DEF line
    <3> QED BY <2>2, <2>5 DEF Lines
  <2>7. Upto + 1 = Len(script)
    BY <1>1, <2>1, <2>5 DEF Proper
  <2>8. CallsOf(Upto + 1, line) = <<>> /\ TextsOf(Upto + 1, line) = <<>>
    BY <2>6 DEF CallsOf, TextsOf
  <2>9. Upto \in 0 .. Len(script) - 1 /\ Upto \in 0 .. Len(script)
    <3> DEFINE u == Upto
               n == Len(script)
    <3>1. n \in Nat /\ u \in 0 .. n /\ u + 1 = n
      BY <1>1, <1>2, <2>7
    <3> HIDE DEF u, n
    <3>2. u \in 0 .. n - 1 /\ u \in 0 .. n
      BY <3>1
    <3> QED BY <3>2 DEF u, n
  <2>10. /\ Joined(CallsPer, Upto + 1) = Joined(CallsPer, Upto) \o CallsOf(Upto + 1, line)
         /\ Joined(TextsPer, Upto + 1) = Joined(TextsPer, Upto) \o TextsOf(Upto + 1, line)
         /\ Joined(CallsPer, Upto) \in Seq(Nat \X Nat) /\ Joined(TextsPer, Upto) \in Seq(Nat)
    BY <2>9, PerLine
  <2> HIDE DEF line
  <2>11. /\ Joined(CallsPer, Upto + 1) = Joined(CallsPer, Upto)
         /\ Joined(TextsPer, Upto + 1) = Joined(TextsPer, Upto)
    BY <2>8, <2>10, ConcatEmptySeq
  <2> QED BY <2>7, <2>11
<1> QED BY <1>2, <1>3

\* Of an answer without events nothing is heard.
LEMMA UnaskedSays ==
  ASSUME AnswerInv, ~StreamAsked(adapter, mode)
  PROVE  Meaning = <<>>
<1> DEFINE other == Line("other", FALSE, 0, FALSE)
           S == Pieces
           n == Len(Heard)
<1>1. script \in Seq(Lines) /\ script = [i \in DOMAIN answer |-> other]
  BY EitherKind DEF AnswerInv, LinesSent
<1>2. Upto \in 0 .. n /\ n \in Nat /\ n <= Len(script) /\ Len(script) \in Nat
  BY <1>1, UptoFacts, HeardIs
<1>3. ASSUME NEW i \in 1 .. n PROVE Told[i] = <<>>
  <2>1. \A j \in 1 .. Len(Heard) : Heard[j] = script[j]
    BY <1>1, HeardIs
  <2>2. Heard[i] = script[i] /\ i \in 1 .. Len(script)
    BY <1>2, <2>1
  <2>3. Heard[i] = other
    <3> HIDE DEF other
    <3>1. DOMAIN script = DOMAIN answer /\ DOMAIN script = 1 .. Len(script)
      BY <1>1
    <3> QED BY <1>1, <2>2, <3>1
  <2>4. Reading(adapter, Heard[i]) = "skip"
    BY <2>3 DEF Reading, Line
  <2> QED BY <2>4 DEF Told
<1>4. /\ Joined(Told, 0) = <<>>
      /\ \A k \in 0 .. n : Joined(Told, k) \in Seq(S)
      /\ \A k \in 0 .. n - 1 : Joined(Told, k + 1) = Joined(Told, k) \o Told[k + 1]
  <2>1. \A i \in 1 .. n : Told[i] \in Seq(S)
    BY <1>1, ToldType
  <2> HIDE DEF n, S
  <2> QED BY <1>2, <2>1, JoinedStep
<1> DEFINE P == {k \in Nat : k <= n => Joined(Told, k) = <<>>}
<1> HIDE DEF n, S, other
<1>5. 0 \in P
  BY <1>4
<1>6. ASSUME NEW k \in Nat, k \in P PROVE k + 1 \in P
  <2> SUFFICES ASSUME k + 1 <= n PROVE Joined(Told, k + 1) = <<>>
    OBVIOUS
  <2>1. k \in 0 .. n - 1 /\ k + 1 \in 1 .. n /\ k <= n
    BY <1>2
  <2>2. Joined(Told, k + 1) = <<>> \o <<>>
    BY <1>3, <1>4, <1>6, <2>1
  <2> QED BY <2>2
<1>7. Upto \in P
  <2> HIDE DEF P
  <2> QED BY <1>2, <1>5, <1>6, AllNaturals
<1> QED BY <1>1, <1>2, <1>7, MeaningIs

\* A complete answer that was asked for as a stream, and streamed to the end, holds the
\* calls of the same answer in one piece, in their order, and its texts if it has no
\* calls; of one that was not, Cohere's, the client has heard nothing (the
\* stream_chat_completion and the chat_completion of the adapters).
THEOREM StreamedAsWholeAlways == Spec => []StreamedAsWhole
<1> DEFINE Conclusion ==
             /\ IF adapter = "google" /\ \E i \in DOMAIN script : script[i].calls > 1
                THEN Range(CallsIn(out)) \subseteq Range(WholeAnswer(adapter, script).calls)
                ELSE CallsIn(out) = WholeAnswer(adapter, script).calls
             /\ WholeAnswer(adapter, script).calls = <<>> =>
                  TextsIn(out) = WholeAnswer(adapter, script).texts
<1>0. ASSUME AnswerInv, StreamAsked(adapter, mode) PROVE script = answer /\ adapter # "cohere"
  BY <1>0 DEF AnswerInv, LinesSent, StreamAsked
<1>1. ASSUME script = answer, Conclusion PROVE HeardAsWhole
  BY <1>1 DEF HeardAsWhole, CallsIn, TextsIn
<1>2. ASSUME StreamInv, phase = "finished", script = answer, adapter # "cohere", Proper PROVE Conclusion
  <2>1. /\ script \in Seq(Lines) /\ out \in Seq(Pieces) /\ Mended(out) = Meaning
        /\ DOMAIN script = 1 .. Len(script) /\ Len(script) \in Nat
    BY <1>2 DEF StreamInv, Held, Given, Outcome
  <2>2. Heard = script /\ Upto \in 0 .. Len(script)
    <3>1. Heard = script
      BY <1>2 DEF Proper, Heard
    <3> QED BY <2>1, <3>1, UptoFacts
  <2>3. ASSUME NEW i \in 1 .. Upto PROVE Faithful(Told[i], i, Heard[i])
    <3>1. i \in 1 .. Len(script)
      BY <2>1, <2>2
    <3>2. /\ Reading(adapter, script[i]) # "raise"
          /\ adapter = "cohere" /\ script[i].last => ~script[i].text /\ script[i].calls = 0
      BY <1>2, <2>1, <3>1 DEF Proper
    <3> QED BY <2>1, <2>2, <3>1, <3>2, ToldFaithful
  <2>4. Says(Upto)
    BY <2>1, <2>3, SaysAll
  <2>5. CallsIn(out) = CallsIn(Joined(Told, Upto)) /\ TextsIn(out) = TextsIn(Joined(Told, Upto))
    <3>1. CallsIn(Mended(out)) = CallsIn(out) /\ TextsIn(Mended(out)) = TextsIn(out)
      BY <2>1, MendedSays
    <3>2. Mended(out) = Joined(Told, Upto)
      BY <2>1, MeaningIs
    <3> QED BY <3>1, <3>2
  <2>6. AllCalls(script) = Joined(CallsPer, Upto) /\ AllTexts(script) = Joined(TextsPer, Upto)
    BY <1>2, <2>1, PerLine, ProperUpto
  <2>7. /\ WholeAnswer(adapter, script).calls = AllCalls(script)
        /\ AllCalls(script) = <<>> => WholeAnswer(adapter, script).texts = AllTexts(script)
    BY <2>1, WholeSays
  <2>8. ASSUME AllCalls(script) = <<>> PROVE \A i \in 1 .. Len(script) : script[i].calls = 0
    <3> SUFFICES ASSUME NEW i \in 1 .. Len(script) PROVE script[i].calls = 0
      OBVIOUS
    <3> DEFINE n == Len(script)
               S == Nat \X Nat
    <3>1. n \in Nat /\ (\A j \in 1 .. n : CallsPer[j] \in Seq(S)) /\ i \in 1 .. n
      BY <2>1, PerLine
    <3>2. Joined(CallsPer, n) = <<>>
      BY <2>1, <2>8, PerLine
    <3> HIDE DEF n, S
    <3>3. Len(CallsPer[i]) <= Len(Joined(CallsPer, n)) /\ Len(<<>>) = 0
      BY <3>1, JoinedLonger
    <3>4. CallsPer[i] = CallsOf(i, script[i])
      BY DEF CallsPer
    <3>5. script[i].calls \in Nat
      <4>1. script[i] \in Lines
        BY <2>1
      <4> QED BY <4>1 DEF Lines
    <3>6. Len(CallsOf(i, script[i])) = script[i].calls
      BY <3>5 DEF CallsOf
    <3> QED BY <3>2, <3>3, <3>4, <3>5, <3>6
  <2>9. /\ ~(adapter = "google" /\ \E i \in 1 .. Len(script) : script[i].calls > 1)
             => CallsIn(out) = AllCalls(script)
        /\ Range(CallsIn(out)) \subseteq Range(AllCalls(script))
        /\ (\A i \in 1 .. Len(script) : script[i].calls = 0) => TextsIn(out) = AllTexts(script)
    BY <2>4, <2>5, <2>6 DEF Says
  <2> QED BY <2>1, <2>7, <2>8, <2>9
<1>3. ASSUME StreamInv, AnswerInv, phase = "finished", ~StreamAsked(adapter, mode) PROVE out = <<>>
  <2>1. out \in Seq(Pieces) /\ Mended(out) = <<>>
    BY <1>3, UnaskedSays DEF StreamInv, Given, Outcome
  <2>2. Len(out) = 0
    BY <2>1, MendedType
  <2> QED BY <2>1, <2>2
<1>4. StreamInv /\ AnswerInv => StreamedAsWhole
  <2> HIDE DEF Conclusion
  <2> QED BY <1>0, <1>1, <1>2, <1>3 DEF StreamedAsWhole
<1> QED BY <1>4, AnswerInit, AnswerNext, StreamInvInit, StreamInvNext, PTL DEF Spec
=============================================================================
