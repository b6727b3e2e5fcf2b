--------------------------- MODULE ProvidersProofs ---------------------------
(***************************************************************************)
(* Theorems about what the adapters ask of a provider, for any             *)
(* conversations, inputs and listings: embeddings come in order, probes    *)
(* find what is listed, and a conversation is sent with all of its text.   *)
(***************************************************************************)
EXTENDS Providers, FiniteSetTheorems, SequenceTheorems, TLAPS

-----------------------------------------------------------------------------
(* Embeddings and probes *)

\* Google's embeddings so far are those of the first inputs, in order, or empty ones.
OneEach == \A k \in 1 .. Len(results) : results[k] \in {Inputs[k], "empty"}

EmbedInv ==
  /\ op = "embed" /\ provider = "google" =>
       /\ results \in Seq(Range(Inputs) \cup {"empty"})
       /\ Len(results) <= Len(Inputs) /\ OneEach
  /\ op = "embedded" /\ provider = "google" => Len(results) = Len(Inputs) /\ OneEach
  /\ op = "failed" => results = <<>>

LEMMA EmbedInit == Init => EmbedInv
<1>1. Init => results = <<>> /\ op \notin {"embedded", "failed"}
  BY DEF Init, AccessInit, Idle
<1>2. <<>> \in Seq(Range(Inputs) \cup {"empty"}) /\ Len(<<>>) = 0 /\ Len(Inputs) \in Nat
  BY InputsAssumption
<1> QED BY <1>1, <1>2 DEF EmbedInv, OneEach

\* One more embedding, of the next input.
LEMMA EmbedNextInOrder ==
  ASSUME EmbedInv, op = "embed", EmbedNext
  PROVE  EmbedInv'
<1> DEFINE S == Range(Inputs) \cup {"empty"}
           n == Len(results)
<1>1. PICK embedding \in {Inputs[n + 1], "empty"} : results' = Append(results, embedding)
  BY DEF EmbedNext
<1>2. /\ results \in Seq(S) /\ n \in Nat /\ Len(Inputs) \in Nat /\ n < Len(Inputs) /\ OneEach
      /\ UNCHANGED <<op, provider>>
  BY InputsAssumption DEF EmbedInv, EmbedNext
<1>3. Inputs[n + 1] \in S
  BY <1>2, InputsAssumption DEF Range
<1> HIDE DEF S
<1>4. /\ results' \in Seq(S) /\ Len(results') = n + 1 /\ results'[n + 1] = embedding
      /\ \A k \in 1 .. n : results'[k] = results[k]
  BY <1>1, <1>2, <1>3 DEF S
<1>5. OneEach'
  <2> SUFFICES ASSUME NEW k \in 1 .. n + 1 PROVE results'[k] \in {Inputs[k], "empty"}
    BY <1>4 DEF OneEach
  <2>1. CASE k \in 1 .. n
    BY <1>2, <1>4, <2>1 DEF OneEach
  <2>2. CASE k = n + 1
    BY <1>1, <1>4, <2>2
  <2> QED BY <1>2, <2>1, <2>2
<1> QED BY <1>2, <1>4, <1>5 DEF EmbedInv, S

LEMMA EmbedNextKeeps == EmbedInv /\ [Next]_vars => EmbedInv'
<1> SUFFICES ASSUME EmbedInv, [Next]_vars PROVE EmbedInv'
  OBVIOUS
<1>1. CASE Validate
  BY <1>1 DEF EmbedInv, Validate, Done
<1>2. CASE Probe
  BY <1>2 DEF EmbedInv, Probe, Done
<1>3. CASE op = "embed" /\ EmbedNext
  BY <1>3, EmbedNextInOrder
<1>4. CASE op = "embed" /\ EmbedEnds
  BY <1>4 DEF EmbedInv, EmbedEnds, Embedded, OneEach
<1>5. CASE op = "embed" /\ EmbedAll
  BY <1>5 DEF EmbedInv, EmbedAll, Embedded
<1>6. CASE Raises
  BY <1>6 DEF EmbedInv, Raises
<1>7. CASE ImageGeneration
  BY <1>7 DEF EmbedInv, ImageGeneration, Raises, Done
<1>8. CASE UNCHANGED accessVars
  BY <1>8 DEF EmbedInv, OneEach, accessVars
<1> QED BY <1>1, <1>2, <1>3, <1>4, <1>5, <1>6, <1>7, <1>8 DEF Next, AccessNext, Embed, vars

\* What google.py returns is one embedding for each input, in order, its own or an empty
\* one, for any list of inputs, and a request that fails returns none.
THEOREM EmbeddingsInOrderAlways == Spec => []EmbeddingsInOrder
<1>1. EmbedInv => EmbeddingsInOrder
  BY DEF EmbedInv, OneEach, EmbeddingsInOrder
<1> QED BY <1>1, EmbedInit, EmbedNextKeeps, PTL DEF Spec

\* All a probe has found is the adapter's default, the call of text to speech, or
\* in a listing; an adapter with one list call keeps what it looks for in it.
Listed == UNION {UNION ListModels(provider, names) : names \in seen}

ProbeInv ==
  /\ caps \subseteq Default(provider) \cup {"audio_tts"} \cup Listed
  /\ provider \in {"generic", "cohere"} =>
       /\ Looked(provider, 1) \cap Listed \subseteq caps
       /\ op # "done" => seen = {}

LEMMA ProbeInit == Init => ProbeInv
BY DEF Init, AccessInit, Idle, ProbeInv, Listed

LEMMA SameFinds ==
  ASSUME ProbeInv, UNCHANGED <<provider, caps, seen>>, op = "done" => op' = "done"
  PROVE  ProbeInv'
BY DEF ProbeInv, Listed

\* One list call, the last of an adapter that has one only.
LEMMA ListFinds ==
  ASSUME ProbeInv, NEW n \in {1, 2}, ProbeList(n), UNCHANGED provider,
         op' = "done" \/ provider = "google"
  PROVE  ProbeInv'
<1>1. PICK names \in Listings : Lists(n, names) /\ seen' = seen \cup {names}
  BY DEF ProbeList
<1> DEFINE found == UNION ListModels(provider, names)
<1>2. Listed' = Listed \cup found
  BY <1>1 DEF Listed
<1>3. caps' = caps \cup (found \cap Looked(provider, n))
  BY <1>1 DEF Lists
<1>4. provider \in {"generic", "cohere"} => Looked(provider, n) = Looked(provider, 1) /\ op' = "done"
  BY DEF Looked
<1> HIDE DEF found
<1>5. provider' = provider
  OBVIOUS
<1> QED BY <1>2, <1>3, <1>4, <1>5 DEF ProbeInv

LEMMA ProbeKeeps == ProbeInv /\ Probe => ProbeInv'
<1> SUFFICES ASSUME ProbeInv, Probe PROVE ProbeInv'
  OBVIOUS
<1>1. CASE provider \in {"cloudflare", "stability"}
  BY <1>1, SameFinds DEF Probe, Done
<1>2. CASE provider = "google" /\ calls = 1
  <2>1. ProbeSpeech /\ UNCHANGED provider
    BY <1>2 DEF Probe
  <2> QED BY <1>2, <2>1 DEF ProbeInv, ProbeSpeech, Listed
<1>3. CASE provider = "google" /\ calls = 0
  <2>1. (ProbeList(1) \/ ProbeListFails) /\ UNCHANGED <<op, provider>>
    BY <1>3 DEF Probe
  <2> QED BY <1>3, <2>1, ListFinds, SameFinds DEF ProbeListFails
<1>4. CASE provider \notin {"cloudflare", "stability"} /\ ~(provider = "google" /\ calls \in {0, 1})
  <2>1. (ProbeList(2) \/ ProbeListFails) /\ Done
    BY <1>4 DEF Probe
  <2> QED BY <2>1, ListFinds, SameFinds DEF ProbeListFails, Done
<1> QED BY <1>1, <1>2, <1>3, <1>4

LEMMA ProbeNextKeeps == ProbeInv /\ [Next]_vars => ProbeInv'
<1> SUFFICES ASSUME ProbeInv, [Next]_vars PROVE ProbeInv'
  OBVIOUS
<1>1. CASE Probe
  BY <1>1, ProbeKeeps
<1>2. CASE Validate \/ Embed \/ ImageGeneration \/ UNCHANGED accessVars
  <2>1. UNCHANGED <<provider, caps, seen>> /\ (op = "done" => op' = "done")
    BY <1>2 DEF Validate, Embed, EmbedNext, EmbedEnds, EmbedAll, Embedded, Raises, ImageGeneration, Done, accessVars
  <2> QED BY <2>1, SameFinds
<1> QED BY <1>1, <1>2 DEF Next, AccessNext, vars

\* A probe adds only what the provider listed, and an adapter with one list call,
\* if it was answered, has all of that it looks for.
THEOREM ProbeFindsListedAlways == Spec => []ProbeFindsListed
<1>1. ProbeInv => ProbeFindsListed
  BY DEF ProbeInv, ProbeFindsListed, Listed
<1> QED BY <1>1, ProbeInit, ProbeNextKeeps, PTL DEF Spec

-----------------------------------------------------------------------------
(* Induction on numbers, and what FlattenSeq computes.  The induction        *)
(* theorems of the library take an operator as a parameter; this takes a set. *)

LEMMA AllNaturals ==
  ASSUME NEW P, 0 \in P, \A n \in Nat : n \in P => n + 1 \in P
  PROVE  Nat \subseteq P
<1> SUFFICES ASSUME Nat \ P # {} PROVE FALSE
  OBVIOUS
<1>1. \E n \in Nat \ P : \A m \in Nat \ P : ~(<<m, n>> \in OpToRel(<, Nat))
  <2>1. Nat \ P \subseteq Nat
    OBVIOUS
  <2> QED BY <2>1, NatLessThanWellFounded, WFMin
<1>2. PICK n \in Nat \ P : \A m \in Nat \ P : ~(m < n)
  BY <1>1 DEF OpToRel
<1>3. n \in Nat /\ n # 0 /\ n \notin P
  OBVIOUS
<1>4. n - 1 \in Nat /\ n - 1 < n /\ (n - 1) + 1 = n
  BY <1>3
<1>5. n - 1 \in P
  BY <1>2, <1>4
<1> QED BY <1>3, <1>4, <1>5

LEMMA AllPlaces ==
  ASSUME NEW n \in Nat, NEW P, n # 0 => 1 \in P, \A i \in 1 .. n - 1 : i \in P => i + 1 \in P
  PROVE  1 .. n \subseteq P
<1> DEFINE Q == {m \in Nat : m + 1 \in 1 .. n => m + 1 \in P}
<1>1. 0 \in Q
  OBVIOUS
<1>2. ASSUME NEW m \in Nat, m \in Q PROVE m + 1 \in Q
  <2> SUFFICES ASSUME (m + 1) + 1 \in 1 .. n PROVE (m + 1) + 1 \in P
    OBVIOUS
  <2>1. m + 1 \in 1 .. n - 1 /\ m + 1 \in P
    BY <1>2
  <2> QED BY <2>1
<1>3. Nat \subseteq Q
  <2> HIDE DEF Q
  <2> QED BY <1>1, <1>2, AllNaturals
<1> SUFFICES ASSUME NEW i \in 1 .. n PROVE i \in P
  OBVIOUS
<1>4. i - 1 \in Nat /\ (i - 1) + 1 = i
  OBVIOUS
<1>5. i - 1 \in Q
  BY <1>3, <1>4
<1> QED BY <1>4, <1>5

\* F[i] holds the first i sequences end to end.
Flattens(F, seqs) ==
  F = [i \in 1 .. Len(seqs) |-> IF i = 1 THEN seqs[i] ELSE F[i - 1] \o seqs[i]]

LEMMA FlattenExists ==
  ASSUME NEW seqs, Len(seqs) \in Nat
  PROVE  \E F : Flattens(F, seqs)
<1> DEFINE Body(F, i) == IF i = 1 THEN seqs[i] ELSE F[i - 1] \o seqs[i]
           P == {n \in Nat : \E F : \A i \in 1 .. n : F[i] = Body(F, i)}
<1>1. 0 \in P
  OBVIOUS
<1>2. ASSUME NEW n \in Nat, n \in P PROVE n + 1 \in P
  <2>1. PICK F : \A i \in 1 .. n : F[i] = Body(F, i)
    BY <1>2
  <2> DEFINE h == [i \in 1 .. n + 1 |-> IF i <= n THEN F[i] ELSE Body(F, i)]
  <2>2. ASSUME NEW i \in 1 .. n + 1 PROVE h[i] = Body(F, i)
    BY <2>1
  <2>3. ASSUME NEW i \in 1 .. n + 1 PROVE Body(h, i) = Body(F, i)
    <3>1. CASE i = 1
      BY <3>1
    <3>2. CASE i # 1
      <4>1. h[i - 1] = F[i - 1]
        BY <3>2
      <4> HIDE DEF h
      <4> QED BY <3>2, <4>1
    <3> QED BY <3>1, <3>2
  <2>4. \A i \in 1 .. n + 1 : h[i] = Body(h, i)
    BY <2>2, <2>3
  <2> HIDE DEF h, Body
  <2> QED BY <2>4
<1>3. Len(seqs) \in P
  <2> HIDE DEF P
  <2> QED BY <1>1, <1>2, AllNaturals
<1>4. PICK F : \A i \in 1 .. Len(seqs) : F[i] = Body(F, i)
  BY <1>3
<1> DEFINE h == [i \in 1 .. Len(seqs) |-> F[i]]
<1>5. ASSUME NEW i \in 1 .. Len(seqs) PROVE h[i] = Body(h, i)
  <2>1. CASE i = 1
    BY <1>4, <2>1
  <2>2. CASE i # 1
    <3>1. h[i - 1] = F[i - 1] /\ h[i] = F[i]
      BY <2>2
    <3> HIDE DEF h
    <3> QED BY <1>4, <2>2, <3>1
  <2> QED BY <2>1, <2>2
<1>6. h = [i \in 1 .. Len(seqs) |-> Body(h, i)]
  <2> HIDE DEF Body
  <2> QED BY <1>5
<1> QED BY <1>6 DEF Flattens

LEMMA FlattenIs ==
  ASSUME NEW seqs, Len(seqs) \in Nat, Len(seqs) # 0
  PROVE  \E F : Flattens(F, seqs) /\ FlattenSeq(seqs) = F[Len(seqs)]
<1> DEFINE IsIt(F) == F = [i \in 1 .. Len(seqs) |-> IF i = 1 THEN seqs[i] ELSE F[i - 1] \o seqs[i]]
<1>1. PICK F : IsIt(F)
  BY FlattenExists DEF Flattens
<1>2. IsIt(CHOOSE q : IsIt(q))
  BY <1>1
<1>3. FlattenSeq(seqs) = (CHOOSE q : IsIt(q))[Len(seqs)]
  BY DEF FlattenSeq
<1> QED BY <1>2, <1>3 DEF Flattens

LEMMA FlattenStep ==
  ASSUME NEW seqs, NEW F, Flattens(F, seqs), Len(seqs) \in Nat
  PROVE  /\ Len(seqs) # 0 => F[1] = seqs[1]
         /\ \A i \in 1 .. Len(seqs) - 1 : F[i + 1] = F[i] \o seqs[i + 1]
<1>1. \A i \in 1 .. Len(seqs) : F[i] = IF i = 1 THEN seqs[i] ELSE F[i - 1] \o seqs[i]
  BY DEF Flattens
<1>2. ASSUME NEW i \in 1 .. Len(seqs) - 1 PROVE F[i + 1] = F[i] \o seqs[i + 1]
  <2>1. i + 1 \in 1 .. Len(seqs) /\ i + 1 # 1 /\ (i + 1) - 1 = i
    OBVIOUS
  <2>2. F[i + 1] = F[(i + 1) - 1] \o seqs[i + 1]
    BY <1>1, <2>1
  <2> QED BY <2>1, <2>2
<1>3. ASSUME Len(seqs) # 0 PROVE F[1] = seqs[1]
  <2>1. 1 \in 1 .. Len(seqs)
    BY <1>3
  <2> QED BY <1>1, <2>1
<1> QED BY <1>2, <1>3

LEMMA FlattenType ==
  ASSUME NEW S, NEW seqs \in Seq(Seq(S)), NEW F, Flattens(F, seqs)
  PROVE  \A i \in 1 .. Len(seqs) : F[i] \in Seq(S)
<1> DEFINE P == {i \in 1 .. Len(seqs) : F[i] \in Seq(S)}
           n == Len(seqs)
<1>1. n \in Nat /\ \A i \in 1 .. n : seqs[i] \in Seq(S)
  OBVIOUS
<1>2. n # 0 => F[1] = seqs[1]
  BY <1>1, FlattenStep
<1>3. n # 0 => 1 \in P
  BY <1>1, <1>2
<1>4. ASSUME NEW i \in 1 .. n - 1, i \in P PROVE i + 1 \in P
  <2>1. F[i + 1] = F[i] \o seqs[i + 1]
    BY <1>1, FlattenStep
  <2>2. i + 1 \in 1 .. n
    BY <1>1
  <2>3. F[i] \in Seq(S) /\ seqs[i + 1] \in Seq(S)
    BY <1>1, <1>4, <2>2
  <2>4. F[i + 1] \in Seq(S)
    BY <2>1, <2>3, ConcatProperties
  <2> QED BY <2>2, <2>4
<1>5. 1 .. n \subseteq P
  <2> HIDE DEF P, n
  <2> QED BY <1>1, <1>3, <1>4, AllPlaces
<1> QED BY <1>5

LEMMA FlattenSeqType ==
  ASSUME NEW S, NEW seqs \in Seq(Seq(S))
  PROVE  FlattenSeq(seqs) \in Seq(S)
<1>1. CASE Len(seqs) = 0
  <2>1. seqs = <<>>
    BY <1>1
  <2> QED BY <2>1 DEF FlattenSeq
<1>2. CASE Len(seqs) # 0
  <2>1. Len(seqs) \in Nat /\ Len(seqs) \in 1 .. Len(seqs)
    BY <1>2
  <2>2. PICK F : Flattens(F, seqs) /\ FlattenSeq(seqs) = F[Len(seqs)]
    BY <1>2, <2>1, FlattenIs
  <2>3. \A i \in 1 .. Len(seqs) : F[i] \in Seq(S)
    BY <2>2, FlattenType
  <2> QED BY <2>1, <2>2, <2>3
<1> QED BY <1>1, <1>2

\* One more sequence at the end.
LEMMA FlattenAppend ==
  ASSUME NEW S, NEW seqs \in Seq(Seq(S)), NEW x \in Seq(S)
  PROVE  FlattenSeq(Append(seqs, x)) = FlattenSeq(seqs) \o x
<1> DEFINE more == Append(seqs, x)
           n    == Len(seqs)
<1>1. more \in Seq(Seq(S)) /\ Len(more) = n + 1 /\ n \in Nat /\ more[n + 1] = x
      /\ \A i \in 1 .. n : more[i] = seqs[i]
  OBVIOUS
<1> HIDE DEF more
<1>2. PICK F : Flattens(F, more) /\ FlattenSeq(more) = F[n + 1]
  <2>1. Len(more) \in Nat /\ Len(more) # 0
    BY <1>1
  <2>2. \E F : Flattens(F, more) /\ FlattenSeq(more) = F[Len(more)]
    BY <2>1, FlattenIs
  <2> QED BY <1>1, <2>2
<1>3. /\ F[1] = more[1]
      /\ \A i \in 1 .. n : F[i + 1] = F[i] \o more[i + 1]
  <2>1. Len(more) \in Nat /\ Len(more) # 0 /\ Len(more) - 1 = n
    BY <1>1
  <2>2. /\ Len(more) # 0 => F[1] = more[1]
        /\ \A i \in 1 .. Len(more) - 1 : F[i + 1] = F[i] \o more[i + 1]
    BY <1>2, <2>1, FlattenStep
  <2> QED BY <2>1, <2>2
<1>4. CASE n = 0
  <2>1. FlattenSeq(seqs) = <<>>
    BY <1>4 DEF FlattenSeq
  <2>2. F[n + 1] = x
    BY <1>1, <1>3, <1>4
  <2> QED BY <1>2, <2>1, <2>2 DEF more
<1>5. CASE n # 0
  <2>1. PICK G : Flattens(G, seqs) /\ FlattenSeq(seqs) = G[n]
    BY <1>1, <1>5, FlattenIs
  <2>2. /\ G[1] = seqs[1]
        /\ \A i \in 1 .. n - 1 : G[i + 1] = G[i] \o seqs[i + 1]
    BY <1>1, <1>5, <2>1, FlattenStep
  <2> DEFINE P == {i \in 1 .. n : F[i] = G[i]}
  <2>3. 1 \in P
    BY <1>1, <1>3, <1>5, <2>2
  <2>4. ASSUME NEW i \in 1 .. n - 1, i \in P PROVE i + 1 \in P
    <3>1. i \in 1 .. n /\ i + 1 \in 1 .. n
      BY <1>1
    <3>2. F[i + 1] = F[i] \o seqs[i + 1]
      BY <1>1, <1>3, <3>1
    <3>3. G[i + 1] = G[i] \o seqs[i + 1]
      BY <2>2
    <3> QED BY <2>4, <3>1, <3>2, <3>3
  <2>5. 1 .. n \subseteq P
    <3> HIDE DEF P, n
    <3> QED BY <1>1, <2>3, <2>4, AllPlaces
  <2>6. n \in 1 .. n
    BY <1>1, <1>5
  <2>7. F[n] = G[n]
    BY <2>5, <2>6
  <2>8. F[n + 1] = F[n] \o x
    BY <1>1, <1>3, <2>6
  <2> QED BY <1>2, <2>1, <2>7, <2>8 DEF more
<1> QED BY <1>4, <1>5

\* The sequences f[1], f[2], ... end to end, up to the n-th.
Joined(f, n) == FlattenSeq([i \in 1 .. n |-> f[i]])

LEMMA JoinedStep ==
  ASSUME NEW S, NEW N \in Nat, NEW f, \A i \in 1 .. N : f[i] \in Seq(S)
  PROVE  /\ Joined(f, 0) = <<>>
         /\ \A n \in 0 .. N : Joined(f, n) \in Seq(S)
         /\ \A n \in 0 .. N - 1 : Joined(f, n + 1) = Joined(f, n) \o f[n + 1]
<1>1. Joined(f, 0) = <<>>
  <2>1. [i \in 1 .. 0 |-> f[i]] = <<>>
    OBVIOUS
  <2> QED BY <2>1 DEF Joined, FlattenSeq
<1>2. ASSUME NEW n \in 0 .. N PROVE [i \in 1 .. n |-> f[i]] \in Seq(Seq(S))
  OBVIOUS
<1>3. ASSUME NEW n \in 0 .. N PROVE Joined(f, n) \in Seq(S)
  BY <1>2, FlattenSeqType DEF Joined
<1>4. ASSUME NEW n \in 0 .. N - 1 PROVE Joined(f, n + 1) = Joined(f, n) \o f[n + 1]
  <2>1. [i \in 1 .. n + 1 |-> f[i]] = Append([i \in 1 .. n |-> f[i]], f[n + 1])
    OBVIOUS
  <2>2. f[n + 1] \in Seq(S) /\ n \in 0 .. N
    OBVIOUS
  <2> QED BY <1>2, <2>1, <2>2, FlattenAppend DEF Joined
<1> QED BY <1>1, <1>3, <1>4

-----------------------------------------------------------------------------
(* The numbers of a set in order *)

Rises(f, n, S) == f \in [1 .. n -> S] /\ \A j, k \in 1 .. n : j < k => f[j] < f[k]

\* A set of numbers up to n can be put in order, one number after another.
LEMMA RisingExists ==
  ASSUME NEW N \in Nat
  PROVE  \A S \in SUBSET (1 .. N) : \E f : Rises(f, Cardinality(S), S)
<1> DEFINE P == {n \in Nat : \A S \in SUBSET (1 .. n) : \E f : Rises(f, Cardinality(S), S)}
<1>1. 0 \in P
  <2> SUFFICES ASSUME NEW S \in SUBSET (1 .. 0) PROVE \E f : Rises(f, Cardinality(S), S)
    OBVIOUS
  <2>1. S = {}
    OBVIOUS
  <2>2. Cardinality(S) = 0
    BY <2>1, FS_EmptySet
  <2>3. Rises([k \in 1 .. 0 |-> k], 0, S)
    BY DEF Rises
  <2> QED BY <2>2, <2>3
<1>2. ASSUME NEW n \in Nat, n \in P PROVE n + 1 \in P
  <2> SUFFICES ASSUME NEW S \in SUBSET (1 .. n + 1) PROVE \E f : Rises(f, Cardinality(S), S)
    OBVIOUS
  <2>1. CASE n + 1 \notin S
    <3>1. S \in SUBSET (1 .. n)
      BY <2>1
    <3> QED BY <1>2, <3>1
  <2>2. CASE n + 1 \in S
    <3> DEFINE R == S \ {n + 1}
               c == Cardinality(R)
    <3>1. R \in SUBSET (1 .. n) /\ S = R \cup {n + 1} /\ n + 1 \notin R
      BY <2>2
    <3>2. IsFiniteSet(1 .. n)
      BY FS_Interval
    <3>3. IsFiniteSet(R)
      BY <3>1, <3>2, FS_Subset
    <3>4. c \in Nat
      BY <3>3, FS_CardinalityType
    <3>5. Cardinality(S) = c + 1
      BY <3>1, <3>3, FS_AddElement
    <3>6. PICK f : Rises(f, c, R)
      BY <1>2, <3>1
    <3> HIDE DEF R, c
    <3> DEFINE g == [k \in 1 .. c + 1 |-> IF k = c + 1 THEN n + 1 ELSE f[k]]
    <3>7. \A k \in 1 .. c : f[k] \in R /\ f[k] \in 1 .. n
      BY <3>1, <3>6 DEF Rises
    <3>8. g \in [1 .. c + 1 -> S]
      BY <2>2, <3>1, <3>4, <3>7
    <3>9. ASSUME NEW j \in 1 .. c + 1, NEW k \in 1 .. c + 1, j < k PROVE g[j] < g[k]
      <4>1. j \in 1 .. c /\ g[j] = f[j]
        BY <3>4, <3>9
      <4>2. CASE k = c + 1
        BY <3>7, <4>1, <4>2
      <4>3. CASE k # c + 1
        <5>1. k \in 1 .. c /\ g[k] = f[k]
          BY <3>4, <4>3
        <5> QED BY <3>6, <3>9, <4>1, <5>1 DEF Rises
      <4> QED BY <4>2, <4>3
    <3> HIDE DEF g
    <3>10. Rises(g, c + 1, S)
      BY <3>8, <3>9 DEF Rises
    <3> QED BY <3>5, <3>10
  <2> QED BY <2>1, <2>2
<1>3. Nat \subseteq P
  <2> HIDE DEF P
  <2> QED BY <1>1, <1>2, AllNaturals
<1> QED BY <1>3

\* Ordered does so, and leaves out none.
LEMMA OrderedFacts ==
  ASSUME NEW N \in Nat, NEW S \in SUBSET (1 .. N)
  PROVE  /\ Cardinality(S) \in Nat
         /\ Rises(Ordered(S), Cardinality(S), S)
         /\ \A x \in S : \E k \in 1 .. Cardinality(S) : Ordered(S)[k] = x
<1> DEFINE n == Cardinality(S)
           f == Ordered(S)
<1>1. IsFiniteSet(S) /\ n \in Nat
  <2>1. IsFiniteSet(1 .. N)
    BY FS_Interval
  <2>2. IsFiniteSet(S)
    BY <2>1, FS_Subset
  <2> QED BY <2>2, FS_CardinalityType
<1>2. \E g \in [1 .. n -> S] : \A j, k \in DOMAIN g : j < k => g[j] < g[k]
  <2>1. PICK g : Rises(g, n, S)
    BY RisingExists
  <2> QED BY <2>1 DEF Rises
<1>3. f = CHOOSE g \in [1 .. n -> S] : \A j, k \in DOMAIN g : j < k => g[j] < g[k]
  BY DEF Ordered
<1> HIDE DEF n, f
<1>4. f \in [1 .. n -> S] /\ \A j, k \in 1 .. n : j < k => f[j] < f[k]
  BY <1>2, <1>3
<1>5. f \in Injection(1 .. n, S)
  <2>1. ASSUME NEW j \in 1 .. n, NEW k \in 1 .. n, f[j] = f[k] PROVE j = k
    <3>1. f[j] \in Int /\ f[k] \in Int
      <4>1. f[j] \in S /\ f[k] \in S
        BY <1>4
      <4>2. \A x \in S : x \in Int
        OBVIOUS
      <4> QED BY <4>1, <4>2
    <3>2. ~(j < k) /\ ~(k < j)
      BY <1>4, <2>1, <3>1
    <3> QED BY <1>1, <3>2
  <2> QED BY <1>4, <2>1 DEF Injection, IsInjective
<1>6. Cardinality(1 .. n) = n
  BY <1>1, FS_Interval
<1>7. f \in Surjection(1 .. n, S)
  BY <1>1, <1>5, <1>6, FS_Injection DEF n
<1>8. \A x \in S : \E k \in 1 .. n : f[k] = x
  BY <1>7 DEF Surjection
<1> QED BY <1>1, <1>4, <1>8 DEF Rises, n, f

-----------------------------------------------------------------------------
(* What is sent of a message *)

Forms == {"text", "image", "address", "notation", "result", "non-text"}
Parts == Nat \X Forms
Sent  == [from : Nat, role : Roles \cup {"function", "model"}, parts : Seq(Parts)]

\* The blocks of a message whose numbers are in S, in order, each in the form f gives it.
Picked(S, f) == [n \in DOMAIN Ordered(S) |-> Part(Ordered(S)[n], f[Ordered(S)[n]])]

\* None of them is lost, and they stay in order.
LEMMA PickedFacts ==
  ASSUME NEW m \in Messages, NEW S \in SUBSET (DOMAIN m.content), NEW f \in [DOMAIN m.content -> Forms]
  PROVE  /\ Picked(S, f) \in Seq(Parts)
         /\ \A j, k \in DOMAIN Picked(S, f) : j < k => Picked(S, f)[j][1] < Picked(S, f)[k][1]
         /\ \A j \in S : \E k \in DOMAIN Picked(S, f) : Picked(S, f)[k] = Part(j, f[j])
<1> DEFINE N == Len(m.content)
           n == Cardinality(S)
           o == Ordered(S)
           p == Picked(S, f)
<1>1. N \in Nat /\ DOMAIN m.content = 1 .. N
  BY DEF Messages
<1>2. n \in Nat /\ Rises(o, n, S) /\ \A x \in S : \E k \in 1 .. n : o[k] = x
  BY <1>1, OrderedFacts
<1>3. DOMAIN o = 1 .. n /\ \A k \in 1 .. n : o[k] \in S
  BY <1>2 DEF Rises
<1>4. p = [k \in 1 .. n |-> <<o[k], f[o[k]]>>]
  BY <1>3 DEF Picked, Part
<1> HIDE DEF N, n, o, p
<1>5. ASSUME NEW k \in 1 .. n PROVE <<o[k], f[o[k]]>> \in Parts
  <2>1. o[k] \in 1 .. N
    BY <1>1, <1>3
  <2>2. f[o[k]] \in Forms /\ o[k] \in Nat
    BY <1>1, <2>1
  <2> QED BY <2>2 DEF Parts
<1>6. p \in Seq(Parts)
  <2>1. p \in [1 .. n -> Parts]
    BY <1>4, <1>5
  <2> QED BY <1>2, <2>1
<1>7. \A j, k \in DOMAIN p : j < k => p[j][1] < p[k][1]
  BY <1>2, <1>4 DEF Rises
<1>8. ASSUME NEW j \in S PROVE \E k \in DOMAIN p : p[k] = Part(j, f[j])
  <2>1. PICK k \in 1 .. n : o[k] = j
    BY <1>2
  <2> QED BY <1>4, <2>1 DEF Part
<1> QED BY <1>6, <1>7, <1>8 DEF p

Textual == {"plain", "text"}

\* The texts of a message are all its text.
LEMMA TextsFacts ==
  ASSUME NEW m \in Messages
  PROVE  Texts(m) \in Seq(Parts) /\ TextKept(m, Texts(m))
<1> DEFINE S == {j \in DOMAIN m.content : m.content[j] \in Textual}
           f == [j \in DOMAIN m.content |-> "text"]
<1>1. Texts(m) = Picked(S, f)
  <2>1. Texts(m) = [n \in DOMAIN Ordered(S) |-> Part(Ordered(S)[n], "text")]
    BY DEF Texts, Kept, Textual
  <2>2. \A n \in DOMAIN Ordered(S) : Ordered(S)[n] \in DOMAIN m.content
    <3>1. Len(m.content) \in Nat /\ DOMAIN m.content = 1 .. Len(m.content)
      BY DEF Messages
    <3>2. Rises(Ordered(S), Cardinality(S), S)
      BY <3>1, OrderedFacts
    <3> QED BY <3>2 DEF Rises
  <2> QED BY <2>1, <2>2 DEF Picked
<1>2. S \in SUBSET (DOMAIN m.content) /\ f \in [DOMAIN m.content -> Forms]
  BY DEF Forms
<1>3. /\ Picked(S, f) \in Seq(Parts)
      /\ \A j, k \in DOMAIN Picked(S, f) : j < k => Picked(S, f)[j][1] < Picked(S, f)[k][1]
      /\ \A j \in S : \E k \in DOMAIN Picked(S, f) : Picked(S, f)[k] = Part(j, f[j])
  <2> HIDE DEF S, f
  <2> QED BY <1>2, PickedFacts
<1>4. \A j \in DOMAIN m.content : m.content[j] \in Textual => j \in S /\ f[j] = "text"
  OBVIOUS
<1> HIDE DEF S, f
<1> QED BY <1>1, <1>3, <1>4 DEF TextKept, Textual

\* So are the parts that google.py makes of it.
LEMMA GoogleFacts ==
  ASSUME NEW m \in Messages
  PROVE  GoogleParts(m) \in Seq(Parts) /\ TextKept(m, GoogleParts(m))
<1> DEFINE S == DOMAIN m.content
           form(b) == CASE b = "data" -> "image" [] b = "link" -> "address" [] OTHER -> "text"
           f == [j \in DOMAIN m.content |-> form(m.content[j])]
<1>1. GoogleParts(m) = Picked(S, f)
  <2>1. {j \in DOMAIN m.content : TRUE} = S
    OBVIOUS
  <2>2. GoogleParts(m) = [n \in DOMAIN Ordered(S) |-> Part(Ordered(S)[n], form(m.content[Ordered(S)[n]]))]
    BY <2>1 DEF GoogleParts, Kept
  <2>3. \A n \in DOMAIN Ordered(S) : Ordered(S)[n] \in DOMAIN m.content
    <3>1. Len(m.content) \in Nat /\ DOMAIN m.content = 1 .. Len(m.content)
      BY DEF Messages
    <3>2. Rises(Ordered(S), Cardinality(S), S)
      BY <3>1, OrderedFacts
    <3> QED BY <3>2 DEF Rises
  <2> HIDE DEF form, S
  <2> QED BY <2>2, <2>3 DEF Picked
<1>2. \A b : form(b) \in Forms /\ (b \in Textual => form(b) = "text")
  BY DEF Forms, Textual
<1>3. S \in SUBSET (DOMAIN m.content) /\ f \in [DOMAIN m.content -> Forms]
  <2> HIDE DEF form
  <2> QED BY <1>2
<1>4. /\ Picked(S, f) \in Seq(Parts)
      /\ \A j, k \in DOMAIN Picked(S, f) : j < k => Picked(S, f)[j][1] < Picked(S, f)[k][1]
      /\ \A j \in S : \E k \in DOMAIN Picked(S, f) : Picked(S, f)[k] = Part(j, f[j])
  <2> HIDE DEF S, f
  <2> QED BY <1>3, PickedFacts
<1>5. \A j \in DOMAIN m.content : m.content[j] \in Textual => j \in S /\ f[j] = "text"
  <2> HIDE DEF form
  <2> QED BY <1>2
<1> HIDE DEF S, f
<1> QED BY <1>1, <1>4, <1>5 DEF TextKept, Textual

\* A message is sent as one entry of it, a Google tool result as two.
Copies(a, m, w) == IF a = "google" /\ m.role = "tool" /\ w THEN 2 ELSE 1

\* What s sends of message i.
Carries(s, i, m, a, w) ==
  /\ s \in Seq(Sent) /\ Len(s) = Copies(a, m, w)
  /\ \A n \in 1 .. Len(s) : s[n].from = i /\ TextKept(m, s[n].parts)

\* One entry carries a message that is sent once.
LEMMA OneEntry ==
  ASSUME NEW i \in Nat, NEW m \in Messages, NEW a, NEW w \in BOOLEAN, Copies(a, m, w) = 1,
         NEW r \in Roles \cup {"function", "model"}, NEW p \in Seq(Parts), TextKept(m, p)
  PROVE  Carries(<<Entry(i, r, p)>>, i, m, a, w)
<1> DEFINE e == Entry(i, r, p)
<1>1. e \in Sent /\ e.from = i /\ e.parts = p
  BY DEF Entry, Sent
<1> HIDE DEF e
<1>2. <<e>> \in Seq(Sent) /\ Len(<<e>>) = 1 /\ <<e>>[1] = e
  BY <1>1
<1>3. \A n \in 1 .. 1 : n = 1
  OBVIOUS
<1> DEFINE s == <<e>>
<1>4. s \in Seq(Sent) /\ Len(s) = 1 /\ s[1] = e
  BY <1>2
<1> HIDE DEF s
<1>5. Carries(s, i, m, a, w)
  BY <1>1, <1>3, <1>4 DEF Carries
<1> QED BY <1>5 DEF s, e

\* A text that stands for the whole message.
LEMMA WholeFacts ==
  ASSUME NEW m, NEW form \in Forms
  PROVE  /\ Whole(form) \in Seq(Parts)
         /\ form \in {"notation", "result"} => TextKept(m, Whole(form))
<1>1. Part(0, form) \in Parts
  BY DEF Part, Parts
<1>2. Whole(form) \in Seq(Parts)
  BY <1>1 DEF Whole
<1>3. form \in {"notation", "result"} => TextKept(m, Whole(form))
  BY DEF TextKept
<1> QED BY <1>2, <1>3

\* Each adapter carries each message.
LEMMA MessageCarried ==
  ASSUME NEW a \in Adapters, NEW i \in Nat, NEW m \in Messages, NEW w \in BOOLEAN
  PROVE  Carries(MessageEntries(a, i, m, w), i, m, a, w)
<1> DEFINE x == MessageEntries(a, i, m, w)
<1>1. m.role \in Roles \cup {"function", "model"} /\ "user" \in Roles \cup {"function", "model"}
      /\ "function" \in Roles \cup {"function", "model"} /\ "model" \in Roles \cup {"function", "model"}
  BY DEF Messages, Roles
<1>2. Texts(m) \in Seq(Parts) /\ TextKept(m, Texts(m))
  BY TextsFacts
<1>3. /\ Whole("notation") \in Seq(Parts) /\ TextKept(m, Whole("notation"))
      /\ Whole("result") \in Seq(Parts) /\ TextKept(m, Whole("result"))
      /\ Whole("non-text") \in Seq(Parts)
  <2>1. "notation" \in Forms /\ "result" \in Forms /\ "non-text" \in Forms
    BY DEF Forms
  <2> QED BY <2>1, WholeFacts
<1>4. CASE a = "generic"
  <2>1. Copies(a, m, w) = 1
    BY <1>4 DEF Copies
  <2> DEFINE p == IF IsString(m) THEN Texts(m) ELSE Whole("notation")
  <2>2. x = <<Entry(i, m.role, p)>>
    BY <1>4 DEF MessageEntries, GenericMessages
  <2>3. p \in Seq(Parts) /\ TextKept(m, p)
    BY <1>2, <1>3
  <2> HIDE DEF p
  <2> QED BY <1>1, <2>1, <2>2, <2>3, OneEntry
<1>5. CASE a = "cloudflare"
  <2>1. Copies(a, m, w) = 1
    BY <1>5 DEF Copies
  <2>2. x = <<Entry(i, m.role, Texts(m))>>
    BY <1>5 DEF MessageEntries, NormalizeMessages
  <2> QED BY <1>1, <1>2, <2>1, <2>2, OneEntry
<1>6. CASE a = "cohere"
  <2>1. Copies(a, m, w) = 1
    BY <1>6 DEF Copies
  <2>2. CASE m.role = "tool"
    <3>1. x = <<Entry(i, "user", Whole("result"))>>
      BY <1>6, <2>2 DEF MessageEntries, ConvertMessagesForCohere
    <3> QED BY <1>1, <1>3, <2>1, <3>1, OneEntry
  <2>3. CASE m.role # "tool"
    <3> DEFINE p == Or(Texts(m), "non-text")
    <3>1. x = <<Entry(i, m.role, p)>>
      BY <1>6, <2>3 DEF MessageEntries, ConvertMessagesForCohere
    <3>2. p \in Seq(Parts) /\ TextKept(m, p)
      <4>1. CASE Texts(m) # <<>>
        BY <1>2, <4>1 DEF Or
      <4>2. CASE Texts(m) = <<>>
        <5>1. p = Whole("non-text")
          BY <4>2 DEF Or
        <5>2. DOMAIN Texts(m) = {}
          BY <4>2
        <5>3. Texts(m) # Whole("notation") /\ Texts(m) # Whole("result")
          BY <4>2 DEF Whole
        <5>4. \A j \in DOMAIN m.content : m.content[j] \notin {"plain", "text"}
          BY <1>2, <5>2, <5>3 DEF TextKept
        <5>5. \A j, k \in DOMAIN p : ~(j < k)
          BY <5>1 DEF Whole
        <5> HIDE DEF p
        <5>6. TextKept(m, p)
          BY <5>4, <5>5 DEF TextKept
        <5> QED BY <1>3, <5>1, <5>6
      <4> QED BY <4>1, <4>2
    <3> HIDE DEF p
    <3> QED BY <1>1, <2>1, <3>1, <3>2, OneEntry
  <2> QED BY <2>2, <2>3
<1>7. CASE a = "google"
  <2>1. x = ConvertMessages(i, m, w)
    BY <1>7 DEF MessageEntries
  <2>2. CASE ~(m.role = "tool" /\ w)
    <3>1. Copies(a, m, w) = 1
      BY <2>2 DEF Copies
    <3>2. x = <<Entry(i, GoogleRole(m), GoogleParts(m))>>
      BY <2>1, <2>2 DEF ConvertMessages
    <3>3. GoogleRole(m) \in Roles \cup {"function", "model"}
      BY <1>1 DEF GoogleRole
    <3> QED BY <3>1, <3>2, <3>3, GoogleFacts, OneEntry
  <2>3. CASE m.role = "tool" /\ w
    <3>1. Copies(a, m, w) = 2
      BY <1>7, <2>3 DEF Copies
    <3> DEFINE e == Entry(i, "function", Whole("result"))
               f == Entry(i, "model", Whole("result"))
    <3>2. x = <<e, f>>
      BY <2>1, <2>3 DEF ConvertMessages
    <3>3. e \in Sent /\ f \in Sent /\ e.from = i /\ f.from = i
          /\ e.parts = Whole("result") /\ f.parts = Whole("result")
      BY <1>1, <1>3 DEF Entry, Sent
    <3> HIDE DEF e, f
    <3>4. x \in Seq(Sent) /\ Len(x) = 2 /\ x[1] = e /\ x[2] = f
      BY <3>2, <3>3
    <3> HIDE DEF x
    <3>5. \A n \in 1 .. Len(x) : n = 1 \/ n = 2
      BY <3>4
    <3>6. \A n \in 1 .. Len(x) : x[n].from = i /\ x[n].parts = Whole("result")
      BY <3>3, <3>4, <3>5
    <3>7. Carries(x, i, m, a, w)
      BY <1>3, <3>1, <3>4, <3>6 DEF Carries
    <3> QED BY <3>7 DEF x
  <2> QED BY <2>2, <2>3
<1> QED BY <1>4, <1>5, <1>6, <1>7 DEF Adapters, Passing

-----------------------------------------------------------------------------
(* A conversation *)

\* The numbers of the entries made from message i.
Numbers(s, i) == {n \in 1 .. Len(s) : s[n].from = i}

\* s sends the first k messages of a conversation.
SentOf(s, k, ms, a, w) ==
  /\ s \in Seq(Sent)
  /\ \A n \in 1 .. Len(s) : s[n].from \in 1 .. k /\ TextKept(ms[s[n].from], s[n].parts)
  /\ \A n, j \in 1 .. Len(s) : n < j => s[n].from <= s[j].from
  /\ \A i \in 1 .. k : Cardinality(Numbers(s, i)) = Copies(a, ms[i], w)

\* One more message of a conversation.
LEMMA SentMore ==
  ASSUME NEW ms, NEW a, NEW w, NEW k \in Nat, NEW s, SentOf(s, k, ms, a, w),
         NEW t, Carries(t, k + 1, ms[k + 1], a, w)
  PROVE  SentOf(s \o t, k + 1, ms, a, w)
<1> DEFINE x == s \o t
           p == Len(s)
           q == Len(t)
<1>1. s \in Seq(Sent) /\ t \in Seq(Sent) /\ p \in Nat /\ q \in Nat
  BY DEF SentOf, Carries
<1>2. /\ x \in Seq(Sent) /\ Len(x) = p + q
      /\ \A n \in 1 .. p + q : x[n] = IF n <= p THEN s[n] ELSE t[n - p]
  BY <1>1, ConcatProperties
<1>3. /\ \A n \in 1 .. p : s[n].from \in 1 .. k /\ TextKept(ms[s[n].from], s[n].parts)
      /\ \A n, j \in 1 .. p : n < j => s[n].from <= s[j].from
      /\ \A i \in 1 .. k : Cardinality(Numbers(s, i)) = Copies(a, ms[i], w)
  BY DEF SentOf
<1>4. q = Copies(a, ms[k + 1], w) /\ \A n \in 1 .. q : t[n].from = k + 1 /\ TextKept(ms[k + 1], t[n].parts)
  BY DEF Carries
<1>5. Numbers(s, k + 1) = {} /\ \A i : Numbers(s, i) = {n \in 1 .. p : s[n].from = i}
  BY <1>3 DEF Numbers
<1>6. \A i : Numbers(x, i) = {n \in 1 .. p + q : x[n].from = i}
  BY <1>2 DEF Numbers
<1> HIDE DEF x, p, q
<1>7. \A n \in 1 .. p : n \in 1 .. p + q /\ x[n] = s[n]
  BY <1>1, <1>2
<1>8. \A n \in p + 1 .. p + q : n \in 1 .. p + q /\ x[n] = t[n - p] /\ n - p \in 1 .. q
  BY <1>1, <1>2
<1>9. ASSUME NEW n \in 1 .. p + q
      PROVE  x[n].from \in 1 .. k + 1 /\ TextKept(ms[x[n].from], x[n].parts)
  <2>1. CASE n \in 1 .. p
    BY <1>3, <1>7, <2>1
  <2>2. CASE n \in p + 1 .. p + q
    BY <1>4, <1>8, <2>2
  <2> QED BY <1>1, <2>1, <2>2
<1>10. ASSUME NEW n \in 1 .. p + q, NEW j \in 1 .. p + q, n < j
       PROVE  x[n].from <= x[j].from
  <2>1. CASE j \in 1 .. p
    <3>1. n \in 1 .. p
      BY <1>1, <1>10, <2>1
    <3> QED BY <1>3, <1>7, <1>10, <2>1, <3>1
  <2>2. CASE j \in p + 1 .. p + q
    <3>1. x[j].from = k + 1
      BY <1>4, <1>8, <2>2
    <3>2. x[n].from \in 1 .. k + 1
      BY <1>9
    <3> QED BY <3>1, <3>2
  <2> QED BY <1>1, <2>1, <2>2
<1>11. ASSUME NEW i \in 1 .. k PROVE Numbers(x, i) = Numbers(s, i)
  <2>1. ASSUME NEW n \in 1 .. p + q, x[n].from = i PROVE n \in 1 .. p
    <3>1. CASE n \in p + 1 .. p + q
      <4>1. x[n].from = k + 1
        BY <1>4, <1>8, <3>1
      <4> QED BY <2>1, <4>1
    <3> QED BY <1>1, <3>1
  <2>2. Numbers(s, i) = {n \in 1 .. p : s[n].from = i}
    BY <1>5
  <2>3. Numbers(x, i) = {n \in 1 .. p + q : x[n].from = i}
    BY <1>6
  <2>4. \A n : n \in 1 .. p + q /\ x[n].from = i <=> n \in 1 .. p /\ s[n].from = i
    BY <1>7, <2>1
  <2> QED BY <2>2, <2>3, <2>4
<1>12. Numbers(x, k + 1) = p + 1 .. p + q
  <2>1. ASSUME NEW n \in 1 .. p PROVE x[n].from # k + 1
    BY <1>3, <1>7
  <2>2. \A n \in p + 1 .. p + q : x[n].from = k + 1
    BY <1>4, <1>8
  <2>3. \A n : n \in 1 .. p + q <=> n \in 1 .. p \/ n \in p + 1 .. p + q
    BY <1>1
  <2>4. Numbers(x, k + 1) = {n \in 1 .. p + q : x[n].from = k + 1}
    BY <1>6
  <2>5. \A n : n \in 1 .. p + q /\ x[n].from = k + 1 <=> n \in p + 1 .. p + q
    BY <2>1, <2>2, <2>3
  <2> QED BY <2>4, <2>5
<1>13. Cardinality(p + 1 .. p + q) = q
  <2>1. p + 1 \in Int /\ p + q \in Int
    BY <1>1
  <2>2. Cardinality(p + 1 .. p + q) = IF p + 1 > p + q THEN 0 ELSE (p + q) - (p + 1) + 1
    BY <2>1, FS_Interval
  <2> QED BY <1>1, <2>2
<1>14. ASSUME NEW i \in 1 .. k + 1 PROVE Cardinality(Numbers(x, i)) = Copies(a, ms[i], w)
  <2>1. CASE i \in 1 .. k
    BY <1>3, <1>11, <2>1
  <2>2. CASE i = k + 1
    BY <1>4, <1>12, <1>13, <2>2
  <2> QED BY <2>1, <2>2
<1>15. SentOf(x, k + 1, ms, a, w)
  BY <1>1, <1>2, <1>9, <1>10, <1>14 DEF SentOf
<1> QED BY <1>15 DEF x

\* Every conversation is sent message by message.
LEMMA ConversationSent ==
  ASSUME NEW ms \in Seq(Messages), NEW a \in Adapters, NEW w \in BOOLEAN
  PROVE  SentOf(FlattenSeq([i \in DOMAIN ms |-> MessageEntries(a, i, ms[i], w)]), Len(ms), ms, a, w)
<1> DEFINE N == Len(ms)
           f == [i \in 1 .. N |-> MessageEntries(a, i, ms[i], w)]
           P == {k \in Nat : k <= N => SentOf(Joined(f, k), k, ms, a, w)}
<1>1. N \in Nat /\ DOMAIN ms = 1 .. N
  OBVIOUS
<1>2. ASSUME NEW i \in 1 .. N PROVE Carries(f[i], i, ms[i], a, w)
  <2>1. ms[i] \in Messages /\ i \in Nat
    OBVIOUS
  <2> QED BY <2>1, MessageCarried
<1>3. \A i \in 1 .. N : f[i] \in Seq(Sent)
  <2> HIDE DEF f
  <2> QED BY <1>2 DEF Carries
<1> HIDE DEF f, N
<1>4. /\ Joined(f, 0) = <<>>
      /\ \A k \in 0 .. N - 1 : Joined(f, k + 1) = Joined(f, k) \o f[k + 1]
  <2>1. N \in Nat
    BY <1>1
  <2> QED BY <1>3, <2>1, JoinedStep
<1>5. 0 \in P
  <2> DEFINE e == Joined(f, 0)
  <2>1. e = <<>>
    BY <1>4
  <2> HIDE DEF e
  <2>2. e \in Seq(Sent) /\ Len(e) = 0
    BY <2>1
  <2>3. SentOf(e, 0, ms, a, w)
    BY <2>2 DEF SentOf
  <2> QED BY <2>3 DEF e
<1>6. ASSUME NEW k \in Nat, k \in P PROVE k + 1 \in P
  <2> SUFFICES ASSUME k + 1 <= N PROVE SentOf(Joined(f, k + 1), k + 1, ms, a, w)
    OBVIOUS
  <2>1. k \in 0 .. N - 1 /\ k + 1 \in 1 .. N /\ k <= N
    BY <1>1
  <2>2. SentOf(Joined(f, k), k, ms, a, w)
    BY <1>6, <2>1
  <2>3. Carries(f[k + 1], k + 1, ms[k + 1], a, w)
    BY <1>2, <2>1
  <2>4. SentOf(Joined(f, k) \o f[k + 1], k + 1, ms, a, w)
    BY <2>2, <2>3, SentMore
  <2> QED BY <1>4, <2>1, <2>4
<1>7. Nat \subseteq P
  <2> HIDE DEF P
  <2> QED BY <1>5, <1>6, AllNaturals
<1>8. SentOf(Joined(f, N), N, ms, a, w)
  BY <1>1, <1>7
<1>9. Joined(f, N) = FlattenSeq([i \in DOMAIN ms |-> MessageEntries(a, i, ms[i], w)])
  <2>1. [i \in 1 .. N |-> f[i]] = [i \in DOMAIN ms |-> MessageEntries(a, i, ms[i], w)]
    BY <1>1 DEF f
  <2> QED BY <2>1 DEF Joined
<1> QED BY <1>8, <1>9 DEF N

\* A request that has been sent is what the adapter makes of the body.
SentInv ==
  /\ adapter \in Adapters /\ body \in Bodies
  /\ payload = <<>> \/ payload = Payload(adapter, mode, body)

\* Nothing has been sent at the start.
LEMMA SentInit == Init => SentInv
BY DEF Init, StreamInit, SentInv

\* Only Send sends.
LEMMA SentNext == SentInv /\ [Next]_vars => SentInv'
<1> SUFFICES ASSUME SentInv, [Next]_vars PROVE SentInv'
  OBVIOUS
<1>1. CASE Send
  BY <1>1 DEF SentInv, Send
<1>2. CASE UNCHANGED <<adapter, mode, body, payload>>
  BY <1>2 DEF SentInv
<1>3. Send \/ UNCHANGED <<adapter, mode, body, payload>>
  BY DEF Next, vars, StreamNext, streamVars, request, Refused, AnswersWhole, Opens, Receive, TakeLine,
         Breaks, Closes, Finish, Rescue, Abort
<1> QED BY <1>1, <1>2, <1>3

\* What is sent of any conversation keeps every message, in order and with all of
\* its text, and every tool with its required parameters (the message conversions
\* of the four adapters).
THEOREM ConversationKeptAlways == Spec => []ConversationKept
<1>1. SentInv => ConversationKept
  <2> SUFFICES ASSUME SentInv, payload # <<>> PROVE ConversationKept
    BY DEF ConversationKept
  <2> DEFINE ms == body.messages
             tools == body.tools
             w == tools # <<>>
             entries == FlattenSeq([i \in DOMAIN ms |-> MessageEntries(adapter, i, ms[i], w)])
             sent == ToolsSent(adapter, tools)
             madeFrom(i) == {n \in DOMAIN entries : entries[n].from = i}
  <2>1. payload.messages = entries /\ payload.tools = sent
    BY DEF SentInv, Payload
  <2>2. ms \in Seq(Messages) /\ tools \in Seq(Range(tools)) /\ adapter \in Adapters /\ w \in BOOLEAN
    BY BodiesAssumption DEF SentInv
  <2>3. SentOf(entries, Len(ms), ms, adapter, w)
    <3> HIDE DEF ms, tools
    <3> QED BY <2>2, ConversationSent
  <2>4. sent \in [DOMAIN tools -> {sent[n] : n \in DOMAIN tools}] /\ DOMAIN tools = 1 .. Len(tools) /\ Len(tools) \in Nat
    <3> HIDE DEF tools
    <3> QED BY <2>2 DEF ToolsSent
  <2>5. Len(sent) = Len(tools)
    BY <2>4
  <2>6. ASSUME NEW n \in DOMAIN tools, NEW p \in DOMAIN tools[n].properties
        PROVE  sent[n].parameters[p].required = (p \in tools[n].required)
    <3> HIDE DEF tools
    <3>1. sent[n] = IF adapter = "cohere" THEN ConvertToolsForCohere(tools[n]) ELSE ConvertTools(tools[n])
      BY DEF ToolsSent
    <3>2. CASE adapter = "cohere"
      BY <3>1, <3>2 DEF ConvertToolsForCohere
    <3>3. CASE adapter # "cohere"
      BY <3>1, <3>3 DEF ConvertTools
    <3> QED BY <3>2, <3>3
  <2> HIDE DEF sent, entries
  <2>7. entries \in Seq(Sent) /\ DOMAIN entries = 1 .. Len(entries)
    BY <2>3 DEF SentOf
  <2>8. \A i : madeFrom(i) = Numbers(entries, i)
    BY <2>7 DEF Numbers
  <2>9. ASSUME NEW i \in DOMAIN ms
        PROVE  /\ Cardinality(madeFrom(i)) =
                    IF adapter = "google" /\ ms[i].role = "tool" /\ tools # <<>> THEN 2 ELSE 1
               /\ \A n \in madeFrom(i) : TextKept(ms[i], entries[n].parts)
    <3> HIDE DEF ms, tools
    <3>1. i \in 1 .. Len(ms)
      BY <2>2
    <3>2. Cardinality(Numbers(entries, i)) = Copies(adapter, ms[i], w)
      BY <2>3, <3>1 DEF SentOf
    <3>3. \A n \in madeFrom(i) : TextKept(ms[i], entries[n].parts)
      BY <2>3, <2>7 DEF SentOf
    <3>4. madeFrom(i) = Numbers(entries, i)
      BY <2>8
    <3> QED BY <3>2, <3>3, <3>4 DEF Copies
  <2>10. \A n, k \in DOMAIN entries : n < k => entries[n].from <= entries[k].from
    BY <2>3, <2>7 DEF SentOf
  <2> QED BY <2>1, <2>5, <2>6, <2>9, <2>10 DEF ConversationKept
<1> QED BY <1>1, SentInit, SentNext, PTL DEF Spec
=============================================================================
