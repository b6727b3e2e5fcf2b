--------------------------- MODULE ProviderAccess ---------------------------
(***************************************************************************)
(* The other operations of the adapters: validate_key, list_models,        *)
(* probe_capabilities, embed and image_generation, each as the calls it    *)
(* makes.  An upstream call answers or fails in any of the ways the code   *)
(* tells apart.                                                            *)
(***************************************************************************)
EXTENDS Naturals, Sequences, SequencesExt

CONSTANTS
  Listings,  \* what a provider may list: sets of kinds of model names
  Inputs     \* texts to embed

\* An input is known by the embedding that is its own.
ASSUME InputsAssumption == Inputs \in Seq(Range(Inputs) \ {"empty"})

\* Verdicts on a key: 200, 200 of a token that is not active, 401 or 403,
\* another 4xx, 5xx, no answer; "format" is a Cloudflare key without account.
Verdicts == {"ok", "inactive", "denied", "client", "server", "transport", "format"}

ValidateKey(provider, verdict) ==
  CASE provider \in {"generic", "stability"} -> verdict \notin {"server", "transport"}
    [] provider \in {"google", "cohere"}     -> verdict \in {"ok", "inactive"}
    [] provider = "cloudflare"               -> verdict \notin {"format", "denied", "inactive"}

\* list_models: the capabilities that are read off the name of a model; a
\* failing call gives an empty list.
Named(provider, name) ==
  CASE provider = "generic"    -> {"chat"} \cup ({"vision", "embed"} \cap {name})
    [] provider = "google"     -> {"chat", "vision"} \cup ({"image_gen", "embed"} \cap {name})
    [] provider = "cohere"     -> {"chat"} \cup ({"embed"} \cap {name})
    [] provider = "cloudflare" -> {"chat"}
    [] provider = "stability"  -> {"image_gen"}

ListModels(provider, names) ==
  IF provider = "stability" THEN {Named(provider, "sd3")} ELSE {Named(provider, n) : n \in names}

VARIABLES
  op, provider,
  calls,   \* upstream calls made so far
  caps,    \* capabilities found
  results, \* embeddings or images so far
  verdict, \* what validate_key returned
  seen     \* every listing the provider has answered with

accessVars == <<op, provider, calls, caps, results, verdict, seen>>

Default(p) ==
  CASE p = "google" -> {"chat", "vision", "audio_stt"} [] p = "stability" -> {"image_gen"} [] OTHER -> {"chat"}

AccessInit ==
  /\ provider \in {"generic", "google", "cohere", "cloudflare", "stability"}
  /\ op \in {"validate", "probe", "embed", "image"}
  /\ calls = 0 /\ caps = Default(provider) /\ results = <<>> /\ verdict = "none" /\ seen = {}

Done == op' = "done" /\ UNCHANGED provider

Validate ==
  /\ op = "validate" /\ Done /\ calls' = 1
  /\ \E v \in Verdicts :
       /\ v = "format" => provider = "cloudflare"
       /\ verdict' = <<v, ValidateKey(provider, v)>>
  /\ UNCHANGED <<caps, results, seen>>

\* What a probe looks for in the first, or only, list it reads.
Looked(p, n) ==
  CASE p = "generic" -> {"vision", "embed"} [] p = "cohere" -> {"embed"}
    [] p = "google"  -> IF n = 1 THEN {"image_gen"} ELSE {"embed"} [] OTHER -> {}

\* list_models inside probe_capabilities: twice for google, with the call of
\* text to speech in between; once for generic and cohere.
ListsAny(n, names) ==
  caps' = caps \cup (UNION ListModels(provider, names)) \cup Looked(provider, n)
Lists(n, names) ==
  caps' = caps \cup ((UNION ListModels(provider, names)) \cap Looked(provider, n))

ProbeList(n) ==
  /\ \E names \in Listings : Lists(n, names) /\ seen' = seen \cup {names}
  /\ calls' = calls + 1

ProbeListFails ==
  /\ calls' = calls + 1 /\ UNCHANGED <<caps, seen>>

ProbeSpeech ==
  /\ caps' \in {caps, caps \cup {"audio_tts"}}
  /\ calls' = calls + 1 /\ UNCHANGED seen

Probe ==
  /\ op = "probe" /\ UNCHANGED <<results, verdict>>
  /\ CASE provider \in {"cloudflare", "stability"} -> Done /\ UNCHANGED <<calls, caps, seen>>
       [] provider = "google" /\ calls = 1 -> ProbeSpeech /\ UNCHANGED <<op, provider>>
       [] provider = "google" /\ calls = 0 ->
            (ProbeList(1) \/ ProbeListFails) /\ UNCHANGED <<op, provider>>
       [] OTHER -> (ProbeList(2) \/ ProbeListFails) /\ Done

-----------------------------------------------------------------------------
\* google.py embed: one call per input, and any failure fails the request, but an
\* answer without values is an empty embedding.  cohere.py: one call for all, and
\* whatever embeddings are in the answer are taken in their order, without a look at
\* the inputs.  The generic and the Cloudflare adapter have none and raise
\* NotImplementedError.  (Mutant: the embeddings made before a failure are returned.)
RaisesWithRest ==
  /\ op' = IF op = "embed" THEN "embedded" ELSE "failed"
  /\ UNCHANGED <<provider, calls, caps, results, verdict, seen>>
Raises ==
  /\ op' = "failed" /\ results' = <<>> /\ UNCHANGED <<provider, calls, caps, verdict, seen>>

Embedded == op' = "embedded" /\ UNCHANGED provider

EmbedNext ==
  /\ provider = "google" /\ Len(results) < Len(Inputs)
  /\ \E embedding \in {Inputs[Len(results) + 1], "empty"} : results' = Append(results, embedding)
  /\ calls' = calls + 1 /\ UNCHANGED <<op, provider, caps, verdict, seen>>

EmbedEnds ==
  /\ provider = "google" /\ Len(results) = Len(Inputs)
  /\ Embedded /\ UNCHANGED <<calls, caps, results, verdict, seen>>

MostEmbeddings == Len(Inputs) + 1   \* a bound of the model

EmbedAll ==
  /\ provider = "cohere" /\ Embedded
  /\ \E n \in 0 .. MostEmbeddings : results' \in [1 .. n -> Range(Inputs)]
  /\ calls' = 1 /\ UNCHANGED <<caps, verdict, seen>>

Embed == op = "embed" /\ (EmbedNext \/ EmbedEnds \/ EmbedAll \/ Raises)

\* Each part of the answer is an image, or none; google.py makes an empty image
\* of an empty answer, stability.py an empty list.
ImageGeneration ==
  /\ op = "image"
  /\ \/ /\ provider \in {"google", "stability"} /\ Done /\ calls' = 1
        /\ \E n \in 0 .. (IF provider = "google" THEN 2 ELSE 1) :
             results' = IF n = 0 /\ provider = "google" THEN <<"empty">>
                        ELSE [k \in 1 .. n |-> "image"]
        /\ UNCHANGED <<caps, verdict, seen>>
     \/ Raises

AccessNext == Validate \/ Probe \/ Embed \/ ImageGeneration
=============================================================================
