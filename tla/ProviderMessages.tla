-------------------------- MODULE ProviderMessages --------------------------
(***************************************************************************)
(* What an adapter makes of a chat request: the messages, the tools and    *)
(* the options it sends to its provider.  A message has a role and a       *)
(* content, which is a string (<<"plain">>) or a list of blocks.           *)
(***************************************************************************)
EXTENDS Naturals, Sequences, SequencesExt

Passing   == {"generic", "cloudflare"}   \* speak OpenAI's protocol themselves
Adapters  == Passing \cup {"google", "cohere"}
Roles     == {"system", "user", "assistant", "tool"}
Images    == {"data", "link"}            \* an image_url block: data: URL or not
Messages  == [role : Roles, content : Seq({"plain", "text"} \cup Images)]
IsString(m) == m.content = <<"plain">>

\* What is sent: entries made from message number `from`, whose parts are
\* pairs of a block's number and the form it takes.
Entry(i, role, parts) == [from |-> i, role |-> role, parts |-> parts]
Part(j, form) == <<j, form>>
Whole(form) == <<Part(0, form)>>

\* A finite set of numbers in increasing order.
Ordered(S) ==
  CHOOSE f \in [1 .. Cardinality(S) -> S] : \A j, k \in DOMAIN f : j < k => f[j] < f[k]

\* The blocks of a list that satisfy Keep, in order, each in its form.
Kept(m, Keep(_), Form(_)) ==
  LET chosen == Ordered({j \in DOMAIN m.content : Keep(m.content[j])})
  IN [n \in DOMAIN chosen |-> Part(chosen[n], Form(m.content[chosen[n]]))]

Texts(m) == Kept(m, LAMBDA b : b \in {"plain", "text"}, LAMBDA b : "text")

Or(parts, placeholder) == IF parts = <<>> THEN Whole(placeholder) ELSE parts

\* chat_completion of openai_compat.py: content if it is a string, else
\* str(content), Python's notation of the list.
GenericMessages(i, m) ==
  <<Entry(i, m.role, IF IsString(m) THEN Texts(m) ELSE Whole("notation"))>>

NormalizeMessages(i, m) == <<Entry(i, m.role, Texts(m))>>

ConvertMessagesSkippingLists(i, m) ==
  CASE m.role = "tool" -> <<Entry(i, "user", Whole("result"))>>
    [] m.role # "tool" /\ IsString(m) -> <<Entry(i, m.role, Texts(m))>>
    [] OTHER -> <<>>
ConvertMessagesForCohere(i, m) ==
  IF m.role = "tool"
  THEN <<Entry(i, "user", Whole("result"))>>
  ELSE <<Entry(i, m.role, Or(Texts(m), "non-text"))>>

\* google.py _convert_messages: after the functionResponse of a tool message
\* control runs on to the common append, which adds its parts a second time.
GoogleRole(m) == IF m.role = "user" THEN "user" ELSE "model"
GoogleParts(m) ==
  Kept(m, LAMBDA b : TRUE,
       LAMBDA b : CASE b = "data" -> "image" [] b = "link" -> "address" [] OTHER -> "text")
ConvertMessages(i, m, withTools) ==
  IF m.role = "tool" /\ withTools
  THEN <<Entry(i, "function", Whole("result")), Entry(i, "model", Whole("result"))>>
  ELSE <<Entry(i, GoogleRole(m), GoogleParts(m))>>

MessageEntries(adapter, i, m, withTools) ==
  CASE adapter = "generic"    -> GenericMessages(i, m)
    [] adapter = "cloudflare" -> NormalizeMessages(i, m)
    [] adapter = "cohere"     -> ConvertMessagesForCohere(i, m)
    [] adapter = "google"     -> ConvertMessages(i, m, withTools)

-----------------------------------------------------------------------------
\* A tool: its name, the JSON type of each parameter, the required ones.
CohereTypes == [string |-> "str", number |-> "float", integer |-> "int",
                boolean |-> "bool", array |-> "list", object |-> "dict"]
MapJsonSchemaTypeToCohere(t) == IF t \in DOMAIN CohereTypes THEN CohereTypes[t] ELSE "str"

ConvertToolsForCohere(tool) ==
  [name |-> tool.name,
   parameters |-> [p \in DOMAIN tool.properties |->
                     [type |-> MapJsonSchemaTypeToCohere(tool.properties[p]),
                      required |-> p \in tool.required]]]

\* google.py _convert_tools keeps the schema; the others send the tool itself.
ConvertTools(tool) ==
  [name |-> tool.name,
   parameters |-> [p \in DOMAIN tool.properties |->
                     [type |-> tool.properties[p], required |-> p \in tool.required]]]

ToolsSent(adapter, tools) ==
  [n \in DOMAIN tools |-> IF adapter = "cohere" THEN ConvertToolsForCohere(tools[n])
                                                ELSE ConvertTools(tools[n])]

\* google.py _convert_tool_choice.
ConvertToolChoice(choice) ==
  CASE choice = "auto" -> "AUTO" [] choice = "none" -> "NONE"
    [] choice \in {"required", "named"} -> "ANY" [] OTHER -> "unset"

\* Options that reach the provider; `choice` is "unset" when there is none.
OptionsSent(adapter, body) ==
  [sampling |-> IF adapter \in Passing THEN body.sampling ELSE {},
   choice   |-> CASE adapter \in Passing -> body.choice
                  [] adapter = "google" /\ body.tools # <<>> -> ConvertToolChoice(body.choice)
                  [] OTHER -> "unset"]

\* stream_chat_completion asks for a stream: "stream": True, or Google's other
\* address.  Cohere's sends what chat_completion sends.
StreamAsked(adapter, mode) == mode # "whole" /\ adapter # "cohere"

\* The request of chat_completion (mode "whole") and stream_chat_completion.
Payload(adapter, mode, body) ==
  [stream   |-> StreamAsked(adapter, mode),
   messages |-> FlattenSeq([i \in DOMAIN body.messages |->
                  MessageEntries(adapter, i, body.messages[i], body.tools # <<>>)]),
   tools    |-> ToolsSent(adapter, body.tools),
   options  |-> OptionsSent(adapter, body)]
=============================================================================
