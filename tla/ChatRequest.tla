----------------------------- MODULE ChatRequest -----------------------------
(***************************************************************************)
(* From the options of a chat call to the body that leaves:                *)
(* buildSamplingParams (sdks/js/src/sampling.ts), buildChatBody            *)
(* (options.ts), and in chat.ts the choice of the wire, the refusals before*)
(* anything is sent and the fields of toAnthropicMessagesRequest.          *)
(*                                                                         *)
(* A field that may be absent is a set with at most one element.  A        *)
(* temperature and top_p are counted in halves; what is said in messages   *)
(* is AnthropicMessages.                                                   *)
(***************************************************************************)
EXTENDS Integers, FiniteSets

Absent       == {}
NaN          == -2        \* a number that is not finite
NeutralTopP  == 2         \* 1.0
AnthropicMax == 2         \* 1.0
DefaultMaxTokens == 1024

\* What the policies read out of a model id, a canonical id and a provider.
Ids       == {"plain", "claude", "deprecated"}   \* every deprecated id is a claude
Providers == {"none", "anthropic", "bedrock"}

\* isClaudeModel of sampling.ts and usesMessagesWire of chat.ts.
ClaudeId(id)                == id \in {"claude", "deprecated"}
IsClaude(o)                 == ClaudeId(o.model) \/ o.provider = "anthropic"

MessagesWire(o)             == ClaudeId(o.model) \/ o.provider = "anthropic"

-----------------------------------------------------------------------------
\* buildSamplingParams
Deprecated(o) == "deprecated" \in {o.model, o.canonical}
Sampled(o)    == o.advanced /\ ~Deprecated(o)

Unusable(value, max) == \E v \in value : v < 0 \/ v > max

RefusesSampling(o) ==
  Sampled(o) /\ (Unusable(o.temperature, 100) \/ Unusable(o.topP, NeutralTopP))

TopP(o) == IF Sampled(o) THEN o.topP \ {NeutralTopP} ELSE Absent

\* Mutant of Temperature: both parameters go to a model that takes one of them.
TemperatureBesideTopP(o) == IF Sampled(o) THEN o.temperature ELSE Absent

Temperature(o) ==
  IF Sampled(o) /\ ~(TopP(o) # Absent /\ IsClaude(o)) THEN o.temperature ELSE Absent

-----------------------------------------------------------------------------
\* buildChatBody.  `tools` holds the names, in a set of at most one set; a choice
\* is "auto", "none", "required", "odd" (no arm knows it) or a function's name.
Words == {"auto", "none", "required", "odd"}

RefusesTools(o) ==
  \/ {} \in o.tools \/ o.twice
  \/ o.choice # Absent /\ o.tools = Absent
  \/ \E c \in o.choice, names \in o.tools : c \notin Words \cup names

\* vetExtra; the closed set of nRouter fields has no guardrail ids.
RefusesExtra(o) == o.tenancy \/ o.guardrails

RefusesTokens(o) == \E n \in o.maxTokens : n < 1

\* `extra` is written over what the named options gave.
Over(extra, named) == IF extra # Absent THEN extra ELSE named

Body(o) ==
  [temperature |-> Over(o.extra.temperature, Temperature(o)),
   topP        |-> TopP(o),
   maxTokens   |-> o.maxTokens,
   tools       |-> o.tools,
   choice      |-> o.choice,
   serial      |-> o.extra.serial,         \* parallel_tool_calls: false
   format      |-> Over(o.extra.format, IF o.schema THEN {"json_schema"} ELSE Absent),
   n           |-> o.extra.n,
   seed        |-> o.extra.seed,
   logprobs    |-> o.extra.logprobs,
   stream      |-> o.extra.stream,
   user        |-> o.extra.user,
   nrouter     |-> o.nrouter]

-----------------------------------------------------------------------------
\* chat(): the refusals before anything is sent.  A field set to null or false, and
\* the response format "text", only say that nothing is asked for.
Declined == {"null", "false", "text"}

\* Mutant of RefusesMaterial: a format is dropped like a sampling nudge.
RefusesMaterialButFormats(b) ==
  \/ \E n \in b.n : n > 1
  \/ (b.seed \cup b.logprobs) \ Declined # {}

\* refuseUnservableOnMessagesWire
RefusesMaterial(b) ==
  \/ \E n \in b.n : n > 1
  \/ (b.seed \cup b.logprobs \cup b.format) \ Declined # {}

RefusesStream(b) == TRUE \in b.stream

Refused(o) ==
  \/ RefusesSampling(o) \/ RefusesTokens(o) \/ RefusesTools(o) \/ RefusesExtra(o)
  \/ RefusesStream(Body(o))
  \/ MessagesWire(o) /\ RefusesMaterial(Body(o))

-----------------------------------------------------------------------------
\* toAnthropicMessagesRequest: the fields beside the conversation.
MaxTokens(b) == IF b.maxTokens # Absent THEN b.maxTokens ELSE {DefaultMaxTokens}

\* Clamped into the range of this wire.
Clamped(b) == { IF v > AnthropicMax THEN AnthropicMax ELSE v : v \in b.temperature }

\* toolsToAnthropic gives nothing for an empty list.
Tools(b) == b.tools \ {{}}

\* Mutant of Suppressed: the tools stay beside a choice nobody can send.
SuppressedNever(b) == FALSE

\* "none" is said by sending no tools.
Suppressed(b) == Tools(b) # Absent /\ b.choice = {"none"}

ToolsSent(b) == IF Suppressed(b) THEN Absent ELSE Tools(b)

\* toolChoiceToAnthropic
Choice(b) ==
  UNION { CASE c = "auto"            -> {"auto"}
            [] c = "required"        -> {"any"}
            [] c \in {"none", "odd"} -> {}
            [] c \notin Words        -> {c} : c \in b.choice }

\* Only a choice that was not made is defaulted, to carry the switch of serial calls.
ChoiceSent(b) ==
  IF ToolsSent(b) = Absent THEN Absent
  ELSE IF b.choice = Absent /\ TRUE \in b.serial THEN {"auto"}
  ELSE Choice(b)

SerialSent(b) == ChoiceSent(b) # Absent /\ TRUE \in b.serial

Dropped(b) ==
  (IF b.tools # Absent /\ ToolsSent(b) = Absent THEN {"tools"} ELSE {})
  \cup (IF \/ ToolsSent(b) = Absent /\ b.serial # Absent
           \/ ToolsSent(b) # Absent /\ ChoiceSent(b) = Absent /\ TRUE \in b.serial
        THEN {"serial"} ELSE {})
  \cup { f \in {"n", "seed", "logprobs", "format", "user"} : b[f] # Absent }

Anthropic(b) ==
  [temperature |-> Clamped(b), topP |-> b.topP, maxTokens |-> MaxTokens(b),
   tools |-> ToolsSent(b), choice |-> ChoiceSent(b), serial |-> SerialSent(b),
   nrouter |-> b.nrouter]
=============================================================================
