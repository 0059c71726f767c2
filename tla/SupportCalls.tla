----------------------------- MODULE SupportCalls -----------------------------
(***************************************************************************)
(* How a support agent is set up and what it sends and reports:            *)
(* resolveConfig (config.ts), validateTrustedContext (limits.ts),          *)
(* validateFeedback (feedback.ts), the masking of pii.ts where client.ts,  *)
(* tools.ts and agent.ts apply it, the cost of an answer, and the error a  *)
(* caller is told (errors.ts), under agents/customer-support-agent/src.    *)
(*                                                                         *)
(* An optional value is a set of at most one element.  A text is a         *)
(* sequence of tokens; a length stands for a string of that length.        *)
(***************************************************************************)
EXTENDS Integers, Sequences, SequencesExt

DefaultLimits     == [maxMessages |-> 12, maxMessageChars |-> 2000, maxPageContextChars |-> 1000]
DefaultConfidence == [high |-> 550, medium |-> 400]        \* in thousandths
DefaultTopK       == 5
MaxIdChars        == 128
MaxFieldChars     == 200
MaxQuestionChars  == 2000                                  \* of a feedback

Or(option, default) == IF option = {} THEN default ELSE CHOOSE v \in option : option = {v}

IsPositive(n) == n \in Nat \ {0}

\* Stands for undefined, where it is given: no check below lets either of them pass.
Undefined == -1

\* Mutant of Settled: what is given as undefined is as good as absent.
SettledLoosely(defaults, given) ==
  [f \in DOMAIN defaults |->
     IF f \in DOMAIN given /\ given[f] # Undefined THEN given[f] ELSE defaults[f]]

\* `{...defaults, ...given}`
Settled(defaults, given) ==
  [f \in DOMAIN defaults |-> IF f \in DOMAIN given THEN given[f] ELSE defaults[f]]

\* Mutant of TopK: any positive number.
TopKPositive(config) == { k \in {Or(config.topK, DefaultTopK)} : IsPositive(k) }

\* The number of chunks to retrieve, or none when it is refused.
TopK(config) == { k \in {Or(config.topK, DefaultTopK)} : k \in 1..50 }

\* Mutant of Confidence: the thresholds are compared with each other only.
ConfidenceOrdered(config) ==
  { c \in {Settled(DefaultConfidence, config.confidence)} :
      c.medium <= c.high }

Confidence(config) ==
  { c \in {Settled(DefaultConfidence, config.confidence)} :
      0 < c.medium /\ c.medium <= c.high /\ c.high <= 1000 }

\* Mutant of Limits: the number of messages is not looked at.
LimitsOfText(config) ==
  { l \in {Settled(DefaultLimits, config.limits)} :
      \A f \in {"maxMessageChars", "maxPageContextChars"} : IsPositive(l[f]) }

Limits(config) ==
  { l \in {Settled(DefaultLimits, config.limits)} :
      \A f \in DOMAIN l : IsPositive(l[f]) }

\* resolveConfig: a model, a client or a key for one, a store that can search or an index
\* that is valid, and the numbers above; masking unless it is turned off.
ResolveConfig(config) ==
  { [topK |-> k, confidence |-> c, limits |-> l, maskPii |-> config.maskPii # {FALSE}] :
      k \in TopK(config), c \in Confidence(config),
      l \in { x \in Limits(config) :
                /\ config.model /\ config.client \in {"given", "key"}
                /\ config.knowledge \in {"store", "index"} } }

\* validateTrustedContext
RefusesContext(context) ==
  \/ \E field \in DOMAIN context.identity : context.identity[field] > MaxFieldChars
  \/ Len(context.audiences) > 20 \/ \E a \in Range(context.audiences) : a \notin 1..64
  \/ \E id \in context.sessionId : id \notin 1..MaxIdChars

\* validateFeedback
RefusesFeedback(feedback) ==
  \/ feedback.sessionId \notin 1..MaxIdChars \/ feedback.messageId \notin 1..MaxIdChars
  \/ feedback.rating \notin {"up", "down"}
  \/ \E q \in feedback.question : q > MaxQuestionChars
  \/ ~(feedback.confidence \subseteq {"high", "medium", "low"})
  \/ \E r \in feedback.reason : r > 500

-----------------------------------------------------------------------------
\* A token is a word, an address, what masking left of one, or a number with its digits,
\* its shape, and what stands around it.
Word       == [is |-> "word"]
Address    == [is |-> "email"]
Digits(n, shape, around) == [is |-> "number", digits |-> n, shape |-> shape, around |-> around]
Mask(as)   == [is |-> "mask", as |-> as]

\* A number that is no phone number: too short or long, a date or dotted parts, or in a
\* path, behind a currency or before a unit.
Kept(token) ==
  \/ token.digits \notin 7..15
  \/ token.shape \in {"date", "dotted"}
  \/ token.around \in {"path", "currency", "unit"}

MaskToken(token) ==
  CASE token.is = "email"  -> Mask("email")
    [] token.is = "number" -> IF Kept(token) THEN token ELSE Mask("phone")
    [] token.is \notin {"email", "number"} -> token

\* maskPii
MaskPii(text) == [i \in 1..Len(text) |-> MaskToken(text[i])]

\* Mutant of MaskContent: a content in parts goes as it is.
MaskContentString(content) ==
  [content EXCEPT !.text = IF content.shape = "string" THEN MaskPii(@) ELSE @]

\* maskMessageContent: a string, and the parts that are text.
MaskContent(content) ==
  CASE content.shape = "string" -> [content EXCEPT !.text = MaskPii(@)]
    [] content.shape = "parts"  ->
         [content EXCEPT !.parts =
            [i \in 1..Len(@) |-> IF @[i].type = "text" THEN [@[i] EXCEPT !.text = MaskPii(@)] ELSE @[i]]]
    [] content.shape \notin {"string", "parts"} -> content

Masked(messages) == [i \in 1..Len(messages) |-> MaskContent(messages[i])]

\* embed: what a question is looked up by; nothing is asked for no text.
Embedded(maskPii, texts) ==
  IF maskPii THEN [i \in 1..Len(texts) |-> MaskPii(texts[i])] ELSE texts

\* executePhase: the prompt and the history, for the tools or for the stream.
Phase(maskPii, messages) == IF maskPii THEN Masked(messages) ELSE messages

\* streamChat masks what it is given once more.
Streamed(maskPii, messages) == Phase(maskPii, Phase(maskPii, messages))

\* retrieve: asks for no masking and for no leave of it, so that embed masks.
Sought(question) == Embedded(TRUE, <<question>>)

\* runToolPhase: every request of a run, the messages and what the steps before it left:
\* the turn of the model and what the tools of the host gave.
RunOver(messages, steps) ==
  [n \in 1..(Len(steps) + 1) |-> messages \o FlattenSeq(SubSeq(steps, 1, n - 1))]

\* Everything one question sends to the gateway: to embed it, to run the tools over it
\* when there are any, else to stream the answer.
Sent(maskPii, tools, question, messages, steps) ==
  [embedded |-> Sought(question),
   chat     |-> IF tools THEN RunOver(Phase(maskPii, messages), steps)
                ELSE <<Streamed(maskPii, messages)>>]

-----------------------------------------------------------------------------
Unpriced == [costUsd |-> {}, status |-> "unpriced"]

\* costFromMeta: of a streamed answer, whose price is in its headers.
CostFromMeta(meta) ==
  IF meta.priced /\ meta.cost \ {0} # {} THEN [costUsd |-> meta.cost, status |-> "exact"] ELSE Unpriced

\* Mutant of CostOfRun: a part of the run is enough.
CostOfRunAtLeast(summary) ==
  IF summary.priced > 0 THEN [costUsd |-> {summary.total}, status |-> "exact"] ELSE Unpriced

\* runToolPhase: of a run, when every answer of it was priced.
CostOfRun(summary) ==
  IF summary.complete /\ summary.priced > 0
  THEN [costUsd |-> {summary.total}, status |-> "exact"] ELSE Unpriced

\* encodeEvent of a cost (sse.ts): a price only beside the word that it is exact.
CostFrame(cost) ==
  [status |-> cost.status, costUsd |-> IF cost.status = "exact" THEN cost.costUsd ELSE {}]

-----------------------------------------------------------------------------
\* An error is [from, class, name, kind]: whether it is of the agent, of the SDK that was
\* loaded here, of another copy of it, or of neither; its class; and the kind its code,
\* message and status classify it as when it has a status.
CodeOfKind(kind) ==
  CASE kind = "guardrail_blocked"           -> "guardrail_blocked"
    [] kind = "authentication"              -> "auth_failed"
    [] kind \in {"credit", "budget_exceeded"} -> "insufficient_credit"
    [] kind = "rate_limit"                  -> "rate_limited"
    [] kind \notin {"guardrail_blocked", "authentication", "credit", "budget_exceeded", "rate_limit"} ->
         "upstream_error"

\* The classes that are known by their name.
Named == {"guardrail_blocked", "authentication", "credit", "budget_exceeded", "rate_limit", "other"}

\* Mutant of SafeCode: a class is known by its identity.
SafeCodeByIdentity(error) ==
  CASE error.from = "agent" -> error.class
    [] error.from = "sdk"   -> CodeOfKind(error.class)
    [] error.from \in {"copy", "other"} ->
         CASE error.abort -> "aborted"
           [] ~error.abort /\ error.status # {} -> CodeOfKind(Or(error.status, "other"))
           [] ~error.abort /\ error.status = {} -> "internal_error"

\* toSafeError: by the class, or the name of one; else an abort by its name, else by the
\* status.
SafeCode(error) ==
  CASE error.from = "agent" -> error.class
    [] error.from = "sdk" \/ (error.from = "copy" /\ error.class \in Named) -> CodeOfKind(error.class)
    [] error.from = "other" \/ (error.from = "copy" /\ error.class \notin Named) ->
         CASE error.abort -> "aborted"
           [] ~error.abort /\ error.status # {} -> CodeOfKind(Or(error.status, "other"))
           [] ~error.abort /\ error.status = {} -> "internal_error"
=============================================================================
