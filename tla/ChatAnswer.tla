----------------------------- MODULE ChatAnswer -----------------------------
(***************************************************************************)
(* What a caller is told of an answer: toFinishReason, toOpenAIUsage and   *)
(* toOpenAIChatCompletion of sdks/js/src/chat.ts for an Anthropic document,*)
(* chatText and chatTextDiagnostic for the document they make of it or the *)
(* gateway relays; and parsed, which reads its text as JSON.               *)
(*                                                                         *)
(* A figure or a reason that may be missing is a set of at most one.       *)
(***************************************************************************)
EXTENDS Naturals, Sequences, SequencesExt

StopReasons   == {"end_turn", "stop_sequence", "max_tokens", "tool_use", "refusal", "other"}
FinishReasons == {"stop", "length", "tool_calls"}

\* Mutant of FinishReason: a cut answer is one more reason to stop.
FinishReasonCutIsStop(stop) == IF stop = "tool_use" THEN "tool_calls" ELSE "stop"

\* toFinishReason of a reason that is there; what it does not know is "stop".
FinishReason(stop) ==
  CASE stop = "max_tokens" -> "length"
    [] stop = "tool_use"   -> "tool_calls"
    [] stop \notin {"max_tokens", "tool_use"} -> "stop"

FinishOf(stop) == { FinishReason(s) : s \in stop }

OrZero(figure) == IF figure = {} THEN 0 ELSE CHOOSE n \in figure : TRUE

Counted(usage) == usage.input \cup usage.created \cup usage.read \cup usage.output # {}

\* Mutant of Usage: what was written to the cache and read from it is left out.
UsageOfInputOnly(usage) ==
  IF Counted(usage)
  THEN {[prompt |-> OrZero(usage.input), completion |-> OrZero(usage.output)]}
  ELSE {}

\* toOpenAIUsage: nothing where nothing was counted; total_tokens is the sum.
Usage(usage) ==
  IF Counted(usage)
  THEN {[prompt     |-> OrZero(usage.input) + OrZero(usage.created) + OrZero(usage.read),
         completion |-> OrZero(usage.output)]}
  ELSE {}

\* toOpenAIChatCompletion of [text, calls, stop, usage]; thinking is not surfaced.
Completion(document) ==
  [text      |-> document.text,
   calls     |-> document.calls,
   finish    |-> IF document.stop = {} THEN {"stop"} ELSE FinishOf(document.stop),
   output    |-> { u.completion : u \in Usage(document.usage) },
   reasoning |-> {}]

-----------------------------------------------------------------------------
\* chatTextDiagnostic of [text, calls, finish, output, reasoning]; `header` is the
\* count of x-nr-output-tokens, which stands in for a body without one.
OutputTokens(answer, header) == IF answer.output # {} THEN answer.output ELSE header

Reasoned(answer)         == \E n \in answer.reasoning : n > 0
ReasoningRuledOut(answer) == answer.reasoning = {0}
OutOfBudget(answer)      == answer.finish = {"length"}

\* Mutant of Condition: a reported zero is taken for a missing report.
ConditionWithoutZero(answer, header) ==
  CASE answer.text  -> "ok"
    [] ~answer.text /\ answer.calls -> "tool_calls_only"
    [] OTHER ->
         IF Reasoned(answer) \/ OutOfBudget(answer)
         THEN "reasoning_budget_exhausted_possible"
         ELSE IF \E n \in OutputTokens(answer, header) : n > 0 THEN "empty_but_billed"
         ELSE "empty_completion"

Condition(answer, header) ==
  CASE answer.text -> "ok"
    [] ~answer.text /\ answer.calls -> "tool_calls_only"
    [] OTHER ->
         IF Reasoned(answer) \/ (OutOfBudget(answer) /\ ~ReasoningRuledOut(answer))
         THEN "reasoning_budget_exhausted_possible"
         ELSE IF OutOfBudget(answer) THEN "output_budget_exhausted"
         ELSE IF \E n \in OutputTokens(answer, header) : n > 0 THEN "empty_but_billed"
         ELSE "empty_completion"

-----------------------------------------------------------------------------
\* A text is a sequence of pieces: a fence, the tag of one, prose, a value in JSON, or
\* white space.  The content of a choice is a string, a list of parts of which some are
\* text, or neither.
Space == "space"

\* Mutant of ChatText: a content in parts is no text.
ChatTextOfStrings(choices) ==
  IF choices = <<>> \/ choices[1].shape # "string" THEN <<>> ELSE FlattenSeq(choices[1].parts)

\* chatText: the first choice, a string or the text of its parts.
ChatText(choices) ==
  IF choices = <<>> \/ choices[1].shape = "none" THEN <<>> ELSE FlattenSeq(choices[1].parts)

Trim(text) ==
  LET said == { i \in DOMAIN text : text[i] # Space }
      from == CHOOSE i \in said : \A j \in said : i <= j
      to   == CHOOSE i \in said : \A j \in said : i >= j
  IN  IF said = {} THEN <<>> ELSE SubSeq(text, from, to)

\* What is inside one fence around a whole text, its tag left out.
Unfenced(text) ==
  IF Len(text) < 2 \/ text[1] # "fence" \/ Last(text) # "fence" THEN text
  ELSE LET inside == SubSeq(text, 2, Len(text) - 1)
       IN  Trim(IF inside # <<>> /\ inside[1] = "json" THEN Tail(inside) ELSE inside)

\* Mutant of Parsed: an answer that is no JSON is worth another try.
ParsedOrRetried(choices) ==
  LET text == Trim(ChatText(choices))
  IN  IF Unfenced(text) = <<"value">> THEN [kind |-> "value", meta |-> FALSE]
      ELSE [kind |-> "transport", meta |-> TRUE]

\* parsed: the value of the text, or a refusal for good that carries the metadata.
Parsed(choices) ==
  LET text == Trim(ChatText(choices))
  IN  IF Unfenced(text) = <<"value">> THEN [kind |-> "value", meta |-> FALSE]
      ELSE [kind |-> "configuration", meta |-> TRUE]
=============================================================================
