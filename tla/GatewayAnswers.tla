--------------------------- MODULE GatewayAnswers ---------------------------
(***************************************************************************)
(* What each reader of a gateway answer makes of its status, content type  *)
(* and body: chat() of sdks/js/src/chat.ts; requireJson, requireBinary and *)
(* decodeTranscription of multimodal.ts; jsonRequest of json.ts; rpc of    *)
(* mcp.ts; the opening of a stream in stream.ts; and the classification of *)
(* a refusal in errors.ts they share.                                      *)
(*                                                                         *)
(* An optional value is a set of at most one element.  A body is text that *)
(* is no JSON, or a JSON value: a string, a list or an object, of which    *)
(* the fields that decide are kept.  Of a message, and of the text of a    *)
(* body, only what classification looks for in it is kept.                 *)
(***************************************************************************)
EXTENDS Integers

\* ERROR_CLASS_BY_CODE: the codes of the gateway and the kind of error of each.
ClassOf ==
  [invalid_request |-> "request", guardrail_blocked |-> "guardrail_blocked",
   invalid_api_key |-> "authentication", insufficient_credits |-> "credit",
   model_not_found |-> "not_found", rate_limit_exceeded |-> "rate_limit",
   tpm_limit_exceeded |-> "rate_limit", credit_check_failed |-> "service",
   service_unavailable |-> "service", plan_allowance_exhausted |-> "credit",
   plan_required |-> "credit"]

Known == DOMAIN ClassOf

\* The value of a `code` or `type` field: a string, or a number, which is no code.
Strings(values) == values \ {"number"}

\* What a message says that classification looks for.
Messages == {"plain", "guardrail", "budget", "model", "too large"}

Types  == {"none", "json", "text/json", "text", "srt", "vtt", "audio"}

Default == {"plain"}          \* the message of an error that was given none

First(a, b) == IF a # {} THEN a ELSE b

-----------------------------------------------------------------------------
\* classifyErrorClass: the code, else the status, the message to split a status.
KindOfStatus(message, status) ==
  CASE status = 400 -> IF message = {"guardrail"} THEN "guardrail_blocked" ELSE "request"
    [] status = 401 -> "authentication"
    [] status = 402 -> IF message = {"budget"} THEN "budget_exceeded" ELSE "credit"
    [] status = 404 -> IF message = {"model"} THEN "not_found" ELSE "other"
    [] status = 429 -> "rate_limit"
    [] status \in {502, 504} -> IF message = {"too large"} THEN "other" ELSE "service"
    [] status = 503 -> "service"
    [] status \notin {400, 401, 402, 404, 429, 502, 503, 504} -> "other"

Kind(code, message, status) ==
  CASE code = {} -> KindOfStatus(message, status)
    [] code # {} /\ code \subseteq Known -> ClassOf[CHOOSE c \in Known : code = {c}]
    [] code # {} /\ ~(code \subseteq Known) -> "other"

Raised(kind, code, status, after) ==
  [kind |-> kind, code |-> code, status |-> status, after |-> after]

\* classifyError
Classified(code, message, answer, after) ==
  Raised(Kind(code, message, answer.status), code, answer.status, after)

\* createError: a 402 without a code is told by the limit that refused it.
Created(code, message, answer, after) ==
  LET told == IF code = {} /\ answer.status = 402
              THEN answer.limit \cap {"plan_allowance_exhausted", "plan_required"} ELSE code
  IN  Raised(Kind(told, message, answer.status), told, answer.status, after)

Transport(answer)     == Raised("transport", {}, answer.status, {})
Configuration(answer) == Raised("configuration", {}, answer.status, {})

\* isRetryable, of an error without a cause.
Retryable(end) ==
  end.kind \in {"rate_limit", "service", "transport"} \/ end.status \in {408, 425}

-----------------------------------------------------------------------------
Nothing == [code |-> {}, message |-> {}]

\* Mutant of Envelope: the type is never read.
EnvelopeByCodeOnly(body) ==
  CASE body.shape = "object" ->
         [code |-> First(Strings(body.error.code), Strings(body.code)),
          message |-> First(body.error.message, body.message)]
    [] body.shape = "string" -> [code |-> {}, message |-> body.text]
    [] body.shape \notin {"object", "string"} -> Nothing

\* parseErrorBody: an envelope nested under `error` or bare, its code or a type that
\* is one of the codes.
Envelope(body) ==
  CASE body.shape = "object" ->
         [code |-> First(First(Strings(body.error.code), Strings(body.code)),
                         body.error.type \cap Known),
          message |-> First(body.error.message, body.message)]
    [] body.shape = "string" -> [code |-> {}, message |-> body.text]
    [] body.shape \notin {"object", "string"} -> Nothing

\* Mutant of EnvelopeOnSuccess: an envelope needs a code.
EnvelopeOnSuccessWithCode(body) ==
  { [code |-> Strings(body.error.code), message |-> {m}] :
      m \in IF body.shape # "object" \/ body.holds \/ Strings(body.error.code) = {} THEN {}
            ELSE body.error.message }

\* errorEnvelopeOnSuccess: a nested error with a message, in a body that holds
\* nothing of an answer.  Its type, whatever it is, stands in for a code.
EnvelopeOnSuccess(body) ==
  { [code |-> First(Strings(body.error.code), Strings(body.error.type)), message |-> {m}] :
      m \in IF body.shape # "object" \/ body.holds THEN {} ELSE body.error.message }

IsSuccess(answer) == answer.status \in 200..299

\* Content types: `includes('json')`, and the stricter test of json.ts.
SaysJson(type)  == type \in {"json", "text/json"}
IsJson(type)    == type = "json"

Parses(body) == body.shape \in {"string", "list", "object"}

\* JSON.parse, null where it throws.
Parsed(body) == IF Parses(body) THEN Envelope(body) ELSE Nothing

\* The text of a body as a message, when the envelope had none.
Snippet(body) == IF body.shape = "empty" THEN Default ELSE body.text

Given(as) == [kind |-> "answer", as |-> as]

-----------------------------------------------------------------------------
\* gatewayFailure of chat.ts: the body is parsed whatever type it claims.
ChatFailure(answer) ==
  LET e == Parsed(answer.body)
  IN  Created(e.code, First(e.message, Default), answer, answer.after)

\* chat(), after its request: body and meta, or an error.
Chat(answer) ==
  CASE ~IsSuccess(answer) -> ChatFailure(answer)
    [] IsSuccess(answer) /\ ~SaysJson(answer.type) -> Configuration(answer)
    [] IsSuccess(answer) /\ SaysJson(answer.type) ->
         LET found == EnvelopeOnSuccess(answer.body)
         IN  IF answer.body.shape # "object" THEN Transport(answer)
             ELSE IF found # {}
             THEN LET e == CHOOSE x \in found : TRUE IN Created(e.code, e.message, answer, {})
             ELSE Given("object")

\* gatewayFailure of json.ts; a body that is no JSON is its own message.
JsonFailure(answer) ==
  LET e == Parsed(answer.body)
      message == IF answer.body.shape = "bytes" THEN answer.body.text
                 ELSE First(e.message, Default)
  IN  Created(e.code, message, answer, {})

\* jsonRequest: responses(), messages(), countTokens().
JsonRequest(answer) ==
  LET e == Parsed(answer.body)
  IN  CASE ~IsSuccess(answer) -> JsonFailure(answer)
        [] IsSuccess(answer) /\ ~IsJson(answer.type) -> Configuration(answer)
        [] IsSuccess(answer) /\ IsJson(answer.type) ->
             IF answer.body.shape # "object" THEN Transport(answer)
             ELSE IF e.code \cup e.message # {}
             THEN Created(e.code, First(e.message, Default), answer, {})
             ELSE Given("object")

\* rpc: what jsonRequest lets through may still be an error of the MCP server, whose
\* code is turned into a string.
Rpc(answer) ==
  LET made == JsonRequest(answer)
      error == answer.body.error
  IN  IF made.kind = "answer" /\ error.present
      THEN Raised(Kind(error.code, First(error.message, Default), 0), error.code, 0, {})
      ELSE made

-----------------------------------------------------------------------------
\* Mutant of MediaFailure: when to try again is lost.
MediaFailureUntimed(answer) ==
  LET e == IF SaysJson(answer.type) THEN Parsed(answer.body) ELSE Nothing
  IN  Classified(e.code, First(e.message, Snippet(answer.body)), answer, {})

\* gatewayError of multimodal.ts.
MediaFailure(answer) ==
  LET e == IF SaysJson(answer.type) THEN Parsed(answer.body) ELSE Nothing
  IN  Classified(e.code, First(e.message, Snippet(answer.body)), answer, answer.after)

\* requireJson
MediaJson(answer) ==
  LET found == EnvelopeOnSuccess(answer.body)
  IN  IF ~SaysJson(answer.type) THEN Configuration(answer)
      ELSE IF ~Parses(answer.body) THEN Transport(answer)
      ELSE IF found # {}
      THEN LET e == CHOOSE x \in found : TRUE IN Created(e.code, e.message, answer, {})
      ELSE IF answer.body.shape # "object" THEN Classified({}, Default, answer, {})
      ELSE Given("object")

\* Mutant of MediaBytes: an empty body is a file of no bytes.
MediaBytesOfAnyLength(answer) ==
  LET e == Parsed(answer.body)
  IN  IF SaysJson(answer.type) THEN Classified(e.code, First(e.message, Default), answer, answer.after)
      ELSE Given("bytes")

\* requireBinary
MediaBytes(answer) ==
  LET e == Parsed(answer.body)
  IN  IF SaysJson(answer.type)
      THEN Classified(e.code, First(e.message, Default), answer, answer.after)
      ELSE IF answer.body.shape = "empty" THEN Transport(answer)
      ELSE Given("bytes")

\* textFormatOf: the type that came back, else what was asked for.
TextFormat(answer) ==
  CASE answer.type \in {"srt", "vtt"} -> answer.type
    [] answer.type \notin {"srt", "vtt"} ->
         IF answer.asked \in {{"srt"}, {"vtt"}} THEN CHOOSE f \in answer.asked : TRUE ELSE "text"

\* decodeTranscription
Transcript(answer) ==
  IF SaysJson(answer.type) THEN MediaJson(answer)
  ELSE IF answer.body.shape = "empty" THEN Transport(answer)
  ELSE Given(TextFormat(answer))

-----------------------------------------------------------------------------
\* What classification finds in the text of a JSON body that is taken for a message.
Whole(answer) ==
  IF answer.body.code # {} /\ answer.status = 404 THEN {"model"}
  ELSE First(answer.body.message, answer.body.text)

\* Mutant of StreamRefused: any type is taken for a code.
StreamRefusedByType(answer) ==
  LET body == answer.body
      code == First(Strings(body.error.code), body.error.type)
  IN  CASE body.shape = "empty" -> Created({}, Default, answer, answer.after)
        [] body.shape = "object" /\ body.error.present ->
             Created(code, First(body.error.message, Whole(answer)), answer, answer.after)
        [] body.shape # "empty" /\ ~(body.shape = "object" /\ body.error.present) ->
             Created({}, Whole(answer), answer, answer.after)

\* errorFromBody and errorFromValue of stream.ts: a nested error has a code, or a type that
\* is one; a bare one is told by what it says only.
StreamRefused(answer) ==
  LET body == answer.body
      code == First(Strings(body.error.code), body.error.type \cap Known)
  IN  CASE body.shape = "empty" -> Created({}, Default, answer, answer.after)
        [] body.shape = "object" /\ body.error.present ->
             Created(code, First(body.error.message, Whole(answer)), answer, answer.after)
        [] body.shape # "empty" /\ ~(body.shape = "object" /\ body.error.present) ->
             Created({}, Whole(answer), answer, answer.after)

Readers == {"chat", "json", "rpc", "media", "bytes", "transcript", "stream"}

\* send of multimodal.ts: a refusal is one before it is read as media.
Read(reader, answer) ==
  CASE reader = "chat" -> Chat(answer)
    [] reader = "json" -> JsonRequest(answer)
    [] reader = "rpc"  -> Rpc(answer)
    [] reader = "stream" -> IF IsSuccess(answer) THEN Given("stream") ELSE StreamRefused(answer)
    [] reader \in {"media", "bytes", "transcript"} ->
         CASE ~IsSuccess(answer)   -> MediaFailure(answer)
           [] IsSuccess(answer) /\ reader = "media" -> MediaJson(answer)
           [] IsSuccess(answer) /\ reader = "bytes" -> MediaBytes(answer)
           [] IsSuccess(answer) /\ reader = "transcript" -> Transcript(answer)
=============================================================================
