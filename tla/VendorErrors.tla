---------------------------- MODULE VendorErrors -----------------------------
(***************************************************************************)
(* A refusal on its way through the vendor client that nRouter of          *)
(* sdks/js/src/client.ts extends: it is raised there as an error of the    *)
(* vendor, with what that keeps of the body, and made an answer again for  *)
(* the readers of GatewayAnswers.                                          *)
(*                                                                         *)
(* `lost` is an answer whose body did not arrive, `encodes` a request whose*)
(* body can be written as JSON.                                            *)
(***************************************************************************)
EXTENDS GatewayAnswers

\* What the vendor client makes of the text of a refusal that is no JSON: a message with
\* the status in front, so that none of it begins with what it began with.
Prefixed(text) == IF text = {"budget"} THEN {"plain"} ELSE text

\* APIError.generate: of a body that is JSON the error nested in it; of another its text,
\* or a default where it is empty.
Generated(body) ==
  IF Parses(body)
  THEN [error |-> IF body.shape = "object" /\ body.error.present THEN {body.error} ELSE {},
        message |-> Default]
  ELSE [error |-> {}, message |-> IF body.shape = "empty" THEN Default ELSE Prefixed(body.text)]

Blank == [present |-> FALSE, code |-> {}, type |-> {}, message |-> {}]

\* A body that has a nested error and nothing else.
Nested(error, text) ==
  [shape |-> "object", error |-> error, code |-> {}, message |-> {}, holds |-> FALSE, text |-> text]

\* Mutant of MakeStatusError: the body is not kept beside the error.
MakeStatusErrorAlone(body) == [original |-> {}, generated |-> Generated(body)]

\* makeStatusError: the error of the vendor, and the parsed body beside it.
MakeStatusError(body) ==
  [original |-> IF Parses(body) THEN {body} ELSE {}, generated |-> Generated(body)]

\* responseFromApiError: the body that was kept, else the error of the vendor, else an
\* envelope of its message.
ResponseFromApiError(raised) ==
  LET message == raised.generated.message
  IN  IF raised.original # {} THEN CHOOSE b \in raised.original : TRUE
      ELSE IF raised.generated.error # {}
      THEN Nested(CHOOSE e \in raised.generated.error : TRUE, Default)
      ELSE Nested([Blank EXCEPT !.present = TRUE, !.message = message], message)

\* Mutant of Request: the body is read before the request is known to have arrived.
RequestUntold(reader, answer, encodes, lost) ==
  IF ~encodes \/ (lost /\ reader # "stream") THEN Raised("transport", {}, 0, {})
  ELSE Read(reader, IF IsSuccess(answer) THEN answer
                    ELSE [answer EXCEPT !.body = ResponseFromApiError(MakeStatusError(@))])

\* encodeJson, request and open, and the reader of what they return: a body that cannot
\* be encoded is never sent, and an answer that is lost is told with its status.
Request(reader, answer, encodes, lost) ==
  IF ~encodes THEN Raised("configuration", {}, 0, {})
  ELSE IF IsSuccess(answer) /\ lost /\ reader # "stream" THEN Transport(answer)
  ELSE Read(reader, IF IsSuccess(answer) THEN answer
                    ELSE [answer EXCEPT !.body = ResponseFromApiError(MakeStatusError(@))])
=============================================================================
