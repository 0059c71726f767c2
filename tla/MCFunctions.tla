----------------------------- MODULE MCFunctions -----------------------------
(***************************************************************************)
(* Calls each of the pure functions of the SDK and of the support agent    *)
(* once on every bounded input and compares the answer with what its doc   *)
(* promises: slidingWindow, the options of a chat call on their way to the *)
(* wire, a conversation on the Anthropic wire and back, the explanation of *)
(* an answer, the delay before a retry, media calls and the readers of     *)
(* answers here; the sources, limits and masks of the support agent in     *)
(* MCSupportCases; keys, headers, prompts, causes, model lists, bags and   *)
(* vendor errors in MCClientCases.                                         *)
(***************************************************************************)
EXTENDS Integers, Sequences, SequencesExt

CONSTANTS
  MaxLen,      \* longest history of a window
  MaxTurns     \* longest conversation on the wire
ASSUME MaxLenAssumption   == MaxLen \in Nat \ {0}
ASSUME MaxTurnsAssumption == MaxTurns \in Nat

W == INSTANCE SlidingWindow
R == INSTANCE ChatRequest
M == INSTANCE AnthropicMessages
A == INSTANCE ChatAnswer
D == INSTANCE Delays
G == INSTANCE GatewayAnswers
Q == INSTANCE MediaRequests
C == INSTANCE MCSupportCases
I == INSTANCE MCClientCases

VARIABLES
  fn,          \* the function that is called
  input,       \* what it is called with
  called
vars == <<fn, input, called>>

-----------------------------------------------------------------------------
\* slidingWindow: every history, every limit in half steps to past its length.
WindowCalls ==
  { [messages |-> [i \in 1..n |-> [id |-> i, role |-> roles[i]]],
     max |-> max, preserve |-> preserve] :
      n \in 0..MaxLen, roles \in [1..MaxLen -> W!Roles],
      max \in {W!NoLimit, W!NotFinite} \cup { W!Halves(h) : h \in (-1)..(2 * MaxLen + 2) },
      preserve \in BOOLEAN }

-----------------------------------------------------------------------------
\* A chat call: one group of options is varied at a time, the others are absent.
Plain ==
  [model |-> "plain", canonical |-> "plain", provider |-> "none",
   advanced |-> FALSE, temperature |-> {}, topP |-> {}, maxTokens |-> {}, tools |-> {},
   twice |-> FALSE, choice |-> {}, schema |-> FALSE, tenancy |-> FALSE,
   guardrails |-> FALSE, nrouter |-> FALSE,
   extra |-> [temperature |-> {}, serial |-> {}, format |-> {}, n |-> {}, seed |-> {},
              logprobs |-> {}, stream |-> {}, user |-> {}]]

Maybe(S) == {{}} \cup { {v} : v \in S }

Asking(options) ==
  [f \in DOMAIN Plain |-> IF f \in DOMAIN options THEN options[f] ELSE Plain[f]]

SamplingCalls ==
  { Asking(o) :
      o \in [model : R!Ids, canonical : R!Ids, provider : R!Providers, advanced : BOOLEAN,
             temperature : Maybe({R!NaN, -1, 0, 1, 3}), topP : Maybe({R!NaN, 1, 2, 3}),
             maxTokens : Maybe({0, 5})] }

ToolCalls ==
  { Asking(o) :
      o \in [model : R!Ids, tools : Maybe({{}, {"search"}, {"search", "fetch"}}), twice : BOOLEAN,
             choice : Maybe(R!Words \cup {"search", "fetch"}), schema : BOOLEAN, nrouter : BOOLEAN,
             extra : { [Plain.extra EXCEPT !.serial = serial] : serial \in Maybe(BOOLEAN) }] }

ExtraCalls ==
  { Asking(o) :
      o \in [model : R!Ids, tenancy : BOOLEAN, guardrails : BOOLEAN,
             extra : [temperature : Maybe({3}), serial : {{}}, n : Maybe({1, 2}),
                      format : Maybe({"null", "text", "json_object"}), seed : Maybe({"null", "7"}),
                      logprobs : Maybe({"false", "true"}), stream : Maybe(BOOLEAN),
                      user : Maybe({"me"})]] }

-----------------------------------------------------------------------------
\* A conversation: the turns of the roles the code knows and one it does not.  A
\* tool turn names a call that one of the two turns before it may have made, or none.
Forms ==
  LET contents == {"string", "empty", "null", "array"}
  IN  [role : {"system", "user", "assistant", "function"}, content : contents,
       calls : {0}, named : {FALSE}] \cup
      [role : {"assistant"}, content : contents, calls : {1, 2}, named : {FALSE}] \cup
      [role : {"tool"}, content : {"string"}, calls : {0}, named : BOOLEAN]

ContentAt(content, i) ==
  CASE content = "string" -> M!Content("string", <<M!Part("text", i)>>)
    [] content = "empty"  -> M!Content("string", <<>>)
    [] content = "null"   -> M!Null
    [] content = "array"  ->
         M!Content("array", <<M!Part("text", i), M!Part("image", i), M!Part("audio", i)>>)

TurnAt(form, i) ==
  M!Turn(form.role, ContentAt(form.content, i), [k \in 1..form.calls |-> <<i + k>>],
         IF form.named THEN <<i>> ELSE M!NoId)

Conversations ==
  { [i \in 1..n |-> TurnAt(forms[i], i)] : n \in 0..MaxTurns, forms \in [1..MaxTurns -> Forms] }

ConversationCalls == [turns : Conversations, images : {<<>>, <<M!Part("image", 0)>>}]

Blocks == [kind : {"text", "tool_use", "thinking"}, id : 1..2]
AnswerCalls == [blocks : UNION { [1..n -> Blocks] : n \in 0..3 }]

-----------------------------------------------------------------------------
Figures == Maybe({0, 3})

DocumentCalls ==
  { [text |-> text, calls |-> calls, stop |-> stop, header |-> header,
     usage |-> [input |-> i, created |-> c, read |-> r, output |-> o]] :
      text \in BOOLEAN, calls \in BOOLEAN, stop \in Maybe(A!StopReasons), header \in Figures,
      i \in Figures, c \in Figures, r \in Figures, o \in Figures }

DiagnosisCalls ==
  { [text |-> text, calls |-> calls, finish |-> finish, output |-> o,
     reasoning |-> r, header |-> header] :
      text \in BOOLEAN, calls \in BOOLEAN, finish \in Maybe(A!FinishReasons), o \in Figures,
      r \in Figures, header \in Figures }

DelayCalls ==
  [attempt : {-1, 0, 1, 5, 30, 31}, base : {0, 50, 4000}, max : {0, 3000},
   jitter : {-10, 0, 50, 100, 200}, drawn : {0, 50, 99}, form : D!Forms,
   seconds : {0, 1, 86400, 86401, 3000000}, given : BOOLEAN]

-----------------------------------------------------------------------------
\* An answer of the gateway: a refusal in each form of its envelope, an answer that
\* holds something, and what is neither.
NoError == [present |-> FALSE, code |-> {}, type |-> {}, message |-> {}]

Errors ==
  {NoError, [NoError EXCEPT !.present = TRUE]} \cup
  { [present |-> TRUE, code |-> code, type |-> type, message |-> message] :
      code \in Maybe({"guardrail_blocked", "rate_limit_exceeded", "odd", "number"}),
      type \in Maybe({"guardrail_blocked", "service_unavailable", "odd"}), message \in Maybe({"plain", "guardrail"}) }

NoBody == [shape |-> "empty", error |-> NoError, code |-> {}, message |-> {}, holds |-> FALSE,
           text |-> {"plain"}]

Objects ==
  { [NoBody EXCEPT !.shape = "object", !.error = error, !.code = code, !.message = message,
       !.holds = holds] :
      error \in Errors, code \in Maybe({"model_not_found"}), message \in Maybe({"plain", "budget"}),
      holds \in BOOLEAN }

OtherBodies ==
  { [NoBody EXCEPT !.shape = shape, !.text = {text}] :
      shape \in {"empty", "bytes", "string", "list"}, text \in G!Messages }

AnAnswer(status, type, body, limit, asked) ==
  [status |-> status, type |-> type, body |-> body, limit |-> limit,
   asked |-> asked, after |-> {7}]

GatewayCalls ==
  { AnAnswer(200, type, body, {}, asked) :
      type \in G!Types, body \in Objects \cup OtherBodies, asked \in Maybe({"srt"}) } \cup
  { AnAnswer(status, type, body, {}, {}) :
      status \in {400, 404, 408, 429, 502}, type \in {"json", "text"},
      body \in Objects \cup OtherBodies } \cup
  { AnAnswer(402, "json", body, limit, {}) :
      body \in Objects, limit \in Maybe({"plan_required", "tpm"}) }

-----------------------------------------------------------------------------
\* The media calls: options that are checked beside the same ones in `extra`.
Texts == { Q!Text("listed", TRUE), Q!Text("listed", FALSE), Q!Text("odd", TRUE), Q!Text("", TRUE) }
Model == {Q!Text("listed", TRUE)}
Other == {Q!Text("other", TRUE)}
Seconds(n, text) == [is |-> "number", value |-> n, text |-> text]
Sizes == { [width |-> w, height |-> h, tidy |-> t] : w \in {0, 720}, h \in {0, 1280}, t \in BOOLEAN }

MediaCall(endpoint, named, extra) ==
  [endpoint |-> endpoint, named |-> named, extra |-> extra]

ImageCalls ==
  { MediaCall("image",
      [model |-> model, prompt |-> Model, n |-> n, size |-> size, quality |-> {},
       response_format |-> format, style |-> {}, user |-> {}],
      [model |-> Other, n |-> more, seed |-> Other]) :
      model \in Maybe({Q!Text("listed", TRUE), Q!Text("", TRUE)}),
      n \in Maybe({Q!NotFinite} \cup { Q!Number(i) : i \in {0, 1, 10, 11} }),
      size \in Maybe(Texts), format \in Maybe(Texts), more \in Maybe({Q!Number(50)}) }

VideoCalls ==
  { MediaCall("video", [model |-> Model, prompt |-> Model, seconds |-> seconds, size |-> size],
      [model |-> Other, seconds |-> more]) :
      seconds \in Maybe({ [Seconds(0, TRUE) EXCEPT !.is = "not_finite"] } \cup
                        { Seconds(i, text) : i \in {-1, 0, 1, 1333, 1334}, text \in BOOLEAN }),
      size \in Maybe(Sizes), more \in Maybe({Seconds(9, TRUE)}) }

SpeechCalls ==
  { MediaCall("speech",
      [model |-> Model, input |-> said, voice |-> voice, response_format |-> format,
       speed |-> {}, instructions |-> {}],
      [response_format |-> Other, speed |-> {Q!Number(2)}]) :
      said \in Maybe(Texts), voice \in Maybe(Texts), format \in Maybe(Texts) }

EmbeddingsCalls ==
  { MediaCall("embeddings",
      [model |-> Model, input |-> said, dimensions |-> n, encoding_format |-> {}, user |-> {}],
      [input |-> Other, dimensions |-> {Q!Number(7)}]) :
      said \in Maybe(Texts), n \in Maybe({Q!Number(3)}) }

UploadCalls ==
  { [named |-> [model |-> model, language |-> language, prompt |-> {}, temperature |-> {},
                response_format |-> format],
     extra |-> extra, granularities |-> granularities, fileName |-> name, fileEmpty |-> none,
     free |-> free] :
      model \in Maybe({"mine"}), language \in Maybe({"mine"}), format \in Maybe({"mine"}),
      extra \in SeqOf({ Q!Field(n, "extra") :
                          n \in {"model", "language", "file", "timestamp_granularities[]", "seed", ""} }, 2),
      granularities \in SeqOf({"word", "segment"}, 2),
      name \in {"speech.mp3", "audio"}, none \in BOOLEAN, free \in {{}, {1}, {3, 8}} }

ReferenceCalls ==
  { [lines |-> lines, scheme |-> scheme, image |-> image, spaces |-> spaces,
     standard |-> standard, digits |-> d, pads |-> p, host |-> host] :
      lines \in BOOLEAN, scheme \in {"data", "https", "http", "none"}, image \in BOOLEAN,
      spaces \in BOOLEAN, standard \in BOOLEAN, d \in 0..12, p \in 0..3, host \in BOOLEAN }

WaitCalls ==
  LET times == Maybe({Q!NotFinite} \cup { Q!Number(n) : n \in {0, 249, 250, 500, 60000, 60001} })
  IN  { [poll |-> p, timeout |-> t] : p \in times, t \in times }

-----------------------------------------------------------------------------
Init ==
  /\ called = FALSE
  /\ \/ fn = "window"             /\ input \in WindowCalls
     \/ fn = "request"            /\ input \in SamplingCalls \cup ToolCalls \cup ExtraCalls
     \/ fn = "conversation"       /\ input \in ConversationCalls
     \/ fn = "blocks"             /\ input \in AnswerCalls
     \/ fn = "document"           /\ input \in DocumentCalls
     \/ fn = "diagnosis"          /\ input \in DiagnosisCalls
     \/ fn = "delay"              /\ input \in DelayCalls
     \/ fn = "answer"             /\ input \in GatewayCalls
     \/ fn = "media"              /\ \/ input \in ImageCalls \/ input \in VideoCalls
                                     \/ input \in SpeechCalls \/ input \in EmbeddingsCalls
     \/ fn = "upload"             /\ input \in UploadCalls
     \/ fn = "reference"          /\ input \in ReferenceCalls
     \/ fn = "wait"               /\ input \in WaitCalls
     \/ fn = "request to support" /\ input \in C!RequestCases
     \/ fn = "search"             /\ input \in C!SearchCases
     \/ fn = "citations"          /\ input \in C!CitationCases
     \/ fn = "web search"         /\ input \in C!WebCases
     \/ fn = "seeds"              /\ input \in C!SeedCases
     \/ fn = "text"               /\ input \in C!TextCases
     \/ fn = "directory"          /\ input \in C!DirectoryCases
     \/ fn = "near"               /\ input \in C!NearCases
     \/ fn = "config"             /\ input \in C!ConfigCases
     \/ fn = "feedback"           /\ input \in C!FeedbackCases
     \/ fn = "sent"               /\ input \in C!SentCases
     \/ fn = "cost"               /\ input \in C!CostCases
     \/ fn = "error"              /\ input \in C!ErrorCases
     \/ fn = "command"            /\ input \in C!CommandCases
     \/ fn = "key"                /\ input \in I!KeyCases
     \/ fn = "url"                /\ input \in I!UrlCases
     \/ fn = "headers"            /\ input \in I!HeaderCases
     \/ fn = "prompt"             /\ input \in I!PromptCases
     \/ fn = "render"             /\ input \in I!RenderCases
     \/ fn = "causes"             /\ input \in I!CauseCases
     \/ fn = "number"             /\ input \in I!NumberCases
     \/ fn = "models"             /\ input \in I!ModelCases
     \/ fn = "capabilities"       /\ input \in I!CapabilityCases
     \/ fn = "bag"                /\ input \in I!BagCases
     \/ fn = "trace"              /\ input \in I!TraceCases
     \/ fn = "reply"              /\ input \in I!ReplyCases
     \/ fn = "page"               /\ input \in I!PageCases

Call == ~called /\ called' = TRUE /\ UNCHANGED <<fn, input>>

Spec == Init /\ [][Call]_vars

-----------------------------------------------------------------------------
Answered(f) == called /\ fn = f

\* slidingWindow: the newest turns in their order, at most the leading instruction
\* in front of them, no turn twice, and a whole positive limit used in full: a turn
\* dropped for nothing is context lost, a turn too many is billed on every request.
WindowIsTheNewestInBudget ==
  Answered("window") =>
    LET all   == input.messages
        kept  == W!Window(all, input.max, input.preserve)
        limit == W!Floor(input.max)
    IN  /\ \E n \in 0..Len(all) :
             \/ kept = W!LastTurns(all, n)
             \/ /\ n < Len(all) /\ input.preserve /\ W!HasLead(all)
                /\ kept = <<all[1]>> \o W!LastTurns(all, n)
        /\ input.max.kind = "number" =>
             (limit > 0 => Len(kept) = IF Len(all) < limit THEN Len(all) ELSE limit)

\* What a choice leaves the model to call, and whether it must call something.
Callable(tools, choice) ==
  LET offered == UNION tools
  IN  CASE choice = {"none"}                 -> [may |-> {}, must |-> FALSE]
        [] choice \in {{"required"}, {"any"}} -> [may |-> offered, must |-> TRUE]
        [] choice \in { {c} : c \in offered } -> [may |-> choice, must |-> TRUE]
        [] OTHER                              -> [may |-> offered, must |-> FALSE]

\* chat(): what is asked is sent or refused.  On the Messages wire the model may call
\* the tools the caller left it and no other, no option that decides what the answer
\* is goes missing, and a switch that cannot be sent is told as dropped.  No model
\* gets a sampling parameter it rejects, unless `extra` says so.
RequestKeepsWhatWasAsked ==
  Answered("request") /\ ~R!Refused(input) =>
    LET b == R!Body(input)
        a == R!Anthropic(b)
    IN  /\ R!IsClaude(input) /\ input.extra.temperature = {} =>
             b.temperature = {} \/ b.topP = {}
        /\ R!Deprecated(input) => b.topP \cup (b.temperature \ input.extra.temperature) = {}
        /\ R!MessagesWire(input) =>
             /\ Callable(a.tools, a.choice) = Callable(b.tools, b.choice)
             /\ a.temperature \cup a.topP \subseteq 0..R!AnthropicMax
             /\ b.n \subseteq {1}
             /\ b.seed \cup b.logprobs \cup b.format \subseteq R!Declined
             /\ a.serial <=> TRUE \in b.serial /\ "serial" \notin R!Dropped(b)

\* What turns of some roles say in strings, or in parts where they call no tool.
Spoken(turns, roles) ==
  M!FlattenSeq([i \in 1..Len(turns) |->
    IF turns[i].role \in roles /\ (turns[i].calls = <<>> \/ turns[i].content.shape = "string")
    THEN M!IdsOf(turns[i].content.parts, "text") ELSE <<>>])

\* A conversation on the Messages wire: roles alternate, nothing said in it is lost
\* or moved, what leads it is in the system prompt and nowhere else, and the images of the options come last, in a turn of the user.  The
\* blocks of an answer, made a turn and replayed to the provider, say and call what
\* the model said and called.
ConversationSurvivesTheWire ==
  /\ Answered("blocks") =>
    LET back == M!Messages(<<M!Answered(input.blocks)>>)[1].blocks
    IN  \A kind \in {"text", "tool_use"} : M!IdsOf(back, kind) = M!IdsOf(input.blocks, kind)
  /\ Answered("conversation") =>
    LET turns == M!BuildMessages(<<>>, input.turns, <<>>, input.images)
        sent  == M!Messages(turns)
    IN  M!RefusesTurns(turns) \/
        /\ M!Alternates(sent) /\ \A i \in 1..Len(sent) : sent[i].role \in M!Speakers
        /\ M!Said(sent) = Spoken(turns, M!Speakers)
        /\ LET system == M!System(turns)
           IN  [k \in DOMAIN system |-> system[k].id] = Spoken(input.turns, M!LeadRoles)
        /\ input.images # <<>> =>
             /\ sent # <<>> /\ Last(sent).role = "user"
             /\ IsSuffix(input.images, Last(sent).blocks)

\* An empty answer is explained by what is known of it: one cut by its budget is
\* never called merely empty, reasoning is blamed for neither a reported zero nor an
\* answer that has something in it, and nothing billed is called unbilled.
Explained(condition, answer, header) ==
  /\ condition = "ok" <=> answer.text
  /\ condition = "empty_completion" =>
       ~answer.calls /\ answer.finish # {"length"}
       /\ R!Absent = { n \in A!OutputTokens(answer, header) : n > 0 }
  /\ condition = "empty_but_billed" => answer.finish # {"length"}
  /\ answer.reasoning = {0} => condition # "reasoning_budget_exhausted_possible"
  /\ ~answer.text /\ ~answer.calls /\ A!Reasoned(answer) =>
       condition = "reasoning_budget_exhausted_possible"

Sum(usage) ==
  A!OrZero(usage.input) + A!OrZero(usage.created) + A!OrZero(usage.read) + A!OrZero(usage.output)

\* chatTextDiagnostic explains the answer of either wire, and an Anthropic document
\* is billed for everything that was counted in it, or for nothing when nothing was.
\* The numbers of the headers are those the gateway wrote, or none, its readers agree on
\* the others, and what a key can reach is what the gateway listed.
AnswerIsExplained ==
  /\ Answered("diagnosis") =>
       Explained(A!Condition(input, input.header), input, input.header) /\ I!ReadersAgree(input)
  /\ Answered("number") => I!NumbersAreTheGateways(input)
  /\ Answered("cost") => C!CostIsWhole(input)
  /\ Answered("reply") => I!ReplyIsItsValue(input)
  /\ Answered("bag") => I!ReadersOfHeadersAgree(input)
  /\ Answered("models") => I!ModelsAreThoseListed(input)
  /\ Answered("capabilities") => I!CapabilitiesAreFound(input)
  /\ Answered("document") =>
       LET made == A!Completion(input)
           condition == A!Condition(made, input.header)
       IN  /\ Explained(condition, made, input.header)
           /\ input.stop = {"max_tokens"} => condition \notin {"empty_completion", "empty_but_billed"}
           /\ \A u \in A!Usage(input.usage) : u.prompt + u.completion = Sum(input.usage)
           /\ Sum(input.usage) > 0 => A!Usage(input.usage) # {}

\* The one code a refusal names, in whichever place of its envelope.
SoleCode(body) ==
  LET named == <<body.error.code, body.code, body.error.type>>
  IN  { c \in G!Known : \E i \in 1..3 : named[i] = {c} /\ \A j \in (1..3) \ {i} : named[j] = {} }

\* The opening of a stream looks for a code inside the error only.
Finds(reader, body) == reader = "stream" => body.code = {}

\* The codes of failures that pass.
Passing == { c \in G!Known : G!ClassOf[c] \in {"rate_limit", "service"} }

\* What a second try of an accepted request may mend.
MayMend(body) ==
  body.shape # "object" \/ (body.error.code \cup body.error.type \cup body.code) \cap Passing # {}

\* The limits that are told as the code of a refusal that has none.
Plans == {"plan_allowance_exhausted", "plan_required"}

\* What stands in for an answer on a 2xx: an error that says something, and nothing beside.
IsRefusal(body) == body.shape = "object" /\ body.error.message # {} /\ ~body.holds

\* The readers that tell when the gateway asked to be tried again.
Timed == G!Readers \ {"json", "rpc"}

\* What the reader of an answer gives out.
IsGivenOut(end, answer) ==
  /\ G!IsSuccess(answer)
  /\ end.as = "object" =>
       answer.body.shape = "object" /\ G!SaysJson(answer.type) /\ ~IsRefusal(answer.body)
  /\ end.as \notin {"object", "stream"} => answer.body.shape # "empty" /\ ~G!SaysJson(answer.type)

\* What it raises for a 2xx.
IsRaisedLate(end, reader, answer) ==
  /\ G!Retryable(end) => MayMend(answer.body)
  /\ answer.type = "json" /\ IsRefusal(answer.body) /\ answer.body.code = {} =>
       \A c \in SoleCode(answer.body) : end.kind = G!ClassOf[c]
  /\ reader = "bytes" /\ G!SaysJson(answer.type) => end.after = answer.after

\* What it raises for a refusal.
IsRaised(end, reader, answer) ==
  /\ answer.type = "json" /\ Finds(reader, answer.body) =>
       \A c \in SoleCode(answer.body) : end.kind = G!ClassOf[c]
  /\ reader \in Timed => end.after = answer.after

IsToldBy(reader, answer) ==
  LET end == G!Read(reader, answer)
  IN  IF end.kind = "answer" THEN IsGivenOut(end, answer)
      ELSE /\ end.status = answer.status \/ reader = "rpc"
           /\ IF G!IsSuccess(answer) THEN IsRaisedLate(end, reader, answer)
              ELSE IsRaised(end, reader, answer)

IsToldAlike(answer) ==
  LET body == answer.body
  IN  /\ ~G!IsSuccess(answer) /\ answer.type = "json" /\ body.shape = "object"
      /\ answer.limit \cap Plans = {} \/ {"budget"} \notin {body.message, body.error.message}
      =>
        \A r1, r2 \in { r \in G!Readers : Finds(r, body) } :
           G!Read(r1, answer).kind = G!Read(r2, answer).kind

\* A 2xx is given out only as what it is: a JSON object, unless all it has is an error
\* with a message, or what is not empty and of another type than JSON.  Any other is raised, with the
\* kind of the code its error names, and as worth another try only where the body is no
\* JSON object or names a failure that passes.  A refusal has the kind of the code it names
\* wherever it names it, keeps its status, keeps its Retry-After but for the JSON
\* endpoints, and is the same failure on every endpoint, unless the limit header says plan
\* and the text says budget.  A request that had no answer is a failed transport, or the
\* abort it was.
AnswerIsToldAsItIs ==
  /\ Answered("causes") => I!AbortStaysAnAbort(input)
  /\ Answered("error") => C!ErrorIsTheSame(input)
  /\ Answered("answer") =>
       /\ I!RefusalSurvivesTheVendor(input)
       /\ \A reader \in G!Readers : IsToldBy(reader, input)
       /\ IsToldAlike(input)

\* How many digits and padding signs can stand for some bytes in base64.
Encodings(bytes) ==
  LET groups == 4 * (bytes \div 3)
  IN  CASE bytes % 3 = 0 -> {<<groups, 0>>}
        [] bytes % 3 = 1 -> {<<groups + 2, 0>>, <<groups + 2, 2>>}
        [] bytes % 3 = 2 -> {<<groups + 3, 0>>, <<groups + 3, 1>>}

\* A media call that is sent is billed for what its caller named: `extra` adds options
\* and never replaces one, no option that was left out erases one of `extra`, and the
\* counts that set the price are within their bounds; an inline image can be decoded,
\* and is referred to by data or by https; and a wait has the time to ask once.
MediaIsWhatWasNamed ==
  /\ Answered("media") /\ ~Q!Refuses(input.endpoint, input.named) =>
       LET body == Q!Body(input.named, input.extra)
       IN  /\ \A f \in DOMAIN input.named \ {"seconds"} :
                input.named[f] # {} => body[f] = input.named[f]
           /\ \A f \in DOMAIN input.extra :
                f \notin DOMAIN input.named \/ input.named[f] = {} => body[f] = input.extra[f]
           /\ input.endpoint = "image" /\ input.named.n # {} =>
                \A n \in body.n : n.value \in 1..Q!MaxImageCount
           /\ input.endpoint = "video" /\ input.named.seconds # {} =>
                { s.value : s \in body.seconds } = { s.value : s \in input.named.seconds }
                /\ \A s \in body.seconds : s.text /\ s.value \in 1..Q!MaxVideoSeconds
  /\ Answered("reference") =>
       /\ Q!Decodes(input.digits, input.pads) <=>
            \E bytes \in 1..input.digits : <<input.digits, input.pads>> \in Encodings(bytes)
       /\ ~Q!RefusesImageReference(input) =>
            \/ input.scheme = "data" /\ Q!Decodes(input.digits, input.pads)
            \/ input.scheme = "https" /\ input.host
  /\ Answered("wait") =>
       \A w \in Q!WaitOptions(input.poll, input.timeout) :
          w.poll \in Q!MinPollInterval..w.timeout

Named(parts, name) == SelectSeq(parts, LAMBDA f : f.name = name)

\* A form is cut at a boundary that is not in it, has each option once, the one that was
\* named and not the one of `extra`, since the gateway takes the first of a name, and
\* the file last.
FormIsWhatWasNamed(upload) ==
  LET form == Q!Form(upload)
  IN  /\ form.boundary \in upload.free
      /\ \A name \in DOMAIN upload.named :
           Named(form.parts, name) = Q!Given(name, upload.named[name])
      /\ Named(form.parts, "seed") = Named(upload.extra, "seed")
      /\ Len(Named(form.parts, "timestamp_granularities[]")) = Len(upload.granularities)
      /\ Named(form.parts, "file") = <<Last(form.parts)>>

\* A request goes out with the key, the headers, the prompt and the form that were set for
\* it, and to no place that reads them on the way: the named parts are in MCClientCases.
CallIsSentAsConfigured ==
  /\ Answered("key") => I!KeyIsTheLastGiven(input)
  /\ Answered("url") /\ ~I!H!RefusesUrl(input) => input.scheme = "https" \/ input.host = "loopback"
  /\ Answered("headers") => I!HeadersAreTheCallers(input)
  /\ Answered("upload") /\ ~Q!RefusesUpload(input) => FormIsWhatWasNamed(input)
  /\ Answered("prompt") => I!PromptIsTheOneChosen(input)
  /\ Answered("render") => I!RenderedOnce(input)
  /\ Answered("config") => C!ConfigIsUsable(input)
  /\ Answered("feedback") => C!FeedbackFitsTheChat(input)
  /\ Answered("sent") => C!WhatLeavesIsMasked(input)
  /\ Answered("trace") => I!TraceIsHandedOn(input)

\* What an answer of the support agent is grounded in is what was asked, allowed, found
\* and fetched, and the numbers of the prompt are those of the citations shown: the
\* named parts are in MCSupportCases.
SourcesAreWhatWasFound ==
  /\ called => C!SourcesAreTrue(fn, input)
  /\ Answered("command") => C!CommandSaysWhatItDid(input)
  /\ Answered("page") => I!TextIsThePages(input)

\* A retry comes no sooner than the server said, for any time up to a day, no delay
\* overflows the timer it is given to, and without a server no delay is longer than
\* maxDelayMs.
DelayHonoursTheServer ==
  Answered("delay") =>
    LET after == IF input.given THEN {input.seconds} ELSE D!RetryAfter(input)
        delay == D!Backoff([input EXCEPT !.given = after])
    IN  /\ delay \in 0..D!TimerMax
        /\ \A s \in after : delay >= 100 * D!Lesser(s, D!MaxRetryAfter)
        /\ after \subseteq {0} => delay <= input.max
=============================================================================
