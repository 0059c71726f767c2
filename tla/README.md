# nRouter SDK: models, model checks and proofs

This directory holds TLA+ models of the nRouter SDK repository: what keeps state across
awaits, shares an iterator, retries, cancels or orders calls, and the pure functions
between a call's options and the wire and between an answer and its caller. Each
definition is translated from the TypeScript source; `PROJECT.json` maps it to the lines
it stands for, lists the hazards of the code and says which property covers each.

## 1. The system

The repository is a client side only. The gateway (one HTTP API over many model
providers) is a service outside of it; here it is whatever answers or fails. So is the
vendor client (`openai`) that the SDK's client extends: it is modelled from how the code
uses it, and marked external in `PROJECT.json`.

| Part | State it keeps | Operations | What makes it hard |
|---|---|---|---|
| JS SDK, memory (`sdks/js/src/memory.ts`) | the rows of a caller's store; the promise chain of one `Memory` | `add`, `messages`, `clear`, `slidingWindow` | every call is a read-modify-write across awaits; loads and saves fail, a failed save may have been applied; other writers |
| JS SDK, stream reader (`stream.ts`) | the buffer, the text so far, the recorded failure, one async generator | `for await` over `chunks`, `break`, `text()` and its siblings, abort | one single-use body shared by any number of readers; it is cut, refused, aborted or broken anywhere, and was billed |
| JS SDK, tool loop (`agent.ts`, `meta.ts`) | the conversation, steps, cost, stop reason | one `runTools` call, resumed by the next | bounded loop over provider calls, tools that fail, costs that are unknown |
| JS SDK, client (`client.ts`) | the live key, the wrapped `fetch`, the timeouts | construct, rotate the key, `withOptions`, `request`, `open` | a key that changes while requests are in flight, headers from four places in any spelling, an idle timer racing a chunk, no second billed POST |
| JS SDK, errors (`errors.ts`) | none | classify, `isRetryable`, `parseRetryAfter`, backoff, keep causes | boundaries of 32-bit timers, an abort behind other failures, cyclic causes |
| JS SDK, chat and wires (`chat.ts`, `options.ts`, `sampling.ts`) | the translator of one stream | build and refuse a request, both directions of the Messages wire, the stream translator, `compare` | two wires that must mean the same, fields that are set twice, answers that are empty but billed |
| JS SDK, media (`multimodal.ts`) | none but a polling loop | request builders, readers, `waitForVideo` | counts that set the price, a deadline racing the last answer, abort during a sleep |
| JS SDK, models, prompts, MCP, diagnostics, JSON | none | list, select, render, read | ids as paths, answers that are not what they say |
| Support agent (`agents/customer-support-agent/src`) | the host's session store; per request the events, the attempt and its text | `chat`, `chatSSE`, `feedback` | the consumer pulls and may cancel; two requests of one session; a refused answer is retried once; the store fails |
| Support agent, sources and settings | none | retrieve, search the web, cite, mask, limit | numbers in the prompt against the citations shown, who may see which document |
| Support agent, knowledge index | the index being built; a file | read, fetch, chunk, embed in batches, skip refused documents, save, search | a refusal in the middle of a build; redirects and sizes of pages; atomic save |
| Nine more SDKs (Python, Go, Java, Kotlin, Android, Rust, Swift, Dart, R) | as the JS one, less the stream reader or tool loop in most | the same wire contract | ports |
| Conformance gate, scripts, spec, demos | none | static checks, live probes | none of the runtime |

How they interact: the support agent calls the SDK (`createMemory`, `runTools`,
`nr.stream`, `embeddings`); `runTools` calls `runChat`, which calls the client's
`request`; `streamChat` calls the client's `open`, on the Anthropic wire through the
translator, and wraps the body in the frame reader. Callers reach all of it by promises,
async iterators and an `AbortSignal`; the only shared state is the caller's
`MemoryStore` and the live key of a client.

What makes each part correct, in one line: the memory is a log on which calls act one
at a time in call order; a stream is one answer with one verdict, never a part of an
answer that looks whole, never a retry of what was billed, and the same on either wire; a
run answers every tool call, within its ceiling, with its own text and its own cost; a
billed request leaves once, with the key that is live and what its caller named, and its
failure is told as what it was; a chat ends in one `done` and leaves exactly its dialogue
in the session; an answer is grounded in what was found, and cited by the same number.

## 2. Modules

Three kinds: state machines that TLC explores (and TLAPS proves about, in `_proofs`),
modules of pure operators, and MC modules with values and bounded inputs. An
operator whose comment begins with "Mutant of" is a plausible wrong version of the
definition that follows it; `PROJECT.json` says which property each one breaks.

### Conversation memory

* `SlidingWindow` - pure: `Window` is `slidingWindow`, `Pruned` its truncating branch,
  `Limit` the kinds of `maxMessages` there are (absent, not finite, a number in halves so
  that a fractional limit is tried).
* `ConversationLog` - the abstract specification: a conversation on which calls are
  issued and later settle, each at one instant, in the order of the calls; a rejected
  call took effect or did not.
* `Memory` - `createMemory` over one store. `Serialize` is the call of `add`,
  `messages` or `clear` (what it appends to the promise chain); `MayRun` is the chain
  itself: an operation starts when all before it have settled, in either way.
  `LoadForAdd`, `LoadForMessages`, `LoadFails` are the answers of `store.load()`
  (`read`, with the check of every row), `SaveSucceeds` and `SaveFails` those of
  `store.save()`. `ForeignWrite` is somebody else writing to the store, rows the
  memory refuses among them. `ImplementsLog` is the refinement of `ConversationLog`
  as long as nobody else writes. `MCMemory` gives the constants values.

### Stream reader and the translator

* `StreamAnswer` - the abstract specification: one growing text, one verdict (whole,
  abandoned, failed), told the same to every accessor.
* `StreamReader` - one `StreamResult`. `queue` and `caller` are the request queue of
  the async generator that all readers share; `place` is where the generator stands.
  `NetworkChunk`, `Resume`, `BodyEnds`, `ResumeTail` are the frame loops of
  `readFrames`, `BodyFails` the body throwing, `Released` the body's `return()` that
  `for await` awaits when it is left early, `Fail` the `catch`. `Ask`, `Break`,
  `Answer` are the callers; `Abort` is the signal. A frame is its verdict (a delta,
  the terminator, an in-band error that is or is not retryable); frames that carry
  nothing are skipped within the step that reads them.
* `StreamMetadata` - pure: what is assembled out of the frames of either wire
  (`interpret`, `extractDelta`, `absorbMetadata`): text, tool calls by index, by id or by
  neither, the finish reason, the usage.
* `SSETranslator` - `createAnthropicSSETranslator` of `chat.ts` as a function on a
  record, one frame at a time.
* `TranslatedStream` - the composition: a provider that streams an answer on either wire,
  `Transform` the translator's step on a line, `Close` the end of the body with its last
  line lost, torn or whole; the same frames are read directly and through the translator.
  `MCTranslatedStream` gives what may be counted.

### Tool loop

* `RunTools` - `runTools`, one action per provider answer, tool call, and way on
  (`GoOn`, `StopWhen`, `StopWhenFails`), and a caller who feeds the conversation of a
  run into the next. A turn is its role, the run that wrote it, whether it says
  anything, how many calls it makes and which call it answers. `CostAdd` is
  `CostAccumulator.add`. The conversation is also put on the Messages wire with the
  operators of `AnthropicMessages`.

### Client, errors, and what goes over the wire

* `ClientCalls` - a client and its clone whose keys rotate, with calls under way: a chat
  that is tried again by its caller, a `compare` of two arms, or `waitForVideo` with its
  polls. `Fetch` is a request leaving through `pinnedFetch`, with `Rotate` and `Clone` at any
  moment before; `Chunk` and `IdleFires` are the race of `withBodyIdleTimeout`; `Refuse`,
  `Disconnect`, `BodyBreaks` and `AbortLands` are what ends a request badly; `Again` is a
  caller whose loop asks `isRetryable`, `WaitStep` and `CompareReturns` are the two loops
  of the SDK. Time is a clock that ticks; a timer that is due
  fires before the next tick.
* `ClientHeaders`, `HeaderBags` - which key a client takes, which URLs it refuses, its
  default headers beside those the environment names for another service, the headers of
  one request, what `pinnedFetch` pins; and the readers of header bags of four kinds.
* `Prompts` - prompt references, variables, what is folded into a body, `renderPrompt`.
* `ErrorCauses` - `sanitizeCause`, `isAbortLike`, `wasAborted`, `isRetryable` over chains
  of causes that may be cyclic.
* `Delays` - `parseRetryAfter`, `computeJitteredBackoff`.
* `GatewayAnswers`, `VendorErrors` - what seven readers make of a status, a content type
  and a body; and how the vendor client raises and gives back a refusal on the way.
* `ResponseMeta` - the numbers and names of the `x-nr-*` headers.
* `ChatRequest` - from the options of a chat call to its body or its refusal.
* `AnthropicMessages` - a conversation on the Messages wire, and an answer back from it.
* `ChatAnswer` - finish reasons, usage, texts and `chatTextDiagnostic` of an answer.
* `MediaRequests` - bodies, forms, refusals and counts of the media calls.
* `Discovery` - model ids as paths, lists, `has`, capabilities.

### Support agent

* `SupportChat` - `chat()` for several requests of one session, pulled and cancelled
  by their consumers (`toSSE`). One action per await: the load and the save of each
  memory call, the recall, tokens, the end of an attempt or its failure, the one retry
  after a guardrail refusal. Each request has a `Memory` of its own, so only the
  store is shared. The several progress events before the answer are one event.
* `SupportSources` - the question a search is made for, who may see a chunk, retrieval,
  web search, citations and the numbers of the prompt.
* `SupportCalls` - the resolved configuration and its limits, feedback, masking, the cost
  of an answer and the code of a failure.
* `CommandLine` - `support-agent build-kb`: its arguments, its exit code, its index.

### Knowledge index

* `KnowledgeIndex` - `buildKnowledgeIndex` and `saveKnowledgeIndex`. `RequestBatch`
  is the head of the loop, `BatchEmbedded`, `BatchRefused` and `EmbedFails` the answers
  to a batch; `RequestOne`, `OneEmbedded`, `OneRefused` walk a refused batch chunk by
  chunk, `RefusalReported` and `SkipRefused` are its two ends; `Finish` is
  `validateIndex`; `WriteFile` and `Rename` the save; `Abort` and `Crash` come at any
  time. The guardrail always refuses the chunks of `blocked` and may refuse any other
  request too, a batch of which it refuses no chunk among them. A chunk is its position
  in what `chunkDocs` made, so `chunks` is a set. `MCKnowledgeIndex` gives the corpora.
* `SeedPages`, `PageText`, `KnowledgePieces`, `Similarity` - pure: the pages that are
  fetched and the text left of them, files to documents to pieces, the chunks an index may
  hold, and how near each is to a question.

### Inputs

`MCFunctions` calls each pure function once on every bounded input and compares the
answer with what its doc promises. `MCSupportCases` and `MCClientCases` hold the inputs
and the named parts of its properties.

## 3. The runs

| Run | Instance | Question |
|---|---|---|
| `memory` | 4 calls, limits none and 2, one foreign row | is any update lost, misordered or brought back; does every call settle; is it atomic |
| `functions` | 0.9 million inputs, each function in turn | see below |
| `stream` | 2 loops, 2 accessors, 4 deltas, chunks of up to 3 frames | can an accessor answer with less than the answer, disagree with another, hang; does an abort stop it and stay final |
| `stream_whole` (violated) | 1 loop, 1 accessor | can an answer that was read whole be reported as worth retrying |
| `translate` | 3 blocks, 3 pieces, either wire, numbered or not, cut anywhere | do both readers assemble the model's text and calls, do whole answers of the Anthropic wire end alike, is its translation a well-formed stream, has any translation one end and the error a frame holds |
| `translate_stop` (violated) | the same | is a stop the model's own |
| `run_tools` | 2 runs, 3 steps, 2 calls per turn | is every call answered in place on both wires, the ceiling kept, cost and text the run's own; does it end |
| `client` | 2 calls and a poll, 2 keys, a client and its clone, 2 tries, 2 chunks | which key leaves, how often, is a failure what happened, are paid answers kept, does every call settle |
| `video_abort` (violated) | the same | is a wait that was aborted never worth retrying |
| `support` | 2 requests, web search on, 1 token per attempt | is each stream closed by one `done`; does the session hold the dialogue |
| `support_overlap` (violated) | 2 requests | does a session survive two requests at once |
| `knowledge` | batches of 2, up to 3 documents of 1 to 3 chunks, every guardrail | is a document in the index whole or not at all, told once, the file always whole; does an abort stop the requests |

What `functions` asks: a window has the newest turns and as many as it may
(`WindowIsTheNewestInBudget`); a request keeps each option or is refused
(`RequestKeepsWhatWasAsked`); a conversation keeps its parts, their order and its pairing
of calls and results on the Messages wire and back (`ConversationSurvivesTheWire`); a
delay is no shorter than the server's and fits a timer (`DelayHonoursTheServer`); an empty
answer is explained, priced and counted by the gateway's numbers or none, the readers of
its headers agree, and the models and capabilities are those the gateway listed
(`AnswerIsExplained`); every reader tells the same failure of the same answer, and hands
out nothing that is only a failure with a message (`AnswerIsToldAsItIs`); a media call is
billed for what was named (`MediaIsWhatWasNamed`); a call leaves with its client's key, its
caller's headers, its prompt, its form and its masks (`CallIsSentAsConfigured`); sources are those asked for, allowed and
found, under the numbers shown (`SourcesAreWhatWasFound`). These are one property for each
promise and not one for each function, because a promise is kept by several of them.

The bounds and why they suffice. Memory: a lost update needs two calls and a third that
observes it; four calls give every pair of kinds around a failure in the middle, and
the proofs hold for any number. Stream: two readers of either kind are what sharing needs,
a chunk of three frames holds a delta before, at and after the one a reader takes, four
deltas span two chunks. Translation: three blocks give a call before, between and after
text and two neighbouring calls; three pieces let the fragments of two calls interleave
and one of them go on. Tool loop: three steps give a first, a middle and a last one; two
calls per turn distinguish all from the first; the second run is the resumed one. Client:
two calls are what a `compare` and a rotation between them need; one retry of the client
and two tries of the caller tell the two apart; the wait is four ticks with a poll each, so
that the deadline falls in a sleep, in a poll and behind it. Support: two requests overlap
at every pair of awaits; one token per attempt tells attempts apart. Knowledge: with
batches of two a document of three chunks spans two batches and shares one with its
neighbour, and a document skipped in one batch empties or shortens the next; every set of
refused chunks is tried. Functions: histories of four turns and conversations of three
hold every neighbourhood the code looks at; one group of options is varied at a time, the
combinations a condition reads together among them.

Deadlock is checked in the client runs, where the clock goes on. Elsewhere it is not
(`CHECK_DEADLOCK FALSE`): each of these systems stops when its callers are done.

### The four violations

* `stream_whole`: the terminator is read, `for await` releases the body, the release
  rejects, and the whole, billed answer is recorded as a retryable transport failure
  (`stream.ts:614`, `831-838`) against the rule of `stream.ts:654-656`.
* `translate_stop`: the body ends without its terminator and the translator closes the
  stream with a `stop` nobody said (`chat.ts:1745`, `1588`), against `chat.ts:792-795`.
* `video_abort`: an abort that lands in the sleep of `waitForVideo` has no cause
  (`multimodal.ts:805-807`), so `isRetryable` calls it retryable, against `errors.ts:510`.
* `support_overlap`: a `Memory` per request (`agent.ts:63` of the support agent) is
  exactly the unserialized read-modify-write that `memory.ts:160-166` warns of.

### Fairness

* `Memory`: the store answers in the end (`WF` of the answers to the operation whose
  turn it is). The code has no timeout of its own and needs the store's.
* `StreamReader`: the body says something or fails, because `client.ts` fails a body
  that is silent for `bodyIdleTimeoutMs`; an accessor goes on draining. A loop owes
  nothing, it may hold a chunk for ever; `EveryAccessorSettles` holds all the same.
* `RunTools`: a request answers or fails (the request timeout of `client.ts`); tools
  and `stopWhen` return, which is the caller's to promise.
* `ClientCalls`: the vendor client and the SDK run on, a request has a deadline before
  its headers come (`DEFAULT_REQUEST_TIMEOUT_MS`), the idle timer fires, and the clock
  ticks. Nothing is asked of the gateway, of the video job or of the caller: that every
  call settles all the same is what `EveryCallSettles` shows.
* `SupportChat`: the gateway and the store answer, a consumer that has not cancelled
  goes on pulling.
* `KnowledgeIndex`: a request and a write settle, so the build goes on.
* `TranslatedStream`, `MCFunctions`: safety only, no fairness.

## 4. The proofs

Checked by TLAPS for every value of the constants (the bounds included).

* `Memory_proofs` - what the window of a history is (`WindowUsesWholeBudget`), type correctness, the two properties of `memory.cfg` and
  the three invariants `TurnsAreKept` is made of, and `MemoryImplementsLog`. None of the
  invariants is inductive: a turn can only be lost by a save of an array that is older
  than the store. What carries them is `Chained` (the settled calls are a prefix of the
  chain, so at most one call stands between its load and its save) and `LoadedInv` (that
  call holds a copy of what the store still holds, sorted and older than itself). With it
  each save is an append, and each step maps to a step of the log or to a stutter.
* `StreamReader_proofs` - type correctness, `QueuedOnce`, `AnswersAreWhole`, the two
  action properties on aborts, and the refinement of `StreamAnswer`. The inductive
  invariant is the type invariant, `QueuedOnce`, `Judged` (the verdict and the record
  of why the generator ended agree with its place, and nothing is answered before it
  closed) and `Accounted` (the text read and the deltas of the chunk in hand are the
  deltas sent).
* `KnowledgeIndex_proofs` - type correctness, the three invariants and the action
  property of `knowledge.cfg`, for any corpus, batch size and guardrail. What carries
  them: between two batches the index is exactly what is kept of the chunks up to `at`
  (`KeptSoFar`), every blocked chunk up to there belongs to a skipped document
  (`RefusedSoFar`), and in a refused batch each chunk is still to be tried, embedded or
  of a refused document (`Tried`).

* `RunTools_proofs` - type correctness, `CeilingHolds`, `TextIsTheRunsOwn`,
  `CostCoversTheRun` and `ConversationIsWellFormed`. What carries them: `OwnTurns` (the
  turns of this run are those behind its seed, and no others), `Linked` (a result stands
  where a call has it, for whatever was fed in from the runs before) and `Owes` (only the
  calls of the last answer are without results, and only while its tools run).
  The half of `ConversationIsWellFormed` about the Messages wire, `ReplayIsFaithful`, is
  shown for any conversation that is `Linked`: `FlatInOrder` says which entry of a
  `FlattenSeq` is which, so that what is said, called and answered in a sequence of turns
  is that of its turns one behind the other (`IdsConcat`); `MergedInOrder` unrolls
  `MergeAdjacentRoles` and with `JoinedCases` shows that the merged turns alternate and
  say what the turns said; and `AnsweredBut`, which `Joined` keeps, says that every call
  but those of the turn the merge is at has its results at the start of the next one.
  `ConversationIsKept` and `AnswerIsReplayed` are about conversations no loop made: turns
  of any roles, contents and calls in any order. A row of what its turns become (`Flat`)
  grows with every turn (`FlatGrows`), so that what two rows hold can be compared turn by
  turn (`FlatOfFlat`): `TranslatedSays` for the turns, `SystemSays` for the system prompt,
  `MergedEnds` for the images behind the last turn.
* `ClientCalls_proofs` - type correctness, `OnePostPerCall`, `CompareKeepsPaidAnswers`,
  and the action properties `KeyIsLive` and `FailureIsWhatHappened`, for any set of calls and
  keys, any retries, timeouts and intervals. What carries them: per call, the requests
  that left and those it still may make are within what `raw` gives it, and its timer and its
  silence make up the idle timeout (`Good`); a client has one layer over `fetch`, its own
  (`LayersInv`), which is why an old key cannot be pinned over the live one.
* `SupportChat_proofs` - type correctness, `DoneEndsTheStream`,
  `RememberedWasDelivered`, `SessionIsTheDialogue`, for any number of requests and tokens.
  The events a request has emitted are of one of five shapes by where it is (`StreamInv`);
  what it keeps of its answer is what it showed, a token for each, those of a blocked
  attempt in front (`TextInv`); every answer in the store or in a copy of it is that text
  and has had its cost (`DeliveredInv`), overlap or not; and until two requests overlap the store is a dialogue whose last turn is the
  question of the one request in it (`SessionInv`), which overlap breaks, as
  `support_overlap` shows.
* `TranslatedStream_proofs` - `TranslationIsAStream` for answers of any length, cut
  anywhere: one terminator and the errors that are members of their frames for either wire,
  the order of role, reason and usage for the Anthropic one, since frames of the OpenAI wire
  pass as they are and the translator adds a role and a reason of its own. The invariant says what the line that has not ended may hold in each
  phase of the answer (`SourceInv`), and of the translator that its role, its reason, its
  usage and its terminator are sent in this order and once (`Final`, `Ordered`), whichever
  frames it is fed. That such an error fails the reader behind the translator is
  an induction over the frames that reader folds. `AnswerIsReassembled` and
  `WholeAnswersEndAlike` rest on `AnswerInv`, about the two readers once each has read the
  last line, unrolled by `OneMoreRead`: they have heard the same text, and the same verdict but for an
  error that only its label tells of (`HeardInv`, `Told`), their slots in the order of the keys are the calls the model made
  (`CallsInv`: no two slots are one call, and the translator knows the slot of every block,
  `Keyed`, `Maps`, `Places`), and the reason and the figures are the ones counted
  (`EndInv`). That a set of slots has one order only is `OneOrder`.
* `MCFunctions_proofs` - four of the pure functions, for every input a caller could give
  and not only for the ones the run enumerates: `WindowIsNewest` (any history, limit and
  choice), `RequestsAreKept` (any numbers and names of tools; `IsRequest` says what is
  asked of the options) and `BackoffHonoursTheServer` (any attempt, base, jitter and
  time; the delay that doubles is a recursive function, unrolled by `GrowsOn`). The
  properties of the run follow, with one lemma per set of inputs that says they are such,
  `ConversationSurvivesTheWire` from the theorems of `RunTools_proofs`: its instance of the
  wire and the one of the chat call are the same operators (`OneWire`, `OneRequest`).

Assumptions: only those on the constants, named in the modules that declare them. The
bounds are constants too, so a theorem holds for every value of each bound.

Two techniques the proofs share. The library's induction theorems take an operator and
cannot be used; `LeastNatural` (a set of naturals that is not empty has a least member,
from the well-foundedness of the naturals) takes their place. A `FoldLeft` is unrolled
with it one step at a time (`IterationExists`, `ReadInOrder`).

Only model-checked:

* liveness under fairness, and anything about ENABLED, out of the prover's reach
  (`EveryCallSettles`, `EveryAccessorSettles`, `EveryRunEnds`, `EveryRequestEnds`,
  `BuildEnds`);
* the properties of `functions` but the four above. They compare folds, filters and
  parsers of data with what their docs promise, one input at a time.

## 5. Where the code is at odds with itself or its docs

Beside the four violations, met while modelling and left as they are. The models do what
the code does, and the properties say no more than what then holds.

Loops and streams

* A build with `skipBlocked` off names the documents of the first refused batch only
  (`build.ts:102-109`; `types.ts:79-81` promises every one).
* A window of one turn drops the leading message that `preserveSystem` promises to keep
  (`memory.ts:141`, `78`).
* A run that `stopWhen` ends has the text `''` although the model spoke (`agent.ts:203-213`).
* Steps, messages and cost of a run are lost when `runChat` rejects in a later step
  (`agent.ts:166`). A malformed tool call is filtered out of the calls to run but stays in
  the turn that is pushed (`agent.ts:324`), so that it has no result.
* The retry of the support agent appends to the `fullResponse` of the blocked attempt
  (`agent.ts:133`), whose tokens were shown: the turn that is stored is both
  (`agent.ts:158`). `RememberedWasDelivered` says that it is what was shown, and no more.
* The direct reader of the Messages wire leaves the cache counters out of its usage; the
  translator drops an `input_json_delta` without an index when its start had one. A reason
  `length` of a stream on the OpenAI wire becomes `stop` behind the translator.
* An error that only the line `event: error` tells of, its data without an `error` member
  or with a blank one, fails the direct reader (`stream.ts:885-896`, `931`). The translator
  reads no `event:` line (`chat.ts:1738`): such data is dropped, or goes on without its
  label where it is no JSON or has the blank member (`chat.ts:1617-1626`), and the stream
  is closed with a reason and `[DONE]`. `TranslationIsAStream` is about the other errors.
* A stream of the OpenAI wire comes out of the translator with a second chunk that has a
  role and a second reason, before its `[DONE]` (`chat.ts:1578-1589`, `1610`).

Requests

* An assistant turn with tool calls whose content is a list loses its text on the
  Messages wire.
* `extra.n` of an image call is not held against the bound of `n`; multipart forms drop a
  reserved name of `extra` even where the named option is unset.
* `mergeHeaders` keeps two spellings of one name apart, so that a value set for an earlier
  `fetch` can lose to the other spelling in the request, which comes later
  (`client.ts:334`), and does not know the branded bag of the vendor client; `withTraceContext` keeps a differently spelled trace header
  beside its own; `extractNRouterHeaders` drops lists, and the unknown names of a bag that has only `get`.
* Of a record with two spellings of a name, `meta.ts` takes the last and the other
  readers the first; `contentTypeOf` finds the lower-case one only.
* Masking reaches neither host tool results within a run (`types.ts:219`) nor the question
  of a web search (`README.md:52` of the agent). With masking off, the question is still
  looked up masked: `retrieve` passes no `maskPii` to `embed` (`retrieval.ts:15-21`,
  `client.ts:27`), although `README.md:76` of the agent turns it off for both.
* `--dimensions` that is no number, or 0, builds with 768 and exit code 0 (`cli.ts:40`,
  `build.ts:14`).
* `get('.')` passes the check of a blank id (`models.ts:168`) and reaches the list, since a
  URL drops the component; `..`, as a model or as the name of an MCP server, leaves its
  mount (`models.ts:84`, `mcp.ts:17`, `40`).
* Limits set to `undefined` are refused and not defaulted; feedback of over 2000 characters
  is refused even where `maxMessageChars` is raised.

Answers

* A 402 with a limit header `plan_*` and a text starting with "budget" is a credit failure
  for chat and JSON and `budget_exceeded` for media. A plain-text error body is classified by media and
  JSON calls and not by a chat read directly; behind the vendor client all agree.
* A 2xx JSON value that is no object, a list or a string, is `transport` and so worth another
  try for chat and JSON, `other` for media. A 2xx `{"error": {"code": ...}}` without a message
  is an answer for chat and media (`errors.ts:812-813`).
  Failures of `json.ts` carry no Retry-After. An in-band stream error with a bare top-level code
  is not read. JSON-RPC errors with a message are raised before `mcp.ts:129` and lose their code.
* The capabilities of a model are overwritten by its raw body (`models.ts:98`); a null in the
  list of models throws in `ids()`, and a blank id is listed that `get()` refuses.
* `sanitizeCause` keeps no class name and no code, so that an abort known by them alone, or
  one at the last depth that is kept, is lost when it is caused again. An abort before the
  response, and a transport error of another copy of the SDK, lose their code in `toSafeError`.
* `money()` reads `0e5` as unknown; `diagnoseReasoningExhaustion` blames reasoning where none
  was reported but output was counted; a text of white space is fine for
  `chatTextDiagnostic` and empty for `parsed`. A tool run that cost exactly nothing is
  shown as 0, a streamed answer as unpriced.

Pages and pieces

* A stray `<` swallows text up to the next inline tag and shields the element behind it from being
  stripped; nested elements of one name end at the first close; `</nav` matches `</navbar`
  (`fetch.ts:80-83`, `112`).
* Files `x.md` and `x.mdx` get one url, so that the build fails as an invalid index after it has
  paid for the embeddings. Front matter `audiences` that are not of the form `[a, b]` are ignored.

## 6. What is not modelled

* Contents: wording, bytes, UTF-8 and SSE framing. A frame is what `interpret` makes
  of it; that chunk boundaries do not change the frames is not shown.
* In `Memory`, the options of `createMemory` are folded into the limit of a call, and
  `preserveSystem` is the default; a turn that `add` refuses before it is queued
  changes nothing and is no action.
* In `RunTools`, tool calls that are malformed are not counted; images of the seed are
  part of its user turn.
* In `SupportChat`, hooks (fire and forget; a rejected asynchronous `onError` is not
  handled by the code) and the tool loop inside an attempt (it is `RunTools`).
* In `KnowledgeIndex`, `onSkip` is taken to return; that the temporary file has a
  name of its own is taken for granted (it is random).
* In `ClientCalls`, the vendor client is what the code relies on: it sends, retries up to
  `maxRetries`, has a deadline before the headers, and raises; the backoff between its
  retries is not timed.
* Of `errors.ts` the wording, redaction and formatting; of `pii.ts` the patterns; of
  `prompt.ts` the wording; of `cli.ts` the output; of `mcp.ts` the JSON-RPC envelope beyond
  what its readers accept. Which addresses `isSafeUrl` accepts is a constant.
* The other nine SDKs are ports of the contract modelled here; conformance, scripts, the
  specification and the demos are static checks, live probes and examples.

## 7. Plan

1. Proofs of more operators: `GatewayAnswers`, `ChatAnswer`, `MediaRequests`.
2. `splitEvents`: that the frames do not depend on the boundaries of the chunks.
3. The Python SDK: its stream and its memory against `StreamAnswer` and `ConversationLog`.
