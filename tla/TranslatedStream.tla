-------------------------- MODULE TranslatedStream --------------------------
(***************************************************************************)
(* One answer streamed by a provider and read twice: by the reader of      *)
(* sdks/js/src/stream.ts as it comes, and by the same reader behind        *)
(* createAnthropicSSETranslator of sdks/js/src/chat.ts.                    *)
(*                                                                         *)
(* The provider (external) speaks either wire, numbers its blocks and calls*)
(* or does not, and may interleave the fragments of numbered calls.  A     *)
(* frame is in the last line of the buffer until the line ends; the        *)
(* connection may end at any moment, with that line lost, torn or whole.   *)
(***************************************************************************)
EXTENDS SSETranslator

CONSTANTS
  MaxBlocks,     \* bound: texts and calls of an answer
  MaxPieces,     \* bound: pieces of text and arguments
  Usages         \* what the provider may count

ASSUME MaxBlocksAssumption == MaxBlocks \in Nat
ASSUME MaxPiecesAssumption == MaxPieces \in Nat
\* A provider that counts counts the output at the end: stream.ts, "message_delta
\* carries the real output_tokens".
ASSUME UsagesAssumption ==
  \A u \in Usages :
    u \in [DOMAIN NoFigures -> SUBSET Nat] /\ (u = NoFigures \/ u.output # {})

Wires == {"anthropic", "openai"}

VARIABLES
  wire,          \* which wire, and whether it numbers what it sends
  counted,       \* what the answer counts
  blocks,        \* the answer so far: "text", or the position of a call
  words,         \* the pieces of its text
  calls,         \* its calls
  phase,         \* "start", "answer", "stopped", "counted", then how it ended:
                 \* "whole", "failed" or "cut"
  stop,          \* why the model stopped
  source,        \* the frames that were sent
  taken,         \* how many of them arrived with the end of their line
  rest,          \* what was left of the last line when the body ended
  tr             \* the translator, which took every line that ended

vars == <<wire, counted, blocks, words, calls, phase, stop, source, taken, rest, tr>>

Ended   == {"whole", "failed", "cut"}
Pieces  == Len(words) + FoldLeft(LAMBDA n, call : n + Len(call.args), 0, calls)
Pending == SubSeq(source, taken + 1, Len(source))
Claude  == wire.api = "anthropic"

Init ==
  /\ wire \in [api : Wires, numbered : BOOLEAN]
  /\ counted \in Usages
  /\ blocks = <<>> /\ words = <<>> /\ calls = <<>>
  /\ phase = IF wire.api = "anthropic" THEN "start" ELSE "answer"
  /\ stop = {} /\ source = <<>> /\ taken = 0 /\ rest = <<>> /\ tr = NewTranslator

-----------------------------------------------------------------------------
\* transform(): the end of the line of the frame in the buffer arrives.
Transform ==
  /\ phase \notin Ended /\ taken < Len(source)
  /\ tr' = HandleData(tr, Last(source)) /\ taken' = Len(source)
  /\ UNCHANGED <<wire, counted, blocks, words, calls, phase, stop, source, rest>>

\* A frame is sent once the line before it has ended.
Send(frame) ==
  /\ taken = Len(source)
  /\ source' = Append(source, frame)
  /\ UNCHANGED <<wire, counted, taken, rest, tr>>

Number(n) == IF wire.numbered THEN {n} ELSE {}

Start ==
  /\ phase = "start" /\ phase' = "answer"
  /\ Send(MessageStart(IF counted = NoFigures THEN counted ELSE [counted EXCEPT !.output = {1}]))
  /\ UNCHANGED <<blocks, words, calls, stop>>

OpenText ==
  /\ phase = "answer" /\ Claude /\ Len(blocks) < MaxBlocks
  /\ Send(BlockStart(Number(Len(blocks)), "text", {}))
  /\ blocks' = Append(blocks, "text")
  /\ UNCHANGED <<words, calls, phase, stop>>

Speak ==
  /\ phase = "answer" /\ Pieces < MaxPieces
  /\ Claude => blocks # <<>> /\ Last(blocks) = "text"
  /\ Send(IF Claude THEN TextDelta(Pieces)
          ELSE Chunk([NoDelta EXCEPT !.text = <<Pieces>>], {}))
  /\ words' = Append(words, Pieces)
  /\ UNCHANGED <<blocks, calls, phase, stop>>

\* A call is opened; it has an id, unless it is the first of an OpenAI wire.
OpenCall(id) ==
  /\ phase = "answer" /\ Len(blocks) < MaxBlocks
  /\ Send(IF Claude THEN BlockStart(Number(Len(blocks)), "tool_use", id)
          ELSE Chunk([NoDelta EXCEPT !.calls = <<Fragment(Number(Len(calls)), id, <<>>)>>], {}))
  /\ blocks' = Append(blocks, "call")
  /\ calls' = Append(calls, [id |-> id, args |-> <<>>])
  /\ UNCHANGED <<words, phase, stop>>

Ids == {{Len(calls) + 1}} \cup (IF ~Claude /\ calls = <<>> THEN {{}} ELSE {})

\* Two whole calls in one chunk of the OpenAI wire.
OpenTwoCalls ==
  /\ phase = "answer" /\ ~Claude /\ Len(blocks) + 2 <= MaxBlocks /\ Pieces + 2 <= MaxPieces
  /\ LET n    == Len(calls)
         made == <<Fragment(Number(n), {n + 1}, <<Pieces>>),
                   Fragment(Number(n + 1), {n + 2}, <<Pieces + 1>>)>>
     IN  /\ Send(Chunk([NoDelta EXCEPT !.calls = made], {}))
         /\ calls' = calls \o [k \in 1..2 |-> [id |-> made[k].id, args |-> made[k].pieces]]
  /\ blocks' = blocks \o <<"call", "call">>
  /\ UNCHANGED <<words, phase, stop>>

\* The position among the blocks of the k-th call, from 0.
BlockOf(k) ==
  Min({ b \in 1..Len(blocks) :
          blocks[b] = "call" /\ Cardinality({ c \in 1..b : blocks[c] = "call" }) = k }) - 1

\* The next piece of the arguments of a call, of the latest one where nothing tells
\* which; the OpenAI wire may repeat the id of the call.
Argue(k, again) ==
  /\ phase = "answer" /\ Pieces < MaxPieces
  /\ wire.numbered \/ k = Len(calls)
  /\ Send(IF Claude THEN JsonDelta(Number(BlockOf(k)), Pieces)
          ELSE Chunk([NoDelta EXCEPT !.calls =
                        <<Fragment(Number(k - 1), IF again THEN calls[k].id ELSE {}, <<Pieces>>)>>], {}))
  /\ calls' = [calls EXCEPT ![k].args = Append(@, Pieces)]
  /\ UNCHANGED <<blocks, words, phase, stop>>

Stop(reason) ==
  /\ phase = "answer" /\ phase' = "stopped" /\ stop' = {reason}
  /\ Send(IF Claude THEN MessageDelta({reason}, [NoFigures EXCEPT !.output = counted.output])
          ELSE Chunk(NoDelta, Answer!FinishOf({reason})))
  /\ UNCHANGED <<blocks, words, calls>>

\* The OpenAI wire counts in a chunk of its own.
Count ==
  /\ phase = "stopped" /\ ~Claude /\ \E u \in Answer!Usage(counted) : Send(UsageChunk(u))
  /\ phase' = "counted"
  /\ UNCHANGED <<blocks, words, calls, stop>>

Terminate ==
  /\ phase \in {"stopped", "counted"} /\ phase' = "ending"
  /\ Send(IF Claude THEN MessageStop ELSE Done)
  /\ UNCHANGED <<blocks, words, calls, stop>>

\* The gateway cuts the answer with an error; its own is a member of the frame and
\* labelled as well, an upstream's may be labelled only.
Refuse ==
  /\ phase \in {"start", "answer", "stopped"} /\ phase' = "failing"
  /\ \E frame \in {Error, Labelled(TRUE), Labelled(FALSE)} : Send(frame)
  /\ UNCHANGED <<blocks, words, calls, stop>>

\* flush(): the body ends, with nothing, a part or all of the line that had not
\* ended.
Close(left) ==
  /\ phase \notin Ended
  /\ rest' = left /\ tr' = Flush(tr, left)
  /\ phase' = IF phase = "ending" /\ left = Pending THEN "whole"
              ELSE IF phase = "failing" /\ left = Pending THEN "failed" ELSE "cut"
  /\ UNCHANGED <<wire, counted, blocks, words, calls, stop, source, taken>>

Lefts == {Pending} \cup (IF Pending = <<>> THEN {} ELSE {<<>>, <<Torn>>})

Provide ==
  \/ Start \/ OpenText \/ Speak \/ OpenTwoCalls \/ Count \/ Terminate \/ Refuse
  \/ \E id \in Ids : OpenCall(id)
  \/ \E k \in 1..Len(calls), again \in BOOLEAN : Argue(k, again)
  \/ \E reason \in {"end_turn", "max_tokens", "tool_use"} : Stop(reason)

Next == Provide \/ Transform \/ \E left \in Lefts : Close(left)

Spec == Init /\ [][Next]_vars

-----------------------------------------------------------------------------
\* The reader without a translator: the last line is its tail when the body ends.
Direct ==
  LET read == ReadAll(SubSeq(source, 1, taken))
  IN  IF phase \in Ended THEN ReadTail(read, rest) ELSE read

Translated == ReadAll(tr.out)

-----------------------------------------------------------------------------
\* Both readers assemble the text and the calls of the answer as the model made
\* them, whatever the wire, its numbering and the interleaving of fragments: no call
\* is split over two slots, no two are joined, and no piece is lost or moved.
AnswerIsReassembled ==
  phase = "whole" \/ (phase \notin Ended /\ taken = Len(source)) =>
    \A reader \in {Direct, Translated} :
      reader.text = words /\ Calls(reader) = calls

\* An answer of the Anthropic wire that arrived whole is whole for both readers, ends
\* for the same reason for both, and the translated one is billed for everything that
\* was counted.
WholeAnswersEndAlike ==
  phase = "whole" /\ Claude =>
    /\ {Direct.verdict, Translated.verdict} = {"whole"}
    /\ Translated.finish = Answer!FinishOf(stop) /\ Direct.finish = stop
    /\ \A u \in Answer!Usage(counted) :
         Translated.prompt = {u.prompt} /\ Translated.completion = {u.completion}
    /\ Answer!Usage(counted) = {} => Translated.prompt \cup Translated.completion = {}

Is(type) == { i \in 1..Len(tr.out) : tr.out[i].type = type }

\* What leaves the translator has one terminator, which is last and always sent, and
\* an error that is a member of its frame is an error still; of either wire.  Of the
\* Anthropic wire it is a stream an OpenAI parser accepts: a role before anything that
\* is said, one reason to finish after it, and the usage after that.  (What an OpenAI
\* wire says of these goes on, and emitTerminal adds a role and a reason of its own.)
TranslationIsAStream ==
  /\ Cardinality(Is("[DONE]")) = (IF phase \in Ended \/ tr.done THEN 1 ELSE 0)
  /\ Is("[DONE]") \subseteq {Len(tr.out)}
  /\ phase = "failed" /\ Last(source) = Error => Translated.verdict = "failed"
  /\ Claude =>
       /\ \A i \in Is("chunk") : tr.out[i].delta.role <=> i = Min(Is("chunk"))
       /\ \A i, j \in Is("chunk") : tr.out[i].finish # {} => j <= i
       /\ \A i \in Is("usage"), j \in Is("chunk") : j < i

\* chat.ts on toFinishReason: "a caller shown `stop` bills for a cut-off reply
\* believing it complete".  Who is shown text of an answer that stopped has all of it.
StopIsTheModelsOwn ==
  Translated.text # <<>> /\ Translated.verdict = "whole" /\ Translated.finish = {"stop"} =>
    stop # {} /\ Answer!FinishOf(stop) = {"stop"}
=============================================================================
