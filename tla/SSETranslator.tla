---------------------------- MODULE SSETranslator ----------------------------
(***************************************************************************)
(* createAnthropicSSETranslator of sdks/js/src/chat.ts: the frames of the  *)
(* Anthropic wire, one line at a time, become the frames an OpenAI parser  *)
(* reads.  A translator is a record; `out` is what it enqueued.            *)
(***************************************************************************)
EXTENDS StreamMetadata

Answer == INSTANCE ChatAnswer

NewTranslator ==
  [role |-> FALSE, finish |-> FALSE, done |-> FALSE, input |-> NoFigures,
   output |-> NoFigures, reason |-> {}, slots |-> <<>>, next |-> 0, out |-> <<>>]

Enqueue(t, frame) == [t EXCEPT !.out = Append(@, frame)]

EmitRoleOnce(t) ==
  IF t.role THEN t
  ELSE Enqueue([t EXCEPT !.role = TRUE], Chunk([NoDelta EXCEPT !.role = TRUE], {}))

EmitDelta(t, delta) == Enqueue(EmitRoleOnce(t), Chunk(delta, {}))

EmitFinishOnce(t) ==
  IF t.finish THEN t
  ELSE Enqueue(EmitRoleOnce([t EXCEPT !.finish = TRUE]),
               Chunk(NoDelta, IF t.reason # {} THEN t.reason ELSE {"stop"}))

\* Mutant of Counted: the figures of the message_delta replace those of the start.
CountedAtTheEnd(t) == Answer!Usage(t.output)

\* The two usage blocks in one, a figure of the later over one of the earlier.
Counted(t) ==
  Answer!Usage([f \in DOMAIN NoFigures |-> Over(t.output[f], t.input[f])])

EmitUsage(t) ==
  IF Counted(t) = {} THEN t
  ELSE Enqueue(t, UsageChunk(CHOOSE usage \in Counted(t) : TRUE))

\* Mutant of EmitTerminal: it is sent again when the stream is flushed.
EmitTerminalAgain(t) == Enqueue([EmitUsage(EmitFinishOnce(t)) EXCEPT !.done = TRUE], Done)

EmitTerminal(t) ==
  IF t.done THEN t
  ELSE Enqueue([EmitUsage(EmitFinishOnce(t)) EXCEPT !.done = TRUE], Done)

Index(frame) == IF frame.index # {} THEN Max(frame.index) ELSE 0

TranslateBlock(t, frame) ==
  IF frame.kind # "tool_use" THEN t
  ELSE EmitDelta([t EXCEPT !.slots = Put(@, Index(frame), t.next), !.next = @ + 1],
                 [NoDelta EXCEPT !.calls = <<Fragment({t.next}, frame.id, <<>>)>>])

\* Mutant of TranslateJson: the slot is the index of the block.
TranslateJsonByBlock(t, frame) ==
  EmitDelta(t, [NoDelta EXCEPT !.calls = <<Fragment({Index(frame)}, {}, <<frame.piece>>)>>])

TranslateJson(t, frame) ==
  IF Index(frame) \notin DOMAIN t.slots THEN t
  ELSE EmitDelta(t, [NoDelta EXCEPT !.calls =
                       <<Fragment({t.slots[Index(frame)]}, {}, <<frame.piece>>)>>])

TranslateEnd(t, frame) ==
  EmitFinishOnce([t EXCEPT !.reason = Over(Answer!FinishOf(frame.stop), @),
                           !.output = frame.usage])

\* Mutant of Relay: an error is taken for a frame nobody asked for.
RelayNoError(t, frame) ==
  IF frame.type \in {"error", "labelled"} THEN t ELSE Enqueue(t, frame)

\* What is no JSON, an `error` member and what is an OpenAI frame already go on as they
\* are.  No `event:` line does: an error that only the line tells of is dropped, or
\* goes on as data a reader skips.
Relay(t, frame) ==
  IF frame.type # "labelled" THEN Enqueue(t, frame)
  ELSE IF frame.kept THEN Enqueue(t, Torn) ELSE t

\* handleData.
HandleData(t, frame) ==
  CASE frame.type = "[DONE]"              -> EmitTerminal(t)
    [] frame.type \in {"torn", "error", "labelled", "chunk", "usage"} -> Relay(t, frame)
    [] frame.type = "message_start"       -> EmitRoleOnce([t EXCEPT !.input = frame.usage])
    [] frame.type = "content_block_start" -> TranslateBlock(t, frame)
    [] frame.type = "text_delta" -> EmitDelta(t, [NoDelta EXCEPT !.text = <<frame.piece>>])
    [] frame.type = "input_json_delta"    -> TranslateJson(t, frame)
    [] frame.type = "message_delta"       -> TranslateEnd(t, frame)
    [] frame.type = "message_stop"        -> EmitTerminal(t)

\* flush: the line that was left without its end, then the terminator in any case.
Flush(t, rest) == EmitTerminal(IF rest = <<>> THEN t ELSE HandleData(t, Last(rest)))
=============================================================================
