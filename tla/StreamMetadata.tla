--------------------------- MODULE StreamMetadata ---------------------------
(***************************************************************************)
(* What a stream reader assembles out of the frames of either wire:        *)
(* interpret, extractDelta, absorbMetadata and its helpers of              *)
(* sdks/js/src/stream.ts.                                                  *)
(*                                                                         *)
(* A frame is a record named by `type`.  A field that may be missing is a  *)
(* set of at most one element; a piece of text or of the arguments of a    *)
(* call is a number, and what is assembled out of pieces their sequence.   *)
(* The name of a call travels with its id.                                 *)
(***************************************************************************)
EXTENDS Naturals, Sequences, SequencesExt, FiniteSetsExt, TLC

NoFigures == [input |-> {}, created |-> {}, read |-> {}, output |-> {}]

\* The frames of the Anthropic wire.
MessageStart(usage)     == [type |-> "message_start", usage |-> usage]
BlockStart(index, kind, id) ==
  [type |-> "content_block_start", index |-> index, kind |-> kind, id |-> id]
TextDelta(piece)        == [type |-> "text_delta", piece |-> piece]
JsonDelta(index, piece) == [type |-> "input_json_delta", index |-> index, piece |-> piece]
MessageDelta(stop, usage) == [type |-> "message_delta", stop |-> stop, usage |-> usage]
MessageStop             == [type |-> "message_stop"]

\* The frames of the OpenAI wire, and those either wire may carry: an error that is a
\* member of its frame; one that only the line `event: error` tells of, whose data is
\* JSON without such a member, or (`kept`) no JSON or with a blank one; and a frame
\* cut in the middle, which is no JSON.
Fragment(index, id, pieces) == [index |-> index, id |-> id, pieces |-> pieces]
NoDelta           == [role |-> FALSE, text |-> <<>>, calls |-> <<>>]
Chunk(delta, finish) == [type |-> "chunk", delta |-> delta, finish |-> finish]
UsageChunk(usage) == [type |-> "usage", usage |-> usage]
Done              == [type |-> "[DONE]"]
Error             == [type |-> "error"]
Labelled(kept)    == [type |-> "labelled", kept |-> kept]
Torn              == [type |-> "torn"]

-----------------------------------------------------------------------------
\* StreamState, and how the reader ended: "open", "whole" or "failed".
Nothing ==
  [text |-> <<>>, slots |-> <<>>, finish |-> {}, prompt |-> {}, completion |-> {},
   verdict |-> "open"]

Over(new, old) == IF new # {} THEN new ELSE old

Slot(state, index) ==
  IF index \in DOMAIN state.slots THEN state.slots[index] ELSE [id |-> {}, args |-> <<>>]

\* Map.set.
Put(map, key, value) == [k \in DOMAIN map \cup {key} |-> IF k = key THEN value ELSE map[k]]

\* toolSlot and what is written to it.
Fill(state, index, id, pieces) ==
  LET slot == Slot(state, index)
  IN  [state EXCEPT !.slots =
         Put(@, index, [id |-> Over(id, slot.id), args |-> slot.args \o pieces])]

LastOpened(state) == Max(DOMAIN state.slots)   \* where a slot is open

\* Mutant of UnindexedSlot: the next slot, for a fragment of the call that is open too.
UnindexedSlotBySize(state, id) == Cardinality(DOMAIN state.slots)

\* unindexedToolSlot: the slot opened last, unless the fragment announces another id.
UnindexedSlot(state, id) ==
  IF state.slots = <<>> THEN 0
  ELSE IF id # {} /\ id # state.slots[LastOpened(state)].id
       THEN LastOpened(state) + 1
       ELSE LastOpened(state)

AbsorbFragment(state, fragment) ==
  LET index == IF fragment.index # {} THEN Max(fragment.index)
               ELSE UnindexedSlot(state, fragment.id)
  IN  Fill(state, index, fragment.id, fragment.pieces)

AbsorbChunk(state, chunk) ==
  LET filled == FoldLeft(AbsorbFragment, state, chunk.delta.calls)
  IN  [state EXCEPT !.slots = filled.slots, !.text = @ \o chunk.delta.text,
                    !.finish = Over(chunk.finish, @)]

\* The figure of a message_start that counts output is a placeholder.
AbsorbStart(state, frame) ==
  [state EXCEPT !.prompt = Over(frame.usage.input, @)]

AbsorbEnd(state, frame) ==
  [state EXCEPT !.finish = Over(frame.stop, @), !.prompt = Over(frame.usage.input, @),
                !.completion = Over(frame.usage.output, @)]

AbsorbBlock(state, frame) ==
  IF frame.kind # "tool_use" THEN state
  ELSE LET index == IF frame.index # {} THEN Max(frame.index)
                    ELSE Cardinality(DOMAIN state.slots)
       IN  Fill(state, index, frame.id, <<>>)

\* A fragment of a call no slot was opened for is left.
AbsorbJson(state, frame) ==
  LET indexes == IF frame.index # {} THEN frame.index
                 ELSE IF state.slots = <<>> THEN {} ELSE {LastOpened(state)}
  IN  IF indexes \cap DOMAIN state.slots = {} THEN state
      ELSE Fill(state, Max(indexes), {}, <<frame.piece>>)

AbsorbUsage(state, frame) ==
  [state EXCEPT !.prompt = {frame.usage.prompt}, !.completion = {frame.usage.completion}]

Absorb(state, frame) ==
  CASE frame.type = "chunk"               -> AbsorbChunk(state, frame)
    [] frame.type = "usage"               -> AbsorbUsage(state, frame)
    [] frame.type = "message_start"       -> AbsorbStart(state, frame)
    [] frame.type = "content_block_start" -> AbsorbBlock(state, frame)
    [] frame.type = "text_delta"          -> [state EXCEPT !.text = Append(@, frame.piece)]
    [] frame.type = "input_json_delta"    -> AbsorbJson(state, frame)
    [] frame.type = "message_delta"       -> AbsorbEnd(state, frame)

\* interpret: a frame that ends the stream, one that fails it, one that is skipped.
Read(state, frame) ==
  CASE state.verdict # "open" \/ frame.type = "torn"  -> state
    [] state.verdict = "open" /\ frame.type \in {"[DONE]", "message_stop"} ->
         [state EXCEPT !.verdict = "whole"]
    [] state.verdict = "open" /\ frame.type \in {"error", "labelled"} ->
         [state EXCEPT !.verdict = "failed"]
    [] OTHER -> Absorb(state, frame)

ReadAll(frames) == FoldLeft(Read, Nothing, frames)

\* The tail of a body that ended: its text counts, nothing else does; and a body
\* that ended without its terminator failed.
ReadTail(state, frames) ==
  LET read == FoldLeft(Read, state, frames)
  IN  IF read.verdict = "open"
      THEN [state EXCEPT !.text = read.text, !.verdict = "failed"]
      ELSE [state EXCEPT !.verdict = read.verdict]

\* toolCalls(): in the order of the slots.
Calls(state) ==
  LET count == Cardinality(DOMAIN state.slots)
      order == CHOOSE s \in [1..count -> DOMAIN state.slots] :
                 \A k, l \in 1..count : k < l => s[k] < s[l]
  IN  [k \in 1..count |-> state.slots[order[k]]]
=============================================================================
