-------------------------- MODULE AnthropicMessages --------------------------
(***************************************************************************)
(* The conversation of a chat call on the Anthropic Messages wire:         *)
(* buildMessages of sdks/js/src/options.ts, the message half of            *)
(* toAnthropicMessagesRequest and the way back, toOpenAIChatCompletion, of *)
(* sdks/js/src/chat.ts.                                                    *)
(*                                                                         *)
(* A part of a message is its kind and an identity that tells it from the  *)
(* others.  A string is its one text part, the empty string none, so that  *)
(* asBlocks is the identity on what is kept here.                          *)
(***************************************************************************)
EXTENDS Naturals, Sequences, SequencesExt

Part(kind, id)         == [kind |-> kind, id |-> id]
Content(shape, parts)  == [shape |-> shape, parts |-> parts]  \* "string", "array", "null"
Null                   == Content("null", <<>>)
Turn(role, content, calls, answers) ==
  [role |-> role, content |-> content, calls |-> calls, answers |-> answers]

NoId      == <<>>    \* a tool turn without a tool_call_id
LeadRoles == {"system", "developer"}
Speakers  == {"user", "assistant"}

\* The parts of some kinds, in their order, and the identities of those of one kind.
Only(parts, kinds) ==
  FlattenSeq([k \in 1..Len(parts) |-> IF parts[k].kind \in kinds THEN <<parts[k]>> ELSE <<>>])

IdsOf(parts, kind) ==
  FlattenSeq([k \in 1..Len(parts) |-> IF parts[k].kind = kind THEN <<parts[k].id>> ELSE <<>>])

-----------------------------------------------------------------------------
\* buildMessages

\* withImages: the text of the turn becomes a part, and the images follow it.
WithImages(turn, images) ==
  [turn EXCEPT !.content = Content("array", @.parts \o images)]

\* Mutant of AttachImages: they go to the last turn of the user, wherever it is.
AttachToLastQuestion(turns, images) ==
  LET asked == { i \in 1..Len(turns) : turns[i].role = "user" }
  IN  IF images = <<>> \/ asked = {} THEN turns
      ELSE LET last == CHOOSE i \in asked : \A j \in asked : j <= i
           IN  [turns EXCEPT ![last] = Turn("user", Content("array", images), <<>>, NoId)]

\* The images join the newest turn if it is the user's, or follow it as a turn.
AttachImages(turns, images) ==
  IF images = <<>> THEN turns
  ELSE IF turns # <<>> /\ Last(turns).role = "user"
       THEN [turns EXCEPT ![Len(turns)] = WithImages(@, images)]
       ELSE Append(turns, Turn("user", Content("array", images), <<>>, NoId))

\* `messages` wins over `prompt`; both options are sequences of turns here.
BuildMessages(systemPrompt, messages, prompt, images) ==
  AttachImages(systemPrompt \o (IF messages # <<>> THEN messages ELSE prompt), images)

-----------------------------------------------------------------------------
\* toAnthropicMessagesRequest

\* contentToAnthropic skips a part of a kind this wire has no block for.
Known(content)  == Only(content.parts, {"text", "image"})
TextOf(content) == Only(content.parts, {"text"})

\* Mutant of Result: the role is kept.
ResultAsATool(turn) == [role |-> "tool", blocks |-> <<Part("tool_result", turn.answers)>>]

\* A result replays as a turn of the user.
Result(turn) == [role |-> "user", blocks |-> <<Part("tool_result", turn.answers)>>]

\* Mutant of Calling: the text beside the calls is left out.
CallingSilently(turn) ==
  [role |-> "assistant",
   blocks |-> [k \in 1..Len(turn.calls) |-> Part("tool_use", turn.calls[k])]]

\* A turn with calls keeps its text only where the content is a string.
Calling(turn) ==
  [role |-> "assistant",
   blocks |-> (IF turn.content.shape = "string" THEN turn.content.parts ELSE <<>>)
              \o [k \in 1..Len(turn.calls) |-> Part("tool_use", turn.calls[k])]]

Speaking(turn) == [role |-> turn.role, blocks |-> Known(turn.content)]

\* The turns one turn becomes: a lead goes to `system`, a role nobody knows nowhere.
Translated(turn) ==
  CASE turn.role = "tool" -> <<Result(turn)>>
    [] turn.role = "assistant" /\ turn.calls # <<>> -> <<Calling(turn)>>
    [] turn.role = "user" \/ (turn.role = "assistant" /\ turn.calls = <<>>) -> <<Speaking(turn)>>
    [] OTHER -> <<>>

\* Mutant of Joined: the later of two turns of one role replaces the earlier.
JoinedByReplacing(turns, turn) ==
  IF turns # <<>> /\ Last(turns).role = turn.role
  THEN [turns EXCEPT ![Len(turns)] = turn]
  ELSE Append(turns, turn)

Joined(turns, turn) ==
  IF turns # <<>> /\ Last(turns).role = turn.role
  THEN [turns EXCEPT ![Len(turns)].blocks = @ \o turn.blocks]
  ELSE Append(turns, turn)

MergeAdjacentRoles(turns) == FoldLeft(LAMBDA out, turn : Joined(out, turn), <<>>, turns)

\* Refused before anything is sent: a tool turn that names no call.
RefusesTurns(turns) ==
  \E i \in 1..Len(turns) : turns[i].role = "tool" /\ turns[i].answers = NoId

\* Mutant of System: only the turns that lead the conversation.
SystemOfLead(turns) ==
  FlattenSeq([i \in 1..Len(turns) |->
                IF \A j \in 1..i : turns[j].role \in LeadRoles THEN TextOf(turns[i].content) ELSE <<>>])

\* The system prompt: what every turn of a leading role says, wherever it stands.
System(turns) ==
  FlattenSeq([i \in 1..Len(turns) |->
                IF turns[i].role \in LeadRoles THEN TextOf(turns[i].content) ELSE <<>>])

Messages(turns) ==
  MergeAdjacentRoles(FlattenSeq([i \in 1..Len(turns) |-> Translated(turns[i])]))

-----------------------------------------------------------------------------
\* toOpenAIChatCompletion: the assistant turn made of the blocks of an answer.
CallsOf(blocks) == IdsOf(blocks, "tool_use")

\* Mutant of Answered: a pure tool call has the content ''  and loses its calls.
AnsweredTextOnly(blocks) ==
  Turn("assistant", Content("string", Only(blocks, {"text"})), <<>>, NoId)

Answered(blocks) ==
  LET text == Only(blocks, {"text"})
  IN  Turn("assistant",
           IF text = <<>> /\ CallsOf(blocks) # <<>> THEN Null ELSE Content("string", text),
           CallsOf(blocks), NoId)

-----------------------------------------------------------------------------
\* What the wire asks of a conversation (chat.ts: "Anthropic rejects", "the
\* encoding the wire asks for").

\* Two neighbours never have the same role.
Alternates(turns) == \A i \in 2..Len(turns) : turns[i].role # turns[i - 1].role

Ids(turns, i, kind) == IF i \in 1..Len(turns) THEN IdsOf(turns[i].blocks, kind) ELSE <<>>

\* Every call of a turn is answered, in order, at the start of the next one, and
\* nothing else is.
AnsweredAtOnce(turns) ==
  \A i \in 0..Len(turns) :
    /\ Ids(turns, i + 1, "tool_result") = Ids(turns, i, "tool_use")
    /\ \A k \in 1..Len(Ids(turns, i, "tool_use")) :
         turns[i + 1].blocks[k].kind = "tool_result"

\* What is said in a conversation, by the user and the assistant.
Said(turns) == FlattenSeq([i \in 1..Len(turns) |-> IdsOf(turns[i].blocks, "text")])
=============================================================================
