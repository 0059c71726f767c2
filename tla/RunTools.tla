------------------------------ MODULE RunTools ------------------------------
(***************************************************************************)
(* runTools of sdks/js/src/agent.ts: the bounded tool loop, and a caller   *)
(* that feeds the conversation of one run into the next.                   *)
(*                                                                         *)
(* A turn is abstracted to its role, the run that wrote it (0: the         *)
(* caller), whether it says anything, the tool calls it makes (those       *)
(* toolCallsOf keeps) and the call it answers.  Whatever a tool does, a    *)
(* name nobody knows and a handler that throws included, runOneTool makes  *)
(* it the result of the call.                                              *)
(***************************************************************************)
EXTENDS Naturals, Sequences, FiniteSets

CONSTANTS
  MaxSteps,      \* options.maxSteps, which runTools accepts when it is >= 1
  MaxCalls,      \* bound: tool calls in one assistant turn
  MaxRuns        \* bound: runs of the caller

ASSUME MaxStepsAssumption == MaxSteps \in Nat \ {0}
ASSUME MaxCallsAssumption == MaxCalls \in Nat
ASSUME MaxRunsAssumption  == MaxRuns \in Nat

VARIABLES
  phase,         \* "idle", "ask", "tools", "after" (stopWhen), "returned", "rejected"
  run,           \* which run it is
  messages,      \* the conversation
  seeded,        \* how much of it was there when the run began
  steps,         \* provider calls that answered
  requests,      \* history: provider calls made
  answered,      \* the calls of the last assistant turn that have their result
  priced,        \* CostAccumulator: the steps with an exact price,
  unpriced,      \*   and those without
  stopReason,
  text           \* the turn result.text is taken from, or 0 for ''

vars == <<phase, run, messages, seeded, steps, requests, answered, priced, unpriced,
          stopReason, text>>

Turn == [role : {"user", "assistant", "tool"}, run : Nat, said : BOOLEAN,
         calls : Nat, call : Nat]

User                == [role |-> "user", run |-> 0, said |-> TRUE, calls |-> 0, call |-> 0]
Assistant(said, n)  == [role |-> "assistant", run |-> run, said |-> said, calls |-> n, call |-> 0]
ToolResult(k)       == [role |-> "tool", run |-> run, said |-> TRUE, calls |-> 0, call |-> k]

Init ==
  /\ phase = "idle" /\ run = 0 /\ messages = <<>> /\ seeded = 0
  /\ steps = 0 /\ requests = 0 /\ answered = 0 /\ priced = 0 /\ unpriced = 0
  /\ stopReason = "maxSteps" /\ text = 0

\* seedMessages: a prompt, or the conversation of the run that returned, with or
\* without a turn of the user's after it.
Seeds == {<<User>>} \cup
         (IF phase = "returned" THEN {messages, Append(messages, User)} ELSE {})

Start ==
  /\ phase \in {"idle", "returned", "rejected"} /\ run < MaxRuns
  /\ \E seed \in Seeds : messages' = seed /\ seeded' = Len(seed)
  /\ phase' = "ask" /\ run' = run + 1
  /\ steps' = 0 /\ requests' = 0 /\ answered' = 0 /\ priced' = 0 /\ unpriced' = 0
  /\ stopReason' = "maxSteps" /\ text' = 0

\* Mutant of CostAdd: a step without a price is a step for free.
CostAddOnlyPriced(exact) ==
  /\ priced' = IF exact THEN priced + 1 ELSE priced
  /\ UNCHANGED unpriced

\* CostAccumulator.add, by isPriced.
CostAdd(exact) ==
  /\ priced'   = IF exact THEN priced + 1 ELSE priced
  /\ unpriced' = IF exact THEN unpriced ELSE unpriced + 1

\* The provider answers a request of the loop.
Answer ==
  /\ phase = "ask"
  /\ requests' = requests + 1 /\ steps' = steps + 1
  /\ \E exact \in BOOLEAN : CostAdd(exact)
  /\ \E said \in BOOLEAN, n \in 0..MaxCalls :
       /\ messages' = Append(messages, Assistant(said, n))
       /\ IF n = 0
          THEN /\ phase' = "returned" /\ stopReason' = "stop"
               /\ text' = IF said THEN Len(messages') ELSE 0
          ELSE phase' = "tools" /\ UNCHANGED <<stopReason, text>>
  /\ answered' = 0
  /\ UNCHANGED <<run, seeded>>

\* runChat rejects, and runTools with it.
RequestFails ==
  /\ phase = "ask"
  /\ phase' = "rejected" /\ requests' = requests + 1
  /\ UNCHANGED <<run, messages, seeded, steps, answered, priced, unpriced, stopReason, text>>

\* Mutant of RunOneTool: only the first call of a turn is executed.
RunsOneToolOnly ==
  /\ phase = "tools"
  /\ messages' = Append(messages, ToolResult(answered + 1))
  /\ answered' = answered + 1
  /\ phase' = "after"
  /\ UNCHANGED <<run, seeded, steps, requests, priced, unpriced, stopReason, text>>

\* Mutant of RunOneTool: a handler that throws has the whole turn run again.
RunsTheTurnAgain ==
  /\ phase = "tools"
  /\ \/ /\ messages' = Append(messages, ToolResult(answered + 1))
        /\ answered' = answered + 1
        /\ phase' = IF answered' = messages[Len(messages) - answered].calls THEN "after" ELSE "tools"
     \/ /\ messages' = SubSeq(messages, 1, Len(messages) - answered)
        /\ answered' = 0 /\ UNCHANGED phase
  /\ UNCHANGED <<run, seeded, steps, requests, priced, unpriced, stopReason, text>>

\* The next call of the assistant turn gets its result.
RunOneTool ==
  /\ phase = "tools"
  /\ messages' = Append(messages, ToolResult(answered + 1))
  /\ answered' = answered + 1
  /\ phase' = IF answered + 1 = messages[Len(messages) - answered].calls THEN "after" ELSE "tools"
  /\ UNCHANGED <<run, seeded, steps, requests, priced, unpriced, stopReason, text>>

\* The assistant turns after index `from` that say something.
Spoken(from) ==
  { i \in (from + 1)..Len(messages) : messages[i].role = "assistant" /\ messages[i].said }

\* Mutant of WalkBack: it goes on into the seed.
WalksIntoTheSeed ==
  IF Spoken(0) = {} THEN 0
  ELSE CHOOSE i \in Spoken(0) : \A j \in Spoken(0) : j <= i

\* The last assistant text of this run, and not of the seed.
WalkBack ==
  IF Spoken(seeded) = {} THEN 0
  ELSE CHOOSE i \in Spoken(seeded) : \A j \in Spoken(seeded) : j <= i

\* Mutant of MayGoOn: one request too many.
MayGoOnOnce == steps <= MaxSteps

MayGoOn == steps < MaxSteps

\* stopWhen, if there is one, has said no: the loop goes on, or ends at its ceiling.
GoOn ==
  /\ phase = "after"
  /\ IF MayGoOn
     THEN phase' = "ask" /\ UNCHANGED text
     ELSE phase' = "returned" /\ text' = WalkBack
  /\ UNCHANGED <<run, messages, seeded, steps, requests, answered, priced, unpriced, stopReason>>

\* stopWhen ends the run.
StopWhen ==
  /\ phase = "after"
  /\ phase' = "returned" /\ stopReason' = "stopWhen"
  /\ UNCHANGED <<run, messages, seeded, steps, requests, answered, priced, unpriced, text>>

\* stopWhen throws, or rejects.
StopWhenFails ==
  /\ phase = "after"
  /\ phase' = "rejected"
  /\ UNCHANGED <<run, messages, seeded, steps, requests, answered, priced, unpriced, stopReason, text>>

Loop == Answer \/ RequestFails \/ RunOneTool \/ GoOn \/ StopWhen \/ StopWhenFails

Next == Start \/ Loop

Spec == Init /\ [][Next]_vars

\* A request is answered or fails (client.ts bounds it by a timeout); a tool and
\* stopWhen return, which only the caller who wrote them can promise.
FairSpec == Spec /\ WF_vars(Loop)

-----------------------------------------------------------------------------
Wire == INSTANCE AnthropicMessages

\* Where a tool result is due: the call it answers, or 0 where none is.
Due(i) ==
  LET callers == { j \in 1..(i - 1) : messages[j].role = "assistant"
                                      /\ i - j <= messages[j].calls }
  IN  IF callers = {} THEN 0 ELSE i - CHOOSE j \in callers : TRUE

\* Each tool call is answered once, in the order of the calls and right after the
\* turn that made them.
EveryCallAnswered ==
  /\ \A i \in 1..Len(messages) :
       IF Due(i) = 0 THEN messages[i].role # "tool"
       ELSE messages[i].role = "tool" /\ messages[i].call = Due(i)
  /\ Due(Len(messages) + 1) = 0

\* The conversation as chat.ts gets it: a call is known by its turn and its place
\* in it, and so is the call a result answers.
CallerOf(i) == CHOOSE j \in 1..(i - 1) :
  messages[j].role = "assistant" /\ \A l \in (j + 1)..(i - 1) : messages[l].role # "assistant"

Replayed(i) ==
  LET turn == messages[i]
  IN  Wire!Turn(turn.role,
        IF turn.said THEN Wire!Content("string", <<Wire!Part("text", i)>>) ELSE Wire!Null,
        [k \in 1..turn.calls |-> <<i, k>>],
        IF turn.role = "tool" THEN <<CallerOf(i), turn.call>> ELSE Wire!NoId)

Replay == Wire!Messages([i \in 1..Len(messages) |-> Replayed(i)])

\* On the Anthropic wire: no two turns of one role are neighbours, however a run
\* before it ended; the results of a turn open the turn after it, in the order of its
\* calls and before whatever the user adds; and all that was said is there, in order.
ReplayIsFaithful ==
  /\ Wire!Alternates(Replay) /\ Wire!AnsweredAtOnce(Replay)
  /\ Wire!Said(Replay) =
       Wire!FlattenSeq([i \in 1..Len(messages) |->
         IF messages[i].said /\ messages[i].role # "tool" THEN <<i>> ELSE <<>>])

\* Every conversation that goes to a provider, or back to the caller to be "fed
\* straight back into another run", answers each tool call, over any number of runs,
\* and a request has the same conversation on either wire.
ConversationIsWellFormed ==
  /\ phase \in {"ask", "after", "returned"} => EveryCallAnswered
  /\ phase = "ask" => ReplayIsFaithful

\* The text of a run is a turn the model wrote in this very run, never a tool's
\* output nor a sentence of the conversation it was seeded with.
TextIsTheRunsOwn ==
  text # 0 =>
    /\ messages[text].role = "assistant" /\ messages[text].said
    /\ messages[text].run = run

\* The cost of a run covers each of its answers: an answer without a price is
\* counted, so that `complete` is never claimed for a total that leaves it out.
CostCoversTheRun ==
  phase # "idle" =>
    /\ priced + unpriced = steps
    /\ Cardinality({ i \in 1..Len(messages) : messages[i].role = "assistant"
                                               /\ messages[i].run = run }) = steps

\* No run makes a request beyond its ceiling, and "maxSteps" is reported only of a
\* run that made them all and was still calling tools.
CeilingHolds ==
  /\ requests <= MaxSteps
  /\ phase = "returned" =>
       /\ messages[Len(messages)].role = (IF stopReason = "stop" THEN "assistant" ELSE "tool")
       /\ stopReason = "maxSteps" => steps = MaxSteps

\* A run ends, whatever the model keeps asking for.
EveryRunEnds == phase = "ask" ~> phase \in {"returned", "rejected"}
=============================================================================
