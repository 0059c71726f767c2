--------------------------- MODULE ConversationLog ---------------------------
(***************************************************************************)
(* What a Memory promises its caller: a conversation on which calls act    *)
(* one at a time, each at one instant, in the order they were made.        *)
(*                                                                         *)
(* A call is issued (it gets a place in `calls`) and later settles.  A     *)
(* call that settles "ok" has taken effect, once.  A call that is rejected *)
(* may have taken effect or not, because a store can lose its answer, but  *)
(* it is never half done and never takes effect later.                     *)
(***************************************************************************)
EXTENDS SlidingWindow

CONSTANTS
  MaxCalls,      \* bound: calls made on one Memory
  Limits,        \* the maxMessages values messages() is called with
  AddedRoles     \* the roles of the turns passed to add()

Calls == [kind : {"add"}, role : AddedRoles]
         \cup [kind : {"messages"}, max : Limits]
         \cup [kind : {"clear"}]

VARIABLES
  history,       \* the conversation
  calls,         \* every call made so far, in order
  outcomes,      \* how each of them settled: "pending", "ok" or "rejected"
  answers        \* the turns each of them returned (<<>> but for messages())

vars == <<history, calls, outcomes, answers>>

\* The conversation after the call in place i took effect on it.
Effect(i) ==
  IF calls[i].kind = "add"
  THEN Append(history, [id |-> i, role |-> calls[i].role])
  ELSE IF calls[i].kind = "clear" THEN <<>> ELSE history

Answer(i) ==
  IF calls[i].kind = "messages" THEN Window(history, calls[i].max, TRUE) ELSE <<>>

\* Calls settle in the order they were made.
IsNext(i) ==
  /\ outcomes[i] = "pending"
  /\ \A j \in 1..(i - 1) : outcomes[j] # "pending"

Init ==
  /\ history \in { <<>>, <<[id |-> 0, role |-> "system"]>> }
  /\ calls = <<>>
  /\ outcomes = <<>>
  /\ answers = <<>>

Issue(call) ==
  /\ Len(calls) < MaxCalls
  /\ calls' = Append(calls, call)
  /\ outcomes' = Append(outcomes, "pending")
  /\ answers' = Append(answers, <<>>)
  /\ UNCHANGED history

Succeed(i) ==
  /\ IsNext(i)
  /\ history' = Effect(i)
  /\ outcomes' = [outcomes EXCEPT ![i] = "ok"]
  /\ answers' = [answers EXCEPT ![i] = Answer(i)]
  /\ UNCHANGED calls

Reject(i) ==
  /\ IsNext(i)
  /\ history' \in {history, Effect(i)}
  /\ outcomes' = [outcomes EXCEPT ![i] = "rejected"]
  /\ UNCHANGED <<calls, answers>>

Next ==
  \/ \E call \in Calls : Issue(call)
  \/ \E i \in 1..Len(calls) : Succeed(i) \/ Reject(i)

Spec == Init /\ [][Next]_vars
=============================================================================
