----------------------------- MODULE SupportChat -----------------------------
(***************************************************************************)
(* chat() of agents/customer-support-agent/src/agent.ts: requests of one   *)
(* session, each an async generator of events that a consumer pulls (the   *)
(* ReadableStream of sse.ts, or a `for await`) and may cancel.             *)
(*                                                                         *)
(* The store of the session is the host's.  Each request makes a Memory of *)
(* its own over it, so the chain that orders the calls of one Memory does  *)
(* not order those of two requests; within a request the calls are awaited *)
(* one after the other, and a Memory is a load and a save.                 *)
(*                                                                         *)
(* The progress events before the answer (tool_call, confidence,           *)
(* citations) are one event here, "context".  A failure is told apart only *)
(* by whether a guardrail blocked the answer.                              *)
(***************************************************************************)
EXTENDS Naturals, Sequences, FiniteSets

CONSTANTS
  Requests,      \* the chat requests of the session
  WebSearch,     \* whether cfg.webSearch is set
  MaxTokens      \* bound: tokens of one attempt at an answer

ASSUME WebSearchAssumption == WebSearch \in BOOLEAN
ASSUME MaxTokensAssumption == MaxTokens \in Nat

VARIABLES
  store,         \* the session's rows: whose turn, of which role, and an answer's text
  pc,            \* what each request awaits next
  held,          \* whether it is suspended at a yield
  cancelled,     \* whether its consumer left while it was running
  events,        \* what it has emitted
  searched,      \* webSearched
  local,         \* the rows its Memory loaded
  history,       \* the conversation it sends to the model
  said,          \* fullResponse: the attempt each token came from
  overlapped     \* history: two requests were in the session at once

vars == <<store, pc, held, cancelled, events, searched, local, history, said, overlapped>>

\* How often x is in a sequence.
Count(seq, x) == Cardinality({ k \in 1..Len(seq) : seq[k] = x })

Question(r) == [request |-> r, role |-> "user", says |-> <<>>]
Reply(r)    == [request |-> r, role |-> "assistant", says |-> said[r]]

Init ==
  /\ store = <<>>
  /\ pc = [r \in Requests |-> "retrieve"]
  /\ held = [r \in Requests |-> FALSE]
  /\ cancelled = [r \in Requests |-> FALSE]
  /\ events = [r \in Requests |-> <<>>]
  /\ searched = [r \in Requests |-> FALSE]
  /\ local = [r \in Requests |-> <<>>]
  /\ history = [r \in Requests |-> <<>>]
  /\ said = [r \in Requests |-> <<>>]
  /\ overlapped = FALSE

Runs(r, place) == pc[r] = place /\ ~held[r]

InSession(r) == pc[r] \in {"addSave", "recall", "answer", "retry", "keepLoad", "keepSave"}

Goto(r, place) == pc' = [pc EXCEPT ![r] = place] /\ UNCHANGED <<held, events>>

\* A yield.  Where the consumer has left, the pending return() ends the generator.
Emit(r, kind, next) ==
  IF cancelled[r]
  THEN Goto(r, "gone")
  ELSE /\ events' = [events EXCEPT ![r] = Append(@, kind)]
       /\ pc' = [pc EXCEPT ![r] = next]
       /\ held' = [held EXCEPT ![r] = TRUE]

\* Mutant of Raise: the handler of an error goes on to what follows the answer.
RaisesAndGoesOn(r) == Emit(r, "error", "keepLoad")

\* An error is an event, and `done` the next one.
Raise(r) == Emit(r, "error", "raised")

-----------------------------------------------------------------------------
\* The consumer.

Pull(r) ==
  /\ held[r] /\ pc[r] # "gone"
  /\ held' = [held EXCEPT ![r] = FALSE]
  /\ UNCHANGED <<store, pc, cancelled, events, searched, local, history, said, overlapped>>

\* cancel() of sse.ts: the signal is aborted and the generator asked to return,
\* which it does at once when it is suspended and else at its next yield.
Cancel(r) ==
  /\ pc[r] \notin {"finished", "gone"} /\ ~cancelled[r]
  /\ IF held[r]
     THEN pc' = [pc EXCEPT ![r] = "gone"] /\ UNCHANGED cancelled
     ELSE cancelled' = [cancelled EXCEPT ![r] = TRUE] /\ UNCHANGED pc
  /\ UNCHANGED <<store, held, events, searched, local, history, said, overlapped>>

-----------------------------------------------------------------------------
\* The request.

\* Validation, retrieval, confidence and, when that is low, the web search.
Retrieve(r) ==
  /\ Runs(r, "retrieve")
  /\ \/ Raise(r) /\ UNCHANGED searched
     \/ \E low \in BOOLEAN :
          /\ searched' = [searched EXCEPT ![r] = low /\ WebSearch]
          /\ Emit(r, "context", "addLoad")
  /\ UNCHANGED <<store, cancelled, local, history, said, overlapped>>

\* mem.add of the question: its load and its save.
AddLoad(r) ==
  /\ Runs(r, "addLoad")
  /\ \/ Raise(r) /\ UNCHANGED <<local, overlapped>>
     \/ /\ local' = [local EXCEPT ![r] = store]
        /\ overlapped' = (overlapped \/ \E q \in Requests \ {r} : InSession(q))
        /\ Goto(r, "addSave")
  /\ UNCHANGED <<store, cancelled, searched, history, said>>

\* Mutant of AddSave: the turn replaces the conversation.
AddSavesTheTurn(r) ==
  /\ Runs(r, "addSave")
  /\ \/ store' = <<Question(r)>> /\ Goto(r, "recall")
     \/ store' \in {store, <<Question(r)>>} /\ Raise(r)
  /\ UNCHANGED <<cancelled, searched, local, history, said, overlapped>>

AddSave(r) ==
  /\ Runs(r, "addSave")
  /\ \/ store' = Append(local[r], Question(r)) /\ Goto(r, "recall")
     \/ store' \in {store, Append(local[r], Question(r))} /\ Raise(r)
  /\ UNCHANGED <<cancelled, searched, local, history, said, overlapped>>

\* Mutant of Recall: the history is what the memory had loaded before the add.
RecallsTheLoaded(r) ==
  /\ Runs(r, "recall")
  /\ \/ history' = [history EXCEPT ![r] = local[r]] /\ Goto(r, "answer")
     \/ Raise(r) /\ UNCHANGED history
  /\ UNCHANGED <<store, cancelled, searched, local, said, overlapped>>

\* mem.messages(): the stored history is what the model is asked with.
Recall(r) ==
  /\ Runs(r, "recall")
  /\ \/ history' = [history EXCEPT ![r] = store] /\ Goto(r, "answer")
     \/ Raise(r) /\ UNCHANGED history
  /\ UNCHANGED <<store, cancelled, searched, local, said, overlapped>>

Attempt(r) == IF pc[r] = "answer" THEN 1 ELSE 2

\* Mutant of Token: a token may be kept that is not shown.
KeepsTheUnshown(r) ==
  /\ Runs(r, "answer") \/ Runs(r, "retry")
  /\ Count(said[r], Attempt(r)) < MaxTokens
  /\ said' = [said EXCEPT ![r] = Append(@, Attempt(r))]
  /\ Emit(r, "token", pc[r]) \/ Goto(r, pc[r])
  /\ UNCHANGED <<store, cancelled, searched, local, history, overlapped>>

Token(r) ==
  /\ Runs(r, "answer") \/ Runs(r, "retry")
  /\ Count(said[r], Attempt(r)) < MaxTokens
  /\ said' = [said EXCEPT ![r] = Append(@, Attempt(r))]
  /\ Emit(r, "token", pc[r])
  /\ UNCHANGED <<store, cancelled, searched, local, history, overlapped>>

Answered(r) ==
  /\ Runs(r, "answer") \/ Runs(r, "retry")
  /\ Emit(r, "cost", "keepLoad")
  /\ UNCHANGED <<store, cancelled, searched, local, history, said, overlapped>>

\* Mutants of AttemptFails: what is left of a failed answer is kept as the
\* answer; a blocked retry is retried.
KeepsThePartial(r) ==
  /\ Runs(r, "answer") \/ Runs(r, "retry")
  /\ Goto(r, "keepLoad")
  /\ UNCHANGED <<store, cancelled, searched, local, history, said, overlapped>>
RetriesTheRetry(r) ==
  /\ Runs(r, "answer") \/ Runs(r, "retry")
  /\ \E blocked \in BOOLEAN :
       IF blocked THEN Goto(r, IF pc[r] = "answer" THEN "retry" ELSE "answer") ELSE Raise(r)
  /\ UNCHANGED <<store, cancelled, searched, local, history, said, overlapped>>

\* The tools, the request or its stream failed.  A guardrail that may have refused
\* the web sources is answered by one attempt without them.
AttemptFails(r) ==
  /\ Runs(r, "answer") \/ Runs(r, "retry")
  /\ \E blocked \in BOOLEAN :
       IF blocked /\ searched[r] /\ pc[r] = "answer" THEN Goto(r, "retry") ELSE Raise(r)
  /\ UNCHANGED <<store, cancelled, searched, local, history, said, overlapped>>

\* mem.add of the answer, when there is one.
KeepLoad(r) ==
  /\ Runs(r, "keepLoad")
  /\ IF said[r] = <<>>
     THEN Emit(r, "done", "finished") /\ UNCHANGED local
     ELSE \/ Raise(r) /\ UNCHANGED local
          \/ local' = [local EXCEPT ![r] = store] /\ Goto(r, "keepSave")
  /\ UNCHANGED <<store, cancelled, searched, history, said, overlapped>>

KeepSave(r) ==
  /\ Runs(r, "keepSave")
  /\ \/ store' = Append(local[r], Reply(r)) /\ Emit(r, "done", "finished")
     \/ store' \in {store, Append(local[r], Reply(r))} /\ Raise(r)
  /\ UNCHANGED <<cancelled, searched, local, history, said, overlapped>>

Done(r) ==
  /\ Runs(r, "raised")
  /\ Emit(r, "done", "finished")
  /\ UNCHANGED <<store, cancelled, searched, local, history, said, overlapped>>

Step(r) ==
  Retrieve(r) \/ AddLoad(r) \/ AddSave(r) \/ Recall(r) \/ Token(r) \/ Answered(r)
  \/ AttemptFails(r) \/ KeepLoad(r) \/ KeepSave(r) \/ Done(r)

Next == \E r \in Requests : Pull(r) \/ Cancel(r) \/ Step(r)

Spec == Init /\ [][Next]_vars

\* The gateway and the store answer in the end (the SDK's timeouts, the host's
\* store); a consumer that does not cancel goes on pulling.
FairSpec == Spec /\ \A r \in Requests : WF_vars(Step(r)) /\ WF_vars(Pull(r))

-----------------------------------------------------------------------------
\* Every stream of events that is read to its end has one `done`, as its last
\* event; an error is followed by nothing else, and an answer is closed by its
\* cost or by an error, never by both but for a store that refuses the answer.
DoneEndsTheStream ==
  \A r \in Requests :
    LET e == events[r] IN
      /\ Count(e, "done") = (IF pc[r] = "finished" THEN 1 ELSE 0)
      /\ \A k \in 1..Len(e) :
           /\ e[k] = "done"  => k = Len(e)
           /\ e[k] = "error" => k = Len(e) \/ (k + 1 = Len(e) /\ e[k + 1] = "done")
           /\ e[k] = "cost"  => \A l \in (k + 1)..Len(e) : e[l] \in {"error", "done"}

SameTurn(row, other) == row.request = other.request /\ row.role = other.role

\* While the requests of a session come one after the other, it holds their turns
\* in order, each once, and each answer right behind its question; a request
\* answered in full has both (agent.test.ts: "store holds exactly [user1,
\* assistant1, user2, assistant2]"), whatever was cancelled or failed before it.  The
\* model is asked the question of its request, behind that dialogue.
SessionIsTheDialogue ==
  ~overlapped =>
    /\ \A k \in 1..Len(store) : store[k].role = "assistant" =>
         k > 1 /\ store[k - 1] = Question(store[k].request)
    /\ \A k, l \in 1..Len(store) : SameTurn(store[k], store[l]) => k = l
    /\ \A r \in Requests : pc[r] = "finished" /\ Count(events[r], "error") = 0 =>
         /\ Count(store, Question(r)) = 1
         /\ said[r] # <<>> => Count(store, Reply(r)) = 1
    /\ \A r \in Requests : pc[r] \in {"answer", "retry"} =>
         history[r] # <<>> /\ history[r][Len(history[r])] = Question(r)

\* What the session remembers as an answer is, token for token, what its reader was
\* shown, and the cost of the answer went out before: of a request whose last attempt
\* failed, or whose consumer left before the cost, nothing is remembered, even where
\* requests overlap.  Of an answer that came with the retry, the text of the blocked
\* attempt is part: it was shown, and is remembered in front of the retry's.
RememberedWasDelivered ==
  \A k \in 1..Len(store) : store[k].role = "assistant" =>
    LET e == events[store[k].request]  t == store[k].says IN
      /\ Count(e, "cost") = 1
      /\ Len(t) = Count(e, "token")
      /\ \A i, j \in 1..Len(t) : i < j => t[i] <= t[j]

\* A request ends: a consumer that keeps pulling reads `done`, after at most one
\* retry, and the generator of one that left returns.
EveryRequestEnds == \A r \in Requests : <>(pc[r] \in {"finished", "gone"})

\* memory.ts on why the calls of a Memory are chained: "two `add()` calls started
\* together both `load()` the same list, and the second `save()` overwrites the
\* first - one message gone, no error".
NoQuestionLost ==
  \A r \in Requests :
    pc[r] \in {"recall", "answer", "retry"} => Count(store, Question(r)) = 1
=============================================================================
