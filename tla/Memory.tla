------------------------------- MODULE Memory -------------------------------
(***************************************************************************)
(* One Memory of sdks/js/src/memory.ts (createMemory) over one MemoryStore.*)
(*                                                                         *)
(* Every call is appended to a promise chain, so the calls of one Memory   *)
(* run one after the other.  Each is a read-modify-write across awaits:    *)
(* the store's load() answers, and later its save() is asked for.  The     *)
(* store is the caller's own: any load or save may fail, a save that fails *)
(* may have been applied, and something else may write rows to the same    *)
(* store, rows the memory refuses among them.                              *)
(*                                                                         *)
(* A turn that add() itself refuses (validateMessage, before the chain)    *)
(* changes nothing and is no action here.                                  *)
(***************************************************************************)
EXTENDS SlidingWindow

CONSTANTS
  MaxCalls,      \* bound: calls made on this Memory
  Limits,        \* the maxMessages values messages() is called with
  AddedRoles,    \* the roles of the turns passed to add()
  MaxForeign     \* bound: rows something else writes to the store

ASSUME MaxCallsAssumption   == MaxCalls \in Nat
ASSUME LimitsAssumption     == Limits \subseteq Limit
ASSUME AddedRolesAssumption == AddedRoles \subseteq Roles
ASSUME MaxForeignAssumption == MaxForeign \in Nat

Calls == [kind : {"add"}, role : AddedRoles]
         \cup [kind : {"messages"}, max : Limits]
         \cup [kind : {"clear"}]

VARIABLES
  rows,          \* what the store holds
  chain,         \* the calls serialized so far, in order
  state,         \* of each: "queued", "loaded" (load() answered), "ok", "rejected"
  local,         \* of each: the array of a loaded add(), the answer of a messages()
  foreign        \* how many rows something else has written

vars == <<rows, chain, state, local, foreign>>

Done(i) == state[i] \in {"ok", "rejected"}

\* Mutants of MayRun: the operation does not wait for the ones before it; a
\* rejection stays in the chain and no later operation runs.
RunsAtOnce(i)      == ~Done(i)
NeedsNoFailure(i)  == ~Done(i) /\ \A j \in 1..(i - 1) : state[j] = "ok"

\* `run = chain.then(op)` runs op when every earlier operation has settled, well
\* or not, since `chain = run.catch(() => undefined)` is always fulfilled.
MayRun(i) == ~Done(i) /\ \A j \in 1..(i - 1) : Done(j)

\* validateMessage accepts every row of a load.
AllValid == \A k \in 1..Len(rows) : rows[k].role \in Roles

Settle(i, outcome, answer) ==
  /\ state' = [state EXCEPT ![i] = outcome]
  /\ local' = [local EXCEPT ![i] = answer]
  /\ UNCHANGED <<chain, foreign>>

Init ==
  /\ rows \in { <<>>, <<[id |-> 0, role |-> "system"]>> }
  /\ chain = <<>>
  /\ state = <<>>
  /\ local = <<>>
  /\ foreign = 0

\* add(), messages() and clear(): a valid call takes the next place in the chain.
Serialize(call) ==
  /\ Len(chain) < MaxCalls
  /\ chain' = Append(chain, call)
  /\ state' = Append(state, "queued")
  /\ local' = Append(local, <<>>)
  /\ UNCHANGED <<rows, foreign>>

Loading(i) == MayRun(i) /\ state[i] = "queued" /\ chain[i].kind \in {"add", "messages"}

\* store.load() answers an add(): the array the turn will be pushed to.
LoadForAdd(i) ==
  /\ Loading(i) /\ chain[i].kind = "add"
  /\ AllValid
  /\ state' = [state EXCEPT ![i] = "loaded"]
  /\ local' = [local EXCEPT ![i] = rows]
  /\ UNCHANGED <<rows, chain, foreign>>

\* store.load() answers a messages(): nothing is awaited after it.
LoadForMessages(i) ==
  /\ Loading(i) /\ chain[i].kind = "messages"
  /\ AllValid
  /\ Settle(i, "ok", Window(rows, chain[i].max, TRUE))
  /\ UNCHANGED rows

\* read() throws: load() failed, answered something that is no array, or
\* answered a row validateMessage refuses.
LoadFails(i) ==
  /\ Loading(i)
  /\ Settle(i, "rejected", <<>>)
  /\ UNCHANGED rows

\* add() saves what it loaded and its turn; clear() saves without loading.
Saving(i) ==
  /\ MayRun(i)
  /\ \/ chain[i].kind = "add" /\ state[i] = "loaded"
     \/ chain[i].kind = "clear"

\* Mutants of Saved: the turn is written over what was loaded; clear() saves
\* the history it should forget.
SavesOnlyTheTurn(i) ==
  IF chain[i].kind = "add"
  THEN <<[id |-> i, role |-> chain[i].role]>>
  ELSE <<>>
ClearForgetsNothing(i) ==
  IF chain[i].kind = "add"
  THEN Append(local[i], [id |-> i, role |-> chain[i].role])
  ELSE rows

\* The array handed to store.save().
Saved(i) ==
  IF chain[i].kind = "add"
  THEN Append(local[i], [id |-> i, role |-> chain[i].role])
  ELSE <<>>

SaveSucceeds(i) ==
  /\ Saving(i)
  /\ rows' = Saved(i)
  /\ Settle(i, "ok", <<>>)

SaveFails(i) ==
  /\ Saving(i)
  /\ rows' \in {rows, Saved(i)}
  /\ Settle(i, "rejected", <<>>)

StoreAnswers(i) ==
  \/ LoadForAdd(i)
  \/ LoadForMessages(i)
  \/ LoadFails(i)
  \/ SaveSucceeds(i)
  \/ SaveFails(i)

\* Something else writes to the same store ("a shared key another process
\* writes"): a row nobody here added, its id is -1.
ForeignWrite ==
  /\ foreign < MaxForeign
  /\ \E role \in {"user", BadRole} :
       rows' = Append(rows, [id |-> -1, role |-> role])
  /\ foreign' = foreign + 1
  /\ UNCHANGED <<chain, state, local>>

Next ==
  \/ \E call \in Calls : Serialize(call)
  \/ \E i \in 1..Len(chain) : StoreAnswers(i)
  \/ ForeignWrite

Spec == Init /\ [][Next]_vars

\* A load or a save that was asked for is answered in the end: the memory has
\* no timeout of its own and waits for the caller's store.
FairSpec == Spec /\ WF_vars(\E i \in 1..Len(chain) : StoreAnswers(i))

-----------------------------------------------------------------------------
TypeOK ==
  /\ rows \in Seq(Row)
  /\ chain \in Seq(Calls) /\ Len(chain) <= MaxCalls
  /\ state \in Seq({"queued", "loaded", "ok", "rejected"}) /\ Len(state) = Len(chain)
  /\ local \in Seq(Seq(Row)) /\ Len(local) = Len(chain)
  /\ foreign \in 0..MaxForeign

Alone == foreign = 0   \* nothing else has written to the store

Holds(turns, i) == \E k \in 1..Len(turns) : turns[k].id = i

\* A settled clear() after place i that may have reached the store.
ClearedSince(i, j) == \E k \in (i + 1)..j : chain[k].kind = "clear" /\ Done(k)

\* No lost update: a turn whose add() resolved stays in the store until a later
\* clear() settles, whatever calls, failed saves and failed loads come between.
NoLostTurn ==
  Alone => \A i \in 1..Len(chain) :
    chain[i].kind = "add" /\ state[i] = "ok" /\ ~ClearedSince(i, Len(chain))
      => Holds(rows, i)

\* The conversation is in the order of the calls and holds no turn twice, even
\* when a rejected save had been applied.
InCallOrder ==
  \A k, l \in 1..Len(rows) :
    k < l /\ rows[k].id >= 0 /\ rows[l].id >= 0 => rows[k].id < rows[l].id

\* After a clear() resolves, nothing older is in the store again: no queued add()
\* brings back the list it had seen before.
ClearedStaysCleared ==
  Alone => \A c \in 1..Len(chain) : chain[c].kind = "clear" /\ state[c] = "ok" =>
    \A k \in 1..Len(rows) : rows[k].id > c

\* What a conversation keeps: every turn that was acknowledged, once, in the order it
\* was given, and nothing that was forgotten.
TurnsAreKept == NoLostTurn /\ InCallOrder /\ ClearedStaysCleared

\* An unlimited messages() sees every turn whose add() was called before it and
\* resolved, without waiting for it in the caller, and none called after it.
ReadsOwnWrites ==
  Alone => \A m \in 1..Len(chain) :
    chain[m].kind = "messages" /\ chain[m].max = NoLimit /\ state[m] = "ok" =>
      /\ \A k \in 1..Len(local[m]) : local[m][k].id < m
      /\ \A i \in 1..(m - 1) :
           chain[i].kind = "add" /\ state[i] = "ok" /\ ~ClearedSince(i, m - 1)
             => Holds(local[m], i)

\* One failed load or save does not wedge the memory: every call settles.
EveryCallSettles ==
  \A i \in 1..MaxCalls : (i <= Len(chain)) ~> (i <= Len(chain) /\ Done(i))

-----------------------------------------------------------------------------
\* The log the memory implements: a call that waits for its load or its save is
\* still pending, and the array it holds is nobody else's business.
Outcomes == [i \in 1..Len(chain) |-> IF Done(i) THEN state[i] ELSE "pending"]
Answers  == [i \in 1..Len(chain) |-> IF Done(i) THEN local[i] ELSE <<>>]

Log == INSTANCE ConversationLog WITH
         history <- rows, calls <- chain, outcomes <- Outcomes, answers <- Answers

\* Every call acts at one instant, in the order of the calls: between the load
\* and the save of an add() other callers see the whole call or nothing of it.
\* The memory promises this as long as nothing else has written to its store.
ImplementsLog == Log!Init /\ [][Alone' => [Log!Next]_(Log!vars)]_vars
=============================================================================
