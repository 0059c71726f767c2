---------------------------- MODULE Memory_proofs ----------------------------
(***************************************************************************)
(* The promises of a Memory, for any number of calls, any limits and any   *)
(* number of rows written by others.                                       *)
(*                                                                         *)
(* None of them is inductive by itself.  What carries them is Chained: the *)
(* settled calls are a prefix of the chain, so at most one call is between *)
(* its load and its save, and LoadedInv: that call holds a copy of what    *)
(* the store still holds, sorted and older than itself.                    *)
(***************************************************************************)
EXTENDS Memory, SequenceTheorems, TLAPS

-----------------------------------------------------------------------------
\* What the window of a history is, for every history and every limit.

\* The newest n turns of a history are a history, of n turns when it has them.
LEMMA LastTurnsLemma ==
  ASSUME NEW S, NEW msgs \in Seq(S), NEW n \in Int, n <= Len(msgs)
  PROVE  /\ LastTurns(msgs, n) \in Seq(S)
         /\ Len(LastTurns(msgs, n)) = IF n > 0 THEN n ELSE 0
<1>1. /\ Len(msgs) - n + 1 \in Int
      /\ Len(msgs) \in Int
      /\ Len(msgs) - n + 1 \in Nat \ {0}
  BY LenProperties
<1>2. \A i \in (Len(msgs) - n + 1) .. Len(msgs) : msgs[i] \in S
  BY <1>1, ElementOfSeq
<1>3. /\ LastTurns(msgs, n) \in Seq(S)
      /\ Len(LastTurns(msgs, n)) =
           IF Len(msgs) - n + 1 <= Len(msgs) THEN Len(msgs) - (Len(msgs) - n + 1) + 1 ELSE 0
  BY <1>1, <1>2, SubSeqProperties DEF LastTurns
<1> QED BY <1>1, <1>3

\* A pruned history is a history that fills its limit exactly, except that a
\* limit of 0 keeps the leading instruction where there is one.
LEMMA PrunedLemma ==
  ASSUME NEW S, NEW msgs \in Seq(S), NEW limit \in Nat, limit < Len(msgs),
         NEW preserveSystem \in BOOLEAN
  PROVE  /\ Pruned(msgs, limit, preserveSystem) \in Seq(S)
         /\ limit > 0 => Len(Pruned(msgs, limit, preserveSystem)) = limit
<1> DEFINE lead == <<msgs[1]>>
<1>0. Len(msgs) \in Nat
  BY LenProperties
<1>1. CASE preserveSystem /\ HasLead(msgs) /\ limit # 1
  <2>1. lead \in Seq(S) /\ Len(lead) = 1
    BY <1>0
  <2>2. /\ LastTurns(msgs, limit - 1) \in Seq(S)
        /\ Len(LastTurns(msgs, limit - 1)) = IF limit - 1 > 0 THEN limit - 1 ELSE 0
    BY <1>0, LastTurnsLemma
  <2>3. /\ lead \o LastTurns(msgs, limit - 1) \in Seq(S)
        /\ Len(lead \o LastTurns(msgs, limit - 1)) = 1 + Len(LastTurns(msgs, limit - 1))
    BY <2>1, <2>2, ConcatProperties
  <2> QED BY <1>1, <2>2, <2>3 DEF Pruned
<1>2. CASE ~(preserveSystem /\ HasLead(msgs) /\ limit # 1)
  BY <1>0, <1>2, LastTurnsLemma DEF Pruned
<1> QED BY <1>1, <1>2

\* slidingWindow answers a history of the same turns, for every limit.
LEMMA WindowType ==
  ASSUME NEW S, NEW msgs \in Seq(S), NEW max \in Limit, NEW preserveSystem \in BOOLEAN
  PROVE  Window(msgs, max, preserveSystem) \in Seq(S)
<1>0. Len(msgs) \in Nat
  BY LenProperties
<1>1. CASE max \in [kind : {"undefined", "nonfinite"}]
  BY <1>1 DEF Window
<1>2. CASE max \in [kind : {"number"}, halves : Int]
  <2>1. max.kind = "number" /\ max.halves \in Int
    BY <1>2
  <2>2. CASE max.halves <= 0 \/ Len(msgs) <= Floor(max)
    BY <2>1, <2>2 DEF Window
  <2>3. CASE max.halves > 0 /\ ~(Len(msgs) <= Floor(max))
    <3>1. Floor(max) \in Nat /\ Floor(max) < Len(msgs)
      BY <1>0, <2>1, <2>3 DEF Floor
    <3>2. Window(msgs, max, preserveSystem) = Pruned(msgs, Floor(max), preserveSystem)
      BY <2>1, <2>3, <3>1 DEF Window
    <3> QED BY <3>1, <3>2, PrunedLemma
  <2> QED BY <2>1, <2>2, <2>3
<1> QED BY <1>1, <1>2 DEF Limit

\* slidingWindow uses a whole positive limit in full, on every history: it is
\* never longer than maxMessages, and no shorter than it needs to be.
THEOREM WindowUsesWholeBudget ==
  ASSUME NEW S, NEW msgs \in Seq(S), NEW n \in Nat \ {0}, NEW preserveSystem \in BOOLEAN
  PROVE  Len(Window(msgs, AtMost(n), preserveSystem)) =
           IF Len(msgs) < n THEN Len(msgs) ELSE n
<1>0. Len(msgs) \in Nat
  BY LenProperties
<1>1. /\ AtMost(n).kind = "number" /\ AtMost(n).halves = 2 * n
      /\ Floor(AtMost(n)) = n
  BY DEF AtMost, Floor
<1>2. CASE Len(msgs) <= n
  BY <1>0, <1>1, <1>2 DEF Window
<1>3. CASE n < Len(msgs)
  <2>1. Window(msgs, AtMost(n), preserveSystem) = Pruned(msgs, n, preserveSystem)
    BY <1>0, <1>1, <1>3 DEF Window
  <2> QED BY <1>0, <1>3, <2>1, PrunedLemma
<1> QED BY <1>0, <1>2, <1>3

-----------------------------------------------------------------------------
\* The inductive invariant, by parts.

Sorted(turns) ==
  \A k, l \in 1..Len(turns) :
    k < l /\ turns[k].id >= 0 /\ turns[l].id >= 0 => turns[k].id < turns[l].id

Chained ==
  \A i, j \in 1..Len(chain) : i < j /\ state[j] # "queued" => Done(i)

\* Every turn in the store was added by a call that has settled.
SettledTurns ==
  \A k \in 1..Len(rows) :
    rows[k].id > 0 => rows[k].id \in 1..Len(chain) /\ Done(rows[k].id)

LoadedInv ==
  \A i \in 1..Len(chain) : state[i] = "loaded" =>
    /\ chain[i].kind = "add"
    /\ Alone => local[i] = rows
    /\ Sorted(local[i])
    /\ \A k \in 1..Len(local[i]) : local[i][k].id < i

IInv ==
  /\ TypeOK
  /\ Chained
  /\ SettledTurns
  /\ LoadedInv
  /\ InCallOrder

-----------------------------------------------------------------------------
\* The facts about sequences that every step needs.
LEMMA Lengths ==
  ASSUME TypeOK
  PROVE  /\ Len(chain) \in Nat /\ Len(rows) \in Nat
         /\ \A i \in 1..Len(chain) :
              /\ chain[i] \in Calls
              /\ state[i] \in {"queued", "loaded", "ok", "rejected"}
              /\ local[i] \in Seq(Row)
         /\ \A k \in 1..Len(rows) : rows[k] \in Row /\ rows[k].id \in Int
<1>1. /\ Len(chain) \in Nat /\ Len(rows) \in Nat
  BY LenProperties DEF TypeOK
<1>2. \A i \in 1..Len(chain) :
              /\ chain[i] \in Calls
              /\ state[i] \in {"queued", "loaded", "ok", "rejected"}
              /\ local[i] \in Seq(Row)
  BY ElementOfSeq DEF TypeOK
<1>3. \A k \in 1..Len(rows) : rows[k] \in Row
  BY ElementOfSeq DEF TypeOK
<1> QED BY <1>1, <1>2, <1>3 DEF Row

\* What a step that settles or loads call i does to the other calls.
LEMMA OneCall ==
  ASSUME TypeOK, NEW i \in 1..Len(chain),
         NEW s \in {"queued", "loaded", "ok", "rejected"}, NEW turns \in Seq(Row),
         state' = [state EXCEPT ![i] = s],
         local' = [local EXCEPT ![i] = turns],
         chain' = chain
  PROVE  /\ state' \in Seq({"queued", "loaded", "ok", "rejected"})
         /\ Len(state') = Len(chain)
         /\ local' \in Seq(Seq(Row))
         /\ Len(local') = Len(chain)
         /\ \A j \in 1..Len(chain) : j # i => state'[j] = state[j] /\ local'[j] = local[j]
         /\ state'[i] = s /\ local'[i] = turns
<1>1. /\ state \in Seq({"queued", "loaded", "ok", "rejected"})
      /\ local \in Seq(Seq(Row))
      /\ Len(state) = Len(chain) /\ Len(local) = Len(chain)
  BY DEF TypeOK
<1>2. /\ [state EXCEPT ![i] = s] \in Seq({"queued", "loaded", "ok", "rejected"})
      /\ Len([state EXCEPT ![i] = s]) = Len(state)
      /\ \A j \in 1..Len(state) : [state EXCEPT ![i] = s][j] = IF j = i THEN s ELSE state[j]
  BY <1>1, ExceptSeq
<1>3. /\ [local EXCEPT ![i] = turns] \in Seq(Seq(Row))
      /\ Len([local EXCEPT ![i] = turns]) = Len(local)
      /\ \A j \in 1..Len(local) : [local EXCEPT ![i] = turns][j] = IF j = i THEN turns ELSE local[j]
  BY <1>1, ExceptSeq
<1> QED BY <1>1, <1>2, <1>3

\* What a new call does to the chain.
LEMMA NewCall ==
  ASSUME TypeOK, NEW call \in Calls, Serialize(call)
  PROVE  /\ Len(chain') = Len(chain) + 1
         /\ TypeOK'
         /\ \A j \in 1..Len(chain) :
              chain'[j] = chain[j] /\ state'[j] = state[j] /\ local'[j] = local[j]
         /\ /\ chain'[Len(chain) + 1] = call
            /\ state'[Len(chain) + 1] = "queued"
            /\ local'[Len(chain) + 1] = <<>>
<1>1. /\ state \in Seq({"queued", "loaded", "ok", "rejected"})
      /\ local \in Seq(Seq(Row)) /\ chain \in Seq(Calls)
      /\ Len(state) = Len(chain) /\ Len(local) = Len(chain)
      /\ Len(chain) \in Nat
  BY LenProperties DEF TypeOK
<1>2. /\ chain' = Append(chain, call) /\ state' = Append(state, "queued")
      /\ local' = Append(local, <<>>) /\ Len(chain) < MaxCalls
      /\ UNCHANGED <<rows, foreign>>
  BY DEF Serialize
<1>3. <<>> \in Seq(Row)
  OBVIOUS
<1>4. /\ chain' \in Seq(Calls) /\ Len(chain') = Len(chain) + 1
      /\ \A j \in 1..Len(chain) : chain'[j] = chain[j]
      /\ chain'[Len(chain) + 1] = call
  BY <1>1, <1>2
<1>5. /\ state' \in Seq({"queued", "loaded", "ok", "rejected"}) /\ Len(state') = Len(state) + 1
      /\ \A j \in 1..Len(state) : state'[j] = state[j]
      /\ state'[Len(state) + 1] = "queued"
  BY <1>1, <1>2
<1>6. /\ local' \in Seq(Seq(Row)) /\ Len(local') = Len(local) + 1
      /\ \A j \in 1..Len(local) : local'[j] = local[j]
      /\ local'[Len(local) + 1] = <<>>
  BY <1>1, <1>2, <1>3
<1>7. TypeOK'
  BY <1>1, <1>2, <1>4, <1>5, <1>6, MaxCallsAssumption DEF TypeOK
<1> QED BY <1>1, <1>4, <1>5, <1>6, <1>7

\* The array an add() or clear() saves is a list of rows.
LEMMA SavedType ==
  ASSUME TypeOK, NEW i \in 1..Len(chain)
  PROVE  /\ Saved(i) \in Seq(Row)
         /\ chain[i].kind = "add" =>
              /\ Len(Saved(i)) = Len(local[i]) + 1
              /\ \A k \in 1..Len(local[i]) : Saved(i)[k] = local[i][k]
              /\ Saved(i)[Len(local[i]) + 1].id = i
<1>1. /\ chain[i] \in Calls /\ local[i] \in Seq(Row) /\ Len(chain) \in Nat
  BY Lengths
<1>2. CASE chain[i].kind = "add"
  <2>1. chain[i].role \in Roles
    BY <1>1, <1>2, AddedRolesAssumption DEF Calls
  <2>2. [id |-> i, role |-> chain[i].role] \in Row
    BY <1>1, <2>1 DEF Row
  <2>3. Saved(i) = Append(local[i], [id |-> i, role |-> chain[i].role])
    BY <1>2 DEF Saved
  <2> QED BY <1>1, <2>2, <2>3
<1>3. CASE chain[i].kind # "add"
  BY <1>3 DEF Saved
<1> QED BY <1>2, <1>3
\* The store answers the call that may run, and nothing else moves.
LEMMA AnswersRunning ==
  ASSUME NEW i, StoreAnswers(i)
  PROVE  MayRun(i) /\ chain' = chain /\ foreign' = foreign
<1>1. CASE LoadForAdd(i)
  BY <1>1 DEF LoadForAdd, Loading
<1>2. CASE LoadForMessages(i)
  BY <1>2 DEF LoadForMessages, Loading, Settle
<1>3. CASE LoadFails(i)
  BY <1>3 DEF LoadFails, Loading, Settle
<1>4. CASE SaveSucceeds(i) \/ SaveFails(i)
  BY <1>4 DEF SaveSucceeds, SaveFails, Saving, Settle
<1> QED BY <1>1, <1>2, <1>3, <1>4 DEF StoreAnswers

\* A store answer for call i changes no other call.
LEMMA TouchesOne ==
  ASSUME TypeOK, NEW i \in 1..Len(chain), StoreAnswers(i)
  PROVE  \A j \in 1..Len(chain) : j # i => state'[j] = state[j] /\ local'[j] = local[j]
<1>0. chain[i] \in Calls /\ <<>> \in Seq(Row) /\ rows \in Seq(Row)
  BY Lengths DEF TypeOK
<1>1. CASE LoadForAdd(i)
  BY <1>0, <1>1, OneCall DEF LoadForAdd
<1>2. CASE LoadForMessages(i)
  <2>1. Window(rows, chain[i].max, TRUE) \in Seq(Row)
    BY <1>0, <1>2, WindowType, LimitsAssumption DEF LoadForMessages, Calls
  <2> QED BY <1>0, <1>2, <2>1, OneCall DEF LoadForMessages, Settle
<1>3. CASE LoadFails(i)
  BY <1>0, <1>3, OneCall DEF LoadFails, Settle
<1>4. CASE SaveSucceeds(i)
  BY <1>0, <1>4, OneCall DEF SaveSucceeds, Settle
<1>5. CASE SaveFails(i)
  BY <1>0, <1>5, OneCall DEF SaveFails, Settle
<1> QED BY <1>1, <1>2, <1>3, <1>4, <1>5 DEF StoreAnswers

-----------------------------------------------------------------------------
\* Type correctness.
LEMMA TypeStep == TypeOK /\ [Next]_vars => TypeOK'
<1> SUFFICES ASSUME TypeOK, [Next]_vars PROVE TypeOK'
  OBVIOUS
<1>1. ASSUME NEW call \in Calls, Serialize(call) PROVE TypeOK'
  BY <1>1, NewCall
<1>2. ASSUME NEW i \in 1..Len(chain), StoreAnswers(i) PROVE TypeOK'
  <2>0. /\ chain[i] \in Calls /\ <<>> \in Seq(Row)
        /\ rows \in Seq(Row)
    BY Lengths DEF TypeOK
  <2>1. CASE LoadForAdd(i)
    BY <2>0, <2>1, OneCall DEF LoadForAdd, TypeOK
  <2>2. CASE LoadForMessages(i)
    <3>1. chain[i].max \in Limit
      BY <2>0, <2>2, LimitsAssumption DEF LoadForMessages, Calls
    <3>2. Window(rows, chain[i].max, TRUE) \in Seq(Row)
      BY <2>0, <3>1, WindowType
    <3> QED BY <2>2, <3>2, OneCall DEF LoadForMessages, Settle, TypeOK
  <2>3. CASE LoadFails(i)
    BY <2>0, <2>3, OneCall DEF LoadFails, Settle, TypeOK
  <2>4. CASE SaveSucceeds(i)
    BY <2>0, <2>4, OneCall, SavedType DEF SaveSucceeds, Settle, TypeOK
  <2>5. CASE SaveFails(i)
    BY <2>0, <2>5, OneCall, SavedType DEF SaveFails, Settle, TypeOK
  <2> QED BY <1>2, <2>1, <2>2, <2>3, <2>4, <2>5 DEF StoreAnswers
<1>3. CASE ForeignWrite
  <2>1. PICK role \in {"user", BadRole} : rows' = Append(rows, [id |-> -1, role |-> role])
    BY <1>3 DEF ForeignWrite
  <2>2. [id |-> -1, role |-> role] \in Row
    BY DEF Row, Roles
  <2>3. rows' \in Seq(Row)
    BY <2>1, <2>2 DEF TypeOK
  <2>4. foreign' \in 0..MaxForeign
    BY <1>3, MaxForeignAssumption DEF ForeignWrite, TypeOK
  <2> QED BY <1>3, <2>3, <2>4 DEF ForeignWrite, TypeOK
<1>4. CASE UNCHANGED vars
  BY <1>4 DEF vars, TypeOK
<1> QED BY <1>1, <1>2, <1>3, <1>4 DEF Next

LEMMA InitType == Init => TypeOK
<1> SUFFICES ASSUME Init PROVE TypeOK
  OBVIOUS
<1> DEFINE lead == [id |-> 0, role |-> "system"]
<1>1. lead \in Row
  BY DEF Row, Roles, LeadRoles
<1> HIDE DEF lead
<1>2. <<>> \in Seq(Row) /\ <<lead>> \in Seq(Row)
  BY <1>1
<1>3. rows = <<>> \/ rows = <<lead>>
  BY DEF Init, lead
<1>4. rows \in Seq(Row)
  BY <1>2, <1>3
<1> QED BY <1>4, MaxCallsAssumption, MaxForeignAssumption DEF Init, TypeOK

\* Every state of a Memory is well typed.
THEOREM MemoryTypeOK == Spec => []TypeOK
BY InitType, TypeStep, PTL DEF Spec

-----------------------------------------------------------------------------
\* A call that may run is the only one between its load and its save, every call
\* before it has settled and none after it has begun.
LEMMA Alternates ==
  ASSUME TypeOK, Chained, NEW i \in 1..Len(chain), MayRun(i)
  PROVE  /\ \A j \in 1..Len(chain) : j < i => Done(j)
         /\ \A j \in 1..Len(chain) : j > i => state[j] = "queued"
BY Lengths DEF Chained, MayRun

\* A turn in the store is older than the call that may run.
LEMMA StoreIsOlder ==
  ASSUME TypeOK, Chained, SettledTurns, NEW i \in 1..Len(chain), MayRun(i)
  PROVE  \A k \in 1..Len(rows) : rows[k].id < i
<1> SUFFICES ASSUME NEW k \in 1..Len(rows) PROVE rows[k].id < i
  OBVIOUS
<1>1. rows[k].id \in Int /\ Len(chain) \in Nat
  BY Lengths
<1>2. CASE rows[k].id <= 0
  BY <1>1, <1>2
<1>3. CASE rows[k].id > 0
  <2>1. rows[k].id \in 1..Len(chain) /\ Done(rows[k].id)
    BY <1>3 DEF SettledTurns
  <2>2. ~Done(i) /\ state[rows[k].id] # "queued"
    BY <2>1 DEF MayRun, Done
  <2>3. ~(rows[k].id > i)
    BY <1>1, <2>1, <2>2, Alternates
  <2> QED BY <1>1, <2>1, <2>2, <2>3
<1> QED BY <1>1, <1>2, <1>3
-----------------------------------------------------------------------------
\* The inductive invariant.
LEMMA InitInv == Init => IInv
<1> SUFFICES ASSUME Init PROVE IInv
  OBVIOUS
<1>1. TypeOK
  BY InitType
<1>2. Len(chain) = 0
  BY DEF Init
<1>3. \/ Len(rows) = 0
      \/ Len(rows) = 1 /\ rows[1].id = 0
  BY DEF Init
<1>4. Chained /\ LoadedInv
  BY <1>2 DEF Chained, LoadedInv
<1>5. SettledTurns /\ InCallOrder
  BY <1>3 DEF SettledTurns, InCallOrder
<1> QED BY <1>1, <1>4, <1>5 DEF IInv

LEMMA SerializeInv ==
  ASSUME IInv, NEW call \in Calls, Serialize(call)
  PROVE  IInv'
<1>0. TypeOK
  BY DEF IInv
<1>1. /\ Len(chain) \in Nat /\ Len(chain') = Len(chain) + 1
      /\ \A j \in 1..Len(chain) :
           chain'[j] = chain[j] /\ state'[j] = state[j] /\ local'[j] = local[j]
      /\ state'[Len(chain) + 1] = "queued"
      /\ TypeOK' /\ rows' = rows /\ foreign' = foreign
  BY <1>0, NewCall, Lengths DEF Serialize
<1>2. Chained'
  BY <1>1 DEF IInv, Chained, Done
<1>3. SettledTurns'
  BY <1>1 DEF IInv, SettledTurns, Done
<1>4. LoadedInv'
  <2>1. LoadedInv
    BY DEF IInv
  <2> SUFFICES ASSUME NEW i \in 1..Len(chain'), state'[i] = "loaded"
               PROVE  /\ chain'[i].kind = "add"
                      /\ Alone' => local'[i] = rows'
                      /\ Sorted(local'[i])
                      /\ \A k \in 1..Len(local'[i]) : local'[i][k].id < i
    BY Zenon DEF LoadedInv, Sorted
  <2>2. i \in 1..Len(chain)
    BY <1>1
  <2> QED BY <1>1, <2>1, <2>2 DEF LoadedInv, Alone
<1>5. InCallOrder'
  BY <1>1 DEF IInv, InCallOrder
<1> QED BY <1>1, <1>2, <1>3, <1>4, <1>5 DEF IInv

\* Settling or loading call i keeps the settled calls a prefix of the chain.
LEMMA ChainedStep ==
  ASSUME IInv, NEW i \in 1..Len(chain), MayRun(i), chain' = chain,
         state'[i] \in {"loaded", "ok", "rejected"},
         \A j \in 1..Len(chain) : j # i => state'[j] = state[j]
  PROVE  /\ Chained'
         /\ \A j \in 1..Len(chain) : state[j] # "loaded" \/ j = i
         /\ \A j \in 1..Len(chain) : Done(j) => Done(j)' /\ j < i
<1>0. TypeOK /\ Chained /\ Len(chain) \in Nat
  BY Lengths DEF IInv
<1>1. /\ \A j \in 1..Len(chain) : j < i => Done(j)
      /\ \A j \in 1..Len(chain) : j > i => state[j] = "queued"
      /\ ~Done(i)
  BY <1>0, Alternates DEF MayRun
<1> QED BY <1>0, <1>1 DEF Chained, Done

\* The store after a save: still sorted, still of settled calls.
LEMMA SaveInv ==
  ASSUME IInv, NEW i \in 1..Len(chain), SaveSucceeds(i) \/ SaveFails(i)
  PROVE  IInv'
<1>0. /\ TypeOK /\ TypeOK' /\ Len(chain) \in Nat /\ Len(rows) \in Nat
      /\ chain[i] \in Calls /\ local[i] \in Seq(Row) /\ MayRun(i)
      /\ chain' = chain /\ foreign' = foreign /\ <<>> \in Seq(Row)
  <2>1. TypeOK' 
    BY TypeStep DEF IInv, Next, StoreAnswers
  <2> QED BY <2>1, Lengths DEF IInv, SaveSucceeds, SaveFails, Saving, Settle
<1>1. /\ \A j \in 1..Len(chain) : j # i => state'[j] = state[j] /\ local'[j] = local[j]
      /\ state'[i] \in {"ok", "rejected"}
  BY <1>0, OneCall DEF SaveSucceeds, SaveFails, Settle
<1>2. /\ Chained'
      /\ \A j \in 1..Len(chain) : state[j] # "loaded" \/ j = i
      /\ \A j \in 1..Len(chain) : Done(j) => Done(j)' /\ j < i
  BY <1>0, <1>1, ChainedStep
<1>3. \A j \in 1..Len(chain) : state'[j] # "loaded"
  BY <1>0, <1>1, <1>2
<1>4. LoadedInv'
  BY <1>0, <1>3 DEF LoadedInv
<1>5. CASE rows' = rows
  BY <1>0, <1>2, <1>4, <1>5 DEF IInv, SettledTurns, InCallOrder
<1>6. CASE rows' = Saved(i) /\ chain[i].kind = "add"
  <2>1. /\ state[i] = "loaded" /\ LoadedInv
    BY <1>6 DEF SaveSucceeds, SaveFails, Saving, IInv
  <2>2. /\ Sorted(local[i])
        /\ \A k \in 1..Len(local[i]) : local[i][k].id < i
    BY <2>1 DEF LoadedInv
  <2>3. /\ Len(local[i]) \in Nat
        /\ Len(rows') = Len(local[i]) + 1
        /\ \A k \in 1..Len(local[i]) : rows'[k] = local[i][k]
        /\ rows'[Len(local[i]) + 1].id = i
        /\ \A k \in 1..Len(local[i]) : local[i][k].id \in Int
    <3>1. \A k \in 1..Len(local[i]) : local[i][k] \in Row
      BY <1>0, ElementOfSeq
    <3> QED BY <1>0, <1>6, <3>1, SavedType, LenProperties DEF Row
  <2>4. \A k \in 1..Len(rows') : rows'[k].id <= i /\ rows'[k].id \in Int
    BY <2>2, <2>3
  <2>5. SettledTurns'
    <3> SUFFICES ASSUME NEW k \in 1..Len(rows'), rows'[k].id > 0
                 PROVE  /\ rows'[k].id \in 1..Len(chain')
                        /\ state'[rows'[k].id] \in {"ok", "rejected"}
      BY DEF SettledTurns, Done
    <3>1. rows'[k].id \in 1..i
      BY <2>4
    <3>2. \A j \in 1..i : state'[j] \in {"ok", "rejected"}
      BY <1>0, <1>1, <1>2, Alternates DEF IInv, Done
    <3> QED BY <1>0, <3>1, <3>2
  <2>6. InCallOrder'
    <3> SUFFICES ASSUME NEW k \in 1..Len(rows'), NEW l \in 1..Len(rows'), k < l,
                        rows'[k].id >= 0, rows'[l].id >= 0
                 PROVE  rows'[k].id < rows'[l].id
      BY DEF InCallOrder
    <3>1. k \in 1..Len(local[i])
      BY <2>3
    <3>2. CASE l = Len(local[i]) + 1
      BY <2>2, <2>3, <3>1, <3>2
    <3>3. CASE l \in 1..Len(local[i])
      BY <2>2, <2>3, <3>1, <3>3 DEF Sorted
    <3> QED BY <2>3, <3>2, <3>3
  <2> QED BY <1>0, <1>2, <1>4, <2>5, <2>6 DEF IInv
<1>7. CASE rows' = Saved(i) /\ chain[i].kind # "add"
  <2>1. Len(rows') = 0
    BY <1>7 DEF Saved
  <2> QED BY <1>0, <1>2, <1>4, <2>1 DEF IInv, SettledTurns, InCallOrder
<1> QED BY <1>5, <1>6, <1>7 DEF SaveSucceeds, SaveFails

\* A load that answers, and a call that settles without a save.
LEMMA LoadInv ==
  ASSUME IInv, NEW i \in 1..Len(chain),
         LoadForAdd(i) \/ LoadForMessages(i) \/ LoadFails(i)
  PROVE  IInv'
<1>0. /\ TypeOK /\ TypeOK' /\ Len(chain) \in Nat /\ Len(rows) \in Nat
      /\ chain[i] \in Calls /\ MayRun(i) /\ rows \in Seq(Row)
      /\ chain' = chain /\ foreign' = foreign /\ rows' = rows
      /\ Chained /\ SettledTurns /\ LoadedInv /\ InCallOrder
  <2>1. TypeOK'
    BY TypeStep DEF IInv, Next, StoreAnswers
  <2> QED BY <2>1, Lengths DEF IInv, TypeOK, LoadForAdd, LoadForMessages, LoadFails, Loading, Settle
<1>1. \/ LoadForAdd(i) /\ state'[i] = "loaded" /\ local'[i] = rows
      \/ ~LoadForAdd(i) /\ state'[i] \in {"ok", "rejected"}
  <2>1. CASE LoadForAdd(i)
    BY <1>0, <2>1, OneCall DEF LoadForAdd
  <2>2. CASE LoadForMessages(i)
    <3>1. Window(rows, chain[i].max, TRUE) \in Seq(Row)
      BY <1>0, <2>2, WindowType, LimitsAssumption DEF LoadForMessages, Calls
    <3>2. state'[i] = "ok" /\ chain[i].kind # "add"
      BY <1>0, <2>2, <3>1, OneCall DEF LoadForMessages, Settle
    <3> QED BY <3>2 DEF LoadForAdd
  <2>3. CASE LoadFails(i)
    <3>1. <<>> \in Seq(Row)
      OBVIOUS
    <3>2. state'[i] = "rejected"
      BY <1>0, <2>3, <3>1, OneCall DEF LoadFails, Settle
    <3>3. LoadForAdd(i) => state'[i] = "loaded"
      BY <1>0, OneCall DEF LoadForAdd
    <3> QED BY <3>2, <3>3
  <2> QED BY <2>1, <2>2, <2>3
<1>2. \A j \in 1..Len(chain) : j # i => state'[j] = state[j] /\ local'[j] = local[j]
  BY <1>0, TouchesOne DEF StoreAnswers
<1>3. /\ Chained'
      /\ \A j \in 1..Len(chain) : state[j] # "loaded" \/ j = i
      /\ \A j \in 1..Len(chain) : Done(j) => Done(j)' /\ j < i
  BY <1>0, <1>1, <1>2, ChainedStep
<1>4. SettledTurns'
  <2> SUFFICES ASSUME NEW k \in 1..Len(rows), rows[k].id > 0
               PROVE  /\ rows[k].id \in 1..Len(chain)
                      /\ state'[rows[k].id] \in {"ok", "rejected"}
    BY <1>0 DEF SettledTurns, Done
  <2> QED BY <1>0, <1>3 DEF SettledTurns, Done
<1>5. LoadedInv'
  <2> SUFFICES ASSUME NEW j \in 1..Len(chain), state'[j] = "loaded"
               PROVE  /\ chain[j].kind = "add"
                      /\ Alone => local'[j] = rows
                      /\ Sorted(local'[j])
                      /\ \A k \in 1..Len(local'[j]) : local'[j][k].id < j
    BY <1>0, Zenon DEF LoadedInv, Sorted, Alone
  <2>1. j = i /\ LoadForAdd(i)
    BY <1>1, <1>2, <1>3
  <2>2. chain[i].kind = "add" /\ local'[i] = rows
    BY <1>1, <2>1 DEF LoadForAdd
  <2>3. Sorted(rows)
    BY <1>0 DEF InCallOrder, Sorted
  <2>4. \A k \in 1..Len(rows) : rows[k].id < i
    BY <1>0, StoreIsOlder
  <2> QED BY <2>1, <2>2, <2>3, <2>4
<1>6. InCallOrder'
  BY <1>0 DEF InCallOrder
<1> QED BY <1>0, <1>3, <1>4, <1>5, <1>6 DEF IInv

LEMMA ForeignInv ==
  ASSUME IInv, ForeignWrite
  PROVE  IInv'
<1>0. /\ TypeOK /\ TypeOK' /\ rows \in Seq(Row) /\ Len(rows) \in Nat
      /\ chain' = chain /\ state' = state /\ local' = local
      /\ foreign \in Nat /\ foreign' = foreign + 1
      /\ Chained /\ SettledTurns /\ LoadedInv /\ InCallOrder
  <2>1. TypeOK'
    BY TypeStep DEF IInv, Next
  <2> QED BY <2>1, Lengths DEF IInv, TypeOK, ForeignWrite
<1>1. PICK role \in {"user", BadRole} : rows' = Append(rows, [id |-> -1, role |-> role])
  BY DEF ForeignWrite
<1>2. [id |-> -1, role |-> role] \in Row
  BY DEF Row, Roles
<1>3. /\ Len(rows') = Len(rows) + 1
      /\ \A k \in 1..Len(rows) : rows'[k] = rows[k]
      /\ rows'[Len(rows) + 1].id = -1
  BY <1>0, <1>1, <1>2
<1>4. Chained'
  BY <1>0 DEF Chained, Done
<1>5. SettledTurns'
  BY <1>0, <1>3 DEF SettledTurns, Done
<1>6. LoadedInv'
  BY <1>0 DEF LoadedInv, Sorted, Alone
<1>7. InCallOrder'
  BY <1>0, <1>3 DEF InCallOrder
<1> QED BY <1>0, <1>4, <1>5, <1>6, <1>7 DEF IInv

LEMMA StepInv == IInv /\ [Next]_vars => IInv'
<1> SUFFICES ASSUME IInv, [Next]_vars PROVE IInv'
  OBVIOUS
<1>1. ASSUME NEW call \in Calls, Serialize(call) PROVE IInv'
  BY <1>1, SerializeInv
<1>2. ASSUME NEW i \in 1..Len(chain), StoreAnswers(i) PROVE IInv'
  BY <1>2, LoadInv, SaveInv DEF StoreAnswers
<1>3. CASE ForeignWrite
  BY <1>3, ForeignInv
<1>4. CASE UNCHANGED vars
  BY <1>4 DEF vars, IInv, TypeOK, Chained, SettledTurns, LoadedInv, InCallOrder,
              Sorted, Alone, Done
<1> QED BY <1>1, <1>2, <1>3, <1>4 DEF Next

LEMMA AlwaysInv == Spec => []IInv
BY InitInv, StepInv, PTL DEF Spec

\* The conversation keeps the order of the calls, whatever fails and whoever
\* else writes to the store.
THEOREM MemoryInCallOrder == Spec => []InCallOrder
<1>1. IInv => InCallOrder
  BY DEF IInv
<1> QED BY <1>1, AlwaysInv, PTL
-----------------------------------------------------------------------------
\* No acknowledged turn is lost.
LEMMA NoLostTurnStep == IInv /\ NoLostTurn /\ [Next]_vars => NoLostTurn'
<1> SUFFICES ASSUME IInv, NoLostTurn, [Next]_vars, Alone',
                    NEW a \in 1..Len(chain'), chain'[a].kind = "add", state'[a] = "ok",
                    \A k \in (a + 1)..Len(chain') :
                      ~(chain'[k].kind = "clear" /\ state'[k] \in {"ok", "rejected"})
             PROVE  \E k \in 1..Len(rows') : rows'[k].id = a
  BY DEF NoLostTurn, ClearedSince, Done, Holds
<1>0. /\ TypeOK /\ Chained /\ LoadedInv /\ Len(chain) \in Nat /\ Len(rows) \in Nat
      /\ rows \in Seq(Row)
  BY Lengths DEF IInv, TypeOK
<1>u. ASSUME rows' = rows, foreign' = foreign, a \in 1..Len(chain),
             \A j \in 1..Len(chain) : chain'[j] = chain[j],
             Len(chain) <= Len(chain'), Len(chain') \in Nat,
             state[a] = "ok",
             \A k \in 1..Len(chain) : Done(k) => state'[k] = state[k]
      PROVE  \E k \in 1..Len(rows') : rows'[k].id = a
  BY <1>0, <1>u DEF NoLostTurn, ClearedSince, Done, Holds, Alone
<1>1. ASSUME NEW call \in Calls, Serialize(call)
      PROVE  \E k \in 1..Len(rows') : rows'[k].id = a
  <2>1. /\ Len(chain') = Len(chain) + 1 /\ rows' = rows /\ foreign' = foreign
        /\ \A j \in 1..Len(chain) : chain'[j] = chain[j] /\ state'[j] = state[j]
        /\ state'[Len(chain) + 1] = "queued"
    BY <1>0, <1>1, NewCall DEF Serialize
  <2>2. a \in 1..Len(chain)
    BY <1>0, <2>1
  <2> QED BY <1>0, <1>u, <2>1, <2>2
<1>2. ASSUME NEW i \in 1..Len(chain), StoreAnswers(i)
      PROVE  \E k \in 1..Len(rows') : rows'[k].id = a
  <2>0. /\ MayRun(i) /\ chain' = chain /\ foreign' = foreign /\ chain[i] \in Calls
        /\ local[i] \in Seq(Row) /\ Len(local[i]) \in Nat /\ <<>> \in Seq(Row)
    <3>1. local[i] \in Seq(Row) /\ chain[i] \in Calls
      BY <1>0, Lengths
    <3> QED BY <1>2, <3>1, AnswersRunning, LenProperties
  <2>1. /\ \A j \in 1..Len(chain) : j < i => Done(j)
        /\ \A j \in 1..Len(chain) : j > i => state[j] = "queued"
        /\ ~Done(i)
    BY <1>0, <2>0, Alternates DEF MayRun
  <2>2. \A j \in 1..Len(chain) : j # i => state'[j] = state[j]
    BY <1>0, <1>2, TouchesOne
  <2>3. CASE rows' = rows /\ a # i
    BY <1>0, <1>u, <2>0, <2>1, <2>2, <2>3
  <2>4. CASE SaveSucceeds(i) \/ SaveFails(i)
    <3>1. CASE chain[i].kind = "clear"
      <4>1. state'[i] \in {"ok", "rejected"}
        BY <1>0, <2>0, <2>4, OneCall DEF SaveSucceeds, SaveFails, Settle
      <4>2. a > i
        BY <1>0, <2>0, <3>1, <4>1
      <4> QED BY <2>0, <2>1, <2>2, <4>2
    <3>2. CASE chain[i].kind = "add" /\ rows' = Saved(i)
      <4>1. /\ Len(rows') = Len(local[i]) + 1
            /\ \A k \in 1..Len(local[i]) : rows'[k] = local[i][k]
            /\ rows'[Len(local[i]) + 1].id = i
        BY <1>0, <3>2, SavedType
      <4>2. CASE a = i
        BY <2>0, <4>1, <4>2
      <4>3. CASE a # i
        <5>1. a \in 1..Len(chain) /\ state[a] = "ok" /\ chain[a].kind = "add"
          BY <2>0, <2>2, <4>3
        <5>2. ~ClearedSince(a, Len(chain))
          BY <1>0, <2>0, <2>2, <2>1, <3>2 DEF ClearedSince, Done
        <5>3. Holds(rows, a)
          BY <2>0, <5>1, <5>2 DEF NoLostTurn, Alone
        <5>4. local[i] = rows
          BY <2>0, <2>4, <3>2 DEF IInv, LoadedInv, Alone, SaveSucceeds, SaveFails, Saving
        <5> QED BY <1>0, <4>1, <5>3, <5>4 DEF Holds
      <4> QED BY <4>2, <4>3
    <3>3. CASE chain[i].kind = "add" /\ rows' = rows /\ SaveFails(i)
      <4>1. state'[i] = "rejected"
        BY <1>0, <2>0, <3>3, OneCall DEF SaveFails, Settle
      <4> QED BY <2>3, <3>3, <4>1
    <3> QED BY <2>4, <3>1, <3>2, <3>3 DEF SaveSucceeds, SaveFails, Saving
  <2>5. CASE LoadForAdd(i) \/ LoadForMessages(i) \/ LoadFails(i)
    <3>1. rows' = rows
      BY <2>5 DEF LoadForAdd, LoadForMessages, LoadFails
    <3>2. chain[i].kind = "add" => state'[i] # "ok"
      BY <1>0, <2>0, <2>5, OneCall DEF LoadForAdd, LoadForMessages, LoadFails, Settle
    <3> QED BY <2>0, <2>3, <3>1, <3>2
  <2> QED BY <1>2, <2>4, <2>5 DEF StoreAnswers
<1>3. CASE ForeignWrite
  BY <1>3, <1>0 DEF ForeignWrite, TypeOK, Alone
<1>4. CASE UNCHANGED vars
  BY <1>4, <1>0, <1>u DEF vars
<1> QED BY <1>1, <1>2, <1>3, <1>4 DEF Next

\* No lost update, for any number of calls: as long as nothing else has written
\* to the store, a turn whose add() resolved is in it until a later clear().
THEOREM MemoryNoLostTurn == Spec => []NoLostTurn
<1>1. Init => NoLostTurn
  BY DEF Init, NoLostTurn
<1> QED BY <1>1, NoLostTurnStep, AlwaysInv, PTL DEF Spec
-----------------------------------------------------------------------------
\* What a clear() forgot stays forgotten.
LEMMA ClearedStep == IInv /\ ClearedStaysCleared /\ [Next]_vars => ClearedStaysCleared'
<1> SUFFICES ASSUME IInv, ClearedStaysCleared, [Next]_vars, Alone',
                    NEW c \in 1..Len(chain'), chain'[c].kind = "clear", state'[c] = "ok",
                    NEW k \in 1..Len(rows')
             PROVE  rows'[k].id > c
  BY DEF ClearedStaysCleared
<1>0. /\ TypeOK /\ Chained /\ LoadedInv /\ Len(chain) \in Nat /\ Len(rows) \in Nat
      /\ rows \in Seq(Row)
  BY Lengths DEF IInv, TypeOK
<1>u. ASSUME rows' = rows, foreign' = foreign, c \in 1..Len(chain),
             chain[c].kind = "clear", state[c] = "ok"
      PROVE  rows'[k].id > c
  BY <1>u DEF ClearedStaysCleared, Alone
<1>1. ASSUME NEW call \in Calls, Serialize(call) PROVE rows'[k].id > c
  <2>1. /\ Len(chain') = Len(chain) + 1 /\ rows' = rows /\ foreign' = foreign
        /\ \A j \in 1..Len(chain) : chain'[j] = chain[j] /\ state'[j] = state[j]
        /\ state'[Len(chain) + 1] = "queued"
    BY <1>0, <1>1, NewCall DEF Serialize
  <2> QED BY <1>0, <1>u, <2>1
<1>2. ASSUME NEW i \in 1..Len(chain), StoreAnswers(i) PROVE rows'[k].id > c
  <2>0. /\ MayRun(i) /\ chain' = chain /\ foreign' = foreign /\ <<>> \in Seq(Row)
    BY <1>2, AnswersRunning
  <2>1. /\ \A j \in 1..Len(chain) : j < i => Done(j)
        /\ \A j \in 1..Len(chain) : j > i => state[j] = "queued"
    BY <1>0, <2>0, Alternates
  <2>2. \A j \in 1..Len(chain) : j # i => state'[j] = state[j]
    BY <1>0, <1>2, TouchesOne
  <2>3. CASE c # i
    <3>1. c \in 1..Len(chain) /\ chain[c].kind = "clear" /\ state[c] = "ok"
      BY <2>0, <2>2, <2>3
    <3>2. c < i
      BY <1>0, <2>1, <2>3, <3>1
    <3>3. CASE rows' = rows
      BY <1>u, <2>0, <3>1, <3>3
    <3>4. CASE (SaveSucceeds(i) \/ SaveFails(i)) /\ rows' = Saved(i) /\ chain[i].kind = "add"
      <4>1. local[i] = rows
        BY <2>0, <3>4 DEF IInv, LoadedInv, Alone, SaveSucceeds, SaveFails, Saving
      <4>2. /\ Len(rows') = Len(rows) + 1
            /\ \A l \in 1..Len(rows) : rows'[l] = rows[l]
            /\ rows'[Len(rows) + 1].id = i
        BY <1>0, <3>4, <4>1, SavedType
      <4>3. \A l \in 1..Len(rows) : rows[l].id > c
        BY <2>0, <3>1 DEF ClearedStaysCleared, Alone
      <4> QED BY <1>0, <3>2, <4>2, <4>3
    <3>5. CASE rows' = Saved(i) /\ chain[i].kind # "add"
      BY <3>5 DEF Saved
    <3> QED BY <1>2, <3>3, <3>4, <3>5
            DEF StoreAnswers, LoadForAdd, LoadForMessages, LoadFails, SaveSucceeds, SaveFails
  <2>4. CASE c = i
    <3>1. ~LoadForAdd(i) /\ ~LoadForMessages(i) /\ ~LoadFails(i)
      BY <2>0, <2>4 DEF LoadForAdd, LoadForMessages, LoadFails, Loading
    <3>2. SaveFails(i) => state'[i] = "rejected"
      BY <1>0, <2>0, OneCall DEF SaveFails, Settle
    <3>3. rows' = <<>>
      BY <1>2, <2>0, <2>4, <3>1, <3>2 DEF StoreAnswers, SaveSucceeds, Saved
    <3> QED BY <3>3
  <2> QED BY <2>3, <2>4
<1>3. CASE ForeignWrite
  BY <1>3, <1>0 DEF ForeignWrite, TypeOK, Alone
<1>4. CASE UNCHANGED vars
  BY <1>4, <1>u DEF vars
<1> QED BY <1>1, <1>2, <1>3, <1>4 DEF Next

\* "Forget everything. Reaches the store": while nothing else has written to the
\* store, no turn added before a clear() that resolved comes back.
THEOREM MemoryClearedStaysCleared == Spec => []ClearedStaysCleared
<1>1. Init => ClearedStaysCleared
  BY DEF Init, ClearedStaysCleared
<1> QED BY <1>1, ClearedStep, AlwaysInv, PTL DEF Spec

\* A conversation keeps what was acknowledged, in order and once, and forgets what it
\* was told to, for any number of calls and any failures of the store.
THEOREM MemoryTurnsAreKept == Spec => []TurnsAreKept
<1>1. NoLostTurn /\ InCallOrder /\ ClearedStaysCleared => TurnsAreKept
  BY DEF TurnsAreKept
<1> QED BY <1>1, MemoryNoLostTurn, MemoryInCallOrder, MemoryClearedStaysCleared, PTL
-----------------------------------------------------------------------------
\* What messages() answers.
LEMMA ReadsStep ==
  IInv /\ NoLostTurn /\ ReadsOwnWrites /\ [Next]_vars => ReadsOwnWrites'
<1> SUFFICES ASSUME IInv, NoLostTurn, ReadsOwnWrites, [Next]_vars, Alone',
                    NEW m \in 1..Len(chain'), chain'[m].kind = "messages",
                    chain'[m].max = NoLimit, state'[m] = "ok"
             PROVE  /\ \A k \in 1..Len(local'[m]) : local'[m][k].id < m
                    /\ \A a \in 1..(m - 1) :
                         /\ chain'[a].kind = "add" /\ state'[a] = "ok"
                         /\ \A k \in (a + 1)..(m - 1) :
                              ~(chain'[k].kind = "clear" /\ state'[k] \in {"ok", "rejected"})
                         => \E k \in 1..Len(local'[m]) : local'[m][k].id = a
  BY DEF ReadsOwnWrites, ClearedSince, Done, Holds
<1> DEFINE Goal ==
      /\ \A k \in 1..Len(local'[m]) : local'[m][k].id < m
      /\ \A a \in 1..(m - 1) :
           /\ chain'[a].kind = "add" /\ state'[a] = "ok"
           /\ \A k \in (a + 1)..(m - 1) :
                ~(chain'[k].kind = "clear" /\ state'[k] \in {"ok", "rejected"})
           => \E k \in 1..Len(local'[m]) : local'[m][k].id = a
<1>0. /\ TypeOK /\ Chained /\ SettledTurns /\ Len(chain) \in Nat /\ Len(rows) \in Nat
      /\ rows \in Seq(Row)
  BY Lengths DEF IInv, TypeOK
<1>u. ASSUME m \in 1..Len(chain), Alone,
             \A j \in 1..m : /\ chain'[j] = chain[j] /\ state'[j] = state[j]
                             /\ local'[j] = local[j]
      PROVE  Goal
  <2>1. /\ chain[m].kind = "messages" /\ chain[m].max = NoLimit /\ state[m] = "ok"
        /\ local'[m] = local[m]
    BY <1>u
  <2>2. /\ \A k \in 1..Len(local[m]) : local[m][k].id < m
        /\ \A a \in 1..(m - 1) :
             chain[a].kind = "add" /\ state[a] = "ok" /\ ~ClearedSince(a, m - 1)
               => Holds(local[m], a)
    BY <1>u, <2>1 DEF ReadsOwnWrites
  <2> SUFFICES ASSUME NEW a \in 1..(m - 1), chain'[a].kind = "add", state'[a] = "ok",
                      \A k \in (a + 1)..(m - 1) :
                        ~(chain'[k].kind = "clear" /\ state'[k] \in {"ok", "rejected"})
               PROVE  \E k \in 1..Len(local'[m]) : local'[m][k].id = a
    BY <2>1, <2>2
  <2>3. chain[a].kind = "add" /\ state[a] = "ok" /\ ~ClearedSince(a, m - 1)
    BY <1>0, <1>u DEF ClearedSince, Done
  <2> QED BY <2>1, <2>2, <2>3 DEF Holds
<1>1. ASSUME NEW call \in Calls, Serialize(call) PROVE Goal
  <2>1. /\ Len(chain') = Len(chain) + 1 /\ foreign' = foreign
        /\ \A j \in 1..Len(chain) :
             chain'[j] = chain[j] /\ state'[j] = state[j] /\ local'[j] = local[j]
        /\ state'[Len(chain) + 1] = "queued"
    BY <1>0, <1>1, NewCall DEF Serialize
  <2>2. m \in 1..Len(chain) /\ Alone
    BY <1>0, <2>1 DEF Alone
  <2> QED BY <1>0, <1>u, <2>1, <2>2
<1>2. ASSUME NEW i \in 1..Len(chain), StoreAnswers(i) PROVE Goal
  <2>0. /\ MayRun(i) /\ chain' = chain /\ Alone /\ chain[i] \in Calls
    BY <1>0, <1>2, AnswersRunning, Lengths DEF Alone
  <2>1. /\ \A j \in 1..Len(chain) : j < i => Done(j)
        /\ \A j \in 1..Len(chain) : j > i => state[j] = "queued"
    BY <1>0, <2>0, Alternates
  <2>2. \A j \in 1..Len(chain) : j # i => state'[j] = state[j] /\ local'[j] = local[j]
    BY <1>0, <1>2, TouchesOne
  <2>3. CASE m # i
    <3>1. m \in 1..Len(chain) /\ state[m] = "ok"
      BY <2>0, <2>2, <2>3
    <3>2. m < i
      BY <1>0, <2>1, <2>3, <3>1
    <3> QED BY <1>0, <1>u, <2>0, <2>2, <3>1, <3>2
  <2>4. CASE m = i
    <3>1. ~LoadForAdd(i) /\ ~SaveSucceeds(i) /\ ~SaveFails(i)
      BY <2>0, <2>4 DEF LoadForAdd, SaveSucceeds, SaveFails, Saving
    <3>2. <<>> \in Seq(Row)
      OBVIOUS
    <3>3. LoadFails(i) => state'[i] = "rejected"
      BY <1>0, <3>2, OneCall DEF LoadFails, Settle
    <3>4. LoadForMessages(i)
      BY <1>2, <2>4, <3>1, <3>3 DEF StoreAnswers
    <3>5. Window(rows, chain[i].max, TRUE) = rows
      <4>1. chain[i].max = NoLimit
        BY <2>0, <2>4
      <4>2. chain[i].max.kind = "undefined"
        BY <4>1 DEF NoLimit
      <4> QED BY <4>2 DEF Window
    <3>6. local'[i] = rows
      BY <1>0, <3>4, <3>5, OneCall DEF LoadForMessages, Settle
    <3>7. \A k \in 1..Len(rows) : rows[k].id < i
      BY <1>0, <2>0, StoreIsOlder
    <3> SUFFICES ASSUME NEW a \in 1..(i - 1), chain'[a].kind = "add", state'[a] = "ok",
                        \A k \in (a + 1)..(i - 1) :
                          ~(chain'[k].kind = "clear" /\ state'[k] \in {"ok", "rejected"})
                 PROVE  \E k \in 1..Len(rows) : rows[k].id = a
      BY <2>4, <3>6, <3>7
    <3>8. a \in 1..Len(chain) /\ chain[a].kind = "add" /\ state[a] = "ok"
      BY <1>0, <2>0, <2>2
    <3>9. ~ClearedSince(a, Len(chain))
      <4> SUFFICES ASSUME NEW k \in (a + 1)..Len(chain), chain[k].kind = "clear", Done(k)
                   PROVE  FALSE
        BY DEF ClearedSince
      <4>1. k \in 1..Len(chain) /\ k # i
        BY <1>0, <2>0, <2>4
      <4>2. k < i
        BY <1>0, <2>1, <4>1 DEF Done
      <4> QED BY <1>0, <2>0, <2>2, <4>1, <4>2 DEF Done
    <3> QED BY <2>0, <3>8, <3>9 DEF NoLostTurn, Holds
  <2> QED BY <2>3, <2>4
<1>3. CASE ForeignWrite
  BY <1>3, <1>0 DEF ForeignWrite, TypeOK, Alone
<1>4. CASE UNCHANGED vars
  BY <1>0, <1>4, <1>u DEF vars, Alone
<1> QED BY <1>1, <1>2, <1>3, <1>4 DEF Next

\* A messages() called after an add(), without waiting for it, sees its turn; it
\* sees no turn called for after itself.
THEOREM MemoryReadsOwnWrites == Spec => []ReadsOwnWrites
<1>1. Init => ReadsOwnWrites
  BY DEF Init, ReadsOwnWrites
<1> QED BY <1>1, ReadsStep, AlwaysInv, MemoryNoLostTurn, PTL DEF Spec

-----------------------------------------------------------------------------
\* Refinement: every step is a step of the log, or none.
LEMMA LogInit == Init => Log!Init
<1> SUFFICES ASSUME Init PROVE Log!Init
  OBVIOUS
<1>1. Outcomes = <<>> /\ Answers = <<>>
  BY DEF Init, Outcomes, Answers
<1> QED BY <1>1 DEF Init, Log!Init

LEMMA LogIssue ==
  ASSUME IInv, NEW call \in Calls, Serialize(call)
  PROVE  Log!Issue(call)
<1>1. /\ Len(chain) \in Nat /\ Len(chain') = Len(chain) + 1
      /\ \A j \in 1..Len(chain) : state'[j] = state[j] /\ local'[j] = local[j]
      /\ state'[Len(chain) + 1] = "queued"
  BY NewCall, Lengths DEF IInv
<1>2. Outcomes' = Append(Outcomes, "pending")
  <2>1. DOMAIN Append(Outcomes, "pending") = 1..(Len(chain) + 1)
    BY <1>1 DEF Outcomes
  <2> QED BY <1>1, <2>1 DEF Outcomes, Done
<1>3. Answers' = Append(Answers, <<>>)
  BY <1>1 DEF Answers, Done
<1> QED BY <1>2, <1>3 DEF Serialize, Log!Issue

\* Call i settles in the log when it settles in the chain.
LEMMA LogSettles ==
  ASSUME IInv, NEW i \in 1..Len(chain), StoreAnswers(i),
         NEW outcome \in {"ok", "rejected"}, NEW turns \in Seq(Row),
         Settle(i, outcome, turns)
  PROVE  /\ Log!IsNext(i)
         /\ Outcomes' = [Outcomes EXCEPT ![i] = outcome]
         /\ Answers' = [Answers EXCEPT ![i] = turns]
         /\ Answers[i] = <<>>
<1>0. TypeOK /\ MayRun(i) /\ chain' = chain /\ Len(chain) \in Nat
  BY AnswersRunning, Lengths DEF IInv
<1>1. /\ \A j \in 1..Len(chain) : j # i => state'[j] = state[j] /\ local'[j] = local[j]
      /\ state'[i] = outcome /\ local'[i] = turns
  BY <1>0, OneCall DEF Settle
<1>2. Outcomes' = [Outcomes EXCEPT ![i] = outcome]
  BY <1>0, <1>1 DEF Outcomes, Done
<1>3. Answers' = [Answers EXCEPT ![i] = turns]
  BY <1>0, <1>1 DEF Answers, Done
<1>4. Log!IsNext(i)
  BY <1>0 DEF Log!IsNext, Outcomes, MayRun, Done
<1>5. Answers[i] = <<>>
  BY <1>0 DEF Answers, MayRun
<1> QED BY <1>2, <1>3, <1>4, <1>5

LEMMA LogStep == IInv /\ Alone' /\ [Next]_vars => [Log!Next]_(Log!vars)
<1> SUFFICES ASSUME IInv, Alone', [Next]_vars PROVE [Log!Next]_(Log!vars)
  OBVIOUS
<1>0. TypeOK /\ LoadedInv /\ <<>> \in Seq(Row) /\ rows \in Seq(Row)
  BY DEF IInv, TypeOK
<1>1. ASSUME NEW call \in Calls, Serialize(call) PROVE Log!Next
  BY <1>1, LogIssue DEF Log!Next, Log!Calls, Calls
<1>2. ASSUME NEW i \in 1..Len(chain), StoreAnswers(i) PROVE [Log!Next]_(Log!vars)
  <2>0. /\ MayRun(i) /\ chain' = chain /\ Alone /\ chain[i] \in Calls
    BY <1>0, <1>2, AnswersRunning, Lengths DEF Alone
  <2>1. CASE LoadForAdd(i)
    <3>1. /\ \A j \in 1..Len(chain) : j # i => state'[j] = state[j] /\ local'[j] = local[j]
          /\ state'[i] = "loaded"
      BY <1>0, <2>1, OneCall DEF LoadForAdd
    <3>2. \A j \in 1..Len(chain) :
            /\ Done(j) <=> Done(j)'
            /\ Done(j) => state'[j] = state[j] /\ local'[j] = local[j]
      BY <2>0, <3>1 DEF Done, MayRun
    <3>3. Outcomes' = Outcomes /\ Answers' = Answers
      BY <2>0, <3>2 DEF Outcomes, Answers
    <3> QED BY <2>1, <3>3 DEF LoadForAdd, Log!vars
  <2>2. CASE LoadForMessages(i)
    <3> DEFINE turns == Window(rows, chain[i].max, TRUE)
    <3>1. turns \in Seq(Row)
      BY <1>0, <2>0, <2>2, WindowType, LimitsAssumption DEF LoadForMessages, Calls
    <3>2. Settle(i, "ok", turns) /\ rows' = rows /\ chain[i].kind = "messages"
      BY <2>2 DEF LoadForMessages
    <3>3. Log!Effect(i) = rows /\ Log!Answer(i) = turns
      BY <3>2 DEF Log!Effect, Log!Answer, Window, Log!Window, Floor, Log!Floor,
                  Pruned, Log!Pruned, LastTurns, Log!LastTurns, HasLead, Log!HasLead,
                  LeadRoles, Log!LeadRoles
    <3> HIDE DEF turns
    <3>4. Log!Succeed(i)
      BY <1>2, <2>0, <3>1, <3>2, <3>3, LogSettles DEF Log!Succeed
    <3> QED BY <3>4 DEF Log!Next
  <2>3. CASE LoadFails(i)
    <3>1. Settle(i, "rejected", <<>>) /\ rows' = rows
      BY <2>3 DEF LoadFails
    <3>2. Log!Reject(i)
      <4>1. Answers' = Answers
        BY <1>0, <1>2, <3>1, LogSettles DEF Answers
      <4> QED BY <1>0, <1>2, <2>0, <3>1, <4>1, LogSettles DEF Log!Reject
    <3> QED BY <3>2 DEF Log!Next
  <2>4. CASE SaveSucceeds(i) \/ SaveFails(i)
    <3>1. Saved(i) = Log!Effect(i) /\ Log!Answer(i) = <<>>
      <4>1. chain[i].kind = "add" => local[i] = rows
        BY <2>0, <2>4, <1>0 DEF LoadedInv, SaveSucceeds, SaveFails, Saving
      <4> QED BY <2>4, <4>1 DEF Saved, Log!Effect, Log!Answer, SaveSucceeds, SaveFails, Saving
    <3>2. CASE SaveSucceeds(i)
      <4>1. Settle(i, "ok", <<>>) /\ rows' = Saved(i)
        BY <3>2 DEF SaveSucceeds
      <4>2. Log!Succeed(i)
        BY <1>0, <1>2, <2>0, <3>1, <4>1, LogSettles DEF Log!Succeed
      <4> QED BY <4>2 DEF Log!Next
    <3>3. CASE SaveFails(i)
      <4>1. Settle(i, "rejected", <<>>) /\ rows' \in {rows, Saved(i)}
        BY <3>3 DEF SaveFails
      <4>2. Answers' = Answers
        BY <1>0, <1>2, <4>1, LogSettles DEF Answers
      <4>3. Log!Reject(i)
        BY <1>0, <1>2, <2>0, <3>1, <4>1, <4>2, LogSettles DEF Log!Reject
      <4> QED BY <4>3 DEF Log!Next
    <3> QED BY <2>4, <3>2, <3>3
  <2> QED BY <1>2, <2>1, <2>2, <2>3, <2>4 DEF StoreAnswers
<1>3. CASE ForeignWrite
  BY <1>3, <1>0 DEF ForeignWrite, TypeOK, Alone
<1>4. CASE UNCHANGED vars
  <2>1. Outcomes' = Outcomes /\ Answers' = Answers
    BY <1>4 DEF vars, Outcomes, Answers, Done
  <2> QED BY <1>4, <2>1 DEF vars, Log!vars
<1> QED BY <1>1, <1>2, <1>3, <1>4 DEF Next

\* A Memory is a log of calls that act one at a time, in the order they were
\* made, as long as nothing else has written to its store.
THEOREM MemoryImplementsLog == Spec => ImplementsLog
<1>1. IInv /\ [Next]_vars => [Alone' => [Log!Next]_(Log!vars)]_vars
  BY LogStep
<1> QED BY <1>1, LogInit, AlwaysInv, PTL DEF Spec, ImplementsLog
=============================================================================
