--------------------------- MODULE SupportChat_proofs ---------------------------
(***************************************************************************)
(* The chat of the support agent, for any number of requests of a session, *)
(* any interleaving of them and their consumers, and answers of any length.*)
(*                                                                         *)
(* Three strengthenings carry the properties.  StreamInv: what a request   *)
(* has emitted is known by where it is.  TextInv: while it answers, its    *)
(* text has one token for each that was shown.  Delivered, of the store    *)
(* and of every list a request has loaded: whoever overwrites whom, a      *)
(* remembered answer is what was shown, and has had its cost.  SessionInv: *)
(* while no two requests were in the session at once, the one that is has  *)
(* its question as the last row, or a copy of the store in hand.           *)
(***************************************************************************)
EXTENDS SupportChat, SequenceTheorems, FiniteSetTheorems, TLAPS

Row    == [request : Requests, role : {"user", "assistant"}, says : Seq({1, 2})]
Early  == {"retrieve", "addLoad", "addSave", "recall", "answer", "retry"}
Keep   == {"keepLoad", "keepSave"}
Places == Early \cup Keep \cup {"raised", "finished", "gone"}
Kinds  == {"context", "token", "cost", "error", "done"}

TypeOK ==
  /\ store \in Seq(Row)
  /\ pc \in [Requests -> Places]
  /\ held \in [Requests -> BOOLEAN] /\ cancelled \in [Requests -> BOOLEAN]
  /\ events \in [Requests -> Seq(Kinds)]
  /\ searched \in [Requests -> BOOLEAN]
  /\ local \in [Requests -> Seq(Row)] /\ history \in [Requests -> Seq(Row)]
  /\ said \in [Requests -> Seq({1, 2})]
  /\ overlapped \in BOOLEAN

-----------------------------------------------------------------------------
\* What a stream of events looks like, by the place of its request.
Closing == {"cost", "error", "done"}

Running(e)  == \A k \in 1..Len(e) : e[k] \notin Closing

Costed(e) ==
  /\ Len(e) > 0 /\ e[Len(e)] = "cost"
  /\ \A k \in 1..(Len(e) - 1) : e[k] \notin Closing

Raised(e) ==
  /\ Len(e) > 0 /\ e[Len(e)] = "error"
  /\ \A k \in 1..(Len(e) - 1) : e[k] \in Closing => e[k] = "cost" /\ k = Len(e) - 1

Finished(e) ==
  /\ Len(e) > 0 /\ e[Len(e)] = "done"
  /\ \A k \in 1..(Len(e) - 1) :
       /\ e[k] # "done"
       /\ e[k] = "error" => k = Len(e) - 1
       /\ e[k] = "cost"  => \A l \in (k + 1)..Len(e) : e[l] \in {"error", "done"}

StreamInv ==
  \A r \in Requests :
    /\ pc[r] \in Early      => Running(events[r])
    /\ pc[r] \in Keep       => Costed(events[r])
    /\ pc[r] = "raised"     => Raised(events[r])
    /\ pc[r] = "finished"   => Finished(events[r])
    /\ pc[r] = "gone"       => Running(events[r]) \/ Costed(events[r]) \/ Raised(events[r])

\* The tokens of the retry are behind those of the blocked attempt.
Ordered(text) == \A i, j \in 1..Len(text) : i < j => text[i] <= text[j]

\* The text of a request that answers is what was shown of it.
TextInv ==
  \A r \in Requests :
    /\ Ordered(said[r])
    /\ pc[r] \in Early \cup Keep => Len(said[r]) = Count(events[r], "token")
    /\ pc[r] \in Early \ {"retry"} => \A k \in 1..Len(said[r]) : said[r][k] = 1

\* Every answer among rows has had its cost, and is what was shown.
Delivered(rows) ==
  \A k \in 1..Len(rows) : rows[k].role = "assistant" =>
    /\ Count(events[rows[k].request], "cost") = 1
    /\ Len(rows[k].says) = Count(events[rows[k].request], "token")
    /\ Ordered(rows[k].says)

DeliveredInv == Delivered(store) /\ \A r \in Requests : Delivered(local[r])

\* The requests that have asked and not been answered.
Asking == {"recall", "answer", "retry", "keepLoad", "keepSave"}

\* No answer to r is among rows.
Unanswered(rows, r) == \A k \in 1..Len(rows) : ~(rows[k].request = r /\ rows[k].role = "assistant")

\* One request at a time.
OneInSession == \A q, r \in Requests : InSession(q) /\ InSession(r) => q = r

\* What the store and its copy hold for request r, by where it is.
Place(r) ==
  /\ pc[r] \in {"retrieve", "addLoad", "addSave"} =>
       \A k \in 1..Len(store) : store[k].request # r
  /\ pc[r] \in {"addSave", "keepSave"} => local[r] = store
  /\ pc[r] \in Asking =>
       /\ Len(store) > 0 /\ store[Len(store)] = Question(r)
       /\ Unanswered(store, r)
  /\ pc[r] = "finished" /\ (\A k \in 1..Len(events[r]) : events[r][k] # "error") =>
       /\ \E k \in 1..Len(store) : store[k] = Question(r)
       /\ said[r] # <<>> => \E k \in 1..Len(store) : store[k] = Reply(r)
  /\ pc[r] \in {"answer", "retry"} =>
       history[r] # <<>> /\ history[r][Len(history[r])] = Question(r)

\* The store is a dialogue: each answer behind its question, each turn once.
Dialogue(rows) ==
  /\ \A k \in 1..Len(rows) : rows[k].role = "assistant" =>
       k > 1 /\ rows[k - 1] = Question(rows[k].request)
  /\ \A k, l \in 1..Len(rows) : SameTurn(rows[k], rows[l]) => k = l

SessionInv == OneInSession /\ (\A r \in Requests : Place(r)) /\ Dialogue(store)

IInv == TypeOK /\ StreamInv /\ TextInv /\ DeliveredInv /\ (~overlapped => SessionInv)

-----------------------------------------------------------------------------
\* What one request does to where it is and to what it has emitted.
Moves(r, from, to) ==
  pc[r] \in from /\ pc'[r] \in to /\ events'[r] = events[r] /\ said'[r] = said[r]

Yields(r, from, kind, to) ==
  /\ pc[r] \in from /\ said'[r] = said[r]
  /\ \/ pc'[r] = "gone" /\ events'[r] = events[r]
     \/ pc'[r] \in to /\ events'[r] = Append(events[r], kind)

Says(r) ==
  /\ pc[r] \in {"answer", "retry"} /\ said'[r] = Append(said[r], Attempt(r))
  /\ \/ pc'[r] = "gone" /\ events'[r] = events[r]
     \/ pc'[r] = pc[r] /\ events'[r] = Append(events[r], "token")

StreamMove(r) ==
  \/ Yields(r, Early \cup Keep, "error", {"raised"})
  \/ Yields(r, {"retrieve"}, "context", {"addLoad"})
  \/ Says(r)
  \/ Yields(r, {"answer", "retry"}, "cost", {"keepLoad"})
  \/ Yields(r, Keep \cup {"raised"}, "done", {"finished"})
  \/ Moves(r, Early \ {"retry"}, Early)
  \/ Moves(r, Keep, Keep)
  \/ Moves(r, Places \ {"finished"}, {"gone"})
  \/ pc'[r] = pc[r] /\ events'[r] = events[r] /\ said'[r] = said[r]

\* The other requests are where they were, with what they had.
OthersRest(r) ==
  \A q \in Requests \ {r} :
    /\ pc'[q] = pc[q] /\ events'[q] = events[q] /\ local'[q] = local[q]
    /\ history'[q] = history[q] /\ said'[q] = said[q]

\* The part of the state that Goto and Emit write.
Control(r) ==
  /\ pc' \in [Requests -> Places] /\ held' \in [Requests -> BOOLEAN]
  /\ events' \in [Requests -> Seq(Kinds)]
  /\ \A q \in Requests \ {r} : pc'[q] = pc[q] /\ events'[q] = events[q]

LEMMA GotoMoves ==
  ASSUME TypeOK, NEW r \in Requests, NEW next \in Places, Goto(r, next)
  PROVE  Control(r) /\ pc'[r] = next /\ events' = events
BY DEF TypeOK, Goto, Control

LEMMA EmitMoves ==
  ASSUME TypeOK, NEW r \in Requests, NEW kind \in Kinds, NEW next \in Places, Emit(r, kind, next)
  PROVE  /\ Control(r)
         /\ \/ pc'[r] = "gone" /\ events'[r] = events[r]
            \/ pc'[r] = next /\ events'[r] = Append(events[r], kind)
<1>1. "gone" \in Places
  BY DEF Places
<1>2. CASE cancelled[r]
  <2>1. Goto(r, "gone")
    BY <1>2 DEF Emit
  <2> QED BY <1>1, <2>1, GotoMoves
<1>3. CASE ~cancelled[r]
  <2>1. /\ events' = [events EXCEPT ![r] = Append(events[r], kind)]
        /\ pc' = [pc EXCEPT ![r] = next] /\ held' = [held EXCEPT ![r] = TRUE]
    BY <1>3 DEF Emit
  <2>2. Append(events[r], kind) \in Seq(Kinds)
    BY AppendProperties DEF TypeOK
  <2> QED BY <2>1, <2>2 DEF TypeOK, Control
<1> QED BY <1>2, <1>3

LEMMA RaiseMoves ==
  ASSUME TypeOK, NEW r \in Requests, Raise(r), pc[r] \in Early \cup Keep
  PROVE  /\ Control(r) /\ (said' = said => StreamMove(r))
         /\ \/ pc'[r] = "gone" /\ events'[r] = events[r]
            \/ pc'[r] = "raised" /\ events'[r] = Append(events[r], "error")
<1>1. "error" \in Kinds /\ "raised" \in Places
  BY DEF Kinds, Places
<1>2. /\ Control(r)
      /\ \/ pc'[r] = "gone" /\ events'[r] = events[r]
         \/ pc'[r] = "raised" /\ events'[r] = Append(events[r], "error")
  BY <1>1, EmitMoves DEF Raise
<1> QED BY <1>2 DEF StreamMove, Yields

\* Each step keeps the types, is a move of the stream and leaves the others alone.
Orderly(r) == TypeOK' /\ StreamMove(r) /\ OthersRest(r)

LEMMA ConsumerOrderly ==
  ASSUME TypeOK, NEW r \in Requests, Pull(r) \/ Cancel(r)
  PROVE  Orderly(r)
<1>1. UNCHANGED <<store, events, searched, local, history, said, overlapped>>
  BY DEF Pull, Cancel
<1>2. CASE Pull(r)
  <2>1. held' = [held EXCEPT ![r] = FALSE] /\ pc' = pc /\ cancelled' = cancelled
    BY <1>2 DEF Pull
  <2> QED BY <1>1, <2>1 DEF Orderly, TypeOK, StreamMove, OthersRest
<1>3. CASE Cancel(r)
  <2>1. pc[r] \in Places \ {"finished"} /\ held' = held
    BY <1>3 DEF Cancel, TypeOK
  <2>2. CASE held[r]
    <3>1. pc' = [pc EXCEPT ![r] = "gone"] /\ cancelled' = cancelled
      BY <1>3, <2>2 DEF Cancel
    <3>2. pc' \in [Requests -> Places] /\ pc'[r] = "gone"
          /\ \A q \in Requests \ {r} : pc'[q] = pc[q]
      BY <3>1 DEF TypeOK, Places
    <3> QED BY <1>1, <2>1, <3>1, <3>2 DEF Orderly, TypeOK, StreamMove, Moves, OthersRest
  <2>3. CASE ~held[r]
    <3>1. cancelled' = [cancelled EXCEPT ![r] = TRUE] /\ pc' = pc
      BY <1>3, <2>3 DEF Cancel
    <3> QED BY <1>1, <2>1, <3>1 DEF Orderly, TypeOK, StreamMove, OthersRest
  <2> QED BY <2>2, <2>3
<1> QED BY <1>2, <1>3

LEMMA RetrieveOrderly ==
  ASSUME TypeOK, NEW r \in Requests, Retrieve(r)
  PROVE  Orderly(r)
<1>1. /\ pc[r] = "retrieve" /\ UNCHANGED <<store, cancelled, local, history, said, overlapped>>
  BY DEF Retrieve, Runs
<1>2. CASE Raise(r) /\ UNCHANGED searched
  <2>1. Control(r) /\ StreamMove(r)
    BY <1>1, <1>2, RaiseMoves DEF Early
  <2> QED BY <1>1, <1>2, <2>1 DEF Orderly, TypeOK, Control, OthersRest
<1>3. CASE \E low \in BOOLEAN :
             /\ searched' = [searched EXCEPT ![r] = low /\ WebSearch]
             /\ Emit(r, "context", "addLoad")
  <2>1. searched' \in [Requests -> BOOLEAN]
    BY <1>3, WebSearchAssumption DEF TypeOK
  <2>2. "context" \in Kinds /\ "addLoad" \in Places
    BY DEF Kinds, Places, Early
  <2>3. Control(r) /\ Yields(r, {"retrieve"}, "context", {"addLoad"})
    BY <1>1, <1>3, <2>2, EmitMoves DEF Yields
  <2> QED BY <1>1, <2>1, <2>3 DEF Orderly, TypeOK, Control, OthersRest, StreamMove
<1> QED BY <1>2, <1>3 DEF Retrieve

LEMMA AddLoadOrderly ==
  ASSUME TypeOK, NEW r \in Requests, AddLoad(r)
  PROVE  Orderly(r)
<1>1. /\ pc[r] = "addLoad" /\ UNCHANGED <<store, cancelled, searched, history, said>>
  BY DEF AddLoad, Runs
<1>2. CASE Raise(r) /\ UNCHANGED <<local, overlapped>>
  <2>1. Control(r) /\ StreamMove(r)
    BY <1>1, <1>2, RaiseMoves DEF Early
  <2> QED BY <1>1, <1>2, <2>1 DEF Orderly, TypeOK, Control, OthersRest
<1>3. CASE /\ local' = [local EXCEPT ![r] = store]
           /\ overlapped' = (overlapped \/ \E q \in Requests \ {r} : InSession(q))
           /\ Goto(r, "addSave")
  <2>1. local' \in [Requests -> Seq(Row)] /\ overlapped' \in BOOLEAN
        /\ \A q \in Requests \ {r} : local'[q] = local[q]
    BY <1>3 DEF TypeOK
  <2>2. Control(r) /\ pc'[r] = "addSave" /\ events' = events
    BY <1>3, GotoMoves DEF Places, Early
  <2>3. Moves(r, Early \ {"retry"}, Early)
    BY <1>1, <2>2 DEF Moves, Early
  <2> QED BY <1>1, <2>1, <2>2, <2>3 DEF Orderly, TypeOK, Control, OthersRest, StreamMove
<1> QED BY <1>2, <1>3 DEF AddLoad

\* The rows a request writes are rows.
LEMMA RowsGrow ==
  ASSUME TypeOK, NEW r \in Requests
  PROVE  /\ Question(r) \in Row /\ Reply(r) \in Row
         /\ Append(local[r], Question(r)) \in Seq(Row)
         /\ Append(local[r], Reply(r)) \in Seq(Row)
<1>1. Question(r) \in Row /\ Reply(r) \in Row /\ local[r] \in Seq(Row)
  BY EmptySeq DEF Question, Reply, Row, TypeOK
<1> QED BY <1>1, AppendProperties

LEMMA AddSaveOrderly ==
  ASSUME TypeOK, NEW r \in Requests, AddSave(r)
  PROVE  Orderly(r)
<1>1. /\ pc[r] = "addSave" /\ UNCHANGED <<cancelled, searched, local, history, said, overlapped>>
  BY DEF AddSave, Runs
<1>2. store' \in Seq(Row)
  BY RowsGrow DEF AddSave, TypeOK
<1>3. Control(r) /\ StreamMove(r)
  <2>1. CASE Goto(r, "recall")
    <3>1. Control(r) /\ pc'[r] = "recall" /\ events' = events
      BY <2>1, GotoMoves DEF Places, Early
    <3> QED BY <1>1, <3>1 DEF StreamMove, Moves, Early
  <2>2. CASE Raise(r)
    BY <1>1, <2>2, RaiseMoves DEF Early
  <2> QED BY <2>1, <2>2 DEF AddSave
<1> QED BY <1>1, <1>2, <1>3 DEF Orderly, TypeOK, Control, OthersRest

LEMMA RecallOrderly ==
  ASSUME TypeOK, NEW r \in Requests, Recall(r)
  PROVE  Orderly(r)
<1>1. /\ pc[r] = "recall" /\ UNCHANGED <<store, cancelled, searched, local, said, overlapped>>
  BY DEF Recall, Runs
<1>2. /\ history' \in [Requests -> Seq(Row)]
      /\ \A q \in Requests \ {r} : history'[q] = history[q]
  BY DEF Recall, TypeOK
<1>3. Control(r) /\ StreamMove(r)
  <2>1. CASE Goto(r, "answer")
    <3>1. Control(r) /\ pc'[r] = "answer" /\ events' = events
      BY <2>1, GotoMoves DEF Places, Early
    <3> QED BY <1>1, <3>1 DEF StreamMove, Moves, Early
  <2>2. CASE Raise(r)
    BY <1>1, <2>2, RaiseMoves DEF Early
  <2> QED BY <2>1, <2>2 DEF Recall
<1> QED BY <1>1, <1>2, <1>3 DEF Orderly, TypeOK, Control, OthersRest

LEMMA AnswerOrderly ==
  ASSUME TypeOK, NEW r \in Requests, Token(r) \/ Answered(r) \/ AttemptFails(r)
  PROVE  Orderly(r)
<1>1. /\ pc[r] \in {"answer", "retry"}
      /\ UNCHANGED <<store, cancelled, searched, local, history, overlapped>>
  BY DEF Token, Answered, AttemptFails, Runs
<1>2. /\ said' \in [Requests -> Seq({1, 2})]
      /\ said'[r] = IF Token(r) THEN Append(said[r], Attempt(r)) ELSE said[r]
      /\ \A q \in Requests \ {r} : said'[q] = said[q]
  <2>1. CASE Token(r)
    <3>1. Attempt(r) \in {1, 2} /\ said[r] \in Seq({1, 2})
      BY DEF Attempt, TypeOK
    <3>2. Append(said[r], Attempt(r)) \in Seq({1, 2})
      BY <3>1, AppendProperties
    <3> QED BY <2>1, <3>2 DEF Token, TypeOK
  <2>2. CASE ~Token(r)
    <3>1. said' = said
      BY <2>2 DEF Answered, AttemptFails
    <3> QED BY <2>2, <3>1 DEF TypeOK
  <2> QED BY <2>1, <2>2
<1>3. Control(r) /\ StreamMove(r)
  <2>1. CASE Token(r)
    <3>1. "token" \in Kinds /\ pc[r] \in Places
      BY <1>1 DEF Kinds, Places, Early
    <3>2. /\ Control(r)
          /\ \/ pc'[r] = "gone" /\ events'[r] = events[r]
             \/ pc'[r] = pc[r] /\ events'[r] = Append(events[r], "token")
      BY <2>1, <3>1, EmitMoves DEF Token
    <3> QED BY <1>1, <1>2, <2>1, <3>2 DEF StreamMove, Says
  <2>2. CASE Answered(r)
    <3>1. "cost" \in Kinds /\ "keepLoad" \in Places
      BY DEF Kinds, Places, Keep
    <3>2. /\ Control(r)
          /\ \/ pc'[r] = "gone" /\ events'[r] = events[r]
             \/ pc'[r] = "keepLoad" /\ events'[r] = Append(events[r], "cost")
      BY <2>2, <3>1, EmitMoves DEF Answered
    <3> QED BY <1>1, <2>2, <3>2 DEF StreamMove, Yields, Answered
  <2>3. CASE AttemptFails(r)
    <3>1. (Goto(r, "retry") /\ pc[r] = "answer") \/ Raise(r)
      BY <2>3 DEF AttemptFails
    <3>4. said' = said
      BY <2>3 DEF AttemptFails
    <3>2. CASE Goto(r, "retry") /\ pc[r] = "answer"
      <4>1. Control(r) /\ pc'[r] = "retry" /\ events' = events
        BY <3>2, GotoMoves DEF Places, Early
      <4> QED BY <3>2, <3>4, <4>1 DEF StreamMove, Moves, Early
    <3>3. CASE Raise(r)
      BY <1>1, <3>3, <3>4, RaiseMoves DEF Early
    <3> QED BY <3>1, <3>2, <3>3
  <2> QED BY <2>1, <2>2, <2>3
<1> QED BY <1>1, <1>2, <1>3 DEF Orderly, TypeOK, Control, OthersRest

LEMMA DoneMoves ==
  ASSUME TypeOK, NEW r \in Requests, Emit(r, "done", "finished"), pc[r] \in Keep \cup {"raised"}
  PROVE  /\ Control(r) /\ (said' = said => StreamMove(r))
         /\ \/ pc'[r] = "gone" /\ events'[r] = events[r]
            \/ pc'[r] = "finished" /\ events'[r] = Append(events[r], "done")
<1>1. "done" \in Kinds /\ "finished" \in Places
  BY DEF Kinds, Places
<1>2. /\ Control(r)
      /\ \/ pc'[r] = "gone" /\ events'[r] = events[r]
         \/ pc'[r] = "finished" /\ events'[r] = Append(events[r], "done")
  BY <1>1, EmitMoves
<1> QED BY <1>2 DEF StreamMove, Yields

LEMMA KeepOrderly ==
  ASSUME TypeOK, NEW r \in Requests, KeepLoad(r) \/ KeepSave(r) \/ Done(r)
  PROVE  Orderly(r)
<1>1. CASE KeepLoad(r)
  <2>1. /\ pc[r] = "keepLoad"
        /\ UNCHANGED <<store, cancelled, searched, history, said, overlapped>>
    BY <1>1 DEF KeepLoad, Runs
  <2>2. CASE Emit(r, "done", "finished") /\ UNCHANGED local
    <3>1. Control(r) /\ StreamMove(r)
      BY <2>1, <2>2, DoneMoves DEF Keep
    <3> QED BY <2>1, <2>2, <3>1 DEF Orderly, TypeOK, Control, OthersRest
  <2>3. CASE Raise(r) /\ UNCHANGED local
    <3>1. Control(r) /\ StreamMove(r)
      BY <2>1, <2>3, RaiseMoves DEF Keep
    <3> QED BY <2>1, <2>3, <3>1 DEF Orderly, TypeOK, Control, OthersRest
  <2>4. CASE local' = [local EXCEPT ![r] = store] /\ Goto(r, "keepSave")
    <3>1. Control(r) /\ pc'[r] = "keepSave" /\ events' = events
      BY <2>4, GotoMoves DEF Places, Keep
    <3>2. StreamMove(r)
      BY <2>1, <3>1 DEF StreamMove, Moves, Keep
    <3>3. local' \in [Requests -> Seq(Row)] /\ \A q \in Requests \ {r} : local'[q] = local[q]
      BY <2>4 DEF TypeOK
    <3> QED BY <2>1, <3>1, <3>2, <3>3 DEF Orderly, TypeOK, Control, OthersRest
  <2> QED BY <1>1, <2>2, <2>3, <2>4 DEF KeepLoad
<1>2. CASE KeepSave(r)
  <2>1. /\ pc[r] = "keepSave"
        /\ UNCHANGED <<cancelled, searched, local, history, said, overlapped>>
    BY <1>2 DEF KeepSave, Runs
  <2>2. store' \in Seq(Row)
    BY <1>2, RowsGrow DEF KeepSave, TypeOK
  <2>3. Control(r) /\ StreamMove(r)
    <3>1. Emit(r, "done", "finished") \/ Raise(r)
      BY <1>2 DEF KeepSave
    <3> QED BY <2>1, <3>1, DoneMoves, RaiseMoves DEF Keep
  <2> QED BY <2>1, <2>2, <2>3 DEF Orderly, TypeOK, Control, OthersRest
<1>3. CASE Done(r)
  <2>1. /\ pc[r] = "raised" /\ Emit(r, "done", "finished")
        /\ UNCHANGED <<store, cancelled, searched, local, history, said, overlapped>>
    BY <1>3 DEF Done, Runs
  <2>2. Control(r) /\ StreamMove(r)
    BY <2>1, DoneMoves
  <2> QED BY <2>1, <2>2 DEF Orderly, TypeOK, Control, OthersRest
<1> QED BY <1>1, <1>2, <1>3

LEMMA StepOrderly ==
  ASSUME TypeOK, NEW r \in Requests, Pull(r) \/ Cancel(r) \/ Step(r)
  PROVE  Orderly(r)
BY ConsumerOrderly, RetrieveOrderly, AddLoadOrderly, AddSaveOrderly, RecallOrderly,
   AnswerOrderly, KeepOrderly DEF Step

-----------------------------------------------------------------------------
\* The shape of a stream with one more event.
LEMMA OneMoreEvent ==
  ASSUME NEW e \in Seq(Kinds), NEW x \in Kinds
  PROVE  LET f == Append(e, x) IN
         /\ x \notin Closing /\ Running(e)                => Running(f)
         /\ x = "cost"  /\ Running(e)                     => Costed(f)
         /\ x = "error" /\ (Running(e) \/ Costed(e))      => Raised(f)
         /\ x = "done"  /\ (Costed(e) \/ Raised(e))       => Finished(f)
<1> DEFINE f == Append(e, x)
<1>1. /\ Len(e) \in Nat /\ Len(f) = Len(e) + 1 /\ f[Len(e) + 1] = x
      /\ \A k \in 1..Len(e) : f[k] = e[k]
  BY AppendProperties, LenProperties
<1>2. x \notin Closing /\ Running(e) => Running(f)
  BY <1>1 DEF Running
<1>3. x = "cost" /\ Running(e) => Costed(f)
  BY <1>1 DEF Running, Costed
<1>4. x = "error" /\ Running(e) => Raised(f)
  BY <1>1 DEF Running, Raised
<1>5. x = "error" /\ Costed(e) => Raised(f)
  BY <1>1 DEF Costed, Raised
<1>6. x = "done" /\ Costed(e) => Finished(f)
  BY <1>1 DEF Costed, Finished, Closing
<1>7. x = "done" /\ Raised(e) => Finished(f)
  <2> SUFFICES ASSUME x = "done", Raised(e) PROVE Finished(f)
    OBVIOUS
  <2>1. /\ Len(e) > 0 /\ e[Len(e)] = "error"
        /\ \A k \in 1..(Len(e) - 1) : e[k] \in Closing => e[k] = "cost" /\ k = Len(e) - 1
    BY DEF Raised
  <2>2. ASSUME NEW k \in 1..Len(e)
        PROVE  /\ f[k] # "done"
               /\ f[k] = "error" => k = Len(e)
               /\ f[k] = "cost"  => \A l \in (k + 1)..Len(f) : f[l] \in {"error", "done"}
    <3>1. CASE k = Len(e)
      <4>1. f[k] = "error"
        BY <1>1, <2>1, <3>1
      <4> QED BY <3>1, <4>1
    <3>2. CASE k \in 1..(Len(e) - 1)
      <4>1. f[k] = e[k] /\ (e[k] \in Closing => e[k] = "cost" /\ k = Len(e) - 1)
        BY <1>1, <2>1, <3>2
      <4>2. f[k] # "done" /\ f[k] # "error"
        BY <4>1 DEF Closing
      <4>3. ASSUME f[k] = "cost" PROVE \A l \in (k + 1)..Len(f) : f[l] \in {"error", "done"}
        <5>1. k = Len(e) - 1
          BY <4>1, <4>3 DEF Closing
        <5>2. \A l \in (k + 1)..Len(f) : l = Len(e) \/ l = Len(e) + 1
          BY <1>1, <5>1
        <5>3. f[Len(e)] = "error"
          BY <1>1, <2>1
        <5> QED BY <1>1, <5>2, <5>3
      <4> QED BY <4>2, <4>3
    <3> QED BY <1>1, <3>1, <3>2
  <2> QED BY <1>1, <2>2 DEF Finished
<1> QED BY <1>2, <1>3, <1>4, <1>5, <1>6, <1>7

\* A move of a request keeps what its place tells of its stream.
LEMMA StreamStep ==
  ASSUME TypeOK, StreamInv, NEW r \in Requests, Orderly(r)
  PROVE  StreamInv'
<1>1. /\ events[r] \in Seq(Kinds) /\ pc[r] \in Places
      /\ {"context", "token", "cost", "error", "done"} = Kinds
      /\ Closing = {"cost", "error", "done"}
  BY DEF TypeOK, Kinds, Closing
<1>2. /\ pc[r] \in Early    => Running(events[r])
      /\ pc[r] \in Keep     => Costed(events[r])
      /\ pc[r] = "raised"   => Raised(events[r])
      /\ pc[r] = "finished" => Finished(events[r])
      /\ pc[r] = "gone"     => Running(events[r]) \/ Costed(events[r]) \/ Raised(events[r])
  BY DEF StreamInv
<1>3. /\ pc'[r] \in Early    => Running(events'[r])
      /\ pc'[r] \in Keep     => Costed(events'[r])
      /\ pc'[r] = "raised"   => Raised(events'[r])
      /\ pc'[r] = "finished" => Finished(events'[r])
      /\ pc'[r] = "gone"     => Running(events'[r]) \/ Costed(events'[r]) \/ Raised(events'[r])
  <2>1. CASE Yields(r, Early \cup Keep, "error", {"raised"})
    BY <1>1, <1>2, <2>1, OneMoreEvent DEF Yields, Early, Keep
  <2>2. CASE Yields(r, {"retrieve"}, "context", {"addLoad"})
    BY <1>1, <1>2, <2>2, OneMoreEvent DEF Yields, Early, Keep
  <2>3. CASE Says(r)
    BY <1>1, <1>2, <2>3, OneMoreEvent DEF Says, Early, Keep
  <2>4. CASE Yields(r, {"answer", "retry"}, "cost", {"keepLoad"})
    BY <1>1, <1>2, <2>4, OneMoreEvent DEF Yields, Early, Keep
  <2>5. CASE Yields(r, Keep \cup {"raised"}, "done", {"finished"})
    BY <1>1, <1>2, <2>5, OneMoreEvent DEF Yields, Early, Keep
  <2>6. CASE Moves(r, Early \ {"retry"}, Early)
    BY <1>2, <2>6 DEF Moves, Early, Keep
  <2>7. CASE Moves(r, Keep, Keep)
    BY <1>2, <2>7 DEF Moves, Early, Keep
  <2>8. CASE Moves(r, Places \ {"finished"}, {"gone"})
    BY <1>2, <2>8 DEF Moves, Places, Early, Keep
  <2>9. CASE pc'[r] = pc[r] /\ events'[r] = events[r]
    BY <1>2, <2>9
  <2> QED BY <2>1, <2>2, <2>3, <2>4, <2>5, <2>6, <2>7, <2>8, <2>9 DEF Orderly, StreamMove
<1>4. \A q \in Requests \ {r} : pc'[q] = pc[q] /\ events'[q] = events[q]
  BY DEF Orderly, OthersRest
<1> QED BY <1>3, <1>4 DEF StreamInv

-----------------------------------------------------------------------------
\* How often an event is in a stream that grows.
LEMMA CountGrows ==
  ASSUME NEW S, NEW e \in Seq(S), NEW y \in S, NEW x
  PROVE  Count(Append(e, y), x) = Count(e, x) + (IF y = x THEN 1 ELSE 0)
<1> DEFINE f      == Append(e, y)
           At(s)  == { k \in 1..Len(s) : s[k] = x }
<1>1. /\ Len(e) \in Nat /\ Len(f) = Len(e) + 1 /\ f[Len(e) + 1] = y
      /\ \A k \in 1..Len(e) : f[k] = e[k]
  BY AppendProperties, LenProperties
<1>2. IsFiniteSet(At(e)) /\ Cardinality(At(e)) \in Nat
  <2>1. IsFiniteSet(1..Len(e)) /\ At(e) \subseteq 1..Len(e)
    BY <1>1, FS_Interval
  <2> QED BY <2>1, FS_Subset, FS_CardinalityType
<1>3. CASE y = x
  <2>1. At(f) = At(e) \cup {Len(e) + 1} /\ Len(e) + 1 \notin At(e)
    BY <1>1, <1>3
  <2>2. Cardinality(At(f)) = Cardinality(At(e)) + 1
    BY <1>2, <2>1, FS_AddElement
  <2> QED BY <1>3, <2>2 DEF Count
<1>4. CASE y # x
  <2>1. At(f) = At(e)
    BY <1>1, <1>4
  <2>2. Count(f, x) = Count(e, x)
    BY <2>1 DEF Count
  <2>3. Count(e, x) \in Nat
    BY <1>2 DEF Count
  <2> QED BY <1>4, <2>2, <2>3
<1> QED BY <1>3, <1>4

LEMMA CountNat ==
  ASSUME NEW S, NEW e \in Seq(S), NEW x
  PROVE  Count(e, x) \in Nat
<1>1. IsFiniteSet(1..Len(e)) /\ { k \in 1..Len(e) : e[k] = x } \subseteq 1..Len(e)
  BY LenProperties, FS_Interval
<1> QED BY <1>1, FS_Subset, FS_CardinalityType DEF Count

\* An event that is nowhere, and one that is in one place.
LEMMA CountNone ==
  ASSUME NEW e, NEW x, \A k \in 1..Len(e) : e[k] # x
  PROVE  Count(e, x) = 0
<1>1. { k \in 1..Len(e) : e[k] = x } = {}
  OBVIOUS
<1> QED BY <1>1, FS_EmptySet DEF Count

LEMMA CountOne ==
  ASSUME NEW e, NEW x, NEW k \in 1..Len(e), e[k] = x, \A l \in 1..Len(e) : e[l] = x => l = k
  PROVE  Count(e, x) = 1
<1>1. { l \in 1..Len(e) : e[l] = x } = {k}
  OBVIOUS
<1> QED BY <1>1, FS_Singleton DEF Count

LEMMA CountSome ==
  ASSUME NEW S, NEW e \in Seq(S), NEW x, NEW k \in 1..Len(e), e[k] = x
  PROVE  Count(e, x) # 0
<1>1. Len(e) \in Nat
  BY LenProperties
<1>2. IsFiniteSet({ l \in 1..Len(e) : e[l] = x })
  <2>1. IsFiniteSet(1..Len(e)) /\ { l \in 1..Len(e) : e[l] = x } \subseteq 1..Len(e)
    BY <1>1, FS_Interval
  <2> QED BY <2>1, FS_Subset
<1>3. k \in { l \in 1..Len(e) : e[l] = x }
  OBVIOUS
<1> QED BY <1>2, <1>3, FS_EmptySet DEF Count

\* A stream keeps its one cost, and the tokens in front of it.
LEMMA CostStays ==
  ASSUME TypeOK, StreamInv, NEW r \in Requests, Orderly(r), NEW q \in Requests,
         Count(events[q], "cost") = 1
  PROVE  /\ Count(events'[q], "cost") = 1
         /\ Count(events'[q], "token") = Count(events[q], "token")
<1>1. CASE q # r
  BY <1>1 DEF Orderly, OthersRest
<1>2. CASE q = r
  <2>1. events[r] \in Seq(Kinds) /\ {"context", "token", "cost", "error", "done"} = Kinds
    BY DEF TypeOK, Kinds
  <2>2. CASE events'[r] = events[r]
    BY <1>2, <2>2
  <2>3. CASE \E x \in {"error", "context", "done"} : events'[r] = Append(events[r], x)
    <3>1. PICK x \in {"error", "context", "done"} : events'[r] = Append(events[r], x)
      BY <2>3
    <3>2. x \in Kinds /\ x # "cost" /\ x # "token"
      BY <2>1
    <3>3. /\ Count(Append(events[r], x), "cost") = Count(events[r], "cost") + 0
          /\ Count(Append(events[r], x), "token") = Count(events[r], "token") + 0
      BY <2>1, <3>2, CountGrows
    <3>4. Count(events[r], "token") \in Nat
      BY <2>1, CountNat
    <3> QED BY <1>2, <3>1, <3>3, <3>4
  <2>4. CASE Yields(r, {"answer", "retry"}, "cost", {"keepLoad"}) \/ Says(r)
    <3>1. Running(events[r])
      BY <2>4 DEF Yields, Says, StreamInv, Early
    <3>2. Count(events[r], "cost") = 0
      BY <3>1, CountNone DEF Running, Closing
    <3> QED BY <1>2, <3>2
  <2> QED BY <2>2, <2>3, <2>4 DEF Orderly, StreamMove, Yields, Moves
<1> QED BY <1>1, <1>2

LEMMA CostedOnce ==
  ASSUME NEW e \in Seq(Kinds), Costed(e)
  PROVE  Count(e, "cost") = 1
<1>1. Len(e) \in Nat /\ Len(e) \in 1..Len(e)
  BY LenProperties DEF Costed
<1>2. \A k \in 1..Len(e) : e[k] = "cost" => k = Len(e)
  BY <1>1 DEF Costed, Closing
<1> QED BY <1>1, <1>2, CountOne DEF Costed

\* A text that grows by a token of the attempt stays in order.
LEMMA OrderedGrows ==
  ASSUME NEW text \in Seq({1, 2}), Ordered(text), NEW x \in {1, 2},
         x = 1 => \A k \in 1..Len(text) : text[k] = 1
  PROVE  /\ Ordered(Append(text, x)) /\ Len(Append(text, x)) = Len(text) + 1
         /\ x = 1 => \A k \in 1..Len(Append(text, x)) : Append(text, x)[k] = 1
<1> DEFINE new == Append(text, x)
<1>1. /\ Len(text) \in Nat /\ Len(new) = Len(text) + 1 /\ new[Len(text) + 1] = x
      /\ \A k \in 1..Len(text) : new[k] = text[k] /\ text[k] \in {1, 2}
  BY AppendProperties, LenProperties, ElementOfSeq
<1>2. ASSUME NEW i \in 1..Len(new), NEW j \in 1..Len(new), i < j PROVE new[i] <= new[j]
  <2>1. i \in 1..Len(text) /\ new[i] = text[i] /\ text[i] \in {1, 2}
    BY <1>1, <1>2
  <2>2. CASE j \in 1..Len(text)
    BY <1>1, <1>2, <2>1, <2>2 DEF Ordered
  <2>3. CASE j = Len(text) + 1
    BY <1>1, <2>1, <2>3
  <2> QED BY <1>1, <2>2, <2>3
<1>3. Ordered(new)
  BY <1>2 DEF Ordered
<1>4. x = 1 => \A k \in 1..Len(new) : new[k] = 1
  BY <1>1
<1> QED BY <1>1, <1>3, <1>4

\* The text of a request grows with what it shows, and only then.
LEMMA TextStep ==
  ASSUME TypeOK, TextInv, NEW r \in Requests, Orderly(r)
  PROVE  TextInv'
<1>1. /\ events[r] \in Seq(Kinds) /\ pc[r] \in Places /\ said[r] \in Seq({1, 2})
      /\ {"context", "token", "cost", "error", "done"} = Kinds
  BY DEF TypeOK, Kinds
<1>2. /\ Ordered(said[r])
      /\ pc[r] \in Early \cup Keep => Len(said[r]) = Count(events[r], "token")
      /\ pc[r] \in Early \ {"retry"} => \A k \in 1..Len(said[r]) : said[r][k] = 1
  BY DEF TextInv
<1>3. /\ Ordered(said'[r])
      /\ pc'[r] \in Early \cup Keep => Len(said'[r]) = Count(events'[r], "token")
      /\ pc'[r] \in Early \ {"retry"} => \A k \in 1..Len(said'[r]) : said'[r][k] = 1
  <2>1. CASE Says(r)
    <3>1. Attempt(r) \in {1, 2} /\ (Attempt(r) = 1 => pc[r] = "answer")
      BY <2>1 DEF Says, Attempt
    <3>2. Attempt(r) = 1 => \A k \in 1..Len(said[r]) : said[r][k] = 1
      BY <1>2, <3>1 DEF Early
    <3>3. /\ Ordered(said'[r]) /\ Len(said'[r]) = Len(said[r]) + 1
          /\ Attempt(r) = 1 => \A k \in 1..Len(said'[r]) : said'[r][k] = 1
      BY <1>1, <1>2, <2>1, <3>1, <3>2, OrderedGrows DEF Says
    <3>4. Count(Append(events[r], "token"), "token") = Count(events[r], "token") + 1
      BY <1>1, CountGrows
    <3>5. pc[r] \in Early /\ (pc[r] # "retry" => Attempt(r) = 1) /\ "gone" \notin Early \cup Keep
      BY <2>1 DEF Says, Attempt, Early, Keep
    <3>6. pc'[r] = "gone" \/ (pc'[r] = pc[r] /\ events'[r] = Append(events[r], "token"))
      BY <2>1 DEF Says
    <3> QED BY <1>2, <3>3, <3>4, <3>5, <3>6
  <2>2. CASE said'[r] = said[r] /\ events'[r] = events[r]
               /\ (pc'[r] \in Early \cup Keep => pc[r] \in Early \cup Keep)
               /\ (pc'[r] \in Early \ {"retry"} => pc[r] \in Early \ {"retry"})
    BY <1>2, <2>2
  <2>3. CASE /\ said'[r] = said[r]
             /\ \E x \in Kinds \ {"token"} : events'[r] = Append(events[r], x)
             /\ pc'[r] \in Early \cup Keep => pc[r] \in Early \cup Keep
             /\ pc'[r] \in Early \ {"retry"} => pc[r] \in Early \ {"retry"}
    <3>1. PICK x \in Kinds \ {"token"} : events'[r] = Append(events[r], x)
      BY <2>3
    <3>2. Count(Append(events[r], x), "token") = Count(events[r], "token") + 0
      BY <1>1, <3>1, CountGrows
    <3>3. Count(events[r], "token") \in Nat
      BY <1>1, CountNat
    <3> QED BY <1>2, <2>3, <3>1, <3>2, <3>3
  <2>4. ASSUME \/ Yields(r, Early \cup Keep, "error", {"raised"})
               \/ Yields(r, {"retrieve"}, "context", {"addLoad"})
               \/ Yields(r, {"answer", "retry"}, "cost", {"keepLoad"})
               \/ Yields(r, Keep \cup {"raised"}, "done", {"finished"})
               \/ Moves(r, Early \ {"retry"}, Early)
               \/ Moves(r, Keep, Keep)
               \/ Moves(r, Places \ {"finished"}, {"gone"})
               \/ pc'[r] = pc[r] /\ events'[r] = events[r] /\ said'[r] = said[r]
        PROVE  /\ said'[r] = said[r]
               /\ \/ events'[r] = events[r]
                  \/ \E x \in Kinds \ {"token"} : events'[r] = Append(events[r], x)
               /\ pc'[r] \in Early \cup Keep => pc[r] \in Early \cup Keep
               /\ pc'[r] \in Early \ {"retry"} => pc[r] \in Early \ {"retry"}
    BY <1>1, <2>4 DEF Yields, Moves, Early, Keep
  <2> QED BY <2>1, <2>2, <2>3, <2>4 DEF Orderly, StreamMove
<1>4. \A q \in Requests \ {r} : pc'[q] = pc[q] /\ events'[q] = events[q] /\ said'[q] = said[q]
  BY DEF Orderly, OthersRest
<1> QED BY <1>3, <1>4 DEF TextInv

\* What is remembered stays delivered, and so does what a request has loaded.
LEMMA DeliveredStep ==
  ASSUME TypeOK, StreamInv, TextInv, DeliveredInv, NEW r \in Requests, Orderly(r),
         Pull(r) \/ Cancel(r) \/ Step(r)
  PROVE  DeliveredInv'
<1> DEFINE Shown(row) == /\ Count(events'[row.request], "cost") = 1
                         /\ Len(row.says) = Count(events'[row.request], "token")
                         /\ Ordered(row.says)
           Kept(rows) == \A k \in 1..Len(rows) : rows[k].role = "assistant" => Shown(rows[k])
<1>1. ASSUME NEW rows \in Seq(Row), Delivered(rows)
      PROVE  Kept(rows)
  <2> SUFFICES ASSUME NEW k \in 1..Len(rows), rows[k].role = "assistant"
               PROVE  Shown(rows[k])
    OBVIOUS
  <2>1. rows[k] \in Row
    BY <1>1, ElementOfSeq
  <2>2. /\ rows[k].request \in Requests /\ Count(events[rows[k].request], "cost") = 1
        /\ Len(rows[k].says) = Count(events[rows[k].request], "token") /\ Ordered(rows[k].says)
    BY <1>1, <2>1 DEF Row, Delivered
  <2> QED BY <2>2, CostStays
<1>2. Kept(store) /\ \A q \in Requests : Kept(local[q])
  BY <1>1 DEF DeliveredInv, TypeOK
<1>3. \/ UNCHANGED store
      \/ store' = Append(local[r], Question(r))
      \/ pc[r] = "keepSave" /\ store' = Append(local[r], Reply(r))
  BY DEF Pull, Cancel, Step, Retrieve, AddLoad, AddSave, Recall, Token, Answered, AttemptFails,
         KeepLoad, KeepSave, Done, Runs
<1>4. \A q \in Requests : local'[q] = local[q] \/ local'[q] = store
  <2>1. UNCHANGED local \/ local' = [local EXCEPT ![r] = store]
    BY DEF Pull, Cancel, Step, Retrieve, AddLoad, AddSave, Recall, Token, Answered, AttemptFails,
           KeepLoad, KeepSave, Done
  <2> QED BY <2>1 DEF TypeOK
<1>5. ASSUME NEW row \in Row, store' = Append(local[r], row),
             row.role = "assistant" => Shown(row)
      PROVE  Kept(store')
  <2>1. /\ Len(local[r]) \in Nat /\ Len(store') = Len(local[r]) + 1
        /\ \A k \in 1..Len(local[r]) : store'[k] = local[r][k]
        /\ store'[Len(local[r]) + 1] = row
    BY <1>5, AppendProperties, LenProperties DEF TypeOK
  <2>2. Kept(local[r])
    BY <1>2
  <2>3. \A k \in 1..Len(store') : k \in 1..Len(local[r]) \/ k = Len(local[r]) + 1
    BY <2>1
  <2> QED BY <1>5, <2>1, <2>2, <2>3
<1>6. Kept(store')
  <2>1. CASE UNCHANGED store
    BY <1>2, <2>1
  <2>2. CASE store' = Append(local[r], Question(r))
    <3>1. Question(r) \in Row /\ Question(r).role # "assistant"
      BY RowsGrow DEF Question
    <3> QED BY <1>5, <2>2, <3>1
  <2>3. CASE pc[r] = "keepSave" /\ store' = Append(local[r], Reply(r))
    <3>1. Costed(events[r]) /\ events[r] \in Seq(Kinds)
      BY <2>3 DEF StreamInv, Keep, TypeOK
    <3>2. /\ Count(events'[r], "cost") = 1
          /\ Count(events'[r], "token") = Count(events[r], "token")
      BY <3>1, CostedOnce, CostStays
    <3>3. Reply(r) \in Row /\ Reply(r).request = r /\ Reply(r).says = said[r]
      BY RowsGrow DEF Reply
    <3>4. Len(said[r]) = Count(events[r], "token") /\ Ordered(said[r])
      BY <2>3 DEF TextInv, Keep
    <3> QED BY <1>5, <2>3, <3>2, <3>3, <3>4
  <2> QED BY <1>3, <2>1, <2>2, <2>3
<1>7. \A rows : Kept(rows) =>
        \A k \in 1..Len(rows) : rows[k].role = "assistant" =>
          /\ Count(events'[rows[k].request], "cost") = 1
          /\ Len(rows[k].says) = Count(events'[rows[k].request], "token")
          /\ Ordered(rows[k].says)
  OBVIOUS
<1> HIDE DEF Kept
<1>8. \A q \in Requests : Kept(local'[q])
  BY <1>2, <1>4
<1>9. Delivered(store)' /\ \A q \in Requests : Delivered(local[q])'
  BY <1>6, <1>7, <1>8 DEF Delivered, Ordered
<1> QED BY <1>9 DEF DeliveredInv

-----------------------------------------------------------------------------
\* A dialogue goes on with a question that was not asked, or with the answer to the
\* question that was asked last.
LEMMA DialogueGrows ==
  ASSUME NEW rows \in Seq(Row), Dialogue(rows), NEW row \in Row,
         \A k \in 1..Len(rows) : ~SameTurn(rows[k], row),
         \/ row.role = "user"
         \/ Len(rows) > 0 /\ rows[Len(rows)] = Question(row.request)
  PROVE  Dialogue(Append(rows, row))
<1> DEFINE new == Append(rows, row)
<1>1. /\ Len(rows) \in Nat /\ Len(new) = Len(rows) + 1 /\ new[Len(rows) + 1] = row
      /\ \A k \in 1..Len(rows) : new[k] = rows[k]
  BY AppendProperties, LenProperties
<1>2. ASSUME NEW k \in 1..Len(new), new[k].role = "assistant"
      PROVE  k > 1 /\ new[k - 1] = Question(new[k].request)
  <2>1. CASE k \in 1..Len(rows)
    <3>1. k > 1 /\ rows[k - 1] = Question(rows[k].request)
      BY <1>1, <1>2, <2>1 DEF Dialogue
    <3>2. k - 1 \in 1..Len(rows)
      BY <1>1, <2>1, <3>1
    <3> QED BY <1>1, <2>1, <3>1, <3>2
  <2>2. CASE k = Len(rows) + 1
    <3>1. row.role # "user"
      BY <1>1, <1>2, <2>2
    <3>2. Len(rows) > 0 /\ k - 1 = Len(rows) /\ Len(rows) \in 1..Len(rows)
      BY <1>1, <2>2, <3>1
    <3> QED BY <1>1, <2>2, <3>1, <3>2
  <2> QED BY <1>1, <2>1, <2>2
<1>3. ASSUME NEW k \in 1..Len(new), NEW l \in 1..Len(new), SameTurn(new[k], new[l])
      PROVE  k = l
  <2>1. \A i \in 1..Len(new) : i \in 1..Len(rows) \/ i = Len(rows) + 1
    BY <1>1
  <2>2. \A a, b : SameTurn(a, b) => SameTurn(b, a)
    BY DEF SameTurn
  <2> QED BY <1>1, <1>3, <2>1, <2>2 DEF Dialogue
<1> QED BY <1>2, <1>3 DEF Dialogue

\* What a request knows of the store survives the steps of another.
LEMMA OthersKeepPlace ==
  ASSUME TypeOK, SessionInv, NEW r \in Requests, OthersRest(r), NEW q \in Requests \ {r},
         \/ UNCHANGED store
         \/ InSession(r) /\ \E row \in Row : row.request = r /\ store' = Append(store, row)
  PROVE  Place(q)'
<1>1. /\ pc'[q] = pc[q] /\ events'[q] = events[q] /\ local'[q] = local[q]
      /\ history'[q] = history[q] /\ said'[q] = said[q]
  BY DEF OthersRest
<1>2. Place(q)
  BY DEF SessionInv
<1>3. CASE UNCHANGED store
  BY <1>1, <1>2, <1>3 DEF Place, Reply
<1>4. CASE InSession(r) /\ \E row \in Row : row.request = r /\ store' = Append(store, row)
  <2>1. PICK row \in Row : row.request = r /\ store' = Append(store, row)
    BY <1>4
  <2>2. /\ Len(store) \in Nat /\ Len(store') = Len(store) + 1 /\ store'[Len(store) + 1] = row
        /\ \A k \in 1..Len(store) : store'[k] = store[k]
    BY <2>1, AppendProperties, LenProperties DEF TypeOK
  <2>3. pc[q] \notin {"addSave", "keepSave"} \cup Asking
    BY <1>4 DEF SessionInv, OneInSession, InSession, Asking
  <2>4. pc[q] \in {"retrieve", "addLoad", "addSave"} =>
          \A k \in 1..Len(store') : store'[k].request # q
    BY <1>2, <2>1, <2>2 DEF Place
  <2>5. pc[q] = "finished" /\ (\A k \in 1..Len(events[q]) : events[q][k] # "error") =>
          /\ \E k \in 1..Len(store') : store'[k] = Question(q)
          /\ said[q] # <<>> => \E k \in 1..Len(store') : store'[k] = Reply(q)
    BY <1>2, <2>2 DEF Place
  <2> QED BY <1>1, <2>3, <2>4, <2>5 DEF Place, Asking, Reply
<1> QED BY <1>3, <1>4

\* A request that failed or was left promises nothing.
LEMMA EndedPlace ==
  ASSUME NEW r \in Requests, pc'[r] \in {"raised", "gone"}
  PROVE  Place(r)'
BY DEF Place, Asking

\* A step that leaves the store alone and brings nobody into the session.
LEMMA QuietSession ==
  ASSUME TypeOK, SessionInv, NEW r \in Requests, OthersRest(r), UNCHANGED store, Place(r)',
         InSession(r)' => InSession(r) \/ \A q \in Requests \ {r} : ~InSession(q)
  PROVE  SessionInv'
<1>1. \A q \in Requests \ {r} : Place(q)'
  BY OthersKeepPlace
<1>2. OneInSession'
  <2>1. \A q \in Requests \ {r} : InSession(q)' <=> InSession(q)
    BY DEF OthersRest, InSession
  <2> QED BY <2>1 DEF SessionInv, OneInSession
<1> QED BY <1>1, <1>2 DEF SessionInv

\* A step of the one in the session that writes a turn of its own.
LEMMA WritingSession ==
  ASSUME TypeOK, SessionInv, NEW r \in Requests, OthersRest(r), InSession(r), Place(r)',
         NEW row \in Row, row.request = r, store' = Append(store, row), Dialogue(store')
  PROVE  SessionInv'
<1>1. \A q \in Requests \ {r} : Place(q)'
  BY OthersKeepPlace
<1>2. OneInSession'
  <2>1. \A q \in Requests \ {r} : InSession(q)' <=> InSession(q)
    BY DEF OthersRest, InSession
  <2> QED BY <2>1 DEF SessionInv, OneInSession
<1> QED BY <1>1, <1>2 DEF SessionInv

LEMMA ConsumerSession ==
  ASSUME TypeOK, SessionInv, NEW r \in Requests, Pull(r) \/ Cancel(r), OthersRest(r)
  PROVE  SessionInv'
<1>1. UNCHANGED <<store, events, local, history, said>>
  BY DEF Pull, Cancel
<1>2. CASE UNCHANGED pc
  <2>1. Place(r)'
    BY <1>1, <1>2 DEF SessionInv, Place, Reply, Unanswered
  <2> QED BY <1>1, <1>2, <2>1, QuietSession DEF InSession
<1>3. CASE pc' = [pc EXCEPT ![r] = "gone"]
  <2>1. pc'[r] = "gone"
    BY <1>3 DEF TypeOK
  <2> QED BY <1>1, <2>1, EndedPlace, QuietSession DEF InSession
<1> QED BY <1>2, <1>3 DEF Pull, Cancel

LEMMA RetrieveSession ==
  ASSUME TypeOK, SessionInv, NEW r \in Requests, Retrieve(r), OthersRest(r)
  PROVE  SessionInv'
<1>1. pc[r] = "retrieve" /\ UNCHANGED store
  BY DEF Retrieve, Runs
<1>2. pc'[r] \in {"raised", "gone", "addLoad"}
  <2>1. CASE Raise(r)
    BY <1>1, <2>1, RaiseMoves DEF Early
  <2>2. CASE Emit(r, "context", "addLoad")
    BY <2>2, EmitMoves DEF Kinds, Places, Early
  <2> QED BY <2>1, <2>2 DEF Retrieve
<1>3. Place(r)'
  <2>1. CASE pc'[r] = "addLoad"
    BY <1>1, <2>1 DEF SessionInv, Place, Asking
  <2> QED BY <1>2, <2>1, EndedPlace
<1> QED BY <1>1, <1>2, <1>3, QuietSession DEF InSession

LEMMA AddLoadSession ==
  ASSUME TypeOK, SessionInv, NEW r \in Requests, AddLoad(r), OthersRest(r), ~overlapped'
  PROVE  SessionInv'
<1>1. pc[r] = "addLoad" /\ UNCHANGED store
  BY DEF AddLoad, Runs
<1>2. CASE Raise(r)
  <2>1. pc'[r] \in {"raised", "gone"}
    BY <1>1, <1>2, RaiseMoves DEF Early
  <2> QED BY <1>1, <2>1, EndedPlace, QuietSession DEF InSession
<1>3. CASE /\ local' = [local EXCEPT ![r] = store]
           /\ overlapped' = (overlapped \/ \E q \in Requests \ {r} : InSession(q))
           /\ Goto(r, "addSave")
  <2>1. pc'[r] = "addSave" /\ local'[r] = store
    BY <1>3, GotoMoves DEF Places, Early, TypeOK
  <2>2. Place(r)'
    BY <1>1, <2>1 DEF SessionInv, Place, Asking
  <2>3. \A q \in Requests \ {r} : ~InSession(q)
    BY <1>3
  <2> QED BY <1>1, <2>2, <2>3, QuietSession
<1> QED BY <1>2, <1>3 DEF AddLoad

\* The question of r joins the dialogue.
LEMMA AddSaveSession ==
  ASSUME TypeOK, SessionInv, NEW r \in Requests, AddSave(r), OthersRest(r)
  PROVE  SessionInv'
<1>1. pc[r] = "addSave" /\ InSession(r)
  BY DEF AddSave, Runs, InSession
<1>2. local[r] = store /\ \A k \in 1..Len(store) : store[k].request # r
  BY <1>1 DEF SessionInv, Place
<1>3. /\ \/ Goto(r, "recall") /\ store' = Append(store, Question(r))
         \/ Raise(r) /\ store' \in {store, Append(store, Question(r))}
  BY <1>2 DEF AddSave
<1>4. Question(r) \in Row /\ Question(r).request = r /\ Question(r).role = "user"
  BY RowsGrow DEF Question
<1>5. \/ pc'[r] \in {"raised", "gone"}
      \/ pc'[r] = "recall" /\ store' = Append(store, Question(r))
  <2>1. CASE Raise(r)
    BY <1>1, <2>1, RaiseMoves DEF Early
  <2>2. CASE Goto(r, "recall") /\ store' = Append(store, Question(r))
    BY <2>2, GotoMoves DEF Places, Early
  <2> QED BY <1>3, <2>1, <2>2
<1>6. Place(r)'
  <2>1. CASE pc'[r] = "recall" /\ store' = Append(store, Question(r))
    <3>1. /\ Len(store) \in Nat /\ Len(store') = Len(store) + 1
          /\ store'[Len(store) + 1] = Question(r)
          /\ \A k \in 1..Len(store) : store'[k] = store[k]
      BY <1>4, <2>1, AppendProperties, LenProperties DEF TypeOK
    <3>2. Unanswered(store', r)
      BY <1>2, <1>4, <3>1 DEF Unanswered
    <3> QED BY <2>1, <3>1, <3>2 DEF Place, Asking, Question
  <2> QED BY <1>5, <2>1, EndedPlace
<1>7. CASE UNCHANGED store
  BY <1>1, <1>6, <1>7, QuietSession
<1>8. CASE store' = Append(store, Question(r))
  <2>1. Dialogue(store')
    <3>1. \A k \in 1..Len(store) : ~SameTurn(store[k], Question(r))
      BY <1>2, <1>4 DEF SameTurn
    <3> QED BY <1>4, <1>8, <3>1, DialogueGrows DEF SessionInv, TypeOK
  <2> QED BY <1>1, <1>4, <1>6, <1>8, <2>1, WritingSession
<1> QED BY <1>3, <1>7, <1>8

\* Between its question and its answer a request leaves the store as it is.
LEMMA AnswerSession ==
  ASSUME TypeOK, SessionInv, NEW r \in Requests, OthersRest(r),
         Recall(r) \/ Token(r) \/ Answered(r) \/ AttemptFails(r)
  PROVE  SessionInv'
<1>1. /\ pc[r] \in {"recall", "answer", "retry"} /\ InSession(r)
      /\ UNCHANGED <<store, local>>
  BY DEF Recall, Token, Answered, AttemptFails, Runs, InSession
<1>2. /\ Len(store) > 0 /\ store[Len(store)] = Question(r)
      /\ Unanswered(store, r)
  BY <1>1 DEF SessionInv, Place, Asking
<1>3. pc[r] \in {"answer", "retry"} =>
        history[r] # <<>> /\ history[r][Len(history[r])] = Question(r)
  BY DEF SessionInv, Place
<1>4. \/ pc'[r] \in {"raised", "gone", "keepLoad"}
      \/ pc'[r] \in {"answer", "retry"} /\ history'[r] = IF Recall(r) THEN store ELSE history[r]
  <2>1. CASE Recall(r)
    <3>1. CASE history' = [history EXCEPT ![r] = store] /\ Goto(r, "answer")
      BY <2>1, <3>1, GotoMoves DEF Places, Early, TypeOK
    <3>2. CASE Raise(r)
      BY <1>1, <3>2, RaiseMoves DEF Early
    <3> QED BY <2>1, <3>1, <3>2 DEF Recall
  <2>2. CASE Token(r)
    <3>1. Emit(r, "token", pc[r]) /\ history' = history /\ pc[r] \in {"answer", "retry"}
      BY <2>2 DEF Token, Runs
    <3>2. pc'[r] \in {"gone", pc[r]}
      BY <3>1, EmitMoves DEF Kinds, Places, Early
    <3>3. ~Recall(r)
      BY <3>1 DEF Recall, Runs
    <3> QED BY <3>1, <3>2, <3>3
  <2>3. CASE Answered(r)
    <3>1. Emit(r, "cost", "keepLoad")
      BY <2>3 DEF Answered
    <3> QED BY <3>1, EmitMoves DEF Kinds, Places, Keep
  <2>4. CASE AttemptFails(r)
    <3>1. history' = history /\ pc[r] \in {"answer", "retry"} /\ (Goto(r, "retry") \/ Raise(r))
      BY <2>4 DEF AttemptFails, Runs
    <3>2. CASE Goto(r, "retry")
      <4>1. pc'[r] = "retry"
        BY <3>2, GotoMoves DEF Places, Early
      <4>2. ~Recall(r)
        BY <3>1 DEF Recall, Runs
      <4> QED BY <3>1, <4>1, <4>2
    <3>3. CASE Raise(r)
      BY <1>1, <3>3, RaiseMoves DEF Early
    <3> QED BY <3>1, <3>2, <3>3
  <2> QED BY <2>1, <2>2, <2>3, <2>4
<1>5. Place(r)'
  <2>1. CASE pc'[r] \in {"raised", "gone"}
    BY <2>1, EndedPlace
  <2>2. CASE pc'[r] = "keepLoad"
    BY <1>1, <1>2, <2>2 DEF Place, Asking
  <2>3. CASE pc'[r] \in {"answer", "retry"} /\ history'[r] = IF Recall(r) THEN store ELSE history[r]
    <3>1. Recall(r) \/ pc[r] \in {"answer", "retry"}
      BY DEF Token, Answered, AttemptFails, Runs
    <3>2. store # <<>>
      BY <1>2
    <3> QED BY <1>1, <1>2, <1>3, <2>3, <3>1, <3>2 DEF Place, Asking
  <2> QED BY <1>4, <2>1, <2>2, <2>3
<1> QED BY <1>1, <1>5, QuietSession

LEMMA KeepLoadSession ==
  ASSUME TypeOK, SessionInv, NEW r \in Requests, KeepLoad(r), OthersRest(r)
  PROVE  SessionInv'
<1>1. pc[r] = "keepLoad" /\ InSession(r) /\ UNCHANGED <<store, said>>
  BY DEF KeepLoad, Runs, InSession
<1>2. /\ Len(store) > 0 /\ store[Len(store)] = Question(r)
      /\ Unanswered(store, r)
  BY <1>1 DEF SessionInv, Place, Asking
<1>3. Place(r)'
  <2>1. CASE said[r] = <<>> /\ Emit(r, "done", "finished")
    <3>1. pc'[r] \in {"gone", "finished"}
      BY <1>1, <2>1, DoneMoves DEF Keep
    <3>2. Len(store) \in 1..Len(store)
      BY <1>2, LenProperties DEF TypeOK
    <3>3. CASE pc'[r] = "finished"
      BY <1>1, <1>2, <2>1, <3>2, <3>3 DEF Place, Asking
    <3> QED BY <3>1, <3>3, EndedPlace
  <2>2. CASE Raise(r)
    BY <1>1, <2>2, RaiseMoves, EndedPlace DEF Keep
  <2>3. CASE local' = [local EXCEPT ![r] = store] /\ Goto(r, "keepSave")
    <3>1. pc'[r] = "keepSave" /\ local'[r] = store
      BY <2>3, GotoMoves DEF Places, Keep, TypeOK
    <3> QED BY <1>1, <1>2, <3>1 DEF Place, Asking
  <2> QED BY <2>1, <2>2, <2>3 DEF KeepLoad
<1> QED BY <1>1, <1>3, QuietSession

\* The answer of r follows its question.
LEMMA KeepSaveSession ==
  ASSUME TypeOK, SessionInv, NEW r \in Requests, KeepSave(r), OthersRest(r)
  PROVE  SessionInv'
<1>1. pc[r] = "keepSave" /\ InSession(r)
  BY DEF KeepSave, Runs, InSession
<1>2. /\ local[r] = store /\ Len(store) > 0 /\ store[Len(store)] = Question(r)
      /\ Unanswered(store, r)
  BY <1>1 DEF SessionInv, Place, Asking
<1>3. \/ Emit(r, "done", "finished") /\ store' = Append(store, Reply(r))
      \/ Raise(r) /\ store' \in {store, Append(store, Reply(r))}
  BY <1>2 DEF KeepSave
<1>4. Reply(r) \in Row /\ Reply(r).request = r /\ Reply(r).role = "assistant"
      /\ said' = said /\ Reply(r)' = Reply(r)
  BY RowsGrow DEF Reply, KeepSave
<1>5. Place(r)'
  <2>1. CASE Emit(r, "done", "finished") /\ store' = Append(store, Reply(r))
    <3>1. pc'[r] \in {"gone", "finished"}
      BY <1>1, <2>1, DoneMoves DEF Keep
    <3>2. /\ Len(store) \in Nat /\ Len(store') = Len(store) + 1
          /\ store'[Len(store) + 1] = Reply(r)
          /\ \A k \in 1..Len(store) : store'[k] = store[k]
      BY <1>4, <2>1, AppendProperties, LenProperties DEF TypeOK
    <3>3. /\ Len(store) \in 1..Len(store') /\ store'[Len(store)] = Question(r)
          /\ Len(store) + 1 \in 1..Len(store')
      BY <1>2, <3>2
    <3>4. CASE pc'[r] = "finished"
      BY <1>4, <3>2, <3>3, <3>4 DEF Place, Asking, Question
    <3> QED BY <3>1, <3>4, EndedPlace
  <2>2. CASE Raise(r)
    BY <1>1, <2>2, RaiseMoves, EndedPlace DEF Keep
  <2> QED BY <1>3, <2>1, <2>2
<1>6. CASE UNCHANGED store
  BY <1>1, <1>5, <1>6, QuietSession
<1>7. CASE store' = Append(store, Reply(r))
  <2>1. Dialogue(store')
    <3>1. \A k \in 1..Len(store) : ~SameTurn(store[k], Reply(r))
      BY <1>2, <1>4 DEF SameTurn, Unanswered
    <3> QED BY <1>2, <1>4, <1>7, <3>1, DialogueGrows DEF SessionInv, TypeOK
  <2> QED BY <1>1, <1>4, <1>5, <1>7, <2>1, WritingSession
<1> QED BY <1>3, <1>6, <1>7

\* The `done` behind an error finishes no answer.
LEMMA DoneSession ==
  ASSUME TypeOK, StreamInv, SessionInv, NEW r \in Requests, Done(r), OthersRest(r)
  PROVE  SessionInv'
<1>1. pc[r] = "raised" /\ Emit(r, "done", "finished") /\ UNCHANGED store
  BY DEF Done, Runs
<1>2. \/ pc'[r] = "gone"
      \/ pc'[r] = "finished" /\ events'[r] = Append(events[r], "done")
  BY <1>1, DoneMoves
<1>3. Place(r)'
  <2>1. CASE pc'[r] = "finished" /\ events'[r] = Append(events[r], "done")
    <3>1. Len(events[r]) > 0 /\ events[r][Len(events[r])] = "error" /\ events[r] \in Seq(Kinds)
      BY <1>1 DEF StreamInv, Raised, TypeOK
    <3>2. /\ Len(events[r]) \in 1..Len(events'[r])
          /\ events'[r][Len(events[r])] = "error"
      BY <2>1, <3>1, AppendProperties, LenProperties DEF Kinds
    <3> QED BY <2>1, <3>2 DEF Place, Asking
  <2> QED BY <1>2, <2>1, EndedPlace
<1> QED BY <1>1, <1>2, <1>3, QuietSession DEF InSession

LEMMA SessionStep ==
  ASSUME TypeOK, StreamInv, SessionInv, NEW r \in Requests, Orderly(r), ~overlapped',
         Pull(r) \/ Cancel(r) \/ Step(r)
  PROVE  SessionInv'
BY ConsumerSession, RetrieveSession, AddLoadSession, AddSaveSession, AnswerSession,
   KeepLoadSession, KeepSaveSession, DoneSession DEF Orderly, Step

-----------------------------------------------------------------------------
LEMMA InitInv == Init => IInv
<1> SUFFICES ASSUME Init PROVE IInv
  OBVIOUS
<1>1. TypeOK
  BY EmptySeq DEF Init, TypeOK, Places, Early
<1>2. StreamInv
  BY DEF Init, StreamInv, Early, Keep, Running
<1>3. DeliveredInv
  BY DEF Init, DeliveredInv, Delivered
<1>5. TextInv
  <2>1. Count(<<>>, "token") = 0
    BY CountNone
  <2> QED BY <2>1 DEF Init, TextInv, Ordered
<1>4. SessionInv
  BY DEF Init, SessionInv, OneInSession, InSession, Place, Asking, Dialogue
<1> QED BY <1>1, <1>2, <1>3, <1>4, <1>5 DEF IInv

LEMMA NextInv == IInv /\ [Next]_vars => IInv'
<1> SUFFICES ASSUME IInv, [Next]_vars PROVE IInv'
  OBVIOUS
<1>1. CASE UNCHANGED vars
  <2>1. TypeOK' /\ StreamInv' /\ TextInv' /\ DeliveredInv'
    BY <1>1 DEF vars, IInv, TypeOK, StreamInv, TextInv, DeliveredInv, Delivered, Ordered
  <2>2. ~overlapped' => SessionInv'
    BY <1>1 DEF vars, IInv, SessionInv, OneInSession, InSession, Place, Reply, Unanswered, Dialogue
  <2> QED BY <2>1, <2>2 DEF IInv
<1>2. ASSUME NEW r \in Requests, Pull(r) \/ Cancel(r) \/ Step(r) PROVE IInv'
  <2>1. TypeOK /\ StreamInv /\ TextInv /\ DeliveredInv
    BY DEF IInv
  <2>2. Orderly(r)
    BY <1>2, <2>1, StepOrderly
  <2>3. StreamInv'
    BY <2>1, <2>2, StreamStep
  <2>4. DeliveredInv'
    BY <1>2, <2>1, <2>2, DeliveredStep
  <2>7. TextInv'
    BY <2>1, <2>2, TextStep
  <2>5. overlapped => overlapped'
    BY <1>2, <2>1 DEF Pull, Cancel, Step, Retrieve, AddLoad, AddSave, Recall, Token, Answered,
                      AttemptFails, KeepLoad, KeepSave, Done
  <2>6. ~overlapped' => SessionInv'
    BY <1>2, <2>1, <2>2, <2>5, SessionStep DEF IInv
  <2> QED BY <2>2, <2>3, <2>4, <2>6, <2>7 DEF Orderly, IInv
<1> QED BY <1>1, <1>2 DEF Next

LEMMA InvHolds == Spec => []IInv
BY InitInv, NextInv, PTL DEF Spec

\* The state of the session and of its requests stays within its types.
THEOREM SupportChatTypeOK == Spec => []TypeOK
<1>1. IInv => TypeOK
  BY DEF IInv
<1> QED BY <1>1, InvHolds, PTL

\* What the shape of a stream says of its closing events.
EndsWell(e) ==
  \A k \in 1..Len(e) :
    /\ e[k] = "done"  => k = Len(e)
    /\ e[k] = "error" => k = Len(e) \/ (k + 1 = Len(e) /\ e[k + 1] = "done")
    /\ e[k] = "cost"  => \A l \in (k + 1)..Len(e) : e[l] \in {"error", "done"}

LEMMA ShapesEndWell ==
  ASSUME NEW e \in Seq(Kinds)
  PROVE  /\ Running(e) \/ Costed(e) \/ Raised(e) => Count(e, "done") = 0 /\ EndsWell(e)
         /\ Finished(e) => Count(e, "done") = 1 /\ EndsWell(e)
<1>1. Len(e) \in Nat /\ \A k \in 1..Len(e) : k \in 1..(Len(e) - 1) \/ k = Len(e)
  BY LenProperties
<1>2. ASSUME Running(e) PROVE Count(e, "done") = 0 /\ EndsWell(e)
  BY <1>2, CountNone DEF Running, Closing, EndsWell
<1>3. ASSUME Costed(e) PROVE Count(e, "done") = 0 /\ EndsWell(e)
  <2>1. \A k \in 1..Len(e) : e[k] \in Closing => k = Len(e) /\ e[k] = "cost"
    BY <1>1, <1>3 DEF Costed
  <2>2. \A k \in 1..Len(e) : e[k] # "done" /\ e[k] # "error"
    BY <2>1 DEF Closing
  <2>3. EndsWell(e)
    BY <1>1, <2>1, <2>2 DEF EndsWell, Closing
  <2> QED BY <2>2, <2>3, CountNone
<1>4. ASSUME Raised(e) PROVE Count(e, "done") = 0 /\ EndsWell(e)
  <2>1. \A k \in 1..Len(e) : e[k] \in Closing =>
          (k = Len(e) /\ e[k] = "error") \/ (k = Len(e) - 1 /\ e[k] = "cost")
    BY <1>1, <1>4 DEF Raised
  <2>2. \A k \in 1..Len(e) : e[k] # "done" /\ (e[k] = "error" => k = Len(e))
    BY <2>1 DEF Closing
  <2>3. ASSUME NEW k \in 1..Len(e), e[k] = "cost", NEW l \in (k + 1)..Len(e)
        PROVE  e[l] \in {"error", "done"}
    <3>1. k = Len(e) - 1
      BY <2>1, <2>3 DEF Closing
    <3>2. l = Len(e)
      BY <1>1, <3>1
    <3> QED BY <1>4, <3>2 DEF Raised
  <2> QED BY <2>2, <2>3, CountNone DEF EndsWell
<1>5. ASSUME Finished(e) PROVE Count(e, "done") = 1 /\ EndsWell(e)
  <2>1. Len(e) \in 1..Len(e) /\ e[Len(e)] = "done"
    BY <1>1, <1>5 DEF Finished
  <2>2. \A k \in 1..Len(e) : e[k] = "done" => k = Len(e)
    BY <1>1, <1>5 DEF Finished
  <2>3. Count(e, "done") = 1
    BY <2>1, <2>2, CountOne
  <2>4. ASSUME NEW k \in 1..Len(e)
        PROVE  /\ e[k] = "error" => k = Len(e) \/ (k + 1 = Len(e) /\ e[k + 1] = "done")
               /\ e[k] = "cost"  => \A l \in (k + 1)..Len(e) : e[l] \in {"error", "done"}
    <3>1. CASE k = Len(e)
      BY <2>1, <3>1
    <3>2. CASE k \in 1..(Len(e) - 1)
      BY <1>1, <1>5, <2>1, <3>2 DEF Finished
    <3> QED BY <1>1, <3>1, <3>2
  <2> QED BY <2>2, <2>3, <2>4 DEF EndsWell
<1> QED BY <1>2, <1>3, <1>4, <1>5

\* chat(): a stream that is read to its end has one `done`, as its last event; nothing
\* but `done` follows an error, nothing but those two the cost of an answer; and a
\* stream that was left has no `done`.
THEOREM SupportChatDoneEndsTheStream == Spec => []DoneEndsTheStream
<1>1. IInv => DoneEndsTheStream
  <2> SUFFICES ASSUME IInv, NEW r \in Requests
               PROVE  Count(events[r], "done") = (IF pc[r] = "finished" THEN 1 ELSE 0)
                      /\ EndsWell(events[r])
    BY DEF DoneEndsTheStream, EndsWell
  <2>1. events[r] \in Seq(Kinds) /\ pc[r] \in Places
    BY DEF IInv, TypeOK
  <2>2. CASE pc[r] = "finished"
    BY <2>1, <2>2, ShapesEndWell DEF IInv, StreamInv
  <2>3. CASE pc[r] # "finished"
    <3>1. Running(events[r]) \/ Costed(events[r]) \/ Raised(events[r])
      BY <2>1, <2>3 DEF IInv, StreamInv, Places
    <3> QED BY <2>1, <2>3, <3>1, ShapesEndWell
  <2> QED BY <2>2, <2>3
<1> QED BY <1>1, InvHolds, PTL

\* chat() and mem.add: an answer in the store is, token for token, what its reader was
\* shown, a blocked attempt's tokens in front of the retry's, and its cost went out,
\* however many requests of the session overlap, fail or are cancelled.
THEOREM SupportChatRememberedWasDelivered == Spec => []RememberedWasDelivered
<1>1. IInv => RememberedWasDelivered
  BY DEF IInv, DeliveredInv, Delivered, Ordered, RememberedWasDelivered
<1> QED BY <1>1, InvHolds, PTL

\* chat() over a session: while its requests come one after the other, the session is
\* their dialogue, with both turns of each that was answered in full, and a request asks
\* the model its own question behind it.
THEOREM SupportChatSessionIsTheDialogue == Spec => []SessionIsTheDialogue
<1>1. IInv => SessionIsTheDialogue
  <2> SUFFICES ASSUME IInv, ~overlapped PROVE SessionIsTheDialogue
    BY DEF SessionIsTheDialogue
  <2>1. TypeOK /\ SessionInv /\ Dialogue(store)
    BY DEF IInv, SessionInv
  <2>2. \A r \in Requests : \A k \in 1..Len(store) :
          /\ store[k] = Question(r) => Count(store, Question(r)) = 1
          /\ store[k] = Reply(r)    => Count(store, Reply(r)) = 1
    BY <2>1, CountOne DEF Dialogue, SameTurn
  <2>3. ASSUME NEW r \in Requests, pc[r] = "finished", Count(events[r], "error") = 0
        PROVE  /\ Count(store, Question(r)) = 1
               /\ said[r] # <<>> => Count(store, Reply(r)) = 1
    <3>1. events[r] \in Seq(Kinds)
      BY <2>1 DEF TypeOK
    <3>2. \A k \in 1..Len(events[r]) : events[r][k] # "error"
      BY <2>3, <3>1, CountSome
    <3>3. /\ \E k \in 1..Len(store) : store[k] = Question(r)
          /\ said[r] # <<>> => \E k \in 1..Len(store) : store[k] = Reply(r)
      BY <2>1, <2>3, <3>2 DEF SessionInv, Place
    <3> QED BY <2>2, <3>3
  <2>4. \A r \in Requests : pc[r] \in {"answer", "retry"} =>
          history[r] # <<>> /\ history[r][Len(history[r])] = Question(r)
    BY <2>1 DEF SessionInv, Place
  <2> QED BY <2>1, <2>3, <2>4 DEF SessionIsTheDialogue, Dialogue
<1> QED BY <1>1, InvHolds, PTL

=============================================================================
