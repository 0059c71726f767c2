---------------------------- MODULE RunTools_proofs ----------------------------
(***************************************************************************)
(* The tool loop, for any ceiling, any number of calls in a turn and any   *)
(* number of runs that are fed the conversation of the run before.         *)
(*                                                                         *)
(* What a run reports rests on what it wrote: OwnTurns tells the turns of  *)
(* this run from those it was seeded with, Linked and Owes tell which call *)
(* of which turn every tool result answers and which one is due next, and  *)
(* Places says what the loop knows at each of its places.                  *)
(*                                                                         *)
(* On the Anthropic wire the same conversation is a fold: the lemmas on    *)
(* flattened rows, on the identities of the parts of a kind and on the     *)
(* merge of neighbours of one role hold for any turns.  AnsweredBut says   *)
(* what such a merge still owes, and it is followed from one place of the  *)
(* conversation where nothing is owed to the next: a turn that answers     *)
(* nothing, or an answer with all the results of its calls.                *)
(*                                                                         *)
(* What that wire says of a conversation nobody ran, of turns of any roles *)
(* in any order, is followed turn by turn: Flat is a row of what each of   *)
(* its turns or parts becomes, and ConversationIsKept says that nothing of *)
(* it is lost or moved.                                                    *)
(***************************************************************************)
EXTENDS RunTools, SequenceTheorems, FiniteSetTheorems, WellFoundedInduction, TLAPS

TypeOK ==
  /\ phase \in {"idle", "ask", "tools", "after", "returned", "rejected"}
  /\ run \in Nat /\ messages \in Seq(Turn) /\ seeded \in 0..Len(messages)
  /\ steps \in Nat /\ requests \in Nat /\ answered \in Nat
  /\ priced \in Nat /\ unpriced \in Nat
  /\ stopReason \in {"maxSteps", "stop", "stopWhen"} /\ text \in 0..Len(messages)

\* The turns of this run are those behind its seed.
OwnTurns ==
  \A i \in 1..Len(messages) : messages[i].role = "assistant" =>
    IF i <= seeded THEN messages[i].run < run ELSE messages[i].run = run

\* In a conversation m, turn j makes a call whose result stands at i.
Calls(m, j, i) == j < i /\ m[j].role = "assistant" /\ i - j <= m[j].calls

\* A tool result stands where a call has it, and a call that is followed by a turn is
\* followed by its result.
Linked(m) ==
  \A i \in 1..Len(m) :
    /\ m[i].role = "tool" => \E j \in 1..(i - 1) : Calls(m, j, i)
    /\ \A j \in 1..(i - 1) : Calls(m, j, i) => m[i].role = "tool" /\ m[i].call = i - j

\* No call of m is without its result, or only calls of turn j are.
Closed(m)  == \A j \in 1..Len(m) : ~Calls(m, j, Len(m) + 1)
Open(m, j) == Calls(m, j, Len(m) + 1) /\ \A l \in 1..Len(m) : Calls(m, l, Len(m) + 1) => l = j

\* Calls are without their results only while the tools of the last answer run.
Owes ==
  /\ phase \in {"idle", "ask", "after", "returned"} => Closed(messages)
  /\ phase = "tools" => answered < Len(messages) /\ Open(messages, Len(messages) - answered)

Places ==
  /\ phase = "idle"     => requests = 0 /\ run = 0 /\ messages = <<>>
  /\ phase = "ask"      => requests = steps /\ steps < MaxSteps
  /\ phase \in {"tools", "after", "returned"} => requests = steps /\ steps <= MaxSteps
  /\ phase = "rejected" => requests <= MaxSteps
  /\ phase \in {"idle", "ask", "tools", "after"} => stopReason = "maxSteps" /\ text = 0
  /\ phase = "after"    => Len(messages) > 0 /\ messages[Len(messages)].role = "tool"

Answers == { i \in 1..Len(messages) : messages[i].role = "assistant" /\ messages[i].run = run }

IInv ==
  /\ TypeOK
  /\ OwnTurns
  /\ Linked(messages)
  /\ Owes
  /\ Places
  /\ TextIsTheRunsOwn
  /\ CostCoversTheRun
  /\ CeilingHolds

-----------------------------------------------------------------------------
\* The greatest of finitely many indices, by the least upper bound of them.
Below == { p \in Nat \X Nat : p[1] < p[2] }

LEMMA LeastNatural ==
  ASSUME NEW T, T \subseteq Nat, T # {}
  PROVE  \E n \in T : \A m \in T : n <= m
<1>1. IsWellFoundedOn(Below, Nat)
  BY NatLessThanWellFounded, Zenon DEF OpToRel, Below
<1>2. PICK n \in T : \A m \in T : <<m, n>> \notin Below
  BY <1>1, WFMin
<1>3. ASSUME NEW m \in T PROVE n <= m
  <2>1. <<m, n>> \in Nat \X Nat
    OBVIOUS
  <2>2. ~(m < n)
    BY <1>2, <2>1 DEF Below
  <2> QED BY <2>2
<1> QED BY <1>3

LEMMA GreatestIndex ==
  ASSUME NEW n \in Nat, NEW T, T \subseteq 1..n, T # {}
  PROVE  \E i \in T : \A j \in T : j <= i
<1> DEFINE Bounds == { b \in Nat : \A j \in T : j <= b }
<1>1. n \in Bounds
  OBVIOUS
<1>2. PICK b \in Bounds : \A c \in Bounds : b <= c
  BY <1>1, LeastNatural
<1>3. b \in T
  <2>1. SUFFICES ASSUME b \notin T PROVE FALSE
    OBVIOUS
  <2>2. PICK t \in T : TRUE
    OBVIOUS
  <2>3. b >= 1 /\ b \in Nat
    BY <2>2
  <2>4. \A j \in T : j <= b - 1
    BY <2>1, <2>3
  <2>5. b - 1 \in Bounds
    BY <2>3, <2>4
  <2> QED BY <1>2, <2>3, <2>5
<1> QED BY <1>3

\* What the conversation is after one more turn.
LEMMA OneMoreTurn ==
  ASSUME NEW m \in Seq(Turn), NEW t \in Turn, NEW n, n = Append(m, t)
  PROVE  /\ n \in Seq(Turn) /\ Len(m) \in Nat /\ Len(n) = Len(m) + 1
         /\ \A i \in 1..Len(m) : n[i] = m[i] /\ m[i] \in Turn
         /\ n[Len(m) + 1] = t
BY AppendProperties, LenProperties, ElementOfSeq

\* The calls of a turn stay its calls, and a new turn brings its own.
LEMMA CallsGrow ==
  ASSUME NEW m \in Seq(Turn), NEW t \in Turn, NEW n, n = Append(m, t)
  PROVE  /\ \A j \in 1..Len(m), i \in Nat : Calls(n, j, i) <=> Calls(m, j, i)
         /\ \A i \in Nat : Calls(n, Len(m) + 1, i) <=>
              Len(m) + 1 < i /\ t.role = "assistant" /\ i - (Len(m) + 1) <= t.calls
<1>1. /\ Len(m) \in Nat /\ n[Len(m) + 1] = t
      /\ \A i \in 1..Len(m) : n[i] = m[i]
  BY OneMoreTurn
<1> QED BY <1>1 DEF Calls

\* A conversation stays linked by the result that is due, or by a turn of no tool
\* where none is.
LEMMA LinkedGrows ==
  ASSUME NEW m \in Seq(Turn), NEW t \in Turn, NEW n, n = Append(m, t), Linked(m),
         \/ t.role # "tool" /\ Closed(m)
         \/ \E j \in 1..Len(m) : Open(m, j) /\ t.role = "tool" /\ t.call = Len(m) + 1 - j
  PROVE  Linked(n)
<1>1. /\ Len(m) \in Nat /\ Len(n) = Len(m) + 1 /\ n[Len(m) + 1] = t
      /\ \A i \in 1..Len(m) : n[i] = m[i]
  BY OneMoreTurn
<1>2. \A j \in 1..Len(m), i \in Nat : Calls(n, j, i) <=> Calls(m, j, i)
  BY CallsGrow
<1> SUFFICES ASSUME NEW i \in 1..(Len(m) + 1)
             PROVE  /\ n[i].role = "tool" => \E j \in 1..(i - 1) : Calls(n, j, i)
                    /\ \A j \in 1..(i - 1) :
                         Calls(n, j, i) => n[i].role = "tool" /\ n[i].call = i - j
  BY <1>1 DEF Linked
<1>3. CASE i \in 1..Len(m)
  <2>1. /\ m[i].role = "tool" => \E j \in 1..(i - 1) : Calls(m, j, i)
        /\ \A j \in 1..(i - 1) : Calls(m, j, i) => m[i].role = "tool" /\ m[i].call = i - j
    BY <1>3 DEF Linked
  <2> QED BY <1>1, <1>2, <1>3, <2>1
<1>4. CASE i = Len(m) + 1
  <2>1. i - 1 = Len(m) /\ i \in Nat /\ n[i] = t
    BY <1>1, <1>4
  <2> QED BY <1>2, <1>4, <2>1 DEF Closed, Open
<1> QED BY <1>1, <1>3, <1>4

\* What is due behind one more turn: what was due one further on, which was due before
\* as well, and the calls of the turn itself.
LEMMA DueNext ==
  ASSUME NEW m \in Seq(Turn), NEW t \in Turn, NEW n, n = Append(m, t)
  PROVE  /\ \A j \in 1..Len(n) : Calls(n, j, Len(n) + 1) <=>
              \/ j \in 1..Len(m) /\ Calls(m, j, Len(m) + 2)
              \/ j = Len(m) + 1 /\ t.role = "assistant" /\ 1 <= t.calls
         /\ \A j \in 1..Len(m) : Calls(m, j, Len(m) + 2) => Calls(m, j, Len(m) + 1)
<1>1. /\ Len(m) \in Nat /\ Len(n) = Len(m) + 1 /\ n[Len(m) + 1] = t
      /\ \A j \in 1..Len(m) : m[j] \in Turn
  BY OneMoreTurn
<1>2. \A u \in Turn : u.calls \in Nat
  BY DEF Turn
<1>3. Len(n) + 1 = Len(m) + 2 /\ Len(m) + 2 \in Nat
  BY <1>1
<1>4. \A j \in 1..Len(m) : Calls(n, j, Len(m) + 2) <=> Calls(m, j, Len(m) + 2)
  BY <1>3, CallsGrow
<1>5. Calls(n, Len(m) + 1, Len(m) + 2) <=> t.role = "assistant" /\ 1 <= t.calls
  BY <1>1, <1>2 DEF Calls
<1>6. \A j \in 1..Len(m) : Calls(m, j, Len(m) + 2) => Calls(m, j, Len(m) + 1)
  BY <1>1, <1>2 DEF Calls
<1> QED BY <1>1, <1>3, <1>4, <1>5, <1>6

\* The answers of a run: counted one by one.
LEMMA AnswersAreFinite ==
  ASSUME TypeOK
  PROVE  IsFiniteSet(Answers) /\ Cardinality(Answers) \in Nat
<1>1. Len(messages) \in Nat
  BY LenProperties DEF TypeOK
<1>2. IsFiniteSet(1..Len(messages))
  BY <1>1, FS_Interval
<1>3. Answers \subseteq 1..Len(messages)
  BY DEF Answers
<1> QED BY <1>2, <1>3, FS_Subset, FS_CardinalityType

LEMMA AnswersGrow ==
  ASSUME TypeOK, NEW t \in Turn, messages' = Append(messages, t), run' = run
  PROVE  /\ t.role = "assistant" /\ t.run = run =>
              Cardinality(Answers') = Cardinality(Answers) + 1
         /\ t.role # "assistant" => Answers' = Answers
<1>1. /\ Len(messages) \in Nat /\ Len(messages') = Len(messages) + 1
      /\ \A i \in 1..Len(messages) : messages'[i] = messages[i]
      /\ messages'[Len(messages) + 1] = t
  BY OneMoreTurn DEF TypeOK
<1>2. ASSUME t.role = "assistant", t.run = run
      PROVE  Answers' = Answers \cup {Len(messages) + 1} /\ Len(messages) + 1 \notin Answers
  BY <1>1, <1>2 DEF Answers
<1>3. ASSUME t.role # "assistant" PROVE Answers' = Answers
  BY <1>1, <1>3 DEF Answers
<1>4. ASSUME t.role = "assistant", t.run = run
      PROVE  Cardinality(Answers') = Cardinality(Answers) + 1
  BY <1>2, <1>4, AnswersAreFinite, FS_AddElement
<1> QED BY <1>3, <1>4

-----------------------------------------------------------------------------
LEMMA InitInv == Init => IInv
<1> SUFFICES ASSUME Init PROVE IInv
  OBVIOUS
<1>1. messages = <<>> /\ Len(messages) = 0
  BY DEF Init
<1>2. TypeOK
  BY <1>1, EmptySeq DEF Init, TypeOK
<1>3. OwnTurns /\ Linked(messages) /\ Owes
  BY <1>1 DEF Init, OwnTurns, Linked, Owes, Closed
<1>4. Places
  BY <1>1, MaxStepsAssumption DEF Init, Places
<1>5. TextIsTheRunsOwn /\ CostCoversTheRun
  BY DEF Init, TextIsTheRunsOwn, CostCoversTheRun
<1>6. CeilingHolds
  BY MaxStepsAssumption DEF Init, CeilingHolds
<1> QED BY <1>2, <1>3, <1>4, <1>5, <1>6 DEF IInv

\* A seed is a linked conversation that owes nothing, of turns older than the run.
LEMMA StartInv == IInv /\ Start => IInv'
<1> SUFFICES ASSUME IInv, Start PROVE IInv'
  OBVIOUS
<1>1. PICK seed \in Seeds : messages' = seed /\ seeded' = Len(seed)
  BY DEF Start
<1>2. /\ phase' = "ask" /\ run' = run + 1 /\ steps' = 0 /\ requests' = 0 /\ answered' = 0
      /\ priced' = 0 /\ unpriced' = 0 /\ stopReason' = "maxSteps" /\ text' = 0
  BY DEF Start
<1>3. TypeOK /\ run \in Nat /\ messages \in Seq(Turn) /\ User \in Turn
  BY DEF IInv, TypeOK, User, Turn
<1>4. \/ seed = <<User>>
      \/ phase = "returned" /\ seed = messages
      \/ phase = "returned" /\ seed = Append(messages, User)
  BY <1>1 DEF Seeds
<1>5. User.role = "user"
  BY DEF User
<1>6. \A i \in 1..Len(messages) : messages[i].role = "assistant" => messages[i].run < run + 1
  <2>1. \A i \in 1..Len(messages) : messages[i] \in Turn
    BY <1>3, ElementOfSeq
  <2>2. \A i \in 1..Len(messages) : messages[i].run \in Nat
    BY <2>1 DEF Turn
  <2> QED BY <1>3, <2>2 DEF IInv, OwnTurns
<1>7. /\ seed \in Seq(Turn) /\ Linked(seed) /\ Closed(seed)
      /\ \A i \in 1..Len(seed) : seed[i].role = "assistant" => seed[i].run < run + 1
  <2>1. CASE seed = <<User>>
    <3>1. seed \in Seq(Turn) /\ Len(seed) = 1 /\ seed[1] = User
      BY <1>3, <2>1
    <3> QED BY <1>5, <3>1 DEF Linked, Closed, Calls
  <2>2. CASE phase = "returned" /\ seed = messages
    BY <1>3, <1>6, <2>2 DEF IInv, Owes
  <2>3. CASE phase = "returned" /\ seed = Append(messages, User)
    <3>1. /\ Len(messages) \in Nat /\ seed \in Seq(Turn) /\ Len(seed) = Len(messages) + 1
          /\ \A i \in 1..Len(messages) : seed[i] = messages[i]
          /\ seed[Len(messages) + 1] = User
      BY <1>3, <2>3, OneMoreTurn
    <3>2. Linked(messages) /\ Closed(messages)
      BY <2>3 DEF IInv, Owes
    <3>3. Linked(seed)
      BY <1>3, <1>5, <2>3, <3>2, LinkedGrows
    <3>4. Closed(seed)
      BY <1>3, <1>5, <2>3, <3>2, DueNext DEF Closed
    <3> QED BY <1>5, <1>6, <3>1, <3>3, <3>4
  <2> QED BY <1>4, <2>1, <2>2, <2>3
<1>8. Len(seed) \in Nat
  BY <1>7, LenProperties
<1>9. TypeOK'
  BY <1>1, <1>2, <1>3, <1>7, <1>8 DEF TypeOK
<1>10. OwnTurns' /\ Linked(messages)' /\ Owes'
  BY <1>1, <1>2, <1>7, <1>8 DEF OwnTurns, Owes
<1>11. Places' /\ TextIsTheRunsOwn' /\ CeilingHolds'
  BY <1>2, MaxStepsAssumption DEF Places, TextIsTheRunsOwn, CeilingHolds
<1>12. CostCoversTheRun'
  <2>1. { i \in 1..Len(messages') :
            messages'[i].role = "assistant" /\ messages'[i].run = run' } = {}
    BY <1>1, <1>2, <1>3, <1>7
  <2> QED BY <1>2, <2>1, FS_EmptySet DEF CostCoversTheRun
<1> QED BY <1>9, <1>10, <1>11, <1>12 DEF IInv

\* The answer of the provider: a turn of this run, and one more of its answers.
LEMMA AnswerInv == IInv /\ Answer => IInv'
<1> SUFFICES ASSUME IInv, Answer PROVE IInv'
  OBVIOUS
<1>1. PICK said \in BOOLEAN, n \in 0..MaxCalls :
        /\ messages' = Append(messages, Assistant(said, n))
        /\ IF n = 0
           THEN /\ phase' = "returned" /\ stopReason' = "stop"
                /\ text' = IF said THEN Len(messages') ELSE 0
           ELSE phase' = "tools" /\ UNCHANGED <<stopReason, text>>
  BY DEF Answer
<1>2. /\ phase = "ask" /\ requests' = requests + 1 /\ steps' = steps + 1 /\ answered' = 0
      /\ run' = run /\ seeded' = seeded
  BY DEF Answer
<1>3. PICK exact \in BOOLEAN : CostAdd(exact)
  BY DEF Answer
<1> DEFINE t == Assistant(said, n)
<1>4. TypeOK /\ messages \in Seq(Turn) /\ run \in Nat /\ Linked(messages) /\ Closed(messages)
  BY <1>2 DEF IInv, TypeOK, Owes
<1>5. t \in Turn /\ t.role = "assistant" /\ t.run = run /\ t.calls = n /\ t.said = said /\ n \in Nat
  BY <1>4, MaxCallsAssumption DEF Assistant, Turn
<1>6. /\ messages' \in Seq(Turn) /\ Len(messages) \in Nat /\ Len(messages') = Len(messages) + 1
      /\ \A i \in 1..Len(messages) : messages'[i] = messages[i]
      /\ messages'[Len(messages) + 1] = t
  BY <1>1, <1>4, <1>5, OneMoreTurn
<1>7. priced' \in Nat /\ unpriced' \in Nat /\ priced' + unpriced' = priced + unpriced + 1
  BY <1>3, <1>4 DEF CostAdd, TypeOK
<1>8. steps \in Nat /\ requests = steps /\ steps < MaxSteps /\ stopReason = "maxSteps" /\ text = 0
  BY <1>2, <1>4 DEF IInv, Places, TypeOK
<1>9. TypeOK'
  <2>1. /\ phase' \in {"returned", "tools"} /\ stopReason' \in {"maxSteps", "stop"}
        /\ text' \in 0..Len(messages')
    BY <1>1, <1>6, <1>8
  <2>2. seeded' \in 0..Len(messages')
    BY <1>2, <1>4, <1>6 DEF TypeOK
  <2> QED BY <1>2, <1>4, <1>6, <1>7, <1>8, <2>1, <2>2 DEF TypeOK
<1>10. OwnTurns'
  <2>1. seeded \in 0..Len(messages)
    BY <1>4 DEF TypeOK
  <2>2. \A i \in 1..Len(messages) : messages[i].role = "assistant" =>
          IF i <= seeded THEN messages[i].run < run ELSE messages[i].run = run
    BY DEF IInv, OwnTurns
  <2>3. \A i \in 1..(Len(messages) + 1) : i \in 1..Len(messages) \/ i = Len(messages) + 1
    BY <1>6
  <2> QED BY <1>2, <1>5, <1>6, <2>1, <2>2, <2>3 DEF OwnTurns
<1>11. Linked(messages)'
  BY <1>1, <1>4, <1>5, LinkedGrows
<1>12. Owes'
  <2>1. \A j \in 1..Len(messages') :
          Calls(messages', j, Len(messages') + 1) <=> j = Len(messages) + 1 /\ 1 <= n
    <3>1. \A j \in 1..Len(messages') : Calls(messages', j, Len(messages') + 1) <=>
            \/ j \in 1..Len(messages) /\ Calls(messages, j, Len(messages) + 2)
            \/ j = Len(messages) + 1 /\ t.role = "assistant" /\ 1 <= t.calls
      BY <1>1, <1>4, <1>5, DueNext
    <3>2. \A j \in 1..Len(messages) : ~Calls(messages, j, Len(messages) + 2)
      BY <1>1, <1>4, <1>5, DueNext DEF Closed
    <3> QED BY <1>5, <3>1, <3>2
  <2>2. CASE n = 0
    BY <1>1, <2>1, <2>2 DEF Owes, Closed
  <2>3. CASE n # 0
    <3>1. phase' = "tools" /\ Len(messages') - answered' = Len(messages) + 1
      BY <1>1, <1>2, <1>6, <2>3
    <3>2. Open(messages', Len(messages) + 1)
      BY <1>5, <1>6, <2>1, <2>3 DEF Open
    <3> QED BY <1>2, <1>6, <3>1, <3>2 DEF Owes
  <2> QED BY <2>2, <2>3
<1>13. Places'
  BY <1>1, <1>2, <1>8, MaxStepsAssumption DEF Places
<1>14. TextIsTheRunsOwn'
  BY <1>1, <1>2, <1>5, <1>6, <1>8 DEF TextIsTheRunsOwn
<1>15. CostCoversTheRun'
  <2>1. Cardinality(Answers') = Cardinality(Answers) + 1
    BY <1>1, <1>2, <1>4, <1>5, AnswersGrow
  <2>2. priced + unpriced = steps /\ Cardinality(Answers) = steps
    BY <1>2 DEF IInv, CostCoversTheRun, Answers
  <2> QED BY <1>2, <1>7, <2>1, <2>2 DEF CostCoversTheRun, Answers
<1>16. CeilingHolds'
  BY <1>1, <1>2, <1>5, <1>6, <1>8, MaxStepsAssumption DEF CeilingHolds
<1> QED BY <1>9, <1>10, <1>11, <1>12, <1>13, <1>14, <1>15, <1>16 DEF IInv

\* The result that is due is the one that is given.
LEMMA RunOneToolInv == IInv /\ RunOneTool => IInv'
<1> SUFFICES ASSUME IInv, RunOneTool PROVE IInv'
  OBVIOUS
<1> DEFINE t      == ToolResult(answered + 1)
           caller == Len(messages) - answered
<1>1. /\ phase = "tools" /\ messages' = Append(messages, t) /\ answered' = answered + 1
      /\ phase' = IF answered + 1 = messages[caller].calls THEN "after" ELSE "tools"
      /\ UNCHANGED <<run, seeded, steps, requests, priced, unpriced, stopReason, text>>
  BY DEF RunOneTool
<1>2. TypeOK /\ messages \in Seq(Turn) /\ run \in Nat /\ answered \in Nat /\ Linked(messages)
  BY DEF IInv, TypeOK
<1>3. /\ t \in Turn /\ t.role = "tool" /\ t.call = answered + 1
  BY <1>2 DEF ToolResult, Turn
<1>4. /\ messages' \in Seq(Turn) /\ Len(messages) \in Nat /\ Len(messages') = Len(messages) + 1
      /\ \A i \in 1..Len(messages) : messages'[i] = messages[i] /\ messages[i] \in Turn
      /\ messages'[Len(messages) + 1] = t
  BY <1>1, <1>2, <1>3, OneMoreTurn
<1>5. caller \in 1..Len(messages) /\ Open(messages, caller)
  BY <1>1, <1>2, <1>4 DEF IInv, Owes
<1>6. messages[caller].calls \in Nat /\ answered + 1 <= messages[caller].calls
      /\ messages[caller].role = "assistant"
  <2>1. messages[caller] \in Turn
    BY <1>4, <1>5
  <2>2. messages[caller].calls \in Nat
    BY <2>1 DEF Turn
  <2> QED BY <1>2, <1>4, <1>5, <2>2 DEF Open, Calls
<1>7. /\ requests = steps /\ steps <= MaxSteps /\ stopReason = "maxSteps" /\ text = 0
      /\ steps \in Nat
  BY <1>1, <1>2 DEF IInv, Places, TypeOK
<1>8. phase' \in {"tools", "after"}
  BY <1>1
<1>9. TypeOK'
  BY <1>1, <1>2, <1>4, <1>7, <1>8 DEF TypeOK
<1>10. OwnTurns'
  <2>1. \A i \in 1..(Len(messages) + 1) : i \in 1..Len(messages) \/ i = Len(messages) + 1
    BY <1>4
  <2> QED BY <1>1, <1>3, <1>4, <2>1 DEF IInv, OwnTurns
<1>11. Linked(messages)'
  <2>1. t.call = Len(messages) + 1 - caller
    BY <1>2, <1>3, <1>4
  <2> QED BY <1>1, <1>2, <1>3, <1>5, <2>1, LinkedGrows
<1>12. Owes'
  <2>1. \A j \in 1..Len(messages') : Calls(messages', j, Len(messages') + 1) =>
          j \in 1..Len(messages) /\ Calls(messages, j, Len(messages) + 2)
    <3>1. t \in Turn /\ t.role # "assistant"
      BY <1>3
    <3> HIDE DEF t
    <3>2. \A j \in 1..Len(messages') : Calls(messages', j, Len(messages') + 1) <=>
            \/ j \in 1..Len(messages) /\ Calls(messages, j, Len(messages) + 2)
            \/ j = Len(messages) + 1 /\ t.role = "assistant" /\ 1 <= t.calls
      BY <1>1, <1>2, <3>1, DueNext
    <3> QED BY <3>1, <3>2
  <2>2. \A j \in 1..Len(messages) :
          Calls(messages, j, Len(messages) + 2) => Calls(messages, j, Len(messages) + 1)
    BY <1>1, <1>2, <1>3, DueNext
  <2>3. \A j \in 1..Len(messages') : Calls(messages', j, Len(messages') + 1) => j = caller
    BY <1>5, <2>1, <2>2 DEF Open
  <2>4. Calls(messages', caller, Len(messages') + 1) <=> answered + 2 <= messages[caller].calls
    BY <1>2, <1>4, <1>5, <1>6 DEF Calls
  <2>5. CASE answered + 1 = messages[caller].calls
    <3>1. phase' = "after" /\ Closed(messages')
      BY <1>1, <1>2, <2>3, <2>4, <2>5 DEF Closed
    <3> QED BY <3>1 DEF Owes
  <2>6. CASE answered + 1 # messages[caller].calls
    <3>1. phase' = "tools" /\ Len(messages') - answered' = caller /\ answered' < Len(messages')
      BY <1>1, <1>2, <1>4, <1>5, <2>6
    <3>2. Open(messages', caller)
      BY <1>2, <1>6, <2>3, <2>4, <2>6 DEF Open
    <3> QED BY <3>1, <3>2 DEF Owes
  <2> QED BY <2>5, <2>6
<1>13. Places'
  BY <1>1, <1>3, <1>4, <1>7, <1>8 DEF Places
<1>14. TextIsTheRunsOwn'
  BY <1>1, <1>7 DEF TextIsTheRunsOwn
<1>15. CostCoversTheRun'
  <2>1. Answers' = Answers
    BY <1>1, <1>2, <1>3, AnswersGrow
  <2>2. priced + unpriced = steps /\ Cardinality(Answers) = steps
    BY <1>1 DEF IInv, CostCoversTheRun, Answers
  <2> QED BY <1>1, <2>1, <2>2 DEF CostCoversTheRun, Answers
<1>16. CeilingHolds'
  BY <1>1, <1>7, <1>8 DEF CeilingHolds
<1> QED BY <1>9, <1>10, <1>11, <1>12, <1>13, <1>14, <1>15, <1>16 DEF IInv

\* The walk back finds a turn of the run, or nothing.
LEMMA WalkBackFinds ==
  ASSUME TypeOK, OwnTurns
  PROVE  /\ WalkBack \in 0..Len(messages)
         /\ WalkBack # 0 => /\ messages[WalkBack].role = "assistant" /\ messages[WalkBack].said
                            /\ messages[WalkBack].run = run
<1>1. Len(messages) \in Nat /\ seeded \in 0..Len(messages)
  BY LenProperties DEF TypeOK
<1>2. CASE Spoken(seeded) = {}
  BY <1>1, <1>2 DEF WalkBack
<1>3. CASE Spoken(seeded) # {}
  <2>1. Spoken(seeded) \subseteq 1..Len(messages)
    BY <1>1 DEF Spoken
  <2>2. \E i \in Spoken(seeded) : \A j \in Spoken(seeded) : j <= i
    BY <1>1, <1>3, <2>1, GreatestIndex
  <2>3. WalkBack \in Spoken(seeded)
    BY <1>3, <2>2 DEF WalkBack
  <2>4. WalkBack \in (seeded + 1)..Len(messages)
        /\ messages[WalkBack].role = "assistant" /\ messages[WalkBack].said
    BY <2>3 DEF Spoken
  <2> QED BY <1>1, <2>4 DEF OwnTurns
<1> QED BY <1>2, <1>3

\* The steps that leave the conversation alone.
LEMMA QuietInv ==
  IInv /\ (RequestFails \/ GoOn \/ StopWhen \/ StopWhenFails \/ UNCHANGED vars) => IInv'
<1> SUFFICES ASSUME IInv, RequestFails \/ GoOn \/ StopWhen \/ StopWhenFails \/ UNCHANGED vars
             PROVE  IInv'
  OBVIOUS
<1>1. /\ UNCHANGED <<run, messages, seeded, steps, answered, priced, unpriced>>
      /\ requests' = IF RequestFails THEN requests + 1 ELSE requests
  BY DEF RequestFails, GoOn, StopWhen, StopWhenFails, vars
<1>2. TypeOK
  BY DEF IInv
<1>3. OwnTurns' /\ Linked(messages)'
  BY <1>1 DEF IInv, OwnTurns
<1>4. CASE RequestFails
  <2>1. phase = "ask" /\ phase' = "rejected" /\ requests' = requests + 1
        /\ UNCHANGED <<stopReason, text>>
    BY <1>4 DEF RequestFails
  <2>2. requests \in Nat /\ requests = steps /\ steps < MaxSteps /\ text = 0
    BY <1>2, <2>1 DEF TypeOK, IInv, Places
  <2> QED BY <1>1, <1>2, <1>3, <2>1, <2>2, MaxStepsAssumption
          DEF IInv, TypeOK, Owes, Places, TextIsTheRunsOwn, CostCoversTheRun, CeilingHolds
<1>5. CASE GoOn
  <2>1. /\ phase = "after" /\ UNCHANGED <<requests, stopReason>>
        /\ IF steps < MaxSteps THEN phase' = "ask" /\ text' = text
           ELSE phase' = "returned" /\ text' = WalkBack
    BY <1>5 DEF GoOn, MayGoOn
  <2>2. /\ requests = steps /\ steps <= MaxSteps /\ text = 0 /\ stopReason = "maxSteps"
        /\ Len(messages) > 0 /\ messages[Len(messages)].role = "tool" /\ Closed(messages)
        /\ steps \in Nat
    BY <1>2, <2>1 DEF IInv, Places, Owes, TypeOK
  <2>3. CASE steps < MaxSteps
    BY <1>1, <1>2, <1>3, <2>1, <2>2, <2>3
       DEF IInv, TypeOK, Owes, Places, TextIsTheRunsOwn, CostCoversTheRun, CeilingHolds
  <2>4. CASE ~(steps < MaxSteps)
    <3>1. steps = MaxSteps
      BY <2>2, <2>4, MaxStepsAssumption
    <3>2. TextIsTheRunsOwn' /\ text' \in 0..Len(messages)
      BY <1>1, <1>2, <2>1, <2>4, WalkBackFinds DEF IInv, TextIsTheRunsOwn
    <3>3. phase' = "returned"
      BY <2>1, <2>4
    <3>4. TypeOK'
      BY <1>1, <1>2, <2>1, <3>2, <3>3 DEF TypeOK
    <3> QED BY <1>1, <1>3, <2>1, <2>2, <3>1, <3>2, <3>3, <3>4
            DEF IInv, Owes, Places, CostCoversTheRun, CeilingHolds
  <2> QED BY <2>3, <2>4
<1>6. CASE StopWhen
  <2>1. phase = "after" /\ phase' = "returned" /\ stopReason' = "stopWhen"
        /\ UNCHANGED <<requests, text>>
    BY <1>6 DEF StopWhen
  <2> QED BY <1>1, <1>2, <1>3, <2>1
          DEF IInv, TypeOK, Owes, Places, TextIsTheRunsOwn, CostCoversTheRun, CeilingHolds
<1>7. CASE StopWhenFails
  <2>1. phase = "after" /\ phase' = "rejected" /\ UNCHANGED <<requests, stopReason, text>>
    BY <1>7 DEF StopWhenFails
  <2> QED BY <1>1, <1>2, <1>3, <2>1
          DEF IInv, TypeOK, Owes, Places, TextIsTheRunsOwn, CostCoversTheRun, CeilingHolds
<1>8. CASE UNCHANGED vars
  BY <1>8 DEF vars, IInv, TypeOK, OwnTurns, Owes, Places, TextIsTheRunsOwn, CostCoversTheRun,
              CeilingHolds
<1> QED BY <1>4, <1>5, <1>6, <1>7, <1>8

LEMMA NextInv == IInv /\ [Next]_vars => IInv'
BY StartInv, AnswerInv, RunOneToolInv, QuietInv DEF Next, Loop

LEMMA InvHolds == Spec => []IInv
BY InitInv, NextInv, PTL DEF Spec

-----------------------------------------------------------------------------
\* The state of the loop and of its caller stays within its types.
THEOREM RunToolsTypeOK == Spec => []TypeOK
<1>1. IInv => TypeOK
  BY DEF IInv
<1> QED BY <1>1, InvHolds, PTL

\* runTools: no run makes a request beyond maxSteps, and "maxSteps" is the reason of a
\* run that made them all and was still calling tools.
THEOREM RunToolsCeiling == Spec => []CeilingHolds
<1>1. IInv => CeilingHolds
  BY DEF IInv
<1> QED BY <1>1, InvHolds, PTL

\* runTools: result.text is a turn of this very run, never a tool's output nor a
\* sentence of the conversation it was seeded with.
THEOREM RunToolsText == Spec => []TextIsTheRunsOwn
<1>1. IInv => TextIsTheRunsOwn
  BY DEF IInv
<1> QED BY <1>1, InvHolds, PTL

\* CostAccumulator: each answer of a run is counted once, with a price or without.
THEOREM RunToolsCost == Spec => []CostCoversTheRun
<1>1. IInv => CostCoversTheRun
  BY DEF IInv
<1> QED BY <1>1, InvHolds, PTL

\* A linked conversation that owes nothing answers its calls.
LEMMA LinkedIsAnswered ==
  ASSUME messages \in Seq(Turn), Linked(messages), Closed(messages)
  PROVE  EveryCallAnswered
<1> DEFINE callers(i) == { j \in 1..(i - 1) : messages[j].role = "assistant"
                                              /\ i - j <= messages[j].calls }
<1>1. Len(messages) \in Nat
  BY LenProperties
<1>2. \A i \in 1..(Len(messages) + 1) : \A j \in 1..(i - 1) :
        j \in callers(i) <=> Calls(messages, j, i)
  BY <1>1 DEF Calls
<1>3. \A i \in 1..(Len(messages) + 1) :
        Due(i) = IF callers(i) = {} THEN 0 ELSE i - CHOOSE j \in callers(i) : TRUE
  BY DEF Due
<1>4. ASSUME NEW i \in 1..Len(messages)
      PROVE  IF Due(i) = 0 THEN messages[i].role # "tool"
             ELSE messages[i].role = "tool" /\ messages[i].call = Due(i)
  <2>1. i \in 1..(Len(messages) + 1) /\ i \in Nat
    BY <1>1
  <2>2. /\ messages[i].role = "tool" => \E j \in 1..(i - 1) : Calls(messages, j, i)
        /\ \A j \in 1..(i - 1) : Calls(messages, j, i) => messages[i].role = "tool"
                                                          /\ messages[i].call = i - j
    BY DEF Linked
  <2>3. CASE callers(i) = {}
    <3>1. Due(i) = 0
      BY <1>3, <2>1, <2>3
    <3>2. messages[i].role # "tool"
      BY <1>2, <2>1, <2>2, <2>3
    <3> QED BY <3>1, <3>2
  <2>4. CASE callers(i) # {}
    <3> DEFINE j == CHOOSE k \in callers(i) : TRUE
    <3>1. j \in callers(i)
      BY <2>4
    <3>2. j \in 1..(i - 1) /\ Calls(messages, j, i)
      BY <1>2, <2>1, <3>1
    <3>3. Due(i) = i - j
      BY <1>3, <2>1, <2>4
    <3>4. i - j # 0
      BY <2>1, <3>2
    <3> QED BY <2>2, <3>2, <3>3, <3>4
  <2> QED BY <2>3, <2>4
<1>5. Due(Len(messages) + 1) = 0
  <2>1. Len(messages) + 1 \in 1..(Len(messages) + 1) /\ Len(messages) + 1 - 1 = Len(messages)
    BY <1>1
  <2>2. callers(Len(messages) + 1) = {}
    BY <1>2, <2>1 DEF Closed
  <2> QED BY <1>3, <2>1, <2>2
<1> QED BY <1>4, <1>5 DEF EveryCallAnswered

-----------------------------------------------------------------------------
\* Induction on the naturals, as the existence of a least one.
LEMMA InductionOnNat ==
  ASSUME NEW T, 0 \in T, \A n \in Nat : n \in T => n + 1 \in T
  PROVE  Nat \subseteq T
<1> SUFFICES ASSUME Nat \ T # {} PROVE FALSE
  OBVIOUS
<1>1. IsWellFoundedOn(Below, Nat)
  BY NatLessThanWellFounded, Zenon DEF OpToRel, Below
<1>2. PICK n \in Nat \ T : \A m \in Nat \ T : <<m, n>> \notin Below
  BY <1>1, WFMin
<1>3. n # 0 /\ n - 1 \in Nat /\ n - 1 \in T
  <2>1. n # 0 /\ n - 1 \in Nat /\ n - 1 < n /\ <<n - 1, n>> \in Nat \X Nat
    BY <1>2
  <2>2. <<n - 1, n>> \in Below
    BY <2>1 DEF Below
  <2> QED BY <1>2, <2>1, <2>2
<1> QED BY <1>2, <1>3

-----------------------------------------------------------------------------
\* Sequences in a row, one after the other.
Flattens(ss, n, flat) ==
  flat = [i \in 1..n |-> IF i = 1 THEN ss[i] ELSE flat[i - 1] \o ss[i]]

LEMMA FlatExists ==
  ASSUME NEW ss
  PROVE  \A n \in Nat : \E flat : Flattens(ss, n, flat)
<1> DEFINE T == { n \in Nat : \E flat : Flattens(ss, n, flat) }
<1>1. 0 \in T
  <2>1. Flattens(ss, 0, [i \in 1..0 |-> <<>>])
    BY DEF Flattens
  <2> QED BY <2>1
<1>2. ASSUME NEW n \in Nat, n \in T
      PROVE  n + 1 \in T
  <2>1. PICK flat : Flattens(ss, n, flat)
    BY <1>2
  <2> DEFINE more == [i \in 1..(n + 1) |->
                        IF i = n + 1 THEN IF i = 1 THEN ss[i] ELSE flat[n] \o ss[i] ELSE flat[i]]
  <2>2. ASSUME NEW i \in 1..(n + 1)
        PROVE  more[i] = IF i = 1 THEN ss[i] ELSE more[i - 1] \o ss[i]
    <3>1. CASE i = n + 1
      <4>1. i # 1 => i - 1 \in 1..(n + 1) /\ i - 1 # n + 1 /\ i - 1 = n
        BY <3>1
      <4> QED BY <3>1, <4>1
    <3>2. CASE i # n + 1
      <4>1. i \in 1..n /\ (i # 1 => i - 1 \in 1..(n + 1) /\ i - 1 # n + 1)
        BY <3>2
      <4>2. flat[i] = IF i = 1 THEN ss[i] ELSE flat[i - 1] \o ss[i]
        BY <2>1, <4>1, Zenon DEF Flattens
      <4>3. more[i] = flat[i] /\ (i # 1 => more[i - 1] = flat[i - 1])
        BY <3>2, <4>1
      <4> HIDE DEF more
      <4> QED BY <4>2, <4>3
    <3> QED BY <3>1, <3>2
  <2>3. Flattens(ss, n + 1, more)
    <3>1. more = [i \in 1..(n + 1) |-> more[i]]
      OBVIOUS
    <3> HIDE DEF more
    <3> QED BY <2>2, <3>1 DEF Flattens
  <2> QED BY <2>3
<1>3. Nat \subseteq T
  <2> HIDE DEF T
  <2> QED BY <1>1, <1>2, InductionOnNat
<1> QED BY <1>3

\* FlattenSeq, one sequence after the other.
LEMMA FlatInOrder ==
  ASSUME NEW S, NEW ss \in Seq(Seq(S))
  PROVE  \E flat : /\ flat[0] = <<>>
                   /\ \A k \in 1..Len(ss) : flat[k] = flat[k - 1] \o ss[k]
                   /\ \A k \in 0..Len(ss) : flat[k] \in Seq(S)
                   /\ Wire!FlattenSeq(ss) = flat[Len(ss)]
<1> DEFINE n == Len(ss)
           f == CHOOSE f : Flattens(ss, n, f)
           flat == [k \in 0..n |-> IF k = 0 THEN <<>> ELSE f[k]]
<1>1. n \in Nat /\ \A k \in 1..n : ss[k] \in Seq(S)
  BY LenProperties, ElementOfSeq
<1>2. Flattens(ss, n, f)
  BY <1>1, FlatExists, Zenon
<1>3. n # 0 => Wire!FlattenSeq(ss) = f[n]
  BY Zenon DEF Wire!FlattenSeq, Flattens
<1>4. n = 0 => ss = <<>> /\ Wire!FlattenSeq(ss) = <<>>
  <2>1. n = 0 => ss = <<>>
    BY EmptySeq
  <2> QED BY <2>1, Zenon DEF Wire!FlattenSeq
<1> HIDE DEF n, f
<1>5. \A k \in 1..n : f[k] = IF k = 1 THEN ss[k] ELSE f[k - 1] \o ss[k]
  BY <1>2, Zenon DEF Flattens
<1>6. flat[0] = <<>>
  BY <1>1
<1>7. ASSUME NEW k \in 1..n
      PROVE  flat[k] = flat[k - 1] \o ss[k]
  <2>1. k \in 0..n /\ k - 1 \in 0..n /\ k # 0
    BY <1>1
  <2>2. CASE k = 1
    <3>1. flat[k] = ss[k] /\ flat[k - 1] = <<>>
      BY <1>5, <2>1, <2>2
    <3> HIDE DEF flat
    <3> QED BY <1>1, <3>1, ConcatEmptySeq
  <2>3. CASE k # 1
    <3>1. flat[k] = f[k] /\ flat[k - 1] = f[k - 1]
      BY <2>1, <2>3
    <3> HIDE DEF flat
    <3> QED BY <1>5, <2>3, <3>1, Zenon
  <2> QED BY <2>2, <2>3
<1>8. flat[n] = Wire!FlattenSeq(ss)
  BY <1>1, <1>3, <1>4
<1>9. \A k \in 0..n : flat[k] \in Seq(S)
  <2> HIDE DEF flat
  <2> DEFINE T == { k \in Nat : k <= n => flat[k] \in Seq(S) }
  <2>1. 0 \in T
    BY <1>6, EmptySeq
  <2>2. ASSUME NEW k \in Nat, k \in T PROVE k + 1 \in T
    <3>1. CASE k + 1 <= n
      <4>1. k + 1 \in 1..n /\ flat[k] \in Seq(S) /\ ss[k + 1] \in Seq(S) /\ (k + 1) - 1 = k
        BY <1>1, <2>2, <3>1
      <4>2. flat[k + 1] = flat[k] \o ss[k + 1]
        BY <1>7, <4>1
      <4>3. flat[k + 1] \in Seq(S)
        BY <4>1, <4>2, ConcatProperties, Zenon
      <4> QED BY <4>3
    <3> QED BY <3>1
  <2>3. Nat \subseteq T
    <3> HIDE DEF T
    <3> QED BY <2>1, <2>2, InductionOnNat
  <2> QED BY <1>1, <2>3
<1> HIDE DEF flat
<1> QED BY <1>6, <1>7, <1>8, <1>9 DEF n

\* What is flattened together is what is flattened in two parts.
LEMMA FlatConcat ==
  ASSUME NEW S, NEW ss \in Seq(Seq(S)), NEW tt \in Seq(Seq(S))
  PROVE  /\ Wire!FlattenSeq(ss) \in Seq(S) /\ Wire!FlattenSeq(tt) \in Seq(S)
         /\ Wire!FlattenSeq(ss \o tt) = Wire!FlattenSeq(ss) \o Wire!FlattenSeq(tt)
<1> DEFINE n == Len(ss)
           m == Len(tt)
           uu == ss \o tt
<1>1. n \in Nat /\ m \in Nat
  BY LenProperties
<1>2. /\ uu \in Seq(Seq(S)) /\ Len(uu) = n + m
      /\ \A i \in 1..(n + m) : uu[i] = IF i <= n THEN ss[i] ELSE tt[i - n]
  BY ConcatProperties
<1> HIDE DEF uu
<1>3. PICK a : /\ a[0] = <<>>
               /\ \A k \in 1..n : a[k] = a[k - 1] \o ss[k]
               /\ \A k \in 0..n : a[k] \in Seq(S)
               /\ Wire!FlattenSeq(ss) = a[n]
  BY FlatInOrder, Zenon
<1>4. PICK b : /\ b[0] = <<>>
               /\ \A k \in 1..m : b[k] = b[k - 1] \o tt[k]
               /\ \A k \in 0..m : b[k] \in Seq(S)
               /\ Wire!FlattenSeq(tt) = b[m]
  BY FlatInOrder, Zenon
<1>5. PICK c : /\ c[0] = <<>>
               /\ \A k \in 1..Len(uu) : c[k] = c[k - 1] \o uu[k]
               /\ \A k \in 0..Len(uu) : c[k] \in Seq(S)
               /\ Wire!FlattenSeq(uu) = c[Len(uu)]
  BY <1>2, FlatInOrder, Zenon
<1> HIDE DEF n, m
<1> DEFINE T == { k \in Nat : k <= n => c[k] = a[k] }
<1>6. Nat \subseteq T
  <2>1. 0 \in T
    BY <1>3, <1>5
  <2>2. ASSUME NEW k \in Nat, k \in T PROVE k + 1 \in T
    <3>1. CASE k + 1 <= n
      <4>1. k + 1 \in 1..n /\ k + 1 \in 1..Len(uu) /\ (k + 1) - 1 = k /\ c[k] = a[k]
        BY <1>1, <1>2, <2>2, <3>1
      <4>2. uu[k + 1] = ss[k + 1]
        BY <1>1, <1>2, <3>1, <4>1
      <4>3. c[k + 1] = a[k + 1]
        BY <1>3, <1>5, <4>1, <4>2, Zenon
      <4> QED BY <4>3
    <3> QED BY <3>1
  <2> HIDE DEF T
  <2> QED BY <2>1, <2>2, InductionOnNat
<1> DEFINE ab == [k \in 0..m |-> a[n] \o b[k]]
           U  == { k \in Nat : k <= m => c[n + k] = ab[k] }
<1>7. \A k \in 0..m : ab[k] = a[n] \o b[k]
  OBVIOUS
<1> HIDE DEF ab
<1>8. Nat \subseteq U
  <2>1. 0 \in U
    <3>1. c[n] = a[n] /\ n \in 0..n /\ n + 0 = n /\ 0 \in 0..m
      BY <1>1, <1>6
    <3>2. a[n] \o <<>> = a[n]
      BY <1>3, <3>1, ConcatEmptySeq, Zenon
    <3>3. c[n + 0] = ab[0]
      BY <1>4, <1>7, <3>1, <3>2, Zenon
    <3> QED BY <3>3
  <2>2. ASSUME NEW k \in Nat, k \in U PROVE k + 1 \in U
    <3>1. CASE k + 1 <= m
      <4>1. /\ k + 1 \in 1..m /\ (k + 1) - 1 = k /\ c[n + k] = ab[k]
            /\ n + (k + 1) \in 1..(n + m) /\ (n + (k + 1)) - 1 = n + k
            /\ (n + (k + 1)) - n = k + 1 /\ ~(n + (k + 1) <= n)
            /\ k \in 0..m /\ k + 1 \in 0..m /\ n \in 0..n
        BY <1>1, <2>2, <3>1
      <4>2. uu[n + (k + 1)] = tt[k + 1]
        BY <1>2, <4>1, Zenon
      <4>3. c[n + (k + 1)] = c[n + k] \o tt[k + 1]
        BY <1>2, <1>5, <4>1, <4>2, Zenon
      <4>4. b[k + 1] = b[k] \o tt[k + 1]
        BY <1>4, <4>1, Zenon
      <4>5. tt[k + 1] \in Seq(S) /\ a[n] \in Seq(S) /\ b[k] \in Seq(S)
        BY <1>3, <1>4, <4>1, ElementOfSeq, Zenon DEF m
      <4>6. (a[n] \o b[k]) \o tt[k + 1] = a[n] \o (b[k] \o tt[k + 1])
        <5>1. \A x, y, z \in Seq(S) : (x \o y) \o z = x \o (y \o z)
          BY ConcatAssociative
        <5> QED BY <4>5, <5>1, Zenon
      <4>7. c[n + (k + 1)] = ab[k + 1]
        BY <1>7, <4>1, <4>3, <4>4, <4>6, Zenon
      <4> QED BY <4>7
    <3> QED BY <3>1
  <2> HIDE DEF U
  <2> QED BY <2>1, <2>2, InductionOnNat
<1>10. c[n + m] = a[n] \o b[m]
  <2>1. m \in Nat /\ m <= m /\ m \in 0..m
    BY <1>1
  <2>2. c[n + m] = ab[m]
    BY <1>8, <2>1
  <2> QED BY <1>7, <2>1, <2>2, Zenon
<1>9. n \in 0..n /\ m \in 0..m
  BY <1>1
<1> QED BY <1>2, <1>3, <1>4, <1>5, <1>9, <1>10, Zenon DEF uu

LEMMA FlatSmall ==
  ASSUME NEW S
  PROVE  /\ Wire!FlattenSeq(<<>>) = <<>>
         /\ \A x \in Seq(S) : Wire!FlattenSeq(<<x>>) = x
<1>1. Wire!FlattenSeq(<<>>) = <<>>
  <2>1. Len(<<>>) = 0
    BY EmptySeq
  <2> QED BY <2>1, Zenon DEF Wire!FlattenSeq
<1>2. ASSUME NEW x \in Seq(S) PROVE Wire!FlattenSeq(<<x>>) = x
  <2>1. <<x>> \in Seq(Seq(S)) /\ Len(<<x>>) = 1 /\ <<x>>[1] = x
    OBVIOUS
  <2>2. PICK a : /\ a[0] = <<>>
                 /\ \A k \in 1..Len(<<x>>) : a[k] = a[k - 1] \o <<x>>[k]
                 /\ Wire!FlattenSeq(<<x>>) = a[Len(<<x>>)]
    BY <2>1, FlatInOrder, Zenon
  <2>3. 1 \in 1..Len(<<x>>) /\ 1 - 1 = 0
    BY <2>1
  <2>4. Wire!FlattenSeq(<<x>>) = <<>> \o x
    BY <2>1, <2>2, <2>3, Zenon
  <2> QED BY <2>4, ConcatEmptySeq
<1> QED BY <1>1, <1>2

LEMMA FlatAppend ==
  ASSUME NEW S, NEW ss \in Seq(Seq(S)), NEW x \in Seq(S)
  PROVE  /\ Wire!FlattenSeq(Append(ss, x)) = Wire!FlattenSeq(ss) \o x
         /\ Wire!FlattenSeq(ss) \in Seq(S)
<1>1. Append(ss, x) = ss \o <<x>> /\ <<x>> \in Seq(Seq(S))
  BY AppendIsConcat
<1>2. Wire!FlattenSeq(<<x>>) = x
  BY FlatSmall
<1> QED BY <1>1, <1>2, FlatConcat, Zenon

\* What is wrapped turn by turn, and what is left out altogether.
LEMMA FlatSingles ==
  ASSUME NEW S, NEW xs \in Seq(S)
  PROVE  Wire!FlattenSeq([k \in 1..Len(xs) |-> <<xs[k]>>]) = xs
<1> DEFINE n == Len(xs)
           ss == [k \in 1..n |-> <<xs[k]>>]
<1>1. n \in Nat /\ \A k \in 1..n : xs[k] \in S
  BY LenProperties, ElementOfSeq
<1>2. ss \in Seq(Seq(S)) /\ Len(ss) = n /\ \A k \in 1..n : ss[k] = <<xs[k]>>
  BY <1>1
<1> HIDE DEF ss
<1>3. PICK a : /\ a[0] = <<>>
               /\ \A k \in 1..n : a[k] = a[k - 1] \o ss[k]
               /\ Wire!FlattenSeq(ss) = a[n]
  <2>1. \E a : /\ a[0] = <<>>
               /\ \A k \in 1..Len(ss) : a[k] = a[k - 1] \o ss[k]
               /\ Wire!FlattenSeq(ss) = a[Len(ss)]
    BY <1>2, FlatInOrder, Zenon
  <2> QED BY <1>2, <2>1
<1> DEFINE T == { k \in Nat : k <= n => a[k] = SubSeq(xs, 1, k) }
<1>4. Nat \subseteq T
  <2>1. 0 \in T
    <3>1. SubSeq(xs, 1, 0) = <<>>
      BY SubSeqEmpty
    <3> QED BY <1>3, <3>1
  <2>2. ASSUME NEW k \in Nat, k \in T PROVE k + 1 \in T
    <3>1. CASE k + 1 <= n
      <4>1. k + 1 \in 1..n /\ 1 \in 1..n /\ k + 1 \in 1..n /\ (k + 1) - 1 = k /\ a[k] = SubSeq(xs, 1, k)
        BY <1>1, <2>2, <3>1
      <4>2. SubSeq(xs, 1, k + 1) = SubSeq(xs, 1, k) \o <<xs[k + 1]>>
        BY <4>1, SubSeqRecursiveSecond
      <4>3. a[k + 1] = SubSeq(xs, 1, k + 1)
        BY <1>2, <1>3, <4>1, <4>2, Zenon
      <4> QED BY <4>3
    <3> QED BY <3>1
  <2> HIDE DEF T
  <2> QED BY <2>1, <2>2, InductionOnNat
<1>5. a[n] = SubSeq(xs, 1, n)
  BY <1>1, <1>4
<1> QED BY <1>3, <1>5, SubSeqFull DEF ss

LEMMA FlatNothing ==
  ASSUME NEW n \in Nat, NEW ss, ss = [k \in 1..n |-> <<>>]
  PROVE  Wire!FlattenSeq(ss) = <<>>
<1>1. ss \in Seq(Seq({})) /\ Len(ss) = n /\ \A k \in 1..n : ss[k] = <<>>
  OBVIOUS
<1>3. PICK a : /\ a[0] = <<>>
               /\ \A k \in 1..n : a[k] = a[k - 1] \o ss[k]
               /\ Wire!FlattenSeq(ss) = a[n]
  <2>1. \E a : /\ a[0] = <<>>
               /\ \A k \in 1..Len(ss) : a[k] = a[k - 1] \o ss[k]
               /\ Wire!FlattenSeq(ss) = a[Len(ss)]
    BY <1>1, FlatInOrder, Zenon
  <2> QED BY <1>1, <2>1
<1> DEFINE T == { k \in Nat : k <= n => a[k] = <<>> }
<1>4. Nat \subseteq T
  <2>1. 0 \in T
    BY <1>3
  <2>2. ASSUME NEW k \in Nat, k \in T PROVE k + 1 \in T
    <3>1. CASE k + 1 <= n
      <4>1. k + 1 \in 1..n /\ (k + 1) - 1 = k /\ a[k] = <<>>
        BY <2>2, <3>1
      <4>2. a[k + 1] = <<>> \o <<>>
        BY <1>1, <1>3, <4>1, Zenon
      <4>3. <<>> \o <<>> = <<>>
        BY ConcatEmptySeq, EmptySeq
      <4> QED BY <4>2, <4>3
    <3> QED BY <3>1
  <2> HIDE DEF T
  <2> QED BY <2>1, <2>2, InductionOnNat
<1> QED BY <1>3, <1>4

-----------------------------------------------------------------------------
\* The parts of a message, with identities of any kind.
Parts(K, D) == [kind : K, id : D]
Sent(K, D)  == [role : Wire!Speakers, blocks : Seq(Parts(K, D))]

\* The identities of a kind in two rows of parts.
LEMMA IdsConcat ==
  ASSUME NEW K, NEW D, NEW b \in Seq(Parts(K, D)), NEW c \in Seq(Parts(K, D)), NEW kind
  PROVE  /\ Wire!IdsOf(b, kind) \in Seq(D) /\ Wire!IdsOf(c, kind) \in Seq(D)
         /\ Wire!IdsOf(b \o c, kind) = Wire!IdsOf(b, kind) \o Wire!IdsOf(c, kind)
<1> DEFINE Wrapped(s) == [k \in 1..Len(s) |-> IF s[k].kind = kind THEN <<s[k].id>> ELSE <<>>]
<1>1. ASSUME NEW s \in Seq(Parts(K, D))
      PROVE  Wrapped(s) \in Seq(Seq(D)) /\ Len(Wrapped(s)) = Len(s)
  <2>1. Len(s) \in Nat /\ \A k \in 1..Len(s) : s[k].id \in D
    <3>1. Len(s) \in Nat /\ \A k \in 1..Len(s) : s[k] \in Parts(K, D)
      BY LenProperties, ElementOfSeq
    <3> QED BY <3>1 DEF Parts
  <2>2. \A k \in 1..Len(s) : Wrapped(s)[k] \in Seq(D)
    BY <2>1
  <2>3. Wrapped(s) \in [1..Len(s) -> Seq(D)]
    BY <2>2
  <2> HIDE DEF Wrapped
  <2> QED BY <2>1, <2>3
<1>2. Wrapped(b \o c) = Wrapped(b) \o Wrapped(c)
  <2>1. /\ b \o c \in Seq(Parts(K, D)) /\ Len(b \o c) = Len(b) + Len(c)
        /\ \A i \in 1..(Len(b) + Len(c)) : (b \o c)[i] = IF i <= Len(b) THEN b[i] ELSE c[i - Len(b)]
        /\ Len(b) \in Nat /\ Len(c) \in Nat
    BY ConcatProperties, LenProperties
  <2>2. /\ Wrapped(b \o c) \in Seq(Seq(D)) /\ Len(Wrapped(b \o c)) = Len(b) + Len(c)
        /\ Wrapped(b) \in Seq(Seq(D)) /\ Len(Wrapped(b)) = Len(b)
        /\ Wrapped(c) \in Seq(Seq(D)) /\ Len(Wrapped(c)) = Len(c)
    <3> HIDE DEF Wrapped
    <3> QED BY <1>1, <2>1
  <2>3. /\ Wrapped(b) \o Wrapped(c) \in Seq(Seq(D))
        /\ Len(Wrapped(b) \o Wrapped(c)) = Len(b) + Len(c)
        /\ \A i \in 1..(Len(b) + Len(c)) :
             (Wrapped(b) \o Wrapped(c))[i] =
               IF i <= Len(b) THEN Wrapped(b)[i] ELSE Wrapped(c)[i - Len(b)]
    <3> HIDE DEF Wrapped
    <3>1. \A s, t \in Seq(Seq(D)) :
            /\ s \o t \in Seq(Seq(D)) /\ Len(s \o t) = Len(s) + Len(t)
            /\ \A i \in 1..(Len(s) + Len(t)) : (s \o t)[i] = IF i <= Len(s) THEN s[i] ELSE t[i - Len(s)]
      BY ConcatProperties
    <3> DEFINE wb == Wrapped(b)
               wc == Wrapped(c)
    <3>2. wb \in Seq(Seq(D)) /\ wc \in Seq(Seq(D)) /\ Len(wb) = Len(b) /\ Len(wc) = Len(c)
      BY <2>2
    <3> HIDE DEF wb, wc
    <3>3. /\ wb \o wc \in Seq(Seq(D)) /\ Len(wb \o wc) = Len(b) + Len(c)
          /\ \A i \in 1..(Len(b) + Len(c)) : (wb \o wc)[i] = IF i <= Len(b) THEN wb[i] ELSE wc[i - Len(b)]
      <4>1. /\ wb \o wc \in Seq(Seq(D)) /\ Len(wb \o wc) = Len(wb) + Len(wc)
            /\ \A i \in 1..(Len(wb) + Len(wc)) :
                 (wb \o wc)[i] = IF i <= Len(wb) THEN wb[i] ELSE wc[i - Len(wb)]
        BY <3>1, <3>2, Zenon
      <4> QED BY <3>2, <4>1, Zenon
    <3> QED BY <3>3, Zenon DEF wb, wc
  <2>4. ASSUME NEW i \in 1..(Len(b) + Len(c))
        PROVE  Wrapped(b \o c)[i] = IF i <= Len(b) THEN Wrapped(b)[i] ELSE Wrapped(c)[i - Len(b)]
    <3>1. i \in 1..Len(b \o c) /\ (i <= Len(b) => i \in 1..Len(b))
          /\ (~(i <= Len(b)) => i - Len(b) \in 1..Len(c))
      BY <2>1
    <3>2. (b \o c)[i] = IF i <= Len(b) THEN b[i] ELSE c[i - Len(b)]
      BY <2>1
    <3>3. Wrapped(b \o c)[i] = IF (b \o c)[i].kind = kind THEN <<(b \o c)[i].id>> ELSE <<>>
      BY <3>1, Zenon
    <3>4. i <= Len(b) => Wrapped(b)[i] = IF b[i].kind = kind THEN <<b[i].id>> ELSE <<>>
      BY <3>1, Zenon
    <3>5. ~(i <= Len(b)) => Wrapped(c)[i - Len(b)] =
            IF c[i - Len(b)].kind = kind THEN <<c[i - Len(b)].id>> ELSE <<>>
      BY <3>1, Zenon
    <3> QED BY <3>2, <3>3, <3>4, <3>5, Zenon
  <2> HIDE DEF Wrapped
  <2>5. \A i \in 1..Len(Wrapped(b \o c)) : Wrapped(b \o c)[i] = (Wrapped(b) \o Wrapped(c))[i]
    BY <2>2, <2>3, <2>4, Zenon
  <2> QED BY <2>2, <2>3, <2>5, SeqEqual
<1>3. Wire!IdsOf(b, kind) = Wire!FlattenSeq(Wrapped(b)) /\ Wire!IdsOf(c, kind) = Wire!FlattenSeq(Wrapped(c))
      /\ Wire!IdsOf(b \o c, kind) = Wire!FlattenSeq(Wrapped(b \o c))
  BY Zenon DEF Wire!IdsOf
<1> HIDE DEF Wrapped
<1>4. \A ss, tt \in Seq(Seq(D)) :
        /\ Wire!FlattenSeq(ss) \in Seq(D) /\ Wire!FlattenSeq(tt) \in Seq(D)
        /\ Wire!FlattenSeq(ss \o tt) = Wire!FlattenSeq(ss) \o Wire!FlattenSeq(tt)
  BY FlatConcat
<1> QED BY <1>1, <1>2, <1>3, <1>4, Zenon

\* In no part and in one.
LEMMA IdsSmall ==
  /\ \A kind : Wire!IdsOf(<<>>, kind) = <<>>
  /\ \A p, kind : Wire!IdsOf(<<p>>, kind) = IF p.kind = kind THEN <<p.id>> ELSE <<>>
<1>1. ASSUME NEW kind PROVE Wire!IdsOf(<<>>, kind) = <<>>
  <2>1. Len(<<>>) = 0 /\ 0 \in Nat
    BY EmptySeq
  <2>2. [k \in 1..Len(<<>>) |-> IF <<>>[k].kind = kind THEN <<<<>>[k].id>> ELSE <<>>] = <<>>
    BY <2>1
  <2> QED BY <2>2, FlatSmall, Zenon DEF Wire!IdsOf
<1>2. ASSUME NEW p, NEW kind
      PROVE  Wire!IdsOf(<<p>>, kind) = IF p.kind = kind THEN <<p.id>> ELSE <<>>
  <2> DEFINE x == IF p.kind = kind THEN <<p.id>> ELSE <<>>
  <2>1. x \in Seq({p.id})
    <3>1. <<p.id>> \in Seq({p.id}) /\ <<>> \in Seq({p.id})
      OBVIOUS
    <3> QED BY <3>1
  <2>2. [k \in 1..Len(<<p>>) |-> IF <<p>>[k].kind = kind THEN <<<<p>>[k].id>> ELSE <<>>] = <<x>>
    OBVIOUS
  <2>3. Wire!IdsOf(<<p>>, kind) = Wire!FlattenSeq(<<x>>)
    BY <2>2, Zenon DEF Wire!IdsOf
  <2> HIDE DEF x
  <2>4. Wire!FlattenSeq(<<x>>) = x
    BY <2>1, FlatSmall
  <2> QED BY <2>3, <2>4 DEF x
<1> QED BY <1>1, <1>2

\* Parts of one kind only, and parts of other kinds only.
LEMMA IdsUniform ==
  ASSUME NEW K, NEW D, NEW b \in Seq(Parts(K, D)), NEW kind
  PROVE  /\ (\A k \in 1..Len(b) : b[k].kind = kind) =>
              Wire!IdsOf(b, kind) = [k \in 1..Len(b) |-> b[k].id]
         /\ (\A k \in 1..Len(b) : b[k].kind # kind) => Wire!IdsOf(b, kind) = <<>>
<1> DEFINE n == Len(b)
           ids == [k \in 1..n |-> b[k].id]
           w   == [k \in 1..n |-> IF b[k].kind = kind THEN <<b[k].id>> ELSE <<>>]
<1>1. n \in Nat /\ \A k \in 1..n : b[k].id \in D
  <2>1. n \in Nat /\ \A k \in 1..n : b[k] \in Parts(K, D)
    BY LenProperties, ElementOfSeq
  <2> QED BY <2>1 DEF Parts
<1>2. Wire!IdsOf(b, kind) = Wire!FlattenSeq(w)
  BY Zenon DEF Wire!IdsOf
<1>3. CASE \A k \in 1..n : b[k].kind = kind
  <2>1. ids \in Seq(D) /\ Len(ids) = n
    BY <1>1
  <2>2. w = [k \in 1..Len(ids) |-> <<ids[k]>>]
    BY <1>1, <1>3, <2>1
  <2> HIDE DEF ids, w
  <2>3. Wire!FlattenSeq(w) = ids
    BY <2>1, <2>2, FlatSingles
  <2>4. n # 0 => \E k \in 1..n : b[k].kind = kind
    BY <1>1, <1>3
  <2>5. n = 0 => ids = <<>>
    BY <2>1, EmptySeq
  <2> QED BY <1>2, <2>3, <2>4, <2>5 DEF ids
<1>4. CASE \A k \in 1..n : b[k].kind # kind
  <2>1. w = [k \in 1..n |-> <<>>]
    BY <1>4
  <2> HIDE DEF w
  <2>2. Wire!FlattenSeq(w) = <<>>
    BY <1>1, <2>1, FlatNothing
  <2> DEFINE ids2 == [k \in 1..n |-> b[k].id]
  <2>3. n = 0 => ids2 = <<>>
    BY <1>1
  <2>4. n # 0 => 1 \in 1..n
    BY <1>1
  <2> QED BY <1>2, <1>4, <2>2, <2>3, <2>4
<1>5. (\A k \in 1..n : b[k].kind = kind) => Wire!IdsOf(b, kind) = ids
  BY <1>3
<1>6. (\A k \in 1..n : b[k].kind # kind) => Wire!IdsOf(b, kind) = <<>>
  BY <1>4
<1> QED BY <1>5, <1>6
-----------------------------------------------------------------------------
\* The merge of the neighbours of one role.
Iterates(ts, n, iter) ==
  iter = [s \in SUBSET (1..n) |->
            IF s = {} THEN <<>> ELSE Wire!Joined(iter[s \ {Wire!Max(s)}], ts[Wire!Max(s)])]

LEMMA MaxOfAll ==
  ASSUME NEW n \in Nat \ {0}, NEW s, s \subseteq 1..n, n \in s
  PROVE  Wire!Max(s) = n
<1>1. n \in s /\ \A y \in s : n >= y
  OBVIOUS
<1>2. Wire!Max(s) \in s /\ \A y \in s : Wire!Max(s) >= y
  BY <1>1, Zenon DEF Wire!Max
<1> DEFINE m == Wire!Max(s)
<1>3. m \in 1..n /\ m >= n
  BY <1>2
<1> HIDE DEF m
<1>4. m = n
  BY <1>3
<1> QED BY <1>4 DEF m

LEMMA IterationExists ==
  ASSUME NEW ts
  PROVE  \A n \in Nat : \E iter : Iterates(ts, n, iter)
<1> DEFINE T == { n \in Nat : \E iter : Iterates(ts, n, iter) }
<1>1. 0 \in T
  <2>1. Iterates(ts, 0, [s \in SUBSET (1..0) |-> <<>>])
    BY DEF Iterates
  <2> QED BY <2>1
<1>2. ASSUME NEW n \in Nat, n \in T
      PROVE  n + 1 \in T
  <2>1. PICK iter : Iterates(ts, n, iter)
    BY <1>2
  <2> DEFINE more == [s \in SUBSET (1..(n + 1)) |->
                        IF n + 1 \in s THEN Wire!Joined(iter[s \ {n + 1}], ts[n + 1]) ELSE iter[s]]
  <2>2. ASSUME NEW s \in SUBSET (1..(n + 1))
        PROVE  more[s] = IF s = {} THEN <<>>
                         ELSE Wire!Joined(more[s \ {Wire!Max(s)}], ts[Wire!Max(s)])
    <3>1. CASE n + 1 \in s
      <4>1. Wire!Max(s) = n + 1
        <5>1. n + 1 \in Nat \ {0} /\ s \subseteq 1..(n + 1)
          OBVIOUS
        <5> QED BY <3>1, <5>1, MaxOfAll
      <4>2. s \ {n + 1} \in SUBSET (1..n) /\ s \ {n + 1} \in SUBSET (1..(n + 1))
        OBVIOUS
      <4>3. more[s \ {n + 1}] = iter[s \ {n + 1}]
        BY <4>2
      <4>4. more[s] = Wire!Joined(iter[s \ {n + 1}], ts[n + 1])
        BY <3>1
      <4> QED BY <3>1, <4>1, <4>3, <4>4
    <3>2. CASE n + 1 \notin s
      <4>1. s \in SUBSET (1..n) /\ s \ {Wire!Max(s)} \in SUBSET (1..n)
            /\ s \ {Wire!Max(s)} \in SUBSET (1..(n + 1)) /\ n + 1 \notin s \ {Wire!Max(s)}
        <5>1. \A k \in 1..(n + 1) : k # n + 1 => k \in 1..n
          OBVIOUS
        <5>2. s \subseteq 1..n
          BY <3>2, <5>1
        <5> QED BY <3>2, <5>2
      <4>2. more[s] = iter[s] /\ more[s \ {Wire!Max(s)}] = iter[s \ {Wire!Max(s)}]
        BY <3>2, <4>1
      <4>3. iter[s] = IF s = {} THEN <<>> ELSE Wire!Joined(iter[s \ {Wire!Max(s)}], ts[Wire!Max(s)])
        BY <2>1, <4>1, Zenon DEF Iterates
      <4> QED BY <4>2, <4>3
    <3> QED BY <3>1, <3>2
  <2>3. more = [s \in SUBSET (1..(n + 1)) |->
                  IF s = {} THEN <<>> ELSE Wire!Joined(more[s \ {Wire!Max(s)}], ts[Wire!Max(s)])]
    <3> DEFINE same == [s \in SUBSET (1..(n + 1)) |->
                  IF s = {} THEN <<>> ELSE Wire!Joined(more[s \ {Wire!Max(s)}], ts[Wire!Max(s)])]
    <3>1. \A s \in SUBSET (1..(n + 1)) : more[s] = same[s]
      BY <2>2
    <3> QED BY <3>1
  <2>4. Iterates(ts, n + 1, more)
    BY <2>3 DEF Iterates
  <2> HIDE DEF more
  <2> QED BY <2>4
<1>3. Nat \subseteq T
  BY <1>1, <1>2, InductionOnNat
<1> QED BY <1>3

MergesTo(out, ts) ==
  /\ out[0] = <<>>
  /\ \A k \in 1..Len(ts) : out[k] = Wire!Joined(out[k - 1], ts[k])
  /\ Wire!MergeAdjacentRoles(ts) = out[Len(ts)]

\* The fold of MergeAdjacentRoles, one turn after the other.
LEMMA MergedInOrder ==
  ASSUME NEW S, NEW ts \in Seq(S)
  PROVE  \E out : MergesTo(out, ts)
<1> DEFINE n == Len(ts)
           iter == CHOOSE iter : Iterates(ts, n, iter)
           out == [k \in 0..n |-> iter[1..k]]
<1>1. n \in Nat /\ DOMAIN ts = 1..n
  BY LenProperties
<1>2. Iterates(ts, n, iter)
  BY <1>1, IterationExists, Zenon
<1>3. Wire!MergeAdjacentRoles(ts) = iter[DOMAIN ts]
  BY Zenon, <1>1 DEF Wire!MergeAdjacentRoles, Wire!FoldLeft, Wire!MapThenFoldSet, Iterates
<1> HIDE DEF n, iter
<1>4. \A s \in SUBSET (1..n) :
        iter[s] = IF s = {} THEN <<>> ELSE Wire!Joined(iter[s \ {Wire!Max(s)}], ts[Wire!Max(s)])
  BY <1>2, Zenon DEF Iterates
<1>5. out[0] = <<>>
  <2>1. 1..0 = {} /\ 1..0 \in SUBSET (1..n) /\ 0 \in 0..n
    BY <1>1
  <2> QED BY <1>4, <2>1
<1>6. ASSUME NEW k \in 1..n
      PROVE  out[k] = Wire!Joined(out[k - 1], ts[k])
  <2>1. k \in Nat \ {0} /\ k \in 0..n /\ k - 1 \in 0..n /\ 1..k \in SUBSET (1..n) /\ 1..k # {}
        /\ k \in 1..k /\ (1..k) \ {k} = 1..(k - 1)
    <3>1. k \in Nat \ {0} /\ k <= n
      BY <1>1
    <3>2. k \in 0..n /\ k - 1 \in 0..n /\ k \in 1..k
      BY <1>1, <3>1
    <3>3. \A j \in 1..k : j \in 1..n /\ (j # k => j \in 1..(k - 1))
      BY <1>1, <3>1
    <3>4. \A j \in 1..(k - 1) : j \in 1..k /\ j # k
      BY <3>1
    <3>5. (1..k) \ {k} = 1..(k - 1)
      BY <3>3, <3>4
    <3> QED BY <3>1, <3>2, <3>3, <3>5
  <2>2. Wire!Max(1..k) = k
    BY <2>1, MaxOfAll
  <2>3. iter[1..k] = Wire!Joined(iter[1..(k - 1)], ts[k])
    BY <1>4, <2>1, <2>2
  <2> QED BY <2>1, <2>3
<1>7. Wire!MergeAdjacentRoles(ts) = out[n]
  BY <1>1, <1>3
<1> HIDE DEF out
<1>8. /\ \A k \in 1..Len(ts) : out[k] = Wire!Joined(out[k - 1], ts[k])
      /\ Wire!MergeAdjacentRoles(ts) = out[Len(ts)]
  BY <1>6, <1>7 DEF n
<1> QED BY <1>5, <1>8, Zenon DEF MergesTo

Behind(out, t) ==
  /\ out = <<>> \/ out[Len(out)].role # t.role
  /\ Wire!Joined(out, t) = Append(out, t)
Into(front, last, out, t) ==
  /\ out = Append(front, last) /\ last.role = t.role
  /\ Wire!Joined(out, t) = Append(front, [role |-> t.role, blocks |-> last.blocks \o t.blocks])

\* A turn comes behind the others, or its blocks into the last of them.
LEMMA JoinedCases ==
  ASSUME NEW K, NEW D, NEW out \in Seq(Sent(K, D)), NEW t \in Sent(K, D)
  PROVE  Behind(out, t) \/ \E front \in Seq(Sent(K, D)), last \in Sent(K, D) : Into(front, last, out, t)
<1>0. Wire!Last(out) = out[Len(out)]
  BY DEF Wire!Last
<1>1. CASE out = <<>> \/ out[Len(out)].role # t.role
  BY <1>0, <1>1, Zenon DEF Wire!Joined, Behind
<1>2. CASE out # <<>> /\ out[Len(out)].role = t.role
  <2>1. PICK front \in Seq(Sent(K, D)), last \in Sent(K, D) : out = Append(front, last)
    BY <1>2, SequenceEmptyOrAppend
  <2> DEFINE n == Len(front)
             more == [role |-> t.role, blocks |-> last.blocks \o t.blocks]
  <2>2. /\ n \in Nat /\ Len(out) = n + 1 /\ n + 1 \in 1..Len(out)
        /\ \A i \in 1..n : out[i] = front[i]
        /\ out[n + 1] = last
    BY <2>1, AppendProperties, LenProperties
  <2>3. Wire!Joined(out, t) = [out EXCEPT ![n + 1].blocks = @ \o t.blocks]
    BY <1>0, <1>2, <2>2, Zenon DEF Wire!Joined
  <2>4. last.role = t.role /\ last = [role |-> last.role, blocks |-> last.blocks]
        /\ last.blocks \in Seq(Parts(K, D)) /\ t.blocks \in Seq(Parts(K, D)) /\ t.role \in Wire!Speakers
    BY <1>2, <2>2 DEF Sent
  <2>5. last.blocks \o t.blocks \in Seq(Parts(K, D))
    BY <2>4, ConcatProperties
  <2>6. more \in Sent(K, D)
    BY <2>4, <2>5 DEF Sent
  <2>7. [out EXCEPT ![n + 1].blocks = @ \o t.blocks] = [out EXCEPT ![n + 1] = more]
    <3>1. [out[n + 1] EXCEPT !.blocks = @ \o t.blocks] = more
      <4> DEFINE bs == last.blocks \o t.blocks
      <4>1. [last EXCEPT !.blocks = bs] = [role |-> t.role, blocks |-> bs]
        <5> HIDE DEF bs
        <5> QED BY <2>4
      <4> QED BY <2>2, <4>1
    <3> HIDE DEF more
    <3> QED BY <3>1, Zenon
  <2> HIDE DEF more
  <2>8. /\ [out EXCEPT ![n + 1] = more] \in Seq(Sent(K, D))
        /\ Len([out EXCEPT ![n + 1] = more]) = n + 1
        /\ \A j \in 1..(n + 1) : [out EXCEPT ![n + 1] = more][j] = IF j = n + 1 THEN more ELSE out[j]
    BY <2>2, <2>6, ExceptSeq
  <2>9. /\ Append(front, more) \in Seq(Sent(K, D)) /\ Len(Append(front, more)) = n + 1
        /\ \A i \in 1..n : Append(front, more)[i] = front[i]
        /\ Append(front, more)[n + 1] = more
    BY <2>6, AppendProperties
  <2>10. \A j \in 1..(n + 1) : [out EXCEPT ![n + 1] = more][j] = Append(front, more)[j]
    <3> DEFINE x == [out EXCEPT ![n + 1] = more]
               y == Append(front, more)
    <3>1. /\ \A j \in 1..(n + 1) : x[j] = IF j = n + 1 THEN more ELSE out[j]
          /\ \A i \in 1..n : y[i] = out[i]
          /\ y[n + 1] = more
      BY <2>2, <2>8, <2>9, Zenon
    <3> HIDE DEF x, y
    <3>2. \A j \in 1..(n + 1) : x[j] = y[j]
      BY <2>2, <3>1
    <3> QED BY <3>2 DEF x, y
  <2>11. [out EXCEPT ![n + 1] = more] = Append(front, more)
    BY <2>8, <2>9, <2>10, SeqEqual
  <2>12. Wire!Joined(out, t) = Append(front, more)
    BY <2>3, <2>7, <2>11, Zenon
  <2>13. out = Append(front, last) /\ last.role = t.role
         /\ Wire!Joined(out, t) = Append(front, [role |-> t.role, blocks |-> last.blocks \o t.blocks])
    BY <2>1, <2>4, <2>12, Zenon DEF more
  <2> QED BY <2>13, Zenon DEF Into
<1> QED BY <1>1, <1>2

\* What is said in one turn more.
LEMMA SaidAppend ==
  ASSUME NEW K, NEW D, NEW out \in Seq(Sent(K, D)), NEW t \in Sent(K, D)
  PROVE  /\ Wire!Said(out) \in Seq(D) /\ Wire!IdsOf(t.blocks, "text") \in Seq(D)
         /\ Wire!Said(Append(out, t)) = Wire!Said(out) \o Wire!IdsOf(t.blocks, "text")
<1> DEFINE n == Len(out)
           w == [i \in 1..n |-> Wire!IdsOf(out[i].blocks, "text")]
           x == Wire!IdsOf(t.blocks, "text")
           v == [i \in 1..Len(Append(out, t)) |-> Wire!IdsOf(Append(out, t)[i].blocks, "text")]
<1>1. \A s \in Sent(K, D) : Wire!IdsOf(s.blocks, "text") \in Seq(D)
  <2>1. \A s \in Sent(K, D) : s.blocks \in Seq(Parts(K, D))
    BY DEF Sent
  <2> QED BY <2>1, IdsConcat
<1>2. n \in Nat /\ \A i \in 1..n : out[i] \in Sent(K, D)
  BY LenProperties, ElementOfSeq
<1>3. w \in Seq(Seq(D)) /\ Len(w) = n
  <2>1. \A i \in 1..n : w[i] \in Seq(D)
    BY <1>1, <1>2
  <2>2. w \in [1..n -> Seq(D)]
    BY <2>1
  <2> HIDE DEF w
  <2> QED BY <1>2, <2>2
<1>4. x \in Seq(D)
  BY <1>1
<1>5. /\ Len(Append(out, t)) = n + 1
      /\ \A i \in 1..n : Append(out, t)[i] = out[i]
      /\ Append(out, t)[n + 1] = t
  BY AppendProperties
<1>6. v = Append(w, x)
  <2>1. /\ Append(w, x) \in Seq(Seq(D)) /\ Len(Append(w, x)) = n + 1
        /\ \A i \in 1..n : Append(w, x)[i] = w[i]
        /\ Append(w, x)[n + 1] = x
    <3> HIDE DEF w, x
    <3> QED BY <1>3, <1>4, AppendProperties
  <2>2. ASSUME NEW i \in 1..(n + 1) PROVE v[i] = Append(w, x)[i]
    <3>1. CASE i = n + 1
      BY <1>5, <2>1, <3>1, Zenon
    <3>2. CASE i # n + 1
      <4>1. i \in 1..n
        BY <1>2, <3>2
      <4>2. v[i] = Wire!IdsOf(out[i].blocks, "text") /\ w[i] = Wire!IdsOf(out[i].blocks, "text")
        BY <1>5, <4>1, Zenon
      <4> QED BY <2>1, <4>1, <4>2, Zenon
    <3> QED BY <3>1, <3>2
  <2>3. v = [i \in 1..(n + 1) |-> v[i]]
    BY <1>5, Zenon
  <2>4. Append(w, x) = [i \in 1..(n + 1) |-> Append(w, x)[i]]
    <3> HIDE DEF w, x
    <3> QED BY <2>1, LenProperties
  <2> HIDE DEF v, w, x
  <2>5. [i \in 1..(n + 1) |-> v[i]] = [i \in 1..(n + 1) |-> Append(w, x)[i]]
    BY <2>2, Zenon
  <2> QED BY <2>3, <2>4, <2>5, Zenon
<1>7. Wire!Said(out) = Wire!FlattenSeq(w) /\ Wire!Said(Append(out, t)) = Wire!FlattenSeq(v)
  BY Zenon DEF Wire!Said
<1> HIDE DEF v, w, x
<1>8. Wire!FlattenSeq(Append(w, x)) = Wire!FlattenSeq(w) \o x /\ Wire!FlattenSeq(w) \in Seq(D)
  BY <1>3, <1>4, FlatAppend
<1> QED BY <1>4, <1>6, <1>7, <1>8, Zenon DEF x

\* One turn more: it joins the last turn of its role, or comes behind one of the other.
Keeps(K, D, out, t) ==
  LET new == Wire!Joined(out, t)
  IN  /\ new \in Seq(Sent(K, D)) /\ Wire!Alternates(new)
      /\ new # <<>> /\ new[Len(new)].role = t.role
      /\ Wire!Said(new) = Wire!Said(out) \o Wire!IdsOf(t.blocks, "text")

LEMMA JoinedKeeps ==
  ASSUME NEW K, NEW D, NEW out \in Seq(Sent(K, D)), NEW t \in Sent(K, D), Wire!Alternates(out)
  PROVE  Keeps(K, D, out, t)
<1>0. t.role \in Wire!Speakers /\ t.blocks \in Seq(Parts(K, D)) /\ Len(out) \in Nat
  BY LenProperties DEF Sent
<1>1. CASE Behind(out, t)
  <2> DEFINE new == Append(out, t)
             n   == Len(out)
  <2>1. /\ new \in Seq(Sent(K, D)) /\ new # <<>> /\ Len(new) = n + 1
        /\ \A i \in 1..n : new[i] = out[i]
        /\ new[n + 1] = t
    BY AppendProperties
  <2>2. n = 0 \/ out[n].role # t.role
    BY <1>1, EmptySeq DEF Behind
  <2> HIDE DEF new
  <2>3. Wire!Alternates(new)
    <3>1. ASSUME NEW i \in 2..(n + 1) PROVE new[i].role # new[i - 1].role
      <4>1. CASE i = n + 1
        <5>1. n \in 1..n /\ i - 1 = n /\ n # 0
          BY <1>0, <4>1
        <5> QED BY <2>1, <2>2, <4>1, <5>1, Zenon
      <4>2. CASE i # n + 1
        <5>1. i \in 1..n /\ i - 1 \in 1..n /\ i \in 2..n
          BY <1>0, <4>2
        <5>2. out[i].role # out[i - 1].role
          BY <5>1, Zenon DEF Wire!Alternates
        <5> QED BY <2>1, <5>1, <5>2, Zenon
      <4> QED BY <4>1, <4>2
    <3> QED BY <2>1, <3>1, Zenon DEF Wire!Alternates
  <2>4. Wire!Said(new) = Wire!Said(out) \o Wire!IdsOf(t.blocks, "text")
    BY SaidAppend DEF new
  <2>5. new[Len(new)].role = t.role
    BY <2>1, Zenon
  <2>6. Wire!Joined(out, t) = new
    BY <1>1, Zenon DEF Behind, new
  <2> HIDE DEF n
  <2> QED BY <2>1, <2>3, <2>4, <2>5, <2>6, Zenon DEF Keeps
<1>2. ASSUME NEW front \in Seq(Sent(K, D)), NEW last \in Sent(K, D), Into(front, last, out, t)
      PROVE  Keeps(K, D, out, t)
  <2> DEFINE bs   == last.blocks \o t.blocks
             more == [role |-> t.role, blocks |-> bs]
             new  == Append(front, more)
             n    == Len(front)
  <2>1. last.blocks \in Seq(Parts(K, D)) /\ n \in Nat
    BY LenProperties DEF Sent
  <2>2. bs \in Seq(Parts(K, D)) /\ Wire!IdsOf(bs, "text") = Wire!IdsOf(last.blocks, "text") \o Wire!IdsOf(t.blocks, "text")
        /\ Wire!IdsOf(last.blocks, "text") \in Seq(D) /\ Wire!IdsOf(t.blocks, "text") \in Seq(D)
    <3>1. bs \in Seq(Parts(K, D))
      BY <1>0, <2>1, ConcatProperties
    <3>2. \A b, c \in Seq(Parts(K, D)) :
            /\ Wire!IdsOf(b, "text") \in Seq(D) /\ Wire!IdsOf(c, "text") \in Seq(D)
            /\ Wire!IdsOf(b \o c, "text") = Wire!IdsOf(b, "text") \o Wire!IdsOf(c, "text")
      BY IdsConcat
    <3> QED BY <1>0, <2>1, <3>1, <3>2, Zenon
  <2> HIDE DEF bs
  <2>3. more \in Sent(K, D) /\ more.role = t.role /\ more.blocks = bs
    BY <1>0, <2>2 DEF Sent
  <2> HIDE DEF more
  <2>4. /\ new \in Seq(Sent(K, D)) /\ new # <<>> /\ Len(new) = n + 1
        /\ \A i \in 1..n : new[i] = front[i]
        /\ new[n + 1] = more
    BY <2>3, AppendProperties
  <2>0. out = Append(front, last) /\ last.role = t.role
        /\ Wire!Joined(out, t) = Append(front, [role |-> t.role, blocks |-> last.blocks \o t.blocks])
    BY <1>2, Zenon DEF Into
  <2>5. Len(out) = n + 1 /\ (\A i \in 1..n : out[i] = front[i]) /\ out[n + 1] = last
    BY <2>0, AppendProperties
  <2>6. Wire!Joined(out, t) = new
    BY <2>0, Zenon DEF more, bs
  <2> HIDE DEF new
  <2>7. \A i \in 1..(n + 1) : new[i].role = out[i].role
    <3>1. ASSUME NEW i \in 1..(n + 1) PROVE new[i].role = out[i].role
      <4>1. i = n + 1 \/ i \in 1..n
        BY <2>1
      <4> QED BY <2>0, <2>3, <2>4, <2>5, <4>1, Zenon
    <3> QED BY <3>1
  <2>8. Wire!Alternates(new)
    <3>1. \A i \in 2..(n + 1) : i \in 1..(n + 1) /\ i - 1 \in 1..(n + 1)
      BY <2>1
    <3>2. \A i \in 2..(n + 1) : out[i].role # out[i - 1].role
      BY <2>5, Zenon DEF Wire!Alternates
    <3>3. \A i \in 2..(n + 1) : new[i].role # new[i - 1].role
      BY <2>7, <3>1, <3>2, Zenon
    <3> QED BY <2>4, <3>3, Zenon DEF Wire!Alternates
  <2>9. /\ Wire!Said(new) = Wire!Said(front) \o Wire!IdsOf(bs, "text")
        /\ Wire!Said(out) = Wire!Said(front) \o Wire!IdsOf(last.blocks, "text")
        /\ Wire!Said(front) \in Seq(D)
    <3>1. \A s \in Sent(K, D) : Wire!Said(Append(front, s)) = Wire!Said(front) \o Wire!IdsOf(s.blocks, "text")
      BY SaidAppend
    <3>2. Wire!Said(front) \in Seq(D)
      BY SaidAppend
    <3>3. Wire!Said(new) = Wire!Said(front) \o Wire!IdsOf(more.blocks, "text")
      BY <2>3, <3>1, Zenon DEF new
    <3> QED BY <2>0, <2>3, <3>1, <3>2, <3>3, Zenon
  <2>10. Wire!Said(new) = Wire!Said(out) \o Wire!IdsOf(t.blocks, "text")
    <3>1. \A x, y, z \in Seq(D) : (x \o y) \o z = x \o (y \o z)
      BY ConcatAssociative
    <3>2. (Wire!Said(front) \o Wire!IdsOf(last.blocks, "text")) \o Wire!IdsOf(t.blocks, "text")
            = Wire!Said(front) \o (Wire!IdsOf(last.blocks, "text") \o Wire!IdsOf(t.blocks, "text"))
      BY <2>2, <2>9, <3>1, Zenon
    <3>3. Wire!Said(new) = Wire!Said(front) \o (Wire!IdsOf(last.blocks, "text") \o Wire!IdsOf(t.blocks, "text"))
      BY <2>2, <2>9, Zenon
    <3> QED BY <2>9, <3>2, <3>3, Zenon
  <2>11. new[Len(new)].role = t.role
    BY <2>3, <2>4, Zenon
  <2> HIDE DEF n
  <2> QED BY <2>4, <2>6, <2>8, <2>10, <2>11, Zenon DEF Keeps
<1> QED BY <1>1, <1>2, JoinedCases, Zenon

\* What is said in a conversation, turn by turn.
LEMMA SaidInOrder ==
  ASSUME NEW K, NEW D, NEW ts \in Seq(Sent(K, D))
  PROVE  \E said : /\ said[0] = <<>>
                   /\ \A k \in 1..Len(ts) : said[k] = said[k - 1] \o Wire!IdsOf(ts[k].blocks, "text")
                   /\ \A k \in 0..Len(ts) : said[k] \in Seq(D)
                   /\ Wire!Said(ts) = said[Len(ts)]
<1> DEFINE n == Len(ts)
           w == [i \in 1..n |-> Wire!IdsOf(ts[i].blocks, "text")]
<1>1. n \in Nat /\ \A i \in 1..n : ts[i].blocks \in Seq(Parts(K, D))
  <2>1. n \in Nat /\ \A i \in 1..n : ts[i] \in Sent(K, D)
    BY LenProperties, ElementOfSeq
  <2> QED BY <2>1 DEF Sent
<1>2. \A i \in 1..n : Wire!IdsOf(ts[i].blocks, "text") \in Seq(D)
  BY <1>1, IdsConcat
<1>3. w \in Seq(Seq(D)) /\ Len(w) = n /\ \A i \in 1..n : w[i] = Wire!IdsOf(ts[i].blocks, "text")
  <2>1. w \in [1..n -> Seq(D)]
    BY <1>2
  <2>2. \A i \in 1..n : w[i] = Wire!IdsOf(ts[i].blocks, "text")
    OBVIOUS
  <2> HIDE DEF w
  <2> QED BY <1>1, <2>1, <2>2
<1>4. Wire!Said(ts) = Wire!FlattenSeq(w)
  BY Zenon DEF Wire!Said
<1> HIDE DEF w
<1>5. \E flat : /\ flat[0] = <<>>
                /\ \A k \in 1..Len(w) : flat[k] = flat[k - 1] \o w[k]
                /\ \A k \in 0..Len(w) : flat[k] \in Seq(D)
                /\ Wire!FlattenSeq(w) = flat[Len(w)]
  BY <1>3, FlatInOrder, Zenon
<1> QED BY <1>3, <1>4, <1>5, Zenon

\* What the merged conversation is after each of its turns: two neighbours never have one
\* role, the last turn is of the role of the last turn merged, and all that was said is
\* there, in its order.
MergedWell(K, D, out, ts, k, said) ==
  /\ out[k] \in Seq(Sent(K, D)) /\ Wire!Alternates(out[k])
  /\ Wire!Said(out[k]) = said
  /\ k # 0 => out[k] # <<>> /\ out[k][Len(out[k])].role = ts[k].role

LEMMA MergedStepByStep ==
  ASSUME NEW K, NEW D, NEW ts \in Seq(Sent(K, D)), NEW out, MergesTo(out, ts)
  PROVE  \E said : /\ \A k \in 0..Len(ts) : MergedWell(K, D, out, ts, k, said[k])
                   /\ Wire!Said(ts) = said[Len(ts)]
<1> DEFINE n == Len(ts)
<1>1. n \in Nat /\ \A k \in 1..n : ts[k] \in Sent(K, D)
  BY LenProperties, ElementOfSeq
<1>2. /\ out[0] = <<>>
      /\ \A k \in 1..n : out[k] = Wire!Joined(out[k - 1], ts[k])
      /\ Wire!MergeAdjacentRoles(ts) = out[n]
  BY Zenon DEF MergesTo
<1>3. PICK said : /\ said[0] = <<>>
                  /\ \A k \in 1..n : said[k] = said[k - 1] \o Wire!IdsOf(ts[k].blocks, "text")
                  /\ Wire!Said(ts) = said[n]
  BY SaidInOrder, Zenon
<1> HIDE DEF n
<1> DEFINE Good(k) == MergedWell(K, D, out, ts, k, said[k])
           T == { k \in Nat : k <= n => Good(k) }
<1>4. 0 \in T
  <2>1. <<>> \in Seq(Sent(K, D)) /\ Len(<<>>) = 0
    BY EmptySeq
  <2>2. Wire!Alternates(<<>>)
    BY <2>1 DEF Wire!Alternates
  <2>3. Wire!Said(<<>>) = <<>>
    <3>1. [i \in 1..Len(<<>>) |-> Wire!IdsOf(<<>>[i].blocks, "text")] = <<>>
      BY <2>1
    <3> QED BY <3>1, FlatSmall, Zenon DEF Wire!Said
  <2>4. Good(0)
    BY <1>2, <1>3, <2>1, <2>2, <2>3, Zenon DEF MergedWell
  <2> HIDE DEF Good
  <2> QED BY <2>4
<1>5. ASSUME NEW k \in Nat, k \in T PROVE k + 1 \in T
  <2>1. CASE k + 1 <= n
    <3>1. k + 1 \in 1..n /\ (k + 1) - 1 = k /\ k <= n /\ k + 1 # 0
      BY <1>1, <2>1
    <3>2. Good(k)
      <4> HIDE DEF Good
      <4> QED BY <1>5, <3>1
    <3>3. \A o \in Seq(Sent(K, D)), t \in Sent(K, D) : Wire!Alternates(o) => Keeps(K, D, o, t)
      BY JoinedKeeps
    <3>4. Good(k + 1)
      <4>1. out[k + 1] = Wire!Joined(out[k], ts[k + 1]) /\ ts[k + 1] \in Sent(K, D)
            /\ said[k + 1] = said[k] \o Wire!IdsOf(ts[k + 1].blocks, "text")
        BY <1>1, <1>2, <1>3, <3>1, Zenon
      <4> QED BY <3>1, <3>2, <3>3, <4>1, Zenon DEF Keeps, MergedWell
    <3> HIDE DEF Good
    <3> QED BY <3>4
  <2> HIDE DEF Good
  <2> QED BY <2>1
<1>6. \A k \in 0..n : Good(k)
  <2> HIDE DEF Good
  <2>1. Nat \subseteq T
    <3> HIDE DEF T
    <3> QED BY <1>4, <1>5, InductionOnNat
  <2> QED BY <1>1, <2>1
<1> HIDE DEF Good
<1>7. Wire!Said(ts) = said[n] /\ \A k \in 0..n : MergedWell(K, D, out, ts, k, said[k])
  BY <1>3, <1>6 DEF Good
<1> QED BY <1>7, Zenon DEF n

\* On the wire two neighbours never have one role, whatever turns of the two speakers
\* are merged, and all that was said in them is there, in its order.
LEMMA MergedIsFaithful ==
  ASSUME NEW K, NEW D, NEW ts \in Seq(Sent(K, D))
  PROVE  /\ Wire!Alternates(Wire!MergeAdjacentRoles(ts))
         /\ Wire!Said(Wire!MergeAdjacentRoles(ts)) = Wire!Said(ts)
<1>1. PICK out : MergesTo(out, ts)
  BY MergedInOrder
<1>2. PICK said : /\ \A k \in 0..Len(ts) : MergedWell(K, D, out, ts, k, said[k])
                  /\ Wire!Said(ts) = said[Len(ts)]
  BY <1>1, MergedStepByStep
<1>3. Len(ts) \in 0..Len(ts)
  BY LenProperties
<1> QED BY <1>1, <1>2, <1>3, Zenon DEF MergedWell, MergesTo

-----------------------------------------------------------------------------
\* Which calls a conversation of the wire still owes the results of.

\* Turn t opens with the results of the calls u, and holds no other.
Replies(t, u) ==
  /\ Wire!IdsOf(t.blocks, "tool_result") = u
  /\ \A k \in 1..Len(u) : t.blocks[k].kind = "tool_result"

\* As AnsweredAtOnce, but that the last turn makes the calls u.
AnsweredBut(p, u) ==
  /\ \A i \in 0..(Len(p) - 1) : Replies(p[i + 1], Wire!Ids(p, i, "tool_use"))
  /\ Wire!Ids(p, Len(p), "tool_use") = u

LEMMA AnsweredButNothing ==
  ASSUME NEW p, Len(p) \in Nat, AnsweredBut(p, <<>>)
  PROVE  Wire!AnsweredAtOnce(p)
<1>1. ASSUME NEW i \in 0..Len(p)
      PROVE  /\ Wire!Ids(p, i + 1, "tool_result") = Wire!Ids(p, i, "tool_use")
             /\ \A k \in 1..Len(Wire!Ids(p, i, "tool_use")) : p[i + 1].blocks[k].kind = "tool_result"
  <2>1. CASE i = Len(p)
    <3>1. i + 1 \notin 1..Len(p) /\ 1..Len(<<>>) = {}
      BY <2>1
    <3>2. Wire!Ids(p, i + 1, "tool_result") = <<>>
      BY <3>1, Zenon DEF Wire!Ids
    <3>3. Wire!Ids(p, i, "tool_use") = <<>>
      BY <2>1, Zenon DEF AnsweredBut
    <3> QED BY <3>1, <3>2, <3>3
  <2>2. CASE i # Len(p)
    <3>1. i \in 0..(Len(p) - 1) /\ i + 1 \in 1..Len(p)
      BY <2>2
    <3>2. Replies(p[i + 1], Wire!Ids(p, i, "tool_use"))
      BY <3>1, Zenon DEF AnsweredBut
    <3>3. Wire!Ids(p, i + 1, "tool_result") = Wire!IdsOf(p[i + 1].blocks, "tool_result")
      BY <3>1, Zenon DEF Wire!Ids
    <3> QED BY <3>2, <3>3, Zenon DEF Replies
  <2> QED BY <2>1, <2>2
<1> QED BY <1>1, Zenon DEF Wire!AnsweredAtOnce

\* One turn more: it has to hold the results of what is owed.
LEMMA AnsweredNext ==
  ASSUME NEW S, NEW p \in Seq(S), NEW t \in S, NEW v
  PROVE  AnsweredBut(Append(p, t), v) <=>
           \E u : AnsweredBut(p, u) /\ Replies(t, u) /\ v = Wire!IdsOf(t.blocks, "tool_use")
<1> DEFINE q == Append(p, t)
           n == Len(p)
           u == Wire!Ids(p, n, "tool_use")
<1>1. /\ n \in Nat /\ Len(q) = n + 1 /\ q[n + 1] = t
      /\ \A i \in 1..n : q[i] = p[i]
  BY AppendProperties, LenProperties
<1> HIDE DEF q, n
<1>2. ASSUME NEW i \in 0..n PROVE Wire!Ids(q, i, "tool_use") = Wire!Ids(p, i, "tool_use")
  <2>1. i \in 1..Len(q) <=> i \in 1..n
    BY <1>1
  <2> QED BY <1>1, <2>1, Zenon DEF Wire!Ids, n
<1>3. Wire!Ids(q, n + 1, "tool_use") = Wire!IdsOf(t.blocks, "tool_use")
  <2>1. n + 1 \in 1..Len(q)
    BY <1>1
  <2> QED BY <1>1, <2>1, Zenon DEF Wire!Ids
<1>4. (\A i \in 0..(Len(q) - 1) : Replies(q[i + 1], Wire!Ids(q, i, "tool_use"))) <=>
        /\ \A i \in 0..(n - 1) : Replies(p[i + 1], Wire!Ids(p, i, "tool_use"))
        /\ Replies(t, u)
  <2>1. /\ Len(q) - 1 = n /\ n \in 0..n
        /\ \A i \in 0..(n - 1) : i \in 0..n /\ i + 1 \in 1..n
        /\ \A i \in 0..n : i = n \/ i \in 0..(n - 1)
    BY <1>1
  <2>2. \A i \in 0..(n - 1) : q[i + 1] = p[i + 1] /\ Wire!Ids(q, i, "tool_use") = Wire!Ids(p, i, "tool_use")
    BY <1>1, <1>2, <2>1, Zenon
  <2>3. q[n + 1] = t /\ Wire!Ids(q, n, "tool_use") = u
    BY <1>1, <1>2, <2>1, Zenon
  <2> HIDE DEF u
  <2> QED BY <2>1, <2>2, <2>3, Zenon
<1>5. AnsweredBut(q, v) <=>
        /\ \A i \in 0..(Len(q) - 1) : Replies(q[i + 1], Wire!Ids(q, i, "tool_use"))
        /\ v = Wire!IdsOf(t.blocks, "tool_use")
  BY <1>1, <1>3, Zenon DEF AnsweredBut
<1>6. \A w : AnsweredBut(p, w) <=>
        /\ \A i \in 0..(n - 1) : Replies(p[i + 1], Wire!Ids(p, i, "tool_use"))
        /\ u = w
  BY Zenon DEF AnsweredBut, n
<1> HIDE DEF u
<1> QED BY <1>4, <1>5, <1>6, Zenon DEF q

\* A kind is not in more parts than there are.
LEMMA IdsNoLonger ==
  ASSUME NEW K, NEW D, NEW b \in Seq(Parts(K, D)), NEW kind
  PROVE  Len(Wire!IdsOf(b, kind)) \in 0..Len(b)
<1> DEFINE n == Len(b)
           w == [k \in 1..n |-> IF b[k].kind = kind THEN <<b[k].id>> ELSE <<>>]
<1>1. n \in Nat /\ \A k \in 1..n : b[k].id \in D
  <2>1. n \in Nat /\ \A k \in 1..n : b[k] \in Parts(K, D)
    BY LenProperties, ElementOfSeq
  <2> QED BY <2>1 DEF Parts
<1>2. /\ w \in Seq(Seq(D)) /\ Len(w) = n
      /\ \A k \in 1..n : w[k] \in Seq(D) /\ Len(w[k]) \in {0, 1}
  <2>1. \A k \in 1..n : w[k] \in Seq(D) /\ Len(w[k]) \in {0, 1}
    BY <1>1
  <2>2. w \in [1..n -> Seq(D)]
    BY <2>1
  <2> HIDE DEF w
  <2> QED BY <1>1, <2>1, <2>2
<1>3. Wire!IdsOf(b, kind) = Wire!FlattenSeq(w)
  BY Zenon DEF Wire!IdsOf
<1> HIDE DEF w, n
<1>4. PICK a : /\ a[0] = <<>>
               /\ \A k \in 1..n : a[k] = a[k - 1] \o w[k]
               /\ \A k \in 0..n : a[k] \in Seq(D)
               /\ Wire!FlattenSeq(w) = a[n]
  <2>1. \E a : /\ a[0] = <<>>
               /\ \A k \in 1..Len(w) : a[k] = a[k - 1] \o w[k]
               /\ \A k \in 0..Len(w) : a[k] \in Seq(D)
               /\ Wire!FlattenSeq(w) = a[Len(w)]
    BY <1>2, FlatInOrder, Zenon
  <2> QED BY <1>2, <2>1
<1> DEFINE T == { k \in Nat : k <= n => Len(a[k]) \in 0..k }
<1>5. 0 \in T
  BY <1>4
<1>6. ASSUME NEW k \in Nat, k \in T PROVE k + 1 \in T
  <2>1. CASE k + 1 <= n
    <3>1. k + 1 \in 1..n /\ (k + 1) - 1 = k /\ k \in 0..n /\ Len(a[k]) \in 0..k
      BY <1>1, <1>6, <2>1
    <3>2. Len(a[k + 1]) = Len(a[k]) + Len(w[k + 1])
      <4>1. a[k + 1] = a[k] \o w[k + 1] /\ a[k] \in Seq(D) /\ w[k + 1] \in Seq(D)
        BY <1>2, <1>4, <3>1, Zenon
      <4>2. \A x, y \in Seq(D) : Len(x \o y) = Len(x) + Len(y)
        BY ConcatProperties
      <4> QED BY <4>1, <4>2, Zenon
    <3>3. Len(w[k + 1]) \in {0, 1}
      BY <1>2, <3>1
    <3>4. Len(a[k + 1]) \in 0..(k + 1)
      <4> DEFINE x == Len(a[k])
                 y == Len(w[k + 1])
                 z == Len(a[k + 1])
      <4>1. x \in 0..k /\ y \in {0, 1} /\ z = x + y
        BY <3>1, <3>2, <3>3, Zenon
      <4> HIDE DEF x, y, z
      <4>2. z \in 0..(k + 1)
        BY <4>1
      <4> QED BY <4>2 DEF z
    <3> QED BY <3>4
  <2> QED BY <2>1
<1>7. Nat \subseteq T
  <2> HIDE DEF T
  <2> QED BY <1>5, <1>6, InductionOnNat
<1> QED BY <1>1, <1>3, <1>4, <1>7 DEF n

\* A turn that answers nothing joins a conversation that owes nothing: what it calls is
\* then all that is owed.
LEMMA JoinedOwes ==
  ASSUME NEW K, NEW D, NEW out \in Seq(Sent(K, D)), NEW t \in Sent(K, D),
         AnsweredBut(out, <<>>), Wire!IdsOf(t.blocks, "tool_result") = <<>>
  PROVE  AnsweredBut(Wire!Joined(out, t), Wire!IdsOf(t.blocks, "tool_use"))
<1>1. CASE Behind(out, t)
  <2>1. Replies(t, <<>>)
    BY DEF Replies
  <2>2. AnsweredBut(Append(out, t), Wire!IdsOf(t.blocks, "tool_use"))
    BY <2>1, AnsweredNext
  <2> QED BY <1>1, <2>2, Zenon DEF Behind
<1>2. ASSUME NEW front \in Seq(Sent(K, D)), NEW last \in Sent(K, D), Into(front, last, out, t)
      PROVE  AnsweredBut(Wire!Joined(out, t), Wire!IdsOf(t.blocks, "tool_use"))
  <2> DEFINE bs   == last.blocks \o t.blocks
             more == [role |-> t.role, blocks |-> bs]
  <2>1. out = Append(front, last) /\ Wire!Joined(out, t) = Append(front, more)
    BY <1>2, Zenon DEF Into
  <2>2. PICK u : AnsweredBut(front, u) /\ Replies(last, u) /\ <<>> = Wire!IdsOf(last.blocks, "tool_use")
    <3>1. AnsweredBut(Append(front, last), <<>>)
      BY <2>1, Zenon
    <3> QED BY <3>1, AnsweredNext
  <2>3. last.blocks \in Seq(Parts(K, D)) /\ t.blocks \in Seq(Parts(K, D)) /\ t.role \in Wire!Speakers
    BY DEF Sent
  <2>4. /\ bs \in Seq(Parts(K, D)) /\ Len(last.blocks) \in Nat
        /\ \A i \in 1..Len(last.blocks) : bs[i] = last.blocks[i]
    <3>1. \A b, c \in Seq(Parts(K, D)) :
            /\ b \o c \in Seq(Parts(K, D)) /\ Len(b) \in Nat /\ Len(c) \in Nat
            /\ \A i \in 1..(Len(b) + Len(c)) : (b \o c)[i] = IF i <= Len(b) THEN b[i] ELSE c[i - Len(b)]
      BY ConcatProperties, LenProperties
    <3>2. /\ bs \in Seq(Parts(K, D)) /\ Len(last.blocks) \in Nat /\ Len(t.blocks) \in Nat
          /\ \A i \in 1..(Len(last.blocks) + Len(t.blocks)) :
               bs[i] = IF i <= Len(last.blocks) THEN last.blocks[i] ELSE t.blocks[i - Len(last.blocks)]
      BY <2>3, <3>1, Zenon
    <3>3. \A x, y \in Nat : \A i \in 1..x : i <= x /\ i \in 1..(x + y)
      OBVIOUS
    <3> QED BY <3>2, <3>3, Zenon
  <2>5. \A kind : /\ Wire!IdsOf(bs, kind) = Wire!IdsOf(last.blocks, kind) \o Wire!IdsOf(t.blocks, kind)
                  /\ Wire!IdsOf(last.blocks, kind) \in Seq(D) /\ Wire!IdsOf(t.blocks, kind) \in Seq(D)
    <3>1. \A kind : \A b, c \in Seq(Parts(K, D)) :
            /\ Wire!IdsOf(b \o c, kind) = Wire!IdsOf(b, kind) \o Wire!IdsOf(c, kind)
            /\ Wire!IdsOf(b, kind) \in Seq(D) /\ Wire!IdsOf(c, kind) \in Seq(D)
      BY IdsConcat
    <3> QED BY <2>3, <3>1, Zenon
  <2> HIDE DEF bs
  <2>6. more \in Sent(K, D) /\ more.blocks = bs
    BY <2>3, <2>4 DEF Sent
  <2>7. \A x \in Seq(D) : x \o <<>> = x /\ <<>> \o x = x
    BY ConcatEmptySeq
  <2>8. Wire!IdsOf(bs, "tool_result") = u /\ Wire!IdsOf(bs, "tool_use") = Wire!IdsOf(t.blocks, "tool_use")
    BY <2>2, <2>5, <2>7, Zenon DEF Replies
  <2>9. Len(u) \in 0..Len(last.blocks) /\ Wire!IdsOf(last.blocks, "tool_result") = u
    <3>1. Wire!IdsOf(last.blocks, "tool_result") = u
      BY <2>2, Zenon DEF Replies
    <3> QED BY <2>3, <3>1, IdsNoLonger
  <2>10. \A k \in 1..Len(u) : bs[k].kind = "tool_result"
    <3>1. \A k \in 1..Len(u) : k \in 1..Len(last.blocks)
      BY <2>4, <2>9
    <3> QED BY <2>2, <2>4, <3>1, Zenon DEF Replies
  <2> HIDE DEF more
  <2>11. Replies(more, u)
    BY <2>6, <2>8, <2>10, Zenon DEF Replies
  <2>12. AnsweredBut(Append(front, more), Wire!IdsOf(more.blocks, "tool_use"))
    BY <2>2, <2>6, <2>11, AnsweredNext
  <2> QED BY <2>1, <2>6, <2>8, <2>12, Zenon
<1> QED BY <1>1, <1>2, JoinedCases, Zenon

\* The results of all that is owed, and nothing is.
LEMMA RepliesClose ==
  ASSUME NEW S, NEW out \in Seq(S), NEW t \in S, NEW u, AnsweredBut(out, u), Replies(t, u),
         Wire!IdsOf(t.blocks, "tool_use") = <<>>
  PROVE  AnsweredBut(Append(out, t), <<>>)
BY AnsweredNext

-----------------------------------------------------------------------------
\* The conversation of the loop on the wire, turn by turn.

Kinds == {"text", "tool_use", "tool_result"}
Names == Nat \cup (Nat \X Nat)

\* The turn of the wire that turn i of the conversation becomes.
TextBlocks(i) == IF messages[i].said THEN <<Wire!Part("text", i)>> ELSE <<>>
UseBlocks(i)  == [k \in 1..messages[i].calls |-> Wire!Part("tool_use", <<i, k>>)]
ResultBlock(j, k) == Wire!Part("tool_result", <<j, k>>)

WireTurn(i) ==
  [role   |-> IF messages[i].role = "tool" THEN "user" ELSE messages[i].role,
   blocks |-> CASE messages[i].role = "tool" -> <<ResultBlock(CallerOf(i), messages[i].call)>>
                [] messages[i].role = "assistant" -> TextBlocks(i) \o UseBlocks(i)
                [] messages[i].role = "user" -> TextBlocks(i)]

\* The call at a place is of one turn only, and the result there is its result.
LEMMA CallerOfResult ==
  ASSUME messages \in Seq(Turn), Linked(messages),
         NEW i \in 1..Len(messages), NEW j \in 1..(i - 1), Calls(messages, j, i)
  PROVE  messages[i].role = "tool" /\ messages[i].call = i - j /\ CallerOf(i) = j
<1>1. Len(messages) \in Nat
  BY LenProperties
<1>2. messages[i].role = "tool" /\ messages[i].call = i - j
  BY DEF Linked
<1>3. messages[j].role = "assistant" /\ messages[j].calls \in Nat
  <2>1. messages[j] \in Turn
    BY <1>1, ElementOfSeq
  <2> QED BY <2>1 DEF Calls, Turn
<1>4. ASSUME NEW l \in (j + 1)..(i - 1) PROVE messages[l].role = "tool"
  <2>1. l \in 1..Len(messages) /\ j \in 1..(l - 1) /\ Calls(messages, j, l)
    BY <1>1, <1>3 DEF Calls
  <2> QED BY <2>1 DEF Linked
<1> DEFINE P(c) == c \in 1..(i - 1) /\ messages[c].role = "assistant"
                   /\ \A l \in (c + 1)..(i - 1) : messages[l].role # "assistant"
<1>5. P(j)
  BY <1>3, <1>4
<1>6. ASSUME NEW c \in 1..(i - 1), P(c) PROVE c = j
  <2>1. c < j \/ c = j \/ c \in (j + 1)..(i - 1)
    BY <1>1
  <2>2. CASE c < j
    <3>1. j \in (c + 1)..(i - 1)
      BY <1>1, <2>2
    <3> QED BY <1>3, <1>6, <3>1
  <2>3. CASE c \in (j + 1)..(i - 1)
    BY <1>4, <1>6, <2>3
  <2> QED BY <2>1, <2>2, <2>3
<1>7. CallerOf(i) = CHOOSE c \in 1..(i - 1) :
        messages[c].role = "assistant" /\ \A l \in (c + 1)..(i - 1) : messages[l].role # "assistant"
  BY Zenon DEF CallerOf
<1>8. CallerOf(i) = j
  BY <1>5, <1>6, <1>7
<1> QED BY <1>2, <1>8

LEMMA ResultHasCaller ==
  ASSUME messages \in Seq(Turn), Linked(messages),
         NEW i \in 1..Len(messages), messages[i].role = "tool"
  PROVE  /\ CallerOf(i) \in 1..(i - 1) /\ Calls(messages, CallerOf(i), i)
         /\ messages[i].call = i - CallerOf(i)
<1>1. PICK j \in 1..(i - 1) : Calls(messages, j, i)
  BY DEF Linked
<1>2. messages[i].call = i - j /\ CallerOf(i) = j
  BY <1>1, CallerOfResult
<1> QED BY <1>1, <1>2

\* What the parts of a turn name.
LEMMA BlocksOfTurns ==
  ASSUME messages \in Seq(Turn), NEW i \in 1..Len(messages)
  PROVE  /\ messages[i] \in Turn /\ i \in Nat
         /\ TextBlocks(i) \in Seq(Parts(Kinds, Names))
         /\ UseBlocks(i) \in Seq(Parts(Kinds, Names))
         /\ \A kind : Wire!IdsOf(TextBlocks(i), kind) =
                        IF kind = "text" /\ messages[i].said THEN <<i>> ELSE <<>>
         /\ \A kind : Wire!IdsOf(UseBlocks(i), kind) =
                        IF kind = "tool_use" THEN [k \in 1..messages[i].calls |-> <<i, k>>] ELSE <<>>
<1>1. messages[i] \in Turn /\ i \in Nat
  BY LenProperties, ElementOfSeq
<1>2. messages[i].calls \in Nat
  BY <1>1 DEF Turn
<1> DEFINE t == Wire!Part("text", i)
           c == messages[i].calls
           uses == UseBlocks(i)
<1>3. t \in Parts(Kinds, Names) /\ t.kind = "text" /\ t.id = i
  BY <1>1 DEF Wire!Part, Parts, Kinds, Names
<1>4. TextBlocks(i) \in Seq(Parts(Kinds, Names))
  <2>1. TextBlocks(i) = IF messages[i].said THEN <<t>> ELSE <<>>
    BY Zenon DEF TextBlocks
  <2> HIDE DEF t
  <2> QED BY <1>3, <2>1
<1>5. \A kind : Wire!IdsOf(TextBlocks(i), kind) =
                  IF kind = "text" /\ messages[i].said THEN <<i>> ELSE <<>>
  <2>1. TextBlocks(i) = IF messages[i].said THEN <<t>> ELSE <<>>
    BY Zenon DEF TextBlocks
  <2> HIDE DEF t
  <2>2. \A kind : Wire!IdsOf(<<t>>, kind) = (IF t.kind = kind THEN <<t.id>> ELSE <<>>)
                  /\ Wire!IdsOf(<<>>, kind) = <<>>
    BY IdsSmall, Zenon
  <2>3. CASE messages[i].said
    BY <1>3, <2>1, <2>2, <2>3
  <2>4. CASE ~messages[i].said
    BY <1>3, <2>1, <2>2, <2>4
  <2> QED BY <2>3, <2>4
<1>6. /\ uses \in Seq(Parts(Kinds, Names)) /\ Len(uses) = c
      /\ \A k \in 1..c : uses[k].kind = "tool_use" /\ uses[k].id = <<i, k>>
  <2>1. \A k \in 1..c : Wire!Part("tool_use", <<i, k>>) \in Parts(Kinds, Names)
    BY <1>1, <1>2 DEF Wire!Part, Parts, Kinds, Names
  <2>2. uses = [k \in 1..c |-> Wire!Part("tool_use", <<i, k>>)]
    BY Zenon DEF UseBlocks
  <2>3. uses \in [1..c -> Parts(Kinds, Names)]
    BY <2>1, <2>2
  <2>4. \A k \in 1..c : uses[k] = Wire!Part("tool_use", <<i, k>>)
    BY <2>2, Zenon
  <2>5. \A k \in 1..c : uses[k].kind = "tool_use" /\ uses[k].id = <<i, k>>
    <3>1. \A k : Wire!Part("tool_use", <<i, k>>).kind = "tool_use"
                /\ Wire!Part("tool_use", <<i, k>>).id = <<i, k>>
      BY DEF Wire!Part
    <3> QED BY <2>4, <3>1, Zenon
  <2> HIDE DEF uses
  <2>6. uses \in Seq(Parts(Kinds, Names)) /\ Len(uses) = c
    BY <1>2, <2>3
  <2> QED BY <2>5, <2>6
<1> HIDE DEF uses
<1>7. ASSUME NEW kind
      PROVE  Wire!IdsOf(uses, kind) =
               IF kind = "tool_use" THEN [k \in 1..c |-> <<i, k>>] ELSE <<>>
  <2>1. CASE kind = "tool_use"
    <3>1. \A k \in 1..Len(uses) : uses[k].kind = kind
      BY <1>6, <2>1
    <3>2. Wire!IdsOf(uses, kind) = [k \in 1..Len(uses) |-> uses[k].id]
      BY <1>6, <3>1, IdsUniform
    <3>3. [k \in 1..Len(uses) |-> uses[k].id] = [k \in 1..c |-> <<i, k>>]
      BY <1>6
    <3> QED BY <2>1, <3>2, <3>3, Zenon
  <2>2. CASE kind # "tool_use"
    <3>1. \A k \in 1..Len(uses) : uses[k].kind # kind
      BY <1>6, <2>2
    <3>2. Wire!IdsOf(uses, kind) = <<>>
      BY <1>6, <3>1, IdsUniform
    <3> QED BY <2>2, <3>2
  <2> QED BY <2>1, <2>2
<1> QED BY <1>1, <1>4, <1>5, <1>6, <1>7, Zenon DEF uses

\* What a turn of the wire says, answers and calls.
LEMMA PartsOfWireTurn ==
  ASSUME messages \in Seq(Turn), Linked(messages), NEW i \in 1..Len(messages)
  PROVE  /\ WireTurn(i) \in Sent(Kinds, Names)
         /\ WireTurn(i).role = IF messages[i].role = "tool" THEN "user" ELSE messages[i].role
         /\ Wire!IdsOf(WireTurn(i).blocks, "text") =
              IF messages[i].said /\ messages[i].role # "tool" THEN <<i>> ELSE <<>>
         /\ Wire!IdsOf(WireTurn(i).blocks, "tool_result") =
              IF messages[i].role = "tool" THEN <<<<CallerOf(i), messages[i].call>>>> ELSE <<>>
         /\ Wire!IdsOf(WireTurn(i).blocks, "tool_use") =
              IF messages[i].role = "assistant" THEN [k \in 1..messages[i].calls |-> <<i, k>>] ELSE <<>>
<1> DEFINE B == Seq(Parts(Kinds, Names))
           w == WireTurn(i)
<1>1. /\ messages[i] \in Turn /\ i \in Nat
      /\ TextBlocks(i) \in B /\ UseBlocks(i) \in B
      /\ \A kind : Wire!IdsOf(TextBlocks(i), kind) =
                     IF kind = "text" /\ messages[i].said THEN <<i>> ELSE <<>>
      /\ \A kind : Wire!IdsOf(UseBlocks(i), kind) =
                     IF kind = "tool_use" THEN [k \in 1..messages[i].calls |-> <<i, k>>] ELSE <<>>
  BY BlocksOfTurns, Zenon
<1>2. messages[i].role \in {"user", "assistant", "tool"}
  BY <1>1 DEF Turn
<1>3. CASE messages[i].role = "tool"
  <2> DEFINE r == ResultBlock(CallerOf(i), messages[i].call)
  <2>1. CallerOf(i) \in Nat /\ messages[i].call \in Nat
    <3>1. CallerOf(i) \in 1..(i - 1)
      BY <1>3, ResultHasCaller, Zenon
    <3>2. CallerOf(i) \in Nat
      <4> DEFINE c == CallerOf(i)
      <4>1. c \in 1..(i - 1)
        BY <3>1
      <4> HIDE DEF c
      <4>2. c \in Nat
        BY <1>1, <4>1
      <4> QED BY <4>2 DEF c
    <3>3. messages[i].call \in Nat
      BY <1>1 DEF Turn
    <3> QED BY <3>2, <3>3, Zenon
  <2>2. r \in Parts(Kinds, Names) /\ r.kind = "tool_result" /\ r.id = <<CallerOf(i), messages[i].call>>
    BY <2>1, SMTT(30) DEF ResultBlock, Wire!Part, Parts, Kinds, Names
  <2>3. w = [role |-> "user", blocks |-> <<r>>]
    BY <1>3 DEF WireTurn
  <2> HIDE DEF r, w
  <2>4. w \in Sent(Kinds, Names) /\ w.role = "user" /\ w.blocks = <<r>>
    BY <2>2, <2>3 DEF Sent, Wire!Speakers
  <2>5. \A kind : Wire!IdsOf(<<r>>, kind) = IF r.kind = kind THEN <<r.id>> ELSE <<>>
    BY IdsSmall, Zenon
  <2>6. /\ Wire!IdsOf(w.blocks, "tool_result") = <<<<CallerOf(i), messages[i].call>>>>
        /\ Wire!IdsOf(w.blocks, "tool_use") = <<>>
        /\ Wire!IdsOf(w.blocks, "text") = <<>>
    BY <2>2, <2>4, <2>5
  <2> QED BY <1>3, <2>4, <2>6, Zenon DEF w
<1>4. CASE messages[i].role = "assistant"
  <2> DEFINE bs == TextBlocks(i) \o UseBlocks(i)
             us == [k \in 1..messages[i].calls |-> <<i, k>>]
  <2>1. w = [role |-> "assistant", blocks |-> bs]
    BY <1>4 DEF WireTurn
  <2>2. bs \in B
    BY <1>1, ConcatProperties
  <2>3. \A kind : /\ Wire!IdsOf(bs, kind) = Wire!IdsOf(TextBlocks(i), kind) \o Wire!IdsOf(UseBlocks(i), kind)
                  /\ Wire!IdsOf(TextBlocks(i), kind) \in Seq(Names)
                  /\ Wire!IdsOf(UseBlocks(i), kind) \in Seq(Names)
    <3>1. \A kind : \A b, c \in B :
            /\ Wire!IdsOf(b \o c, kind) = Wire!IdsOf(b, kind) \o Wire!IdsOf(c, kind)
            /\ Wire!IdsOf(b, kind) \in Seq(Names) /\ Wire!IdsOf(c, kind) \in Seq(Names)
      BY IdsConcat
    <3> QED BY <1>1, <3>1, Zenon
  <2> HIDE DEF bs, us, w, B
  <2>4. w \in Sent(Kinds, Names) /\ w.role = "assistant" /\ w.blocks = bs
    BY <2>1, <2>2 DEF Sent, Wire!Speakers, B
  <2>5. \A x \in Seq(Names) : x \o <<>> = x /\ <<>> \o x = x
    BY ConcatEmptySeq
  <2>6. <<>> \o <<>> = <<>>
    OBVIOUS
  <2>7. /\ Wire!IdsOf(TextBlocks(i), "tool_result") = <<>>
        /\ Wire!IdsOf(UseBlocks(i), "tool_result") = <<>>
        /\ Wire!IdsOf(TextBlocks(i), "tool_use") = <<>>
        /\ Wire!IdsOf(UseBlocks(i), "tool_use") = us
        /\ Wire!IdsOf(TextBlocks(i), "text") = IF messages[i].said THEN <<i>> ELSE <<>>
        /\ Wire!IdsOf(UseBlocks(i), "text") = <<>>
    <3>1. "text" # "tool_result" /\ "text" # "tool_use" /\ "tool_use" # "tool_result"
      OBVIOUS
    <3> QED BY <1>1, <3>1, Zenon DEF us
  <2>8. /\ Wire!IdsOf(bs, "tool_result") = <<>>
        /\ Wire!IdsOf(bs, "tool_use") = us
        /\ Wire!IdsOf(bs, "text") = IF messages[i].said THEN <<i>> ELSE <<>>
    BY <2>3, <2>5, <2>6, <2>7, Zenon
  <2>9. "assistant" # "tool"
    OBVIOUS
  <2>10. /\ w \in Sent(Kinds, Names)
         /\ w.role = IF messages[i].role = "tool" THEN "user" ELSE messages[i].role
         /\ Wire!IdsOf(w.blocks, "text") =
              IF messages[i].said /\ messages[i].role # "tool" THEN <<i>> ELSE <<>>
         /\ Wire!IdsOf(w.blocks, "tool_result") =
              IF messages[i].role = "tool" THEN <<<<CallerOf(i), messages[i].call>>>> ELSE <<>>
         /\ Wire!IdsOf(w.blocks, "tool_use") =
              IF messages[i].role = "assistant" THEN us ELSE <<>>
    BY <1>4, <2>4, <2>8, <2>9, Zenon
  <2> QED BY <2>10, Zenon DEF w, us
<1>5. CASE messages[i].role = "user"
  <2>1. w = [role |-> "user", blocks |-> TextBlocks(i)]
    BY <1>5 DEF WireTurn
  <2> HIDE DEF w, B
  <2>2. w \in Sent(Kinds, Names) /\ w.role = "user" /\ w.blocks = TextBlocks(i)
    BY <1>1, <2>1 DEF Sent, Wire!Speakers, B
  <2>3. "text" # "tool_result" /\ "text" # "tool_use" /\ "user" # "tool" /\ "user" # "assistant"
    OBVIOUS
  <2> QED BY <1>1, <1>5, <2>2, <2>3, Zenon DEF w
<1> QED BY <1>2, <1>3, <1>4, <1>5

\* Each turn of the loop becomes one turn of the wire.
LEMMA TranslatedTurn ==
  ASSUME messages \in Seq(Turn), NEW i \in 1..Len(messages)
  PROVE  Wire!Translated(Replayed(i)) = <<WireTurn(i)>>
<1> DEFINE r == Replayed(i)
           m == messages[i]
           calls == [k \in 1..m.calls |-> <<i, k>>]
           content == IF m.said THEN Wire!Content("string", <<Wire!Part("text", i)>>) ELSE Wire!Null
           answers == IF m.role = "tool" THEN <<CallerOf(i), m.call>> ELSE Wire!NoId
<1>1. m.role \in {"user", "assistant", "tool"} /\ m.calls \in Nat /\ UseBlocks(i) \in Seq(Parts(Kinds, Names))
      /\ TextBlocks(i) \in Seq(Parts(Kinds, Names))
  BY BlocksOfTurns DEF Turn
<1>2. r = [role |-> m.role, content |-> content, calls |-> calls, answers |-> answers]
  BY Zenon DEF Replayed, Wire!Turn
<1>3. r.role = m.role /\ r.content = content /\ r.calls = calls /\ r.answers = answers
  <2> HIDE DEF content, calls, answers, m, r
  <2> QED BY <1>2
<1>4. /\ Len(calls) = m.calls /\ (calls = <<>> <=> m.calls = 0)
      /\ \A k \in 1..m.calls : calls[k] = <<i, k>>
  <2>1. calls \in Seq(Names) /\ Len(calls) = m.calls
    <3>1. i \in Nat
      BY LenProperties
    <3>2. \A k \in 1..m.calls : <<i, k>> \in Names
      BY <3>1 DEF Names
    <3>3. calls \in [1..m.calls -> Names]
      BY <3>2, Zenon
    <3>4. m.calls \in Nat
      BY <1>1
    <3> HIDE DEF m, calls
    <3> QED BY <3>3, <3>4
  <2>2. calls = <<>> <=> m.calls = 0
    <3> HIDE DEF calls, m
    <3> QED BY <2>1, EmptySeq
  <2>3. \A k \in 1..m.calls : calls[k] = <<i, k>>
    OBVIOUS
  <2> QED BY <2>1, <2>2, <2>3
<1>5. /\ content.shape = "string" <=> m.said
      /\ m.said => content.parts = <<Wire!Part("text", i)>>
      /\ ~m.said => content.parts = <<>>
  BY DEF Wire!Content, Wire!Null
<1>6. UseBlocks(i) = [k \in 1..Len(calls) |-> Wire!Part("tool_use", calls[k])]
  <2> HIDE DEF calls, m
  <2>1. UseBlocks(i) = [k \in 1..m.calls |-> Wire!Part("tool_use", <<i, k>>)]
    BY Zenon DEF UseBlocks, m
  <2> QED BY <1>4, <2>1
<1>7. TextBlocks(i) = IF content.shape = "string" THEN content.parts ELSE <<>>
  BY <1>5, Zenon DEF TextBlocks
<1>8. Wire!Known(content) = TextBlocks(i)
  <2> DEFINE t == Wire!Part("text", i)
             K2 == {"text", "image"}
  <2>1. t.kind = "text"
    BY DEF Wire!Part
  <2> HIDE DEF t
  <2>2. Wire!Only(<<t>>, K2) = <<t>>
    <3>1. [k \in 1..Len(<<t>>) |-> IF <<t>>[k].kind \in K2 THEN <<<<t>>[k]>> ELSE <<>>] = <<<<t>>>>
      BY <2>1
    <3>2. <<t>> \in Seq({t})
      OBVIOUS
    <3>3. Wire!FlattenSeq(<<<<t>>>>) = <<t>>
      BY <3>2, FlatSmall
    <3> QED BY <3>1, <3>3, Zenon DEF Wire!Only
  <2>3. Wire!Only(<<>>, K2) = <<>>
    <3>1. [k \in 1..Len(<<>>) |-> IF <<>>[k].kind \in K2 THEN <<<<>>[k]>> ELSE <<>>] = <<>>
      <4>1. Len(<<>>) = 0
        BY EmptySeq
      <4> QED BY <4>1
    <3> QED BY <3>1, FlatSmall, Zenon DEF Wire!Only
  <2>4. Wire!Known(content) = Wire!Only(content.parts, K2)
    BY Zenon DEF Wire!Known
  <2> QED BY <1>5, <2>2, <2>3, <2>4, Zenon DEF TextBlocks, t
<1> HIDE DEF r, m, calls, content
<1>9. CASE m.role = "tool"
  <2>1. Wire!Translated(r) = <<Wire!Result(r)>>
    BY <1>3, <1>9 DEF Wire!Translated
  <2>2. Wire!Result(r) = [role |-> "user", blocks |-> <<Wire!Part("tool_result", <<CallerOf(i), m.call>>)>>]
    BY <1>3, <1>9, Zenon DEF Wire!Result
  <2>3. WireTurn(i) = [role |-> "user", blocks |-> <<Wire!Part("tool_result", <<CallerOf(i), m.call>>)>>]
    BY <1>9 DEF WireTurn, ResultBlock, m
  <2> QED BY <2>1, <2>2, <2>3, Zenon DEF r
<1>10. CASE m.role = "assistant" /\ m.calls # 0
  <2>1. Wire!Translated(r) = <<Wire!Calling(r)>>
    BY <1>3, <1>4, <1>10 DEF Wire!Translated
  <2>2. Wire!Calling(r) = [role |-> "assistant", blocks |-> TextBlocks(i) \o UseBlocks(i)]
    BY <1>3, <1>6, <1>7, Zenon DEF Wire!Calling
  <2>3. WireTurn(i) = [role |-> "assistant", blocks |-> TextBlocks(i) \o UseBlocks(i)]
    BY <1>10 DEF WireTurn, m
  <2> QED BY <2>1, <2>2, <2>3, Zenon DEF r
<1>11. CASE m.role = "assistant" /\ m.calls = 0
  <2>1. Wire!Translated(r) = <<Wire!Speaking(r)>>
    BY <1>3, <1>4, <1>11 DEF Wire!Translated
  <2>2. Wire!Speaking(r) = [role |-> "assistant", blocks |-> TextBlocks(i)]
    BY <1>3, <1>8, <1>11, Zenon DEF Wire!Speaking
  <2>3. UseBlocks(i) = <<>> /\ TextBlocks(i) \o <<>> = TextBlocks(i)
    <3>1. UseBlocks(i) = <<>>
      BY <1>11 DEF UseBlocks, m
    <3> QED BY <1>1, <3>1, ConcatEmptySeq
  <2>4. WireTurn(i) = [role |-> "assistant", blocks |-> TextBlocks(i) \o UseBlocks(i)]
    BY <1>11 DEF WireTurn, m
  <2> QED BY <2>1, <2>2, <2>3, <2>4, Zenon DEF r
<1>12. CASE m.role = "user"
  <2>1. Wire!Translated(r) = <<Wire!Speaking(r)>>
    BY <1>3, <1>12 DEF Wire!Translated
  <2>2. Wire!Speaking(r) = [role |-> "user", blocks |-> TextBlocks(i)]
    BY <1>3, <1>8, <1>12, Zenon DEF Wire!Speaking
  <2>3. WireTurn(i) = [role |-> "user", blocks |-> TextBlocks(i)]
    BY <1>12 DEF WireTurn, m
  <2> QED BY <2>1, <2>2, <2>3, Zenon DEF r
<1> QED BY <1>1, <1>9, <1>10, <1>11, <1>12

\* What is appended can be told from what it is appended to.
Apart(s, e, u, f) == Append(s, e) = Append(u, f) => s = u /\ e = f

LEMMA AppendsApart ==
  ASSUME NEW S, NEW s \in Seq(S), NEW e \in S, NEW u \in Seq(S), NEW f \in S
  PROVE  Apart(s, e, u, f)
  BY AppendInjective DEF Apart

\* The whole of it, before its neighbours of one role are merged.
WireTurns == [i \in 1..Len(messages) |-> WireTurn(i)]

\* What a provider of the other wire is sent is the merge of the turns.
LEMMA ReplayMerges ==
  ASSUME messages \in Seq(Turn), Linked(messages)
  PROVE  /\ WireTurns \in Seq(Sent(Kinds, Names)) /\ Len(WireTurns) = Len(messages)
         /\ Replay = Wire!MergeAdjacentRoles(WireTurns)
<1> DEFINE n == Len(messages)
           S == Sent(Kinds, Names)
           rs == [i \in 1..n |-> Replayed(i)]
           ts == WireTurns
<1>1. n \in Nat
  BY LenProperties
<1>2. \A i \in 1..n : WireTurn(i) \in S
  BY PartsOfWireTurn
<1>3. ts \in Seq(S) /\ Len(ts) = n /\ \A i \in 1..n : ts[i] = WireTurn(i)
  <2>1. ts = [i \in 1..n |-> WireTurn(i)]
    BY Zenon DEF WireTurns
  <2>2. ts \in [1..n -> S] /\ \A i \in 1..n : ts[i] = WireTurn(i)
    BY <1>2, <2>1, Zenon
  <2> HIDE DEF ts, n, S
  <2> QED BY <1>1, <2>2
<1>4. Len(rs) = n /\ \A i \in 1..n : rs[i] = Replayed(i)
  <2> HIDE DEF n
  <2> QED BY <1>1
<1>5. Replay = Wire!MergeAdjacentRoles(Wire!FlattenSeq([i \in 1..Len(rs) |-> Wire!Translated(rs[i])]))
  BY Zenon DEF Replay, Wire!Messages
<1> HIDE DEF rs, ts, S
<1>6. [i \in 1..Len(rs) |-> Wire!Translated(rs[i])] = [i \in 1..Len(ts) |-> <<ts[i]>>]
  <2>1. \A i \in 1..n : Wire!Translated(Replayed(i)) = <<WireTurn(i)>>
    BY TranslatedTurn
  <2>2. \A i \in 1..n : Wire!Translated(rs[i]) = <<ts[i]>>
    BY <1>3, <1>4, <2>1, Zenon
  <2> HIDE DEF n
  <2> QED BY <1>3, <1>4, <2>2, Zenon
<1>7. Wire!FlattenSeq([i \in 1..Len(ts) |-> <<ts[i]>>]) = ts
  BY <1>3, FlatSingles
<1> QED BY <1>3, <1>5, <1>6, <1>7, Zenon DEF ts, S

\* All that was said is said there, in its order.
LEMMA ReplaySays ==
  ASSUME messages \in Seq(Turn), Linked(messages)
  PROVE  Wire!Said(WireTurns) = Wire!FlattenSeq([i \in 1..Len(messages) |->
           IF messages[i].said /\ messages[i].role # "tool" THEN <<i>> ELSE <<>>])
<1>1. Len(WireTurns) = Len(messages)
  BY ReplayMerges
<1>2. \A i \in 1..Len(messages) : Wire!IdsOf(WireTurns[i].blocks, "text") =
        IF messages[i].said /\ messages[i].role # "tool" THEN <<i>> ELSE <<>>
  <2>1. \A i \in 1..Len(messages) : WireTurns[i] = WireTurn(i)
    BY Zenon DEF WireTurns
  <2>2. \A i \in 1..Len(messages) : Wire!IdsOf(WireTurn(i).blocks, "text") =
        IF messages[i].said /\ messages[i].role # "tool" THEN <<i>> ELSE <<>>
    BY PartsOfWireTurn
  <2> QED BY <2>1, <2>2, Zenon
<1> QED BY <1>1, <1>2, Zenon DEF Wire!Said

\* The first results of turn j, as one turn.
Results(j, r) ==
  [role |-> "user", blocks |-> [k \in 1..r |-> ResultBlock(j, k)]]

\* One result more, and what such a turn names.
LEMMA ResultsGrow ==
  ASSUME NEW j \in Nat, NEW r \in Nat
  PROVE  /\ Results(j, r) \in Sent(Kinds, Names) /\ Results(j, r).role = "user"
         /\ Results(j, 1) = [role |-> "user", blocks |-> <<ResultBlock(j, 1)>>]
         /\ [role |-> "user", blocks |-> Results(j, r).blocks \o <<ResultBlock(j, r + 1)>>] = Results(j, r + 1)
         /\ Wire!IdsOf(Results(j, r).blocks, "tool_result") = [k \in 1..r |-> <<j, k>>]
         /\ Wire!IdsOf(Results(j, r).blocks, "tool_use") = <<>>
         /\ \A k \in 1..r : Results(j, r).blocks[k].kind = "tool_result"
<1> DEFINE P == Parts(Kinds, Names)
           bs(q) == [k \in 1..q |-> ResultBlock(j, k)]
<1>1. \A k \in Nat : /\ ResultBlock(j, k) \in P /\ ResultBlock(j, k).kind = "tool_result"
                     /\ ResultBlock(j, k).id = <<j, k>>
  BY DEF ResultBlock, Wire!Part, Parts, Kinds, Names
<1>2. ASSUME NEW q \in Nat
      PROVE  bs(q) \in Seq(P) /\ Len(bs(q)) = q /\ \A k \in 1..q : bs(q)[k] = ResultBlock(j, k)
  <2>1. \A k \in 1..q : ResultBlock(j, k) \in P
    <3>1. \A k \in 1..q : k \in Nat
      OBVIOUS
    <3> QED BY <1>1, <3>1, Zenon
  <2>2. bs(q) \in [1..q -> P] /\ \A k \in 1..q : bs(q)[k] = ResultBlock(j, k)
    BY <2>1, Zenon
  <2> HIDE DEF bs, P
  <2> QED BY <2>2
<1>3. \A q : Results(j, q) = [role |-> "user", blocks |-> bs(q)]
  BY Zenon DEF Results
<1> HIDE DEF bs, P
<1>4. \A q : Results(j, q).role = "user" /\ Results(j, q).blocks = bs(q)
  BY <1>3
<1>5. Results(j, r) \in Sent(Kinds, Names)
  BY <1>2, <1>3 DEF Sent, Wire!Speakers, P
<1>6. bs(1) = <<ResultBlock(j, 1)>>
  <2>1. 1 \in Nat /\ 1 \in 1..1
    OBVIOUS
  <2>2. bs(1) \in Seq(P) /\ Len(bs(1)) = 1 /\ bs(1)[1] = ResultBlock(j, 1)
    BY <1>2, <2>1, Zenon
  <2> QED BY <2>2
<1>7. bs(r) \o <<ResultBlock(j, r + 1)>> = bs(r + 1)
  <2> DEFINE x == ResultBlock(j, r + 1)
  <2>1. x \in P /\ r + 1 \in Nat
    BY <1>1
  <2> HIDE DEF x
  <2>2. bs(r) \o <<x>> = Append(bs(r), x)
    BY <1>2, <2>1, AppendIsConcat
  <2>3. /\ Append(bs(r), x) \in Seq(P) /\ Len(Append(bs(r), x)) = r + 1
        /\ \A k \in 1..r : Append(bs(r), x)[k] = bs(r)[k]
        /\ Append(bs(r), x)[r + 1] = x
    BY <1>2, <2>1, AppendProperties
  <2>4. bs(r + 1) \in Seq(P) /\ Len(bs(r + 1)) = r + 1
        /\ \A k \in 1..(r + 1) : bs(r + 1)[k] = ResultBlock(j, k)
    BY <1>2, <2>1
  <2>5. \A k \in 1..(r + 1) : Append(bs(r), x)[k] = bs(r + 1)[k]
    <3>1. \A k \in 1..(r + 1) : k = r + 1 \/ k \in 1..r
      OBVIOUS
    <3> QED BY <1>2, <2>3, <2>4, <3>1, Zenon DEF x
  <2>6. Append(bs(r), x) = bs(r + 1)
    BY <2>3, <2>4, <2>5, SeqEqual
  <2> QED BY <2>2, <2>6, Zenon DEF x
<1>8. \A k \in 1..r : bs(r)[k].kind = "tool_result" /\ bs(r)[k].id = <<j, k>>
  <2>1. \A k \in 1..r : k \in Nat
    OBVIOUS
  <2> QED BY <1>1, <1>2, <2>1, Zenon
<1>9. Wire!IdsOf(bs(r), "tool_result") = [k \in 1..r |-> <<j, k>>]
  <2>1. Wire!IdsOf(bs(r), "tool_result") = [k \in 1..Len(bs(r)) |-> bs(r)[k].id]
    BY <1>2, <1>8, IdsUniform DEF P
  <2> QED BY <1>2, <1>8, <2>1, Zenon
<1>10. Wire!IdsOf(bs(r), "tool_use") = <<>>
  <2>1. \A k \in 1..Len(bs(r)) : bs(r)[k].kind # "tool_use"
    BY <1>2, <1>8
  <2> QED BY <1>2, <2>1, IdsUniform DEF P
<1> QED BY <1>3, <1>4, <1>5, <1>6, <1>7, <1>8, <1>9, <1>10, Zenon

\* The results of a turn follow it as one turn of the user.
LEMMA ResultsFollow ==
  ASSUME messages \in Seq(Turn), Linked(messages), NEW out, MergesTo(out, WireTurns),
         NEW j \in 1..Len(messages), messages[j].role = "assistant"
  PROVE  \A r \in Nat : r # 0 /\ j + r <= Len(messages) /\ r <= messages[j].calls
                          => out[j + r] = Append(out[j], Results(j, r))
<1> DEFINE n == Len(messages)
           S == Sent(Kinds, Names)
           T == { r \in Nat : r # 0 /\ j + r <= n /\ r <= messages[j].calls
                                => out[j + r] = Append(out[j], Results(j, r)) }
<1>1. n \in Nat /\ j \in Nat /\ Len(WireTurns) = n /\ WireTurns \in Seq(S)
      /\ \A i \in 1..n : WireTurns[i] = WireTurn(i)
  <2>1. \A i \in 1..n : WireTurns[i] = WireTurn(i)
    BY Zenon DEF WireTurns
  <2>2. Len(WireTurns) = n /\ WireTurns \in Seq(S)
    BY ReplayMerges
  <2> QED BY <2>1, <2>2, LenProperties
<1>2. PICK said : \A k \in 0..n : MergedWell(Kinds, Names, out, WireTurns, k, said[k])
  <2>1. \E said : \A k \in 0..Len(WireTurns) : MergedWell(Kinds, Names, out, WireTurns, k, said[k])
    BY <1>1, MergedStepByStep
  <2> QED BY <1>1, <2>1
<1>3. \A k \in 1..n : out[k] = Wire!Joined(out[k - 1], WireTurn(k))
  BY <1>1, Zenon DEF MergesTo
<1>4. out[j] \in Seq(S) /\ out[j] # <<>> /\ out[j][Len(out[j])].role = "assistant"
  <2>1. j \in 0..n /\ j # 0 /\ "assistant" # "tool"
    BY <1>1
  <2>2. WireTurn(j).role = "assistant"
    <3>1. WireTurn(j).role = IF messages[j].role = "tool" THEN "user" ELSE messages[j].role
      BY PartsOfWireTurn
    <3> QED BY <3>1
  <2>3. MergedWell(Kinds, Names, out, WireTurns, j, said[j])
    BY <1>2, <2>1
  <2> QED BY <1>1, <2>1, <2>2, <2>3, Zenon DEF MergedWell
<1>5. 0 \in T
  OBVIOUS
<1>6. ASSUME NEW r \in Nat, r \in T, j + (r + 1) <= n, r + 1 <= messages[j].calls
      PROVE  out[j + (r + 1)] = Append(out[j], Results(j, r + 1))
  <2> DEFINE i == j + (r + 1)
             t == WireTurn(i)
             b == ResultBlock(j, r + 1)
  <2>1. /\ i \in 1..n /\ j \in 1..(i - 1) /\ i - j = r + 1 /\ i - 1 = j + r /\ r + 1 \in Nat
        /\ j + r \in 0..n
    BY <1>1, <1>6
  <2>2. messages[i].role = "tool" /\ messages[i].call = r + 1 /\ CallerOf(i) = j
    <3>1. Calls(messages, j, i)
      BY <1>6, <2>1 DEF Calls
    <3> HIDE DEF i
    <3> QED BY <2>1, <3>1, CallerOfResult
  <2>3. t = [role |-> "user", blocks |-> <<b>>]
    BY <2>2 DEF WireTurn
  <2>4. out[i] = Wire!Joined(out[j + r], t)
    BY <1>3, <2>1, Zenon
  <2>5. out[j + r] \in Seq(S) /\ t \in S /\ t.role = "user" /\ t.blocks = <<b>>
    <3>1. out[j + r] \in Seq(S)
      BY <1>2, <2>1, Zenon DEF MergedWell
    <3>2. t \in S
      <4> HIDE DEF i, t, S
      <4> QED BY <2>1, PartsOfWireTurn DEF t, S
    <3>3. t.role = "user" /\ t.blocks = <<b>>
      <4> HIDE DEF t, b
      <4> QED BY <2>3
    <3> QED BY <3>1, <3>2, <3>3
  <2>6. \/ Behind(out[j + r], t)
        \/ \E front \in Seq(S), last \in S : Into(front, last, out[j + r], t)
    <3>1. \A o \in Seq(S) : \A u \in S : Behind(o, u) \/ \E front \in Seq(S), last \in S : Into(front, last, o, u)
      BY JoinedCases
    <3> QED BY <2>5, <3>1, Zenon
  <2> HIDE DEF i, t, b, S
  <2>7. CASE r = 0
    <3>1. j + r = j /\ r + 1 = 1
      BY <1>1, <2>7
    <3>2. Results(j, 1) = t
      <4>1. Results(j, 1) = [role |-> "user", blocks |-> <<ResultBlock(j, 1)>>]
        BY <1>1, ResultsGrow
      <4> QED BY <2>3, <3>1, <4>1, Zenon DEF b
    <3>3. ASSUME NEW front \in Seq(S), NEW last \in S, Into(front, last, out[j], t)
          PROVE  FALSE
      <4>1. out[j] = Append(front, last) /\ last.role = "user"
        BY <2>5, <3>3, Zenon DEF Into
      <4>2. Len(Append(front, last)) = Len(front) + 1 /\ Append(front, last)[Len(front) + 1] = last
        BY AppendProperties
      <4>3. out[j][Len(out[j])].role = "user"
        BY <4>1, <4>2, Zenon
      <4> QED BY <1>4, <4>3
    <3>4. Behind(out[j], t)
      BY <2>6, <3>1, <3>3
    <3>5. out[i] = Append(out[j], t)
      BY <2>4, <3>1, <3>4, Zenon DEF Behind
    <3> QED BY <3>1, <3>2, <3>5 DEF i
  <2>8. CASE r # 0
    <3>1. out[j + r] = Append(out[j], Results(j, r))
      <4>1. j + r <= n /\ r <= messages[j].calls
        <5>1. messages[j].calls \in Nat
          <6>1. messages[j] \in Turn
            BY ElementOfSeq
          <6> QED BY <6>1 DEF Turn
        <5> QED BY <1>1, <1>6, <5>1
      <4> QED BY <1>6, <2>8, <4>1
    <3>2. Results(j, r) \in S /\ Results(j, r).role = "user"
          /\ [role |-> "user", blocks |-> Results(j, r).blocks \o <<b>>] = Results(j, r + 1)
      BY <1>1, <1>6, ResultsGrow DEF S, b
    <3>3. /\ Append(out[j], Results(j, r)) # <<>>
          /\ Append(out[j], Results(j, r))[Len(Append(out[j], Results(j, r)))] = Results(j, r)
      <4>1. \A o \in Seq(S) : \A x \in S :
              Append(o, x) # <<>> /\ Len(Append(o, x)) = Len(o) + 1 /\ Append(o, x)[Len(o) + 1] = x
        BY AppendProperties
      <4> QED BY <1>4, <3>2, <4>1, Zenon
    <3>4. ~Behind(out[j + r], t)
      BY <2>5, <3>1, <3>2, <3>3, Zenon DEF Behind
    <3>5. PICK front \in Seq(S), last \in S : Into(front, last, out[j + r], t)
      BY <2>6, <3>4
    <3>6. Append(front, last) = Append(out[j], Results(j, r)) /\ last.role = "user"
          /\ out[i] = Append(front, [role |-> "user", blocks |-> last.blocks \o <<b>>])
      BY <2>4, <2>5, <3>1, <3>5, Zenon DEF Into
    <3>7. front = out[j] /\ last = Results(j, r)
      <4>1. out[j] \in Seq(S)
        BY <1>4
      <4>2. Apart(front, last, out[j], Results(j, r))
        BY <3>2, <3>5, <4>1, AppendsApart, Zenon
      <4> QED BY <3>6, <4>2, Zenon DEF Apart
    <3> QED BY <3>2, <3>6, <3>7, Zenon DEF i
  <2> QED BY <2>7, <2>8
<1>7. Nat \subseteq T
  <2>1. ASSUME NEW r \in Nat, r \in T PROVE r + 1 \in T
    <3>1. r + 1 # 0 /\ r + 1 \in Nat
      OBVIOUS
    <3> QED BY <1>6, <2>1, <3>1
  <2> HIDE DEF T
  <2> QED BY <1>5, <2>1, InductionOnNat
<1> QED BY <1>7

\* Nothing is owed behind turn k.
ClosedAt(k) == \A j \in 1..k : ~Calls(messages, j, k + 1)

\* Wherever nothing is owed, what is merged answers all its calls.
LEMMA ReplayAnswers ==
  ASSUME messages \in Seq(Turn), Linked(messages), NEW out, MergesTo(out, WireTurns)
  PROVE  \A k \in 0..Len(messages) : ClosedAt(k) => AnsweredBut(out[k], <<>>)
<1> DEFINE n == Len(messages)
           S == Sent(Kinds, Names)
           Fine(l) == l <= n /\ ClosedAt(l) => AnsweredBut(out[l], <<>>)
           T == { k \in Nat : \A l \in 0..k : Fine(l) }
<1>1. n \in Nat /\ Len(WireTurns) = n /\ WireTurns \in Seq(S)
      /\ \A i \in 1..n : WireTurns[i] = WireTurn(i)
  <2>1. \A i \in 1..n : WireTurns[i] = WireTurn(i)
    BY Zenon DEF WireTurns
  <2>2. Len(WireTurns) = n /\ WireTurns \in Seq(S)
    BY ReplayMerges
  <2> QED BY <2>1, <2>2, LenProperties
<1>2. PICK said : \A k \in 0..n : MergedWell(Kinds, Names, out, WireTurns, k, said[k])
  <2>1. \E said : \A k \in 0..Len(WireTurns) : MergedWell(Kinds, Names, out, WireTurns, k, said[k])
    BY <1>1, MergedStepByStep
  <2> QED BY <1>1, <2>1
<1>3. out[0] = <<>> /\ \A k \in 1..n : out[k] = Wire!Joined(out[k - 1], WireTurn(k))
  BY <1>1, Zenon DEF MergesTo
<1>4. \A k \in 0..n : out[k] \in Seq(S)
  BY <1>2, Zenon DEF MergedWell
<1>5. \A i \in 1..n : /\ messages[i] \in Turn /\ messages[i].role \in {"user", "assistant", "tool"}
                      /\ messages[i].calls \in Nat
  <2>1. \A i \in 1..n : messages[i] \in Turn
    BY ElementOfSeq
  <2> QED BY <2>1 DEF Turn
\* A turn that answers nothing, where nothing is owed.
<1>6. ASSUME NEW i \in 1..n, messages[i].role # "tool", AnsweredBut(out[i - 1], <<>>)
      PROVE  AnsweredBut(out[i], Wire!IdsOf(WireTurn(i).blocks, "tool_use"))
  <2>1. WireTurn(i) \in S /\ Wire!IdsOf(WireTurn(i).blocks, "tool_result") = <<>>
    BY <1>6, PartsOfWireTurn
  <2>2. i - 1 \in 0..n
    BY <1>1
  <2>3. AnsweredBut(Wire!Joined(out[i - 1], WireTurn(i)), Wire!IdsOf(WireTurn(i).blocks, "tool_use"))
    <3>1. out[i - 1] \in Seq(S)
      BY <1>4, <2>2
    <3> QED BY <1>6, <2>1, <3>1, JoinedOwes
  <2> QED BY <1>3, <2>3, Zenon
<1>7. ASSUME NEW i \in 1..n, messages[i].role # "tool" PROVE ClosedAt(i - 1)
  <2>1. \A j \in 1..(i - 1) : ~Calls(messages, j, i)
    BY <1>7 DEF Linked
  <2>2. (i - 1) + 1 = i
    BY <1>1
  <2> QED BY <2>1, <2>2 DEF ClosedAt
<1>8. 0 \in T
  <2>1. AnsweredBut(<<>>, <<>>)
    <3>1. Len(<<>>) = 0
      BY EmptySeq
    <3>2. 0 \notin 1..0 /\ 0..(0 - 1) = {}
      OBVIOUS
    <3> QED BY <3>1, <3>2 DEF AnsweredBut, Wire!Ids
  <2>2. Fine(0)
    BY <1>3, <2>1
  <2>3. \A l \in 0..0 : l = 0
    OBVIOUS
  <2> HIDE DEF Fine
  <2> QED BY <2>2, <2>3
<1>9. ASSUME NEW k \in Nat, k \in T PROVE k + 1 \in T
  <2> DEFINE i == k + 1
  <2>1. SUFFICES ASSUME i <= n, ClosedAt(i) PROVE AnsweredBut(out[i], <<>>)
    <3>1. Fine(k + 1)
      BY <2>1
    <3>2. \A l \in 0..(k + 1) : l = k + 1 \/ l \in 0..k
      OBVIOUS
    <3>3. \A l \in 0..k : Fine(l)
      <4> HIDE DEF Fine
      <4> QED BY <1>9
    <3> HIDE DEF Fine
    <3> QED BY <3>1, <3>2, <3>3
  <2>2. i \in 1..n /\ i - 1 = k /\ k <= n /\ k \in 0..k
    BY <1>1, <2>1
  <2>3. \A l \in 0..k : Fine(l)
    <3> HIDE DEF Fine
    <3> QED BY <1>9
  <2>4. CASE messages[i].role # "tool"
    <3>1. AnsweredBut(out[i - 1], <<>>)
      <4>1. ClosedAt(k)
        BY <1>7, <2>2, <2>4
      <4> QED BY <2>2, <2>3, <4>1
    <3>2. AnsweredBut(out[i], Wire!IdsOf(WireTurn(i).blocks, "tool_use"))
      <4> HIDE DEF i
      <4> QED BY <1>6, <2>2, <2>4, <3>1
    <3>3. messages[i].role = "assistant" => messages[i].calls = 0
      <4>1. ~Calls(messages, i, i + 1)
        BY <2>1, <2>2 DEF ClosedAt
      <4>2. i < i + 1 /\ (i + 1) - i = 1 /\ messages[i].calls \in Nat
        BY <1>5, <2>2
      <4> HIDE DEF i
      <4> QED BY <4>1, <4>2 DEF Calls
    <3>4. Wire!IdsOf(WireTurn(i).blocks, "tool_use") = <<>>
      <4>1. Wire!IdsOf(WireTurn(i).blocks, "tool_use") =
              IF messages[i].role = "assistant" THEN [q \in 1..messages[i].calls |-> <<i, q>>] ELSE <<>>
        <5> HIDE DEF i
        <5> QED BY <2>2, PartsOfWireTurn
      <4>2. [q \in 1..0 |-> <<i, q>>] = <<>>
        OBVIOUS
      <4> HIDE DEF i
      <4> QED BY <3>3, <4>1, <4>2, Zenon
    <3> QED BY <3>2, <3>4
  <2>5. CASE messages[i].role = "tool"
    <3> DEFINE j == CallerOf(i)
               r == i - j
               us == [q \in 1..messages[j].calls |-> <<j, q>>]
    <3>1. j \in 1..(i - 1) /\ Calls(messages, j, i)
      <4> HIDE DEF i
      <4> QED BY <2>2, <2>5, ResultHasCaller
    <3> HIDE DEF j
    <3>2. j \in 1..n /\ messages[j].role = "assistant" /\ messages[j].role # "tool"
          /\ j \in Nat /\ j - 1 \in 0..k /\ j - 1 <= n
      BY <1>1, <2>2, <3>1 DEF Calls
    <3>3. r = messages[j].calls /\ r \in Nat /\ r # 0 /\ j + r = i
      <4>1. ~Calls(messages, j, i + 1)
        <5>1. j \in 1..i
          BY <2>2, <3>1
        <5> QED BY <2>1, <5>1 DEF ClosedAt
      <4>2. messages[j].calls \in Nat
        BY <1>5, <3>2
      <4> QED BY <2>2, <3>1, <4>1, <4>2 DEF Calls
    <3>4. AnsweredBut(out[j], us)
      <4>1. AnsweredBut(out[j - 1], <<>>)
        <5>1. ClosedAt(j - 1)
          BY <1>7, <3>2
        <5> QED BY <2>3, <3>2, <5>1
      <4>2. AnsweredBut(out[j], Wire!IdsOf(WireTurn(j).blocks, "tool_use"))
        BY <1>6, <3>2, <4>1
      <4>3. Wire!IdsOf(WireTurn(j).blocks, "tool_use") = us
        <5>1. Wire!IdsOf(WireTurn(j).blocks, "tool_use") =
                IF messages[j].role = "assistant" THEN [q \in 1..messages[j].calls |-> <<j, q>>] ELSE <<>>
          BY <3>2, PartsOfWireTurn
        <5> QED BY <3>2, <5>1, Zenon
      <4> QED BY <4>2, <4>3
    <3>5. out[i] = Append(out[j], Results(j, r))
      <4>1. \A q \in Nat : q # 0 /\ j + q <= Len(messages) /\ q <= messages[j].calls
                             => out[j + q] = Append(out[j], Results(j, q))
        BY <3>2, ResultsFollow
      <4>2. j + r <= Len(messages) /\ r <= messages[j].calls
        BY <2>2, <3>3
      <4> HIDE DEF r, i
      <4> QED BY <3>3, <4>1, <4>2
    <3> HIDE DEF r, i
    <3>6. /\ Results(j, r) \in S
          /\ Wire!IdsOf(Results(j, r).blocks, "tool_result") = [q \in 1..r |-> <<j, q>>]
          /\ Wire!IdsOf(Results(j, r).blocks, "tool_use") = <<>>
          /\ \A q \in 1..r : Results(j, r).blocks[q].kind = "tool_result"
      BY <3>2, <3>3, ResultsGrow
    <3>7. us = [q \in 1..r |-> <<j, q>>] /\ Len(us) = r
      <4>1. us = [q \in 1..r |-> <<j, q>>]
        BY <3>3, Zenon
      <4> HIDE DEF us
      <4> QED BY <3>3, <4>1
    <3> HIDE DEF us, S
    <3>8. Replies(Results(j, r), us)
      BY <3>6, <3>7, Zenon DEF Replies
    <3>9. AnsweredBut(Append(out[j], Results(j, r)), <<>>)
      <4>1. j \in 0..n
        BY <3>2
      <4>2. out[j] \in Seq(S)
        BY <1>4, <4>1
      <4> QED BY <3>4, <3>6, <3>8, <4>2, RepliesClose
    <3> QED BY <3>5, <3>9
  <2> QED BY <2>4, <2>5
<1>10. Nat \subseteq T
  <2> HIDE DEF T
  <2> QED BY <1>8, <1>9, InductionOnNat
<1> QED BY <1>10

\* A conversation that is linked and owes nothing survives the change of the wire.
LEMMA LinkedIsFaithful ==
  ASSUME messages \in Seq(Turn), Linked(messages), Closed(messages)
  PROVE  ReplayIsFaithful
<1> DEFINE n == Len(messages)
           S == Sent(Kinds, Names)
<1>1. /\ WireTurns \in Seq(S) /\ Len(WireTurns) = n
      /\ Replay = Wire!MergeAdjacentRoles(WireTurns)
  BY ReplayMerges
<1>2. Wire!Alternates(Replay) /\ Wire!Said(Replay) = Wire!Said(WireTurns)
  <2>1. \A ts \in Seq(S) : /\ Wire!Alternates(Wire!MergeAdjacentRoles(ts))
                           /\ Wire!Said(Wire!MergeAdjacentRoles(ts)) = Wire!Said(ts)
    BY MergedIsFaithful
  <2> QED BY <1>1, <2>1, Zenon
<1>3. Wire!AnsweredAtOnce(Replay)
  <2>1. PICK out : MergesTo(out, WireTurns)
    BY <1>1, MergedInOrder
  <2>2. n \in 0..n /\ ClosedAt(n)
    <3>1. n \in Nat
      BY LenProperties
    <3> QED BY <3>1 DEF ClosedAt, Closed
  <2>3. AnsweredBut(out[n], <<>>)
    BY <2>1, <2>2, ReplayAnswers
  <2>4. Replay = out[n]
    BY <1>1, <2>1, Zenon DEF MergesTo
  <2>5. Len(Replay) \in Nat
    <3>1. PICK said : \A k \in 0..Len(WireTurns) : MergedWell(Kinds, Names, out, WireTurns, k, said[k])
      BY <1>1, <2>1, MergedStepByStep
    <3>2. out[n] \in Seq(S)
      BY <1>1, <2>2, <3>1, Zenon DEF MergedWell
    <3> QED BY <2>4, <3>2, LenProperties
  <2> QED BY <2>3, <2>4, <2>5, AnsweredButNothing
<1> QED BY <1>2, <1>3, ReplaySays, Zenon DEF ReplayIsFaithful

\* runTools: a conversation that goes to a provider, to stopWhen or back to the caller
\* answers each tool call once, in the order of the calls and right behind the turn
\* that made them, over any number of runs fed from one another; and a request says the
\* same on the Anthropic wire, where toAnthropicMessagesRequest merges the turns of one
\* role: the results of a turn open the turn behind it, in the order of its calls and
\* before what the user adds, and all that was said is there, in its order.
THEOREM RunToolsConversation == Spec => []ConversationIsWellFormed
<1>1. IInv => ConversationIsWellFormed
  BY LinkedIsAnswered, LinkedIsFaithful DEF IInv, TypeOK, Owes, ConversationIsWellFormed
<1> QED BY <1>1, InvHolds, PTL

-----------------------------------------------------------------------------
\* Any conversation on the Messages wire, of the loop or of a caller.

\* What each of the elements of a sequence becomes, in a row.
Flat(f, s) == Wire!FlattenSeq([i \in 1..Len(s) |-> f[s[i]]])

\* One element more: what it becomes follows.
OneByOne(S, E, f) ==
  /\ Flat(f, <<>>) = <<>>
  /\ \A s \in Seq(S) : Flat(f, s) \in Seq(E)
  /\ \A s \in Seq(S), x \in S : Flat(f, Append(s, x)) = Flat(f, s) \o f[x]
  /\ \A x \in S : Flat(f, <<x>>) = f[x]

LEMMA FlatGrows ==
  ASSUME NEW S, NEW E, NEW f \in [S -> Seq(E)]
  PROVE  OneByOne(S, E, f)
<1> DEFINE Row(r) == [i \in 1..Len(r) |-> f[r[i]]]
<1>1. \A r \in Seq(S) : Row(r) \in Seq(Seq(E)) /\ Len(Row(r)) = Len(r)
  <2> TAKE r \in Seq(S)
  <2>1. Len(r) \in Nat /\ \A i \in 1..Len(r) : r[i] \in S
    BY LenProperties, ElementOfSeq
  <2> DEFINE row == Row(r)
  <2>2. row \in [1..Len(r) -> Seq(E)]
    BY <2>1
  <2> HIDE DEF row
  <2> DEFINE n == Len(r)
             Rows == Seq(E)
  <2>3. n \in Nat /\ row \in [1..n -> Rows]
    BY <2>1, <2>2
  <2> HIDE DEF n, Rows
  <2>4. row \in Seq(Rows) /\ Len(row) = n
    BY <2>3
  <2> QED BY <2>4 DEF row, n, Rows
<1>2. \A ss \in Seq(Seq(E)) : \A x \in Seq(E) :
         Wire!FlattenSeq(Append(ss, x)) = Wire!FlattenSeq(ss) \o x /\ Wire!FlattenSeq(ss) \in Seq(E)
  BY FlatAppend, Zenon
<1>3. \A x \in Seq(E) : Wire!FlattenSeq(<<>>) = <<>> /\ Wire!FlattenSeq(<<x>>) = x
  BY FlatSmall, Zenon
<1>4. \A r : Flat(f, r) = Wire!FlattenSeq(Row(r))
  BY Zenon DEF Flat
<1>5. ASSUME NEW s \in Seq(S), NEW x \in S PROVE Row(Append(s, x)) = Append(Row(s), f[x])
  <2>1. /\ Append(s, x) \in Seq(S) /\ Len(Append(s, x)) = Len(s) + 1 /\ Len(s) \in Nat
        /\ \A i \in 1..Len(s) : Append(s, x)[i] = s[i]
        /\ Append(s, x)[Len(s) + 1] = x
    BY AppendProperties, LenProperties
  <2>2. f[x] \in Seq(E) /\ Row(s) \in Seq(Seq(E)) /\ Len(Row(s)) = Len(s)
    <3> HIDE DEF Row
    <3> QED BY <1>1
  <2>3. Row(Append(s, x)) \in Seq(Seq(E)) /\ Len(Row(Append(s, x))) = Len(s) + 1
    <3> HIDE DEF Row
    <3> QED BY <1>1, <2>1
  <2>4. /\ Append(Row(s), f[x]) \in Seq(Seq(E)) /\ Len(Append(Row(s), f[x])) = Len(s) + 1
        /\ \A i \in 1..Len(s) : Append(Row(s), f[x])[i] = Row(s)[i]
        /\ Append(Row(s), f[x])[Len(s) + 1] = f[x]
    <3> HIDE DEF Row
    <3> QED BY <2>2, AppendProperties
  <2>5. /\ \A i \in 1..Len(s) : Row(s)[i] = f[s[i]]
        /\ \A i \in 1..(Len(s) + 1) : Row(Append(s, x))[i] = f[Append(s, x)[i]]
    BY <2>1
  <2> HIDE DEF Row
  <2>6. \A i \in 1..(Len(s) + 1) : Row(Append(s, x))[i] = Append(Row(s), f[x])[i]
    <3> TAKE i \in 1..(Len(s) + 1)
    <3>1. i = Len(s) + 1 \/ i \in 1..Len(s)
      BY <2>1
    <3> QED BY <2>1, <2>4, <2>5, <3>1, Zenon
  <2> QED BY <2>3, <2>4, <2>6, SeqEqual
<1>6. Flat(f, <<>>) = <<>>
  <2>1. Row(<<>>) = <<>>
    OBVIOUS
  <2>2. Wire!FlattenSeq(<<>>) = <<>>
    BY <1>3, EmptySeq
  <2> QED BY <1>4, <2>1, <2>2, Zenon
<1>7. ASSUME NEW x \in S PROVE Flat(f, <<x>>) = f[x]
  <2>1. Row(<<x>>) = <<f[x]>>
    OBVIOUS
  <2>2. f[x] \in Seq(E)
    OBVIOUS
  <2> QED BY <1>3, <1>4, <2>1, <2>2, Zenon
<1> HIDE DEF Row
<1>8. ASSUME NEW s \in Seq(S) PROVE Flat(f, s) \in Seq(E)
  <2>1. Row(s) \in Seq(Seq(E)) /\ <<>> \in Seq(E)
    BY <1>1, EmptySeq
  <2> QED BY <1>2, <1>4, <2>1, Zenon
<1>9. ASSUME NEW s \in Seq(S), NEW x \in S PROVE Flat(f, Append(s, x)) = Flat(f, s) \o f[x]
  <2>1. Row(s) \in Seq(Seq(E)) /\ f[x] \in Seq(E)
    BY <1>1
  <2>2. Flat(f, Append(s, x)) = Wire!FlattenSeq(Append(Row(s), f[x]))
    BY <1>4, <1>5, Zenon
  <2>3. Wire!FlattenSeq(Append(Row(s), f[x])) = Wire!FlattenSeq(Row(s)) \o f[x]
    BY <1>2, <2>1, Zenon
  <2> QED BY <1>4, <2>2, <2>3, Zenon
<1> QED BY <1>6, <1>7, <1>8, <1>9 DEF OneByOne

\* A set that holds the empty sequence, and every sequence one longer than one it holds,
\* holds every sequence.
LEMMA InductionOnSeq ==
  ASSUME NEW S, NEW T, <<>> \in T, \A s \in Seq(S), x \in S : s \in T => Append(s, x) \in T
  PROVE  Seq(S) \subseteq T
<1> DEFINE U == { n \in Nat : \A s \in Seq(S) : Len(s) = n => s \in T }
<1>1. 0 \in U
  BY EmptySeq
<1>2. ASSUME NEW n \in Nat, n \in U PROVE n + 1 \in U
  <2>1. ASSUME NEW s \in Seq(S), Len(s) = n + 1 PROVE s \in T
    <3>1. s # <<>>
      BY <2>1, EmptySeq
    <3>2. PICK front \in Seq(S), x \in S : s = Append(front, x)
      BY <3>1, SequenceEmptyOrAppend
    <3>3. Len(front) = n
      BY <2>1, <3>2, AppendProperties, LenProperties
    <3> QED BY <1>2, <3>2, <3>3
  <2> QED BY <2>1
<1> HIDE DEF U
<1>3. Nat \subseteq U
  BY <1>1, <1>2, InductionOnNat
<1> QED BY <1>3, LenProperties DEF U

\* What two rows become, and a row of rows.
InRow(S, f) == \A a, b \in Seq(S) : Flat(f, a \o b) = Flat(f, a) \o Flat(f, b)

LEMMA FlatOfConcat ==
  ASSUME NEW S, NEW E, NEW f \in [S -> Seq(E)]
  PROVE  InRow(S, f)
<1> SUFFICES ASSUME NEW a \in Seq(S)
             PROVE  \A b \in Seq(S) : Flat(f, a \o b) = Flat(f, a) \o Flat(f, b)
  BY Zenon DEF InRow
<1> DEFINE T == { s \in Seq(S) : Flat(f, a \o s) = Flat(f, a) \o Flat(f, s) }
<1>0. OneByOne(S, E, f)
  BY FlatGrows
<1>1. \A s \in Seq(S) : Flat(f, s) \in Seq(E)
  BY <1>0 DEF OneByOne
<1>2. \A s \in Seq(S), x \in S : Flat(f, Append(s, x)) = Flat(f, s) \o f[x]
  BY <1>0 DEF OneByOne
<1>3. Flat(f, <<>>) = <<>>
  BY <1>0 DEF OneByOne
<1>4. <<>> \in T
  <2>1. a \o <<>> = a /\ Flat(f, a) \o <<>> = Flat(f, a) /\ <<>> \in Seq(S)
    BY <1>1, ConcatEmptySeq, EmptySeq
  <2>2. Flat(f, a \o <<>>) = Flat(f, a) \o Flat(f, <<>>)
    BY <1>3, <2>1, Zenon
  <2> QED BY <2>1, <2>2
<1>5. ASSUME NEW s \in Seq(S), NEW x \in S, s \in T PROVE Append(s, x) \in T
  <2>1. a \o Append(s, x) = Append(a \o s, x) /\ a \o s \in Seq(S) /\ Append(s, x) \in Seq(S)
    <3>1. Append(s, x) = s \o <<x>> /\ Append(a \o s, x) = (a \o s) \o <<x>> /\ a \o s \in Seq(S)
          /\ <<x>> \in Seq(S)
      BY AppendIsConcat, ConcatProperties
    <3>2. (a \o s) \o <<x>> = a \o (s \o <<x>>)
      BY <3>1, ConcatAssociative
    <3> QED BY <3>1, <3>2, AppendProperties
  <2>2. Flat(f, a \o Append(s, x)) = (Flat(f, a) \o Flat(f, s)) \o f[x]
    BY <1>2, <1>5, <2>1, Zenon
  <2>3. (Flat(f, a) \o Flat(f, s)) \o f[x] = Flat(f, a) \o (Flat(f, s) \o f[x])
    <3>1. ASSUME NEW p \in Seq(E), NEW q \in Seq(E), NEW r \in Seq(E)
          PROVE  (p \o q) \o r = p \o (q \o r)
      BY ConcatAssociative
    <3>2. f[x] \in Seq(E)
      OBVIOUS
    <3> QED BY <1>1, <3>1, <3>2, Zenon
  <2>4. Flat(f, a \o Append(s, x)) = Flat(f, a) \o Flat(f, Append(s, x))
    BY <1>2, <2>2, <2>3, Zenon
  <2> QED BY <2>1, <2>4
<1> HIDE DEF T
<1>6. Seq(S) \subseteq T
  BY <1>4, <1>5, InductionOnSeq
<1> QED BY <1>6, Zenon DEF T

Composed(S, E, F, f, g, h) ==
  /\ f \in [S -> Seq(E)] /\ g \in [E -> Seq(F)] /\ h \in [S -> Seq(F)]
  /\ \A x \in S : h[x] = Flat(g, f[x])

LEMMA FlatOfFlat ==
  ASSUME NEW S, NEW E, NEW F, NEW f, NEW g, NEW h, Composed(S, E, F, f, g, h), NEW s \in Seq(S)
  PROVE  Flat(g, Flat(f, s)) = Flat(h, s)
<1> DEFINE T == { r \in Seq(S) : Flat(g, Flat(f, r)) = Flat(h, r) }
<1>1. /\ f \in [S -> Seq(E)] /\ g \in [E -> Seq(F)] /\ h \in [S -> Seq(F)]
      /\ \A x \in S : h[x] = Flat(g, f[x])
  BY DEF Composed
<1>2. OneByOne(S, E, f) /\ OneByOne(E, F, g) /\ OneByOne(S, F, h)
  BY <1>1, FlatGrows
<1>3. \A p, q \in Seq(E) : Flat(g, p \o q) = Flat(g, p) \o Flat(g, q)
  <2>1. InRow(E, g)
    BY <1>1, FlatOfConcat, Zenon
  <2> QED BY <2>1, Zenon DEF InRow
<1>4. <<>> \in T
  <2>1. <<>> \in Seq(S)
    BY EmptySeq
  <2>2. Flat(g, Flat(f, <<>>)) = Flat(h, <<>>)
    BY <1>2, Zenon DEF OneByOne
  <2> QED BY <2>1, <2>2
<1>5. ASSUME NEW r \in Seq(S), NEW x \in S, r \in T PROVE Append(r, x) \in T
  <2>1. f[x] \in Seq(E) /\ Append(r, x) \in Seq(S)
    BY <1>1, AppendProperties
  <2>2. Flat(f, r) \in Seq(E) /\ Flat(f, Append(r, x)) = Flat(f, r) \o f[x]
    BY <1>2, Zenon DEF OneByOne
  <2>3. Flat(h, Append(r, x)) = Flat(h, r) \o h[x]
    BY <1>2, Zenon DEF OneByOne
  <2>4. Flat(g, Flat(f, r)) = Flat(h, r)
    BY <1>5
  <2>5. Flat(g, Flat(f, Append(r, x))) = Flat(h, Append(r, x))
    BY <1>1, <1>3, <2>1, <2>2, <2>3, <2>4, Zenon
  <2> QED BY <2>1, <2>5
<1> HIDE DEF T
<1>6. Seq(S) \subseteq T
  BY <1>4, <1>5, InductionOnSeq
<1> QED BY <1>6 DEF T

\* What becomes nothing is nothing in a row too.
LEMMA FlatOfNothing ==
  ASSUME NEW S, NEW f, \A x \in S : f[x] = <<>>, NEW s \in Seq(S)
  PROVE  Flat(f, s) = <<>>
<1>1. Len(s) \in Nat /\ \A i \in 1..Len(s) : f[s[i]] = <<>>
  BY LenProperties, ElementOfSeq
<1>2. [i \in 1..Len(s) |-> f[s[i]]] = [i \in 1..Len(s) |-> <<>>]
  BY <1>1, Zenon
<1>3. \A n \in Nat : Wire!FlattenSeq([i \in 1..n |-> <<>>]) = <<>>
  BY FlatNothing, Zenon
<1> QED BY <1>1, <1>2, <1>3, Zenon DEF Flat

-----------------------------------------------------------------------------
\* The parts of a message of some kinds, and the identities of those of one.
Chosen(P, kinds) == [p \in P |-> IF p.kind \in kinds THEN <<p>> ELSE <<>>]
Identity(P, kind) == [p \in P |-> IF p.kind = kind THEN <<p.id>> ELSE <<>>]

IsIn(P, V) == \A p \in P : p.id \in V

LEMMA PartsOneByOne ==
  ASSUME NEW P, NEW V, IsIn(P, V), NEW kinds, NEW kind
  PROVE  /\ \A b \in Seq(P) : Wire!Only(b, kinds) = Flat(Chosen(P, kinds), b)
         /\ \A b \in Seq(P) : Wire!IdsOf(b, kind) = Flat(Identity(P, kind), b)
         /\ OneByOne(P, P, Chosen(P, kinds)) /\ OneByOne(P, V, Identity(P, kind))
         /\ Chosen(P, kinds) \in [P -> Seq(P)]
         /\ Identity(P, kind) \in [P -> Seq(V)]
<1>1. ASSUME NEW b \in Seq(P) PROVE \A i \in 1..Len(b) : b[i] \in P
  BY ElementOfSeq
<1>2. \A p \in P : p.id \in V
  BY DEF IsIn
<1>3. ASSUME NEW b \in Seq(P) PROVE Wire!Only(b, kinds) = Flat(Chosen(P, kinds), b)
  <2>1. [k \in 1..Len(b) |-> IF b[k].kind \in kinds THEN <<b[k]>> ELSE <<>>]
          = [k \in 1..Len(b) |-> Chosen(P, kinds)[b[k]]]
    BY <1>1, Zenon DEF Chosen
  <2> QED BY <2>1, Zenon DEF Wire!Only, Flat
<1>4. ASSUME NEW b \in Seq(P) PROVE Wire!IdsOf(b, kind) = Flat(Identity(P, kind), b)
  <2>1. [k \in 1..Len(b) |-> IF b[k].kind = kind THEN <<b[k].id>> ELSE <<>>]
          = [k \in 1..Len(b) |-> Identity(P, kind)[b[k]]]
    BY <1>1, Zenon DEF Identity
  <2> QED BY <2>1, Zenon DEF Wire!IdsOf, Flat
<1>5. Chosen(P, kinds) \in [P -> Seq(P)]
  <2>1. \A p \in P : (IF p.kind \in kinds THEN <<p>> ELSE <<>>) \in Seq(P)
    BY EmptySeq
  <2> QED BY <2>1, Zenon DEF Chosen
<1>6. Identity(P, kind) \in [P -> Seq(V)]
  <2>1. \A p \in P : (IF p.kind = kind THEN <<p.id>> ELSE <<>>) \in Seq(V)
    BY <1>2, EmptySeq
  <2> QED BY <2>1, Zenon DEF Identity
<1>7. OneByOne(P, P, Chosen(P, kinds)) /\ OneByOne(P, V, Identity(P, kind))
  BY <1>5, <1>6, FlatGrows
<1> QED BY <1>3, <1>4, <1>5, <1>6, <1>7

\* What is left of the identities among the parts of some kinds: all of them or none.
LEMMA IdsOfOnly ==
  ASSUME NEW P, NEW V, IsIn(P, V), NEW kinds, NEW kind, NEW b \in Seq(P)
  PROVE  /\ Wire!Only(b, kinds) \in Seq(P) /\ Wire!IdsOf(b, kind) \in Seq(V)
         /\ Wire!IdsOf(Wire!Only(b, kinds), kind) = IF kind \in kinds THEN Wire!IdsOf(b, kind) ELSE <<>>
<1> DEFINE f == Chosen(P, kinds)
           g == Identity(P, kind)
           h == [p \in P |-> Flat(g, f[p])]
<1>1. /\ \A c \in Seq(P) : Wire!Only(c, kinds) = Flat(f, c)
      /\ \A c \in Seq(P) : Wire!IdsOf(c, kind) = Flat(g, c)
      /\ OneByOne(P, P, f) /\ OneByOne(P, V, g)
      /\ f \in [P -> Seq(P)] /\ g \in [P -> Seq(V)]
  BY PartsOneByOne
<1>2. /\ \A p \in P : f[p] = IF p.kind \in kinds THEN <<p>> ELSE <<>>
      /\ \A p \in P : g[p] = IF p.kind = kind THEN <<p.id>> ELSE <<>>
  BY Zenon DEF Chosen, Identity
<1> HIDE DEF f, g
<1>3. Flat(f, b) \in Seq(P) /\ Flat(g, b) \in Seq(V)
  BY <1>1, Zenon DEF OneByOne
<1>4. Wire!IdsOf(Flat(f, b), kind) = Flat(g, Flat(f, b))
  BY <1>1, <1>3, Zenon
<1>5. h \in [P -> Seq(V)] /\ \A p \in P : h[p] = Flat(g, f[p])
  <2>1. \A p \in P : Flat(g, f[p]) \in Seq(V)
    BY <1>1, Zenon DEF OneByOne
  <2> QED BY <2>1, Zenon
<1> HIDE DEF h
<1>6. Flat(g, Flat(f, b)) = Flat(h, b)
  <2>1. Composed(P, P, V, f, g, h)
    BY <1>1, <1>5, Zenon DEF Composed
  <2> QED BY <2>1, FlatOfFlat
<1>9. \A p \in P : h[p] = IF p.kind \in kinds THEN g[p] ELSE <<>>
  BY <1>1, <1>2, <1>5, Zenon DEF OneByOne
<1>7. CASE kind \in kinds
  <2>1. \A p \in P : h[p] = g[p]
    BY <1>2, <1>7, <1>9, Zenon
  <2>2. g = [p \in P |-> g[p]] /\ h = [p \in P |-> h[p]]
    BY <1>1, <1>5
  <2>3. h = g
    BY <2>1, <2>2, Zenon
  <2> QED BY <1>1, <1>3, <1>4, <1>6, <1>7, <2>3, Zenon
<1>8. CASE kind \notin kinds
  <2>1. \A p \in P : h[p] = <<>>
    BY <1>2, <1>8, <1>9, Zenon
  <2>2. Flat(h, b) = <<>>
    BY <2>1, FlatOfNothing
  <2> QED BY <1>1, <1>3, <1>4, <1>6, <1>8, <2>2, Zenon
<1> QED BY <1>7, <1>8

\* The identities in two rows of parts, in one part and in none.
PartByPart(P, kind) ==
  /\ \A b, c \in Seq(P) : Wire!IdsOf(b \o c, kind) = Wire!IdsOf(b, kind) \o Wire!IdsOf(c, kind)
  /\ \A p \in P : Wire!IdsOf(<<p>>, kind) = IF p.kind = kind THEN <<p.id>> ELSE <<>>
  /\ Wire!IdsOf(<<>>, kind) = <<>>

LEMMA IdsInARow ==
  ASSUME NEW P, NEW V, IsIn(P, V), NEW kind
  PROVE  PartByPart(P, kind)
<1> DEFINE g == Identity(P, kind)
<1>1. /\ \A b \in Seq(P) : Wire!IdsOf(b, kind) = Flat(g, b)
      /\ OneByOne(P, V, g) /\ g \in [P -> Seq(V)]
  BY PartsOneByOne
<1>2. <<>> \in Seq(P) /\ (\A p \in P : <<p>> \in Seq(P)) /\ \A b, c \in Seq(P) : b \o c \in Seq(P)
  BY EmptySeq, ConcatProperties
<1>3. \A p \in P : g[p] = IF p.kind = kind THEN <<p.id>> ELSE <<>>
  BY Zenon DEF Identity
<1> HIDE DEF g
<1>4. \A b, c \in Seq(P) : Flat(g, b \o c) = Flat(g, b) \o Flat(g, c)
  <2>1. InRow(P, g)
    BY <1>1, FlatOfConcat, Zenon
  <2> QED BY <2>1, Zenon DEF InRow
<1>5. \A b, c \in Seq(P) : Wire!IdsOf(b \o c, kind) = Wire!IdsOf(b, kind) \o Wire!IdsOf(c, kind)
  BY <1>1, <1>2, <1>4, Zenon
<1>6. \A p \in P : Wire!IdsOf(<<p>>, kind) = IF p.kind = kind THEN <<p.id>> ELSE <<>>
  BY <1>1, <1>2, <1>3, Zenon DEF OneByOne
<1>7. Wire!IdsOf(<<>>, kind) = <<>>
  BY <1>1, <1>2, Zenon DEF OneByOne
<1> QED BY <1>5, <1>6, <1>7 DEF PartByPart

\* Calls made the blocks of a turn are the calls, and nothing else.
Called(calls) == [k \in 1..Len(calls) |-> Wire!Part("tool_use", calls[k])]

LEMMA IdsOfCalls ==
  ASSUME NEW P, NEW V, \A d \in V : Wire!Part("tool_use", d) \in P, NEW calls \in Seq(V), NEW kind
  PROVE  /\ Called(calls) \in Seq(P)
         /\ Wire!IdsOf(Called(calls), kind) = IF kind = "tool_use" THEN calls ELSE <<>>
<1>1. Len(calls) \in Nat /\ \A k \in 1..Len(calls) : calls[k] \in V
  BY LenProperties, ElementOfSeq
<1>2. \A k \in 1..Len(calls) : Wire!Part("tool_use", calls[k]) \in P
  BY <1>1, Zenon
<1>3. Called(calls) \in Seq(P) /\ Len(Called(calls)) = Len(calls)
      /\ \A k \in 1..Len(calls) : Called(calls)[k].kind = "tool_use" /\ Called(calls)[k].id = calls[k]
  <2>1. Called(calls) \in Seq(P) /\ Len(Called(calls)) = Len(calls)
    BY <1>1, <1>2 DEF Called
  <2>2. \A k \in 1..Len(calls) : Called(calls)[k] = Wire!Part("tool_use", calls[k])
    BY Zenon DEF Called
  <2>3. \A d : Wire!Part("tool_use", d).kind = "tool_use" /\ Wire!Part("tool_use", d).id = d
    BY DEF Wire!Part
  <2> QED BY <2>1, <2>2, <2>3, Zenon
<1>4. Wire!IdsOf(Called(calls), kind)
        = Wire!FlattenSeq([k \in 1..Len(calls) |-> IF "tool_use" = kind THEN <<calls[k]>> ELSE <<>>])
  <2>1. [k \in 1..Len(calls) |-> IF Called(calls)[k].kind = kind THEN <<Called(calls)[k].id>> ELSE <<>>]
          = [k \in 1..Len(calls) |-> IF "tool_use" = kind THEN <<calls[k]>> ELSE <<>>]
    BY <1>3, Zenon
  <2> QED BY <1>3, <2>1, Zenon DEF Wire!IdsOf
<1>5. CASE kind = "tool_use"
  <2>1. [k \in 1..Len(calls) |-> IF "tool_use" = kind THEN <<calls[k]>> ELSE <<>>] = [k \in 1..Len(calls) |-> <<calls[k]>>]
    BY <1>5, Zenon
  <2>2. Wire!FlattenSeq([k \in 1..Len(calls) |-> <<calls[k]>>]) = calls
    BY FlatSingles, Zenon
  <2> QED BY <1>3, <1>4, <1>5, <2>1, <2>2, Zenon
<1>6. CASE kind # "tool_use"
  <2>1. [k \in 1..Len(calls) |-> IF "tool_use" = kind THEN <<calls[k]>> ELSE <<>>] = [k \in 1..Len(calls) |-> <<>>]
    BY <1>6, Zenon
  <2>2. Wire!FlattenSeq([k \in 1..Len(calls) |-> <<>>]) = <<>>
    BY <1>1, FlatNothing, Zenon
  <2> QED BY <1>3, <1>4, <1>6, <2>1, <2>2, Zenon
<1> QED BY <1>5, <1>6

-----------------------------------------------------------------------------
\* A conversation of one turn is that turn.
LEMMA MessagesOfOne ==
  ASSUME NEW t, NEW s, Wire!Translated(t) = <<s>>
  PROVE  Wire!Messages(<<t>>) = <<s>>
<1>1. <<s>> \in Seq({s}) /\ Len(<<s>>) = 1 /\ <<s>>[1] = s /\ Len(<<t>>) = 1 /\ <<t>>[1] = t
  OBVIOUS
<1>2. Wire!FlattenSeq([i \in 1..Len(<<t>>) |-> Wire!Translated(<<t>>[i])]) = <<s>>
  <2>1. [i \in 1..Len(<<t>>) |-> Wire!Translated(<<t>>[i])] = <<Wire!Translated(t)>>
    OBVIOUS
  <2>2. Wire!FlattenSeq(<<<<s>>>>) = <<s>>
    BY <1>1, FlatSmall, Zenon
  <2> QED BY <2>1, <2>2, Zenon
<1>3. Wire!MergeAdjacentRoles(<<s>>) = <<s>>
  <2>1. PICK out : MergesTo(out, <<s>>)
    BY <1>1, MergedInOrder, Zenon
  <2>2. /\ out[0] = <<>> /\ \A k \in 1..Len(<<s>>) : out[k] = Wire!Joined(out[k - 1], <<s>>[k])
        /\ Wire!MergeAdjacentRoles(<<s>>) = out[Len(<<s>>)]
    BY <2>1, Zenon DEF MergesTo
  <2>3. 1 \in 1..1 /\ 1 - 1 = 0
    OBVIOUS
  <2>4. Wire!MergeAdjacentRoles(<<s>>) = Wire!Joined(<<>>, s)
    BY <1>1, <2>2, <2>3, Zenon
  <2>5. Wire!Joined(<<>>, s) = Append(<<>>, s)
    BY Zenon DEF Wire!Joined
  <2>6. Append(<<>>, s) = <<s>>
    OBVIOUS
  <2> QED BY <2>4, <2>5, <2>6, Zenon
<1> QED BY <1>2, <1>3, Zenon DEF Wire!Messages

\* What calls and results can be made of.
Wires(P, V) ==
  IsIn(P, V) /\ \A d \in V : Wire!Part("tool_use", d) \in P /\ Wire!Part("tool_result", d) \in P

\* toOpenAIChatCompletion and toAnthropicMessagesRequest: the blocks of any answer, made a
\* turn and replayed to the provider, say what the model said and call what it called.
THEOREM AnswerIsReplayed ==
  ASSUME NEW P, NEW V, Wires(P, V), NEW blocks \in Seq(P), NEW kind \in {"text", "tool_use"}
  PROVE  Wire!IdsOf(Wire!Messages(<<Wire!Answered(blocks)>>)[1].blocks, kind) = Wire!IdsOf(blocks, kind)
<1> DEFINE t    == Wire!Answered(blocks)
           words == Wire!Only(blocks, {"text"})
           calls == Wire!IdsOf(blocks, "tool_use")
<1>0. IsIn(P, V) /\ \A d \in V : Wire!Part("tool_use", d) \in P
  BY DEF Wires
<1>1. /\ t.role = "assistant" /\ t.calls = calls
      /\ t.content = IF words = <<>> /\ calls # <<>> THEN Wire!Null ELSE Wire!Content("string", words)
  BY DEF Wire!Answered, Wire!Turn, Wire!CallsOf
<1>2. words \in Seq(P) /\ calls \in Seq(V) /\ Wire!IdsOf(blocks, "text") \in Seq(V)
      /\ Wire!IdsOf(words, "text") = Wire!IdsOf(blocks, "text") /\ Wire!IdsOf(words, "tool_use") = <<>>
  <2>1. words \in Seq(P) /\ Wire!IdsOf(blocks, "text") \in Seq(V)
        /\ Wire!IdsOf(words, "text") = IF "text" \in {"text"} THEN Wire!IdsOf(blocks, "text") ELSE <<>>
    BY <1>0, IdsOfOnly
  <2>2. calls \in Seq(V)
        /\ Wire!IdsOf(words, "tool_use") = IF "tool_use" \in {"text"} THEN calls ELSE <<>>
    BY <1>0, IdsOfOnly
  <2> QED BY <2>1, <2>2
<1>3. CASE calls = <<>>
  <2> DEFINE known == Wire!Only(words, {"text", "image"})
  <2>1. t.content.parts = words
    BY <1>1, <1>3 DEF Wire!Content
  <2>2. Wire!Translated(t) = <<[role |-> "assistant", blocks |-> known]>>
    BY <1>1, <1>3, <2>1 DEF Wire!Translated, Wire!Speaking, Wire!Known
  <2>3. Wire!Messages(<<t>>) = <<[role |-> "assistant", blocks |-> known]>>
    BY <2>2, MessagesOfOne
  <2>4. Wire!IdsOf(known, kind) = Wire!IdsOf(words, kind)
    <3>1. Wire!IdsOf(known, kind) = IF kind \in {"text", "image"} THEN Wire!IdsOf(words, kind) ELSE <<>>
      BY <1>0, <1>2, IdsOfOnly
    <3> QED BY <1>2, <3>1
  <2> HIDE DEF t, known
  <2>5. Wire!Messages(<<t>>)[1].blocks = known
    BY <2>3
  <2> QED BY <1>2, <1>3, <2>4, <2>5 DEF t
<1>4. CASE calls # <<>>
  <2> DEFINE said == IF t.content.shape = "string" THEN t.content.parts ELSE <<>>
             all  == said \o Called(calls)
  <2>1. said = words
    <3>1. CASE words = <<>>
      BY <1>1, <1>4, <3>1 DEF Wire!Null, Wire!Content
    <3>2. CASE words # <<>>
      BY <1>1, <1>4, <3>2 DEF Wire!Content
    <3> QED BY <3>1, <3>2
  <2>2. Wire!Translated(t) = <<[role |-> "assistant", blocks |-> all]>>
    <3>1. Wire!Calling(t) = [role |-> "assistant", blocks |-> all]
      BY <1>1, Zenon DEF Wire!Calling, Called
    <3>2. Wire!Translated(t) = <<Wire!Calling(t)>>
      BY <1>1, <1>4 DEF Wire!Translated
    <3> QED BY <3>1, <3>2, Zenon
  <2>3. Wire!Messages(<<t>>) = <<[role |-> "assistant", blocks |-> all]>>
    BY <2>2, MessagesOfOne
  <2>4. Called(calls) \in Seq(P) /\ Wire!IdsOf(Called(calls), kind) = IF kind = "tool_use" THEN calls ELSE <<>>
    BY <1>0, <1>2, IdsOfCalls
  <2>5. Wire!IdsOf(all, kind) = Wire!IdsOf(words, kind) \o Wire!IdsOf(Called(calls), kind)
    <3>1. PartByPart(P, kind)
      BY <1>0, IdsInARow
    <3> HIDE DEF said, words, calls
    <3> QED BY <1>2, <2>1, <2>4, <3>1, Zenon DEF PartByPart
  <2>6. Wire!IdsOf(all, kind) = Wire!IdsOf(blocks, kind)
    <3>1. \A s \in Seq(V) : <<>> \o s = s /\ s \o <<>> = s
      BY ConcatEmptySeq
    <3>2. CASE kind = "text"
      BY <1>2, <2>4, <2>5, <3>1, <3>2
    <3>3. CASE kind = "tool_use"
      BY <1>2, <2>4, <2>5, <3>1, <3>3
    <3> QED BY <3>2, <3>3
  <2> HIDE DEF t, all
  <2>7. Wire!Messages(<<t>>)[1].blocks = all
    BY <2>3
  <2> QED BY <2>6, <2>7 DEF t
<1> QED BY <1>3, <1>4

-----------------------------------------------------------------------------
\* A turn of a conversation: only the assistant calls.
Parties == Wire!Speakers \cup Wire!LeadRoles \cup {"tool", "function"}
Shapes  == {"string", "array", "null"}
TurnsOn(P, V) ==
  { t \in [role : Parties, content : [shape : Shapes, parts : Seq(P)], calls : Seq(V), answers : V] :
      t.calls # <<>> => t.role = "assistant" }
SentOn(P) == [role : Wire!Speakers, blocks : Seq(P)]
Sayer(P)  == [s \in SentOn(P) |-> Wire!IdsOf(s.blocks, "text")]

\* What turns of some roles say in strings, or in parts where they call no tool.
SaidBy(turns, roles) ==
  Wire!FlattenSeq([i \in 1..Len(turns) |->
    IF turns[i].role \in roles /\ (turns[i].calls = <<>> \/ turns[i].content.shape = "string")
    THEN Wire!IdsOf(turns[i].content.parts, "text") ELSE <<>>])

\* What a turn says, when it is of some roles.
SpokenBy(t, roles) ==
  IF t.role \in roles /\ (t.calls = <<>> \/ t.content.shape = "string")
  THEN Wire!IdsOf(t.content.parts, "text") ELSE <<>>

LEMMA SayerOneByOne ==
  ASSUME NEW P, NEW V, IsIn(P, V)
  PROVE  Sayer(P) \in [SentOn(P) -> Seq(V)] /\ OneByOne(SentOn(P), V, Sayer(P))
<1>1. \A s \in SentOn(P) : s.blocks \in Seq(P)
  BY DEF SentOn
<1>2. \A b \in Seq(P) : Wire!IdsOf(b, "text") \in Seq(V)
  BY IdsOfOnly
<1>3. Sayer(P) \in [SentOn(P) -> Seq(V)]
  BY <1>1, <1>2, Zenon DEF Sayer
<1> QED BY <1>3, FlatGrows

\* One turn on the wire: it says what it said.
LEMMA TranslatedSays ==
  ASSUME NEW P, NEW V, Wires(P, V), NEW t \in TurnsOn(P, V)
  PROVE  /\ Wire!Translated(t) \in Seq(SentOn(P))
         /\ Flat(Sayer(P), Wire!Translated(t)) = SpokenBy(t, Wire!Speakers)
<1>0. /\ t.role \in Parties /\ t.content.parts \in Seq(P) /\ t.calls \in Seq(V) /\ t.answers \in V
      /\ t.calls # <<>> => t.role = "assistant"
  BY DEF TurnsOn
<1>1. IsIn(P, V) /\ Wire!Part("tool_result", t.answers) \in P /\ \A d \in V : Wire!Part("tool_use", d) \in P
  BY <1>0 DEF Wires
<1>2. OneByOne(SentOn(P), V, Sayer(P))
  BY <1>1, SayerOneByOne
<1>3. ASSUME NEW b \in Seq(P), NEW role \in Wire!Speakers
      PROVE  /\ <<[role |-> role, blocks |-> b]>> \in Seq(SentOn(P))
             /\ Flat(Sayer(P), <<[role |-> role, blocks |-> b]>>) = Wire!IdsOf(b, "text")
  <2> DEFINE s == [role |-> role, blocks |-> b]
  <2>1. s \in SentOn(P) /\ s.blocks = b
    BY DEF SentOn
  <2> HIDE DEF s
  <2>2. Flat(Sayer(P), <<s>>) = Sayer(P)[s]
    BY <1>2, <2>1, Zenon DEF OneByOne
  <2>3. Sayer(P)[s] = Wire!IdsOf(b, "text")
    BY <2>1, Zenon DEF Sayer
  <2> QED BY <2>1, <2>2, <2>3 DEF s
<1>4. CASE t.role = "tool"
  <2> DEFINE p == Wire!Part("tool_result", t.answers)
  <2>1. Wire!Translated(t) = <<[role |-> "user", blocks |-> <<p>>]>>
    BY <1>4 DEF Wire!Translated, Wire!Result
  <2>2. Wire!IdsOf(<<p>>, "text") = IF p.kind = "text" THEN <<p.id>> ELSE <<>>
    <3>1. PartByPart(P, "text")
      BY <1>1, IdsInARow
    <3> QED BY <1>1, <3>1, Zenon DEF PartByPart
  <2>3. p.kind # "text"
    BY DEF Wire!Part
  <2>4. <<p>> \in Seq(P) /\ "user" \in Wire!Speakers /\ t.role \notin Wire!Speakers
    BY <1>1, <1>4 DEF Wire!Speakers
  <2> HIDE DEF p
  <2> QED BY <1>3, <2>1, <2>2, <2>3, <2>4, Zenon DEF SpokenBy
<1>5. CASE t.role = "assistant" /\ t.calls # <<>>
  <2> DEFINE said == IF t.content.shape = "string" THEN t.content.parts ELSE <<>>
             all  == said \o Called(t.calls)
  <2>1. Wire!Translated(t) = <<[role |-> "assistant", blocks |-> all]>>
    <3>1. Wire!Calling(t) = [role |-> "assistant", blocks |-> all]
      BY Zenon DEF Wire!Calling, Called
    <3>2. Wire!Translated(t) = <<Wire!Calling(t)>>
      BY <1>5 DEF Wire!Translated
    <3> QED BY <3>1, <3>2, Zenon
  <2>2. Called(t.calls) \in Seq(P) /\ Wire!IdsOf(Called(t.calls), "text") = <<>>
    <3>1. Called(t.calls) \in Seq(P)
          /\ Wire!IdsOf(Called(t.calls), "text") = IF "text" = "tool_use" THEN t.calls ELSE <<>>
      BY <1>0, <1>1, IdsOfCalls
    <3> QED BY <3>1
  <2>3. said \in Seq(P) /\ Wire!IdsOf(said, "text") \in Seq(V)
    <3>1. said \in Seq(P)
      BY <1>0, EmptySeq
    <3> HIDE DEF said
    <3> QED BY <1>1, <3>1, IdsOfOnly
  <2>4. all \in Seq(P) /\ Wire!IdsOf(all, "text") = Wire!IdsOf(said, "text")
    <3> HIDE DEF said
    <3>1. Wire!IdsOf(all, "text") = Wire!IdsOf(said, "text") \o Wire!IdsOf(Called(t.calls), "text")
      <4>1. PartByPart(P, "text")
        BY <1>1, IdsInARow
      <4> QED BY <2>2, <2>3, <4>1, Zenon DEF PartByPart
    <3> QED BY <2>2, <2>3, <3>1, ConcatProperties, ConcatEmptySeq
  <2>5. Wire!IdsOf(said, "text") = SpokenBy(t, Wire!Speakers)
    <3>1. PartByPart(P, "text") /\ t.role \in Wire!Speakers
      BY <1>1, <1>5, IdsInARow DEF Wire!Speakers
    <3> QED BY <1>5, <3>1, Zenon DEF SpokenBy, PartByPart
  <2>6. "assistant" \in Wire!Speakers
    BY DEF Wire!Speakers
  <2> HIDE DEF all, said
  <2> QED BY <1>3, <2>1, <2>4, <2>5, <2>6, Zenon
<1>6. CASE t.role \in Wire!Speakers /\ t.calls = <<>>
  <2> DEFINE known == Wire!Known(t.content)
  <2>1. known \in Seq(P) /\ Wire!IdsOf(known, "text") = Wire!IdsOf(t.content.parts, "text")
    <3>1. known \in Seq(P)
          /\ Wire!IdsOf(known, "text") = IF "text" \in {"text", "image"} THEN Wire!IdsOf(t.content.parts, "text") ELSE <<>>
      <4>1. Wire!Known(t.content) = Wire!Only(t.content.parts, {"text", "image"})
        BY Zenon DEF Wire!Known
      <4> DEFINE kinds == {"text", "image"}
      <4>2. /\ Wire!Only(t.content.parts, kinds) \in Seq(P)
            /\ Wire!IdsOf(Wire!Only(t.content.parts, kinds), "text")
                 = IF "text" \in kinds THEN Wire!IdsOf(t.content.parts, "text") ELSE <<>>
        <5> HIDE DEF kinds
        <5> QED BY <1>0, <1>1, IdsOfOnly
      <4> QED BY <4>1, <4>2, Zenon
    <3> QED BY <3>1
  <2>2. Wire!Translated(t) = <<[role |-> t.role, blocks |-> known]>>
    BY <1>6 DEF Wire!Translated, Wire!Speaking, Wire!Speakers
  <2> HIDE DEF known
  <2> QED BY <1>3, <1>6, <2>1, <2>2, Zenon DEF SpokenBy
<1>7. CASE t.role \notin Wire!Speakers \cup {"tool"}
  <2>1. Wire!Translated(t) = <<>>
    BY <1>7 DEF Wire!Translated, Wire!Speakers
  <2>2. Flat(Sayer(P), <<>>) = <<>> /\ <<>> \in Seq(SentOn(P))
    BY <1>2, EmptySeq DEF OneByOne
  <2> QED BY <1>7, <2>1, <2>2 DEF SpokenBy
<1>8. \/ t.role = "assistant" /\ t.calls # <<>>
      \/ t.role \in Wire!Speakers /\ t.calls = <<>>
      \/ t.role \notin Wire!Speakers
  BY <1>0 DEF Wire!Speakers
<1> QED BY <1>4, <1>5, <1>6, <1>7, <1>8

\* What the turns of some roles say, turn by turn, and what becomes of them on the wire.
Speech(P, V, roles) == [t \in TurnsOn(P, V) |-> SpokenBy(t, roles)]
OnWire(P, V) == [t \in TurnsOn(P, V) |-> Wire!Translated(t)]
Wired(turns)  == Wire!FlattenSeq([i \in 1..Len(turns) |-> Wire!Translated(turns[i])])

LEMMA SpokenTurnByTurn ==
  ASSUME NEW P, NEW V, IsIn(P, V), NEW roles, NEW turns \in Seq(TurnsOn(P, V))
  PROVE  /\ SaidBy(turns, roles) = Flat(Speech(P, V, roles), turns)
         /\ Speech(P, V, roles) \in [TurnsOn(P, V) -> Seq(V)]
<1> DEFINE T == TurnsOn(P, V)
<1>1. \A t \in T : SpokenBy(t, roles) \in Seq(V)
  <2>1. \A t \in T : t.content.parts \in Seq(P)
    BY DEF TurnsOn
  <2>2. \A b \in Seq(P) : Wire!IdsOf(b, "text") \in Seq(V)
    BY IdsOfOnly
  <2> HIDE DEF T
  <2> QED BY <2>1, <2>2, EmptySeq DEF SpokenBy
<1> HIDE DEF T
<1>2. Speech(P, V, roles) \in [T -> Seq(V)]
  BY <1>1, Zenon DEF Speech, T
<1>3. \A i \in 1..Len(turns) : turns[i] \in T
  BY ElementOfSeq DEF T
<1>4. [i \in 1..Len(turns) |->
         IF turns[i].role \in roles /\ (turns[i].calls = <<>> \/ turns[i].content.shape = "string")
         THEN Wire!IdsOf(turns[i].content.parts, "text") ELSE <<>>]
        = [i \in 1..Len(turns) |-> Speech(P, V, roles)[turns[i]]]
  BY <1>3, Zenon DEF Speech, SpokenBy, T
<1>5. SaidBy(turns, roles) = Flat(Speech(P, V, roles), turns)
  BY <1>4, Zenon DEF SaidBy, Flat
<1> QED BY <1>2, <1>5 DEF T

\* Turns that are only translated say what they said.
LEMMA WireSays ==
  ASSUME NEW P, NEW V, Wires(P, V), NEW turns \in Seq(TurnsOn(P, V))
  PROVE  /\ Wired(turns) \in Seq(SentOn(P)) /\ Wired(turns) = Flat(OnWire(P, V), turns)
         /\ OnWire(P, V) \in [TurnsOn(P, V) -> Seq(SentOn(P))]
         /\ Wire!Said(Wired(turns)) = SaidBy(turns, Wire!Speakers)
<1> DEFINE T == TurnsOn(P, V)
           f == OnWire(P, V)
           g == Sayer(P)
           h == Speech(P, V, Wire!Speakers)
<1>1. IsIn(P, V)
  BY DEF Wires
<1>2. \A t \in T : Wire!Translated(t) \in Seq(SentOn(P)) /\ Flat(g, Wire!Translated(t)) = SpokenBy(t, Wire!Speakers)
  BY TranslatedSays
<1>3. f \in [T -> Seq(SentOn(P))] /\ \A t \in T : f[t] = Wire!Translated(t)
  <2> HIDE DEF T, g
  <2> QED BY <1>2, Zenon DEF OnWire, T
<1>4. g \in [SentOn(P) -> Seq(V)]
  BY <1>1, SayerOneByOne
<1>5. SaidBy(turns, Wire!Speakers) = Flat(h, turns) /\ h \in [T -> Seq(V)]
  BY <1>1, SpokenTurnByTurn
<1>6. \A t \in T : h[t] = SpokenBy(t, Wire!Speakers)
  BY Zenon DEF Speech
<1>7. Wired(turns) = Flat(f, turns)
  <2>1. \A i \in 1..Len(turns) : turns[i] \in T
    BY ElementOfSeq
  <2> HIDE DEF T, f
  <2>2. [i \in 1..Len(turns) |-> Wire!Translated(turns[i])] = [i \in 1..Len(turns) |-> f[turns[i]]]
    BY <1>3, <2>1, Zenon
  <2> QED BY <2>2, Zenon DEF Wired, Flat
<1>8. Wired(turns) \in Seq(SentOn(P))
  <2>1. OneByOne(T, SentOn(P), f)
    BY <1>3, FlatGrows
  <2> HIDE DEF f
  <2> QED BY <1>7, <2>1 DEF OneByOne
<1>9. Wire!Said(Wired(turns)) = Flat(g, Wired(turns))
  <2>1. \A i \in 1..Len(Wired(turns)) : Wired(turns)[i] \in SentOn(P)
    BY <1>8, ElementOfSeq
  <2>2. [i \in 1..Len(Wired(turns)) |-> Wire!IdsOf(Wired(turns)[i].blocks, "text")]
          = [i \in 1..Len(Wired(turns)) |-> g[Wired(turns)[i]]]
    BY <2>1, Zenon DEF Sayer
  <2> QED BY <2>2, Zenon DEF Wire!Said, Flat
<1>10. Flat(g, Flat(f, turns)) = Flat(h, turns)
  <2> HIDE DEF T, f, g, h
  <2>1. Composed(T, SentOn(P), V, f, g, h)
    BY <1>2, <1>3, <1>4, <1>5, <1>6, Zenon DEF Composed
  <2>2. turns \in Seq(T)
    BY DEF T
  <2> QED BY <2>1, <2>2, FlatOfFlat
<1> QED BY <1>3, <1>5, <1>7, <1>8, <1>9, <1>10, Zenon

-----------------------------------------------------------------------------
\* The identities of some parts, one by one.
Name(P) == [p \in P |-> <<p.id>>]

LEMMA NamesInOrder ==
  ASSUME NEW P, NEW V, IsIn(P, V), NEW s \in Seq(P)
  PROVE  /\ Flat(Name(P), s) = [k \in DOMAIN s |-> s[k].id]
         /\ Name(P) \in [P -> Seq(V)]
         /\ Flat(Name(P), Wire!Only(s, {"text"})) = Wire!IdsOf(s, "text")
<1>1. \A p \in P : p.id \in V /\ <<p.id>> \in Seq(V)
  BY DEF IsIn
<1>2. Name(P) \in [P -> Seq(V)]
  BY <1>1, Zenon DEF Name
<1>3. Flat(Name(P), s) = [k \in DOMAIN s |-> s[k].id]
  <2> DEFINE ids == [k \in 1..Len(s) |-> s[k].id]
  <2>1. Len(s) \in Nat /\ DOMAIN s = 1..Len(s) /\ \A k \in 1..Len(s) : s[k] \in P
    BY LenProperties, ElementOfSeq
  <2>2. ids \in Seq(V) /\ Len(ids) = Len(s) /\ \A k \in 1..Len(s) : ids[k] = s[k].id
    BY <1>1, <2>1
  <2> HIDE DEF ids
  <2>3. [k \in 1..Len(ids) |-> <<ids[k]>>] = [k \in 1..Len(s) |-> Name(P)[s[k]]]
    BY <2>1, <2>2, Zenon DEF Name
  <2>4. Wire!FlattenSeq([k \in 1..Len(ids) |-> <<ids[k]>>]) = ids
    BY <2>2, FlatSingles, Zenon
  <2>5. Flat(Name(P), s) = ids
    BY <2>3, <2>4, Zenon DEF Flat
  <2> QED BY <2>1, <2>5, Zenon DEF ids
<1>4. Flat(Name(P), Wire!Only(s, {"text"})) = Wire!IdsOf(s, "text")
  <2> DEFINE f == Chosen(P, {"text"})
             h == Identity(P, "text")
  <2>1. /\ Wire!Only(s, {"text"}) = Flat(f, s) /\ Wire!IdsOf(s, "text") = Flat(h, s)
        /\ f \in [P -> Seq(P)] /\ h \in [P -> Seq(V)]
    BY PartsOneByOne
  <2>2. OneByOne(P, V, Name(P))
    BY <1>2, FlatGrows
  <2>3. \A p \in P : h[p] = Flat(Name(P), f[p])
    <3> TAKE p \in P
    <3>1. f[p] = (IF p.kind \in {"text"} THEN <<p>> ELSE <<>>)
          /\ h[p] = (IF p.kind = "text" THEN <<p.id>> ELSE <<>>) /\ Name(P)[p] = <<p.id>>
      BY Zenon DEF Chosen, Identity, Name
    <3>2. Flat(Name(P), <<p>>) = Name(P)[p] /\ Flat(Name(P), <<>>) = <<>>
      BY <2>2, Zenon DEF OneByOne
    <3> HIDE DEF f, h
    <3> QED BY <3>1, <3>2
  <2> HIDE DEF f, h
  <2>4. Composed(P, P, V, f, Name(P), h)
    BY <1>2, <2>1, <2>3, Zenon DEF Composed
  <2> QED BY <2>1, <2>4, FlatOfFlat
<1> QED BY <1>2, <1>3, <1>4

\* The system prompt is what the turns of the leading roles say.
Lead(P, V) == [t \in TurnsOn(P, V) |-> IF t.role \in Wire!LeadRoles THEN Wire!TextOf(t.content) ELSE <<>>]

LEMMA SystemSays ==
  ASSUME NEW P, NEW V, IsIn(P, V), NEW turns \in Seq(TurnsOn(P, V))
  PROVE  LET system == Wire!System(turns)
         IN  [k \in DOMAIN system |-> system[k].id] = SaidBy(turns, Wire!LeadRoles)
<1> DEFINE T == TurnsOn(P, V)
           f == Lead(P, V)
           g == Name(P)
           h == Speech(P, V, Wire!LeadRoles)
<1>1. \A t \in T : /\ t.content.parts \in Seq(P)
                   /\ t.role \in Wire!LeadRoles => t.calls = <<>>
  BY DEF TurnsOn, Wire!LeadRoles
<1>2. \A b \in Seq(P) : /\ Wire!Only(b, {"text"}) \in Seq(P)
                        /\ Flat(g, Wire!Only(b, {"text"})) = Wire!IdsOf(b, "text")
                        /\ Flat(g, b) = [k \in DOMAIN b |-> b[k].id]
  <2>1. \A b \in Seq(P) : Wire!Only(b, {"text"}) \in Seq(P)
    BY IdsOfOnly
  <2> QED BY <2>1, NamesInOrder
<1>3. g \in [P -> Seq(V)]
  BY NamesInOrder, EmptySeq
<1>4. OneByOne(P, V, g)
  BY <1>3, FlatGrows
<1>5. f \in [T -> Seq(P)] /\ \A t \in T : f[t] = IF t.role \in Wire!LeadRoles THEN Wire!Only(t.content.parts, {"text"}) ELSE <<>>
  <2>1. \A t \in T : (IF t.role \in Wire!LeadRoles THEN Wire!TextOf(t.content) ELSE <<>>) \in Seq(P)
    <3> HIDE DEF T, g
    <3> QED BY <1>1, <1>2, EmptySeq DEF Wire!TextOf
  <2> QED BY <2>1, Zenon DEF Lead, Wire!TextOf
<1>6. SaidBy(turns, Wire!LeadRoles) = Flat(h, turns) /\ h \in [T -> Seq(V)]
  BY SpokenTurnByTurn
<1>7. \A t \in T : h[t] = IF t.role \in Wire!LeadRoles /\ (t.calls = <<>> \/ t.content.shape = "string")
                          THEN Wire!IdsOf(t.content.parts, "text") ELSE <<>>
  BY Zenon DEF Speech, SpokenBy
<1>8. Wire!System(turns) = Flat(f, turns)
  <2>1. \A i \in 1..Len(turns) : turns[i] \in T
    BY ElementOfSeq
  <2>2. [i \in 1..Len(turns) |-> IF turns[i].role \in Wire!LeadRoles THEN Wire!TextOf(turns[i].content) ELSE <<>>]
          = [i \in 1..Len(turns) |-> f[turns[i]]]
    BY <2>1, Zenon DEF Lead
  <2> QED BY <2>2, Zenon DEF Wire!System, Flat
<1> HIDE DEF T, f, g, h
<1>9. \A t \in T : h[t] = Flat(g, f[t])
  BY <1>1, <1>2, <1>4, <1>5, <1>7, Zenon DEF OneByOne
<1>10. turns \in Seq(T)
  BY DEF T
<1>11. Flat(g, Flat(f, turns)) = Flat(h, turns)
  <2>1. Composed(T, P, V, f, g, h)
    BY <1>3, <1>5, <1>6, <1>9, Zenon DEF Composed
  <2> QED BY <1>10, <2>1, FlatOfFlat
<1>12. Flat(f, turns) \in Seq(P)
  <2>1. OneByOne(T, P, f)
    BY <1>5, FlatGrows
  <2> QED BY <1>10, <2>1 DEF OneByOne
<1> QED BY <1>2, <1>6, <1>8, <1>11, <1>12, Zenon

-----------------------------------------------------------------------------
\* The merge of turns: they alternate and say what they said, and the last turn ends with
\* the blocks that came last.
LEMMA MergedTurns ==
  ASSUME NEW K, NEW V, NEW P, P = Parts(K, V), NEW ts \in Seq(SentOn(P))
  PROVE  /\ Wire!Alternates(Wire!MergeAdjacentRoles(ts))
         /\ Wire!Said(Wire!MergeAdjacentRoles(ts)) = Wire!Said(ts)
         /\ \A i \in 1..Len(Wire!MergeAdjacentRoles(ts)) : Wire!MergeAdjacentRoles(ts)[i].role \in Wire!Speakers
<1>0. SentOn(P) = Sent(K, V)
  BY Zenon DEF Sent, SentOn
<1>1. Wire!Alternates(Wire!MergeAdjacentRoles(ts))
      /\ Wire!Said(Wire!MergeAdjacentRoles(ts)) = Wire!Said(ts)
  BY <1>0, MergedIsFaithful, Zenon
<1>2. PICK out : MergesTo(out, ts)
  BY MergedInOrder, Zenon
<1>3. PICK said : \A k \in 0..Len(ts) : MergedWell(K, V, out, ts, k, said[k])
  BY <1>0, <1>2, MergedStepByStep, Zenon
<1>4. Wire!MergeAdjacentRoles(ts) \in Seq(Sent(K, V))
  <2>1. Len(ts) \in 0..Len(ts)
    BY LenProperties
  <2> QED BY <1>2, <1>3, <2>1, Zenon DEF MergedWell, MergesTo
<1>5. \A i \in 1..Len(Wire!MergeAdjacentRoles(ts)) : Wire!MergeAdjacentRoles(ts)[i].role \in Wire!Speakers
  <2>1. Wire!MergeAdjacentRoles(ts) \in Seq(SentOn(P))
    BY <1>0, <1>4, Zenon
  <2>2. \A s \in SentOn(P) : s.role \in Wire!Speakers
    BY DEF SentOn
  <2> QED BY <2>1, <2>2, ElementOfSeq
<1> QED BY <1>1, <1>5, Zenon

EndsIn(P, ts, t) ==
  LET sent == Wire!MergeAdjacentRoles(Append(ts, t))
  IN  /\ sent # <<>> /\ Wire!Last(sent).role = t.role
      /\ \E a \in Seq(P) : Wire!Last(sent).blocks = a \o t.blocks

LEMMA MergedEnds ==
  ASSUME NEW K, NEW V, NEW P, P = Parts(K, V), NEW ts \in Seq(SentOn(P)), NEW t \in SentOn(P)
  PROVE  EndsIn(P, ts, t)
<1> DEFINE all  == Append(ts, t)
           n    == Len(ts)
           sent == Wire!MergeAdjacentRoles(all)
<1>0. SentOn(P) = Sent(K, V) /\ t.blocks \in Seq(P)
  <2>1. SentOn(P) = Sent(K, V)
    BY Zenon DEF Sent, SentOn
  <2> QED BY <2>1 DEF SentOn
<1>1. /\ all \in Seq(SentOn(P)) /\ Len(all) = n + 1 /\ all[n + 1] = t /\ n \in Nat
      /\ n + 1 \in 1..Len(all) /\ n \in 0..Len(all) /\ (n + 1) - 1 = n
  BY AppendProperties, LenProperties
<1> HIDE DEF all, n
<1>2. PICK out : MergesTo(out, all)
  BY <1>1, MergedInOrder, Zenon
<1>3. PICK said : \A k \in 0..Len(all) : MergedWell(K, V, out, all, k, said[k])
  BY <1>0, <1>1, <1>2, MergedStepByStep, Zenon
<1>4. out[n] \in Seq(Sent(K, V)) /\ sent = Wire!Joined(out[n], t)
  <2>1. out[n] \in Seq(Sent(K, V))
    BY <1>1, <1>3, Zenon DEF MergedWell
  <2>2. Wire!MergeAdjacentRoles(all) = Wire!Joined(out[n], t)
    BY <1>1, <1>2, Zenon DEF MergesTo
  <2> QED BY <2>1, <2>2, Zenon
<1> HIDE DEF sent
<1>5. ASSUME NEW s \in Seq(SentOn(P)), NEW x
      PROVE  Append(s, x) # <<>> /\ Wire!Last(Append(s, x)) = x
  <2>1. s \in Seq(SentOn(P) \cup {x})
    BY SeqMonotonic
  <2> QED BY <2>1, AppendProperties, LenProperties DEF Wire!Last
<1>6. CASE Behind(out[n], t)
  <2>1. sent = Append(out[n], t)
    BY <1>4, <1>6, Zenon DEF Behind
  <2>2. sent # <<>> /\ Wire!Last(sent) = t
    BY <1>0, <1>4, <1>5, <2>1, Zenon
  <2>3. t.blocks = <<>> \o t.blocks /\ <<>> \in Seq(P)
    BY <1>0, ConcatEmptySeq, EmptySeq
  <2> QED BY <2>2, <2>3, Zenon DEF EndsIn, sent, all
<1>7. ASSUME NEW front \in Seq(Sent(K, V)), NEW last \in Sent(K, V), Into(front, last, out[n], t)
      PROVE  sent # <<>> /\ Wire!Last(sent).role = t.role /\ \E a \in Seq(P) : Wire!Last(sent).blocks = a \o t.blocks
  <2> DEFINE x == [role |-> t.role, blocks |-> last.blocks \o t.blocks]
  <2>1. sent = Append(front, x)
    BY <1>4, <1>7, Zenon DEF Into
  <2>2. x.role = t.role /\ x.blocks = last.blocks \o t.blocks /\ last.blocks \in Seq(P)
    <3>1. last \in SentOn(P)
      BY <1>0
    <3>2. last.blocks \in Seq(P)
      BY <3>1 DEF SentOn
    <3> QED BY <3>2
  <2> HIDE DEF x
  <2>3. sent # <<>> /\ Wire!Last(sent) = x
    BY <1>0, <1>5, <2>1, Zenon
  <2> QED BY <2>2, <2>3, Zenon
<1>8. Behind(out[n], t) \/ \E front \in Seq(Sent(K, V)), last \in Sent(K, V) : Into(front, last, out[n], t)
  BY <1>0, <1>4, JoinedCases, Zenon
<1> QED BY <1>6, <1>7, <1>8, Zenon DEF EndsIn, sent, all

\* Three rows can be joined from either end.
Rejoined(S, a, b, c) == a \o (b \o c) = (a \o b) \o c /\ a \o b \in Seq(S)

LEMMA ConcatsRejoin ==
  ASSUME NEW S, NEW a \in Seq(S), NEW b \in Seq(S), NEW c \in Seq(S)
  PROVE  Rejoined(S, a, b, c)
<1>1. (a \o b) \o c = a \o (b \o c)
  BY ConcatAssociative
<1>2. a \o b \in Seq(S)
  BY ConcatProperties
<1> QED BY <1>1, <1>2, Zenon DEF Rejoined

\* What comes last in two rows is their suffix.
LEMMA EndsWith ==
  ASSUME NEW S, NEW a \in Seq(S), NEW b \in Seq(S)
  PROVE  Wire!IsSuffix(b, a \o b)
<1> DEFINE n == Len(a)
           m == Len(b)
           ra == Wire!Reverse(a \o b)
           rb == Wire!Reverse(b)
<1>1. /\ n \in Nat /\ m \in Nat /\ a \o b \in Seq(S) /\ Len(a \o b) = n + m
      /\ \A i \in 1..(n + m) : (a \o b)[i] = IF i <= n THEN a[i] ELSE b[i - n]
  BY LenProperties, ConcatProperties
<1>2. rb \in Seq(S) /\ Len(rb) = m /\ \A i \in 1..m : rb[i] = b[(m - i) + 1]
  <2>1. \A i \in 1..m : b[(m - i) + 1] \in S
    <3>1. \A i \in 1..m : (m - i) + 1 \in 1..m
      BY <1>1
    <3> QED BY <3>1, ElementOfSeq
  <2> QED BY <1>1, <2>1 DEF Wire!Reverse
<1>3. ra \in Seq(S) /\ Len(ra) = n + m /\ \A i \in 1..(n + m) : ra[i] = (a \o b)[((n + m) - i) + 1]
  <2> DEFINE c == a \o b
             l == n + m
  <2>1. c \in Seq(S) /\ Len(c) = l /\ l \in Nat
    BY <1>1
  <2> HIDE DEF c, l
  <2>2. \A i \in 1..l : c[(l - i) + 1] \in S
    <3>1. \A i \in 1..l : (l - i) + 1 \in 1..l
      BY <2>1
    <3> QED BY <2>1, <3>1, ElementOfSeq
  <2>3. Wire!Reverse(c) \in Seq(S) /\ Len(Wire!Reverse(c)) = l /\ \A i \in 1..l : Wire!Reverse(c)[i] = c[(l - i) + 1]
    BY <2>1, <2>2 DEF Wire!Reverse
  <2> QED BY <2>3 DEF c, l
<1> HIDE DEF n, m, ra, rb
<1>4. \A i \in 1..m : ra[i] = rb[i]
  <2> TAKE i \in 1..m
  <2>1. /\ i \in 1..(n + m) /\ ((n + m) - i) + 1 \in 1..(n + m)
        /\ ~(((n + m) - i) + 1 <= n) /\ (((n + m) - i) + 1) - n = (m - i) + 1
    BY <1>1
  <2> QED BY <1>1, <1>2, <1>3, <2>1, Zenon
<1>5. SubSeq(rb, 1, m) = SubSeq(ra, 1, m)
  BY <1>1, <1>2, <1>3, <1>4
<1>6. Len(rb) <= Len(ra)
  BY <1>1, <1>2, <1>3
<1> QED BY <1>2, <1>5, <1>6, Zenon DEF Wire!IsSuffix, Wire!IsPrefix, ra, rb

\* A turn that is given a content of several parts.
LEMMA TurnOfParts ==
  ASSUME NEW P, NEW V, NEW b \in Seq(P), NEW role \in Parties, NEW calls \in Seq(V), NEW answers \in V,
         calls # <<>> => role = "assistant"
  PROVE  [role |-> role, content |-> Wire!Content("array", b), calls |-> calls, answers |-> answers]
           \in TurnsOn(P, V)
<1> DEFINE B == Seq(P)
           S == Seq(V)
           c == Wire!Content("array", b)
           t == [role |-> role, content |-> c, calls |-> calls, answers |-> answers]
<1>1. c = [shape |-> "array", parts |-> b]
  BY Zenon DEF Wire!Content
<1>2. b \in B /\ calls \in S
  OBVIOUS
<1> HIDE DEF B, S, c
<1>3. c \in [shape : Shapes, parts : B]
  BY <1>1, <1>2 DEF Shapes
<1>4. t \in [role : Parties, content : [shape : Shapes, parts : B], calls : S, answers : V]
  BY <1>2, <1>3
<1>5. t.calls # <<>> => t.role = "assistant"
  OBVIOUS
<1> HIDE DEF t
<1>6. t \in TurnsOn(P, V)
  BY <1>4, <1>5, Zenon DEF TurnsOn, B, S
<1> QED BY <1>6, Zenon DEF t, c

\* The images come last, in a turn of the user: the last one, or one more.
ComeLast(P, V, turns, images) ==
  \E front \in Seq(TurnsOn(P, V)), u \in TurnsOn(P, V), said \in Seq(P) :
    /\ Wire!AttachImages(turns, images) = Append(front, u)
    /\ u.role = "user" /\ u.content.parts = said \o images
    /\ turns = front \/ \E x \in TurnsOn(P, V) : turns = Append(front, x) /\ x.role = "user"

LEMMA ImagesComeLast ==
  ASSUME NEW P, NEW V, Wire!NoId \in V, NEW turns \in Seq(TurnsOn(P, V)),
         NEW images \in Seq(P), images # <<>>
  PROVE  ComeLast(P, V, turns, images)
<1> DEFINE T == TurnsOn(P, V)
<1>1. CASE ~(turns # <<>> /\ Wire!Last(turns).role = "user")
  <2> DEFINE u == Wire!Turn("user", Wire!Content("array", images), <<>>, Wire!NoId)
  <2>1. u \in T /\ u.role = "user" /\ u.content.parts = images
    <3>0. "user" \in Parties
      BY DEF Parties, Wire!Speakers
    <3>1. <<>> \in Seq(V) /\ "user" \in Parties
      BY <3>0, EmptySeq, Zenon
    <3>2. u = [role |-> "user", content |-> Wire!Content("array", images), calls |-> <<>>, answers |-> Wire!NoId]
      BY Zenon DEF Wire!Turn
    <3>3. u \in T
      BY <3>1, <3>2, TurnOfParts, Zenon
    <3>4. Wire!Content("array", images).parts = images
      BY DEF Wire!Content
    <3> QED BY <3>2, <3>3, <3>4
  <2>2. Wire!AttachImages(turns, images) = Append(turns, u)
    BY <1>1, Zenon DEF Wire!AttachImages
  <2>3. images = <<>> \o images /\ <<>> \in Seq(P)
    BY ConcatEmptySeq, EmptySeq
  <2> HIDE DEF u
  <2> QED BY <2>1, <2>2, <2>3, Zenon DEF ComeLast
<1>2. CASE turns # <<>> /\ Wire!Last(turns).role = "user"
  <2>1. PICK front \in Seq(T), x \in T : turns = Append(front, x)
    BY <1>2, SequenceEmptyOrAppend
  <2> DEFINE n == Len(front)
             parts == x.content.parts \o images
             u == [role |-> x.role, content |-> Wire!Content("array", parts), calls |-> x.calls, answers |-> x.answers]
  <2>2. /\ n \in Nat /\ Len(turns) = n + 1 /\ n + 1 \in 1..Len(turns) /\ turns[n + 1] = x
        /\ \A i \in 1..n : turns[i] = front[i]
    BY <2>1, AppendProperties, LenProperties
  <2>3. x.role = "user"
    BY <1>2, <2>2, Zenon DEF Wire!Last
  <2>4. /\ x = [role |-> x.role, content |-> x.content, calls |-> x.calls, answers |-> x.answers]
        /\ x.content.parts \in Seq(P) /\ x.role \in Parties /\ x.calls \in Seq(V) /\ x.answers \in V
        /\ x.calls # <<>> => x.role = "assistant"
    BY DEF TurnsOn
  <2>5. parts \in Seq(P)
    BY <2>4, ConcatProperties
  <2>6. Wire!WithImages(x, images) = u
    <3>1. Wire!Content("array", parts) = [shape |-> "array", parts |-> parts]
      BY DEF Wire!Content
    <3>2. Wire!WithImages(x, images) = [x EXCEPT !.content = Wire!Content("array", parts)]
      BY Zenon DEF Wire!WithImages
    <3> HIDE DEF parts
    <3> QED BY <2>4, <3>2
  <2>7. u \in T /\ u.role = "user" /\ u.content.parts = parts
    <3>1. Wire!Content("array", parts).parts = parts
      BY DEF Wire!Content
    <3> HIDE DEF parts
    <3>2. u \in T
      BY <2>4, <2>5, TurnOfParts, Zenon
    <3> QED BY <2>3, <3>1, <3>2
  <2> HIDE DEF T, u
  <2>8. Wire!AttachImages(turns, images) = Append(front, u)
    <3> DEFINE more == [turns EXCEPT ![n + 1] = u]
    <3>0. turns \in Seq(T)
      BY DEF T
    <3>1. Wire!AttachImages(turns, images) = more
      <4>1. Wire!AttachImages(turns, images) = [turns EXCEPT ![Len(turns)] = Wire!WithImages(@, images)]
        BY <1>2, Zenon DEF Wire!AttachImages
      <4> QED BY <2>2, <2>6, <4>1, Zenon
    <3>2. more \in Seq(T) /\ Len(more) = n + 1 /\ \A j \in 1..(n + 1) : more[j] = IF j = n + 1 THEN u ELSE turns[j]
      BY <2>2, <2>7, <3>0, ExceptSeq
    <3>3. /\ Append(front, u) \in Seq(T) /\ Len(Append(front, u)) = n + 1
          /\ \A i \in 1..n : Append(front, u)[i] = front[i]
          /\ Append(front, u)[n + 1] = u
      BY <2>7, AppendProperties
    <3> HIDE DEF more
    <3>4. \A j \in 1..(n + 1) : more[j] = Append(front, u)[j]
      <4> TAKE j \in 1..(n + 1)
      <4>1. j = n + 1 \/ (j # n + 1 /\ j \in 1..n)
        BY <2>2
      <4> QED BY <2>2, <3>2, <3>3, <4>1, Zenon
    <3>5. more = Append(front, u)
      BY <3>2, <3>3, <3>4, SeqEqual
    <3> QED BY <3>1, <3>5
  <2> HIDE DEF parts
  <2> QED BY <2>1, <2>3, <2>4, <2>7, <2>8, Zenon DEF ComeLast, T, parts
<1> QED BY <1>1, <1>2

\* Images stay what they are on the wire, behind the rest of their turn.
LEMMA ImagesAreKept ==
  ASSUME NEW P, NEW V, IsIn(P, V), NEW said \in Seq(P), NEW images \in Seq(P),
         \A i \in 1..Len(images) : images[i].kind = "image"
  PROVE  /\ Wire!Only(said \o images, {"text", "image"}) = Wire!Only(said, {"text", "image"}) \o images
         /\ Wire!Only(said, {"text", "image"}) \in Seq(P)
<1> DEFINE f == Chosen(P, {"text", "image"})
<1>1. /\ \A b \in Seq(P) : Wire!Only(b, {"text", "image"}) = Flat(f, b)
      /\ f \in [P -> Seq(P)]
  BY PartsOneByOne
<1>2. Flat(f, images) = images
  <2>1. \A i \in 1..Len(images) : images[i] \in P
    BY ElementOfSeq
  <2>2. \A i \in 1..Len(images) : f[images[i]] = <<images[i]>>
    <3> TAKE i \in 1..Len(images)
    <3>1. f[images[i]] = IF images[i].kind \in {"text", "image"} THEN <<images[i]>> ELSE <<>>
      BY <2>1, Zenon DEF Chosen
    <3> HIDE DEF f
    <3> QED BY <3>1
  <2> HIDE DEF f
  <2>3. [i \in 1..Len(images) |-> f[images[i]]] = [i \in 1..Len(images) |-> <<images[i]>>]
    BY <2>2, Zenon
  <2>4. Wire!FlattenSeq([i \in 1..Len(images) |-> <<images[i]>>]) = images
    BY FlatSingles, Zenon
  <2> QED BY <2>3, <2>4, Zenon DEF Flat
<1>3. said \o images \in Seq(P)
  BY ConcatProperties
<1> HIDE DEF f
<1>4. Flat(f, said \o images) = Flat(f, said) \o Flat(f, images)
  <2>1. InRow(P, f)
    BY <1>1, FlatOfConcat, Zenon
  <2> QED BY <2>1, Zenon DEF InRow
<1>5. OneByOne(P, P, f)
  BY <1>1, FlatGrows
<1> QED BY <1>1, <1>2, <1>3, <1>4, <1>5, Zenon DEF OneByOne

-----------------------------------------------------------------------------
\* What a conversation is held to on the wire.
Survives(asked, images) ==
  LET turns  == Wire!AttachImages(asked, images)
      sent   == Wire!Messages(turns)
      system == Wire!System(turns)
  IN  /\ Wire!Alternates(sent) /\ \A i \in 1..Len(sent) : sent[i].role \in Wire!Speakers
      /\ Wire!Said(sent) = SaidBy(turns, Wire!Speakers)
      /\ [k \in DOMAIN system |-> system[k].id] = SaidBy(asked, Wire!LeadRoles)
      /\ images # <<>> =>
           sent # <<>> /\ Wire!Last(sent).role = "user" /\ Wire!IsSuffix(images, Wire!Last(sent).blocks)

\* toAnthropicMessagesRequest for a conversation of any length, with turns of any roles,
\* contents and calls, and any images: the roles alternate, the wire holds all that was
\* said and nothing of it is moved, what leads is in the system prompt, and the images
\* come last, in a turn of the user.
THEOREM ConversationIsKept ==
  ASSUME NEW K, NEW V, {"tool_use", "tool_result"} \subseteq K, Wire!NoId \in V,
         NEW turns \in Seq(TurnsOn(Parts(K, V), V)),
         NEW images \in Seq(Parts(K, V)), \A i \in 1..Len(images) : images[i].kind = "image"
  PROVE  Survives(turns, images)
<1> DEFINE P    == Parts(K, V)
           T    == TurnsOn(P, V)
           all  == Wire!AttachImages(turns, images)
           wire == Wired(all)
           sent == Wire!Messages(all)
<1>0. Wires(P, V)
  BY DEF Wires, IsIn, Parts, Wire!Part
<1>1. IsIn(P, V)
  BY <1>0 DEF Wires
<1> HIDE DEF P
<1>2. turns \in Seq(T) /\ images \in Seq(P)
  BY DEF P
<1>3. sent = Wire!MergeAdjacentRoles(wire)
  BY Zenon DEF Wire!Messages, Wired
<1>4. ASSUME all \in Seq(T)
      PROVE  /\ Wire!Alternates(sent) /\ \A i \in 1..Len(sent) : sent[i].role \in Wire!Speakers
             /\ Wire!Said(sent) = SaidBy(all, Wire!Speakers)
             /\ LET system == Wire!System(all)
                IN  [k \in DOMAIN system |-> system[k].id] = SaidBy(all, Wire!LeadRoles)
  <2> HIDE DEF all
  <2>1. wire \in Seq(SentOn(P)) /\ Wire!Said(wire) = SaidBy(all, Wire!Speakers)
    BY <1>0, <1>4, WireSays
  <2>2. /\ Wire!Alternates(Wire!MergeAdjacentRoles(wire))
        /\ Wire!Said(Wire!MergeAdjacentRoles(wire)) = Wire!Said(wire)
        /\ \A i \in 1..Len(Wire!MergeAdjacentRoles(wire)) : Wire!MergeAdjacentRoles(wire)[i].role \in Wire!Speakers
    <3>1. P = Parts(K, V)
      BY DEF P
    <3> HIDE DEF wire
    <3> QED BY <2>1, <3>1, MergedTurns
  <2>3. LET system == Wire!System(all)
        IN  [k \in DOMAIN system |-> system[k].id] = SaidBy(all, Wire!LeadRoles)
    BY <1>1, <1>4, SystemSays
  <2> HIDE DEF wire, sent
  <2> QED BY <1>3, <2>1, <2>2, <2>3, Zenon
<1>5. CASE images = <<>>
  <2>1. all = turns
    BY <1>5, Zenon DEF Wire!AttachImages
  <2> QED BY <1>2, <1>4, <1>5, <2>1, Zenon DEF Survives
<1>6. CASE images # <<>>
  <2>1. PICK front \in Seq(T), u \in T, said \in Seq(P) :
          /\ all = Append(front, u)
          /\ u.role = "user" /\ u.content.parts = said \o images
          /\ turns = front \/ \E x \in T : turns = Append(front, x) /\ x.role = "user"
    <3>1. turns \in Seq(TurnsOn(P, V)) /\ images \in Seq(P) /\ images # <<>> /\ Wire!NoId \in V
      BY <1>2, <1>6, Zenon
    <3> HIDE DEF T, all
    <3>2. ComeLast(P, V, turns, images)
      BY <3>1, ImagesComeLast, Zenon
    <3> QED BY <3>2, Zenon DEF ComeLast, T, all
  <2>2. all \in Seq(T)
    BY <2>1, AppendProperties
  <2>3. SaidBy(all, Wire!LeadRoles) = SaidBy(turns, Wire!LeadRoles)
    <3> DEFINE h == Speech(P, V, Wire!LeadRoles)
    <3>1. /\ \A ts \in Seq(T) : SaidBy(ts, Wire!LeadRoles) = Flat(h, ts)
          /\ h \in [T -> Seq(V)]
      BY <1>1, <2>1, SpokenTurnByTurn
    <3>2. \A x \in T : x.role = "user" => h[x] = <<>>
      <4>1. \A x \in T : h[x] = SpokenBy(x, Wire!LeadRoles)
        BY Zenon DEF Speech
      <4>2. "user" \notin Wire!LeadRoles
        BY DEF Wire!LeadRoles
      <4> QED BY <4>1, <4>2, Zenon DEF SpokenBy
    <3>3. OneByOne(T, V, h)
      BY <3>1, FlatGrows
    <3> HIDE DEF h
    <3>4. \A x \in T : x.role = "user" => SaidBy(Append(front, x), Wire!LeadRoles) = SaidBy(front, Wire!LeadRoles)
      <4> SUFFICES ASSUME NEW x \in T, x.role = "user"
                   PROVE  SaidBy(Append(front, x), Wire!LeadRoles) = SaidBy(front, Wire!LeadRoles)
        OBVIOUS
      <4>1. Append(front, x) \in Seq(T)
        BY <2>1, AppendProperties
      <4>2. Flat(h, Append(front, x)) = Flat(h, front) \o <<>> /\ Flat(h, front) \in Seq(V)
        BY <2>1, <3>2, <3>3, Zenon DEF OneByOne
      <4>3. Flat(h, Append(front, x)) = Flat(h, front)
        BY <4>2, ConcatEmptySeq
      <4> QED BY <2>1, <3>1, <4>1, <4>3, Zenon
    <3> HIDE DEF all, T
    <3> QED BY <2>1, <3>4, Zenon
  <2>4. sent # <<>> /\ Wire!Last(sent).role = "user" /\ Wire!IsSuffix(images, Wire!Last(sent).blocks)
    <3> DEFINE f    == OnWire(P, V)
               rest == Wire!Only(said, {"text", "image"})
               s    == [role |-> "user", blocks |-> rest \o images]
               ts   == Flat(f, front)
    <3>1. rest \in Seq(P) /\ Wire!Only(said \o images, {"text", "image"}) = rest \o images
      BY <1>1, <1>2, <2>1, ImagesAreKept
    <3>2. Wire!Translated(u) = <<s>>
      BY <2>1, <3>1 DEF Wire!Translated, Wire!Speaking, Wire!Known
    <3>3. s \in SentOn(P) /\ s.role = "user" /\ s.blocks = rest \o images
      <4>1. rest \o images \in Seq(P)
        BY <1>2, <3>1, ConcatProperties
      <4> HIDE DEF rest
      <4> QED BY <4>1 DEF SentOn, Wire!Speakers
    <3> HIDE DEF s, rest
    <3>4. f \in [T -> Seq(SentOn(P))] /\ wire = Flat(f, all)
      <4> HIDE DEF all
      <4> QED BY <1>0, <2>2, WireSays
    <3>5. OneByOne(T, SentOn(P), f)
      BY <3>4, FlatGrows
    <3>6. f[u] = <<s>>
      BY <2>1, <3>2, Zenon DEF OnWire
    <3> HIDE DEF f
    <3>7. ts \in Seq(SentOn(P)) /\ wire = ts \o <<s>>
      BY <2>1, <3>4, <3>5, <3>6, Zenon DEF OneByOne
    <3> HIDE DEF ts, wire
    <3>8. wire = Append(ts, s)
      BY <3>3, <3>7, AppendIsConcat
    <3>9. /\ sent # <<>> /\ Wire!Last(sent).role = "user"
          /\ \E a \in Seq(P) : Wire!Last(sent).blocks = a \o s.blocks
      <4>1. P = Parts(K, V)
        BY DEF P
      <4>2. EndsIn(P, ts, s)
        BY <3>3, <3>7, <4>1, MergedEnds, Zenon
      <4> QED BY <1>3, <3>3, <3>8, <4>2, Zenon DEF EndsIn
    <3>10. PICK a \in Seq(P) : Wire!Last(sent).blocks = a \o (rest \o images)
      BY <3>3, <3>9
    <3>11. a \o (rest \o images) = (a \o rest) \o images /\ a \o rest \in Seq(P)
      <4>1. a \in Seq(P) /\ rest \in Seq(P) /\ images \in Seq(P)
        BY <1>2, <3>1, <3>10, Zenon
      <4>2. Rejoined(P, a, rest, images)
        BY <4>1, ConcatsRejoin, Zenon
      <4> QED BY <4>2, Zenon DEF Rejoined
    <3>12. Wire!IsSuffix(images, (a \o rest) \o images)
      BY <1>2, <3>11, EndsWith
    <3> HIDE DEF sent
    <3> QED BY <3>9, <3>10, <3>11, <3>12
  <2> HIDE DEF T
  <2> QED BY <1>4, <2>2, <2>3, <2>4, Zenon DEF Survives
<1> QED BY <1>5, <1>6
=============================================================================
