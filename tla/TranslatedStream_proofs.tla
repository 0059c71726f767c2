------------------------ MODULE TranslatedStream_proofs ------------------------
(***************************************************************************)
(* An answer of either wire and its translation, for answers of any length *)
(* that break off anywhere: the translation has one end, and is a stream   *)
(* where the wire is Anthropic's; both readers have every text and call of *)
(* the answer, and they end alike.                                         *)
(*                                                                         *)
(* IInv: the line that has not ended holds what the phase of the answer    *)
(* allows (SourceInv); what the translator enqueued is ordered, its        *)
(* terminator is there when it is done and not before, and an answer that  *)
(* goes on is not finished (TranslatorInv).                                *)
(*                                                                         *)
(* AnswerInv, of the two readers once the last line is read: they have its *)
(* text (HeardInv); their slots, in the order of their keys, are its calls,*)
(* and the translator knows the slot of every block a fragment may be      *)
(* about (CallsInv); they know how it ended and what it counted (EndInv).  *)
(* What a reader assembles is a fold over the frames it read: one frame    *)
(* more is one step more, by induction over the frames.                    *)
(***************************************************************************)
EXTENDS TranslatedStream, SequenceTheorems, FiniteSetTheorems, WellFoundedInduction, TLAPS

\* Induction on the naturals, as the existence of a least one.
Below == { p \in Nat \X Nat : p[1] < p[2] }

LEMMA LeastNatural ==
  ASSUME NEW T, T \subseteq Nat, T # {}
  PROVE  \E n \in T : \A m \in T : n <= m
<1>1. IsWellFoundedOn(Below, Nat)
  BY NatLessThanWellFounded, Zenon DEF OpToRel, Below
<1>2. PICK n \in T : \A m \in T : <<m, n>> \notin Below
  BY <1>1, WFMin
<1>3. ASSUME NEW m \in T PROVE n <= m
  <2>1. <<m, n>> \in Nat \X Nat
    OBVIOUS
  <2>2. ~(m < n)
    BY <1>2, <2>1 DEF Below
  <2> QED BY <2>2
<1> QED BY <1>3

LEMMA InductionOnNat ==
  ASSUME NEW T, 0 \in T, \A n \in Nat : n \in T => n + 1 \in T
  PROVE  Nat \subseteq T
<1> SUFFICES ASSUME Nat \ T # {} PROVE FALSE
  OBVIOUS
<1>1. PICK n \in Nat \ T : \A m \in Nat \ T : n <= m
  BY LeastNatural
<1>2. n # 0 /\ n - 1 \in Nat /\ n - 1 \in T
  BY <1>1
<1> QED BY <1>1, <1>2

-----------------------------------------------------------------------------
\* The fold over the frames, one frame after the other.
Iterates(base, frames, n, iter) ==
  iter = [s \in SUBSET (1..n) |->
            IF s = {} THEN base ELSE Read(iter[s \ {Max(s)}], frames[Max(s)])]

LEMMA MaxOfAll ==
  ASSUME NEW n \in Nat \ {0}, NEW s, s \subseteq 1..n, n \in s
  PROVE  Max(s) = n
<1>1. n \in s /\ \A y \in s : n >= y
  OBVIOUS
<1>2. Max(s) \in s /\ \A y \in s : Max(s) >= y
  BY <1>1, Zenon DEF Max
<1> DEFINE m == Max(s)
<1>3. m \in 1..n /\ m >= n
  BY <1>2
<1> HIDE DEF m
<1>4. m = n
  BY <1>3
<1> QED BY <1>4 DEF m

LEMMA IterationExists ==
  ASSUME NEW base, NEW frames
  PROVE  \A n \in Nat : \E iter : Iterates(base, frames, n, iter)
<1> DEFINE T == { n \in Nat : \E iter : Iterates(base, frames, n, iter) }
<1>1. 0 \in T
  <2>1. Iterates(base, frames, 0, [s \in SUBSET (1..0) |-> base])
    BY DEF Iterates
  <2> QED BY <2>1
<1>2. ASSUME NEW n \in Nat, n \in T
      PROVE  n + 1 \in T
  <2>1. PICK iter : Iterates(base, frames, n, iter)
    BY <1>2
  <2> DEFINE more == [s \in SUBSET (1..(n + 1)) |->
                        IF n + 1 \in s THEN Read(iter[s \ {n + 1}], frames[n + 1]) ELSE iter[s]]
  <2>2. ASSUME NEW s \in SUBSET (1..(n + 1))
        PROVE  more[s] = IF s = {} THEN base
                         ELSE Read(more[s \ {Max(s)}], frames[Max(s)])
    <3>1. CASE n + 1 \in s
      <4>1. Max(s) = n + 1
        <5>1. n + 1 \in Nat \ {0} /\ s \subseteq 1..(n + 1)
          OBVIOUS
        <5> QED BY <3>1, <5>1, MaxOfAll
      <4>2. s \ {n + 1} \in SUBSET (1..n) /\ s \ {n + 1} \in SUBSET (1..(n + 1))
        OBVIOUS
      <4>3. more[s \ {n + 1}] = iter[s \ {n + 1}]
        BY <4>2
      <4>4. more[s] = Read(iter[s \ {n + 1}], frames[n + 1])
        BY <3>1
      <4> QED BY <3>1, <4>1, <4>3, <4>4
    <3>2. CASE n + 1 \notin s
      <4>1. s \in SUBSET (1..n) /\ s \ {Max(s)} \in SUBSET (1..n)
            /\ s \ {Max(s)} \in SUBSET (1..(n + 1)) /\ n + 1 \notin s \ {Max(s)}
        <5>1. \A k \in 1..(n + 1) : k # n + 1 => k \in 1..n
          OBVIOUS
        <5>2. s \subseteq 1..n
          BY <3>2, <5>1
        <5> QED BY <3>2, <5>2
      <4>2. more[s] = iter[s] /\ more[s \ {Max(s)}] = iter[s \ {Max(s)}]
        BY <3>2, <4>1
      <4>3. iter[s] = IF s = {} THEN base ELSE Read(iter[s \ {Max(s)}], frames[Max(s)])
        BY <2>1, <4>1, Zenon DEF Iterates
      <4> QED BY <4>2, <4>3
    <3> QED BY <3>1, <3>2
  <2>3. more = [s \in SUBSET (1..(n + 1)) |->
                  IF s = {} THEN base ELSE Read(more[s \ {Max(s)}], frames[Max(s)])]
    <3> DEFINE same == [s \in SUBSET (1..(n + 1)) |->
                  IF s = {} THEN base ELSE Read(more[s \ {Max(s)}], frames[Max(s)])]
    <3>1. \A s \in SUBSET (1..(n + 1)) : more[s] = same[s]
      BY <2>2
    <3> QED BY <3>1
  <2>4. Iterates(base, frames, n + 1, more)
    BY <2>3 DEF Iterates
  <2> HIDE DEF more
  <2> QED BY <2>4
<1>3. Nat \subseteq T
  BY <1>1, <1>2, InductionOnNat
<1> QED BY <1>3

ReadFrom(base, frames) == FoldLeft(Read, base, frames)

LEMMA FoldedInOrder ==
  ASSUME NEW base, NEW S, NEW frames \in Seq(S)
  PROVE  \E read : /\ read[0] = base
                   /\ \A k \in 1..Len(frames) : read[k] = Read(read[k - 1], frames[k])
                   /\ ReadFrom(base, frames) = read[Len(frames)]
<1> DEFINE n == Len(frames)
           iter == CHOOSE iter : Iterates(base, frames, n, iter)
           read == [k \in 0..n |-> iter[1..k]]
<1>1. n \in Nat /\ DOMAIN frames = 1..n
  BY LenProperties
<1>2. Iterates(base, frames, n, iter)
  BY <1>1, IterationExists, Zenon
<1>3. ReadFrom(base, frames) = iter[DOMAIN frames]
  BY Zenon, <1>1 DEF ReadFrom, FoldLeft, MapThenFoldSet, Iterates
<1> HIDE DEF n, iter
<1>4. \A s \in SUBSET (1..n) :
        iter[s] = IF s = {} THEN base ELSE Read(iter[s \ {Max(s)}], frames[Max(s)])
  BY <1>2, Zenon DEF Iterates
<1>5. read[0] = base
  <2>1. 1..0 = {} /\ 1..0 \in SUBSET (1..n) /\ 0 \in 0..n
    BY <1>1
  <2> QED BY <1>4, <2>1
<1>6. ASSUME NEW k \in 1..n
      PROVE  read[k] = Read(read[k - 1], frames[k])
  <2>1. k \in Nat \ {0} /\ k \in 0..n /\ k - 1 \in 0..n /\ 1..k \in SUBSET (1..n) /\ 1..k # {}
        /\ k \in 1..k /\ (1..k) \ {k} = 1..(k - 1)
    <3>1. k \in Nat \ {0} /\ k <= n
      BY <1>1
    <3>2. k \in 0..n /\ k - 1 \in 0..n /\ k \in 1..k
      BY <1>1, <3>1
    <3>3. \A j \in 1..k : j \in 1..n /\ (j # k => j \in 1..(k - 1))
      BY <1>1, <3>1
    <3>4. \A j \in 1..(k - 1) : j \in 1..k /\ j # k
      BY <3>1
    <3>5. (1..k) \ {k} = 1..(k - 1)
      BY <3>3, <3>4
    <3> QED BY <3>1, <3>2, <3>3, <3>5
  <2>2. Max(1..k) = k
    BY <2>1, MaxOfAll
  <2>3. iter[1..k] = Read(iter[1..(k - 1)], frames[k])
    BY <1>4, <2>1, <2>2
  <2> QED BY <2>1, <2>3
<1>7. ReadFrom(base, frames) = read[n]
  BY <1>1, <1>3
<1> HIDE DEF read
<1>8. /\ \A k \in 1..Len(frames) : read[k] = Read(read[k - 1], frames[k])
      /\ ReadFrom(base, frames) = read[Len(frames)]
  BY <1>6, <1>7 DEF n
<1> QED BY <1>5, <1>8

LEMMA ReadInOrder ==
  ASSUME NEW S, NEW frames \in Seq(S)
  PROVE  \E read : /\ read[0] = Nothing
                   /\ \A k \in 1..Len(frames) : read[k] = Read(read[k - 1], frames[k])
                   /\ ReadAll(frames) = read[Len(frames)]
<1>1. ReadAll(frames) = ReadFrom(Nothing, frames)
  BY Zenon DEF ReadAll, ReadFrom
<1> QED BY <1>1, FoldedInOrder

-----------------------------------------------------------------------------
\* The verdict of a reader is that of the first frame that gives one.
State(s) ==
  s = [text |-> s.text, slots |-> s.slots, finish |-> s.finish, prompt |-> s.prompt,
       completion |-> s.completion, verdict |-> s.verdict]

Plain == {"chunk", "usage", "message_start", "content_block_start", "text_delta",
          "input_json_delta", "message_delta"}

LEMMA AbsorbKeepsTheVerdict ==
  ASSUME NEW s, State(s), NEW frame, frame.type \in Plain
  PROVE  State(Absorb(s, frame)) /\ Absorb(s, frame).verdict = s.verdict
<1> DEFINE Kept(t) == State(t) /\ t.verdict = s.verdict
<1>1. ASSUME NEW index, NEW id, NEW pieces
      PROVE  Kept(Fill(s, index, id, pieces))
  <2> DEFINE slot == Slot(s, index)
             slots == Put(s.slots, index, [id |-> Over(id, slot.id), args |-> slot.args \o pieces])
  <2>1. Fill(s, index, id, pieces) = [s EXCEPT !.slots = slots]
    BY Zenon DEF Fill
  <2> HIDE DEF slots
  <2> QED BY <2>1 DEF State
<1>2. CASE frame.type = "chunk"
  <2> DEFINE slots == FoldLeft(AbsorbFragment, s, frame.delta.calls).slots
             text == s.text \o frame.delta.text
             finish == Over(frame.finish, s.finish)
  <2>1. Absorb(s, frame) = [s EXCEPT !.slots = slots, !.text = text, !.finish = finish]
    BY <1>2, Zenon DEF Absorb, AbsorbChunk
  <2> HIDE DEF slots, text, finish
  <2> QED BY <2>1 DEF State
<1>3. CASE frame.type = "usage"
  <2>1. Absorb(s, frame) = AbsorbUsage(s, frame)
    BY <1>3, Zenon DEF Absorb
  <2> QED BY <2>1 DEF State, AbsorbUsage
<1>4. CASE frame.type = "message_start"
  <2>1. Absorb(s, frame) = AbsorbStart(s, frame)
    BY <1>4, Zenon DEF Absorb
  <2> QED BY <2>1 DEF State, AbsorbStart
<1>5. CASE frame.type = "content_block_start"
  <2>1. Absorb(s, frame) = AbsorbBlock(s, frame)
    BY <1>5, Zenon DEF Absorb
  <2>2. Kept(s)
    OBVIOUS
  <2> QED BY <1>1, <2>1, <2>2, Zenon DEF AbsorbBlock
<1>6. CASE frame.type = "text_delta"
  <2> DEFINE text == Append(s.text, frame.piece)
  <2>1. Absorb(s, frame) = [s EXCEPT !.text = text]
    BY <1>6, Zenon DEF Absorb
  <2> HIDE DEF text
  <2> QED BY <2>1 DEF State
<1>7. CASE frame.type = "input_json_delta"
  <2>1. Absorb(s, frame) = AbsorbJson(s, frame)
    BY <1>7, Zenon DEF Absorb
  <2>2. Kept(s)
    OBVIOUS
  <2> QED BY <1>1, <2>1, <2>2, Zenon DEF AbsorbJson
<1>8. CASE frame.type = "message_delta"
  <2>1. Absorb(s, frame) = AbsorbEnd(s, frame)
    BY <1>8, Zenon DEF Absorb
  <2> QED BY <2>1 DEF State, AbsorbEnd
<1> QED BY <1>2, <1>3, <1>4, <1>5, <1>6, <1>7, <1>8 DEF Plain

LEMMA ReadOneFrame ==
  ASSUME NEW s, State(s), NEW frame
  PROVE  /\ s.verdict # "open" => Read(s, frame) = s
         /\ s.verdict = "open" =>
              /\ frame.type \in Plain \cup {"torn"} =>
                   State(Read(s, frame)) /\ Read(s, frame).verdict = "open"
              /\ frame.type \in {"error", "labelled"} =>
                   State(Read(s, frame)) /\ Read(s, frame).verdict = "failed"
<1>1. s.verdict # "open" => Read(s, frame) = s
  BY Zenon DEF Read
<1>2. ASSUME s.verdict = "open", frame.type \in Plain
      PROVE  State(Read(s, frame)) /\ Read(s, frame).verdict = "open"
  <2>1. frame.type \notin {"torn", "[DONE]", "message_stop", "error", "labelled"}
    BY <1>2 DEF Plain
  <2>2. Read(s, frame) = Absorb(s, frame)
    BY <1>2, <2>1, Zenon DEF Read
  <2> QED BY <1>2, <2>2, AbsorbKeepsTheVerdict
<1>3. ASSUME s.verdict = "open", frame.type = "torn"
      PROVE  Read(s, frame) = s
  BY <1>3, Zenon DEF Read
<1>4. ASSUME s.verdict = "open", frame.type \in {"error", "labelled"}
      PROVE  State(Read(s, frame)) /\ Read(s, frame).verdict = "failed"
  <2>1. Read(s, frame) = [s EXCEPT !.verdict = "failed"]
    BY <1>4, Zenon DEF Read
  <2> QED BY <2>1 DEF State
<1> QED BY <1>1, <1>2, <1>3, <1>4

LEMMA ErrorFailsTheReader ==
  ASSUME NEW S, NEW frames \in Seq(S), NEW e \in 1..Len(frames), frames[e].type = "error",
         \A i \in 1..Len(frames) : i < e => frames[i].type \in Plain \cup {"torn", "error"}
  PROVE  ReadAll(frames).verdict = "failed"
<1>1. PICK read : /\ read[0] = Nothing
                  /\ \A k \in 1..Len(frames) : read[k] = Read(read[k - 1], frames[k])
                  /\ ReadAll(frames) = read[Len(frames)]
  BY ReadInOrder
<1>2. Len(frames) \in Nat
  BY LenProperties
<1> DEFINE Judged(k) == /\ State(read[k]) /\ read[k].verdict \in {"open", "failed"}
                        /\ k >= e => read[k].verdict = "failed"
           T == { k \in Nat : k <= Len(frames) => Judged(k) }
<1>3. 0 \in T
  <2>1. State(Nothing) /\ Nothing.verdict = "open"
    BY DEF State, Nothing
  <2> QED BY <1>1, <2>1
<1>4. ASSUME NEW k \in Nat, k \in T
      PROVE  k + 1 \in T
  <2> SUFFICES ASSUME k + 1 <= Len(frames)
               PROVE  Judged(k + 1)
    OBVIOUS
  <2>1. k + 1 \in 1..Len(frames) /\ (k + 1) - 1 = k /\ Judged(k)
    BY <1>2, <1>4
  <2>2. read[k + 1] = Read(read[k], frames[k + 1])
    BY <1>1, <2>1
  <2>3. CASE read[k].verdict = "failed"
    BY <2>1, <2>2, <2>3, ReadOneFrame
  <2>4. CASE read[k].verdict = "open" /\ k + 1 < e
    <3>1. frames[k + 1].type \in Plain \cup {"torn", "error"} /\ ~(k + 1 >= e)
      BY <2>1, <2>4
    <3> QED BY <2>1, <2>2, <2>4, <3>1, ReadOneFrame
  <2>5. CASE read[k].verdict = "open" /\ k + 1 = e
    BY <2>1, <2>2, <2>5, ReadOneFrame
  <2>6. read[k].verdict = "open" => k + 1 <= e
    BY <2>1
  <2> QED BY <2>1, <2>3, <2>4, <2>5, <2>6
<1>5. Nat \subseteq T
  <2> HIDE DEF T
  <2> QED BY <1>3, <1>4, InductionOnNat
<1>6. Judged(Len(frames))
  BY <1>2, <1>5
<1> QED BY <1>1, <1>2, <1>6

-----------------------------------------------------------------------------
\* A sequence of anything.
Sequence(s) == \E S : s \in Seq(S)

LEMMA OneMoreFrame ==
  ASSUME NEW s, Sequence(s), NEW e
  PROVE  /\ Sequence(Append(s, e)) /\ Len(s) \in Nat /\ Len(Append(s, e)) = Len(s) + 1
         /\ \A i \in 1..Len(s) : Append(s, e)[i] = s[i]
         /\ Append(s, e)[Len(s) + 1] = e
<1>1. PICK S : s \in Seq(S)
  BY DEF Sequence
<1> DEFINE All == S \cup {e}
<1>2. s \in Seq(All) /\ e \in All
  <2>1. \A i \in 1..Len(s) : s[i] \in All
    BY <1>1, ElementOfSeq
  <2>2. s = [i \in 1..Len(s) |-> s[i]] /\ Len(s) \in Nat
    BY <1>1, LenProperties
  <2> QED BY <1>1
<1> HIDE DEF All
<1> QED BY <1>2, AppendProperties, LenProperties DEF Sequence

\* A translator as a record.
Tr(t) ==
  /\ t = [role |-> t.role, finish |-> t.finish, done |-> t.done, input |-> t.input,
          output |-> t.output, reason |-> t.reason, slots |-> t.slots, next |-> t.next,
          out |-> t.out]
  /\ {t.role, t.finish, t.done} \subseteq BOOLEAN
  /\ Sequence(t.out)

Sent(t, type) == { i \in 1..Len(t.out) : t.out[i].type = type }

\* Its terminator is sent when it is done, then and never again, and nothing after it.
Final(t) ==
  /\ \A i \in 1..Len(t.out) : t.out[i].type \in Plain \cup {"torn", "error", "[DONE]"}
  /\ Sent(t, "[DONE]") = IF t.done THEN {Len(t.out)} ELSE {}

\* Nothing finished and nothing counted has been sent.
Fresh(t) == Sent(t, "usage") = {} /\ \A i \in Sent(t, "chunk") : t.out[i].finish = {}

\* What is sent of an Anthropic answer: a role first, a reason to finish after all
\* chunks, the usage after them.
Ordered(t) ==
  /\ t.role <=> Sent(t, "chunk") # {}
  /\ \A i \in Sent(t, "chunk") :
       t.out[i].delta.role <=> \A j \in Sent(t, "chunk") : i <= j
  /\ \A i, j \in Sent(t, "chunk") : t.out[i].finish # {} => j <= i
  /\ \A i \in Sent(t, "usage"), j \in Sent(t, "chunk") : j < i
  /\ Sent(t, "usage") # {} => t.role
  /\ ~t.finish => Fresh(t)

\* One that has sent more.
Grows(t, e) ==
  /\ Tr(e) /\ e.done = t.done
  /\ Len(t.out) <= Len(e.out) /\ \A i \in 1..Len(t.out) : e.out[i] = t.out[i]
  /\ Final(t) /\ ~t.done => Final(e)

LEMMA GrowsTwice ==
  ASSUME NEW t, NEW e, NEW f, Tr(t), Grows(t, e), Grows(e, f)
  PROVE  Grows(t, f)
<1>1. Len(t.out) \in Nat /\ Len(e.out) \in Nat /\ Len(f.out) \in Nat
  BY LenProperties DEF Tr, Grows, Sequence
<1> QED BY <1>1 DEF Grows

LEMMA EnqueuedFacts ==
  ASSUME NEW t, Tr(t), NEW frame
  PROVE  LET e == Enqueue(t, frame)
         IN  /\ Tr(e) /\ e.role = t.role /\ e.finish = t.finish /\ e.done = t.done
             /\ Len(t.out) \in Nat /\ Len(e.out) = Len(t.out) + 1
             /\ \A i \in 1..Len(t.out) : e.out[i] = t.out[i]
             /\ e.out[Len(t.out) + 1] = frame
             /\ \A type : Sent(e, type) =
                  Sent(t, type) \cup (IF frame.type = type THEN {Len(t.out) + 1} ELSE {})
             /\ frame.type \in Plain \cup {"torn", "error"} => Grows(t, e)
<1> DEFINE e == Enqueue(t, frame)
           out == Append(t.out, frame)
<1>1. e = [t EXCEPT !.out = out]
  BY DEF Enqueue
<1>2. /\ Sequence(out) /\ Len(t.out) \in Nat /\ Len(out) = Len(t.out) + 1
      /\ \A i \in 1..Len(t.out) : out[i] = t.out[i]
      /\ out[Len(t.out) + 1] = frame
  BY OneMoreFrame DEF Tr
<1> HIDE DEF out, e
<1>3. /\ Tr(e) /\ e.role = t.role /\ e.finish = t.finish /\ e.done = t.done /\ e.out = out
  BY <1>1, <1>2 DEF Tr
<1>4. ASSUME NEW type
      PROVE  Sent(e, type) =
               Sent(t, type) \cup (IF frame.type = type THEN {Len(t.out) + 1} ELSE {})
  <2>1. \A i \in 1..Len(out) : i \in 1..Len(t.out) \/ i = Len(t.out) + 1
    BY <1>2
  <2>2. \A i \in 1..Len(t.out) : i \in 1..Len(out)
    BY <1>2
  <2>3. Len(t.out) + 1 \in 1..Len(out) /\ Len(t.out) + 1 \notin 1..Len(t.out)
    BY <1>2
  <2> QED BY <1>2, <1>3, <2>1, <2>2, <2>3 DEF Sent
<1>5. ASSUME frame.type \in Plain \cup {"torn", "error"}
      PROVE  Grows(t, e)
  <2>1. frame.type # "[DONE]"
    BY <1>5 DEF Plain
  <2>2. Final(t) /\ ~t.done => Final(e)
    <3> SUFFICES ASSUME Final(t), ~t.done PROVE Final(e)
      OBVIOUS
    <3>1. Sent(e, "[DONE]") = {}
      BY <1>4, <2>1 DEF Final
    <3>2. \A i \in 1..Len(out) : out[i].type \in Plain \cup {"torn", "error", "[DONE]"}
      <4>1. \A i \in 1..Len(out) : i \in 1..Len(t.out) \/ i = Len(t.out) + 1
        BY <1>2
      <4> QED BY <1>2, <1>5, <4>1 DEF Final
    <3> QED BY <1>3, <3>1, <3>2 DEF Final
  <2> QED BY <1>2, <1>3, <2>2 DEF Grows
<1> QED BY <1>2, <1>3, <1>4, <1>5 DEF e

LEMMA Enqueued ==
  ASSUME NEW t, Tr(t), NEW frame
  PROVE  LET e == Enqueue(t, frame)
         IN  /\ Tr(e) /\ e.role = t.role /\ e.finish = t.finish
             /\ Len(t.out) \in Nat /\ e.out[Len(t.out) + 1] = frame
BY EnqueuedFacts

LEMMA EnqueuedLength ==
  ASSUME NEW t, Tr(t), NEW frame
  PROVE  LET e == Enqueue(t, frame)
         IN  e.done = t.done /\ Len(e.out) = Len(t.out) + 1
BY EnqueuedFacts

LEMMA EnqueuedKeeps ==
  ASSUME NEW t, Tr(t), NEW frame, NEW i \in 1..Len(t.out)
  PROVE  Enqueue(t, frame).out[i] = t.out[i]
<1> DEFINE out == Append(t.out, frame)
<1>1. out[i] = t.out[i]
  BY OneMoreFrame DEF Tr
<1> HIDE DEF out
<1>2. Enqueue(t, frame).out = out
  BY DEF Enqueue, Tr, out
<1> QED BY <1>1, <1>2

LEMMA EnqueuedGrows ==
  ASSUME NEW t, Tr(t), NEW frame, frame.type \in Plain \cup {"torn", "error"}
  PROVE  Grows(t, Enqueue(t, frame))
BY EnqueuedFacts

LEMMA EnqueuedSent ==
  ASSUME NEW t, Tr(t), NEW frame
  PROVE  \A type : Sent(Enqueue(t, frame), type) =
           Sent(t, type) \cup (IF frame.type = type THEN {Len(t.out) + 1} ELSE {})
BY EnqueuedFacts

-----------------------------------------------------------------------------
\* A translator with other notes and the same frames.
Noted(t, u) ==
  Tr(u) /\ u.out = t.out /\ u.done = t.done

LEMMA NotedFacts ==
  ASSUME NEW t, NEW u, Noted(t, u)
  PROVE  /\ \A type : Sent(u, type) = Sent(t, type)
         /\ Fresh(t) <=> Fresh(u)
         /\ Final(t) <=> Final(u)
         /\ Tr(t) => Grows(t, u)
<1>1. \A type : Sent(u, type) = Sent(t, type)
  BY DEF Noted, Sent
<1>2. Fresh(t) <=> Fresh(u)
  BY <1>1 DEF Noted, Fresh
<1>3. Final(t) <=> Final(u)
  BY <1>1 DEF Noted, Final
<1>4. Tr(t) => Grows(t, u)
  BY <1>3, LenProperties DEF Noted, Grows, Tr, Sequence
<1> QED BY <1>1, <1>2, <1>3, <1>4

LEMMA NoteTaken ==
  ASSUME NEW t, Tr(t)
  PROVE  /\ LET u == [t EXCEPT !.role = TRUE]
            IN  Noted(t, u) /\ u.role /\ u.finish = t.finish
         /\ LET u == [t EXCEPT !.finish = TRUE]
            IN  Noted(t, u) /\ u.finish /\ u.role = t.role
<1>1. TRUE \in BOOLEAN
  OBVIOUS
<1>2. PICK yes : yes = TRUE
  OBVIOUS
<1>3. ASSUME NEW u, u = [t EXCEPT !.role = yes]
      PROVE  Noted(t, u) /\ u.role = yes /\ u.finish = t.finish
  BY <1>3, <1>2 DEF Noted, Tr
<1>4. ASSUME NEW u, u = [t EXCEPT !.finish = yes]
      PROVE  Noted(t, u) /\ u.finish = yes /\ u.role = t.role
  BY <1>4, <1>2 DEF Noted, Tr
<1> QED BY <1>2, <1>3, <1>4

\* One more chunk, when there is a role and nothing has finished.
LEMMA ChunkAppended ==
  ASSUME NEW t, Tr(t), Ordered(t), Fresh(t), t.role, NEW delta, NEW finish, ~delta.role,
         finish = {} \/ t.finish
  PROVE  LET e == Enqueue(t, Chunk(delta, finish))
         IN  /\ Grows(t, e) /\ Ordered(e) /\ e.role /\ e.finish = t.finish
             /\ finish = {} => Fresh(e)
<1> DEFINE frame == Chunk(delta, finish)
           e == Enqueue(t, frame)
           n == Len(t.out)
<1>1. frame.type = "chunk" /\ frame.delta.role = delta.role /\ frame.finish = finish
  BY DEF Chunk
<1> HIDE DEF frame
<1>2. /\ Tr(e) /\ e.role = t.role /\ e.finish = t.finish
      /\ n \in Nat /\ e.out[n + 1] = frame /\ \A i \in 1..n : e.out[i] = t.out[i]
      /\ Sent(e, "chunk") = Sent(t, "chunk") \cup {n + 1} /\ Sent(e, "usage") = {}
      /\ Grows(t, e)
  <2>1. "chunk" \in Plain \cup {"torn", "error"}
    BY DEF Plain
  <2>2. \A type : Sent(e, type) =
                     Sent(t, type) \cup (IF frame.type = type THEN {n + 1} ELSE {})
    BY EnqueuedSent
  <2>3. Sent(e, "chunk") = Sent(t, "chunk") \cup {n + 1} /\ Sent(e, "usage") = {}
    BY <1>1, <2>2 DEF Fresh
  <2>4. /\ Tr(e) /\ e.role = t.role /\ e.finish = t.finish /\ Grows(t, e)
        /\ n \in Nat /\ e.out[n + 1] = frame /\ \A i \in 1..n : e.out[i] = t.out[i]
    <3>1. frame.type \in Plain \cup {"torn", "error"}
      BY <1>1, <2>1
    <3>2. \A i \in 1..n : e.out[i] = t.out[i]
      BY EnqueuedKeeps
    <3>3. e.out[n + 1] = frame
      BY Enqueued
    <3> QED BY <3>1, <3>2, <3>3, Enqueued, EnqueuedGrows
  <2> QED BY <2>3, <2>4
<1> HIDE DEF e
<1>3. Sent(t, "chunk") \subseteq 1..n /\ Sent(t, "chunk") # {}
  BY DEF Sent, Ordered
<1> HIDE DEF n
<1>4. \A i \in Sent(e, "chunk") : e.out[i].delta.role <=> \A j \in Sent(e, "chunk") : i <= j
  <2>1. ASSUME NEW i \in Sent(t, "chunk")
        PROVE  e.out[i].delta.role <=> \A j \in Sent(e, "chunk") : i <= j
    <3>1. e.out[i] = t.out[i] /\ i <= n + 1
      BY <1>2, <1>3
    <3>2. e.out[i].delta.role <=> \A j \in Sent(t, "chunk") : i <= j
      BY <3>1 DEF Ordered
    <3> QED BY <1>2, <3>1, <3>2
  <2>2. ~e.out[n + 1].delta.role /\ \E j \in Sent(e, "chunk") : ~(n + 1 <= j)
    <3>1. PICK j \in Sent(t, "chunk") : j \in 1..n
      BY <1>3
    <3>2. ~(n + 1 <= j) /\ j \in Sent(e, "chunk")
      BY <1>2, <3>1
    <3> QED BY <1>1, <1>2, <3>2
  <2> QED BY <1>2, <2>1, <2>2
<1>5. \A i \in Sent(t, "chunk") : e.out[i].finish = {}
  BY <1>2, <1>3 DEF Fresh
<1>6. \A i, j \in Sent(e, "chunk") : e.out[i].finish # {} => j <= i
  <2>1. \A j \in Sent(e, "chunk") : j <= n + 1
    BY <1>2, <1>3
  <2> QED BY <1>2, <1>5, <2>1
<1>7. finish = {} => Fresh(e)
  BY <1>1, <1>2, <1>5 DEF Fresh
<1>8. Ordered(e)
  BY <1>2, <1>4, <1>6, <1>7 DEF Ordered
<1> QED BY <1>2, <1>7, <1>8 DEF e, frame

\* emitRoleOnce.
LEMMA RoleEmitted ==
  ASSUME NEW t, Tr(t)
  PROVE  LET e == EmitRoleOnce(t)
         IN  /\ Grows(t, e) /\ e.role /\ e.finish = t.finish
             /\ Ordered(t) => Ordered(e) /\ (Fresh(t) => Fresh(e))
<1>1. CASE t.role
  <2>1. EmitRoleOnce(t) = t
    BY <1>1 DEF EmitRoleOnce
  <2>2. Noted(t, t)
    BY DEF Noted
  <2> QED BY <1>1, <2>1, <2>2, NotedFacts
<1>2. CASE ~t.role
  <2> DEFINE u == [t EXCEPT !.role = TRUE]
             delta == [NoDelta EXCEPT !.role = TRUE]
             frame == Chunk(delta, {})
             e == Enqueue(u, frame)
             n == Len(u.out)
  <2>1. EmitRoleOnce(t) = e
    BY <1>2 DEF EmitRoleOnce
  <2>2. Noted(t, u) /\ u.role /\ u.finish = t.finish
    BY NoteTaken
  <2>3. frame.type = "chunk" /\ frame.delta.role /\ frame.finish = {}
    BY DEF Chunk, NoDelta
  <2>4. Tr(u) /\ Grows(t, u) /\ \A type : Sent(u, type) = Sent(t, type)
    BY <2>2, NotedFacts DEF Noted
  <2> HIDE DEF u, frame
  <2>5. /\ Tr(e) /\ e.role /\ e.finish = t.finish /\ Grows(u, e)
        /\ n \in Nat /\ e.out[n + 1] = frame
        /\ Sent(e, "chunk") = Sent(t, "chunk") \cup {n + 1} /\ Sent(e, "usage") = Sent(t, "usage")
    <3>1. "chunk" \in Plain \cup {"torn", "error"}
      BY DEF Plain
    <3>2. \A type : Sent(e, type) =
                       Sent(u, type) \cup (IF frame.type = type THEN {n + 1} ELSE {})
      BY <2>4, EnqueuedSent
    <3>3. Sent(e, "chunk") = Sent(t, "chunk") \cup {n + 1} /\ Sent(e, "usage") = Sent(t, "usage")
      BY <2>3, <2>4, <3>2
    <3>4. /\ Tr(e) /\ e.role = u.role /\ e.finish = u.finish /\ Grows(u, e)
          /\ n \in Nat /\ e.out[n + 1] = frame
      BY <2>3, <2>4, <3>1, Enqueued, EnqueuedGrows
    <3> QED BY <2>2, <3>3, <3>4
  <2>6. Grows(t, e)
    BY <2>4, <2>5, GrowsTwice
  <2> HIDE DEF e, n
  <2>7. ASSUME Ordered(t)
        PROVE  Ordered(e) /\ Fresh(e)
    <3>1. Sent(e, "chunk") = {n + 1} /\ Sent(e, "usage") = {}
      BY <1>2, <2>5, <2>7 DEF Ordered
    <3> QED BY <2>3, <2>5, <3>1 DEF Ordered, Fresh
  <2> QED BY <2>1, <2>5, <2>6, <2>7
<1> QED BY <1>1, <1>2 DEF Tr

\* emitDelta.
LEMMA DeltaEmitted ==
  ASSUME NEW t, Tr(t), NEW delta, ~delta.role
  PROVE  LET e == EmitDelta(t, delta)
         IN  /\ Grows(t, e) /\ e.finish = t.finish /\ e.role
             /\ Ordered(t) /\ ~t.finish => Ordered(e)
<1> DEFINE u == EmitRoleOnce(t)
           frame == Chunk(delta, {})
           e == Enqueue(u, frame)
<1>1. EmitDelta(t, delta) = e
  BY DEF EmitDelta
<1>2. /\ Grows(t, u) /\ u.role /\ u.finish = t.finish
      /\ Ordered(t) => Ordered(u) /\ (Fresh(t) => Fresh(u))
  BY RoleEmitted
<1>3. Tr(u)
  BY <1>2 DEF Grows
<1> HIDE DEF u
<1>4. frame.type \in Plain \cup {"torn", "error"}
  BY DEF Chunk, Plain
<1>5. Grows(u, e) /\ e.finish = u.finish /\ e.role = u.role
  <2> HIDE DEF frame
  <2> QED BY <1>3, <1>4, Enqueued, EnqueuedGrows
<1>6. Grows(t, e)
  BY <1>2, <1>5, GrowsTwice
<1>7. ASSUME Ordered(t), ~t.finish
      PROVE  Ordered(e)
  <2>1. Ordered(u) /\ Fresh(u)
    BY <1>2, <1>7 DEF Ordered
  <2> QED BY <1>2, <1>3, <2>1, ChunkAppended
<1> QED BY <1>1, <1>2, <1>5, <1>6, <1>7

\* emitFinishOnce.
LEMMA FinishEmitted ==
  ASSUME NEW t, Tr(t)
  PROVE  LET e == EmitFinishOnce(t)
         IN  /\ Grows(t, e) /\ e.finish
             /\ Ordered(t) /\ (t.finish => t.role) => Ordered(e) /\ e.role
<1>1. CASE t.finish
  <2>1. EmitFinishOnce(t) = t
    BY <1>1 DEF EmitFinishOnce
  <2>2. Noted(t, t)
    BY DEF Noted
  <2> QED BY <1>1, <2>1, <2>2, NotedFacts
<1>2. CASE ~t.finish
  <2> DEFINE u == [t EXCEPT !.finish = TRUE]
             v == EmitRoleOnce(u)
             finish == IF t.reason # {} THEN t.reason ELSE {"stop"}
             frame == Chunk(NoDelta, finish)
             e == Enqueue(v, frame)
  <2>1. EmitFinishOnce(t) = e
    BY <1>2 DEF EmitFinishOnce
  <2>2. Noted(t, u) /\ u.finish /\ u.role = t.role
    BY NoteTaken
  <2>3. Tr(u) /\ Grows(t, u) /\ (Fresh(t) <=> Fresh(u)) /\ \A type : Sent(u, type) = Sent(t, type)
    BY <2>2, NotedFacts DEF Noted
  <2>4. Ordered(t) => Ordered(u) /\ Fresh(u)
    BY <1>2, <2>2, <2>3 DEF Ordered, Noted
  <2> HIDE DEF u
  <2>5. /\ Grows(u, v) /\ v.role /\ v.finish = u.finish
        /\ Ordered(u) => Ordered(v) /\ (Fresh(u) => Fresh(v))
    BY <2>3, RoleEmitted
  <2>6. Tr(v)
    BY <2>5 DEF Grows
  <2> HIDE DEF v, finish
  <2>7. frame.type \in Plain \cup {"torn", "error"} /\ ~NoDelta.role
    BY DEF Chunk, Plain, NoDelta
  <2>8. Grows(v, e) /\ e.finish = v.finish /\ e.role = v.role
    <3> HIDE DEF frame
    <3> QED BY <2>6, <2>7, Enqueued, EnqueuedGrows
  <2>9. Grows(t, e)
    BY <2>3, <2>5, <2>8, GrowsTwice
  <2>10. ASSUME Ordered(t)
         PROVE  Ordered(e)
    <3>1. Ordered(v) /\ Fresh(v)
      BY <2>4, <2>5, <2>10
    <3> QED BY <2>2, <2>5, <2>6, <2>7, <3>1, ChunkAppended
  <2> QED BY <2>1, <2>2, <2>5, <2>8, <2>9, <2>10
<1> QED BY <1>1, <1>2 DEF Tr

LEMMA UsageEmitted ==
  ASSUME NEW t, Tr(t)
  PROVE  LET e == EmitUsage(t)
         IN  /\ Grows(t, e) /\ e.role = t.role /\ e.finish = t.finish
             /\ Ordered(t) /\ t.finish /\ t.role => Ordered(e)
<1>1. CASE Counted(t) = {}
  <2>1. EmitUsage(t) = t
    BY <1>1 DEF EmitUsage
  <2>2. Noted(t, t)
    BY DEF Noted
  <2> QED BY <2>1, <2>2, NotedFacts
<1>2. CASE Counted(t) # {}
  <2> DEFINE usage == CHOOSE u \in Counted(t) : TRUE
             frame == UsageChunk(usage)
             e == Enqueue(t, frame)
             n == Len(t.out)
  <2>1. EmitUsage(t) = e
    BY <1>2, Zenon DEF EmitUsage
  <2>2. frame.type = "usage" /\ frame.type \in Plain \cup {"torn", "error"}
    BY DEF UsageChunk, Plain
  <2> HIDE DEF frame
  <2>3. Grows(t, e) /\ e.role = t.role /\ e.finish = t.finish /\ n \in Nat
    BY <2>2, Enqueued, EnqueuedGrows
  <2>4. \A type : Sent(e, type) =
                    Sent(t, type) \cup (IF frame.type = type THEN {n + 1} ELSE {})
    BY EnqueuedSent
  <2>5. Sent(e, "chunk") = Sent(t, "chunk") /\ Sent(e, "usage") = Sent(t, "usage") \cup {n + 1}
    BY <2>2, <2>4
  <2>6. \A i \in 1..n : e.out[i] = t.out[i]
    BY EnqueuedKeeps
  <2> HIDE DEF e, n
  <2>7. Sent(t, "chunk") \subseteq 1..n
    BY DEF Sent, n
  <2>8. ASSUME Ordered(t), t.finish, t.role
        PROVE  Ordered(e)
    <3>1. \A i \in Sent(t, "chunk") : e.out[i] = t.out[i] /\ i < n + 1
      BY <2>3, <2>6, <2>7
    <3>2. e.finish /\ e.role
      BY <2>3, <2>8
    <3>3. \A i \in Sent(e, "chunk") :
            e.out[i].delta.role <=> \A j \in Sent(e, "chunk") : i <= j
      BY <2>5, <2>8, <3>1 DEF Ordered
    <3>4. \A i, j \in Sent(e, "chunk") : e.out[i].finish # {} => j <= i
      BY <2>5, <2>8, <3>1 DEF Ordered
    <3>5. \A i \in Sent(e, "usage"), j \in Sent(e, "chunk") : j < i
      BY <2>5, <2>8, <3>1 DEF Ordered
    <3> QED BY <2>5, <2>8, <3>2, <3>3, <3>4, <3>5 DEF Ordered
  <2> QED BY <2>1, <2>3, <2>8
<1> QED BY <1>1, <1>2

\* emitTerminal: whatever was sent stays, and the terminator ends it.
LEMMA TerminalEmitted ==
  ASSUME NEW t, Tr(t), Final(t)
  PROVE  LET e == EmitTerminal(t)
         IN  /\ Tr(e) /\ Final(e) /\ e.done
             /\ Len(t.out) \in Nat /\ Len(t.out) <= Len(e.out)
             /\ \A i \in 1..Len(t.out) : e.out[i] = t.out[i]
             /\ Ordered(t) /\ (t.finish => t.role) => Ordered(e) /\ (e.finish => e.role)
<1>0. Len(t.out) \in Nat
  BY LenProperties DEF Tr, Sequence
<1>1. CASE t.done
  <2>1. EmitTerminal(t) = t
    BY <1>1 DEF EmitTerminal
  <2> QED BY <1>0, <1>1, <2>1
<1>2. CASE ~t.done
  <2> DEFINE u == EmitFinishOnce(t)
             v == EmitUsage(u)
             w == [v EXCEPT !.done = TRUE]
             e == Enqueue(w, Done)
             n == Len(w.out)
  <2>1. EmitTerminal(t) = e
    BY <1>2 DEF EmitTerminal
  <2>2. /\ Grows(t, u) /\ u.finish
        /\ Ordered(t) /\ (t.finish => t.role) => Ordered(u) /\ u.role
    BY FinishEmitted
  <2>3. Tr(u)
    BY <2>2 DEF Grows
  <2> HIDE DEF u
  <2>4. /\ Grows(u, v) /\ v.role = u.role /\ v.finish = u.finish
        /\ Ordered(u) /\ u.finish /\ u.role => Ordered(v)
    BY <2>3, UsageEmitted
  <2>5. Tr(v) /\ Grows(t, v)
    BY <2>2, <2>4, GrowsTwice DEF Grows
  <2> HIDE DEF v
  <2>6. /\ Tr(w) /\ w.done /\ w.role = v.role /\ w.finish = v.finish /\ w.out = v.out
    <3>1. PICK yes : yes = TRUE
      OBVIOUS
    <3>2. ASSUME NEW x, x = [v EXCEPT !.done = yes]
          PROVE  Tr(x) /\ x.done = yes /\ x.role = v.role /\ x.finish = v.finish /\ x.out = v.out
      BY <2>5, <3>1, <3>2 DEF Tr
    <3> QED BY <3>1, <3>2
  <2>7. \A type : Sent(w, type) = Sent(v, type)
    BY <2>6 DEF Sent
  <2> HIDE DEF w
  <2>8. /\ Tr(e) /\ e.role = w.role /\ e.finish = w.finish /\ n \in Nat
    BY <2>6, Enqueued
  <2>9. e.done /\ Len(e.out) = n + 1 /\ e.out[n + 1] = Done
    BY <2>6, Enqueued, EnqueuedLength
  <2>10. \A i \in 1..n : e.out[i] = w.out[i]
    BY <2>6, EnqueuedKeeps
  <2>11. Done.type = "[DONE]"
    BY DEF Done
  <2>12. \A type : Sent(e, type) =
                     Sent(w, type) \cup (IF "[DONE]" = type THEN {n + 1} ELSE {})
    BY <2>6, <2>11, EnqueuedSent
  <2>13. /\ Sent(e, "chunk") = Sent(v, "chunk") /\ Sent(e, "usage") = Sent(v, "usage")
         /\ Sent(e, "[DONE]") = Sent(v, "[DONE]") \cup {n + 1}
    BY <2>7, <2>12
  <2> HIDE DEF e
  <2>14. Final(v) /\ ~v.done
    BY <1>2, <2>5 DEF Grows
  <2>15. n = Len(v.out)
    BY <2>6
  <2> HIDE DEF n
  <2>16. Final(e)
    <3>1. Sent(e, "[DONE]") = {Len(e.out)}
      BY <2>9, <2>13, <2>14 DEF Final
    <3>2. \A i \in 1..Len(e.out) : e.out[i].type \in Plain \cup {"torn", "error", "[DONE]"}
      <4>1. \A i \in 1..Len(e.out) : i \in 1..n \/ i = n + 1
        BY <2>8, <2>9
      <4>2. \A i \in 1..n : e.out[i] = v.out[i] /\ i \in 1..Len(v.out)
        BY <2>6, <2>10, <2>15
      <4> QED BY <2>9, <2>11, <2>14, <4>1, <4>2 DEF Final
    <3> QED BY <2>9, <3>1, <3>2 DEF Final
  <2>17. /\ Len(t.out) <= Len(e.out)
         /\ \A i \in 1..Len(t.out) : e.out[i] = t.out[i]
    <3>1. Len(t.out) <= n /\ \A i \in 1..Len(t.out) : v.out[i] = t.out[i]
      BY <2>5, <2>15 DEF Grows
    <3>2. \A i \in 1..Len(t.out) : i \in 1..n
      BY <1>0, <2>8, <3>1
    <3> QED BY <1>0, <2>6, <2>8, <2>9, <2>10, <3>1, <3>2
  <2>18. ASSUME Ordered(t), t.finish => t.role
         PROVE  Ordered(e) /\ (e.finish => e.role)
    <3>1. Ordered(v) /\ v.role /\ v.finish
      BY <2>2, <2>4, <2>18
    <3>2. \A i \in Sent(v, "chunk") : e.out[i] = v.out[i]
      BY <2>6, <2>10, <2>15 DEF Sent
    <3>3. e.role /\ e.finish
      BY <2>6, <2>8, <3>1
    <3>4. \A i \in Sent(e, "chunk") :
            e.out[i].delta.role <=> \A j \in Sent(e, "chunk") : i <= j
      BY <2>13, <3>1, <3>2 DEF Ordered
    <3>5. \A i, j \in Sent(e, "chunk") : e.out[i].finish # {} => j <= i
      BY <2>13, <3>1, <3>2 DEF Ordered
    <3>6. \A i \in Sent(e, "usage"), j \in Sent(e, "chunk") : j < i
      BY <2>13, <3>1 DEF Ordered
    <3> QED BY <2>13, <3>1, <3>3, <3>4, <3>5, <3>6 DEF Ordered
  <2> QED BY <1>0, <2>1, <2>8, <2>9, <2>16, <2>17, <2>18
<1> QED BY <1>1, <1>2 DEF Tr

-----------------------------------------------------------------------------
Orderly(t) == Ordered(t) /\ (t.finish => t.role)

Deltas == {"content_block_start", "text_delta", "input_json_delta"}

\* What a frame of the Anthropic wire, or one that goes on as it is, does.
LEMMA Relayed ==
  ASSUME NEW t, Tr(t), NEW frame, frame.type \in Plain \cup {"torn", "error"}
  PROVE  LET e == Enqueue(t, frame)
         IN  /\ Grows(t, e) /\ e.finish = t.finish
             /\ Orderly(t) /\ frame.type \in {"torn", "error"} => Orderly(e)
<1> DEFINE e == Enqueue(t, frame)
           n == Len(t.out)
<1>1. Tr(e) /\ Grows(t, e) /\ e.role = t.role /\ e.finish = t.finish
  BY Enqueued, EnqueuedGrows
<1>2. \A type : Sent(e, type) =
                  Sent(t, type) \cup (IF frame.type = type THEN {n + 1} ELSE {})
  BY EnqueuedSent
<1>3. \A i \in 1..n : e.out[i] = t.out[i]
  BY EnqueuedKeeps
<1> HIDE DEF e
<1>4. ASSUME Orderly(t), frame.type \in {"torn", "error"}
      PROVE  Orderly(e)
  <2>1. Sent(e, "chunk") = Sent(t, "chunk") /\ Sent(e, "usage") = Sent(t, "usage")
    BY <1>2, <1>4
  <2>2. \A i \in Sent(t, "chunk") : e.out[i] = t.out[i]
    BY <1>3 DEF Sent
  <2>3. Ordered(t) /\ (e.finish => e.role)
    BY <1>1, <1>4 DEF Orderly
  <2>4. /\ \A i \in Sent(e, "chunk") :
             e.out[i].delta.role <=> \A j \in Sent(e, "chunk") : i <= j
        /\ \A i, j \in Sent(e, "chunk") : e.out[i].finish # {} => j <= i
        /\ \A i \in Sent(e, "usage"), j \in Sent(e, "chunk") : j < i
    BY <2>1, <2>2, <2>3 DEF Ordered
  <2>5. ~e.finish => Fresh(e)
    BY <1>1, <2>1, <2>2, <2>3 DEF Ordered, Fresh
  <2>6. /\ e.role <=> Sent(e, "chunk") # {}
        /\ Sent(e, "usage") # {} => e.role
    BY <1>1, <2>1, <2>3 DEF Ordered
  <2>7. Ordered(e)
    BY <2>4, <2>5, <2>6 DEF Ordered
  <2> QED BY <2>3, <2>7 DEF Orderly
<1> QED BY <1>1, <1>4 DEF e

LEMMA OrderlyNote ==
  ASSUME NEW t, NEW u, Noted(t, u), u.role = t.role, u.finish = t.finish
  PROVE  Ordered(t) <=> Ordered(u)
<1>1. u.out = t.out /\ (Fresh(t) <=> Fresh(u)) /\ \A type : Sent(u, type) = Sent(t, type)
  BY NotedFacts DEF Noted
<1> QED BY <1>1 DEF Ordered

\* A frame that goes on as it is, and an error that only its label tells of.
LEMMA RelayedAsItIs ==
  ASSUME NEW t, NEW frame, frame.type \in {"torn", "error", "chunk", "usage"}
  PROVE  HandleData(t, frame) = Enqueue(t, frame)
<1>1. frame.type # "labelled"
  OBVIOUS
<1>2. HandleData(t, frame) = Relay(t, frame)
  BY Zenon DEF HandleData
<1> QED BY <1>1, <1>2, Zenon DEF Relay

LEMMA LabelLost ==
  ASSUME NEW t, NEW frame, frame.type = "labelled"
  PROVE  HandleData(t, frame) \in {t, Enqueue(t, Torn)}
<1>1. HandleData(t, frame) = Relay(t, frame)
  BY Zenon DEF HandleData
<1> QED BY <1>1, Zenon DEF Relay

\* handleData, for every frame but a terminator and a lost label.
LEMMA Handled ==
  ASSUME NEW t, Tr(t), NEW frame, frame.type \in Plain \cup {"torn", "error"}
  PROVE  LET e == HandleData(t, frame)
         IN  /\ Grows(t, e)
             /\ Orderly(t) /\ frame.type \notin {"chunk", "usage"}
                /\ (frame.type \in Deltas => ~t.finish)
                  => Orderly(e) /\ (frame.type # "message_delta" => e.finish = t.finish)
<1> DEFINE e == HandleData(t, frame)
           Fine(x) == /\ Grows(t, x)
                      /\ Orderly(t) /\ ~t.finish => Orderly(x) /\ x.finish = t.finish
<1>1. CASE frame.type \in {"torn", "error", "chunk", "usage"}
  <2>1. e = Enqueue(t, frame)
    BY <1>1, RelayedAsItIs
  <2> QED BY <1>1, <2>1, Relayed DEF Deltas
<1>2. CASE frame.type = "message_start"
  <2> DEFINE u == [t EXCEPT !.input = frame.usage]
             v == EmitRoleOnce(u)
  <2>1. e = v
    BY <1>2, Zenon DEF HandleData
  <2>2. Noted(t, u) /\ u.role = t.role /\ u.finish = t.finish
    BY DEF Noted, Tr
  <2>3. Tr(u) /\ Grows(t, u) /\ (Ordered(t) <=> Ordered(u))
    BY <2>2, NotedFacts, OrderlyNote DEF Noted
  <2> HIDE DEF u
  <2>4. Grows(u, v) /\ v.role /\ v.finish = u.finish /\ (Ordered(u) => Ordered(v))
    BY <2>3, RoleEmitted
  <2>5. Grows(t, v)
    BY <2>3, <2>4, GrowsTwice
  <2> HIDE DEF v
  <2> QED BY <1>2, <2>1, <2>2, <2>3, <2>4, <2>5 DEF Orderly
<1>3. CASE frame.type \in Deltas
  <2>1. ASSUME NEW u, Noted(t, u), u.role = t.role, u.finish = t.finish,
               NEW delta, ~delta.role
        PROVE  Fine(EmitDelta(u, delta))
    <3> DEFINE v == EmitDelta(u, delta)
    <3>1. Tr(u) /\ Grows(t, u) /\ (Ordered(t) <=> Ordered(u))
      BY <2>1, NotedFacts, OrderlyNote DEF Noted
    <3>2. /\ Grows(u, v) /\ v.finish = u.finish /\ v.role
          /\ Ordered(u) /\ ~u.finish => Ordered(v)
      BY <2>1, <3>1, DeltaEmitted
    <3>3. Grows(t, v)
      BY <3>1, <3>2, GrowsTwice
    <3> HIDE DEF v
    <3>4. Orderly(t) /\ ~t.finish => Orderly(v) /\ v.finish = t.finish
      BY <2>1, <3>1, <3>2 DEF Orderly
    <3> QED BY <3>3, <3>4 DEF v
  <2>2. Noted(t, t) /\ Fine(t)
    <3>1. Noted(t, t)
      BY DEF Noted
    <3> QED BY <3>1, NotedFacts
  <2>3. ~NoDelta.role
    BY DEF NoDelta
  <2>4. Fine(e)
    <3>1. CASE frame.type = "text_delta"
      <4>1. e = EmitDelta(t, [NoDelta EXCEPT !.text = <<frame.piece>>])
        BY <3>1, Zenon DEF HandleData
      <4>2. ~[NoDelta EXCEPT !.text = <<frame.piece>>].role
        BY DEF NoDelta
      <4> HIDE DEF e, Fine
      <4> QED BY <2>1, <2>2, <4>1, <4>2
    <3>2. CASE frame.type = "content_block_start"
      <4>1. e = TranslateBlock(t, frame)
        BY <3>2, Zenon DEF HandleData
      <4>2. CASE frame.kind # "tool_use"
        <5>1. e = t
          BY <4>1, <4>2 DEF TranslateBlock
        <5> HIDE DEF e, Fine
        <5> QED BY <2>2, <5>1
      <4>3. CASE frame.kind = "tool_use"
        <5> DEFINE slots == Put(t.slots, Index(frame), t.next)
                   next == t.next + 1
                   u == [t EXCEPT !.slots = slots, !.next = next]
                   delta == [NoDelta EXCEPT !.calls = <<Fragment({t.next}, frame.id, <<>>)>>]
        <5>1. e = EmitDelta(u, delta)
          BY <4>1, <4>3, Zenon DEF TranslateBlock
        <5> HIDE DEF slots, next
        <5>2. Noted(t, u) /\ u.role = t.role /\ u.finish = t.finish
          <6>1. ASSUME NEW x, x = [t EXCEPT !.slots = slots, !.next = next]
                PROVE  Noted(t, x) /\ x.role = t.role /\ x.finish = t.finish
            BY <6>1 DEF Noted, Tr
          <6> QED BY <6>1
        <5>3. ~delta.role
          BY DEF NoDelta
        <5> HIDE DEF e, Fine, u, delta
        <5> QED BY <2>1, <5>1, <5>2, <5>3
      <4> QED BY <4>2, <4>3
    <3>3. CASE frame.type = "input_json_delta"
      <4>1. e = TranslateJson(t, frame)
        BY <3>3, Zenon DEF HandleData
      <4> DEFINE delta == [NoDelta EXCEPT !.calls =
                             <<Fragment({t.slots[Index(frame)]}, {}, <<frame.piece>>)>>]
      <4>2. e = t \/ e = EmitDelta(t, delta)
        BY <4>1, Zenon DEF TranslateJson
      <4>3. ~delta.role
        BY DEF NoDelta
      <4> HIDE DEF e, Fine, delta
      <4> QED BY <2>1, <2>2, <4>2, <4>3
    <3> QED BY <1>3, <3>1, <3>2, <3>3 DEF Deltas
  <2> QED BY <1>3, <2>4 DEF Deltas
<1>4. CASE frame.type = "message_delta"
  <2> DEFINE reason == Over(Answer!FinishOf(frame.stop), t.reason)
             u == [t EXCEPT !.reason = reason, !.output = frame.usage]
             v == EmitFinishOnce(u)
  <2>1. e = v
    BY <1>4, Zenon DEF HandleData, TranslateEnd
  <2> HIDE DEF reason
  <2>2. Noted(t, u) /\ u.role = t.role /\ u.finish = t.finish
    <3>1. ASSUME NEW x, x = [t EXCEPT !.reason = reason, !.output = frame.usage]
          PROVE  Noted(t, x) /\ x.role = t.role /\ x.finish = t.finish
      BY <3>1 DEF Noted, Tr
    <3> QED BY <3>1
  <2>3. Tr(u) /\ Grows(t, u) /\ (Ordered(t) <=> Ordered(u))
    BY <2>2, NotedFacts, OrderlyNote DEF Noted
  <2> HIDE DEF u
  <2>4. /\ Grows(u, v) /\ v.finish
        /\ Ordered(u) /\ (u.finish => u.role) => Ordered(v) /\ v.role
    BY <2>3, FinishEmitted
  <2>5. Grows(t, v)
    BY <2>3, <2>4, GrowsTwice
  <2> HIDE DEF v
  <2> QED BY <1>4, <2>1, <2>2, <2>3, <2>4, <2>5 DEF Orderly
<1> QED BY <1>1, <1>2, <1>3, <1>4 DEF Plain, Deltas

-----------------------------------------------------------------------------
\* What the line that has not ended may hold.
Awaits(frame) ==
  /\ phase # "start"
  /\ phase = "answer"  => frame.type \in IF Claude THEN Deltas \cup {"message_start"} ELSE {"chunk"}
  /\ phase = "stopped" => frame.type \in IF Claude THEN {"message_delta"} ELSE {"chunk"}
  /\ phase = "counted" => frame.type = "usage" /\ ~Claude
  /\ phase = "ending"  => frame.type \in {"message_stop", "[DONE]"}
  /\ phase = "failing" => frame.type \in {"error", "labelled"}

Phases == {"start", "answer", "stopped", "counted", "ending", "failing"} \cup Ended

SourceInv ==
  /\ phase \in Phases /\ (phase = "start" => Claude)
  /\ Sequence(source) /\ taken \in Nat /\ taken \in {Len(source) - 1, Len(source)}
  /\ phase \notin Ended /\ taken # Len(source) => Awaits(Last(source))

\* The translator has sent its terminator when the stream ended or its own was read;
\* an Anthropic answer that goes on is not finished, and one that failed with an error in
\* its frame has said so.
TranslatorInv ==
  /\ Tr(tr) /\ Final(tr)
  /\ tr.done <=> phase \in Ended \/ (phase = "ending" /\ taken = Len(source))
  /\ Claude => Orderly(tr) /\ (phase \in {"start", "answer"} => ~tr.finish)
  /\ (phase = "failed" \/ (phase = "failing" /\ taken = Len(source))) /\ Last(source).type = "error" =>
       Sent(tr, "error") # {}

IInv == SourceInv /\ TranslatorInv

LEMMA InitInv == Init => IInv
<1> SUFFICES ASSUME Init PROVE IInv
  OBVIOUS
<1>1. source = <<>> /\ taken = 0 /\ tr = NewTranslator /\ phase \in {"start", "answer"}
      /\ (phase = "start" => Claude)
  BY DEF Init, Claude
<1>2. <<>> \in Seq({}) /\ Len(<<>>) = 0
  OBVIOUS
<1>3. SourceInv
  BY <1>1, <1>2 DEF SourceInv, Phases, Ended, Sequence
<1>4. /\ Tr(tr) /\ tr.out = <<>> /\ ~tr.done /\ ~tr.finish /\ ~tr.role
  <2>1. PICK no : no = FALSE
    OBVIOUS
  <2>2. /\ tr.role = no /\ tr.finish = no /\ tr.done = no /\ tr.out = <<>>
    BY <1>1, <2>1 DEF NewTranslator
  <2>3. Sequence(tr.out)
    BY <1>2, <2>2 DEF Sequence
  <2>4. tr = [role |-> tr.role, finish |-> tr.finish, done |-> tr.done, input |-> tr.input,
              output |-> tr.output, reason |-> tr.reason, slots |-> tr.slots, next |-> tr.next,
              out |-> tr.out]
    BY <1>1, Zenon DEF NewTranslator
  <2> QED BY <2>1, <2>2, <2>3, <2>4 DEF Tr
<1>5. \A type : Sent(tr, type) = {}
  BY <1>2, <1>4 DEF Sent
<1>6. Final(tr)
  BY <1>2, <1>4, <1>5 DEF Final
<1>7. Orderly(tr)
  BY <1>4, <1>5 DEF Orderly, Ordered, Fresh
<1>8. phase \notin Ended \cup {"ending", "failing"} /\ phase # "failed"
  BY <1>1 DEF Ended
<1> QED BY <1>3, <1>4, <1>6, <1>7, <1>8 DEF IInv, TranslatorInv

\* What is left of the source.
LEMMA PendingFacts ==
  ASSUME SourceInv
  PROVE  /\ Len(source) \in Nat
         /\ taken = Len(source) => Pending = <<>>
         /\ taken # Len(source) => Pending # <<>> /\ Last(Pending) = Last(source)
                                   /\ taken + 1 = Len(source)
<1>1. PICK S : source \in Seq(S)
  BY DEF SourceInv, Sequence
<1>2. /\ Len(source) \in Nat /\ taken \in Nat
      /\ \A i \in 1..Len(source) : source[i] \in S
  BY <1>1, LenProperties, ElementOfSeq DEF SourceInv
<1>3. ASSUME taken = Len(source)
      PROVE  Pending = <<>>
  BY <1>2, <1>3, SubSeqEmpty DEF Pending
<1>4. ASSUME taken # Len(source)
      PROVE  Pending # <<>> /\ Last(Pending) = Last(source) /\ taken + 1 = Len(source)
  <2> DEFINE n == Len(source)
  <2>1. taken + 1 = n /\ n \in 1..n
    BY <1>2, <1>4 DEF SourceInv
  <2>2. Pending = SubSeq(source, n, n)
    BY <2>1 DEF Pending
  <2>3. /\ Len(SubSeq(source, n, n)) = 1 /\ SubSeq(source, n, n)[1] = source[n]
        /\ SubSeq(source, n, n) \in Seq(S)
    <3>1. \A i \in n..n : source[i] \in S
      BY <1>2, <2>1
    <3>2. n \in Int
      BY <1>2
    <3>3. /\ SubSeq(source, n, n) \in Seq(S)
          /\ Len(SubSeq(source, n, n)) = IF n <= n THEN n - n + 1 ELSE 0
          /\ \A i \in 1..(n - n + 1) : SubSeq(source, n, n)[i] = source[n + i - 1]
      BY <3>1, <3>2, SubSeqProperties
    <3>4. n - n + 1 = 1 /\ n <= n /\ n + 1 - 1 = n
      BY <1>2
    <3> QED BY <3>3, <3>4
  <2> HIDE DEF n
  <2>4. Len(Pending) = 1 /\ Pending[1] = source[n]
    BY <2>2, <2>3
  <2>5. Pending # <<>>
    BY <2>4
  <2> QED BY <2>1, <2>4, <2>5 DEF Last, n
<1> QED BY <1>2, <1>3, <1>4

-----------------------------------------------------------------------------
\* A frame the provider sends, and what it may be.
Given(frame) ==
  /\ taken = Len(source) /\ source' = Append(source, frame)
  /\ UNCHANGED <<wire, taken, tr>>
  /\ phase \in {"start", "answer", "stopped", "counted"}
  /\ phase' \in {"answer", "stopped", "counted", "ending", "failing"}
  /\ phase' = "answer" => phase \in {"start", "answer"}
  /\ Awaits(frame)'

LEMMA GivenIsNext ==
  ASSUME IInv, NEW frame, Send(frame),
         phase \in {"start", "answer", "stopped", "counted"},
         \/ phase = "start" /\ phase' = "answer" /\ frame.type = "message_start"
         \/ phase = "answer" /\ phase' = "answer" /\ Claude /\ frame.type \in Deltas
         \/ phase = "answer" /\ phase' = "answer" /\ ~Claude /\ frame.type = "chunk"
         \/ phase = "answer" /\ phase' = "stopped" /\ Claude /\ frame.type = "message_delta"
         \/ phase = "answer" /\ phase' = "stopped" /\ ~Claude /\ frame.type = "chunk"
         \/ phase' = "counted" /\ ~Claude /\ frame.type = "usage"
         \/ phase' = "ending" /\ frame.type \in {"message_stop", "[DONE]"}
         \/ phase' = "failing" /\ frame.type \in {"error", "labelled"}
  PROVE  Given(frame)
<1>1. taken = Len(source) /\ source' = Append(source, frame) /\ UNCHANGED <<wire, taken, tr>>
  BY DEF Send
<1>2. Claude' = Claude /\ (phase = "start" => Claude)
  BY <1>1 DEF Claude, IInv, SourceInv
<1>3. Awaits(frame)'
  BY <1>2 DEF Awaits
<1>4. /\ phase' \in {"answer", "stopped", "counted", "ending", "failing"}
      /\ phase' = "answer" => phase \in {"start", "answer"}
  OBVIOUS
<1> QED BY <1>1, <1>3, <1>4 DEF Given

LEMMA Provided ==
  ASSUME IInv, Provide
  PROVE  \E frame : Given(frame)
<1>1. ASSUME Start
      PROVE  \E frame : Given(frame)
  <2>1. PICK usage : Send(MessageStart(usage))
    BY <1>1, Zenon DEF Start
  <2>2. phase = "start" /\ phase' = "answer"
    BY <1>1 DEF Start
  <2>3. MessageStart(usage).type = "message_start"
    BY DEF MessageStart
  <2> QED BY <2>1, <2>2, <2>3, GivenIsNext
<1>2. ASSUME OpenText
      PROVE  \E frame : Given(frame)
  <2>1. PICK frame : Send(frame) /\ frame.type \in Deltas
    <3>1. Send(BlockStart(Number(Len(blocks)), "text", {}))
      BY <1>2 DEF OpenText
    <3>2. BlockStart(Number(Len(blocks)), "text", {}).type \in Deltas
      BY DEF BlockStart, Deltas
    <3> QED BY <3>1, <3>2
  <2>2. phase = "answer" /\ phase' = "answer" /\ Claude
    BY <1>2 DEF OpenText
  <2> QED BY <2>1, <2>2, GivenIsNext
<1>3. ASSUME Speak
      PROVE  \E frame : Given(frame)
  <2>1. Send(IF Claude THEN TextDelta(Pieces)
             ELSE Chunk([NoDelta EXCEPT !.text = <<Pieces>>], {}))
    BY <1>3 DEF Speak
  <2>2. phase = "answer" /\ phase' = "answer"
    BY <1>3 DEF Speak
  <2>3. CASE Claude
    <3>1. TextDelta(Pieces).type \in Deltas
      BY DEF TextDelta, Deltas
    <3> QED BY <2>1, <2>2, <2>3, <3>1, GivenIsNext
  <2>4. CASE ~Claude
    <3> DEFINE delta == [NoDelta EXCEPT !.text = <<Pieces>>]
    <3>1. Send(Chunk(delta, {})) /\ Chunk(delta, {}).type = "chunk"
      BY <2>1, <2>4 DEF Chunk
    <3> HIDE DEF delta
    <3> QED BY <2>2, <2>4, <3>1, GivenIsNext
  <2> QED BY <2>3, <2>4
<1>4. ASSUME OpenTwoCalls
      PROVE  \E frame : Given(frame)
  <2>1. PICK delta : Send(Chunk(delta, {}))
    BY <1>4, Zenon DEF OpenTwoCalls
  <2>2. phase = "answer" /\ phase' = "answer" /\ ~Claude
    BY <1>4 DEF OpenTwoCalls
  <2>3. Chunk(delta, {}).type = "chunk"
    BY DEF Chunk
  <2> QED BY <2>1, <2>2, <2>3, GivenIsNext
<1>5. ASSUME Count
      PROVE  \E frame : Given(frame)
  <2>1. PICK usage : Send(UsageChunk(usage))
    BY <1>5, Zenon DEF Count
  <2>2. phase = "stopped" /\ phase' = "counted" /\ ~Claude
    BY <1>5 DEF Count
  <2>3. UsageChunk(usage).type = "usage"
    BY DEF UsageChunk
  <2> QED BY <2>1, <2>2, <2>3, GivenIsNext
<1>6. ASSUME Terminate
      PROVE  \E frame : Given(frame)
  <2>1. PICK frame : Send(frame) /\ frame.type \in {"message_stop", "[DONE]"}
    BY <1>6 DEF Terminate, MessageStop, Done
  <2>2. phase \in {"stopped", "counted"} /\ phase' = "ending"
    BY <1>6 DEF Terminate
  <2> QED BY <2>1, <2>2, GivenIsNext
<1>7. ASSUME Refuse
      PROVE  \E frame : Given(frame)
  <2>1. PICK frame : Send(frame) /\ frame.type \in {"error", "labelled"}
    BY <1>7 DEF Refuse, Error, Labelled
  <2>2. phase \in {"start", "answer", "stopped"} /\ phase' = "failing"
    BY <1>7 DEF Refuse
  <2> QED BY <2>1, <2>2, GivenIsNext
<1>8. ASSUME NEW id \in Ids, OpenCall(id)
      PROVE  \E frame : Given(frame)
  <2>1. phase = "answer" /\ phase' = "answer"
    BY <1>8 DEF OpenCall
  <2>2. CASE Claude
    <3>1. PICK index : Send(BlockStart(index, "tool_use", id))
      BY <1>8, <2>2, Zenon DEF OpenCall
    <3>2. BlockStart(index, "tool_use", id).type \in Deltas
      BY DEF BlockStart, Deltas
    <3> QED BY <2>1, <2>2, <3>1, <3>2, GivenIsNext
  <2>3. CASE ~Claude
    <3>1. PICK delta : Send(Chunk(delta, {}))
      BY <1>8, <2>3, Zenon DEF OpenCall
    <3>2. Chunk(delta, {}).type = "chunk"
      BY DEF Chunk
    <3> QED BY <2>1, <2>3, <3>1, <3>2, GivenIsNext
  <2> QED BY <2>2, <2>3
<1>9. ASSUME NEW k \in 1..Len(calls), NEW again \in BOOLEAN, Argue(k, again)
      PROVE  \E frame : Given(frame)
  <2>1. phase = "answer" /\ phase' = "answer"
    BY <1>9 DEF Argue
  <2>2. CASE Claude
    <3>1. PICK index, piece : Send(JsonDelta(index, piece))
      BY <1>9, <2>2, Zenon DEF Argue
    <3>2. JsonDelta(index, piece).type \in Deltas
      BY DEF JsonDelta, Deltas
    <3> QED BY <2>1, <2>2, <3>1, <3>2, GivenIsNext
  <2>3. CASE ~Claude
    <3>1. PICK delta : Send(Chunk(delta, {}))
      BY <1>9, <2>3, Zenon DEF Argue
    <3>2. Chunk(delta, {}).type = "chunk"
      BY DEF Chunk
    <3> QED BY <2>1, <2>3, <3>1, <3>2, GivenIsNext
  <2> QED BY <2>2, <2>3
<1>10. ASSUME NEW reason \in {"end_turn", "max_tokens", "tool_use"}, Stop(reason)
       PROVE  \E frame : Given(frame)
  <2>1. phase = "answer" /\ phase' = "stopped"
    BY <1>10 DEF Stop
  <2>2. CASE Claude
    <3>1. PICK usage : Send(MessageDelta({reason}, usage))
      BY <1>10, <2>2, Zenon DEF Stop
    <3>2. MessageDelta({reason}, usage).type = "message_delta"
      BY DEF MessageDelta
    <3> QED BY <2>1, <2>2, <3>1, <3>2, GivenIsNext
  <2>3. CASE ~Claude
    <3>1. PICK finish : Send(Chunk(NoDelta, finish))
      BY <1>10, <2>3, Zenon DEF Stop
    <3>2. Chunk(NoDelta, finish).type = "chunk"
      BY DEF Chunk
    <3> QED BY <2>1, <2>3, <3>1, <3>2, GivenIsNext
  <2> QED BY <2>2, <2>3
<1> QED BY <1>1, <1>2, <1>3, <1>4, <1>5, <1>6, <1>7, <1>8, <1>9, <1>10 DEF Provide

LEMMA ProvideInv ==
  ASSUME IInv, Provide
  PROVE  IInv'
<1>1. PICK frame : Given(frame)
  BY Provided
<1>2. Sequence(source) /\ Sequence(source') /\ Len(source) \in Nat /\ Len(source') = Len(source) + 1
      /\ Last(source') = frame
  BY <1>1, OneMoreFrame DEF IInv, SourceInv, Given, Last
<1>3. taken' \in Nat /\ taken' = Len(source') - 1 /\ taken' # Len(source')
  BY <1>1, <1>2 DEF Given
<1>4. phase' \in Phases /\ phase' \notin Ended /\ phase' # "start" /\ phase' # "failed"
      /\ phase \notin Ended /\ phase # "ending"
  BY <1>1 DEF Given, Phases, Ended
<1>5. SourceInv'
  BY <1>1, <1>2, <1>3, <1>4 DEF SourceInv, Given
<1>6. tr' = tr /\ Claude' = Claude
  BY <1>1 DEF Given, Claude
<1>7. Tr(tr') /\ Final(tr') /\ (Sent(tr, "error") = Sent(tr', "error"))
  BY <1>6 DEF IInv, TranslatorInv
<1>8. ~tr'.done
  BY <1>4, <1>6 DEF IInv, TranslatorInv
<1>9. Claude => Orderly(tr') /\ (phase' \in {"start", "answer"} => ~tr'.finish)
  BY <1>1, <1>4, <1>6 DEF IInv, TranslatorInv, Given
<1>10. TranslatorInv'
  BY <1>3, <1>4, <1>6, <1>7, <1>8, <1>9 DEF TranslatorInv
<1> QED BY <1>5, <1>10 DEF IInv

-----------------------------------------------------------------------------
\* The line that was awaited, as the translator reads it.
LEMMA LineRead ==
  ASSUME IInv, phase \notin Ended, taken # Len(source)
  PROVE  LET e == HandleData(tr, Last(source))
         IN  /\ phase = "ending" => e = EmitTerminal(tr)
             /\ phase # "ending" => Grows(tr, e) /\ (Claude => Orderly(e))
             /\ phase = "answer" /\ Claude => ~e.finish
             /\ phase = "failing" /\ Last(source).type = "error" => Sent(e, "error") # {}
<1> DEFINE frame == Last(source)
           e == HandleData(tr, frame)
<1>1. Awaits(frame) /\ Tr(tr) /\ phase \in Phases
  BY DEF IInv, SourceInv, TranslatorInv
<1>2. Claude => Orderly(tr) /\ (phase = "answer" => ~tr.finish)
  BY DEF IInv, TranslatorInv
<1> HIDE DEF frame
<1>3. ASSUME phase = "ending"
      PROVE  e = EmitTerminal(tr)
  <2>1. frame.type \in {"message_stop", "[DONE]"}
    BY <1>1, <1>3 DEF Awaits
  <2> QED BY <2>1, Zenon DEF HandleData
<1>4. ASSUME phase # "ending"
      PROVE  /\ Grows(tr, e) /\ (Claude => Orderly(e))
             /\ phase = "answer" /\ Claude => ~e.finish
  <2>1. phase \in {"answer", "stopped", "counted", "failing"}
    BY <1>1, <1>4 DEF Awaits, Phases
  <2>2. CASE frame.type = "labelled"
    <3>1. e = tr \/ e = Enqueue(tr, Torn)
      BY <2>2, LabelLost
    <3>2. phase = "failing"
      BY <1>1, <2>1, <2>2 DEF Awaits, Deltas
    <3>3. Torn.type = "torn"
      BY DEF Torn
    <3>4. Grows(tr, Enqueue(tr, Torn)) /\ (Orderly(tr) => Orderly(Enqueue(tr, Torn)))
      BY <1>1, <3>3, Relayed
    <3>5. Grows(tr, tr)
      <4>1. Noted(tr, tr)
        BY <1>1 DEF Noted
      <4> QED BY <1>1, <4>1, NotedFacts
    <3> HIDE DEF e
    <3> QED BY <1>2, <3>1, <3>2, <3>4, <3>5
  <2>3. CASE frame.type # "labelled"
    <3>1. frame.type \in Plain \cup {"torn", "error"}
      BY <1>1, <2>1, <2>3 DEF Awaits, Plain, Deltas
    <3>2. Claude => /\ frame.type \notin {"chunk", "usage"}
                    /\ frame.type \in Deltas => phase = "answer"
                    /\ phase = "answer" => frame.type # "message_delta"
      BY <1>1, <2>1 DEF Awaits, Deltas
    <3>3. /\ Grows(tr, e)
          /\ Orderly(tr) /\ frame.type \notin {"chunk", "usage"}
             /\ (frame.type \in Deltas => ~tr.finish)
               => Orderly(e) /\ (frame.type # "message_delta" => e.finish = tr.finish)
      BY <1>1, <3>1, Handled
    <3> HIDE DEF e
    <3> QED BY <1>2, <3>2, <3>3
  <2> QED BY <2>2, <2>3
<1>5. ASSUME frame.type = "error"
      PROVE  Sent(e, "error") # {}
  <2>1. frame.type = "error"
    BY <1>5
  <2>2. e = Enqueue(tr, frame)
    BY <2>1, RelayedAsItIs
  <2>3. Sent(e, "error") = Sent(tr, "error") \cup {Len(tr.out) + 1}
    BY <1>1, <2>1, <2>2, EnqueuedSent
  <2> QED BY <2>3
<1> HIDE DEF e
<1>6. /\ phase = "ending" => e = EmitTerminal(tr)
      /\ phase # "ending" => Grows(tr, e) /\ (Claude => Orderly(e))
      /\ phase = "answer" /\ Claude => ~e.finish
      /\ frame.type = "error" => Sent(e, "error") # {}
  BY <1>3, <1>4, <1>5
<1> QED BY <1>6 DEF e, frame

LEMMA TransformInv ==
  ASSUME IInv, Transform
  PROVE  IInv'
<1>1. /\ phase \notin Ended /\ taken < Len(source) /\ tr' = HandleData(tr, Last(source))
      /\ taken' = Len(source) /\ UNCHANGED <<wire, phase, source>>
  BY DEF Transform
<1>2. Sequence(source) /\ Len(source) \in Nat /\ phase \in Phases /\ (phase = "start" => Claude)
  BY LenProperties DEF IInv, SourceInv, Sequence
<1>3. taken # Len(source) /\ Claude' = Claude
  BY <1>1, <1>2 DEF IInv, SourceInv, Claude
<1>4. SourceInv'
  BY <1>1, <1>2, <1>3 DEF SourceInv
<1>5. /\ phase = "ending" => tr' = EmitTerminal(tr)
      /\ phase # "ending" => Grows(tr, tr') /\ (Claude => Orderly(tr'))
      /\ phase = "answer" /\ Claude => ~tr'.finish
      /\ phase = "failing" /\ Last(source).type = "error" => Sent(tr', "error") # {}
  BY <1>1, <1>3, LineRead
<1>6. Tr(tr) /\ Final(tr) /\ ~tr.done /\ (Claude => Orderly(tr)) /\ phase # "start"
  BY <1>1, <1>3 DEF IInv, TranslatorInv, SourceInv, Awaits
<1>7. TranslatorInv'
  <2>1. CASE phase = "ending"
    <3>1. /\ Tr(tr') /\ Final(tr') /\ tr'.done
          /\ Ordered(tr) /\ (tr.finish => tr.role) => Ordered(tr') /\ (tr'.finish => tr'.role)
      BY <1>5, <1>6, <2>1, TerminalEmitted
    <3>2. Claude => Orderly(tr')
      BY <1>6, <3>1 DEF Orderly
    <3> QED BY <1>1, <1>3, <2>1, <3>1, <3>2 DEF TranslatorInv
  <2>2. CASE phase # "ending"
    <3>1. Tr(tr') /\ Final(tr') /\ ~tr'.done
      BY <1>5, <1>6, <2>2 DEF Grows
    <3>2. phase # "failed"
      BY <1>1 DEF Ended
    <3> QED BY <1>1, <1>3, <1>5, <1>6, <2>2, <3>1, <3>2 DEF TranslatorInv
  <2> QED BY <2>1, <2>2
<1> QED BY <1>4, <1>7 DEF IInv

\* The end of the body, once the line that was left is read.
LEMMA Closed ==
  ASSUME IInv, NEW t, Tr(t), Final(t), Claude => Orderly(t), tr' = EmitTerminal(t),
         phase' \in Ended, phase' = "failed" /\ Last(source).type = "error" => Sent(t, "error") # {},
         UNCHANGED <<wire, source, taken>>
  PROVE  IInv'
<1>1. Claude' = Claude /\ phase' \in Phases /\ phase' \notin {"start", "answer", "failing"}
  BY DEF Claude, Phases, Ended
<1>2. SourceInv'
  BY <1>1 DEF IInv, SourceInv
<1> DEFINE e == EmitTerminal(t)
<1>3. /\ Tr(e) /\ Final(e) /\ e.done
      /\ Len(t.out) \in Nat /\ Len(t.out) <= Len(e.out)
      /\ \A i \in 1..Len(t.out) : e.out[i] = t.out[i]
      /\ Ordered(t) /\ (t.finish => t.role) => Ordered(e) /\ (e.finish => e.role)
  BY TerminalEmitted
<1> HIDE DEF e
<1>4. tr' = e
  BY DEF e
<1>5. Claude => Orderly(e)
  BY <1>3 DEF Orderly
<1>6. phase' = "failed" /\ Last(source).type = "error" => Sent(e, "error") # {}
  <2>1. Len(e.out) \in Nat
    BY <1>3, LenProperties DEF Tr, Sequence
  <2>2. \A i \in 1..Len(t.out) : i \in 1..Len(e.out) /\ e.out[i] = t.out[i]
    BY <1>3, <2>1
  <2>3. Sent(t, "error") \subseteq Sent(e, "error")
    BY <2>2 DEF Sent
  <2> QED BY <2>3
<1>7. TranslatorInv'
  BY <1>1, <1>3, <1>4, <1>5, <1>6 DEF TranslatorInv
<1> QED BY <1>2, <1>7 DEF IInv

LEMMA CloseInv ==
  ASSUME IInv, NEW left \in Lefts, Close(left)
  PROVE  IInv'
<1>1. /\ phase \notin Ended /\ tr' = Flush(tr, left) /\ UNCHANGED <<wire, source, taken>>
      /\ phase' = IF phase = "ending" /\ left = Pending THEN "whole"
                  ELSE IF phase = "failing" /\ left = Pending THEN "failed" ELSE "cut"
  BY DEF Close
<1>2. phase' \in Ended /\ (phase' = "failed" => phase = "failing" /\ left = Pending)
  BY <1>1 DEF Ended
<1>3. Tr(tr) /\ Final(tr) /\ (Claude => Orderly(tr))
  BY DEF IInv, TranslatorInv
<1>4. /\ taken = Len(source) => Pending = <<>>
      /\ taken # Len(source) => Pending # <<>> /\ Last(Pending) = Last(source)
  BY PendingFacts DEF IInv
<1>5. tr.done <=> phase = "ending" /\ taken = Len(source)
  BY <1>1 DEF IInv, TranslatorInv
<1>6. CASE left = <<>>
  <2>1. tr' = EmitTerminal(tr)
    BY <1>1, <1>6 DEF Flush
  <2>2. phase' = "failed" /\ Last(source).type = "error" => Sent(tr, "error") # {}
    <3> SUFFICES ASSUME phase' = "failed", Last(source).type = "error" PROVE Sent(tr, "error") # {}
      OBVIOUS
    <3>1. phase = "failing" /\ taken = Len(source)
      BY <1>2, <1>4, <1>6
    <3> QED BY <3>1 DEF IInv, TranslatorInv
  <2> QED BY <1>1, <1>2, <1>3, <2>1, <2>2, Closed
<1>7. CASE left # <<>>
  <2> DEFINE t == HandleData(tr, Last(left))
  <2>1. tr' = EmitTerminal(t)
    BY <1>1, <1>7 DEF Flush
  <2>2. taken # Len(source) /\ ~tr.done /\ (left = Pending \/ left = <<Torn>>)
    BY <1>4, <1>5, <1>7, Zenon DEF Lefts
  <2>3. CASE left = Pending
    <3>1. t = HandleData(tr, Last(source))
      BY <1>4, <2>2, <2>3
    <3>2. /\ phase = "ending" => t = EmitTerminal(tr)
          /\ phase # "ending" => Grows(tr, t) /\ (Claude => Orderly(t))
          /\ phase = "failing" /\ Last(source).type = "error" => Sent(t, "error") # {}
      BY <1>1, <2>2, <3>1, LineRead
    <3> HIDE DEF t
    <3>3. Tr(t) /\ Final(t) /\ (Claude => Orderly(t))
      <4>1. CASE phase = "ending"
        <5>1. /\ Tr(t) /\ Final(t)
              /\ Ordered(tr) /\ (tr.finish => tr.role) => Ordered(t) /\ (t.finish => t.role)
          BY <1>3, <3>2, <4>1, TerminalEmitted
        <5> QED BY <1>3, <5>1 DEF Orderly
      <4>2. CASE phase # "ending"
        BY <1>3, <2>2, <3>2, <4>2 DEF Grows
      <4> QED BY <4>1, <4>2
    <3> QED BY <1>1, <1>2, <2>1, <3>2, <3>3, Closed
  <2>4. CASE left # Pending
    <3>1. phase' = "cut"
      BY <1>1, <2>4
    <3>2. Last(left).type = "torn"
      <4>1. left = <<Torn>>
        BY <2>2, <2>4
      <4>2. Last(left) = Torn
        BY <4>1 DEF Last
      <4> QED BY <4>2 DEF Torn
    <3>3. t = Enqueue(tr, Last(left))
      BY <3>2, RelayedAsItIs
    <3> DEFINE frame == Last(left)
    <3>4. frame.type \in Plain \cup {"torn", "error"} /\ frame.type \in {"torn", "error"}
      BY <3>2
    <3> HIDE DEF frame
    <3>5. /\ Grows(tr, Enqueue(tr, frame))
          /\ Orderly(tr) /\ frame.type \in {"torn", "error"} => Orderly(Enqueue(tr, frame))
      BY <1>3, <3>4, Relayed
    <3>6. t = Enqueue(tr, frame)
      BY <3>3 DEF frame
    <3> HIDE DEF t
    <3>7. Tr(t) /\ Final(t) /\ (Claude => Orderly(t))
      BY <1>3, <2>2, <3>4, <3>5, <3>6 DEF Grows
    <3> QED BY <1>1, <1>2, <2>1, <3>1, <3>7, Closed
  <2> QED BY <2>3, <2>4
<1> QED BY <1>6, <1>7

LEMMA NextInv == IInv /\ [Next]_vars => IInv'
<1> SUFFICES ASSUME IInv, [Next]_vars PROVE IInv'
  OBVIOUS
<1>1. CASE Provide
  BY <1>1, ProvideInv
<1>2. CASE Transform
  BY <1>2, TransformInv
<1>3. CASE \E left \in Lefts : Close(left)
  BY <1>3, CloseInv
<1>4. CASE UNCHANGED vars
  <2>1. UNCHANGED <<wire, phase, source, taken, tr>>
    BY <1>4 DEF vars
  <2>2. SourceInv' /\ Claude' = Claude
    BY <2>1 DEF IInv, SourceInv, Awaits, Claude
  <2>3. TranslatorInv'
    BY <2>1, <2>2 DEF IInv, TranslatorInv
  <2> QED BY <2>2, <2>3 DEF IInv
<1> QED BY <1>1, <1>2, <1>3, <1>4, Zenon DEF Next

LEMMA InvHolds == Spec => []IInv
<1>1. Init => IInv
  BY InitInv
<1>2. IInv /\ [Next]_vars => IInv'
  BY NextInv
<1> QED BY <1>1, <1>2, PTL DEF Spec

-----------------------------------------------------------------------------
\* What the invariant says of the stream.
LEMMA ItIsAStream == IInv => TranslationIsAStream
<1> SUFFICES ASSUME IInv PROVE TranslationIsAStream
  OBVIOUS
<1>1. \A type : Is(type) = Sent(tr, type)
  BY DEF Is, Sent
<1>2. Tr(tr) /\ Final(tr) /\ (Claude => Ordered(tr)) /\ Len(tr.out) \in Nat
  BY LenProperties DEF IInv, TranslatorInv, Orderly, Tr, Sequence
<1>3. phase \in Ended => tr.done
  BY DEF IInv, TranslatorInv
<1>4. Is("[DONE]") = IF tr.done THEN {Len(tr.out)} ELSE {}
  BY <1>1, <1>2 DEF Final
<1>5. Cardinality(Is("[DONE]")) = (IF phase \in Ended \/ tr.done THEN 1 ELSE 0)
  BY <1>3, <1>4, FS_EmptySet, FS_Singleton
<1>6. Is("[DONE]") \subseteq {Len(tr.out)}
  BY <1>4
<1>7. ASSUME phase = "failed", Last(source) = Error
      PROVE  Translated.verdict = "failed"
  <2>1. PICK S : tr.out \in Seq(S)
    BY <1>2 DEF Tr, Sequence
  <2>2. PICK e \in 1..Len(tr.out) : tr.out[e].type = "error"
    <3>1. Last(source).type = "error"
      BY <1>7 DEF Error
    <3> QED BY <1>7, <3>1 DEF IInv, TranslatorInv, Sent
  <2>3. ASSUME NEW i \in 1..Len(tr.out), i < e
        PROVE  tr.out[i].type \in Plain \cup {"torn", "error"}
    <3>1. i \notin Sent(tr, "[DONE]")
      BY <1>2, <1>4, <1>1, <2>2, <2>3
    <3> QED BY <1>2, <3>1 DEF Final, Sent
  <2> QED BY <2>1, <2>2, <2>3, ErrorFailsTheReader DEF Translated
<1>8. ASSUME Claude
      PROVE  /\ \A i \in Is("chunk") : tr.out[i].delta.role <=> i = Min(Is("chunk"))
             /\ \A i, j \in Is("chunk") : tr.out[i].finish # {} => j <= i
             /\ \A i \in Is("usage"), j \in Is("chunk") : j < i
  <2> DEFINE chunks == Sent(tr, "chunk")
  <2>1. chunks \subseteq Nat
    BY <1>2 DEF Sent
  <2>2. ASSUME NEW i \in chunks
        PROVE  (\A j \in chunks : i <= j) <=> i = Min(chunks)
    <3>1. \E n \in chunks : \A m \in chunks : n <= m
      BY <2>1, LeastNatural
    <3>2. Min(chunks) \in chunks /\ \A m \in chunks : Min(chunks) <= m
      BY <3>1, Zenon DEF Min
    <3> DEFINE n == Min(chunks)
    <3> HIDE DEF n, chunks
    <3>3. n \in chunks /\ \A m \in chunks : n <= m
      BY <3>2 DEF n
    <3>4. (\A j \in chunks : i <= j) <=> i = n
      BY <2>1, <2>2, <3>3
    <3> QED BY <3>4 DEF n
  <2>3. \A i \in chunks : tr.out[i].delta.role <=> \A j \in chunks : i <= j
    BY <1>2, <1>8 DEF Ordered
  <2>4. /\ \A i, j \in chunks : tr.out[i].finish # {} => j <= i
        /\ \A i \in Sent(tr, "usage"), j \in chunks : j < i
    BY <1>2, <1>8 DEF Ordered
  <2> QED BY <1>1, <2>2, <2>3, <2>4
<1> QED BY <1>5, <1>6, <1>7, <1>8 DEF TranslationIsAStream

\* createAnthropicSSETranslator, whatever the answer and the moment the body ends: of
\* either wire it sends one terminator, last and always, and keeps an error that is a
\* member of its frame an error; of an Anthropic answer it sends one role in front of
\* what is said, one reason behind it, and the usage behind that.
THEOREM TranslatedStreamIsAStream == Spec => []TranslationIsAStream
BY InvHolds, ItIsAStream, PTL

-----------------------------------------------------------------------------
\* One frame more, and what two or no elements fold to.
LEMMA AsIfAppended ==
  ASSUME NEW s, Sequence(s), NEW e
  PROVE  /\ s \o <<e>> = Append(s, e) /\ s \o <<>> = s /\ <<>> \o s = s
         /\ SubSeq(s, 1, Len(s)) = s /\ SubSeq(Append(s, e), 1, Len(s)) = s
<1>1. PICK S : s \in Seq(S)
  BY DEF Sequence
<1> DEFINE All == S \cup {e}
<1>2. s \in Seq(All) /\ e \in All
  <2>1. \A i \in 1..Len(s) : s[i] \in All
    BY <1>1, ElementOfSeq
  <2>2. s = [i \in 1..Len(s) |-> s[i]] /\ Len(s) \in Nat
    BY <1>1, LenProperties
  <2> QED BY <1>1
<1> HIDE DEF All
<1> DEFINE more == Append(s, e)
<1>3. more \in Seq(All) /\ Len(s) \in Nat /\ \A i \in 1..Len(s) : more[i] = s[i] /\ s[i] \in All
  BY <1>2, AppendProperties, LenProperties, ElementOfSeq
<1> HIDE DEF more
<1>4. /\ SubSeq(more, 1, Len(s)) \in Seq(All)
      /\ Len(SubSeq(more, 1, Len(s))) = Len(s)
      /\ \A i \in 1..Len(s) : SubSeq(more, 1, Len(s))[i] = s[i]
  <2>1. \A i \in 1..Len(s) : more[i] \in All
    BY <1>3
  <2>2. 1 \in Int /\ Len(s) \in Int
    BY <1>3
  <2>3. /\ SubSeq(more, 1, Len(s)) \in Seq(All)
        /\ Len(SubSeq(more, 1, Len(s))) = IF 1 <= Len(s) THEN Len(s) - 1 + 1 ELSE 0
        /\ \A i \in 1..(Len(s) - 1 + 1) : SubSeq(more, 1, Len(s))[i] = more[1 + i - 1]
    BY <2>1, <2>2, SubSeqProperties
  <2> QED BY <1>3, <2>3
<1>5. SubSeq(more, 1, Len(s)) = s
  BY <1>2, <1>4, SeqEqual
<1>6. s \o <<e>> = Append(s, e)
  BY <1>2, AppendIsConcat
<1>7. s \o <<>> = s /\ <<>> \o s = s /\ SubSeq(s, 1, Len(s)) = s
  BY <1>2, ConcatEmptySeq, SubSeqFull
<1> QED BY <1>5, <1>6, <1>7 DEF more

LEMMA OneMoreRead ==
  ASSUME NEW frames, Sequence(frames), NEW frame
  PROVE  ReadAll(Append(frames, frame)) = Read(ReadAll(frames), frame)
<1> DEFINE more == Append(frames, frame)
           n == Len(frames)
<1>1. /\ Sequence(more) /\ n \in Nat /\ Len(more) = n + 1
      /\ \A i \in 1..n : more[i] = frames[i]
      /\ more[n + 1] = frame
  BY OneMoreFrame
<1> HIDE DEF more
<1>2. PICK few : /\ few[0] = Nothing
                 /\ \A k \in 1..n : few[k] = Read(few[k - 1], frames[k])
                 /\ ReadAll(frames) = few[n]
  BY ReadInOrder DEF Sequence
<1>3. PICK all : /\ all[0] = Nothing
                 /\ \A k \in 1..Len(more) : all[k] = Read(all[k - 1], more[k])
                 /\ ReadAll(more) = all[Len(more)]
  BY <1>1, ReadInOrder DEF Sequence
<1> HIDE DEF n
<1> DEFINE T == { k \in Nat : k <= n => all[k] = few[k] }
<1>4. 0 \in T
  BY <1>2, <1>3
<1>5. ASSUME NEW k \in Nat, k \in T
      PROVE  k + 1 \in T
  <2> SUFFICES ASSUME k + 1 <= n PROVE all[k + 1] = few[k + 1]
    OBVIOUS
  <2>1. k + 1 \in 1..n /\ k + 1 \in 1..Len(more) /\ (k + 1) - 1 = k /\ all[k] = few[k]
    BY <1>1, <1>5
  <2>2. all[k + 1] = Read(all[k], more[k + 1]) /\ few[k + 1] = Read(few[k], frames[k + 1])
    BY <1>2, <1>3, <2>1
  <2> QED BY <1>1, <2>1, <2>2
<1>6. Nat \subseteq T
  <2> HIDE DEF T
  <2> QED BY <1>4, <1>5, InductionOnNat
<1>7. all[n] = few[n]
  BY <1>1, <1>6
<1>8. ReadAll(more) = Read(all[n], more[n + 1])
  <2>1. n + 1 \in 1..Len(more) /\ (n + 1) - 1 = n
    BY <1>1
  <2> QED BY <1>1, <1>3, <2>1
<1> QED BY <1>1, <1>2, <1>7, <1>8 DEF more

LEMMA ReadOfATail ==
  ASSUME NEW s, NEW frame
  PROVE  ReadFrom(s, <<>>) = s /\ ReadFrom(s, <<frame>>) = Read(s, frame)
<1>1. ReadFrom(s, <<>>) = s
  <2>1. <<>> \in Seq({frame}) /\ Len(<<>>) = 0
    OBVIOUS
  <2> QED BY <2>1, FoldedInOrder
<1>2. ReadFrom(s, <<frame>>) = Read(s, frame)
  <2> DEFINE tail == <<frame>>
  <2>1. tail \in Seq({frame}) /\ Len(tail) = 1 /\ tail[1] = frame
    OBVIOUS
  <2> HIDE DEF tail
  <2>2. PICK read : /\ read[0] = s
                    /\ \A k \in 1..Len(tail) : read[k] = Read(read[k - 1], tail[k])
                    /\ ReadFrom(s, tail) = read[Len(tail)]
    BY <2>1, FoldedInOrder
  <2>3. 1 \in 1..Len(tail) /\ 1 - 1 = 0
    BY <2>1
  <2> QED BY <2>1, <2>2, <2>3 DEF tail
<1> QED BY <1>1, <1>2

\* The fragments of one chunk: none, one, or two.
Filled(s, fragments, iter) ==
  iter = [S \in SUBSET (1..Len(fragments)) |->
            IF S = {} THEN s ELSE AbsorbFragment(iter[S \ {Max(S)}], fragments[Max(S)])]

AbsorbAll(s, fragments) == FoldLeft(AbsorbFragment, s, fragments)

LEMMA FewFragments ==
  ASSUME NEW s, NEW f, NEW g
  PROVE  /\ AbsorbAll(s, <<>>) = s
         /\ \A one : one = <<f>> => AbsorbAll(s, one) = AbsorbFragment(s, f)
         /\ \A both : both = <<f, g>> =>
              AbsorbAll(s, both) = AbsorbFragment(AbsorbFragment(s, f), g)
<1>1. ASSUME NEW fragments, Len(fragments) \in Nat, DOMAIN fragments = 1..Len(fragments),
             \E iter : Filled(s, fragments, iter)
      PROVE  \E iter : Filled(s, fragments, iter)
                       /\ FoldLeft(AbsorbFragment, s, fragments) = iter[1..Len(fragments)]
  <2> DEFINE iter == CHOOSE iter : Filled(s, fragments, iter)
  <2>1. Filled(s, fragments, iter)
    BY <1>1, Zenon
  <2>2. FoldLeft(AbsorbFragment, s, fragments) = iter[DOMAIN fragments]
    BY Zenon, <1>1 DEF FoldLeft, MapThenFoldSet, Filled
  <2> HIDE DEF iter
  <2> QED BY <1>1, <2>1, <2>2
<1>2. FoldLeft(AbsorbFragment, s, <<>>) = s
  <2> DEFINE none == [S \in SUBSET (1..0) |-> s]
  <2>1. Len(<<>>) = 0 /\ DOMAIN <<>> = 1..0 /\ \A S \in SUBSET (1..0) : S = {}
    OBVIOUS
  <2>2. Filled(s, <<>>, none)
    BY <2>1 DEF Filled
  <2> HIDE DEF none
  <2>3. PICK iter : Filled(s, <<>>, iter) /\ FoldLeft(AbsorbFragment, s, <<>>) = iter[1..0]
    BY <1>1, <2>1, <2>2
  <2>4. iter[1..0] = s
    BY <2>1, <2>3 DEF Filled
  <2> QED BY <2>3, <2>4
<1>3. Max({1}) = 1 /\ Max({2}) = 2 /\ Max({1, 2}) = 2
  <2>1. {1} \subseteq 1..1 /\ {2} \subseteq 1..2 /\ {1, 2} \subseteq 1..2 /\ 1 \in Nat \ {0}
        /\ 2 \in Nat \ {0}
    OBVIOUS
  <2> QED BY <2>1, MaxOfAll
<1>4. FoldLeft(AbsorbFragment, s, <<f>>) = AbsorbFragment(s, f)
  <2> DEFINE one == [S \in SUBSET (1..1) |-> IF S = {} THEN s ELSE AbsorbFragment(s, f)]
             fragments == <<f>>
  <2>1. Len(fragments) = 1 /\ DOMAIN fragments = 1..1 /\ fragments[1] = f
    <3>1. fragments \in Seq({f}) /\ Len(fragments) = 1 /\ fragments[1] = f
      OBVIOUS
    <3> HIDE DEF fragments
    <3> QED BY <3>1, LenProperties
  <2>2. \A S \in SUBSET (1..1) : S = {} \/ S = {1}
    <3>1. 1..1 = {1}
      OBVIOUS
    <3> QED BY <3>1
  <2> HIDE DEF fragments
  <2>3. Filled(s, fragments, one)
    <3>1. one[{}] = s /\ one[{1}] = AbsorbFragment(s, f) /\ {1} \ {1} = {}
      <4>1. {} \in SUBSET (1..1) /\ {1} \in SUBSET (1..1)
        OBVIOUS
      <4> QED BY <4>1
    <3>2. ASSUME NEW S \in SUBSET (1..1)
          PROVE  one[S] = IF S = {} THEN s
                          ELSE AbsorbFragment(one[S \ {Max(S)}], fragments[Max(S)])
      <4> HIDE DEF one
      <4>1. CASE S = {}
        BY <3>1, <4>1
      <4>2. CASE S = {1}
        BY <1>3, <2>1, <3>1, <4>2
      <4> QED BY <2>2, <4>1, <4>2
    <3>3. one = [S \in SUBSET (1..1) |->
                   IF S = {} THEN s ELSE AbsorbFragment(one[S \ {Max(S)}], fragments[Max(S)])]
      <4> DEFINE same == [S \in SUBSET (1..1) |->
                   IF S = {} THEN s ELSE AbsorbFragment(one[S \ {Max(S)}], fragments[Max(S)])]
      <4>1. \A S \in SUBSET (1..1) : one[S] = same[S]
        BY <3>2
      <4> QED BY <4>1
    <3> QED BY <2>1, <3>3 DEF Filled
  <2> HIDE DEF one
  <2>4. PICK iter : Filled(s, fragments, iter)
                    /\ FoldLeft(AbsorbFragment, s, fragments) = iter[1..1]
    BY <1>1, <2>1, <2>3
  <2>5. \A S \in SUBSET (1..1) :
          iter[S] = IF S = {} THEN s ELSE AbsorbFragment(iter[S \ {Max(S)}], fragments[Max(S)])
    BY <2>1, <2>4, Zenon DEF Filled
  <2>6. iter[{}] = s /\ 1..1 = {1} /\ {1} \ {1} = {}
    BY <2>5
  <2>7. iter[1..1] = AbsorbFragment(s, f)
    BY <1>3, <2>1, <2>5, <2>6
  <2> QED BY <2>4, <2>7 DEF fragments
<1>5. FoldLeft(AbsorbFragment, s, <<f, g>>) = AbsorbFragment(AbsorbFragment(s, f), g)
  <2> DEFINE two == [S \in SUBSET (1..2) |->
                       IF S = {} THEN s
                       ELSE IF 2 \notin S THEN AbsorbFragment(s, f)
                       ELSE IF 1 \notin S THEN AbsorbFragment(s, g)
                       ELSE AbsorbFragment(AbsorbFragment(s, f), g)]
             fragments == <<f, g>>
  <2>1. /\ Len(fragments) = 2 /\ DOMAIN fragments = 1..2
        /\ fragments[1] = f /\ fragments[2] = g
    OBVIOUS
  <2>2. \A S \in SUBSET (1..2) : S = {} \/ S = {1} \/ S = {2} \/ S = {1, 2}
    <3>1. 1..2 = {1, 2}
      OBVIOUS
    <3> QED BY <3>1
  <2> HIDE DEF fragments
  <2>3. Filled(s, fragments, two)
    <3>1. two[{}] = s /\ two[{1}] = AbsorbFragment(s, f) /\ two[{2}] = AbsorbFragment(s, g)
          /\ two[{1, 2}] = AbsorbFragment(AbsorbFragment(s, f), g)
      <4>1. {} \in SUBSET (1..2) /\ {1} \in SUBSET (1..2) /\ {2} \in SUBSET (1..2)
            /\ {1, 2} \in SUBSET (1..2)
        OBVIOUS
      <4> QED BY <4>1
    <3>2. ASSUME NEW S \in SUBSET (1..2)
          PROVE  two[S] = IF S = {} THEN s
                          ELSE AbsorbFragment(two[S \ {Max(S)}], fragments[Max(S)])
      <4>1. {1} \ {1} = {} /\ {2} \ {2} = {} /\ {1, 2} \ {2} = {1}
        OBVIOUS
      <4> HIDE DEF two
      <4>2. CASE S = {}
        BY <3>1, <4>2
      <4>3. CASE S = {1}
        BY <1>3, <2>1, <3>1, <4>1, <4>3
      <4>4. CASE S = {2}
        BY <1>3, <2>1, <3>1, <4>1, <4>4
      <4>5. CASE S = {1, 2}
        BY <1>3, <2>1, <3>1, <4>1, <4>5
      <4> QED BY <2>2, <4>2, <4>3, <4>4, <4>5
    <3>3. two = [S \in SUBSET (1..2) |->
                   IF S = {} THEN s ELSE AbsorbFragment(two[S \ {Max(S)}], fragments[Max(S)])]
      <4> DEFINE same == [S \in SUBSET (1..2) |->
                   IF S = {} THEN s ELSE AbsorbFragment(two[S \ {Max(S)}], fragments[Max(S)])]
      <4>1. \A S \in SUBSET (1..2) : two[S] = same[S]
        BY <3>2
      <4> QED BY <4>1
    <3> QED BY <2>1, <3>3 DEF Filled
  <2> HIDE DEF two
  <2>4. PICK iter : Filled(s, fragments, iter)
                    /\ FoldLeft(AbsorbFragment, s, fragments) = iter[1..2]
    BY <1>1, <2>1, <2>3
  <2>5. \A S \in SUBSET (1..2) :
          iter[S] = IF S = {} THEN s ELSE AbsorbFragment(iter[S \ {Max(S)}], fragments[Max(S)])
    BY <2>1, <2>4, Zenon DEF Filled
  <2>6. 1..2 = {1, 2} /\ {1} \ {1} = {} /\ {1, 2} \ {2} = {1}
    OBVIOUS
  <2>7. iter[{}] = s /\ {1} \in SUBSET (1..2) /\ {1, 2} \in SUBSET (1..2)
    BY <2>5
  <2>8. iter[{1}] = AbsorbFragment(s, f)
    BY <1>3, <2>1, <2>5, <2>6, <2>7
  <2>9. iter[1..2] = AbsorbFragment(AbsorbFragment(s, f), g)
    BY <1>3, <2>1, <2>5, <2>6, <2>7, <2>8
  <2> QED BY <2>4, <2>9 DEF fragments
<1> QED BY <1>2, <1>4, <1>5, Zenon DEF AbsorbAll
-----------------------------------------------------------------------------
\* A reader as a record.
Reader(s) == State(s) /\ Sequence(s.text)

\* What a chunk does to a reader that reads on.
LEMMA ChunkRead ==
  ASSUME NEW s, State(s), s.verdict = "open", NEW delta, NEW finish
  PROVE  LET r == Read(s, Chunk(delta, finish))
         IN  /\ State(r) /\ r.verdict = "open" /\ r.finish = Over(finish, s.finish)
             /\ r.prompt = s.prompt /\ r.completion = s.completion
             /\ r.text = s.text \o delta.text
             /\ r.slots = AbsorbAll(s, delta.calls).slots
<1> DEFINE frame == Chunk(delta, finish)
           slots == AbsorbAll(s, delta.calls).slots
           text == s.text \o delta.text
           over == Over(finish, s.finish)
<1>1. frame.type = "chunk" /\ frame.delta = delta /\ frame.finish = finish
  BY DEF Chunk
<1> HIDE DEF frame
<1>2. Read(s, frame) = AbsorbChunk(s, frame)
  <2>1. Read(s, frame) = Absorb(s, frame)
    BY <1>1, Zenon DEF Read
  <2> QED BY <1>1, <2>1, Zenon DEF Absorb
<1>3. AbsorbChunk(s, frame) = [s EXCEPT !.slots = slots, !.text = text, !.finish = over]
  BY <1>1, Zenon DEF AbsorbChunk, AbsorbAll
<1> HIDE DEF slots, text, over
<1>4. ASSUME NEW r, r = [s EXCEPT !.slots = slots, !.text = text, !.finish = over]
      PROVE  /\ State(r) /\ r.verdict = "open" /\ r.finish = over
             /\ r.prompt = s.prompt /\ r.completion = s.completion
             /\ r.text = text /\ r.slots = slots
  BY <1>4 DEF State
<1> QED BY <1>2, <1>3, <1>4 DEF frame, slots, text, over

\* A chunk that says nothing is not heard.
LEMMA SilentChunk ==
  ASSUME NEW s, Reader(s), s.verdict = "open", NEW delta, delta.text = <<>>, delta.calls = <<>>,
         NEW finish
  PROVE  LET r == Read(s, Chunk(delta, finish))
         IN  /\ Reader(r) /\ r.verdict = "open" /\ r.finish = Over(finish, s.finish)
             /\ r.prompt = s.prompt /\ r.completion = s.completion
             /\ r.text = s.text /\ r.slots = s.slots
             /\ finish = {} => r = s
<1> DEFINE r == Read(s, Chunk(delta, finish))
<1>1. /\ State(r) /\ r.verdict = "open" /\ r.finish = Over(finish, s.finish)
      /\ r.prompt = s.prompt /\ r.completion = s.completion
      /\ r.text = s.text \o delta.text
      /\ r.slots = AbsorbAll(s, delta.calls).slots
  BY ChunkRead DEF Reader
<1> HIDE DEF r
<1>2. r.text = s.text /\ r.slots = s.slots
  BY <1>1, AsIfAppended, FewFragments DEF Reader
<1>3. finish = {} => r.finish = s.finish
  BY <1>1 DEF Over
<1>4. finish = {} => r = s
  BY <1>1, <1>2, <1>3 DEF Reader, State
<1> QED BY <1>1, <1>2, <1>4 DEF Reader, r

LEMMA EndRead ==
  ASSUME NEW s, Reader(s), s.verdict = "open", NEW frame,
         NEW verdict,
         \/ verdict = "whole" /\ frame.type \in {"[DONE]", "message_stop"}
         \/ verdict = "failed" /\ frame.type \in {"error", "labelled"}
  PROVE  LET r == Read(s, frame)
         IN  /\ Reader(r) /\ r.verdict = verdict /\ r.finish = s.finish
             /\ r.prompt = s.prompt /\ r.completion = s.completion
             /\ r.text = s.text /\ r.slots = s.slots
<1>1. Read(s, frame) = [s EXCEPT !.verdict = verdict]
  <2>1. CASE verdict = "whole"
    BY <2>1, Zenon DEF Read
  <2>2. CASE verdict = "failed"
    <3>1. frame.type \in {"error", "labelled"} /\ frame.type \notin {"torn", "[DONE]", "message_stop"}
      BY <2>2
    <3> QED BY <2>2, <3>1, Zenon DEF Read
  <2> QED BY <2>1, <2>2
<1>2. ASSUME NEW r, r = [s EXCEPT !.verdict = verdict]
      PROVE  /\ Reader(r) /\ r.verdict = verdict /\ r.finish = s.finish
             /\ r.prompt = s.prompt /\ r.completion = s.completion
             /\ r.text = s.text /\ r.slots = s.slots
  BY <1>2 DEF Reader, State
<1> QED BY <1>1, <1>2

LEMMA UsageRead ==
  ASSUME NEW s, Reader(s), s.verdict = "open", NEW usage
  PROVE  LET r == Read(s, UsageChunk(usage))
         IN  /\ Reader(r) /\ r.verdict = "open" /\ r.finish = s.finish
             /\ r.prompt = {usage.prompt} /\ r.completion = {usage.completion}
             /\ r.text = s.text /\ r.slots = s.slots
<1> DEFINE frame == UsageChunk(usage)
           prompt == {usage.prompt}
           completion == {usage.completion}
<1>1. frame.type = "usage" /\ frame.usage = usage
  BY DEF UsageChunk
<1> HIDE DEF frame
<1>2. Read(s, frame) = AbsorbUsage(s, frame)
  <2>1. Read(s, frame) = Absorb(s, frame)
    BY <1>1, Zenon DEF Read
  <2> QED BY <1>1, <2>1, Zenon DEF Absorb
<1>3. Read(s, frame) = [s EXCEPT !.prompt = prompt, !.completion = completion]
  BY <1>1, <1>2, Zenon DEF AbsorbUsage
<1> HIDE DEF prompt, completion
<1>4. ASSUME NEW r, r = [s EXCEPT !.prompt = prompt, !.completion = completion]
      PROVE  /\ Reader(r) /\ r.verdict = "open" /\ r.finish = s.finish
             /\ r.prompt = prompt /\ r.completion = completion
             /\ r.text = s.text /\ r.slots = s.slots
  BY <1>4 DEF Reader, State
<1> QED BY <1>3, <1>4 DEF frame, prompt, completion

-----------------------------------------------------------------------------
\* What a reader has of what a translator enqueued, and a translator that took no
\* other note.
Show(t) == ReadAll(t.out)

SameNotes(t, u) ==
  /\ u.input = t.input /\ u.output = t.output /\ u.reason = t.reason
  /\ u.slots = t.slots /\ u.next = t.next

Listens(t) == Tr(t) /\ Reader(Show(t)) /\ Show(t).verdict = "open"

LEMMA EnqueuedShown ==
  ASSUME NEW t, Tr(t), NEW frame
  PROVE  LET e == Enqueue(t, frame)
         IN  Tr(e) /\ Show(e) = Read(Show(t), frame) /\ SameNotes(t, e)
<1> DEFINE e == Enqueue(t, frame)
           out == Append(t.out, frame)
<1>1. Tr(e)
  BY Enqueued
<1>2. e = [t EXCEPT !.out = out]
  BY DEF Enqueue
<1>3. ReadAll(out) = Read(Show(t), frame)
  BY OneMoreRead DEF Tr, Show
<1> HIDE DEF out, e
<1>4. e.out = out /\ SameNotes(t, e)
  BY <1>2 DEF Tr, SameNotes
<1>5. Show(e) = Read(Show(t), frame)
  BY <1>3, <1>4 DEF Show
<1> QED BY <1>1, <1>4, <1>5 DEF e

LEMMA NotesTaken ==
  ASSUME NEW t, Tr(t)
  PROVE  /\ LET u == [t EXCEPT !.role = TRUE]
            IN  Tr(u) /\ u.out = t.out /\ SameNotes(t, u) /\ u.finish = t.finish
         /\ LET u == [t EXCEPT !.finish = TRUE]
            IN  Tr(u) /\ u.out = t.out /\ SameNotes(t, u)
         /\ LET u == [t EXCEPT !.done = TRUE]
            IN  Tr(u) /\ u.out = t.out /\ SameNotes(t, u)
<1>1. PICK yes : yes = TRUE
  OBVIOUS
<1>2. ASSUME NEW u, u = [t EXCEPT !.role = yes]
      PROVE  Tr(u) /\ u.out = t.out /\ SameNotes(t, u) /\ u.finish = t.finish
  BY <1>2, <1>1 DEF Tr, SameNotes
<1>3. ASSUME NEW u, u = [t EXCEPT !.finish = yes]
      PROVE  Tr(u) /\ u.out = t.out /\ SameNotes(t, u)
  BY <1>3, <1>1 DEF Tr, SameNotes
<1>4. ASSUME NEW u, u = [t EXCEPT !.done = yes]
      PROVE  Tr(u) /\ u.out = t.out /\ SameNotes(t, u)
  BY <1>4, <1>1 DEF Tr, SameNotes
<1> QED BY <1>1, <1>2, <1>3, <1>4

LEMMA RoleShown ==
  ASSUME NEW t, Listens(t)
  PROVE  LET e == EmitRoleOnce(t)
         IN  Tr(e) /\ Show(e) = Show(t) /\ SameNotes(t, e)
<1>1. CASE t.role
  <2>1. EmitRoleOnce(t) = t
    BY <1>1 DEF EmitRoleOnce
  <2> QED BY <2>1 DEF Listens, SameNotes
<1>2. CASE ~t.role
  <2> DEFINE u == [t EXCEPT !.role = TRUE]
             delta == [NoDelta EXCEPT !.role = TRUE]
             frame == Chunk(delta, {})
             e == Enqueue(u, frame)
  <2>1. EmitRoleOnce(t) = e
    BY <1>2 DEF EmitRoleOnce
  <2>2. Tr(u) /\ u.out = t.out /\ SameNotes(t, u)
    BY NotesTaken DEF Listens
  <2>3. Show(u) = Show(t)
    BY <2>2 DEF Show
  <2>4. delta.text = <<>> /\ delta.calls = <<>>
    BY DEF NoDelta
  <2> HIDE DEF u, delta
  <2>5. Tr(e) /\ Show(e) = Read(Show(u), frame) /\ SameNotes(u, e)
    BY <2>2, EnqueuedShown
  <2>6. Read(Show(t), frame) = Show(t)
    BY <2>4, SilentChunk DEF Listens
  <2> QED BY <2>1, <2>2, <2>3, <2>5, <2>6 DEF SameNotes
<1> QED BY <1>1, <1>2

LEMMA DeltaShown ==
  ASSUME NEW t, Listens(t), NEW delta
  PROVE  LET e == EmitDelta(t, delta)
         IN  Tr(e) /\ Show(e) = Read(Show(t), Chunk(delta, {})) /\ SameNotes(t, e)
<1> DEFINE u == EmitRoleOnce(t)
           frame == Chunk(delta, {})
           e == Enqueue(u, frame)
<1>1. EmitDelta(t, delta) = e
  BY DEF EmitDelta
<1>2. Tr(u) /\ Show(u) = Show(t) /\ SameNotes(t, u)
  BY RoleShown
<1> HIDE DEF u, frame
<1>3. Tr(e) /\ Show(e) = Read(Show(u), frame) /\ SameNotes(u, e)
  BY <1>2, EnqueuedShown
<1> QED BY <1>1, <1>2, <1>3 DEF SameNotes, frame

\* A reader that has heard the same: of the answer, and of its figures.
SameAnswer(r, s)  == r.text = s.text /\ r.slots = s.slots
SameFigures(r, s) == r.prompt = s.prompt /\ r.completion = s.completion

LEMMA FinishShown ==
  ASSUME NEW t, Listens(t)
  PROVE  LET e == EmitFinishOnce(t)
         IN  /\ Listens(e) /\ SameNotes(t, e) /\ SameAnswer(Show(e), Show(t))
             /\ SameFigures(Show(e), Show(t))
             /\ t.finish => Show(e).finish = Show(t).finish
             /\ ~t.finish /\ t.reason # {} => Show(e).finish = t.reason
<1>1. CASE t.finish
  <2>1. EmitFinishOnce(t) = t
    BY <1>1 DEF EmitFinishOnce
  <2> QED BY <1>1, <2>1 DEF SameNotes, SameAnswer, SameFigures
<1>2. CASE ~t.finish
  <2> DEFINE u == [t EXCEPT !.finish = TRUE]
             v == EmitRoleOnce(u)
             finish == IF t.reason # {} THEN t.reason ELSE {"stop"}
             e == Enqueue(v, Chunk(NoDelta, finish))
  <2>1. EmitFinishOnce(t) = e
    BY <1>2 DEF EmitFinishOnce
  <2>2. Tr(u) /\ u.out = t.out /\ SameNotes(t, u)
    BY NotesTaken DEF Listens
  <2>3. Show(u) = Show(t) /\ Listens(u)
    BY <2>2 DEF Show, Listens
  <2> HIDE DEF u
  <2>4. Tr(v) /\ Show(v) = Show(u) /\ SameNotes(u, v)
    BY <2>3, RoleShown
  <2>5. finish # {} /\ (t.reason # {} => finish = t.reason)
    OBVIOUS
  <2> HIDE DEF v, finish
  <2>6. Tr(e) /\ Show(e) = Read(Show(v), Chunk(NoDelta, finish)) /\ SameNotes(v, e)
    BY <2>4, EnqueuedShown
  <2>7. NoDelta.text = <<>> /\ NoDelta.calls = <<>>
    BY DEF NoDelta
  <2> HIDE DEF e
  <2>8. /\ Reader(Show(e)) /\ Show(e).verdict = "open"
        /\ Show(e).finish = Over(finish, Show(t).finish)
        /\ SameAnswer(Show(e), Show(t)) /\ SameFigures(Show(e), Show(t))
    BY <2>3, <2>4, <2>6, <2>7, SilentChunk DEF Listens, SameAnswer, SameFigures
  <2>9. t.reason # {} => Show(e).finish = t.reason
    BY <2>5, <2>8 DEF Over
  <2>10. SameNotes(t, e) /\ Listens(e)
    BY <2>2, <2>4, <2>6, <2>8 DEF SameNotes, Listens
  <2> QED BY <1>2, <2>1, <2>8, <2>9, <2>10
<1> QED BY <1>1, <1>2 DEF Listens, Tr

\* What the reader is billed.
Billed(r, figures) ==
  /\ figures = {} => r.prompt \cup r.completion = {}
  /\ \A u \in figures : r.prompt = {u.prompt} /\ r.completion = {u.completion}

LEMMA UsageShown ==
  ASSUME NEW t, Listens(t)
  PROVE  LET e == EmitUsage(t)
         IN  /\ Listens(e) /\ SameNotes(t, e) /\ SameAnswer(Show(e), Show(t))
             /\ Show(e).finish = Show(t).finish
             /\ Show(t).prompt \cup Show(t).completion = {} => Billed(Show(e), Counted(t))
<1>1. CASE Counted(t) = {}
  <2>1. EmitUsage(t) = t
    BY <1>1 DEF EmitUsage
  <2> QED BY <1>1, <2>1 DEF SameNotes, SameAnswer, Billed
<1>2. CASE Counted(t) # {}
  <2> DEFINE usage == CHOOSE u \in Counted(t) : TRUE
             frame == UsageChunk(usage)
             e == Enqueue(t, frame)
  <2>1. EmitUsage(t) = e
    BY <1>2, Zenon DEF EmitUsage
  <2>2. \A u \in Counted(t) : u = usage
    <3>1. Counted(t) = {} \/ \E u : Counted(t) = {u}
      BY Zenon DEF Counted, Answer!Usage
    <3>2. PICK u : Counted(t) = {u}
      BY <1>2, <3>1
    <3>3. usage \in Counted(t)
      BY <1>2, Zenon
    <3> QED BY <3>2, <3>3
  <2> HIDE DEF usage
  <2>3. Tr(e) /\ Show(e) = Read(Show(t), frame) /\ SameNotes(t, e)
    BY EnqueuedShown DEF Listens
  <2> HIDE DEF e
  <2>4. /\ Reader(Show(e)) /\ Show(e).verdict = "open" /\ Show(e).finish = Show(t).finish
        /\ Show(e).prompt = {usage.prompt} /\ Show(e).completion = {usage.completion}
        /\ SameAnswer(Show(e), Show(t))
    BY <2>3, UsageRead DEF Listens, SameAnswer
  <2>5. Billed(Show(e), Counted(t))
    BY <1>2, <2>2, <2>4 DEF Billed
  <2> QED BY <2>1, <2>3, <2>4, <2>5 DEF Listens
<1> QED BY <1>1, <1>2

LEMMA TerminalShown ==
  ASSUME NEW t, Listens(t), ~t.done
  PROVE  LET e == EmitTerminal(t)
         IN  /\ Reader(Show(e)) /\ Show(e).verdict = "whole" /\ SameAnswer(Show(e), Show(t))
             /\ t.finish => Show(e).finish = Show(t).finish
             /\ Show(t).prompt \cup Show(t).completion = {} => Billed(Show(e), Counted(t))
             /\ SameNotes(t, e)
<1> DEFINE u == EmitFinishOnce(t)
           v == EmitUsage(u)
           w == [v EXCEPT !.done = TRUE]
           e == Enqueue(w, Done)
<1>1. EmitTerminal(t) = e
  BY DEF EmitTerminal
<1>2. /\ Listens(u) /\ SameNotes(t, u) /\ SameAnswer(Show(u), Show(t))
      /\ SameFigures(Show(u), Show(t))
      /\ t.finish => Show(u).finish = Show(t).finish
  BY FinishShown
<1> HIDE DEF u
<1>3. /\ Listens(v) /\ SameNotes(u, v) /\ SameAnswer(Show(v), Show(u))
      /\ Show(v).finish = Show(u).finish
      /\ Show(u).prompt \cup Show(u).completion = {} => Billed(Show(v), Counted(u))
  BY <1>2, UsageShown
<1> HIDE DEF v
<1>4. Tr(w) /\ w.out = v.out /\ SameNotes(v, w)
  BY <1>3, NotesTaken DEF Listens
<1>5. Show(w) = Show(v)
  BY <1>4 DEF Show
<1> HIDE DEF w
<1>6. Show(e) = Read(Show(v), Done) /\ SameNotes(w, e)
  BY <1>4, <1>5, EnqueuedShown
<1>7. Done.type \in {"[DONE]", "message_stop"}
  BY DEF Done
<1> HIDE DEF e
<1>8. /\ Reader(Show(e)) /\ Show(e).verdict = "whole" /\ Show(e).finish = Show(v).finish
      /\ SameFigures(Show(e), Show(v)) /\ SameAnswer(Show(e), Show(v))
  BY <1>3, <1>6, <1>7, EndRead DEF Listens, SameFigures, SameAnswer
<1>9. Counted(u) = Counted(t)
  BY <1>2, Zenon DEF SameNotes, Counted
<1>10. Show(t).prompt \cup Show(t).completion = {} => Billed(Show(e), Counted(t))
  BY <1>2, <1>3, <1>8, <1>9 DEF SameFigures, Billed
<1>11. SameNotes(t, e)
  BY <1>2, <1>3, <1>4, <1>6 DEF SameNotes
<1> QED BY <1>1, <1>2, <1>3, <1>8, <1>10, <1>11 DEF SameAnswer

-----------------------------------------------------------------------------
\* Calls as the model made them, and the slots that hold them, in their order.
Made(made) ==
  /\ Sequence(made)
  /\ \A k \in 1..Len(made) :
       /\ made[k] = [id |-> made[k].id, args |-> made[k].args]
       /\ Sequence(made[k].args) /\ made[k].id \in {{}, {k}}

Increasing(pos, n) ==
  pos \in [1..n -> Nat] /\ \A k, l \in 1..n : k < l => pos[k] < pos[l]

Keyed(slots, made, pos) ==
  /\ Increasing(pos, Len(made))
  /\ \A k \in 1..Len(made) : pos[k] \in DOMAIN slots /\ slots[pos[k]] = made[k]
  /\ \A i \in DOMAIN slots : \E k \in 1..Len(made) : pos[k] = i
  /\ Len(made) = 0 => slots = <<>>

FromZero(n) == [k \in 1..n |-> k - 1]

\* One call more, or one piece more of a call.
Call(id, pieces)      == [id |-> id, args |-> pieces]
Further(made, k, piece) == [made EXCEPT ![k].args = Append(@, piece)]

LEMMA MadeMore ==
  ASSUME NEW made, Made(made), NEW id, id \in {{}, {Len(made) + 1}}, NEW pieces, Sequence(pieces)
  PROVE  LET more == Append(made, Call(id, pieces))
         IN  /\ Made(more) /\ Len(made) \in Nat /\ Len(more) = Len(made) + 1
             /\ \A k \in 1..Len(made) : more[k] = made[k]
             /\ more[Len(made) + 1] = Call(id, pieces)
<1> DEFINE call == Call(id, pieces)
           more == Append(made, call)
           n == Len(made)
<1>1. /\ Sequence(more) /\ n \in Nat /\ Len(more) = n + 1
      /\ \A k \in 1..n : more[k] = made[k]
      /\ more[n + 1] = call
  BY OneMoreFrame DEF Made
<1>2. call = [id |-> call.id, args |-> call.args] /\ call.id = id /\ call.args = pieces
  BY DEF Call
<1> HIDE DEF more, call
<1>3. \A k \in 1..Len(more) :
        /\ more[k] = [id |-> more[k].id, args |-> more[k].args]
        /\ Sequence(more[k].args) /\ more[k].id \in {{}, {k}}
  <2>1. \A k \in 1..Len(more) : k \in 1..n \/ k = n + 1
    BY <1>1
  <2>2. \A k \in 1..n :
          /\ more[k] = [id |-> more[k].id, args |-> more[k].args]
          /\ Sequence(more[k].args) /\ more[k].id \in {{}, {k}}
    BY <1>1 DEF Made
  <2> QED BY <1>1, <1>2, <2>1, <2>2
<1> QED BY <1>1, <1>3 DEF Made, more, call

LEMMA MadeFurther ==
  ASSUME NEW made, Made(made), NEW k \in 1..Len(made), NEW piece
  PROVE  LET more == Further(made, k, piece)
         IN  /\ Made(more) /\ Len(made) \in Nat /\ Len(more) = Len(made)
             /\ \A l \in 1..Len(made) : l # k => more[l] = made[l]
             /\ more[k] = Call(made[k].id, made[k].args \o <<piece>>)
<1>1. PICK S : made \in Seq(S)
  BY DEF Made, Sequence
<1> DEFINE args == Append(made[k].args, piece)
           call == [made[k] EXCEPT !.args = args]
           more == [made EXCEPT ![k] = call]
<1>2. Further(made, k, piece) = more
  <2>1. made[k] = [id |-> made[k].id, args |-> made[k].args]
    BY DEF Made
  <2> QED BY <2>1 DEF Further
<1>3. Sequence(args) /\ args = made[k].args \o <<piece>>
  <2>1. Sequence(made[k].args)
    BY DEF Made
  <2> QED BY <2>1, OneMoreFrame, AsIfAppended
<1> HIDE DEF args
<1>4. call = Call(made[k].id, args) /\ call.id = made[k].id /\ call.args = args
  <2>1. PICK c : c = made[k]
    OBVIOUS
  <2>2. c = [id |-> c.id, args |-> c.args]
    BY <2>1 DEF Made
  <2>3. ASSUME NEW d, d = [c EXCEPT !.args = args]
        PROVE  d = [id |-> c.id, args |-> args]
    BY <2>2, <2>3
  <2> QED BY <2>1, <2>3 DEF Call
<1> HIDE DEF call
<1>5. /\ Len(made) \in Nat /\ Len(more) = Len(made) /\ more[k] = call
      /\ \A l \in 1..Len(made) : l # k => more[l] = made[l]
      /\ more \in Seq(S \cup {call})
  <2>1. made \in [1..Len(made) -> S] /\ Len(made) \in Nat /\ DOMAIN made = 1..Len(made)
    BY <1>1, LenProperties
  <2>2. more \in [1..Len(made) -> S \cup {call}]
    BY <2>1
  <2>3. more \in Seq(S \cup {call}) /\ Len(more) = Len(made)
    BY <2>1, <2>2, SeqDef
  <2> QED BY <2>1, <2>3
<1> HIDE DEF more
<1>6. \A l \in 1..Len(more) :
        /\ more[l] = [id |-> more[l].id, args |-> more[l].args]
        /\ Sequence(more[l].args) /\ more[l].id \in {{}, {l}}
  <2>1. \A l \in 1..Len(made) : l # k =>
          /\ more[l] = [id |-> more[l].id, args |-> more[l].args]
          /\ Sequence(more[l].args) /\ more[l].id \in {{}, {l}}
    BY <1>5 DEF Made
  <2>2. /\ more[k] = [id |-> more[k].id, args |-> more[k].args]
        /\ Sequence(more[k].args) /\ more[k].id \in {{}, {k}}
    BY <1>3, <1>4, <1>5 DEF Made, Call
  <2> QED BY <1>5, <2>1, <2>2
<1>7. Made(more)
  BY <1>5, <1>6 DEF Made, Sequence
<1> QED BY <1>2, <1>3, <1>4, <1>5, <1>7

-----------------------------------------------------------------------------
\* What toolSlot and what is written to it do to the slots.
LEMMA FillPuts ==
  ASSUME NEW s, State(s), NEW index, NEW id, NEW pieces
  PROVE  LET r == Fill(s, index, id, pieces)
             slot == Slot(s, index)
         IN  /\ State(r) /\ r.text = s.text /\ r.finish = s.finish
             /\ r.prompt = s.prompt /\ r.completion = s.completion /\ r.verdict = s.verdict
             /\ DOMAIN r.slots = DOMAIN s.slots \cup {index}
             /\ r.slots[index] = Call(Over(id, slot.id), slot.args \o pieces)
             /\ \A i \in DOMAIN s.slots : i # index => r.slots[i] = s.slots[i]
<1> DEFINE slot == Slot(s, index)
           call == Call(Over(id, slot.id), slot.args \o pieces)
           slots == Put(s.slots, index, call)
<1>1. Fill(s, index, id, pieces) = [s EXCEPT !.slots = slots]
  BY Zenon DEF Fill, Call
<1> HIDE DEF call
<1>2. /\ DOMAIN slots = DOMAIN s.slots \cup {index} /\ slots[index] = call
      /\ \A i \in DOMAIN s.slots : i # index => slots[i] = s.slots[i]
  BY DEF Put
<1> HIDE DEF slots
<1>3. ASSUME NEW r, r = [s EXCEPT !.slots = slots]
      PROVE  /\ State(r) /\ r.text = s.text /\ r.finish = s.finish
             /\ r.prompt = s.prompt /\ r.completion = s.completion /\ r.verdict = s.verdict
             /\ r.slots = slots
  BY <1>3 DEF State
<1> QED BY <1>1, <1>2, <1>3 DEF call

LEMMA CallOpened ==
  ASSUME NEW s, State(s), NEW made, Made(made), NEW pos, Keyed(s.slots, made, pos),
         NEW index \in Nat, \A k \in 1..Len(made) : pos[k] < index,
         NEW id, id \in {{}, {Len(made) + 1}}, NEW pieces, Sequence(pieces)
  PROVE  Keyed(Fill(s, index, id, pieces).slots, Append(made, Call(id, pieces)),
               [k \in 1..(Len(made) + 1) |-> IF k = Len(made) + 1 THEN index ELSE pos[k]])
<1> DEFINE slots == Fill(s, index, id, pieces).slots
           more == Append(made, Call(id, pieces))
           n == Len(made)
           later == [k \in 1..(n + 1) |-> IF k = n + 1 THEN index ELSE pos[k]]
<1>1. /\ n \in Nat /\ Len(more) = n + 1 /\ \A k \in 1..n : more[k] = made[k]
      /\ more[n + 1] = Call(id, pieces)
  BY MadeMore
<1>2. index \notin DOMAIN s.slots
  BY <1>1 DEF Keyed, Increasing
<1>3. Slot(s, index).id = {} /\ Slot(s, index).args = <<>>
  BY <1>2 DEF Slot
<1>4. Over(id, {}) = id /\ <<>> \o pieces = pieces
  BY AsIfAppended DEF Over
<1>5. /\ DOMAIN slots = DOMAIN s.slots \cup {index}
      /\ slots[index] = Call(id, pieces)
      /\ \A i \in DOMAIN s.slots : i # index => slots[i] = s.slots[i]
  <2>1. slots[index] = Call(Over(id, Slot(s, index).id), Slot(s, index).args \o pieces)
    BY FillPuts
  <2>2. slots[index] = Call(id, pieces)
    BY <1>3, <1>4, <2>1
  <2> QED BY <2>2, FillPuts
<1> HIDE DEF slots, more
<1>6. /\ later \in [1..(n + 1) -> Nat] /\ later[n + 1] = index
      /\ \A k \in 1..n : k \in 1..(n + 1) /\ k # n + 1 /\ later[k] = pos[k]
      /\ \A k \in 1..(n + 1) : k \in 1..n \/ k = n + 1
  BY <1>1 DEF Keyed, Increasing
<1> HIDE DEF later
<1>7. Increasing(later, n + 1)
  <2>1. ASSUME NEW k \in 1..(n + 1), NEW l \in 1..(n + 1), k < l
        PROVE  later[k] < later[l]
    <3>1. k \in 1..n
      BY <1>1, <2>1
    <3>2. CASE l \in 1..n
      <4>1. \A a, b \in 1..n : a < b => pos[a] < pos[b]
        BY DEF Keyed, Increasing
      <4>2. pos[k] < pos[l]
        BY <2>1, <3>1, <3>2, <4>1
      <4> QED BY <1>6, <3>1, <3>2, <4>2
    <3>3. CASE l = n + 1
      BY <1>6, <3>1, <3>3
    <3> QED BY <1>6, <3>2, <3>3
  <2> QED BY <1>6, <2>1 DEF Increasing
<1>8. \A k \in 1..(n + 1) : later[k] \in DOMAIN slots /\ slots[later[k]] = more[k]
  <2>1. \A k \in 1..n : later[k] \in DOMAIN slots /\ slots[later[k]] = more[k]
    <3> SUFFICES ASSUME NEW k \in 1..n
                 PROVE  later[k] \in DOMAIN slots /\ slots[later[k]] = more[k]
      OBVIOUS
    <3>1. pos[k] \in DOMAIN s.slots /\ s.slots[pos[k]] = made[k]
      BY DEF Keyed
    <3>2. later[k] = pos[k] /\ more[k] = made[k] /\ pos[k] # index
      BY <1>1, <1>2, <1>6, <3>1
    <3> QED BY <1>5, <3>1, <3>2
  <2> QED BY <1>1, <1>5, <1>6, <2>1
<1>9. ASSUME NEW i \in DOMAIN slots
      PROVE  \E k \in 1..(n + 1) : later[k] = i
  <2>1. CASE i = index
    <3>1. n + 1 \in 1..(n + 1) /\ later[n + 1] = i
      BY <1>1, <1>6, <2>1
    <3> QED BY <3>1
  <2>2. CASE i \in DOMAIN s.slots
    <3>1. PICK k \in 1..n : pos[k] = i
      BY <2>2 DEF Keyed
    <3>2. k \in 1..(n + 1) /\ later[k] = i
      BY <1>6, <3>1
    <3> QED BY <3>2
  <2> QED BY <1>5, <2>1, <2>2
<1>10. Keyed(slots, more, later)
  <2>1. Len(more) # 0 /\ Len(more) = n + 1
    BY <1>1
  <2> QED BY <1>7, <1>8, <1>9, <2>1 DEF Keyed
<1> QED BY <1>10 DEF slots, more, later

LEMMA CallGoesOn ==
  ASSUME NEW s, State(s), NEW made, Made(made), NEW pos, Keyed(s.slots, made, pos),
         NEW k \in 1..Len(made), NEW id, id \in {{}, made[k].id}, NEW piece
  PROVE  Keyed(Fill(s, pos[k], id, <<piece>>).slots, Further(made, k, piece), pos)
<1> DEFINE slots == Fill(s, pos[k], id, <<piece>>).slots
           more == Further(made, k, piece)
           n == Len(made)
<1>1. /\ n \in Nat /\ Len(more) = n /\ \A l \in 1..n : l # k => more[l] = made[l]
      /\ more[k] = Call(made[k].id, made[k].args \o <<piece>>)
  BY MadeFurther
<1>2. pos[k] \in DOMAIN s.slots /\ s.slots[pos[k]] = made[k]
  BY DEF Keyed
<1>3. Slot(s, pos[k]) = made[k]
  BY <1>2 DEF Slot
<1>4. Over(id, made[k].id) = made[k].id
  BY DEF Over
<1>5. /\ DOMAIN slots = DOMAIN s.slots \cup {pos[k]}
      /\ slots[pos[k]] = Call(made[k].id, made[k].args \o <<piece>>)
      /\ \A i \in DOMAIN s.slots : i # pos[k] => slots[i] = s.slots[i]
  BY <1>3, <1>4, FillPuts
<1> HIDE DEF slots, more
<1>6. \A l \in 1..n : pos[l] \in DOMAIN slots /\ slots[pos[l]] = more[l]
  <2>1. \A l \in 1..n : l # k => pos[l] # pos[k]
    BY <1>1 DEF Keyed, Increasing
  <2> QED BY <1>1, <1>2, <1>5, <2>1 DEF Keyed
<1>7. \A i \in DOMAIN slots : \E l \in 1..n : pos[l] = i
  BY <1>2, <1>5 DEF Keyed
<1>8. n # 0 /\ Increasing(pos, n)
  BY <1>1 DEF Keyed
<1> HIDE DEF n
<1> QED BY <1>1, <1>6, <1>7, <1>8 DEF Keyed, slots, more

-----------------------------------------------------------------------------
\* The slots of calls that are numbered from 0.
LEMMA ZeroKeys ==
  ASSUME NEW n \in Nat
  PROVE  /\ Increasing(FromZero(n), n)
         /\ \A k \in 1..n : FromZero(n)[k] = k - 1 /\ k - 1 < n
         /\ FromZero(n + 1) = [k \in 1..(n + 1) |-> IF k = n + 1 THEN n ELSE FromZero(n)[k]]
<1>1. \A k \in 1..n : FromZero(n)[k] = k - 1 /\ k - 1 < n /\ k - 1 \in Nat
  BY DEF FromZero
<1>2. FromZero(n) \in [1..n -> Nat]
  BY DEF FromZero
<1>3. Increasing(FromZero(n), n)
  BY <1>1, <1>2 DEF Increasing
<1>4. \A k \in 1..(n + 1) : k \in 1..n \/ k = n + 1
  OBVIOUS
<1>5. \A k \in 1..(n + 1) : k - 1 = IF k = n + 1 THEN n ELSE FromZero(n)[k]
  BY <1>1, <1>4
<1>6. FromZero(n + 1) = [k \in 1..(n + 1) |-> IF k = n + 1 THEN n ELSE FromZero(n)[k]]
  BY <1>5 DEF FromZero
<1> QED BY <1>1, <1>3, <1>6

LEMMA LastOfAll ==
  ASSUME NEW S, NEW m \in S, S \subseteq Int, \A i \in S : i <= m
  PROVE  Max(S) = m
<1>1. Max(S) \in S /\ \A i \in S : Max(S) >= i
  <2>1. \E x \in S : \A y \in S : x >= y
    <3>1. \A y \in S : m >= y
      OBVIOUS
    <3> QED BY <3>1
  <2> QED BY <2>1, Zenon DEF Max
<1> DEFINE n == Max(S)
<1> HIDE DEF n
<1>2. n \in S /\ \A i \in S : n >= i
  BY <1>1 DEF n
<1>3. n = m
  BY <1>2
<1> QED BY <1>3 DEF n

LEMMA Only ==
  ASSUME NEW i \in Int
  PROVE  Max({i}) = i
BY LastOfAll

\* The slot opened last.
LEMMA LastSlot ==
  ASSUME NEW s, NEW made, Made(made), Keyed(s.slots, made, FromZero(Len(made)))
  PROVE  /\ Len(made) = 0 <=> s.slots = <<>>
         /\ Len(made) # 0 => /\ Len(made) \in 1..Len(made)
                             /\ LastOpened(s) = Len(made) - 1 /\ LastOpened(s) \in DOMAIN s.slots
                             /\ s.slots[LastOpened(s)] = made[Len(made)]
<1> DEFINE n == Len(made)
           last == LastOpened(s)
<1>1. n \in Nat
  BY LenProperties DEF Made, Sequence
<1>2. \A k \in 1..n : FromZero(n)[k] = k - 1
  BY <1>1, ZeroKeys
<1>3. /\ \A k \in 1..n : k - 1 \in DOMAIN s.slots /\ s.slots[k - 1] = made[k]
      /\ \A i \in DOMAIN s.slots : \E k \in 1..n : k - 1 = i
      /\ n = 0 => s.slots = <<>>
  <2> DEFINE pos == FromZero(n)
  <2>1. /\ \A k \in 1..n : pos[k] \in DOMAIN s.slots /\ s.slots[pos[k]] = made[k]
        /\ \A i \in DOMAIN s.slots : \E k \in 1..n : pos[k] = i
        /\ n = 0 => s.slots = <<>>
    BY DEF Keyed
  <2> HIDE DEF pos, n
  <2>2. \A k \in 1..n : pos[k] = k - 1
    BY <1>2 DEF pos
  <2>3. ASSUME NEW k \in 1..n
        PROVE  k - 1 \in DOMAIN s.slots /\ s.slots[k - 1] = made[k]
    <3>1. pos[k] = k - 1 /\ pos[k] \in DOMAIN s.slots /\ s.slots[pos[k]] = made[k]
      BY <2>1, <2>2
    <3> QED BY <3>1
  <2>4. ASSUME NEW i \in DOMAIN s.slots
        PROVE  \E k \in 1..n : k - 1 = i
    <3>1. PICK k \in 1..n : pos[k] = i
      BY <2>1
    <3>2. k - 1 = i
      BY <2>2, <3>1
    <3> QED BY <3>2
  <2> QED BY <2>1, <2>3, <2>4
<1> HIDE DEF n
<1>4. n # 0 => s.slots # <<>>
  <2> SUFFICES ASSUME n # 0 PROVE s.slots # <<>>
    OBVIOUS
  <2>1. n - 1 \in DOMAIN s.slots
    BY <1>1, <1>3
  <2>2. DOMAIN <<>> = {}
    OBVIOUS
  <2> QED BY <2>1, <2>2
<1>5. ASSUME n # 0
      PROVE  n \in 1..n /\ last = n - 1 /\ last \in DOMAIN s.slots /\ s.slots[last] = made[n]
  <2>1. n \in 1..n /\ n - 1 \in DOMAIN s.slots /\ s.slots[n - 1] = made[n]
    BY <1>1, <1>3, <1>5
  <2>2. DOMAIN s.slots \subseteq Int /\ \A i \in DOMAIN s.slots : i <= n - 1
    BY <1>1, <1>3
  <2>3. Max(DOMAIN s.slots) = n - 1
    BY <2>1, <2>2, LastOfAll
  <2> QED BY <2>1, <2>3 DEF LastOpened
<1> QED BY <1>3, <1>4, <1>5 DEF n

\* A fragment that opens a call, numbered or not.
LEMMA FragmentOpens ==
  ASSUME NEW s, State(s), NEW made, Made(made), Keyed(s.slots, made, FromZero(Len(made))),
         NEW index, NEW id, NEW pieces, Sequence(pieces), id \in {{}, {Len(made) + 1}},
         \/ index = {Len(made)}
         \/ index = {} /\ (id = {} => Len(made) = 0)
  PROVE  LET r    == AbsorbFragment(s, Fragment(index, id, pieces))
             more == Append(made, Call(id, pieces))
         IN  State(r) /\ Made(more) /\ Len(more) = Len(made) + 1
             /\ Keyed(r.slots, more, FromZero(Len(more)))
<1> DEFINE frame == Fragment(index, id, pieces)
           n == Len(made)
           more == Append(made, Call(id, pieces))
<1>1. frame.index = index /\ frame.id = id /\ frame.pieces = pieces
  BY DEF Fragment
<1>2. n \in Nat /\ Made(more) /\ Len(more) = n + 1
  BY MadeMore
<1>3. (IF index # {} THEN Max(index) ELSE UnindexedSlot(s, id)) = n
  <2>1. CASE index = {n}
    BY <1>2, <2>1, Only
  <2>2. CASE index = {}
    <3>1. CASE n = 0
      <4>1. s.slots = <<>>
        BY <3>1, LastSlot
      <4> QED BY <2>2, <3>1, <4>1 DEF UnindexedSlot
    <3>2. CASE n # 0
      <4>1. /\ s.slots # <<>> /\ LastOpened(s) = n - 1 /\ n \in 1..n
            /\ s.slots[LastOpened(s)] = made[n]
        BY <3>2, LastSlot
      <4>2. made[n].id \in {{}, {n}} /\ id = {n + 1}
        BY <2>2, <3>2, <4>1 DEF Made
      <4>3. id # {} /\ id # s.slots[LastOpened(s)].id
        <5>1. n + 1 \in id /\ n + 1 \notin made[n].id
          BY <1>2, <4>2
        <5> QED BY <4>1, <5>1
      <4>4. UnindexedSlot(s, id) = LastOpened(s) + 1
        BY <4>1, <4>3 DEF UnindexedSlot
      <4> QED BY <1>2, <2>2, <4>1, <4>4
    <3> QED BY <3>1, <3>2
  <2>3. index = {n} \/ index = {}
    OBVIOUS
  <2> QED BY <2>1, <2>2, <2>3
<1> HIDE DEF frame
<1>4. AbsorbFragment(s, frame) = Fill(s, n, id, pieces)
  BY <1>1, <1>3, Zenon DEF AbsorbFragment
<1>5. State(Fill(s, n, id, pieces))
  BY FillPuts
<1>6. Keyed(Fill(s, n, id, pieces).slots, more, FromZero(n + 1))
  <2>1. \A k \in 1..n : FromZero(n)[k] < n
    BY <1>2, ZeroKeys
  <2>2. Keyed(Fill(s, n, id, pieces).slots, more,
              [k \in 1..(n + 1) |-> IF k = n + 1 THEN n ELSE FromZero(n)[k]])
    BY <1>2, <2>1, CallOpened
  <2> QED BY <1>2, <2>2, ZeroKeys
<1> QED BY <1>2, <1>4, <1>5, <1>6 DEF frame

\* One that goes on with a call: with the one it names, or the latest.
LEMMA FragmentGoesOn ==
  ASSUME NEW s, State(s), NEW made, Made(made), Keyed(s.slots, made, FromZero(Len(made))),
         NEW k \in 1..Len(made), NEW index, NEW id, id \in {{}, made[k].id}, NEW piece,
         index = {k - 1} \/ (index = {} /\ k = Len(made))
  PROVE  LET r    == AbsorbFragment(s, Fragment(index, id, <<piece>>))
             more == Further(made, k, piece)
         IN  State(r) /\ Made(more) /\ Len(more) = Len(made)
             /\ Keyed(r.slots, more, FromZero(Len(more)))
<1> DEFINE pieces == <<piece>>
           frame == Fragment(index, id, pieces)
           n == Len(made)
           more == Further(made, k, piece)
<1>1. frame.index = index /\ frame.id = id /\ frame.pieces = pieces
  BY DEF Fragment
<1>2. n \in Nat /\ Made(more) /\ Len(more) = n
  BY MadeFurther
<1>3. (IF index # {} THEN Max(index) ELSE UnindexedSlot(s, id)) = k - 1
  <2>1. CASE index = {k - 1}
    <3>1. k - 1 \in Int
      BY <1>2
    <3> QED BY <2>1, <3>1, Only
  <2>2. CASE index = {} /\ k = n
    <3>1. /\ s.slots # <<>> /\ LastOpened(s) = n - 1
          /\ s.slots[LastOpened(s)] = made[n]
      BY <1>2, <2>2, LastSlot
    <3>2. id = {} \/ id = s.slots[LastOpened(s)].id
      BY <2>2, <3>1
    <3> QED BY <2>2, <3>1, <3>2 DEF UnindexedSlot
  <2> QED BY <2>1, <2>2
<1> HIDE DEF frame
<1>4. AbsorbFragment(s, frame) = Fill(s, k - 1, id, pieces)
  BY <1>1, <1>3, Zenon DEF AbsorbFragment
<1>5. State(Fill(s, k - 1, id, pieces))
  BY FillPuts
<1>6. Keyed(Fill(s, k - 1, id, pieces).slots, more, FromZero(n))
  <2>1. FromZero(n)[k] = k - 1
    BY <1>2, ZeroKeys
  <2>2. Keyed(Fill(s, FromZero(n)[k], id, pieces).slots, more, FromZero(n))
    BY CallGoesOn
  <2> QED BY <2>1, <2>2
<1> QED BY <1>2, <1>4, <1>5, <1>6 DEF frame

-----------------------------------------------------------------------------
\* The calls a reader has are those its slots hold.
LEMMA KeysCounted ==
  ASSUME NEW slots, NEW made, Made(made), NEW pos, Keyed(slots, made, pos)
  PROVE  /\ Cardinality(DOMAIN slots) = Len(made) /\ IsFiniteSet(DOMAIN slots)
         /\ pos \in [1..Len(made) -> DOMAIN slots]
<1> DEFINE n == Len(made)
<1>1. n \in Nat
  BY LenProperties DEF Made, Sequence
<1>2. pos \in [1..n -> DOMAIN slots]
  BY DEF Keyed, Increasing
<1>3. \A k, l \in 1..n : k # l => pos[k] # pos[l]
  <2>1. \A k, l \in 1..n : k < l => pos[k] < pos[l] /\ pos[k] \in Nat /\ pos[l] \in Nat
    BY DEF Keyed, Increasing
  <2>2. \A k, l \in 1..n : k # l => k < l \/ l < k
    BY <1>1
  <2>3. \A a, b \in Nat : a < b => a # b
    OBVIOUS
  <2> HIDE DEF n
  <2> QED BY <2>1, <2>2, <2>3
<1>4. \A i \in DOMAIN slots : \E k \in 1..n : pos[k] = i
  BY DEF Keyed
<1>5. pos \in Bijection(1..n, DOMAIN slots)
  <2> HIDE DEF n
  <2> QED BY <1>2, <1>3, <1>4 DEF Bijection, Injection, Surjection, IsInjective
<1>6. ExistsBijection(1..n, DOMAIN slots)
  BY <1>5 DEF ExistsBijection
<1>7. IsFiniteSet(1..n) /\ Cardinality(1..n) = n
  <2>1. IsFiniteSet(1..n) /\ Cardinality(1..n) = IF 1 > n THEN 0 ELSE n - 1 + 1
    BY <1>1, FS_Interval
  <2> QED BY <1>1, <2>1
<1>8. IsFiniteSet(DOMAIN slots) /\ Cardinality(DOMAIN slots) = Cardinality(1..n)
  BY <1>6, <1>7, FS_Bijection
<1> QED BY <1>2, <1>7, <1>8

\* There is one increasing enumeration of a set.
Enumerates(p, n, D) ==
  /\ p \in [1..n -> D] /\ \A k, l \in 1..n : k < l => p[k] < p[l]
  /\ \A i \in D : \E k \in 1..n : p[k] = i

LEMMA OneOrder ==
  ASSUME NEW n \in Nat, NEW D, D \subseteq Nat, NEW p, NEW q,
         Enumerates(p, n, D), Enumerates(q, n, D)
  PROVE  p = q
<1> USE DEF Enumerates
<1> DEFINE T == { k \in 1..n : p[k] # q[k] }
<1>1. ASSUME T # {}
      PROVE  FALSE
  <2>1. T \subseteq Nat
    OBVIOUS
  <2>2. PICK k \in T : \A m \in T : k <= m
    <3> HIDE DEF T
    <3> QED BY <1>1, <2>1, LeastNatural
  <2>3. k \in 1..n /\ p[k] # q[k] /\ \A j \in 1..n : j < k => p[j] = q[j]
    <3>1. \A j \in 1..n : j < k => j \notin T
      BY <2>1, <2>2
    <3> QED BY <2>2, <3>1
  <2> HIDE DEF T
  <2>4. PICK a \in 1..n : p[a] = q[k]
    BY <2>3
  <2>5. PICK b \in 1..n : q[b] = p[k]
    BY <2>3
  <2>6. \A j \in 1..n : p[j] \in Nat /\ q[j] \in Nat
    OBVIOUS
  <2>7. CASE p[k] < q[k]
    <3>1. b < k
      <4>1. b > k => q[k] < q[b]
        BY <2>3
      <4>2. b = k => q[b] = q[k]
        OBVIOUS
      <4> QED BY <2>3, <2>5, <2>6, <2>7, <4>1, <4>2
    <3>2. p[b] < p[k] /\ p[b] = q[b]
      BY <2>3, <3>1
    <3> QED BY <2>3, <2>5, <2>6, <3>2
  <2>8. CASE q[k] < p[k]
    <3>1. a < k
      <4>1. a > k => p[k] < p[a]
        BY <2>3
      <4>2. a = k => p[a] = p[k]
        OBVIOUS
      <4> QED BY <2>3, <2>4, <2>6, <2>8, <4>1, <4>2
    <3>2. q[a] < q[k] /\ p[a] = q[a]
      BY <2>3, <3>1
    <3> QED BY <2>3, <2>4, <2>6, <3>2
  <2> QED BY <2>3, <2>6, <2>7, <2>8
<1>2. \A k \in 1..n : p[k] = q[k]
  BY <1>1
<1> QED BY <1>2

LEMMA CallsAreMade ==
  ASSUME NEW s, NEW made, Made(made), NEW pos, Keyed(s.slots, made, pos)
  PROVE  Calls(s) = made
<1> DEFINE D == DOMAIN s.slots
           n == Cardinality(D)
           order == CHOOSE o \in [1..n -> D] : \A k, l \in 1..n : k < l => o[k] < o[l]
<1>1. n = Len(made) /\ n \in Nat /\ IsFiniteSet(D) /\ pos \in [1..n -> D]
  <2>1. n = Len(made) /\ IsFiniteSet(D) /\ pos \in [1..Len(made) -> D]
    <3>1. PICK slots : slots = s.slots
      OBVIOUS
    <3>2. Keyed(slots, made, pos)
      BY <3>1
    <3>3. Cardinality(DOMAIN slots) = Len(made) /\ IsFiniteSet(DOMAIN slots)
          /\ pos \in [1..Len(made) -> DOMAIN slots]
      BY <3>2, KeysCounted, Zenon
    <3> QED BY <3>1, <3>3
  <2>2. Len(made) \in Nat
    BY LenProperties DEF Made, Sequence
  <2> HIDE DEF n
  <2> QED BY <2>1, <2>2
<1>2. Calls(s) = [k \in 1..n |-> s.slots[order[k]]]
  BY Zenon DEF Calls
<1>3. Cardinality(1..n) = n
  <2> HIDE DEF n
  <2>1. Cardinality(1..n) = IF 1 > n THEN 0 ELSE n - 1 + 1
    <3>1. 1 \in Int /\ n \in Int
      BY <1>1
    <3> QED BY <3>1, FS_Interval
  <2> QED BY <1>1, <2>1
<1>4. /\ \A k, l \in 1..Len(made) : k < l => pos[k] < pos[l]
      /\ \A i \in D : \E k \in 1..Len(made) : pos[k] = i
      /\ \A k \in 1..Len(made) : s.slots[pos[k]] = made[k]
      /\ D \subseteq Nat
  BY DEF Keyed, Increasing
<1>5. \A k, l \in 1..n : k < l => pos[k] < pos[l]
  <2> HIDE DEF n
  <2> QED BY <1>1, <1>4
<1>6. \A i \in D : \E k \in 1..n : pos[k] = i
  <2> HIDE DEF n
  <2> QED BY <1>1, <1>4
<1>7. order \in [1..n -> D] /\ \A k, l \in 1..n : k < l => order[k] < order[l]
  <2>1. \E o \in [1..n -> D] : \A k, l \in 1..n : k < l => o[k] < o[l]
    BY <1>1, <1>5, Zenon
  <2> HIDE DEF n, D
  <2> QED BY <2>1, Zenon
<1>8. Cardinality(D) = n
  OBVIOUS
<1> HIDE DEF order, n, D
<1>9. \A i \in D : \E k \in 1..n : order[k] = i
  <2>1. \A k, l \in 1..n : k # l => order[k] # order[l]
    <3>1. \A k, l \in 1..n : k # l => k < l \/ l < k
      BY <1>1
    <3>2. \A k \in 1..n : order[k] \in Nat
      BY <1>4, <1>7
    <3> QED BY <1>7, <3>1, <3>2
  <2>2. order \in Injection(1..n, D)
    BY <1>7, <2>1 DEF Injection, IsInjective
  <2>3. order \in Surjection(1..n, D)
    BY <1>1, <1>3, <1>8, <2>2, FS_Injection
  <2> QED BY <2>3 DEF Surjection
<1>10. order = pos
  <2>1. Enumerates(order, n, D)
    BY <1>7, <1>9, Zenon DEF Enumerates
  <2>2. Enumerates(pos, n, D)
    BY <1>1, <1>5, <1>6, Zenon DEF Enumerates
  <2>3. n \in Nat /\ D \subseteq Nat
    BY <1>1, <1>4
  <2> QED BY <2>1, <2>2, <2>3, OneOrder
<1>11. made = [k \in 1..Len(made) |-> made[k]]
  BY LenProperties DEF Made, Sequence
<1>12. [k \in 1..n |-> s.slots[order[k]]] = [k \in 1..Len(made) |-> made[k]]
  BY <1>1, <1>4, <1>10
<1> QED BY <1>2, <1>11, <1>12

-----------------------------------------------------------------------------
\* What the frames of the Anthropic wire do to a reader that reads on.
LEMMA Absorbed ==
  ASSUME NEW s, s.verdict = "open", NEW frame, frame.type \in Plain
  PROVE  Read(s, frame) = Absorb(s, frame)
<1>1. frame.type \notin {"torn", "[DONE]", "message_stop", "error", "labelled"}
  BY DEF Plain
<1> QED BY <1>1, Zenon DEF Read

LEMMA StartRead ==
  ASSUME NEW s, Reader(s), s.verdict = "open", NEW usage
  PROVE  LET r == Read(s, MessageStart(usage))
         IN  /\ Reader(r) /\ r.verdict = "open" /\ r.finish = s.finish /\ SameAnswer(r, s)
<1> DEFINE frame == MessageStart(usage)
           prompt == Over(frame.usage.input, s.prompt)
<1>1. frame.type = "message_start" /\ frame.type \in Plain
  BY DEF MessageStart, Plain
<1> HIDE DEF frame
<1>2. Read(s, frame) = [s EXCEPT !.prompt = prompt]
  <2>1. Read(s, frame) = Absorb(s, frame)
    BY <1>1, Absorbed
  <2> QED BY <1>1, <2>1, Zenon DEF Absorb, AbsorbStart
<1> HIDE DEF prompt
<1>3. ASSUME NEW r, r = [s EXCEPT !.prompt = prompt]
      PROVE  Reader(r) /\ r.verdict = "open" /\ r.finish = s.finish /\ SameAnswer(r, s)
  BY <1>3 DEF Reader, State, SameAnswer
<1> QED BY <1>2, <1>3 DEF frame

LEMMA StopRead ==
  ASSUME NEW s, Reader(s), s.verdict = "open", NEW why, why # {}, NEW usage
  PROVE  LET r == Read(s, MessageDelta(why, usage))
         IN  /\ Reader(r) /\ r.verdict = "open" /\ r.finish = why /\ SameAnswer(r, s)
<1> DEFINE frame == MessageDelta(why, usage)
           finish == Over(frame.stop, s.finish)
           prompt == Over(frame.usage.input, s.prompt)
           completion == Over(frame.usage.output, s.completion)
<1>1. frame.type = "message_delta" /\ frame.type \in Plain /\ frame.stop = why
  BY DEF MessageDelta, Plain
<1> HIDE DEF frame
<1>2. Read(s, frame) =
        [s EXCEPT !.finish = finish, !.prompt = prompt, !.completion = completion]
  <2>1. Read(s, frame) = Absorb(s, frame)
    BY <1>1, Absorbed
  <2> QED BY <1>1, <2>1, Zenon DEF Absorb, AbsorbEnd
<1>3. finish = why
  BY <1>1 DEF Over
<1> HIDE DEF finish, prompt, completion
<1>4. ASSUME NEW r,
             r = [s EXCEPT !.finish = finish, !.prompt = prompt, !.completion = completion]
      PROVE  Reader(r) /\ r.verdict = "open" /\ r.finish = finish /\ SameAnswer(r, s)
  BY <1>4 DEF Reader, State, SameAnswer
<1> QED BY <1>2, <1>3, <1>4 DEF frame

LEMMA TextRead ==
  ASSUME NEW s, Reader(s), s.verdict = "open", NEW piece
  PROVE  LET r == Read(s, TextDelta(piece))
         IN  /\ Reader(r) /\ r.verdict = "open" /\ r.finish = s.finish
             /\ r.text = Append(s.text, piece) /\ r.slots = s.slots
<1> DEFINE frame == TextDelta(piece)
           text == Append(s.text, piece)
<1>1. frame.type = "text_delta" /\ frame.type \in Plain /\ frame.piece = piece
  BY DEF TextDelta, Plain
<1> HIDE DEF frame
<1>2. Read(s, frame) = [s EXCEPT !.text = text]
  <2>1. Read(s, frame) = Absorb(s, frame)
    BY <1>1, Absorbed
  <2> QED BY <1>1, <2>1, Zenon DEF Absorb
<1>3. Sequence(text)
  BY OneMoreFrame DEF Reader
<1> HIDE DEF text
<1>4. ASSUME NEW r, r = [s EXCEPT !.text = text]
      PROVE  /\ Reader(r) /\ r.verdict = "open" /\ r.finish = s.finish
             /\ r.text = text /\ r.slots = s.slots
  BY <1>3, <1>4 DEF Reader, State
<1> QED BY <1>2, <1>4 DEF frame, text

LEMMA TextBlockRead ==
  ASSUME NEW s, s.verdict = "open", NEW index, NEW id
  PROVE  Read(s, BlockStart(index, "text", id)) = s
<1> DEFINE frame == BlockStart(index, "text", id)
<1>1. frame.type = "content_block_start" /\ frame.type \in Plain /\ frame.kind = "text"
  BY DEF BlockStart, Plain
<1> HIDE DEF frame
<1>2. Read(s, frame) = AbsorbBlock(s, frame)
  <2>1. Read(s, frame) = Absorb(s, frame)
    BY <1>1, Absorbed
  <2> QED BY <1>1, <2>1, Zenon DEF Absorb
<1> QED BY <1>1, <1>2 DEF AbsorbBlock, frame

\* What only fills a slot leaves the rest.
FillsOnly(r, s) ==
  Reader(r) /\ r.verdict = "open" /\ r.finish = s.finish /\ r.text = s.text

LEMMA CallBlockRead ==
  ASSUME NEW s, Reader(s), s.verdict = "open", NEW index \in Nat, NEW given,
         \/ given = {index}
         \/ given = {} /\ index = Cardinality(DOMAIN s.slots),
         NEW id
  PROVE  LET r == Read(s, BlockStart(given, "tool_use", id))
         IN  FillsOnly(r, s) /\ r = Fill(s, index, id, <<>>)
<1> DEFINE frame == BlockStart(given, "tool_use", id)
           r == Fill(s, index, id, <<>>)
<1>1. /\ frame.type = "content_block_start" /\ frame.type \in Plain /\ frame.kind = "tool_use"
      /\ frame.index = given /\ frame.id = id
  BY DEF BlockStart, Plain
<1> HIDE DEF frame
<1>2. Read(s, frame) = AbsorbBlock(s, frame)
  <2>1. Read(s, frame) = Absorb(s, frame)
    BY <1>1, Absorbed
  <2> QED BY <1>1, <2>1, Zenon DEF Absorb
<1>3. (IF frame.index # {} THEN Max(frame.index) ELSE Cardinality(DOMAIN s.slots)) = index
  BY <1>1, Only
<1>4. Read(s, frame) = r
  BY <1>1, <1>2, <1>3, Zenon DEF AbsorbBlock
<1>5. State(r) /\ r.verdict = "open" /\ r.finish = s.finish /\ r.text = s.text
  BY FillPuts DEF Reader
<1> HIDE DEF r
<1>6. FillsOnly(r, s)
  BY <1>5 DEF FillsOnly, Reader
<1> QED BY <1>4, <1>6 DEF frame, r

LEMMA JsonRead ==
  ASSUME NEW s, Reader(s), s.verdict = "open", NEW index \in DOMAIN s.slots, index \in Nat,
         NEW given,
         \/ given = {index}
         \/ given = {} /\ s.slots # <<>> /\ index = LastOpened(s),
         NEW piece
  PROVE  LET r == Read(s, JsonDelta(given, piece))
         IN  FillsOnly(r, s) /\ r = Fill(s, index, {}, <<piece>>)
<1> DEFINE frame == JsonDelta(given, piece)
           r == Fill(s, index, {}, <<piece>>)
           indexes == IF frame.index # {} THEN frame.index
                      ELSE IF s.slots = <<>> THEN {} ELSE {LastOpened(s)}
<1>1. /\ frame.type = "input_json_delta" /\ frame.type \in Plain
      /\ frame.index = given /\ frame.piece = piece
  BY DEF JsonDelta, Plain
<1> HIDE DEF frame
<1>2. Read(s, frame) = AbsorbJson(s, frame)
  <2>1. Read(s, frame) = Absorb(s, frame)
    BY <1>1, Absorbed
  <2> QED BY <1>1, <2>1, Zenon DEF Absorb
<1>3. indexes = {index}
  BY <1>1
<1>4. AbsorbJson(s, frame) = IF indexes \cap DOMAIN s.slots = {} THEN s
                             ELSE Fill(s, Max(indexes), {}, <<frame.piece>>)
  BY Zenon DEF AbsorbJson
<1>5. indexes \cap DOMAIN s.slots # {} /\ Max(indexes) = index
  <2>1. Max({index}) = index
    BY Only
  <2>2. index \in {index} \cap DOMAIN s.slots
    OBVIOUS
  <2> HIDE DEF indexes
  <2> QED BY <1>3, <2>1, <2>2
<1> HIDE DEF indexes
<1>6. Read(s, frame) = r
  BY <1>1, <1>2, <1>4, <1>5
<1>7. State(r) /\ r.verdict = "open" /\ r.finish = s.finish /\ r.text = s.text
  BY FillPuts DEF Reader
<1> HIDE DEF r
<1>8. FillsOnly(r, s)
  BY <1>7 DEF FillsOnly, Reader
<1> QED BY <1>6, <1>8 DEF frame, r

-----------------------------------------------------------------------------
\* The position of a call among the blocks of the answer.
Places(pos) ==
  /\ Increasing(pos, Len(calls))
  /\ \A k \in 1..Len(calls) : pos[k] < Len(blocks)
  /\ \A b \in 1..Len(blocks) : blocks[b] = "call" <=> \E k \in 1..Len(calls) : pos[k] = b - 1

LEMMA BlockOfCall ==
  ASSUME Sequence(calls), Sequence(blocks), NEW pos, Places(pos), NEW k \in 1..Len(calls)
  PROVE  BlockOf(k) = pos[k]
<1> DEFINE n == Len(calls)
           m == Len(blocks)
           upTo(b) == { c \in 1..b : blocks[c] = "call" }
           found == { b \in 1..m : blocks[b] = "call" /\ Cardinality(upTo(b)) = k }
<1>1. n \in Nat /\ m \in Nat
  BY LenProperties DEF Sequence
<1> HIDE DEF n, m
<1>2. /\ pos \in [1..n -> Nat] /\ \A i, j \in 1..n : i < j => pos[i] < pos[j]
      /\ \A i \in 1..n : pos[i] < m
      /\ \A b \in 1..m : blocks[b] = "call" <=> \E i \in 1..n : pos[i] = b - 1
  BY DEF Places, Increasing, n, m
<1>3. ASSUME NEW i \in 1..n
      PROVE  /\ pos[i] + 1 \in 1..m /\ blocks[pos[i] + 1] = "call"
             /\ Cardinality(upTo(pos[i] + 1)) = i
  <2> DEFINE b == pos[i] + 1
             f == [j \in 1..i |-> pos[j] + 1]
  <2>1. b \in 1..m /\ b - 1 = pos[i] /\ i \in 1..n /\ i \in Nat
    BY <1>1, <1>2
  <2>2. blocks[b] = "call"
    BY <1>2, <2>1
  <2>3. \A j \in 1..i : j \in 1..n /\ pos[j] \in Nat /\ pos[j] + 1 \in 1..b /\ pos[j] + 1 \in 1..m
    <3>1. \A j \in 1..i : j \in 1..n /\ (j < i \/ j = i)
      BY <1>1
    <3>2. \A j \in 1..i : pos[j] \in Nat /\ pos[j] <= pos[i]
      BY <1>2, <3>1
    <3>3. ASSUME NEW j \in 1..i
          PROVE  pos[j] + 1 \in 1..b /\ pos[j] + 1 \in 1..m
      <4>1. pos[j] \in Nat /\ pos[j] <= pos[i] /\ pos[i] \in Nat /\ b \in 1..m /\ b = pos[i] + 1
        BY <1>2, <2>1, <3>2
      <4> HIDE DEF b
      <4> QED BY <1>1, <4>1
    <3> QED BY <3>1, <3>2, <3>3
  <2>4. \A j \in 1..i : blocks[pos[j] + 1] = "call"
    <3>1. \A j \in 1..i : (pos[j] + 1) - 1 = pos[j]
      BY <2>3
    <3> QED BY <1>2, <2>3, <3>1
  <2>5. f \in [1..i -> upTo(b)]
    BY <2>3, <2>4
  <2>6. \A j, l \in 1..i : j # l => f[j] # f[l]
    <3>1. \A j, l \in 1..i : j # l => j < l \/ l < j
      BY <1>1
    <3>2. \A j, l \in 1..i : j < l => pos[j] < pos[l]
      BY <1>2, <2>3
    <3>3. \A j, l \in 1..i : j < l => f[j] # f[l]
      BY <2>3, <3>2
    <3> HIDE DEF f
    <3> QED BY <3>1, <3>3
  <2>7. \A c \in upTo(b) : \E j \in 1..i : f[j] = c
    <3> SUFFICES ASSUME NEW c \in 1..b, blocks[c] = "call" PROVE \E j \in 1..i : f[j] = c
      OBVIOUS
    <3>1. c \in 1..m
      BY <1>1, <2>1
    <3>2. PICK j \in 1..n : pos[j] = c - 1
      BY <1>2, <3>1
    <3>3. ~(i < j)
      <4>1. i < j => pos[i] < pos[j]
        BY <1>2
      <4>2. ~(pos[i] < pos[j])
        BY <2>1, <3>2, <1>2
      <4> QED BY <4>1, <4>2
    <3>4. j \in 1..i
      BY <1>1, <3>2, <3>3
    <3>5. f[j] = c
      BY <3>2, <3>4
    <3> QED BY <3>4, <3>5
  <2> HIDE DEF f, b, upTo
  <2>8. f \in Bijection(1..i, upTo(b))
    BY <2>5, <2>6, <2>7 DEF Bijection, Injection, Surjection, IsInjective
  <2>9. ExistsBijection(1..i, upTo(b))
    BY <2>8 DEF ExistsBijection
  <2>10. IsFiniteSet(1..i) /\ Cardinality(1..i) = i
    <3>1. 1 \in Int /\ i \in Int
      BY <2>1
    <3>2. IsFiniteSet(1..i) /\ Cardinality(1..i) = IF 1 > i THEN 0 ELSE i - 1 + 1
      BY <3>1, FS_Interval
    <3> QED BY <2>1, <3>2
  <2>11. Cardinality(upTo(b)) = i
    BY <2>9, <2>10, FS_Bijection
  <2> QED BY <2>1, <2>2, <2>11 DEF b
<1>4. \A b \in found : b = pos[k] + 1
  <2> SUFFICES ASSUME NEW b \in 1..m, blocks[b] = "call", Cardinality(upTo(b)) = k
               PROVE  b = pos[k] + 1
    OBVIOUS
  <2>1. PICK i \in 1..n : pos[i] = b - 1
    BY <1>2
  <2>2. b = pos[i] + 1
    BY <1>1, <2>1
  <2>3. Cardinality(upTo(b)) = i
    BY <1>3, <2>2
  <2> QED BY <2>2, <2>3
<1>5. k \in 1..n /\ pos[k] + 1 \in found
  <2>1. k \in 1..n
    BY DEF n
  <2> QED BY <1>3, <2>1
<1>6. found = {pos[k] + 1}
  BY <1>4, <1>5
<1>7. BlockOf(k) = Min(found) - 1
  BY Zenon DEF BlockOf, m
<1>8. pos[k] \in Nat
  BY <1>2, <1>5
<1>9. Min({pos[k] + 1}) = pos[k] + 1
  <2> DEFINE S == {pos[k] + 1}
  <2>1. \E x \in S : \A y \in S : x <= y
    BY <1>8
  <2>2. Min(S) \in S
    BY <2>1, Zenon DEF Min
  <2> QED BY <2>2
<1> HIDE DEF found
<1>10. BlockOf(k) = (pos[k] + 1) - 1
  BY <1>6, <1>7, <1>9
<1> QED BY <1>8, <1>10

-----------------------------------------------------------------------------
\* The chunks that say something.
LEMMA TextChunk ==
  ASSUME NEW s, Reader(s), s.verdict = "open", NEW piece
  PROVE  LET r == Read(s, Chunk([NoDelta EXCEPT !.text = <<piece>>], {}))
         IN  /\ Reader(r) /\ r.verdict = "open" /\ r.finish = s.finish /\ SameFigures(r, s)
             /\ r.text = Append(s.text, piece) /\ r.slots = s.slots
<1> DEFINE delta == [NoDelta EXCEPT !.text = <<piece>>]
           r == Read(s, Chunk(delta, {}))
<1>1. delta.text = <<piece>> /\ delta.calls = <<>>
  BY DEF NoDelta
<1> HIDE DEF delta
<1>2. /\ State(r) /\ r.verdict = "open" /\ r.finish = Over({}, s.finish)
      /\ r.prompt = s.prompt /\ r.completion = s.completion
      /\ r.text = s.text \o delta.text
      /\ r.slots = AbsorbAll(s, delta.calls).slots
  BY ChunkRead DEF Reader
<1> HIDE DEF r
<1>3. r.text = Append(s.text, piece) /\ Sequence(r.text) /\ r.slots = s.slots
  <2>1. s.text \o <<piece>> = Append(s.text, piece) /\ Sequence(Append(s.text, piece))
    BY AsIfAppended, OneMoreFrame DEF Reader
  <2> QED BY <1>1, <1>2, <2>1, FewFragments
<1> QED BY <1>2, <1>3 DEF Reader, SameFigures, Over, r, delta

LEMMA CallChunk ==
  ASSUME NEW s, Reader(s), s.verdict = "open", NEW fragments
  PROVE  LET r == Read(s, Chunk([NoDelta EXCEPT !.calls = fragments], {}))
         IN  FillsOnly(r, s) /\ SameFigures(r, s) /\ r.slots = AbsorbAll(s, fragments).slots
<1> DEFINE delta == [NoDelta EXCEPT !.calls = fragments]
           r == Read(s, Chunk(delta, {}))
<1>1. delta.text = <<>> /\ delta.calls = fragments
  BY DEF NoDelta
<1> HIDE DEF delta
<1>2. /\ State(r) /\ r.verdict = "open" /\ r.finish = Over({}, s.finish)
      /\ r.prompt = s.prompt /\ r.completion = s.completion
      /\ r.text = s.text \o delta.text
      /\ r.slots = AbsorbAll(s, delta.calls).slots
  BY ChunkRead DEF Reader
<1> HIDE DEF r
<1>3. r.text = s.text
  BY <1>1, <1>2, AsIfAppended DEF Reader
<1> QED BY <1>1, <1>2, <1>3 DEF Reader, FillsOnly, SameFigures, Over, r, delta

-----------------------------------------------------------------------------
\* What the frames of the Anthropic wire make of a translator whose reader reads on.
LEMMA StartHandled ==
  ASSUME NEW t, Listens(t), NEW usage
  PROVE  LET e == HandleData(t, MessageStart(usage))
         IN  /\ Show(e) = Show(t) /\ e.input = usage /\ e.output = t.output
             /\ e.reason = t.reason /\ e.slots = t.slots /\ e.next = t.next
<1> DEFINE frame == MessageStart(usage)
           u == [t EXCEPT !.input = usage]
<1>1. frame.type = "message_start" /\ frame.usage = usage
  BY DEF MessageStart
<1> HIDE DEF frame
<1>2. HandleData(t, frame) = EmitRoleOnce(u)
  BY <1>1, Zenon DEF HandleData
<1>3. ASSUME NEW x, x = [t EXCEPT !.input = usage]
      PROVE  /\ Tr(x) /\ x.out = t.out /\ x.input = usage /\ x.output = t.output
             /\ x.reason = t.reason /\ x.slots = t.slots /\ x.next = t.next
  BY <1>3 DEF Listens, Tr
<1> HIDE DEF u
<1>4. /\ Tr(u) /\ u.out = t.out /\ u.input = usage /\ u.output = t.output
      /\ u.reason = t.reason /\ u.slots = t.slots /\ u.next = t.next
  BY <1>3 DEF u
<1>5. Show(u) = Show(t) /\ Listens(u)
  BY <1>4 DEF Show, Listens
<1>6. Show(EmitRoleOnce(u)) = Show(u) /\ SameNotes(u, EmitRoleOnce(u))
  BY <1>5, RoleShown
<1> QED BY <1>2, <1>4, <1>5, <1>6 DEF SameNotes, frame

LEMMA TextHandled ==
  ASSUME NEW t, Listens(t), NEW piece
  PROVE  LET e == HandleData(t, TextDelta(piece))
         IN  /\ Show(e) = Read(Show(t), Chunk([NoDelta EXCEPT !.text = <<piece>>], {}))
             /\ SameNotes(t, e)
<1> DEFINE frame == TextDelta(piece)
           delta == [NoDelta EXCEPT !.text = <<piece>>]
<1>1. frame.type = "text_delta" /\ frame.piece = piece
  BY DEF TextDelta
<1> HIDE DEF frame
<1>2. HandleData(t, frame) = EmitDelta(t, delta)
  BY <1>1, Zenon DEF HandleData
<1> HIDE DEF delta
<1> QED BY <1>2, DeltaShown DEF frame, delta

LEMMA TextBlockHandled ==
  ASSUME NEW t, NEW index, NEW id
  PROVE  HandleData(t, BlockStart(index, "text", id)) = t
<1> DEFINE frame == BlockStart(index, "text", id)
<1>1. frame.type = "content_block_start" /\ frame.kind = "text"
  BY DEF BlockStart
<1> HIDE DEF frame
<1>2. HandleData(t, frame) = TranslateBlock(t, frame)
  BY <1>1, Zenon DEF HandleData
<1> QED BY <1>1, <1>2 DEF TranslateBlock, frame

\* The block a frame is about: its index, or 0.
LEMMA IndexOf ==
  ASSUME NEW frame, NEW block \in Nat,
         frame.index = {block} \/ (frame.index = {} /\ block = 0)
  PROVE  Index(frame) = block
BY Only DEF Index

\* What opens a call, and a piece of its arguments, as the translator passes them on.
Opened(slot, id)   == Chunk([NoDelta EXCEPT !.calls = <<Fragment({slot}, id, <<>>)>>], {})
Argued(slot, piece) ==
  Chunk([NoDelta EXCEPT !.calls = <<Fragment({slot}, {}, <<piece>>)>>], {})

LEMMA CallBlockHandled ==
  ASSUME NEW t, Listens(t), NEW given, NEW block \in Nat,
         given = {block} \/ (given = {} /\ block = 0), NEW id
  PROVE  LET e == HandleData(t, BlockStart(given, "tool_use", id))
         IN  /\ Show(e) = Read(Show(t), Opened(t.next, id))
             /\ e.slots = Put(t.slots, block, t.next) /\ e.next = t.next + 1
             /\ e.input = t.input /\ e.output = t.output /\ e.reason = t.reason
<1> DEFINE frame == BlockStart(given, "tool_use", id)
           slots == Put(t.slots, block, t.next)
           next == t.next + 1
           delta == [NoDelta EXCEPT !.calls = <<Fragment({t.next}, id, <<>>)>>]
           u == [t EXCEPT !.slots = slots, !.next = next]
<1>1. /\ frame.type = "content_block_start" /\ frame.kind = "tool_use" /\ frame.index = given
      /\ frame.id = id
  BY DEF BlockStart
<1> HIDE DEF frame
<1>2. Index(frame) = block
  BY <1>1, IndexOf
<1>3. HandleData(t, frame) = EmitDelta(u, delta)
  <2>1. HandleData(t, frame) = TranslateBlock(t, frame)
    BY <1>1, Zenon DEF HandleData
  <2> QED BY <1>1, <1>2, <2>1, Zenon DEF TranslateBlock
<1> HIDE DEF slots, next, delta
<1>4. ASSUME NEW x, x = [t EXCEPT !.slots = slots, !.next = next]
      PROVE  /\ Tr(x) /\ x.out = t.out /\ x.slots = slots /\ x.next = next
             /\ x.input = t.input /\ x.output = t.output /\ x.reason = t.reason
  BY <1>4 DEF Listens, Tr
<1> HIDE DEF u
<1>5. /\ Tr(u) /\ u.out = t.out /\ u.slots = slots /\ u.next = next
      /\ u.input = t.input /\ u.output = t.output /\ u.reason = t.reason
  BY <1>4 DEF u
<1>6. Show(u) = Show(t) /\ Listens(u)
  BY <1>5 DEF Show, Listens
<1>7. Show(EmitDelta(u, delta)) = Read(Show(u), Chunk(delta, {})) /\ SameNotes(u, EmitDelta(u, delta))
  BY <1>6, DeltaShown
<1>8. Chunk(delta, {}) = Opened(t.next, id)
  BY DEF Opened, delta
<1> QED BY <1>3, <1>5, <1>6, <1>7, <1>8 DEF SameNotes, frame, slots, next

LEMMA JsonHandled ==
  ASSUME NEW t, Listens(t), NEW given, NEW block \in Nat, block \in DOMAIN t.slots,
         given = {block} \/ (given = {} /\ block = 0), NEW piece
  PROVE  LET e == HandleData(t, JsonDelta(given, piece))
         IN  /\ Show(e) = Read(Show(t), Argued(t.slots[block], piece))
             /\ SameNotes(t, e)
<1> DEFINE frame == JsonDelta(given, piece)
           delta == [NoDelta EXCEPT !.calls = <<Fragment({t.slots[block]}, {}, <<piece>>)>>]
<1>1. frame.type = "input_json_delta" /\ frame.index = given /\ frame.piece = piece
  BY DEF JsonDelta
<1> HIDE DEF frame
<1>2. Index(frame) = block
  BY <1>1, IndexOf
<1>3. HandleData(t, frame) = EmitDelta(t, delta)
  <2>1. HandleData(t, frame) = TranslateJson(t, frame)
    BY <1>1, Zenon DEF HandleData
  <2> QED BY <1>1, <1>2, <2>1, Zenon DEF TranslateJson
<1> HIDE DEF delta
<1>4. Chunk(delta, {}) = Argued(t.slots[block], piece)
  BY DEF Argued, delta
<1> QED BY <1>3, <1>4, DeltaShown DEF frame

LEMMA StopHandled ==
  ASSUME NEW t, Listens(t), ~t.finish, NEW why, Answer!FinishOf(why) # {}, NEW usage
  PROVE  LET e == HandleData(t, MessageDelta(why, usage))
         IN  /\ Listens(e) /\ e.finish /\ SameAnswer(Show(e), Show(t))
             /\ SameFigures(Show(e), Show(t)) /\ Show(e).finish = Answer!FinishOf(why)
             /\ e.reason = Answer!FinishOf(why) /\ e.output = usage /\ e.input = t.input
             /\ e.slots = t.slots /\ e.next = t.next
<1> DEFINE frame == MessageDelta(why, usage)
           reason == Over(Answer!FinishOf(frame.stop), t.reason)
           u == [t EXCEPT !.reason = reason, !.output = usage]
<1>1. frame.type = "message_delta" /\ frame.stop = why /\ frame.usage = usage
  BY DEF MessageDelta
<1> HIDE DEF frame
<1>2. HandleData(t, frame) = EmitFinishOnce(u)
  BY <1>1, Zenon DEF HandleData, TranslateEnd
<1>3. reason = Answer!FinishOf(why)
  BY <1>1, Zenon DEF Over
<1> HIDE DEF reason
<1>4. ASSUME NEW x, x = [t EXCEPT !.reason = reason, !.output = usage]
      PROVE  /\ Tr(x) /\ x.out = t.out /\ x.reason = reason /\ x.output = usage
             /\ x.input = t.input /\ x.slots = t.slots /\ x.next = t.next /\ x.finish = t.finish
  BY <1>4 DEF Listens, Tr
<1> HIDE DEF u
<1>5. /\ Tr(u) /\ u.out = t.out /\ u.reason = reason /\ u.output = usage
      /\ u.input = t.input /\ u.slots = t.slots /\ u.next = t.next /\ u.finish = t.finish
  BY <1>4 DEF u
<1>6. Show(u) = Show(t) /\ Listens(u)
  BY <1>5 DEF Show, Listens
<1> DEFINE e == EmitFinishOnce(u)
<1>7. /\ Listens(e) /\ SameNotes(u, e) /\ SameAnswer(Show(e), Show(u))
      /\ SameFigures(Show(e), Show(u))
      /\ ~u.finish /\ u.reason # {} => Show(e).finish = u.reason
  BY <1>6, FinishShown
<1>8. e.finish
  BY <1>5, FinishEmitted
<1> HIDE DEF e
<1>9. Show(e).finish = Answer!FinishOf(why)
  <2>1. ~u.finish /\ u.reason = Answer!FinishOf(why)
    BY <1>3, <1>5
  <2> QED BY <1>7, <2>1
<1>10. SameAnswer(Show(e), Show(t)) /\ SameFigures(Show(e), Show(t))
  BY <1>6, <1>7
<1>11. /\ e.reason = Answer!FinishOf(why) /\ e.output = usage /\ e.input = t.input
       /\ e.slots = t.slots /\ e.next = t.next
  BY <1>3, <1>5, <1>7 DEF SameNotes
<1> QED BY <1>2, <1>7, <1>8, <1>9, <1>10, <1>11 DEF frame, e

-----------------------------------------------------------------------------
\* The translator once it has read every line that was sent, and what the two readers
\* have of the answer then.
Ahead == IF taken = Len(source) THEN tr ELSE HandleData(tr, Last(source))
Seen  == ReadAll(source)
Shown == Show(Ahead)

Verdict == IF phase = "ending" THEN "whole" ELSE IF phase = "failing" THEN "failed" ELSE "open"

\* The reader behind the translator is not told of an error that was labelled only.
Told == IF phase = "failing" /\ Last(source).type = "labelled" THEN "open" ELSE Verdict

HeardInv ==
  /\ Sequence(words)
  /\ Reader(Seen)  /\ Seen.verdict = Verdict  /\ Seen.text = words
  /\ Reader(Shown) /\ Shown.verdict = Told /\ Shown.text = words

\* The slots of the reader of an Anthropic wire, and those of its translator.
Keys(pos) == IF wire.numbered THEN pos ELSE FromZero(Len(calls))

Maps(t, pos) ==
  /\ t.next = Len(calls)
  /\ \A k \in 1..Len(calls) :
       /\ wire.numbered => pos[k] \in DOMAIN t.slots /\ t.slots[pos[k]] = k - 1
       /\ ~wire.numbered /\ k = Len(calls) => 0 \in DOMAIN t.slots /\ t.slots[0] = k - 1

CallsInv ==
  /\ Made(calls) /\ Sequence(blocks) /\ wire.numbered \in BOOLEAN
  /\ Keyed(Shown.slots, calls, FromZero(Len(calls)))
  /\ ~Claude => Keyed(Seen.slots, calls, FromZero(Len(calls)))
  /\ Claude => \E pos : Places(pos) /\ Keyed(Seen.slots, calls, Keys(pos)) /\ Maps(Ahead, pos)

\* How an Anthropic answer ends and what it is billed.
Opening == IF counted = NoFigures THEN counted ELSE [counted EXCEPT !.output = {1}]

EndInv ==
  /\ counted \in Usages
  /\ Claude =>
       /\ Seen.finish = stop /\ Shown.finish = Answer!FinishOf(stop)
       /\ phase \in {"start", "answer"} => stop = {} /\ Ahead.output = NoFigures
       /\ phase = "start" => Ahead.input = NoFigures
       /\ phase \in {"answer", "stopped"} => Ahead.input = Opening
       /\ phase = "stopped" =>
            Ahead.finish /\ Ahead.output = [NoFigures EXCEPT !.output = counted.output]
       /\ phase \in {"start", "answer", "stopped"} => Shown.prompt \cup Shown.completion = {}
       /\ phase = "ending" => Billed(Shown, Answer!Usage(counted))
  /\ phase = "counted" => ~Claude

AnswerInv == phase \notin Ended => HeardInv /\ CallsInv /\ EndInv

Sending == phase \in {"start", "answer", "stopped", "counted"}

LEMMA Advanced ==
  ASSUME IInv, HeardInv, Sending, NEW frame, Send(frame)
  PROVE  /\ Listens(tr) /\ ~tr.done /\ tr = Ahead /\ Shown = Show(tr)
         /\ Reader(Seen) /\ Seen.verdict = "open" /\ Seen' = Read(Seen, frame)
         /\ Ahead' = HandleData(tr, frame) /\ Shown' = Show(HandleData(tr, frame))
         /\ wire' = wire /\ counted' = counted /\ Claude' = Claude
         /\ Claude /\ phase \in {"start", "answer"} => ~tr.finish
<1>1. taken = Len(source) /\ source' = Append(source, frame) /\ UNCHANGED <<wire, counted, taken, tr>>
  BY DEF Send
<1>2. Sequence(source) /\ Len(source) \in Nat
  BY LenProperties DEF IInv, SourceInv, Sequence
<1>3. Len(source') = Len(source) + 1 /\ Last(source') = frame
  BY <1>1, <1>2, OneMoreFrame DEF Last
<1>4. Ahead = tr /\ Shown = Show(tr)
  BY <1>1 DEF Ahead, Shown
<1>5. Ahead' = HandleData(tr, frame)
  <2>1. taken' # Len(source')
    BY <1>1, <1>2, <1>3
  <2> QED BY <1>1, <1>3, <2>1 DEF Ahead
<1>6. Shown' = Show(HandleData(tr, frame))
  BY <1>5 DEF Shown
<1>7. Seen' = Read(Seen, frame)
  BY <1>1, <1>2, OneMoreRead DEF Seen
<1>8. Verdict = "open" /\ Told = "open" /\ phase \notin Ended \cup {"ending"}
  BY DEF Verdict, Told, Sending, Ended
<1>9. Tr(tr) /\ ~tr.done /\ (Claude /\ phase \in {"start", "answer"} => ~tr.finish)
  BY <1>8 DEF IInv, TranslatorInv
<1>10. Listens(tr) /\ Reader(Seen) /\ Seen.verdict = "open"
  BY <1>4, <1>8, <1>9 DEF HeardInv, Listens
<1> QED BY <1>1, <1>4, <1>5, <1>6, <1>7, <1>9, <1>10 DEF Claude

LEMMA PassedOn ==
  ASSUME NEW t, Tr(t), NEW frame, frame.type \in {"torn", "error", "chunk", "usage"}
  PROVE  LET e == HandleData(t, frame)
         IN  Tr(e) /\ Show(e) = Read(Show(t), frame) /\ SameNotes(t, e)
<1>1. HandleData(t, frame) = Enqueue(t, frame)
  BY RelayedAsItIs
<1> QED BY <1>1, EnqueuedShown

-----------------------------------------------------------------------------
\* A step that leaves the calls as they are.
LEMMA CallsKept ==
  ASSUME CallsInv, UNCHANGED <<wire, blocks, calls>>,
         Seen'.slots = Seen.slots, Shown'.slots = Shown.slots,
         Claude => Ahead'.slots = Ahead.slots /\ Ahead'.next = Ahead.next
  PROVE  CallsInv'
<1>1. Claude' = Claude /\ Len(calls') = Len(calls) /\ wire'.numbered = wire.numbered
  BY DEF Claude
<1>2. /\ Made(calls') /\ Sequence(blocks') /\ wire'.numbered \in BOOLEAN
      /\ Keyed(Shown'.slots, calls', FromZero(Len(calls')))
      /\ ~Claude' => Keyed(Seen'.slots, calls', FromZero(Len(calls')))
  BY <1>1 DEF CallsInv
<1>3. ASSUME Claude
      PROVE  \E pos : (Places(pos) /\ Keyed(Seen.slots, calls, Keys(pos)) /\ Maps(Ahead, pos))'
  <2>1. PICK pos : Places(pos) /\ Keyed(Seen.slots, calls, Keys(pos)) /\ Maps(Ahead, pos)
    BY <1>3 DEF CallsInv
  <2>2. Places(pos)'
    BY <2>1 DEF Places
  <2>3. Keys(pos)' = Keys(pos)
    BY DEF Keys
  <2>4. Keyed(Seen'.slots, calls', Keys(pos)')
    BY <2>1, <2>3
  <2>5. Maps(Ahead, pos)'
    BY <1>3, <2>1 DEF Maps
  <2> QED BY <2>2, <2>4, <2>5
<1> QED BY <1>1, <1>2, <1>3 DEF CallsInv

\* A step of the answer that leaves how it ends as it is.
LEMMA EndKept ==
  ASSUME EndInv, phase = "answer", phase' = "answer",
         UNCHANGED <<wire, counted, stop>>,
         Claude => /\ Seen'.finish = Seen.finish /\ Shown'.finish = Shown.finish
                   /\ SameFigures(Shown', Shown) /\ Ahead'.input = Ahead.input
                   /\ Ahead'.output = Ahead.output
  PROVE  EndInv'
<1>1. Claude' = Claude
  BY DEF Claude
<1>2. Opening' = Opening
  BY DEF Opening
<1> QED BY <1>1, <1>2 DEF EndInv, SameFigures

LEMMA HeardMore ==
  ASSUME HeardInv, phase' \notin {"ending", "failing"},
         Reader(Seen'), Seen'.verdict = "open", Reader(Shown'), Shown'.verdict = "open",
         \/ words' = words /\ Seen'.text = Seen.text /\ Shown'.text = Shown.text
         \/ \E piece : /\ words' = Append(words, piece)
                       /\ Seen'.text = Append(Seen.text, piece)
                       /\ Shown'.text = Append(Shown.text, piece)
  PROVE  HeardInv'
<1>1. Verdict' = "open" /\ Told' = "open"
  BY DEF Verdict, Told
<1>2. Sequence(words') /\ Seen'.text = words' /\ Shown'.text = words'
  <2>1. CASE words' = words /\ Seen'.text = Seen.text /\ Shown'.text = Shown.text
    BY <2>1 DEF HeardInv
  <2>2. ASSUME NEW piece, words' = Append(words, piece),
               Seen'.text = Append(Seen.text, piece), Shown'.text = Append(Shown.text, piece)
        PROVE  Sequence(words') /\ Seen'.text = words' /\ Shown'.text = words'
    BY <2>2, OneMoreFrame DEF HeardInv
  <2> QED BY <2>1, <2>2
<1> QED BY <1>1, <1>2 DEF HeardInv

-----------------------------------------------------------------------------
\* The places of the calls when one block more is opened.
LEMMA PlacesText ==
  ASSUME Sequence(calls), Sequence(blocks), NEW pos, Places(pos),
         calls' = calls, blocks' = Append(blocks, "text")
  PROVE  Places(pos)'
<1> DEFINE m == Len(blocks)
           n == Len(calls)
<1>1. /\ m \in Nat /\ Len(blocks') = m + 1 /\ n \in Nat /\ Len(calls') = n
      /\ \A b \in 1..m : blocks'[b] = blocks[b]
      /\ blocks'[m + 1] = "text"
  BY OneMoreFrame DEF Sequence
<1>2. /\ Increasing(pos, n) /\ \A k \in 1..n : pos[k] < m /\ pos[k] \in Nat
      /\ \A b \in 1..m : blocks[b] = "call" <=> \E k \in 1..n : pos[k] = b - 1
  BY DEF Places, Increasing
<1> HIDE DEF m, n
<1>3. \A k \in 1..n : pos[k] < m + 1
  BY <1>1, <1>2
<1>4. ASSUME NEW b \in 1..(m + 1)
      PROVE  blocks'[b] = "call" <=> \E k \in 1..n : pos[k] = b - 1
  <2>1. CASE b \in 1..m
    BY <1>1, <1>2, <2>1
  <2>2. CASE b = m + 1
    BY <1>1, <1>2, <2>2
  <2> QED BY <1>1, <2>1, <2>2
<1> QED BY <1>1, <1>2, <1>3, <1>4 DEF Places

LEMMA IncreasingMore ==
  ASSUME NEW n \in Nat, NEW pos, Increasing(pos, n), NEW index \in Nat,
         \A k \in 1..n : pos[k] < index
  PROVE  LET later == [k \in 1..(n + 1) |-> IF k = n + 1 THEN index ELSE pos[k]]
         IN  /\ Increasing(later, n + 1) /\ later[n + 1] = index
             /\ \A k \in 1..n : later[k] = pos[k] /\ k \in 1..(n + 1)
<1> DEFINE later == [k \in 1..(n + 1) |-> IF k = n + 1 THEN index ELSE pos[k]]
<1>1. /\ later[n + 1] = index /\ \A k \in 1..n : later[k] = pos[k] /\ k \in 1..(n + 1)
  OBVIOUS
<1>2. \A k \in 1..(n + 1) : k \in 1..n \/ k = n + 1
  OBVIOUS
<1>3. \A k \in 1..n : pos[k] \in Nat
  BY DEF Increasing
<1>4. later \in [1..(n + 1) -> Nat]
  <2>1. \A k \in 1..(n + 1) : (IF k = n + 1 THEN index ELSE pos[k]) \in Nat
    BY <1>2, <1>3
  <2> QED BY <2>1
<1> HIDE DEF later
<1>5. ASSUME NEW k \in 1..(n + 1), NEW l \in 1..(n + 1), k < l
      PROVE  later[k] < later[l]
  <2>1. k \in 1..n
    BY <1>5
  <2>2. CASE l \in 1..n
    BY <1>1, <1>5, <2>1, <2>2 DEF Increasing
  <2>3. CASE l = n + 1
    BY <1>1, <2>1, <2>3
  <2> QED BY <1>2, <2>2, <2>3
<1> QED BY <1>1, <1>4, <1>5 DEF Increasing, later

LEMMA PlacesCall ==
  ASSUME Sequence(calls), Sequence(blocks), NEW pos, Places(pos), NEW call,
         calls' = Append(calls, call), blocks' = Append(blocks, "call"),
         NEW later,
         later = [k \in 1..(Len(calls) + 1) |->
                    IF k = Len(calls) + 1 THEN Len(blocks) ELSE pos[k]]
  PROVE  Places(later)'
<1> DEFINE m == Len(blocks)
           n == Len(calls)
<1>1. /\ m \in Nat /\ Len(blocks') = m + 1 /\ n \in Nat /\ Len(calls') = n + 1
      /\ \A b \in 1..m : blocks'[b] = blocks[b]
      /\ blocks'[m + 1] = "call"
  BY OneMoreFrame DEF Sequence
<1>2. /\ Increasing(pos, n) /\ \A k \in 1..n : pos[k] < m /\ pos[k] \in Nat
      /\ \A b \in 1..m : blocks[b] = "call" <=> \E k \in 1..n : pos[k] = b - 1
  BY DEF Places, Increasing
<1>3. later = [k \in 1..(n + 1) |-> IF k = n + 1 THEN m ELSE pos[k]]
  OBVIOUS
<1> HIDE DEF m, n
<1>4. /\ Increasing(later, n + 1) /\ later[n + 1] = m
      /\ \A k \in 1..n : later[k] = pos[k] /\ k \in 1..(n + 1)
  <2>1. n \in Nat /\ m \in Nat /\ Increasing(pos, n) /\ \A k \in 1..n : pos[k] < m
    BY <1>1, <1>2
  <2> DEFINE more == [k \in 1..(n + 1) |-> IF k = n + 1 THEN m ELSE pos[k]]
  <2>2. /\ Increasing(more, n + 1) /\ more[n + 1] = m
        /\ \A k \in 1..n : more[k] = pos[k] /\ k \in 1..(n + 1)
    BY <2>1, IncreasingMore, Zenon
  <2> QED BY <1>3, <2>2
<1>5. \A k \in 1..(n + 1) : k \in 1..n \/ k = n + 1
  BY <1>1
<1>6. \A k \in 1..(n + 1) : later[k] < m + 1
  BY <1>1, <1>2, <1>4, <1>5
<1>7. ASSUME NEW b \in 1..(m + 1)
      PROVE  blocks'[b] = "call" <=> \E k \in 1..(n + 1) : later[k] = b - 1
  <2>1. CASE b \in 1..m
    <3>1. (\E k \in 1..n : pos[k] = b - 1) => \E k \in 1..(n + 1) : later[k] = b - 1
      BY <1>4
    <3>2. ASSUME NEW k \in 1..(n + 1), later[k] = b - 1
          PROVE  \E l \in 1..n : pos[l] = b - 1
      <4>1. k # n + 1
        BY <1>1, <1>4, <2>1, <3>2
      <4> QED BY <1>4, <1>5, <3>2, <4>1
    <3> QED BY <1>1, <1>2, <2>1, <3>1, <3>2
  <2>2. CASE b = m + 1
    <3>1. later[n + 1] = b - 1 /\ n + 1 \in 1..(n + 1)
      BY <1>1, <1>4, <2>2
    <3> QED BY <1>1, <2>2, <3>1
  <2>3. b \in 1..m \/ b = m + 1
    BY <1>1
  <2> QED BY <2>1, <2>2, <2>3
<1> QED BY <1>1, <1>4, <1>6, <1>7 DEF Places

-----------------------------------------------------------------------------
\* What the provider sends keeps both readers level with the answer.
LEMMA Goes ==
  ASSUME IInv, AnswerInv, Sending
  PROVE  /\ HeardInv /\ CallsInv /\ EndInv /\ Verdict = "open"
         /\ Reader(Seen) /\ Seen.verdict = "open" /\ Seen.text = words
         /\ Reader(Shown) /\ Shown.verdict = "open" /\ Shown.text = words
<1>1. phase \notin Ended /\ phase \notin {"ending", "failing"}
  BY DEF Sending, Ended
<1>2. HeardInv /\ CallsInv /\ EndInv
  BY <1>1 DEF AnswerInv
<1>3. Verdict = "open" /\ Told = "open"
  BY <1>1 DEF Verdict, Told
<1> QED BY <1>2, <1>3 DEF HeardInv

LEMMA StartKeeps ==
  ASSUME IInv, AnswerInv, Start
  PROVE  AnswerInv'
<1> DEFINE frame == MessageStart(Opening)
<1>1. /\ phase = "start" /\ phase' = "answer" /\ Send(frame)
      /\ UNCHANGED <<blocks, words, calls, stop>>
  BY Zenon DEF Start, Opening
<1>2. Sending /\ Claude
  BY <1>1 DEF Sending, IInv, SourceInv
<1>3. /\ HeardInv /\ CallsInv /\ EndInv
      /\ Reader(Seen) /\ Seen.verdict = "open"
      /\ Reader(Shown) /\ Shown.verdict = "open"
  BY <1>2, Goes
<1> HIDE DEF frame
<1>4. /\ Listens(tr) /\ tr = Ahead /\ Shown = Show(tr)
      /\ Seen' = Read(Seen, frame)
      /\ Ahead' = HandleData(tr, frame) /\ Shown' = Show(HandleData(tr, frame))
      /\ wire' = wire /\ counted' = counted /\ Claude' = Claude
  BY <1>1, <1>2, <1>3, Advanced
<1>5. /\ Shown' = Shown /\ Ahead'.input = Opening /\ Ahead'.output = Ahead.output
      /\ Ahead'.slots = Ahead.slots /\ Ahead'.next = Ahead.next
  BY <1>4, StartHandled DEF frame
<1>6. /\ Reader(Seen') /\ Seen'.verdict = "open" /\ Seen'.finish = Seen.finish
      /\ Seen'.text = Seen.text /\ Seen'.slots = Seen.slots
  BY <1>3, <1>4, StartRead DEF frame, SameAnswer
<1>7. HeardInv'
  BY <1>1, <1>3, <1>5, <1>6, HeardMore
<1>8. CallsInv'
  BY <1>1, <1>3, <1>4, <1>5, <1>6, CallsKept
<1>9. Opening' = Opening
  BY <1>4 DEF Opening
<1>10. EndInv'
  BY <1>1, <1>2, <1>3, <1>4, <1>5, <1>6, <1>9 DEF EndInv
<1> QED BY <1>7, <1>8, <1>10 DEF AnswerInv

LEMMA OpenTextKeeps ==
  ASSUME IInv, AnswerInv, OpenText
  PROVE  AnswerInv'
<1> DEFINE index == Number(Len(blocks))
           frame == BlockStart(index, "text", {})
<1>1. /\ phase = "answer" /\ phase' = "answer" /\ Claude /\ Send(frame)
      /\ blocks' = Append(blocks, "text")
      /\ UNCHANGED <<words, calls, stop>>
  BY Zenon DEF OpenText
<1> HIDE DEF index
<1>2. Sending
  BY <1>1 DEF Sending
<1>3. /\ HeardInv /\ CallsInv /\ EndInv
      /\ Reader(Seen) /\ Seen.verdict = "open"
      /\ Reader(Shown) /\ Shown.verdict = "open"
  BY <1>2, Goes
<1> HIDE DEF frame
<1>4. /\ tr = Ahead /\ Shown = Show(tr)
      /\ Seen' = Read(Seen, frame)
      /\ Ahead' = HandleData(tr, frame) /\ Shown' = Show(HandleData(tr, frame))
      /\ wire' = wire /\ counted' = counted /\ Claude' = Claude
  BY <1>1, <1>2, <1>3, Advanced
<1>5. Ahead' = Ahead /\ Shown' = Shown
  BY <1>4, TextBlockHandled DEF frame
<1>6. Seen' = Seen
  BY <1>3, <1>4, TextBlockRead DEF frame
<1>7. HeardInv'
  BY <1>1, <1>3, <1>5, <1>6, HeardMore
<1>8. CallsInv'
  <2>1. PICK pos : Places(pos) /\ Keyed(Seen.slots, calls, Keys(pos)) /\ Maps(Ahead, pos)
    BY <1>1, <1>3 DEF CallsInv
  <2>2. Sequence(calls) /\ Sequence(blocks) /\ Sequence(blocks')
    BY <1>1, <1>3, OneMoreFrame DEF CallsInv, Made
  <2>3. Places(pos)'
    BY <1>1, <2>1, <2>2, PlacesText
  <2>4. Keys(pos)' = Keys(pos)
    BY <1>1, <1>4 DEF Keys
  <2>5. Maps(Ahead, pos)'
    BY <1>1, <1>4, <1>5, <2>1 DEF Maps
  <2>6. Keyed(Seen'.slots, calls', Keys(pos)')
    BY <1>1, <1>6, <2>1, <2>4
  <2>7. \E p : (Places(p) /\ Keyed(Seen.slots, calls, Keys(p)) /\ Maps(Ahead, p))'
    BY <2>3, <2>5, <2>6
  <2> QED BY <1>1, <1>3, <1>4, <1>5, <1>6, <2>2, <2>7 DEF CallsInv
<1>9. EndInv'
  BY <1>1, <1>3, <1>4, <1>5, <1>6, EndKept DEF SameFigures
<1> QED BY <1>7, <1>8, <1>9 DEF AnswerInv

LEMMA SpeakKeeps ==
  ASSUME IInv, AnswerInv, Speak
  PROVE  AnswerInv'
<1> DEFINE piece == Pieces
           said == Chunk([NoDelta EXCEPT !.text = <<piece>>], {})
           frame == IF Claude THEN TextDelta(piece) ELSE said
<1>1. /\ phase = "answer" /\ phase' = "answer" /\ Send(frame)
      /\ words' = Append(words, piece)
      /\ UNCHANGED <<blocks, calls, stop>>
  BY Zenon DEF Speak
<1> HIDE DEF piece
<1>2. Sending
  BY <1>1 DEF Sending
<1>3. /\ HeardInv /\ CallsInv /\ EndInv
      /\ Reader(Seen) /\ Seen.verdict = "open"
      /\ Reader(Shown) /\ Shown.verdict = "open"
  BY <1>2, Goes
<1> HIDE DEF frame
<1>4. /\ Listens(tr) /\ tr = Ahead /\ Shown = Show(tr)
      /\ Seen' = Read(Seen, frame)
      /\ Ahead' = HandleData(tr, frame) /\ Shown' = Show(HandleData(tr, frame))
      /\ wire' = wire /\ counted' = counted /\ Claude' = Claude
  BY <1>1, <1>2, <1>3, Advanced
<1>5. /\ Shown' = Read(Shown, said)
      /\ Claude => SameNotes(tr, Ahead')
  <2>1. CASE Claude
    <3>1. frame = TextDelta(piece)
      BY <2>1 DEF frame
    <3> QED BY <1>4, <3>1, TextHandled
  <2>2. CASE ~Claude
    <3>1. frame = said
      BY <2>2 DEF frame
    <3>2. frame.type = "chunk"
      BY <3>1 DEF Chunk
    <3>3. Tr(tr)
      BY <1>4 DEF Listens
    <3>4. Show(HandleData(tr, frame)) = Read(Show(tr), frame)
      BY <3>2, <3>3, PassedOn
    <3> QED BY <1>4, <2>2, <3>1, <3>4
  <2> QED BY <2>1, <2>2
<1>6. /\ Reader(Shown') /\ Shown'.verdict = "open" /\ Shown'.finish = Shown.finish
      /\ SameFigures(Shown', Shown)
      /\ Shown'.text = Append(Shown.text, piece) /\ Shown'.slots = Shown.slots
  BY <1>3, <1>5, TextChunk
<1>7. /\ Reader(Seen') /\ Seen'.verdict = "open" /\ Seen'.finish = Seen.finish
      /\ Seen'.text = Append(Seen.text, piece) /\ Seen'.slots = Seen.slots
  <2>1. CASE Claude
    <3>1. frame = TextDelta(piece)
      BY <2>1 DEF frame
    <3> QED BY <1>3, <1>4, <3>1, TextRead
  <2>2. CASE ~Claude
    <3>1. frame = said
      BY <2>2 DEF frame
    <3> QED BY <1>3, <1>4, <3>1, TextChunk
  <2> QED BY <2>1, <2>2
<1>8. HeardInv'
  BY <1>1, <1>3, <1>6, <1>7, HeardMore
<1>9. Claude => /\ Ahead'.slots = Ahead.slots /\ Ahead'.next = Ahead.next
                /\ Ahead'.input = Ahead.input /\ Ahead'.output = Ahead.output
  BY <1>4, <1>5 DEF SameNotes
<1>10. CallsInv'
  BY <1>1, <1>3, <1>4, <1>6, <1>7, <1>9, CallsKept
<1>11. EndInv'
  BY <1>1, <1>3, <1>4, <1>6, <1>7, <1>9, EndKept
<1> QED BY <1>8, <1>10, <1>11 DEF AnswerInv

-----------------------------------------------------------------------------
\* A chunk that opens a call, opens two, or goes on with one.
CallsChunk(fragments) == Chunk([NoDelta EXCEPT !.calls = fragments], {})

LEMMA ChunkOpens ==
  ASSUME NEW s, Reader(s), s.verdict = "open",
         NEW made, Made(made), Keyed(s.slots, made, FromZero(Len(made))),
         NEW index, NEW id, NEW pieces, Sequence(pieces), id \in {{}, {Len(made) + 1}},
         \/ index = {Len(made)}
         \/ index = {} /\ (id = {} => Len(made) = 0)
  PROVE  LET r    == Read(s, CallsChunk(<<Fragment(index, id, pieces)>>))
             more == Append(made, Call(id, pieces))
         IN  /\ FillsOnly(r, s) /\ SameFigures(r, s)
             /\ Made(more) /\ Keyed(r.slots, more, FromZero(Len(more)))
<1> DEFINE f == Fragment(index, id, pieces)
           r == Read(s, CallsChunk(<<f>>))
           filled == AbsorbFragment(s, f)
           more == Append(made, Call(id, pieces))
<1>1. Made(more) /\ Keyed(filled.slots, more, FromZero(Len(more)))
  BY FragmentOpens DEF Reader
<1> HIDE DEF f, more
<1>2. /\ FillsOnly(r, s) /\ SameFigures(r, s)
      /\ r.slots = AbsorbAll(s, <<f>>).slots
  BY CallChunk DEF CallsChunk
<1>3. r.slots = filled.slots
  BY <1>2, FewFragments
<1> QED BY <1>1, <1>2, <1>3 DEF f, more

LEMMA ChunkOpensTwo ==
  ASSUME NEW s, Reader(s), s.verdict = "open",
         NEW made, Made(made), Keyed(s.slots, made, FromZero(Len(made))),
         NEW first, first \in {{}, {Len(made)}}, NEW then, then \in {{}, {Len(made) + 1}},
         NEW p, NEW q
  PROVE  LET f    == Fragment(first, {Len(made) + 1}, <<p>>)
             g    == Fragment(then, {Len(made) + 2}, <<q>>)
             r    == Read(s, CallsChunk(<<f, g>>))
             more == Append(Append(made, Call({Len(made) + 1}, <<p>>)), Call({Len(made) + 2}, <<q>>))
         IN  /\ FillsOnly(r, s) /\ SameFigures(r, s)
             /\ Made(more) /\ Keyed(r.slots, more, FromZero(Len(more)))
<1> DEFINE n == Len(made)
           f == Fragment(first, {n + 1}, <<p>>)
           g == Fragment(then, {n + 2}, <<q>>)
           r == Read(s, CallsChunk(<<f, g>>))
           once == AbsorbFragment(s, f)
           twice == AbsorbFragment(once, g)
           one == Append(made, Call({n + 1}, <<p>>))
           two == Append(one, Call({n + 2}, <<q>>))
<1>1. n \in Nat /\ Sequence(<<p>>) /\ Sequence(<<q>>)
  <2>1. <<p>> \in Seq({p}) /\ <<q>> \in Seq({q})
    OBVIOUS
  <2> QED BY <2>1, LenProperties DEF Made, Sequence
<1>2. State(once) /\ Made(one) /\ Len(one) = n + 1 /\ Keyed(once.slots, one, FromZero(Len(one)))
  <2>1. State(s) /\ {n + 1} \in {{}, {n + 1}}
    BY DEF Reader
  <2>2. first = {n} \/ (first = {} /\ ({n + 1} = {} => n = 0))
    OBVIOUS
  <2> QED BY <1>1, <2>1, <2>2, FragmentOpens
<1>3. Made(two) /\ Keyed(twice.slots, two, FromZero(Len(two)))
  <2> HIDE DEF once, one
  <2>1. {n + 2} \in {{}, {Len(one) + 1}}
    BY <1>1, <1>2
  <2>2. then = {Len(one)} \/ (then = {} /\ ({n + 2} = {} => Len(one) = 0))
    BY <1>2
  <2> QED BY <1>1, <1>2, <2>1, <2>2, FragmentOpens
<1> HIDE DEF f, g, two, once, one, n
<1>4. /\ FillsOnly(r, s) /\ SameFigures(r, s)
      /\ r.slots = AbsorbAll(s, <<f, g>>).slots
  <2> DEFINE fragments == <<f, g>>
  <2> HIDE DEF fragments
  <2>1. LET u == Read(s, CallsChunk(fragments))
        IN  FillsOnly(u, s) /\ SameFigures(u, s) /\ u.slots = AbsorbAll(s, fragments).slots
    BY CallChunk DEF CallsChunk
  <2> QED BY <2>1 DEF fragments
<1>5. r.slots = twice.slots
  <2> DEFINE both == <<f, g>>
  <2>1. both = <<f, g>>
    OBVIOUS
  <2> HIDE DEF both
  <2>2. AbsorbAll(s, both) = AbsorbFragment(AbsorbFragment(s, f), g)
    BY <2>1, FewFragments
  <2> QED BY <1>4, <2>2 DEF once, both
<1> QED BY <1>3, <1>4, <1>5 DEF f, g, two, one, n

\* Goes on with call k: at its index, or after the latest.
GoesOn(made, k, index, id) ==
  /\ k \in 1..Len(made) /\ id \in {{}, made[k].id}
  /\ index = {k - 1} \/ (index = {} /\ k = Len(made))

LEMMA WentOn ==
  ASSUME NEW s, State(s), NEW made, Made(made), Keyed(s.slots, made, FromZero(Len(made))),
         NEW k, NEW index, NEW id, NEW piece, GoesOn(made, k, index, id)
  PROVE  LET r    == AbsorbFragment(s, Fragment(index, id, <<piece>>))
             more == Further(made, k, piece)
         IN  State(r) /\ Made(more) /\ Len(more) = Len(made)
             /\ Keyed(r.slots, more, FromZero(Len(more)))
BY FragmentGoesOn DEF GoesOn

LEMMA ChunkGoesOn ==
  ASSUME NEW s, Reader(s), s.verdict = "open",
         NEW made, Made(made), Keyed(s.slots, made, FromZero(Len(made))),
         NEW k \in 1..Len(made), NEW index, NEW id, id \in {{}, made[k].id}, NEW piece,
         index = {k - 1} \/ (index = {} /\ k = Len(made))
  PROVE  LET r    == Read(s, CallsChunk(<<Fragment(index, id, <<piece>>)>>))
             more == Further(made, k, piece)
         IN  /\ FillsOnly(r, s) /\ SameFigures(r, s)
             /\ Made(more) /\ Len(more) = Len(made) /\ Keyed(r.slots, more, FromZero(Len(more)))
<1> DEFINE f == Fragment(index, id, <<piece>>)
           r == Read(s, CallsChunk(<<f>>))
           filled == AbsorbFragment(s, f)
           more == Further(made, k, piece)
<1>1. Made(more) /\ Len(more) = Len(made) /\ Keyed(filled.slots, more, FromZero(Len(more)))
  <2>1. State(s) /\ GoesOn(made, k, index, id)
    BY DEF Reader, GoesOn
  <2> HIDE DEF f
  <2>2. f = Fragment(index, id, <<piece>>)
    BY DEF f
  <2>3. LET x == AbsorbFragment(s, Fragment(index, id, <<piece>>))
        IN  Made(more) /\ Len(more) = Len(made) /\ Keyed(x.slots, more, FromZero(Len(more)))
    BY <2>1, WentOn
  <2> QED BY <2>2, <2>3
<1> HIDE DEF f, more
<1>2. /\ FillsOnly(r, s) /\ SameFigures(r, s)
      /\ r.slots = AbsorbAll(s, <<f>>).slots
  BY CallChunk DEF CallsChunk
<1>3. r.slots = filled.slots
  BY <1>2, FewFragments
<1> QED BY <1>1, <1>2, <1>3 DEF f, more

\* A step that only fills slots.
LEMMA CallsHeard ==
  ASSUME HeardInv, EndInv, phase = "answer", phase' = "answer",
         UNCHANGED <<wire, counted, words, stop>>,
         FillsOnly(Seen', Seen), FillsOnly(Shown', Shown), SameFigures(Shown', Shown),
         Claude => Ahead'.input = Ahead.input /\ Ahead'.output = Ahead.output
  PROVE  HeardInv' /\ EndInv'
<1>1. /\ Reader(Seen') /\ Seen'.verdict = "open" /\ Seen'.finish = Seen.finish
      /\ Seen'.text = Seen.text
      /\ Reader(Shown') /\ Shown'.verdict = "open" /\ Shown'.finish = Shown.finish
      /\ Shown'.text = Shown.text
  BY DEF FillsOnly
<1>2. HeardInv'
  BY <1>1, HeardMore
<1>3. EndInv'
  BY <1>1, EndKept
<1> QED BY <1>2, <1>3

\* A chunk of the other wire, for both readers.
LEMMA ChunkPassed ==
  ASSUME IInv, AnswerInv, phase = "answer", NEW frame, frame.type = "chunk", Send(frame)
  PROVE  Seen' = Read(Seen, frame) /\ Shown' = Read(Shown, frame)
<1>1. Sending
  BY DEF Sending
<1>2. HeardInv
  BY <1>1, Goes
<1>3. /\ Listens(tr) /\ Shown = Show(tr)
      /\ Seen' = Read(Seen, frame) /\ Shown' = Show(HandleData(tr, frame))
  BY <1>1, <1>2, Advanced
<1>4. Show(HandleData(tr, frame)) = Read(Show(tr), frame)
  BY <1>3, PassedOn DEF Listens
<1> QED BY <1>3, <1>4

-----------------------------------------------------------------------------
\* Opening a call.
LEMMA OpenCallOther ==
  ASSUME IInv, AnswerInv, ~Claude, NEW id \in Ids, OpenCall(id)
  PROVE  AnswerInv'
<1> DEFINE n == Len(calls)
           index == Number(n)
           frame == CallsChunk(<<Fragment(index, id, <<>>)>>)
           more == Append(calls, Call(id, <<>>))
<1>1. /\ phase = "answer" /\ phase' = "answer" /\ Send(frame)
      /\ blocks' = Append(blocks, "call") /\ calls' = more
      /\ UNCHANGED <<words, stop>>
  BY Zenon DEF OpenCall, CallsChunk, Call
<1>2. Sending
  BY <1>1 DEF Sending
<1>3. /\ HeardInv /\ CallsInv /\ EndInv
      /\ Reader(Seen) /\ Seen.verdict = "open"
      /\ Reader(Shown) /\ Shown.verdict = "open"
  BY <1>2, Goes
<1>4. n \in Nat /\ Made(calls) /\ (calls = <<>> => n = 0) /\ Sequence(<<>>)
  <2>1. Made(calls) /\ Sequence(calls) /\ Sequence(<<>>)
    <3>1. <<>> \in Seq({})
      OBVIOUS
    <3> QED BY <1>3, <3>1 DEF CallsInv, Made, Sequence
  <2>2. calls = <<>> => n = 0
    OBVIOUS
  <2> QED BY <2>1, <2>2, LenProperties DEF Sequence
<1> HIDE DEF frame, more
<1>5. id \in {{}, {n + 1}} /\ (id = {} => n = 0)
  <2>1. id = {n + 1} \/ (calls = <<>> /\ id = {})
    BY Zenon DEF Ids
  <2>2. {n + 1} # {}
    OBVIOUS
  <2> QED BY <1>4, <2>1, <2>2
<1>6. index = {n} \/ index = {}
  BY DEF Number
<1> HIDE DEF index, n
<1>7. /\ Seen' = Read(Seen, frame) /\ Shown' = Read(Shown, frame)
      /\ wire' = wire /\ counted' = counted /\ Claude' = Claude
  <2>1. frame.type = "chunk"
    BY DEF frame, CallsChunk, Chunk
  <2>2. Seen' = Read(Seen, frame) /\ Shown' = Read(Shown, frame)
    BY <1>1, <2>1, ChunkPassed
  <2>3. wire' = wire /\ counted' = counted
    BY <1>1 DEF Send
  <2> QED BY <2>2, <2>3 DEF Claude
<1>8. \A s : Reader(s) /\ s.verdict = "open" /\ Keyed(s.slots, calls, FromZero(Len(calls)))
             => /\ FillsOnly(Read(s, frame), s) /\ SameFigures(Read(s, frame), s)
                /\ Made(more) /\ Keyed(Read(s, frame).slots, more, FromZero(Len(more)))
  BY <1>4, <1>5, <1>6, ChunkOpens DEF frame, more, n
<1>9. /\ FillsOnly(Seen', Seen) /\ FillsOnly(Shown', Shown) /\ SameFigures(Shown', Shown)
      /\ Made(calls') /\ Keyed(Seen'.slots, calls', FromZero(Len(calls')))
      /\ Keyed(Shown'.slots, calls', FromZero(Len(calls')))
  <2>1. /\ Keyed(Shown.slots, calls, FromZero(Len(calls)))
        /\ Keyed(Seen.slots, calls, FromZero(Len(calls)))
    BY <1>3 DEF CallsInv
  <2> QED BY <1>1, <1>3, <1>7, <1>8, <2>1
<1>10. HeardInv' /\ EndInv'
  BY <1>1, <1>3, <1>7, <1>9, CallsHeard
<1>11. CallsInv'
  <2>1. Sequence(blocks') /\ wire'.numbered \in BOOLEAN
    BY <1>1, <1>3, <1>7, OneMoreFrame DEF CallsInv
  <2> QED BY <1>7, <1>9, <2>1 DEF CallsInv
<1> QED BY <1>10, <1>11 DEF AnswerInv

LEMMA OpenCallClaude ==
  ASSUME IInv, AnswerInv, Claude, NEW id \in Ids, OpenCall(id)
  PROVE  AnswerInv'
<1> DEFINE n == Len(calls)
           m == Len(blocks)
           given == Number(m)
           block == IF wire.numbered THEN m ELSE 0
           slot == IF wire.numbered THEN m ELSE n
           frame == BlockStart(given, "tool_use", id)
           chunk == CallsChunk(<<Fragment({n}, id, <<>>)>>)
           more == Append(calls, Call(id, <<>>))
<1>1. /\ phase = "answer" /\ phase' = "answer" /\ Send(frame)
      /\ blocks' = Append(blocks, "call") /\ calls' = more
      /\ UNCHANGED <<words, stop>>
  BY Zenon DEF OpenCall, Call
<1>2. Sending
  BY <1>1 DEF Sending
<1>3. /\ HeardInv /\ CallsInv /\ EndInv
      /\ Reader(Seen) /\ Seen.verdict = "open"
      /\ Reader(Shown) /\ Shown.verdict = "open"
  BY <1>2, Goes
<1>4. n \in Nat /\ m \in Nat /\ Made(calls) /\ Sequence(calls) /\ Sequence(blocks) /\ Sequence(<<>>)
      /\ Len(calls') = n + 1
  <2>1. Made(calls) /\ Sequence(calls) /\ Sequence(blocks) /\ Sequence(<<>>)
    <3>1. <<>> \in Seq({})
      OBVIOUS
    <3> QED BY <1>3, <3>1 DEF CallsInv, Made, Sequence
  <2> QED BY <1>1, <2>1, OneMoreFrame
<1> HIDE DEF frame, more, chunk
<1>5. id = {n + 1}
  BY Zenon DEF Ids
<1>6. /\ given = {block} \/ (given = {} /\ block = 0)
      /\ wire.numbered => given = {m}
      /\ ~wire.numbered => given = {}
      /\ block \in Nat /\ slot \in Nat
      /\ wire.numbered => block = m /\ slot = m
      /\ ~wire.numbered => block = 0 /\ slot = n
  BY <1>4 DEF Number
<1> HIDE DEF n, m, given, block, slot
<1>7. /\ Listens(tr) /\ tr = Ahead /\ Shown = Show(tr)
      /\ Seen' = Read(Seen, frame)
      /\ Ahead' = HandleData(tr, frame) /\ Shown' = Show(HandleData(tr, frame))
      /\ wire' = wire /\ counted' = counted /\ Claude' = Claude
  BY <1>1, <1>2, <1>3, Advanced
<1>8. PICK pos : Places(pos) /\ Keyed(Seen.slots, calls, Keys(pos)) /\ Maps(Ahead, pos)
  BY <1>3 DEF CallsInv
<1>9. tr.next = n
  BY <1>7, <1>8 DEF Maps, n
\* The translator, whose chunk opens the next slot.
<1>10. /\ Shown' = Read(Shown, chunk)
       /\ Ahead'.slots = Put(tr.slots, block, n) /\ Ahead'.next = n + 1
       /\ Ahead'.input = Ahead.input /\ Ahead'.output = Ahead.output
  <2> DEFINE e == HandleData(tr, BlockStart(given, "tool_use", id))
             told == Opened(tr.next, id)
  <2>1. /\ Show(e) = Read(Show(tr), told)
        /\ e.slots = Put(tr.slots, block, tr.next) /\ e.next = tr.next + 1
        /\ e.input = tr.input /\ e.output = tr.output
    BY <1>6, <1>7, CallBlockHandled
  <2>2. told = chunk
    BY <1>9 DEF chunk, CallsChunk, Opened
  <2>3. HandleData(tr, frame) = e
    BY DEF frame
  <2> HIDE DEF e, told
  <2> QED BY <1>7, <1>9, <2>1, <2>2, <2>3
<1>11. /\ FillsOnly(Shown', Shown) /\ SameFigures(Shown', Shown)
       /\ Made(calls') /\ Keyed(Shown'.slots, calls', FromZero(Len(calls')))
  <2>1. Keyed(Shown.slots, calls, FromZero(Len(calls)))
    BY <1>3 DEF CallsInv
  <2>2. /\ FillsOnly(Read(Shown, chunk), Shown) /\ SameFigures(Read(Shown, chunk), Shown)
        /\ Made(more) /\ Keyed(Read(Shown, chunk).slots, more, FromZero(Len(more)))
    BY <1>3, <1>4, <1>5, <2>1, ChunkOpens DEF chunk, more, n
  <2> QED BY <1>1, <1>10, <2>2
\* The reader of the wire as it comes.
<1>0. PICK later : later = [k \in 1..(n + 1) |-> IF k = n + 1 THEN m ELSE pos[k]]
  OBVIOUS
<1> DEFINE keys == [k \in 1..(n + 1) |-> IF k = n + 1 THEN slot ELSE Keys(pos)[k]]
<1>12. /\ \A k \in 1..n : Keys(pos)[k] < slot
       /\ \A k \in 1..n : pos[k] < m /\ pos[k] \in Nat
  <2>1. \A k \in 1..n : pos[k] < m /\ pos[k] \in Nat
    BY <1>8 DEF Places, Increasing, n, m
  <2>2. \A k \in 1..n : FromZero(n)[k] < n
    BY <1>4, ZeroKeys
  <2> QED BY <1>6, <2>1, <2>2 DEF Keys, n
<1>13. FillsOnly(Seen', Seen) /\ Seen' = Fill(Seen, slot, id, <<>>)
  <2>1. Cardinality(DOMAIN Seen.slots) = n
    BY <1>4, <1>8, KeysCounted DEF n
  <2>2. given = {slot} \/ (given = {} /\ slot = Cardinality(DOMAIN Seen.slots))
    BY <1>6, <2>1
  <2> QED BY <1>3, <1>6, <1>7, <2>2, CallBlockRead DEF frame
<1>14. Keyed(Seen'.slots, calls', keys)
  <2>1. State(Seen) /\ id \in {{}, {Len(calls) + 1}} /\ \A k \in 1..Len(calls) : Keys(pos)[k] < slot
    BY <1>3, <1>5, <1>12 DEF Reader, n
  <2> DEFINE before == Keys(pos)
             after == [k \in 1..(Len(calls) + 1) |->
                         IF k = Len(calls) + 1 THEN slot ELSE before[k]]
             none == <<>>
  <2>2. keys = after
    BY DEF n
  <2>3. Sequence(none) /\ Keyed(Seen.slots, calls, before) /\ \A k \in 1..Len(calls) : before[k] < slot
    BY <1>4, <1>8, <2>1
  <2> HIDE DEF before, none
  <2>4. Keyed(Fill(Seen, slot, id, none).slots, Append(calls, Call(id, none)), after)
    BY <1>4, <1>6, <2>1, <2>3, CallOpened
  <2> HIDE DEF after
  <2> QED BY <1>1, <1>13, <2>2, <2>4 DEF more, none
<1>15. later[n + 1] = m /\ \A k \in 1..n : later[k] = pos[k]
  BY <1>0, <1>4
<1>16. later = [k \in 1..(Len(calls) + 1) |->
                  IF k = Len(calls) + 1 THEN Len(blocks) ELSE pos[k]]
  BY <1>0 DEF n, m
<1>17. keys = IF wire.numbered THEN later ELSE FromZero(n + 1)
  <2>1. CASE wire.numbered
    BY <1>0, <1>6, <2>1 DEF Keys
  <2>2. CASE ~wire.numbered
    <3>1. FromZero(n + 1) = [k \in 1..(n + 1) |-> IF k = n + 1 THEN n ELSE FromZero(n)[k]]
      BY <1>4, ZeroKeys
    <3> QED BY <1>6, <2>2, <3>1 DEF Keys, n
  <2> QED BY <2>1, <2>2
<1> HIDE DEF keys
<1>18. Places(later)'
  BY <1>1, <1>4, <1>8, <1>16, PlacesCall DEF more
<1>19. Keyed(Seen'.slots, calls', Keys(later)')
  BY <1>4, <1>7, <1>14, <1>17 DEF Keys
<1>20. Maps(Ahead, later)'
  <2>1. ASSUME NEW k \in 1..(n + 1)
        PROVE  /\ wire.numbered =>
                    later[k] \in DOMAIN Ahead'.slots /\ Ahead'.slots[later[k]] = k - 1
               /\ ~wire.numbered /\ k = n + 1 =>
                    0 \in DOMAIN Ahead'.slots /\ Ahead'.slots[0] = k - 1
    <3>1. /\ DOMAIN Ahead'.slots = DOMAIN tr.slots \cup {block} /\ Ahead'.slots[block] = n
          /\ \A i \in DOMAIN tr.slots : i # block => Ahead'.slots[i] = tr.slots[i]
      BY <1>10 DEF Put
    <3>2. CASE k = n + 1
      BY <1>4, <1>6, <1>15, <3>1, <3>2
    <3>3. CASE k \in 1..n
      <4>1. k # n + 1
        BY <1>4, <3>3
      <4>2. wire.numbered => pos[k] \in DOMAIN tr.slots /\ tr.slots[pos[k]] = k - 1
        BY <1>7, <1>8, <3>3 DEF Maps, n
      <4>3. later[k] = pos[k] /\ pos[k] # m
        BY <1>4, <1>12, <1>15, <3>3
      <4> QED BY <1>6, <3>1, <4>1, <4>2, <4>3
    <3> QED BY <1>4, <3>2, <3>3
  <2> QED BY <1>4, <1>7, <1>10, <2>1 DEF Maps
<1>21. HeardInv' /\ EndInv'
  BY <1>1, <1>3, <1>7, <1>10, <1>11, <1>13, CallsHeard
<1>22. CallsInv'
  <2>1. Sequence(blocks') /\ wire'.numbered \in BOOLEAN
    BY <1>1, <1>3, <1>7, OneMoreFrame DEF CallsInv
  <2>2. \E p : (Places(p) /\ Keyed(Seen.slots, calls, Keys(p)) /\ Maps(Ahead, p))'
    BY <1>18, <1>19, <1>20
  <2> QED BY <1>7, <1>11, <2>1, <2>2 DEF CallsInv
<1> QED BY <1>21, <1>22 DEF AnswerInv

-----------------------------------------------------------------------------
\* Two at once.
LEMMA TwoAppended ==
  ASSUME NEW s, Sequence(s), NEW a, NEW b
  PROVE  \A both : both = <<a, b>> => s \o both = Append(Append(s, a), b)
<1>1. PICK S : s \in Seq(S)
  BY DEF Sequence
<1> DEFINE All == S \cup {a, b}
<1>2. s \in Seq(All) /\ <<a>> \in Seq(All) /\ <<b>> \in Seq(All)
  <2>1. \A i \in 1..Len(s) : s[i] \in All
    BY <1>1, ElementOfSeq
  <2>2. s = [i \in 1..Len(s) |-> s[i]] /\ Len(s) \in Nat
    BY <1>1, LenProperties
  <2>3. s \in Seq(All)
    BY <1>1, <2>1, <2>2
  <2> QED BY <2>3
<1> HIDE DEF All
<1>3. Sequence(Append(s, a)) /\ Append(s, a) = s \o <<a>>
  BY OneMoreFrame, AsIfAppended
<1>4. Append(Append(s, a), b) = (s \o <<a>>) \o <<b>>
  BY <1>3, AsIfAppended
<1>5. (s \o <<a>>) \o <<b>> = s \o (<<a>> \o <<b>>)
  BY <1>2, ConcatAssociative
<1>6. <<a>> \o <<b>> = <<a, b>>
  <2> DEFINE one == <<a>>
             two == Append(one, b)
  <2>1. Sequence(one) /\ Len(one) = 1 /\ one[1] = a
    BY <1>2 DEF Sequence
  <2> HIDE DEF one
  <2>2. Sequence(two) /\ Len(two) = 2 /\ two[1] = a /\ two[2] = b
    BY <2>1, OneMoreFrame
  <2>3. one \o <<b>> = two
    BY <2>1, AsIfAppended
  <2> HIDE DEF two
  <2>4. two = <<a, b>>
    <3>1. PICK T : two \in Seq(T)
      BY <2>2 DEF Sequence
    <3> QED BY <2>2, <3>1
  <2> QED BY <2>3, <2>4 DEF one
<1> QED BY <1>4, <1>5, <1>6

LEMMA OpenTwoCallsKeeps ==
  ASSUME IInv, AnswerInv, OpenTwoCalls
  PROVE  AnswerInv'
<1> DEFINE n == Len(calls)
           p == Pieces
           f == Fragment(Number(n), {n + 1}, <<p>>)
           g == Fragment(Number(n + 1), {n + 2}, <<p + 1>>)
           frame == CallsChunk(<<f, g>>)
           first == Call({n + 1}, <<p>>)
           second == Call({n + 2}, <<p + 1>>)
           more == Append(Append(calls, first), second)
           made == <<f, g>>
           opened == [k \in 1..2 |-> [id |-> made[k].id, args |-> made[k].pieces]]
<1>1. /\ phase = "answer" /\ phase' = "answer" /\ ~Claude /\ Send(frame)
      /\ blocks' = blocks \o <<"call", "call">> /\ calls' = calls \o opened
      /\ UNCHANGED <<words, stop>>
  BY Zenon DEF OpenTwoCalls, CallsChunk
<1>2. Sending
  BY <1>1 DEF Sending
<1>3. /\ HeardInv /\ CallsInv /\ EndInv
      /\ Reader(Seen) /\ Seen.verdict = "open"
      /\ Reader(Shown) /\ Shown.verdict = "open"
  BY <1>2, Goes
<1>4. Made(calls) /\ Sequence(calls) /\ Sequence(blocks)
  BY <1>3 DEF CallsInv, Made
<1> HIDE DEF n, p
<1>5. opened = <<first, second>>
  BY DEF Fragment, Call
<1> HIDE DEF made, opened, first, second, frame
<1>6. calls' = more /\ Sequence(blocks')
  <2>1. calls \o opened = more
    BY <1>4, <1>5, TwoAppended
  <2> DEFINE both == <<"call", "call">>
  <2>2. \A s : s = both => blocks \o s = Append(Append(blocks, "call"), "call")
    BY <1>4, TwoAppended
  <2>3. Sequence(Append(Append(blocks, "call"), "call"))
    BY <1>4, OneMoreFrame
  <2> QED BY <1>1, <2>1, <2>2, <2>3
<1>7. Number(n) \in {{}, {n}} /\ Number(n + 1) \in {{}, {n + 1}}
  BY DEF Number
<1>8. /\ Seen' = Read(Seen, frame) /\ Shown' = Read(Shown, frame)
      /\ wire' = wire /\ counted' = counted /\ Claude' = Claude
  <2>1. frame.type = "chunk"
    BY DEF frame, CallsChunk, Chunk
  <2>2. Seen' = Read(Seen, frame) /\ Shown' = Read(Shown, frame)
    BY <1>1, <2>1, ChunkPassed
  <2>3. wire' = wire /\ counted' = counted
    BY <1>1 DEF Send
  <2> QED BY <2>2, <2>3 DEF Claude
<1>9. \A s : Reader(s) /\ s.verdict = "open" /\ Keyed(s.slots, calls, FromZero(Len(calls)))
             => /\ FillsOnly(Read(s, frame), s) /\ SameFigures(Read(s, frame), s)
                /\ Made(more) /\ Keyed(Read(s, frame).slots, more, FromZero(Len(more)))
  BY <1>4, <1>7, ChunkOpensTwo DEF frame, n, first, second
<1>10. /\ FillsOnly(Seen', Seen) /\ FillsOnly(Shown', Shown) /\ SameFigures(Shown', Shown)
       /\ Made(calls') /\ Keyed(Seen'.slots, calls', FromZero(Len(calls')))
       /\ Keyed(Shown'.slots, calls', FromZero(Len(calls')))
  <2>1. /\ Keyed(Shown.slots, calls, FromZero(Len(calls)))
        /\ Keyed(Seen.slots, calls, FromZero(Len(calls)))
    BY <1>1, <1>3 DEF CallsInv
  <2> HIDE DEF more
  <2> QED BY <1>3, <1>6, <1>8, <1>9, <2>1
<1>11. HeardInv' /\ EndInv'
  BY <1>1, <1>3, <1>8, <1>10, CallsHeard
<1>12. CallsInv'
  <2>1. wire'.numbered \in BOOLEAN
    BY <1>3, <1>8 DEF CallsInv
  <2> QED BY <1>1, <1>6, <1>8, <1>10, <2>1 DEF CallsInv
<1> QED BY <1>1, <1>11, <1>12 DEF AnswerInv

-----------------------------------------------------------------------------
\* A piece of the arguments of a call.
LEMMA ArgueOther ==
  ASSUME IInv, AnswerInv, ~Claude, NEW k \in 1..Len(calls), NEW again \in BOOLEAN, Argue(k, again)
  PROVE  AnswerInv'
<1> DEFINE piece == Pieces
           index == Number(k - 1)
           id == IF again THEN calls[k].id ELSE {}
           frame == CallsChunk(<<Fragment(index, id, <<piece>>)>>)
           more == Further(calls, k, piece)
<1>1. /\ phase = "answer" /\ phase' = "answer" /\ Send(frame)
      /\ wire.numbered \/ k = Len(calls)
      /\ calls' = more /\ UNCHANGED <<blocks, words, stop>>
  BY Zenon DEF Argue, CallsChunk, Further
<1>2. Sending
  BY <1>1 DEF Sending
<1>3. /\ HeardInv /\ CallsInv /\ EndInv
      /\ Reader(Seen) /\ Seen.verdict = "open"
      /\ Reader(Shown) /\ Shown.verdict = "open"
  BY <1>2, Goes
<1>4. Made(calls)
  BY <1>3 DEF CallsInv
<1> HIDE DEF piece
<1>5. (index = {k - 1} \/ (index = {} /\ k = Len(calls))) /\ id \in {{}, calls[k].id}
  BY <1>1 DEF Number
<1> HIDE DEF frame, more, index, id
<1>6. /\ Seen' = Read(Seen, frame) /\ Shown' = Read(Shown, frame)
      /\ wire' = wire /\ counted' = counted /\ Claude' = Claude
  <2>1. frame.type = "chunk"
    BY DEF frame, CallsChunk, Chunk
  <2>2. Seen' = Read(Seen, frame) /\ Shown' = Read(Shown, frame)
    BY <1>1, <2>1, ChunkPassed
  <2>3. wire' = wire /\ counted' = counted
    BY <1>1 DEF Send
  <2> QED BY <2>2, <2>3 DEF Claude
<1>7. \A s : Reader(s) /\ s.verdict = "open" /\ Keyed(s.slots, calls, FromZero(Len(calls)))
             => /\ FillsOnly(Read(s, frame), s) /\ SameFigures(Read(s, frame), s)
                /\ Made(more) /\ Keyed(Read(s, frame).slots, more, FromZero(Len(more)))
  BY <1>4, <1>5, ChunkGoesOn DEF frame, more
<1>8. /\ FillsOnly(Seen', Seen) /\ FillsOnly(Shown', Shown) /\ SameFigures(Shown', Shown)
      /\ Made(calls') /\ Keyed(Seen'.slots, calls', FromZero(Len(calls')))
      /\ Keyed(Shown'.slots, calls', FromZero(Len(calls')))
  <2>1. /\ Keyed(Shown.slots, calls, FromZero(Len(calls)))
        /\ Keyed(Seen.slots, calls, FromZero(Len(calls)))
    BY <1>3 DEF CallsInv
  <2> QED BY <1>1, <1>3, <1>6, <1>7, <2>1
<1>9. HeardInv' /\ EndInv'
  BY <1>1, <1>3, <1>6, <1>8, CallsHeard
<1>10. CallsInv'
  <2>1. Sequence(blocks') /\ wire'.numbered \in BOOLEAN
    BY <1>1, <1>3, <1>6 DEF CallsInv
  <2> QED BY <1>6, <1>8, <2>1 DEF CallsInv
<1> QED BY <1>9, <1>10 DEF AnswerInv

LEMMA ArgueClaude ==
  ASSUME IInv, AnswerInv, Claude, NEW k \in 1..Len(calls), NEW again \in BOOLEAN, Argue(k, again)
  PROVE  AnswerInv'
<1> DEFINE n == Len(calls)
           piece == Pieces
           given == Number(BlockOf(k))
           frame == JsonDelta(given, piece)
           chunk == Argued(k - 1, piece)
           more == Further(calls, k, piece)
<1>1. /\ phase = "answer" /\ phase' = "answer" /\ Send(frame)
      /\ wire.numbered \/ k = n
      /\ calls' = more /\ UNCHANGED <<blocks, words, stop>>
  BY Zenon DEF Argue, Further
<1>2. Sending
  BY <1>1 DEF Sending
<1>3. /\ HeardInv /\ CallsInv /\ EndInv
      /\ Reader(Seen) /\ Seen.verdict = "open"
      /\ Reader(Shown) /\ Shown.verdict = "open"
  BY <1>2, Goes
<1>4. Made(calls) /\ Sequence(calls) /\ Sequence(blocks) /\ n \in Nat
  BY <1>3, LenProperties DEF CallsInv, Made, Sequence
<1>5. PICK pos : Places(pos) /\ Keyed(Seen.slots, calls, Keys(pos)) /\ Maps(Ahead, pos)
  BY <1>3 DEF CallsInv
<1>6. given = Number(pos[k]) /\ pos[k] \in Nat
  <2>1. BlockOf(k) = pos[k]
    BY <1>4, <1>5, BlockOfCall
  <2> QED BY <1>5, <2>1 DEF Places, Increasing
<1> HIDE DEF frame, more, chunk, given, piece, n
<1>7. /\ Listens(tr) /\ tr = Ahead /\ Shown = Show(tr)
      /\ Seen' = Read(Seen, frame)
      /\ Ahead' = HandleData(tr, frame) /\ Shown' = Show(HandleData(tr, frame))
      /\ wire' = wire /\ counted' = counted /\ Claude' = Claude
  BY <1>1, <1>2, <1>3, Advanced
\* The translator, which knows the slot of the block.
<1>8. Shown' = Read(Shown, chunk) /\ SameNotes(Ahead, Ahead')
  <2> DEFINE block == IF wire.numbered THEN pos[k] ELSE 0
  <2>1. given = {block} \/ (given = {} /\ block = 0)
    BY <1>6 DEF Number
  <2>2. block \in DOMAIN tr.slots /\ tr.slots[block] = k - 1 /\ block \in Nat
    BY <1>1, <1>5, <1>6, <1>7 DEF Maps, n
  <2> HIDE DEF block
  <2>3. LET e == HandleData(tr, JsonDelta(given, piece))
        IN  Show(e) = Read(Show(tr), Argued(tr.slots[block], piece)) /\ SameNotes(tr, e)
    BY <1>7, <2>1, <2>2, JsonHandled
  <2> QED BY <1>7, <2>2, <2>3 DEF frame, chunk
<1>9. /\ FillsOnly(Shown', Shown) /\ SameFigures(Shown', Shown)
      /\ Made(calls') /\ Len(calls') = n /\ Keyed(Shown'.slots, calls', FromZero(Len(calls')))
  <2> DEFINE index == {k - 1}
             id == {}
             said == CallsChunk(<<Fragment(index, id, <<piece>>)>>)
  <2>1. Keyed(Shown.slots, calls, FromZero(Len(calls))) /\ index = {k - 1} /\ id \in {{}, calls[k].id}
    BY <1>3 DEF CallsInv
  <2>2. said = chunk
    BY DEF chunk, Argued, CallsChunk
  <2> HIDE DEF index, id
  <2>3. /\ FillsOnly(Read(Shown, said), Shown) /\ SameFigures(Read(Shown, said), Shown)
        /\ Made(more) /\ Len(more) = n /\ Keyed(Read(Shown, said).slots, more, FromZero(Len(more)))
    BY <1>3, <1>4, <2>1, ChunkGoesOn DEF more, n
  <2> HIDE DEF said
  <2> QED BY <1>1, <1>8, <2>2, <2>3
\* The reader of the wire as it comes.
<1>10. /\ FillsOnly(Seen', Seen) /\ Keyed(Seen'.slots, calls', Keys(pos))
  <2> DEFINE keys == Keys(pos)
             slot == keys[k]
  <2>1. slot \in DOMAIN Seen.slots /\ slot \in Nat
    BY <1>5 DEF Keyed, Increasing
  <2>2. given = {slot} \/ (given = {} /\ Seen.slots # <<>> /\ slot = LastOpened(Seen))
    <3>1. CASE wire.numbered
      BY <1>6, <3>1 DEF Number, Keys
    <3>2. CASE ~wire.numbered
      <4>1. k = n /\ n # 0 /\ Keyed(Seen.slots, calls, FromZero(n)) /\ slot = FromZero(n)[k]
        BY <1>1, <1>4, <1>5, <3>2 DEF Keys, n
      <4>2. Seen.slots # <<>> /\ LastOpened(Seen) = n - 1
        BY <1>4, <4>1, LastSlot DEF n
      <4>3. FromZero(n)[k] = n - 1
        BY <1>4, <4>1, ZeroKeys DEF n
      <4> QED BY <3>2, <4>1, <4>2, <4>3 DEF Number, given
    <3> QED BY <3>1, <3>2
  <2> HIDE DEF keys
  <2>3. FillsOnly(Seen', Seen) /\ Seen' = Fill(Seen, slot, {}, <<piece>>)
    BY <1>3, <1>7, <2>1, <2>2, JsonRead DEF frame
  <2>4. Keyed(Fill(Seen, slot, {}, <<piece>>).slots, more, keys)
    <3> DEFINE id == {}
    <3>1. State(Seen) /\ id \in {{}, calls[k].id} /\ Keyed(Seen.slots, calls, keys)
      BY <1>3, <1>5 DEF Reader, keys
    <3> HIDE DEF id
    <3>2. Keyed(Fill(Seen, keys[k], id, <<piece>>).slots, Further(calls, k, piece), keys)
      BY <1>4, <3>1, CallGoesOn
    <3> QED BY <3>2 DEF more, id
  <2> QED BY <1>1, <2>3, <2>4 DEF keys
<1>11. HeardInv' /\ EndInv'
  BY <1>1, <1>3, <1>7, <1>8, <1>9, <1>10, CallsHeard DEF SameNotes
<1>12. CallsInv'
  <2>1. Places(pos)'
    BY <1>1, <1>5, <1>9 DEF Places, n
  <2>2. Keys(pos)' = Keys(pos)
    BY <1>7, <1>9 DEF Keys, n
  <2>3. Maps(Ahead, pos)'
    BY <1>5, <1>7, <1>8, <1>9 DEF Maps, SameNotes, n
  <2>4. Keyed(Seen'.slots, calls', Keys(pos)')
    BY <1>10, <2>2
  <2>5. \E p : (Places(p) /\ Keyed(Seen.slots, calls, Keys(p)) /\ Maps(Ahead, p))'
    BY <2>1, <2>3, <2>4
  <2> QED BY <1>1, <1>3, <1>7, <1>9, <2>5 DEF CallsInv
<1> QED BY <1>11, <1>12 DEF AnswerInv

-----------------------------------------------------------------------------
\* How an answer ends.
LEMMA StopKeeps ==
  ASSUME IInv, AnswerInv, NEW reason, Stop(reason)
  PROVE  AnswerInv'
<1> DEFINE why == {reason}
           figures == [NoFigures EXCEPT !.output = counted.output]
           finish == Answer!FinishOf(why)
           frame == IF Claude THEN MessageDelta(why, figures) ELSE Chunk(NoDelta, finish)
<1>1. /\ phase = "answer" /\ phase' = "stopped" /\ stop' = why /\ Send(frame)
      /\ UNCHANGED <<blocks, words, calls>>
  BY Zenon DEF Stop
<1>2. Sending
  BY <1>1 DEF Sending
<1>3. /\ HeardInv /\ CallsInv /\ EndInv
      /\ Reader(Seen) /\ Seen.verdict = "open"
      /\ Reader(Shown) /\ Shown.verdict = "open"
  BY <1>2, Goes
<1>4. why # {} /\ finish # {}
  BY DEF Answer!FinishOf
<1> HIDE DEF frame, why, figures, finish
<1>5. /\ Listens(tr) /\ tr = Ahead /\ Shown = Show(tr)
      /\ Seen' = Read(Seen, frame)
      /\ Ahead' = HandleData(tr, frame) /\ Shown' = Show(HandleData(tr, frame))
      /\ wire' = wire /\ counted' = counted /\ Claude' = Claude
      /\ Claude => ~tr.finish
  BY <1>1, <1>2, <1>3, Advanced
<1>6. /\ Reader(Seen') /\ Seen'.verdict = "open" /\ SameAnswer(Seen', Seen)
      /\ Reader(Shown') /\ Shown'.verdict = "open" /\ SameAnswer(Shown', Shown)
      /\ Claude => /\ Seen'.finish = why /\ Shown'.finish = finish /\ SameFigures(Shown', Shown)
                   /\ Ahead'.finish /\ Ahead'.output = figures /\ Ahead'.input = Ahead.input
                   /\ Ahead'.slots = Ahead.slots /\ Ahead'.next = Ahead.next
  <2>1. CASE Claude
    <3>1. frame = MessageDelta(why, figures)
      BY <2>1 DEF frame
    <3>2. /\ Reader(Seen') /\ Seen'.verdict = "open" /\ Seen'.finish = why /\ SameAnswer(Seen', Seen)
      BY <1>3, <1>4, <1>5, <3>1, StopRead
    <3>3. LET e == HandleData(tr, MessageDelta(why, figures))
          IN  /\ Listens(e) /\ e.finish /\ SameAnswer(Show(e), Show(tr))
              /\ SameFigures(Show(e), Show(tr)) /\ Show(e).finish = finish
              /\ e.output = figures /\ e.input = tr.input
              /\ e.slots = tr.slots /\ e.next = tr.next
      BY <1>4, <1>5, <2>1, StopHandled DEF finish
    <3> QED BY <1>5, <3>1, <3>2, <3>3 DEF Listens
  <2>2. CASE ~Claude
    <3>1. frame = Chunk(NoDelta, finish)
      BY <2>2 DEF frame
    <3>2. frame.type = "chunk" /\ NoDelta.text = <<>> /\ NoDelta.calls = <<>>
      BY <3>1 DEF Chunk, NoDelta
    <3>3. Show(HandleData(tr, frame)) = Read(Show(tr), frame)
      BY <1>5, <3>2, PassedOn DEF Listens
    <3>4. \A s : Reader(s) /\ s.verdict = "open" =>
                   Reader(Read(s, frame)) /\ Read(s, frame).verdict = "open"
                   /\ SameAnswer(Read(s, frame), s)
      BY <3>1, <3>2, SilentChunk DEF SameAnswer
    <3> QED BY <1>3, <1>5, <2>2, <3>3, <3>4
  <2> QED BY <2>1, <2>2
<1>7. HeardInv'
  BY <1>1, <1>3, <1>6, HeardMore DEF SameAnswer
<1>8. CallsInv'
  BY <1>1, <1>3, <1>5, <1>6, CallsKept DEF SameAnswer
<1>9. EndInv'
  <2>1. Opening' = Opening
    BY <1>5 DEF Opening
  <2>2. Claude => Shown'.prompt \cup Shown'.completion = {} /\ Ahead'.input = Opening
    BY <1>1, <1>3, <1>6 DEF EndInv, SameFigures
  <2> QED BY <1>1, <1>3, <1>5, <1>6, <2>1, <2>2 DEF EndInv, finish, figures
<1> QED BY <1>7, <1>8, <1>9 DEF AnswerInv

LEMMA CountKeeps ==
  ASSUME IInv, AnswerInv, Count
  PROVE  AnswerInv'
<1>1. PICK usage : Send(UsageChunk(usage))
  BY DEF Count
<1> DEFINE frame == UsageChunk(usage)
<1>2. /\ phase = "stopped" /\ phase' = "counted" /\ ~Claude /\ Send(frame)
      /\ UNCHANGED <<blocks, words, calls, stop>>
  BY <1>1 DEF Count
<1>3. Sending
  BY <1>2 DEF Sending
<1>4. /\ HeardInv /\ CallsInv /\ EndInv
      /\ Reader(Seen) /\ Seen.verdict = "open"
      /\ Reader(Shown) /\ Shown.verdict = "open"
  BY <1>3, Goes
<1>5. frame.type = "usage"
  BY DEF UsageChunk
<1> HIDE DEF frame
<1>6. /\ Listens(tr) /\ Shown = Show(tr)
      /\ Seen' = Read(Seen, frame) /\ Shown' = Show(HandleData(tr, frame))
      /\ wire' = wire /\ counted' = counted /\ Claude' = Claude
  BY <1>2, <1>3, <1>4, Advanced
<1>7. Shown' = Read(Shown, frame)
  <2>1. Show(HandleData(tr, frame)) = Read(Show(tr), frame)
    BY <1>5, <1>6, PassedOn DEF Listens
  <2> QED BY <1>6, <2>1
<1>8. /\ Reader(Seen') /\ Seen'.verdict = "open" /\ SameAnswer(Seen', Seen)
      /\ Reader(Shown') /\ Shown'.verdict = "open" /\ SameAnswer(Shown', Shown)
  BY <1>4, <1>6, <1>7, UsageRead DEF SameAnswer, frame
<1>9. HeardInv'
  BY <1>2, <1>4, <1>8, HeardMore DEF SameAnswer
<1>10. CallsInv'
  BY <1>2, <1>4, <1>6, <1>8, CallsKept DEF SameAnswer
<1>11. EndInv'
  BY <1>2, <1>4, <1>6 DEF EndInv
<1> QED BY <1>9, <1>10, <1>11 DEF AnswerInv

\* What was counted, out of what the start and the end of an answer say.
LEMMA CountedIsCounted ==
  ASSUME EndInv, NEW t, t.input = Opening, t.output = [NoFigures EXCEPT !.output = counted.output]
  PROVE  Counted(t) = Answer!Usage(counted)
<1> DEFINE D == {"input", "created", "read", "output"}
           both == [f \in DOMAIN NoFigures |-> Over(t.output[f], t.input[f])]
<1>1. DOMAIN NoFigures = D /\ \A f \in D : NoFigures[f] = {}
  BY DEF NoFigures
<1>2. counted \in [D -> SUBSET Nat] /\ (counted = NoFigures \/ counted.output # {})
  BY <1>1, UsagesAssumption DEF EndInv
<1>3. ASSUME NEW f \in D
      PROVE  Over(t.output[f], t.input[f]) = counted[f]
  <2>1. DOMAIN counted = D
    BY <1>2
  <2>2. t.output[f] = IF f = "output" THEN counted.output ELSE {}
    BY <1>1
  <2>3. f # "output" => t.input[f] = counted[f]
    BY <1>1, <2>1 DEF Opening
  <2>4. f = "output" /\ counted = NoFigures => t.input[f] = counted[f]
    BY DEF Opening
  <2> QED BY <1>2, <2>2, <2>3, <2>4 DEF Over
<1>4. both = counted
  BY <1>1, <1>2, <1>3
<1> QED BY <1>4, Zenon DEF Counted

LEMMA TerminateKeeps ==
  ASSUME IInv, AnswerInv, Terminate
  PROVE  AnswerInv'
<1> DEFINE frame == IF Claude THEN MessageStop ELSE Done
<1>1. /\ phase \in {"stopped", "counted"} /\ phase' = "ending" /\ Send(frame)
      /\ UNCHANGED <<blocks, words, calls, stop>>
  BY Zenon DEF Terminate
<1>2. Sending
  BY <1>1 DEF Sending
<1>3. /\ HeardInv /\ CallsInv /\ EndInv
      /\ Reader(Seen) /\ Seen.verdict = "open" /\ Seen.text = words
      /\ Reader(Shown) /\ Shown.verdict = "open" /\ Shown.text = words
  BY <1>2, Goes
<1>4. frame.type \in {"[DONE]", "message_stop"}
  BY DEF MessageStop, Done
<1> HIDE DEF frame
<1>5. /\ Listens(tr) /\ ~tr.done /\ tr = Ahead /\ Shown = Show(tr)
      /\ Seen' = Read(Seen, frame)
      /\ Ahead' = HandleData(tr, frame) /\ Shown' = Show(HandleData(tr, frame))
      /\ wire' = wire /\ counted' = counted /\ Claude' = Claude
  BY <1>1, <1>2, <1>3, Advanced
<1>6. HandleData(tr, frame) = EmitTerminal(tr)
  BY <1>4, Zenon DEF HandleData
<1>7. /\ Reader(Shown') /\ Shown'.verdict = "whole" /\ SameAnswer(Shown', Shown)
      /\ tr.finish => Shown'.finish = Shown.finish
      /\ Shown.prompt \cup Shown.completion = {} => Billed(Shown', Counted(tr))
      /\ SameNotes(Ahead, Ahead')
  BY <1>5, <1>6, TerminalShown
<1>8. /\ Reader(Seen') /\ Seen'.verdict = "whole" /\ Seen'.finish = Seen.finish
      /\ SameAnswer(Seen', Seen)
  BY <1>3, <1>4, <1>5, EndRead DEF SameAnswer
<1>9. HeardInv'
  BY <1>1, <1>3, <1>7, <1>8 DEF HeardInv, Verdict, Told, SameAnswer
<1>10. CallsInv'
  BY <1>1, <1>3, <1>5, <1>7, <1>8, CallsKept DEF SameAnswer, SameNotes
<1>11. Claude => Shown'.finish = Shown.finish /\ Billed(Shown', Answer!Usage(counted))
  <2> SUFFICES ASSUME Claude
               PROVE  Shown'.finish = Shown.finish /\ Billed(Shown', Answer!Usage(counted))
    OBVIOUS
  <2>1. phase = "stopped"
    BY <1>1, <1>3 DEF EndInv
  <2>2. /\ tr.finish /\ tr.input = Opening
        /\ tr.output = [NoFigures EXCEPT !.output = counted.output]
        /\ Shown.prompt \cup Shown.completion = {}
    BY <1>3, <1>5, <2>1 DEF EndInv
  <2>3. Counted(tr) = Answer!Usage(counted)
    BY <1>3, <2>2, CountedIsCounted
  <2> QED BY <1>7, <2>2, <2>3
<1>12. EndInv'
  BY <1>1, <1>3, <1>5, <1>8, <1>11 DEF EndInv
<1> QED BY <1>9, <1>10, <1>12 DEF AnswerInv

LEMMA RefuseKeeps ==
  ASSUME IInv, AnswerInv, Refuse
  PROVE  AnswerInv'
<1>1. PICK frame : Send(frame) /\ frame.type \in {"error", "labelled"}
  BY DEF Refuse, Error, Labelled
<1>2. /\ phase \in {"start", "answer", "stopped"} /\ phase' = "failing"
      /\ UNCHANGED <<blocks, words, calls, stop>> /\ Sending
  BY DEF Refuse, Sending
<1>3. /\ HeardInv /\ CallsInv /\ EndInv
      /\ Reader(Seen) /\ Seen.verdict = "open" /\ Seen.text = words
      /\ Reader(Shown) /\ Shown.verdict = "open" /\ Shown.text = words
  BY <1>2, Goes
<1>4. Last(source') = frame
  <2>1. Sequence(source) /\ source' = Append(source, frame)
    BY <1>1 DEF Send, IInv, SourceInv
  <2> QED BY <2>1, OneMoreFrame DEF Last
<1>5. /\ Listens(tr) /\ tr = Ahead /\ Shown = Show(tr)
      /\ Seen' = Read(Seen, frame)
      /\ Ahead' = HandleData(tr, frame) /\ Shown' = Show(HandleData(tr, frame))
      /\ wire' = wire /\ counted' = counted /\ Claude' = Claude
  BY <1>1, <1>2, <1>3, Advanced
<1>6. \A s : Reader(s) /\ s.verdict = "open" =>
               /\ Reader(Read(s, frame)) /\ Read(s, frame).verdict = "failed"
               /\ Read(s, frame).finish = s.finish /\ SameAnswer(Read(s, frame), s)
  BY <1>1, EndRead DEF SameAnswer
<1>7. /\ Reader(Seen') /\ Seen'.verdict = "failed" /\ Seen'.finish = Seen.finish
      /\ SameAnswer(Seen', Seen)
  BY <1>3, <1>5, <1>6
<1>8. /\ Reader(Shown') /\ Shown'.finish = Shown.finish /\ SameAnswer(Shown', Shown)
      /\ Shown'.verdict = IF frame.type = "labelled" THEN "open" ELSE "failed"
      /\ SameNotes(Ahead, Ahead')
  <2>1. CASE frame.type = "error"
    <3>1. Show(HandleData(tr, frame)) = Read(Show(tr), frame) /\ SameNotes(tr, HandleData(tr, frame))
      BY <1>5, <2>1, PassedOn DEF Listens
    <3> QED BY <1>3, <1>5, <1>6, <2>1, <3>1
  <2>2. CASE frame.type = "labelled"
    <3>1. HandleData(tr, frame) \in {tr, Enqueue(tr, Torn)}
      BY <2>2, LabelLost
    <3>2. Show(Enqueue(tr, Torn)) = Read(Show(tr), Torn) /\ SameNotes(tr, Enqueue(tr, Torn))
      BY <1>5, EnqueuedShown DEF Listens
    <3>3. Read(Shown, Torn) = Shown
      <4>1. Torn.type = "torn"
        BY DEF Torn
      <4> QED BY <4>1, Zenon DEF Read
    <3>4. SameNotes(tr, tr)
      BY DEF SameNotes
    <3> QED BY <1>3, <1>5, <2>2, <3>1, <3>2, <3>3, <3>4 DEF SameAnswer
  <2> QED BY <1>1, <2>1, <2>2
<1>9. HeardInv'
  BY <1>2, <1>3, <1>4, <1>1, <1>7, <1>8 DEF HeardInv, Verdict, Told, SameAnswer
<1>10. CallsInv'
  BY <1>2, <1>3, <1>5, <1>7, <1>8, CallsKept DEF SameAnswer, SameNotes
<1>11. EndInv'
  BY <1>2, <1>3, <1>5, <1>7, <1>8 DEF EndInv
<1> QED BY <1>9, <1>10, <1>11 DEF AnswerInv

-----------------------------------------------------------------------------
\* The readers level with the answer, from its start and at every line.
LEMMA InitAnswer ==
  ASSUME Init, IInv
  PROVE  AnswerInv
<1>1. /\ source = <<>> /\ taken = 0 /\ tr = NewTranslator /\ phase \in {"start", "answer"}
      /\ blocks = <<>> /\ words = <<>> /\ calls = <<>> /\ stop = {} /\ counted \in Usages
      /\ wire.numbered \in BOOLEAN
  BY DEF Init
<1>2. <<>> \in Seq({}) /\ Len(<<>>) = 0 /\ Sequence(<<>>) /\ DOMAIN <<>> = {}
  <2>1. <<>> \in Seq({}) /\ Len(<<>>) = 0 /\ DOMAIN <<>> = {}
    OBVIOUS
  <2> QED BY <2>1 DEF Sequence
<1>3. /\ tr.out = <<>> /\ tr.input = NoFigures /\ tr.output = NoFigures /\ tr.next = 0
  BY <1>1, Zenon DEF NewTranslator
<1>4. Ahead = tr
  BY <1>1, <1>2 DEF Ahead
<1>5. Seen = Nothing /\ Shown = Nothing
  <2>1. ReadAll(<<>>) = Nothing
    <3>1. ReadFrom(Nothing, <<>>) = Nothing
      BY ReadOfATail
    <3> QED BY <3>1, Zenon DEF ReadFrom, ReadAll
  <2> QED BY <1>1, <1>3, <1>4, <2>1 DEF Seen, Shown, Show
<1>6. /\ Reader(Nothing) /\ Nothing.verdict = "open" /\ Nothing.text = <<>>
      /\ Nothing.slots = <<>> /\ Nothing.finish = {}
      /\ Nothing.prompt \cup Nothing.completion = {}
  BY <1>2 DEF Nothing, Reader, State
<1>7. phase \notin {"ending", "failing", "stopped", "counted"}
  BY <1>1
<1>8. HeardInv
  BY <1>1, <1>2, <1>5, <1>6, <1>7 DEF HeardInv, Verdict, Told
<1>9. CallsInv
  <2>1. Made(calls) /\ Len(calls) = 0 /\ Len(blocks) = 0
    BY <1>1, <1>2 DEF Made
  <2> DEFINE none == FromZero(Len(calls))
  <2>2. Increasing(none, 0)
    BY <2>1, ZeroKeys
  <2> HIDE DEF none
  <2>3. Places(none)
    BY <2>1, <2>2 DEF Places
  <2>4. Keyed(Nothing.slots, calls, none)
    BY <1>2, <1>6, <2>1, <2>2 DEF Keyed
  <2>5. Keys(none) = none
    BY DEF Keys, none
  <2>6. Maps(Ahead, none)
    BY <1>3, <1>4, <2>1 DEF Maps
  <2>7. Keyed(Seen.slots, calls, Keys(none)) /\ Keyed(Shown.slots, calls, none)
    BY <1>5, <2>4, <2>5
  <2>8. Sequence(blocks)
    BY <1>1, <1>2
  <2> QED BY <1>1, <1>5, <2>1, <2>3, <2>4, <2>6, <2>7, <2>8 DEF CallsInv, none
<1>10. EndInv
  <2>1. Answer!FinishOf(stop) = {}
    BY <1>1 DEF Answer!FinishOf
  <2> QED BY <1>1, <1>3, <1>4, <1>5, <1>6, <1>7, <2>1 DEF EndInv
<1> QED BY <1>8, <1>9, <1>10 DEF AnswerInv

\* What does not change what the readers have keeps them level.
LEMMA Level ==
  ASSUME AnswerInv, Ahead' = Ahead, UNCHANGED <<wire, counted, blocks, words, calls, phase, stop, source>>
  PROVE  AnswerInv'
<1> SUFFICES ASSUME phase' \notin Ended PROVE HeardInv' /\ CallsInv' /\ EndInv'
  BY DEF AnswerInv
<1>1. HeardInv /\ CallsInv /\ EndInv
  BY DEF AnswerInv
<1>2. Seen' = Seen /\ Shown' = Shown /\ Verdict' = Verdict /\ Told' = Told
      /\ Claude' = Claude /\ Opening' = Opening
  BY DEF Seen, Shown, Verdict, Told, Claude, Opening
<1>3. HeardInv'
  BY <1>1, <1>2 DEF HeardInv
<1>4. CallsInv'
  BY <1>1, <1>2, CallsKept
<1>5. EndInv'
  BY <1>1, <1>2 DEF EndInv
<1> QED BY <1>3, <1>4, <1>5

LEMMA TransformKeeps ==
  ASSUME IInv, AnswerInv, Transform
  PROVE  AnswerInv'
<1>1. /\ taken < Len(source) /\ tr' = HandleData(tr, Last(source)) /\ taken' = Len(source)
      /\ UNCHANGED <<wire, counted, blocks, words, calls, phase, stop, source>>
  BY DEF Transform
<1>2. taken # Len(source)
  <2>1. Len(source) \in Nat
    BY LenProperties DEF IInv, SourceInv, Sequence
  <2> QED BY <1>1, <2>1 DEF IInv, SourceInv
<1>3. Ahead' = Ahead
  BY <1>1, <1>2 DEF Ahead
<1> QED BY <1>1, <1>3, Level

LEMMA ProvideKeeps ==
  ASSUME IInv, AnswerInv, Provide
  PROVE  AnswerInv'
<1>1. ASSUME NEW id \in Ids, OpenCall(id) PROVE AnswerInv'
  BY <1>1, OpenCallOther, OpenCallClaude
<1>2. ASSUME NEW k \in 1..Len(calls), NEW again \in BOOLEAN, Argue(k, again) PROVE AnswerInv'
  BY <1>2, ArgueOther, ArgueClaude
<1>3. ASSUME NEW reason, Stop(reason) PROVE AnswerInv'
  BY <1>3, StopKeeps
<1>4. \/ Start \/ OpenText \/ Speak \/ OpenTwoCalls \/ Count \/ Terminate \/ Refuse
      \/ \E id \in Ids : OpenCall(id)
      \/ \E k \in 1..Len(calls), again \in BOOLEAN : Argue(k, again)
      \/ \E reason : Stop(reason)
  BY Zenon DEF Provide
<1> QED BY <1>1, <1>2, <1>3, <1>4, StartKeeps, OpenTextKeeps, SpeakKeeps, OpenTwoCallsKeeps,
           CountKeeps, TerminateKeeps, RefuseKeeps

-----------------------------------------------------------------------------
\* A source but for its last line.
LEMMA FrontAndLast ==
  ASSUME NEW s, Sequence(s), NEW n \in Nat, Len(s) = n + 1
  PROVE  /\ Sequence(SubSeq(s, 1, n)) /\ s = Append(SubSeq(s, 1, n), Last(s))
         /\ \A one : one = <<Last(s)>> => SubSeq(s, n + 1, Len(s)) = one
<1>1. PICK S : s \in Seq(S)
  BY DEF Sequence
<1> DEFINE front == SubSeq(s, 1, n)
           last == SubSeq(s, n + 1, n + 1)
<1>2. \A i \in 1..(n + 1) : s[i] \in S
  BY <1>1, ElementOfSeq
<1>3. front \in Seq(S) /\ Len(front) = n /\ \A i \in 1..n : front[i] = s[i]
  <2>1. 1 \in Int /\ n \in Int /\ \A i \in 1..n : s[i] \in S
    BY <1>2
  <2>2. /\ front \in Seq(S)
        /\ Len(front) = IF 1 <= n THEN n - 1 + 1 ELSE 0
        /\ \A i \in 1..(n - 1 + 1) : front[i] = s[1 + i - 1]
    BY <2>1, SubSeqProperties
  <2> HIDE DEF front
  <2> QED BY <2>2
<1>4. last \in Seq(S) /\ Len(last) = 1 /\ last[1] = s[n + 1]
  <2>1. n + 1 \in Int /\ \A i \in (n + 1)..(n + 1) : s[i] \in S
    BY <1>2
  <2>2. /\ last \in Seq(S)
        /\ Len(last) = IF n + 1 <= n + 1 THEN (n + 1) - (n + 1) + 1 ELSE 0
        /\ \A i \in 1..((n + 1) - (n + 1) + 1) : last[i] = s[(n + 1) + i - 1]
    BY <2>1, SubSeqProperties
  <2> HIDE DEF last
  <2>3. 1 \in 1..((n + 1) - (n + 1) + 1) /\ (n + 1) + 1 - 1 = n + 1
    OBVIOUS
  <2> QED BY <2>2, <2>3
<1> HIDE DEF front, last
<1>5. Last(s) = s[n + 1] /\ s[n + 1] \in S
  BY <1>2 DEF Last
<1> DEFINE more == Append(front, s[n + 1])
<1>6. more \in Seq(S) /\ Len(more) = n + 1 /\ \A i \in 1..(n + 1) : more[i] = s[i]
  <2>1. /\ more \in Seq(S) /\ Len(more) = n + 1
        /\ \A i \in 1..n : more[i] = front[i]
        /\ more[n + 1] = s[n + 1]
    BY <1>3, <1>5, AppendProperties
  <2> HIDE DEF more
  <2> QED BY <1>3, <2>1
<1> HIDE DEF more
<1>7. s = more
  BY <1>1, <1>6, SeqEqual
<1>8. \A one : one = <<Last(s)>> => last = one
  BY <1>4, <1>5
<1> QED BY <1>3, <1>5, <1>7, <1>8 DEF Sequence, more, front, last

-----------------------------------------------------------------------------
\* What the readers tell while the answer goes on, and what of an answer that arrived
\* whole.
LEMMA CallsTold ==
  ASSUME CallsInv
  PROVE  Calls(Seen) = calls /\ Calls(Shown) = calls
<1>1. Made(calls) /\ Keyed(Shown.slots, calls, FromZero(Len(calls)))
  BY DEF CallsInv
<1>2. Calls(Shown) = calls
  BY <1>1, CallsAreMade
<1>3. \E pos : Keyed(Seen.slots, calls, pos)
  BY DEF CallsInv
<1> QED BY <1>1, <1>2, <1>3, CallsAreMade

LEMMA ToldInTime ==
  ASSUME IInv, phase \notin Ended, taken = Len(source)
  PROVE  Direct = Seen /\ Translated = Shown
<1>1. SubSeq(source, 1, taken) = source
  BY AsIfAppended DEF IInv, SourceInv
<1> QED BY <1>1 DEF Direct, Translated, Seen, Shown, Show, Ahead

\* The last line, read as the tail of the body.
LEMMA TailTold ==
  ASSUME NEW x, NEW frame, frame.type \in {"[DONE]", "message_stop"},
         NEW r, r = Read(x, frame), State(r), r.verdict = "whole",
         NEW tail, tail = <<frame>>
  PROVE  ReadTail(x, tail) = r
<1>1. FoldLeft(Read, x, tail) = r
  <2>1. ReadFrom(x, tail) = r
    BY ReadOfATail
  <2> QED BY <2>1, Zenon DEF ReadFrom
<1>2. ReadTail(x, tail) = [x EXCEPT !.verdict = r.verdict]
  BY <1>1 DEF ReadTail
<1>3. CASE x.verdict # "open"
  <2>1. r = x
    BY <1>3, Zenon DEF Read
  <2> QED BY <1>2, <2>1 DEF State
<1>4. CASE x.verdict = "open"
  <2>1. r = [x EXCEPT !.verdict = "whole"]
    BY <1>4 DEF Read
  <2> QED BY <1>2, <2>1
<1> QED BY <1>3, <1>4

LEMMA ToldWhole ==
  ASSUME IInv, AnswerInv, NEW left \in Lefts, Close(left), phase' = "whole"
  PROVE  Direct' = Seen /\ Translated' = Shown
<1>1. /\ phase = "ending" /\ left = Pending /\ rest' = left /\ tr' = Flush(tr, left)
      /\ UNCHANGED <<source, taken>>
  BY DEF Close
<1>2. State(Seen) /\ Seen.verdict = "whole"
  BY <1>1 DEF AnswerInv, HeardInv, Verdict, Told, Ended, Reader
<1>3. /\ Sequence(source) /\ Len(source) \in Nat /\ taken \in Nat
      /\ taken = Len(source) => Pending = <<>>
      /\ taken # Len(source) =>
           Pending # <<>> /\ Last(Pending) = Last(source) /\ taken + 1 = Len(source)
  BY PendingFacts DEF IInv, SourceInv
<1> DEFINE read == ReadAll(SubSeq(source, 1, taken))
<1>4. Direct' = ReadTail(read, left)
  BY <1>1 DEF Direct, Ended
<1> HIDE DEF read
<1>5. ASSUME taken = Len(source)
      PROVE  Direct' = Seen /\ tr' = tr /\ Ahead = tr
  <2>1. read = Seen
    BY <1>3, <1>5, AsIfAppended DEF Seen, read
  <2>2. FoldLeft(Read, read, <<>>) = read
    <3>1. ReadFrom(read, <<>>) = read
      BY ReadOfATail
    <3> QED BY <3>1, Zenon DEF ReadFrom
  <2>3. ReadTail(read, <<>>) = [read EXCEPT !.verdict = read.verdict]
    BY <1>2, <2>1, <2>2 DEF ReadTail
  <2>4. [Seen EXCEPT !.verdict = Seen.verdict] = Seen
    BY <1>2 DEF State
  <2>5. tr.done
    BY <1>1, <1>5 DEF IInv, TranslatorInv
  <2>6. tr' = tr
    BY <1>1, <1>3, <1>5, <2>5 DEF Flush, EmitTerminal
  <2> QED BY <1>1, <1>3, <1>4, <1>5, <2>1, <2>3, <2>4, <2>6 DEF Ahead
<1>6. ASSUME taken # Len(source)
      PROVE  Direct' = Seen /\ tr' = Ahead
  <2> DEFINE frame == Last(source)
  <2>1. phase \notin Ended /\ frame.type \in {"[DONE]", "message_stop"}
    BY <1>1, <1>6 DEF IInv, SourceInv, Awaits, Ended
  <2>2. /\ Sequence(SubSeq(source, 1, taken)) /\ source = Append(SubSeq(source, 1, taken), frame)
        /\ \A one : one = <<frame>> => SubSeq(source, taken + 1, Len(source)) = one
    BY <1>3, <1>6, FrontAndLast
  <2>3. left = <<frame>>
    BY <1>1, <2>2 DEF Pending
  <2>4. Ahead = HandleData(tr, frame)
    BY <1>6 DEF Ahead
  <2>5. tr' = EmitTerminal(Ahead)
    BY <1>1, <1>3, <1>6, <2>4 DEF Flush
  <2> HIDE DEF frame
  <2>6. Seen = Read(read, frame)
    BY <2>2, OneMoreRead DEF Seen, read
  <2>7. Direct' = Seen
    BY <1>2, <1>4, <2>1, <2>3, <2>6, TailTold
  <2>8. Ahead = EmitTerminal(tr)
    BY <1>1, <1>6, <2>1, <2>4, LineRead DEF frame
  <2>9. Ahead.done
    BY <2>8, TerminalEmitted DEF IInv, TranslatorInv
  <2> QED BY <2>5, <2>7, <2>9 DEF EmitTerminal
<1> QED BY <1>5, <1>6 DEF Translated, Shown, Show

\* An answer that arrived whole.
ToldInv == phase = "whole" => AnswerIsReassembled /\ WholeAnswersEndAlike

LEMMA CloseTells ==
  ASSUME IInv, AnswerInv, NEW left \in Lefts, Close(left), phase' = "whole"
  PROVE  AnswerIsReassembled' /\ WholeAnswersEndAlike'
<1>1. /\ phase = "ending" /\ phase \notin Ended
      /\ UNCHANGED <<wire, counted, words, calls, stop>>
  BY DEF Close
<1>2. HeardInv /\ CallsInv /\ EndInv /\ Verdict = "whole" /\ Told = "whole"
  BY <1>1 DEF AnswerInv, Verdict, Told
<1>3. Direct' = Seen /\ Translated' = Shown
  BY ToldWhole
<1>4. Calls(Seen) = calls /\ Calls(Shown) = calls
  BY <1>2, CallsTold
<1>5. /\ Seen.text = words /\ Shown.text = words
      /\ Seen.verdict = "whole" /\ Shown.verdict = "whole"
  BY <1>2 DEF HeardInv
<1>6. AnswerIsReassembled'
  BY <1>1, <1>3, <1>4, <1>5 DEF AnswerIsReassembled
<1>7. Claude => /\ Seen.finish = stop /\ Shown.finish = Answer!FinishOf(stop)
                /\ Billed(Shown, Answer!Usage(counted))
  BY <1>1, <1>2 DEF EndInv
<1>8. Claude' = Claude
  BY <1>1 DEF Claude
<1>9. WholeAnswersEndAlike'
  BY <1>1, <1>3, <1>5, <1>7, <1>8 DEF WholeAnswersEndAlike, Billed
<1> QED BY <1>6, <1>9

Reassembled == IInv /\ AnswerInv /\ ToldInv

LEMMA ReassembledNext == Reassembled /\ [Next]_vars => Reassembled'
<1> SUFFICES ASSUME Reassembled, [Next]_vars PROVE Reassembled'
  OBVIOUS
<1>1. IInv /\ AnswerInv /\ ToldInv /\ IInv'
  BY NextInv DEF Reassembled
<1>2. CASE Provide
  <2>1. phase' # "whole"
    <3>1. PICK frame : Given(frame)
      BY <1>1, <1>2, Provided
    <3> QED BY <3>1 DEF Given
  <2> QED BY <1>1, <1>2, <2>1, ProvideKeeps DEF Reassembled, ToldInv
<1>3. CASE Transform
  <2>1. phase' # "whole"
    BY <1>3 DEF Transform, Ended
  <2> QED BY <1>1, <1>3, <2>1, TransformKeeps DEF Reassembled, ToldInv
<1>4. ASSUME NEW left \in Lefts, Close(left)
      PROVE  AnswerInv' /\ ToldInv'
  <2>1. phase' \in Ended
    BY <1>4 DEF Close, Ended
  <2> QED BY <1>1, <1>4, <2>1, CloseTells DEF AnswerInv, ToldInv
<1>5. CASE UNCHANGED vars
  <2>1. UNCHANGED <<wire, counted, blocks, words, calls, phase, stop, source, taken, rest, tr>>
    BY <1>5 DEF vars
  <2>2. Ahead' = Ahead /\ Direct' = Direct /\ Translated' = Translated /\ Claude' = Claude
    BY <2>1 DEF Ahead, Direct, Translated, Claude
  <2>3. AnswerInv'
    BY <1>1, <2>1, <2>2, Level
  <2>4. ToldInv'
    BY <1>1, <2>1, <2>2 DEF ToldInv, AnswerIsReassembled, WholeAnswersEndAlike
  <2> QED BY <1>1, <2>3, <2>4 DEF Reassembled
<1> QED BY <1>1, <1>2, <1>3, <1>4, <1>5, Zenon DEF Next, Reassembled

LEMMA ReassembledHolds == Spec => []Reassembled
<1>1. Init => Reassembled
  <2>1. Init => phase # "whole"
    BY DEF Init
  <2> QED BY <2>1, InitInv, InitAnswer DEF Reassembled, ToldInv
<1> QED BY <1>1, ReassembledNext, PTL DEF Spec

\* Both readers assemble the answer as the model made it, whatever the wire, its
\* numbering and the order of the fragments, however long it is: absorbMetadata and
\* createAnthropicSSETranslator give every fragment to the slot of its call.
THEOREM AnswersAreReassembled == Spec => []AnswerIsReassembled
<1>1. Reassembled => AnswerIsReassembled
  <2> SUFFICES ASSUME Reassembled, phase \notin Ended, taken = Len(source)
               PROVE  AnswerIsReassembled
    BY DEF Reassembled, ToldInv, AnswerIsReassembled
  <2>1. Direct = Seen /\ Translated = Shown
    BY ToldInTime DEF Reassembled
  <2>2. HeardInv /\ CallsInv
    BY DEF Reassembled, AnswerInv
  <2> QED BY <2>1, <2>2, CallsTold DEF HeardInv, AnswerIsReassembled
<1> QED BY <1>1, ReassembledHolds, PTL

\* An Anthropic answer that arrived whole ends whole and for the same reason for both
\* readers, and the translated one carries every figure that was counted: emitTerminal
\* bills the start and the end of the answer together.
THEOREM WholeAnswersAreAlike == Spec => []WholeAnswersEndAlike
<1>1. Reassembled => WholeAnswersEndAlike
  BY DEF Reassembled, ToldInv, WholeAnswersEndAlike
<1> QED BY <1>1, ReassembledHolds, PTL
================================================================================
