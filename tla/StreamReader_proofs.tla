------------------------- MODULE StreamReader_proofs -------------------------
(***************************************************************************)
(* The promises of a StreamResult, for any number of loops and accessors   *)
(* that share its generator, and for answers and network chunks of any     *)
(* length.                                                                 *)
(*                                                                         *)
(* What carries them is Judged, which ties what each caller was told to    *)
(* how the generator closed, and Accounted, which ties the text read so    *)
(* far and the frames still in hand to what the gateway sent.              *)
(***************************************************************************)
EXTENDS StreamReader, SequenceTheorems, TLAPS

Judged ==
  /\ place # "closed" => failure = None
  /\ place \in {"body", "tail"} => ending = "none"
  /\ place = "release" => ending # "none" /\ queue # <<>>
  /\ place = "closed" => failure # None \/ ending \in {"done", "abandoned"}
  /\ \A a \in Accessors :
       /\ caller[a] \in {"done", "answered", "failed"} => place = "closed"
       /\ caller[a] = "answered" => failure = None /\ got[a] = text
       /\ caller[a] = "failed" => failure # None

Accounted ==
  /\ place = "body" => ChunkLike(frames) /\ sent = text + Deltas(frames)
  /\ place = "tail" => sent = text
  /\ ending = "done" => sent = text

IInv == TypeOK /\ QueuedOnce /\ Judged /\ Accounted

-----------------------------------------------------------------------------
\* What the reader needs to know of a chunk in hand.
LEMMA ChunkLemma ==
  ASSUME NEW fs \in Seq(Frames), ChunkLike(fs)
  PROVE  /\ Deltas(fs) \in Nat
         /\ fs # <<>> /\ Head(fs) = "delta" =>
              ChunkLike(Tail(fs)) /\ Deltas(fs) = 1 + Deltas(Tail(fs)) /\ Tail(fs) \in Seq(Frames)
         /\ fs # <<>> /\ Head(fs) # "delta" =>
              Deltas(fs) = 0 /\ Head(fs) \in Frames \ {"delta"}
<1>1. Len(fs) \in Nat /\ (fs # <<>> => Len(fs) > 0 /\ Head(fs) = fs[1] /\ Head(fs) \in Frames)
  OBVIOUS
<1>2. Deltas(fs) \in Nat
  BY <1>1 DEF Deltas
<1>3. ASSUME fs # <<>>, Head(fs) = "delta"
      PROVE  ChunkLike(Tail(fs)) /\ Deltas(fs) = 1 + Deltas(Tail(fs)) /\ Tail(fs) \in Seq(Frames)
  <2>1. /\ Tail(fs) \in Seq(Frames)
        /\ Len(Tail(fs)) = Len(fs) - 1
        /\ \A k \in 1..Len(Tail(fs)) : Tail(fs)[k] = fs[k + 1]
    BY <1>3, HeadTailProperties
  <2>2. ASSUME NEW t \in Seq(Frames), NEW n \in Nat, Len(fs) = n + 1, Len(t) = n,
               \A k \in 1..n : t[k] = fs[k + 1]
        PROVE  ChunkLike(t) /\ Deltas(fs) = 1 + Deltas(t)
    <3>1. \A k \in 1..n : t[k] # "delta" => k = n
      <4>1. SUFFICES ASSUME NEW k \in 1..n, fs[k + 1] # "delta" PROVE k = n
        BY <2>2
      <4>2. k + 1 \in 1..(n + 1) => k + 1 = n + 1
        BY <4>1, <2>2 DEF ChunkLike
      <4> QED BY <4>2
    <3>2. CASE n = 0
      <4>1. t = <<>> /\ fs[Len(fs)] = "delta"
        BY <1>1, <1>3, <2>2, <3>2, EmptySeq
      <4> QED BY <2>2, <3>1, <3>2, <4>1 DEF ChunkLike, Deltas
    <3>3. CASE n > 0
      <4>1. t # <<>> /\ n \in 1..n
        BY <2>2, <3>3
      <4>2. t[n] = fs[n + 1]
        BY <2>2, <4>1
      <4> QED BY <1>3, <2>2, <3>1, <4>1, <4>2 DEF ChunkLike, Deltas
    <3> QED BY <3>2, <3>3
  <2>3. Len(fs) - 1 \in Nat /\ Len(fs) = (Len(fs) - 1) + 1
    BY <1>1, <1>3
  <2> QED BY <2>1, <2>2, <2>3
<1>4. ASSUME fs # <<>>, Head(fs) # "delta"
      PROVE  Deltas(fs) = 0 /\ Head(fs) \in Frames \ {"delta"}
  <2>1. 1 \in 1..Len(fs) /\ fs[1] # "delta"
    BY <1>1, <1>4
  <2>2. 1 = Len(fs)
    BY <2>1 DEF ChunkLike
  <2> QED BY <1>1, <1>4, <2>2 DEF Deltas
<1> QED BY <1>2, <1>3, <1>4

LEMMA ChunksLemma ==
  ASSUME NEW fs \in Chunks
  PROVE  fs \in Seq(Frames) /\ ChunkLike(fs) /\ sent + Deltas(fs) <= MaxSent
BY DEF Chunks, BoundedSeq, SeqOf

\* The queue when the request at its head is settled, and when one joins it.
LEMMA QueueLemma ==
  ASSUME queue \in Seq(Callers), QueuedOnce
  PROVE  /\ queue # <<>> =>
              /\ Head(queue) \in Callers /\ Tail(queue) \in Seq(Callers)
              /\ \A c \in Callers :
                   (\E k \in 1..Len(Tail(queue)) : Tail(queue)[k] = c)
                     <=> c # Head(queue) /\ \E k \in 1..Len(queue) : queue[k] = c
              /\ \A k, l \in 1..Len(Tail(queue)) :
                   Tail(queue)[k] = Tail(queue)[l] => k = l
         /\ \A d \in Callers : caller[d] \notin {"waiting", "leaving"} =>
              /\ Append(queue, d) \in Seq(Callers)
              /\ \A c \in Callers :
                   (\E k \in 1..Len(Append(queue, d)) : Append(queue, d)[k] = c)
                     <=> c = d \/ \E k \in 1..Len(queue) : queue[k] = c
              /\ \A k, l \in 1..Len(Append(queue, d)) :
                   Append(queue, d)[k] = Append(queue, d)[l] => k = l
<1>1. ASSUME queue # <<>>
      PROVE  /\ Head(queue) \in Callers /\ Tail(queue) \in Seq(Callers)
             /\ \A c \in Callers :
                   (\E k \in 1..Len(Tail(queue)) : Tail(queue)[k] = c)
                     <=> c # Head(queue) /\ \E k \in 1..Len(queue) : queue[k] = c
             /\ \A k, l \in 1..Len(Tail(queue)) :
                   Tail(queue)[k] = Tail(queue)[l] => k = l
  <2>1. /\ Head(queue) \in Callers /\ Head(queue) = queue[1]
        /\ Tail(queue) \in Seq(Callers) /\ Len(Tail(queue)) = Len(queue) - 1
        /\ \A k \in 1..Len(Tail(queue)) : Tail(queue)[k] = queue[k + 1]
        /\ Len(queue) \in Nat /\ Len(queue) > 0
    BY <1>1
  <2>2. \A k, l \in 1..Len(queue) : queue[k] = queue[l] => k = l
    BY DEF QueuedOnce
  <2>3. \A k, l \in 1..Len(Tail(queue)) : Tail(queue)[k] = Tail(queue)[l] => k = l
    BY <2>1, <2>2
  <2>4. ASSUME NEW c \in Callers
        PROVE  (\E k \in 1..Len(Tail(queue)) : Tail(queue)[k] = c)
                     <=> c # Head(queue) /\ \E k \in 1..Len(queue) : queue[k] = c
    <3>1. ASSUME NEW k \in 1..Len(Tail(queue)), Tail(queue)[k] = c
          PROVE  c # Head(queue) /\ \E j \in 1..Len(queue) : queue[j] = c
      <4>1. k + 1 \in 1..Len(queue) /\ 1 \in 1..Len(queue) /\ k + 1 # 1
        BY <2>1
      <4> QED BY <2>1, <2>2, <3>1, <4>1
    <3>2. ASSUME c # Head(queue), NEW k \in 1..Len(queue), queue[k] = c
          PROVE  \E j \in 1..Len(Tail(queue)) : Tail(queue)[j] = c
      <4>1. k # 1
        BY <2>1, <3>2
      <4>2. k - 1 \in 1..Len(Tail(queue)) /\ Tail(queue)[k - 1] = queue[(k - 1) + 1]
        BY <2>1, <4>1
      <4> QED BY <3>2, <4>2
    <3> QED BY <3>1, <3>2
  <2> QED BY <2>1, <2>3, <2>4
<1>2. ASSUME NEW d \in Callers, caller[d] \notin {"waiting", "leaving"}
      PROVE  /\ Append(queue, d) \in Seq(Callers)
             /\ \A c \in Callers :
                   (\E k \in 1..Len(Append(queue, d)) : Append(queue, d)[k] = c)
                     <=> c = d \/ \E k \in 1..Len(queue) : queue[k] = c
             /\ \A k, l \in 1..Len(Append(queue, d)) :
                   Append(queue, d)[k] = Append(queue, d)[l] => k = l
  <2>1. /\ Append(queue, d) \in Seq(Callers) /\ Len(Append(queue, d)) = Len(queue) + 1
        /\ \A k \in 1..Len(queue) : Append(queue, d)[k] = queue[k]
        /\ Append(queue, d)[Len(queue) + 1] = d
        /\ Len(queue) \in Nat
    OBVIOUS
  <2>2. \A k \in 1..Len(queue) : queue[k] # d
    BY <1>2 DEF QueuedOnce
  <2>3. \A k, l \in 1..Len(queue) : queue[k] = queue[l] => k = l
    BY DEF QueuedOnce
  <2>4. \A k, l \in 1..(Len(queue) + 1) : Append(queue, d)[k] = Append(queue, d)[l] => k = l
    BY <2>1, <2>2, <2>3
  <2>5. ASSUME NEW c \in Callers
        PROVE  (\E k \in 1..(Len(queue) + 1) : Append(queue, d)[k] = c)
                     <=> c = d \/ \E k \in 1..Len(queue) : queue[k] = c
    BY <2>1
  <2> QED BY <2>1, <2>4, <2>5
<1> QED BY <1>1, <1>2

-----------------------------------------------------------------------------
\* What the pieces of the reader's actions do to callers and queue.
Callings == {"idle", "waiting", "leaving", "took", "done", "left", "failed", "answered"}

LEMMA CloseLemma ==
  ASSUME TypeOK, QueuedOnce, queue # <<>>, NEW how \in {"done", "left", "failed"}, Close(how)
  PROVE  /\ place' = "closed" /\ frames' = <<>> /\ frames' \in Seq(Frames)
         /\ queue' = <<>> /\ queue' \in Seq(Callers)
         /\ caller' \in [Callers -> Callings]
         /\ Head(queue) \in Callers /\ caller'[Head(queue)] = how
         /\ \A c \in Callers \ {Head(queue)} :
              \/ caller[c] = "waiting" /\ caller'[c] = "done"
              \/ caller[c] = "leaving" /\ caller'[c] = "left"
              \/ caller[c] \notin {"waiting", "leaving"} /\ caller'[c] = caller[c]
         /\ QueuedOnce'
<1>1. Head(queue) \in Callers
  BY QueueLemma DEF TypeOK
<1>2. /\ caller' \in [Callers -> Callings]
      /\ caller'[Head(queue)] = how
      /\ \A c \in Callers \ {Head(queue)} :
           \/ caller[c] = "waiting" /\ caller'[c] = "done"
           \/ caller[c] = "leaving" /\ caller'[c] = "left"
           \/ caller[c] \notin {"waiting", "leaving"} /\ caller'[c] = caller[c]
  BY <1>1 DEF TypeOK, Close, Callings
<1>3. /\ place' = "closed" /\ frames' = <<>> /\ frames' \in Seq(Frames)
      /\ queue' = <<>> /\ queue' \in Seq(Callers)
  BY DEF Close
<1>4. \A c \in Callers : caller'[c] \notin {"waiting", "leaving"}
  BY <1>1, <1>2
<1>5. QueuedOnce'
  BY <1>3, <1>4 DEF QueuedOnce
<1> QED BY <1>1, <1>2, <1>3, <1>5

LEMMA YieldLemma ==
  ASSUME TypeOK, QueuedOnce, Asking, NEW rest \in Seq(Frames), Yield(rest)
  PROVE  /\ text' = text + 1 /\ frames' = rest /\ UNCHANGED <<failure, ending>>
         /\ Head(queue) \in Callers /\ caller[Head(queue)] = "waiting"
         /\ caller' \in [Callers -> Callings]
         /\ caller' = [caller EXCEPT ![Head(queue)] = "took"]
         /\ queue' \in Seq(Callers)
         /\ QueuedOnce'
<1>1. /\ Head(queue) \in Callers /\ Tail(queue) \in Seq(Callers)
      /\ \A c \in Callers :
           (\E k \in 1..Len(Tail(queue)) : Tail(queue)[k] = c)
             <=> c # Head(queue) /\ \E k \in 1..Len(queue) : queue[k] = c
      /\ \A k, l \in 1..Len(Tail(queue)) : Tail(queue)[k] = Tail(queue)[l] => k = l
  BY QueueLemma DEF TypeOK, Asking
<1>2. /\ text' = text + 1 /\ frames' = rest /\ UNCHANGED <<failure, ending>>
      /\ queue' = Tail(queue)
      /\ caller' = [caller EXCEPT ![Head(queue)] = "took"]
      /\ caller[Head(queue)] = "waiting"
  BY DEF Yield, Asking
<1>3. caller' \in [Callers -> Callings]
  BY <1>1, <1>2 DEF TypeOK, Callings
<1>4. \A c \in Callers :
        caller'[c] \in {"waiting", "leaving"}
          <=> c # Head(queue) /\ caller[c] \in {"waiting", "leaving"}
  BY <1>1, <1>2 DEF TypeOK
<1>5. \A c \in Callers :
        caller[c] \in {"waiting", "leaving"} <=> \E k \in 1..Len(queue) : queue[k] = c
  BY DEF QueuedOnce
<1>6. \A c \in Callers :
        caller'[c] \in {"waiting", "leaving"} <=> \E k \in 1..Len(queue') : queue'[k] = c
  <2>1. \A c \in Callers :
          (\E k \in 1..Len(queue') : queue'[k] = c)
            <=> c # Head(queue) /\ \E k \in 1..Len(queue) : queue[k] = c
    BY <1>1, <1>2, Zenon
  <2> QED BY <1>4, <1>5, <2>1, Zenon
<1>7. QueuedOnce'
  BY <1>1, <1>2, <1>6 DEF QueuedOnce
<1> QED BY <1>1, <1>2, <1>3, <1>7

\* A request, next() or return(), that joins the queue.
LEMMA JoinLemma ==
  ASSUME TypeOK, QueuedOnce, NEW d \in Callers, caller[d] \notin {"waiting", "leaving"},
         NEW how \in {"waiting", "leaving"},
         caller' = [caller EXCEPT ![d] = how], queue' = Append(queue, d)
  PROVE  /\ caller' \in [Callers -> Callings] /\ queue' \in Seq(Callers)
         /\ queue' # <<>>
         /\ \A c \in Callers \ {d} : caller'[c] = caller[c]
         /\ caller'[d] = how
         /\ QueuedOnce'
<1>1. /\ Append(queue, d) \in Seq(Callers)
      /\ \A c \in Callers :
           (\E k \in 1..Len(Append(queue, d)) : Append(queue, d)[k] = c)
             <=> c = d \/ \E k \in 1..Len(queue) : queue[k] = c
      /\ \A k, l \in 1..Len(Append(queue, d)) :
           Append(queue, d)[k] = Append(queue, d)[l] => k = l
  BY QueueLemma DEF TypeOK
<1>2. caller' \in [Callers -> Callings]
  BY DEF TypeOK, Callings
<1>3. \A c \in Callers :
        caller'[c] \in {"waiting", "leaving"} <=> c = d \/ caller[c] \in {"waiting", "leaving"}
  BY DEF TypeOK
<1>4. \A c \in Callers :
        caller[c] \in {"waiting", "leaving"} <=> \E k \in 1..Len(queue) : queue[k] = c
  BY DEF QueuedOnce
<1>5. \A c \in Callers :
        caller'[c] \in {"waiting", "leaving"} <=> \E k \in 1..Len(queue') : queue'[k] = c
  BY <1>1, <1>3, <1>4
<1>6. QueuedOnce'
  BY <1>1, <1>5 DEF QueuedOnce
<1>7. Append(queue, d) # <<>>
  BY DEF TypeOK
<1>8. caller'[d] = how /\ \A c \in Callers \ {d} : caller'[c] = caller[c]
  BY DEF TypeOK
<1> QED BY <1>1, <1>2, <1>6, <1>7, <1>8

-----------------------------------------------------------------------------
\* The ways the generator moves, whichever action moves it.
LEMMA FailStep ==
  ASSUME IInv, place # "closed", queue # <<>>,
         NEW kind \in Kinds \ {"none"}, NEW r \in BOOLEAN, Fail(kind, r),
         UNCHANGED <<text, aborted, got, sent>>,
         ending' \in Ending, ending' = "done" => sent = text
  PROVE  IInv'
<1>1. /\ place' = "closed" /\ frames' \in Seq(Frames) /\ queue' \in Seq(Callers)
      /\ caller' \in [Callers -> Callings]
      /\ Head(queue) \in Callers /\ caller'[Head(queue)] = "failed"
      /\ \A c \in Callers \ {Head(queue)} :
           \/ caller[c] = "waiting" /\ caller'[c] = "done"
           \/ caller[c] = "leaving" /\ caller'[c] = "left"
           \/ caller[c] \notin {"waiting", "leaving"} /\ caller'[c] = caller[c]
      /\ QueuedOnce'
  BY CloseLemma DEF IInv, Fail
<1>2. failure' \in [kind : Kinds, retryable : BOOLEAN] /\ failure' # None
  BY DEF Fail, None
<1>3. TypeOK'
  BY <1>1, <1>2 DEF IInv, TypeOK, Callings
<1>4. \A a \in Accessors : caller[a] \notin {"done", "answered", "failed"}
  BY DEF IInv, Judged
<1>5. \A a \in Accessors : caller'[a] # "answered"
  BY <1>1, <1>4 DEF Callers
<1>6. Judged'
  BY <1>1, <1>2, <1>5 DEF Judged
<1>7. Accounted'
  BY <1>1 DEF Accounted
<1> QED BY <1>1, <1>3, <1>6, <1>7 DEF IInv

LEMMA FinishStep ==
  ASSUME IInv, place # "closed", queue # <<>>, NEW how \in {"done", "left"}, Close(how),
         UNCHANGED <<text, failure, aborted, got, sent>>,
         ending' \in {"done", "abandoned"}, ending' = "done" => sent = text
  PROVE  IInv'
<1>1. /\ place' = "closed" /\ frames' \in Seq(Frames) /\ queue' \in Seq(Callers)
      /\ caller' \in [Callers -> Callings]
      /\ Head(queue) \in Callers /\ caller'[Head(queue)] = how
      /\ \A c \in Callers \ {Head(queue)} :
           \/ caller[c] = "waiting" /\ caller'[c] = "done"
           \/ caller[c] = "leaving" /\ caller'[c] = "left"
           \/ caller[c] \notin {"waiting", "leaving"} /\ caller'[c] = caller[c]
      /\ QueuedOnce'
  BY CloseLemma DEF IInv
<1>2. TypeOK'
  BY <1>1 DEF IInv, TypeOK, Callings, Ending, Frames, Errors
<1>3. \A a \in Accessors : caller[a] \notin {"done", "answered", "failed"}
  BY DEF IInv, Judged
<1>4. \A a \in Accessors : caller'[a] \notin {"answered", "failed"}
  BY <1>1, <1>3 DEF Callers
<1>5. Judged'
  BY <1>1, <1>4 DEF Judged
<1>6. Accounted'
  BY <1>1 DEF Accounted
<1> QED BY <1>1, <1>2, <1>5, <1>6 DEF IInv

LEMMA ReleaseStep ==
  ASSUME IInv, place # "closed", queue # <<>>, NEW why \in Ending \ {"none"}, Release(why),
         UNCHANGED <<aborted, got>>, sent' \in 0..MaxSent, why = "done" => sent' = text
  PROVE  IInv'
<1>1. /\ place' = "release" /\ ending' = why /\ frames' = <<>> /\ frames' \in Seq(Frames)
      /\ UNCHANGED <<text, failure, queue, caller>>
  BY DEF Release
<1>2. TypeOK'
  BY <1>1 DEF IInv, TypeOK
<1>3. QueuedOnce'
  BY <1>1 DEF IInv, QueuedOnce
<1>4. Judged'
  BY <1>1 DEF IInv, Judged
<1>5. Accounted'
  BY <1>1 DEF Accounted
<1> QED BY <1>2, <1>3, <1>4, <1>5 DEF IInv

LEMMA YieldStep ==
  ASSUME IInv, Asking, NEW rest \in Seq(Frames), Yield(rest), UNCHANGED <<aborted, got>>,
         place \in {"body", "tail"}, place' \in {"body", "tail"}, sent' \in 0..MaxSent,
         place' = "body" => ChunkLike(rest) /\ sent' = text + 1 + Deltas(rest),
         place' = "tail" => sent' = text + 1
  PROVE  IInv'
<1>1. /\ text' = text + 1 /\ frames' = rest /\ UNCHANGED <<failure, ending>>
      /\ Head(queue) \in Callers /\ caller[Head(queue)] = "waiting"
      /\ caller' \in [Callers -> Callings]
      /\ caller' = [caller EXCEPT ![Head(queue)] = "took"]
      /\ queue' \in Seq(Callers)
      /\ QueuedOnce'
  BY YieldLemma DEF IInv
<1>2. TypeOK'
  BY <1>1 DEF IInv, TypeOK, Callings
<1>3. \A a \in Accessors : caller[a] \notin {"done", "answered", "failed"}
  BY DEF IInv, Judged
<1>4. \A a \in Accessors : caller'[a] \notin {"done", "answered", "failed"}
  BY <1>1, <1>3 DEF Callers, IInv, TypeOK
<1>5. Judged'
  BY <1>1, <1>4 DEF IInv, Judged
<1>6. Accounted'
  BY <1>1 DEF IInv, Judged, Accounted
<1> QED BY <1>1, <1>2, <1>5, <1>6 DEF IInv

LEMMA InterpretStep ==
  ASSUME IInv, place = "body", Asking, UNCHANGED <<aborted, got>>,
         NEW fs \in Seq(Frames), ChunkLike(fs), Interpret(fs),
         sent' = text + Deltas(fs), sent' \in 0..MaxSent
  PROVE  IInv'
<1>1. CASE fs = <<>> /\ frames' = <<>> /\ UNCHANGED <<place, ending, text, failure, queue, caller>>
  <2>1. Deltas(fs) = 0 /\ Deltas(frames') = 0 /\ ChunkLike(frames') /\ frames' \in Seq(Frames)
    BY <1>1 DEF Deltas, ChunkLike
  <2>2. TypeOK'
    BY <1>1, <2>1 DEF IInv, TypeOK
  <2>3. QueuedOnce'
    BY <1>1 DEF IInv, QueuedOnce
  <2>4. Judged'
    BY <1>1 DEF IInv, Judged
  <2>5. sent' = text' + Deltas(frames')
    BY <1>1, <2>1
  <2>6. place' = "body" /\ ending' = "none"
    BY <1>1 DEF IInv, Judged
  <2>7. Accounted'
    BY <2>1, <2>5, <2>6 DEF Accounted
  <2> QED BY <2>2, <2>3, <2>4, <2>7 DEF IInv
<1>2. CASE fs # <<>> /\ Head(fs) = "delta" /\ Yield(Tail(fs)) /\ UNCHANGED place
  <2>1. ChunkLike(Tail(fs)) /\ Deltas(fs) = 1 + Deltas(Tail(fs)) /\ Tail(fs) \in Seq(Frames)
    BY <1>2, ChunkLemma
  <2>2. Deltas(Tail(fs)) \in Nat /\ text \in Nat
    BY <2>1, ChunkLemma DEF IInv, TypeOK
  <2>3. sent' = text + 1 + Deltas(Tail(fs))
    BY <2>1, <2>2
  <2> QED BY <1>2, <2>1, <2>3, YieldStep
<1>3. CASE fs # <<>> /\ Head(fs) # "delta" /\ Release(Head(fs))
  <2>1. Deltas(fs) = 0 /\ Head(fs) \in Frames \ {"delta"}
    BY <1>3, ChunkLemma
  <2>2. Head(fs) \in Ending \ {"none"} /\ sent' = text
    BY <2>1 DEF Ending, Frames, Errors, IInv, TypeOK
  <2>3. queue # <<>>
    BY DEF Asking
  <2> QED BY <1>3, <2>2, <2>3, ReleaseStep
<1> QED BY <1>1, <1>2, <1>3 DEF Interpret

-----------------------------------------------------------------------------
\* The inductive invariant.
LEMMA InitInv == Init => IInv
<1>1. SUFFICES ASSUME Init PROVE IInv
  OBVIOUS
<1>2. TypeOK
  <2>1. frames \in Seq(Frames) /\ queue \in Seq(Callers)
    BY <1>1 DEF Init
  <2>2. failure \in [kind : Kinds, retryable : BOOLEAN] /\ ending \in Ending
    BY <1>1 DEF Init, None, Kinds, Ending
  <2>3. caller \in [Callers -> Callings] /\ got \in [Accessors -> Nat]
    BY <1>1 DEF Init, Callings
  <2>4. text \in Nat /\ sent \in 0..MaxSent
    BY <1>1, MaxSentAssumption DEF Init
  <2>5. place \in {"body", "tail", "release", "closed"} /\ aborted \in BOOLEAN
    BY <1>1 DEF Init
  <2> QED BY <2>1, <2>2, <2>3, <2>4, <2>5 DEF TypeOK, Callings
<1>3. QueuedOnce
  BY <1>1 DEF Init, QueuedOnce
<1>4. Judged
  BY <1>1 DEF Init, Judged, Callers
<1>5. Accounted
  BY <1>1 DEF Init, Accounted, ChunkLike, Deltas
<1> QED BY <1>2, <1>3, <1>4, <1>5 DEF IInv

LEMMA NextInv == IInv /\ [Next]_vars => IInv'
<1> SUFFICES ASSUME IInv, [Next]_vars PROVE IInv'
  OBVIOUS
<1> USE DEF IInv
<1>1. CASE NetworkChunk
  <2>1. PICK fs \in Chunks :
          sent' = sent + Deltas(fs) /\ IF aborted THEN Release("aborted") ELSE Interpret(fs)
    BY <1>1 DEF NetworkChunk
  <2>2. fs \in Seq(Frames) /\ ChunkLike(fs) /\ sent + Deltas(fs) <= MaxSent
    BY ChunksLemma
  <2>3. Deltas(fs) \in Nat /\ sent \in Nat /\ text \in Nat
    BY <2>2, ChunkLemma, MaxSentAssumption DEF TypeOK
  <2>4. sent' \in 0..MaxSent
    BY <2>1, <2>2, <2>3, MaxSentAssumption
  <2>5. sent = text
    BY <1>1, <2>3 DEF NetworkChunk, Accounted, Deltas
  <2>6. place = "body" /\ Asking /\ queue # <<>> /\ UNCHANGED <<aborted, got>>
    BY <1>1 DEF NetworkChunk, Asking
  <2>7. CASE aborted
    BY <2>1, <2>4, <2>6, <2>7, ReleaseStep DEF Ending
  <2>8. CASE ~aborted
    BY <2>1, <2>2, <2>4, <2>5, <2>6, <2>8, InterpretStep
  <2> QED BY <2>7, <2>8
<1>2. CASE Resume
  <2>1. place = "body" /\ Asking /\ Interpret(frames) /\ UNCHANGED <<aborted, got, sent>>
    BY <1>2 DEF Resume
  <2>2. frames \in Seq(Frames) /\ ChunkLike(frames) /\ sent = text + Deltas(frames)
    BY <2>1 DEF TypeOK, Accounted
  <2>3. sent' = text + Deltas(frames) /\ sent' \in 0..MaxSent
    BY <2>1, <2>2 DEF TypeOK
  <2> QED BY <2>1, <2>2, <2>3, InterpretStep
<1>3. CASE BodyFails
  <2>1. /\ place = "body" /\ queue # <<>> /\ UNCHANGED <<ending, text, aborted, got, sent>>
        /\ \/ Fail("aborted", FALSE) \/ Fail("transport", TRUE)
    BY <1>3 DEF BodyFails, FailRaw, Asking
  <2>2. ending' \in Ending /\ ending' # "done"
    BY <2>1 DEF TypeOK, Judged
  <2> QED BY <2>1, <2>2, FailStep DEF Kinds
<1>4. CASE BodyEnds
  <2>1. /\ place = "body" /\ frames = <<>> /\ Asking /\ queue # <<>>
        /\ UNCHANGED <<aborted, got>>
    BY <1>4 DEF BodyEnds, Asking
  <2>2. sent = text /\ sent \in Nat /\ text \in Nat
    BY <2>1, MaxSentAssumption DEF Accounted, Deltas, TypeOK
  <2>3. CASE Cut /\ UNCHANGED <<ending, text, sent>>
    <3>1. Fail("aborted", FALSE) \/ Fail("truncated", FALSE)
      BY <2>3 DEF Cut
    <3>2. ending' \in Ending /\ ending' # "done"
      BY <2>1, <2>3 DEF TypeOK, Judged
    <3> QED BY <2>1, <2>3, <3>1, <3>2, FailStep DEF Kinds
  <2>4. CASE sent < MaxSent /\ sent' = sent + 1 /\ Yield(<<>>) /\ place' = "tail"
    <3>1. <<>> \in Seq(Frames) /\ sent' \in 0..MaxSent /\ sent' = text + 1
      BY <2>2, <2>4, MaxSentAssumption
    <3> QED BY <2>1, <2>4, <3>1, YieldStep
  <2>5. CASE ending' = "done" /\ Close("done") /\ UNCHANGED <<text, failure, sent>>
    BY <2>1, <2>2, <2>5, FinishStep
  <2>6. ASSUME NEW e \in Errors, ending' = e, Fail("frame", e = "overloaded"),
               UNCHANGED <<text, sent>>
        PROVE  IInv'
    <3>1. ending' \in Ending /\ ending' # "done"
      BY <2>6 DEF Ending, Frames, Errors
    <3> QED BY <2>1, <2>6, <3>1, FailStep DEF Kinds
  <2> QED BY <1>4, <2>3, <2>4, <2>5, <2>6 DEF BodyEnds
<1>5. CASE ResumeTail
  <2>1. /\ place = "tail" /\ queue # <<>> /\ UNCHANGED <<ending, text, aborted, got, sent>>
        /\ \/ Fail("aborted", FALSE) \/ Fail("truncated", FALSE)
    BY <1>5 DEF ResumeTail, Cut, Asking
  <2>2. ending' \in Ending /\ ending' # "done"
    BY <2>1 DEF TypeOK, Judged
  <2> QED BY <2>1, <2>2, FailStep DEF Kinds
<1>6. CASE ServeReturn
  <2>1. /\ place \in {"body", "tail"} /\ queue # <<>> /\ UNCHANGED <<aborted, got, sent>>
        /\ \/ Release("abandoned")
           \/ Close("left") /\ ending' = "abandoned" /\ UNCHANGED <<text, failure>>
    BY <1>6 DEF ServeReturn
  <2>2. "abandoned" \in Ending \ {"none"} /\ sent' \in 0..MaxSent
    BY <2>1 DEF Ending, TypeOK
  <2> QED BY <2>1, <2>2, ReleaseStep, FinishStep
<1>7. CASE Released
  <2>1. /\ place = "release" /\ queue # <<>> /\ UNCHANGED <<ending, text, aborted, got, sent>>
    BY <1>7 DEF Released, Judged
  <2>2. ending' \in Ending /\ (ending' = "done" => sent = text)
    BY <2>1 DEF TypeOK, Accounted
  <2>3. \/ Fail("aborted", FALSE) \/ Fail("transport", TRUE)
        \/ \E r \in BOOLEAN : Fail("frame", r)
        \/ /\ ending \in {"done", "abandoned"} /\ UNCHANGED failure
           /\ Close("done") \/ Close("left")
    BY <1>7 DEF Released, FailRaw
  <2> QED BY <2>1, <2>2, <2>3, FailStep, FinishStep DEF Kinds
<1>8. CASE Abort
  <2>1. /\ UNCHANGED <<place, frames, ending, text, failure, queue, caller, got, sent>>
        /\ aborted' \in BOOLEAN
    BY <1>8 DEF Abort
  <2>2. TypeOK'
    BY <2>1 DEF TypeOK
  <2>3. QueuedOnce'
    BY <2>1 DEF QueuedOnce
  <2>4. Judged' /\ Accounted'
    BY <2>1 DEF Judged, Accounted
  <2> QED BY <2>2, <2>3, <2>4
<1>9. ASSUME NEW c \in Callers, Ask(c) PROVE IInv'
  <2>1. /\ UNCHANGED <<place, frames, ending, text, failure, aborted, got, sent>>
        /\ caller[c] \in {"idle", "took"}
    BY <1>9 DEF Ask
  <2>2. /\ caller' \in [Callers -> Callings] /\ queue' \in Seq(Callers)
        /\ \A d \in Callers \ {c} : caller'[d] = caller[d]
        /\ caller'[c] = "waiting" \/ (caller'[c] = "done" /\ place = "closed")
        /\ queue # <<>> => queue' # <<>>
        /\ QueuedOnce'
    <3>1. CASE place = "closed"
      <4>1. caller' = [caller EXCEPT ![c] = "done"] /\ queue' = queue
        BY <1>9, <3>1 DEF Ask
      <4>2. /\ caller' \in [Callers -> Callings] /\ caller'[c] = "done"
            /\ \A d \in Callers \ {c} : caller'[d] = caller[d]
        BY <4>1 DEF TypeOK, Callings
      <4>3. QueuedOnce'
        BY <2>1, <4>1, <4>2 DEF QueuedOnce
      <4> QED BY <3>1, <4>1, <4>2, <4>3 DEF TypeOK
    <3>2. CASE place # "closed"
      <4>1. caller' = [caller EXCEPT ![c] = "waiting"] /\ queue' = Append(queue, c)
        BY <1>9, <3>2 DEF Ask
      <4>2. caller[c] \notin {"waiting", "leaving"}
        BY <2>1
      <4> QED BY <4>1, <4>2, JoinLemma
    <3> QED BY <3>1, <3>2
  <2>3. TypeOK'
    BY <2>1, <2>2 DEF TypeOK, Callings
  <2>4. Judged'
    BY <2>1, <2>2 DEF Judged, Callers
  <2>5. Accounted'
    BY <2>1 DEF Accounted
  <2> QED BY <2>2, <2>3, <2>4, <2>5
<1>10. ASSUME NEW l \in Loops, Break(l) PROVE IInv'
  <2>0. l \in Callers /\ l \notin Accessors
    BY CallersAssumption DEF Callers
  <2>1. /\ UNCHANGED <<place, frames, ending, text, failure, aborted, got, sent>>
        /\ caller[l] = "took"
    BY <1>10 DEF Break
  <2>2. /\ caller' \in [Callers -> Callings] /\ queue' \in Seq(Callers)
        /\ \A d \in Callers \ {l} : caller'[d] = caller[d]
        /\ queue # <<>> => queue' # <<>>
        /\ QueuedOnce'
    <3>1. CASE place = "closed"
      <4>1. caller' = [caller EXCEPT ![l] = "left"] /\ queue' = queue
        BY <1>10, <3>1 DEF Break
      <4>2. /\ caller' \in [Callers -> Callings] /\ caller'[l] = "left"
            /\ \A d \in Callers \ {l} : caller'[d] = caller[d]
        BY <2>0, <4>1 DEF TypeOK, Callings
      <4>3. QueuedOnce'
        BY <2>1, <4>1, <4>2 DEF QueuedOnce
      <4> QED BY <4>1, <4>2, <4>3 DEF TypeOK
    <3>2. CASE place # "closed"
      BY <1>10, <2>0, <2>1, <3>2, JoinLemma DEF Break
    <3> QED BY <3>1, <3>2
  <2>3. TypeOK'
    BY <2>1, <2>2 DEF TypeOK, Callings
  <2>4. Judged'
    BY <2>0, <2>1, <2>2 DEF Judged, Callers
  <2>5. Accounted'
    BY <2>1 DEF Accounted
  <2> QED BY <2>2, <2>3, <2>4, <2>5
<1>11. ASSUME NEW a \in Accessors, Answer(a) PROVE IInv'
  <2>1. /\ UNCHANGED <<place, frames, ending, text, failure, aborted, queue, sent>>
        /\ caller[a] = "done" /\ a \in Callers /\ place = "closed"
    BY <1>11 DEF Answer, Callers, Judged
  <2>2. \/ /\ failure # None /\ got' = got
           /\ caller' = [caller EXCEPT ![a] = "failed"]
        \/ /\ failure = None /\ got' = [got EXCEPT ![a] = text]
           /\ caller' = [caller EXCEPT ![a] = "answered"]
    BY <1>11 DEF Answer
  <2>3. /\ caller' \in [Callers -> Callings] /\ got' \in [Accessors -> Nat]
        /\ \A d \in Callers \ {a} : caller'[d] = caller[d]
        /\ \A b \in Accessors \ {a} : got'[b] = got[b]
        /\ \/ caller'[a] = "failed" /\ failure # None
           \/ caller'[a] = "answered" /\ failure = None /\ got'[a] = text
    <3>1. /\ caller \in [Callers -> Callings] /\ got \in [Accessors -> Nat] /\ text \in Nat
          /\ {"failed", "answered"} \subseteq Callings
      BY DEF TypeOK, Callings
    <3>2. CASE failure # None
      BY <2>1, <2>2, <3>1, <3>2
    <3>3. CASE failure = None
      BY <2>1, <2>2, <3>1, <3>3
    <3> QED BY <3>2, <3>3
  <2>4. TypeOK'
    BY <2>1, <2>3 DEF TypeOK, Callings
  <2>5. QueuedOnce'
    BY <2>1, <2>3 DEF QueuedOnce
  <2>6. Judged'
    BY <2>1, <2>3 DEF Judged, Callers
  <2>7. Accounted'
    BY <2>1 DEF Accounted
  <2> QED BY <2>4, <2>5, <2>6, <2>7
<1>12. CASE UNCHANGED vars
  BY <1>12 DEF vars, TypeOK, QueuedOnce, Judged, Accounted
<1> QED
  BY <1>1, <1>2, <1>3, <1>4, <1>5, <1>6, <1>7, <1>8, <1>9, <1>10, <1>11, <1>12
     DEF Next, Reader

LEMMA InvHolds == Spec => []IInv
BY InitInv, NextInv, PTL DEF Spec

\* The types of the shared generator, whatever its callers and the network do.
THEOREM StreamTypeOK == Spec => []TypeOK
BY InvHolds, PTL DEF IInv

\* The FIFO of the generator holds each waiting caller once, in every state: no
\* request is answered twice and none is dropped, aborts and failures included.
THEOREM StreamQueuedOnce == Spec => []QueuedOnce
BY InvHolds, PTL DEF IInv

\* text() and its siblings never pass a partial answer off as a whole one.
THEOREM StreamAnswersAreWhole == Spec => []AnswersAreWhole
<1>1. IInv => AnswersAreWhole
  BY DEF IInv, Judged, Accounted, AnswersAreWhole
<1> QED BY <1>1, InvHolds, PTL

\* What fails after an abort is never reported as worth retrying, by any path
\* through the catch of readFrames.
THEOREM StreamAbortIsFinal == Spec => AbortIsFinal
<1>1. [Next]_vars => (aborted /\ failure' # failure => ~failure'.retryable)
  <2>1. SUFFICES ASSUME [Next]_vars, aborted, failure' # failure PROVE ~failure'.retryable
    OBVIOUS
  <2>2. \A kind \in Kinds, r \in BOOLEAN : Fail(kind, r) => ~failure'.retryable
    <3>1. SUFFICES ASSUME NEW kind \in Kinds, NEW r \in BOOLEAN, Fail(kind, r)
                   PROVE  ~failure'.retryable
      OBVIOUS
    <3>2. failure' = [kind |-> kind, retryable |-> FALSE]
      <4>1. (r /\ ~aborted) = FALSE
        BY <2>1
      <4> QED BY <3>1, <4>1 DEF Fail
    <3> QED BY <3>2
  <2>3. \E kind \in Kinds, r \in BOOLEAN : Fail(kind, r)
    <3>1. CASE NetworkChunk
      BY <2>1, <3>1 DEF NetworkChunk, Interpret, Release, Yield
    <3>2. CASE Resume
      BY <2>1, <3>2 DEF Resume, Interpret, Release, Yield
    <3>3. CASE BodyFails
      BY <2>1, <3>3 DEF BodyFails, FailRaw, Kinds
    <3>4. CASE BodyEnds
      BY <2>1, <3>4 DEF BodyEnds, Cut, Yield, Kinds
    <3>5. CASE ResumeTail
      BY <2>1, <3>5 DEF ResumeTail, Cut, Kinds
    <3>6. CASE ServeReturn
      BY <2>1, <3>6 DEF ServeReturn, Release
    <3>7. CASE Released
      BY <2>1, <3>7 DEF Released, FailRaw, Kinds
    <3>8. CASE ~Reader
      BY <2>1, <3>8 DEF Next, Abort, Ask, Break, Answer, vars
    <3> QED BY <3>1, <3>2, <3>3, <3>4, <3>5, <3>6, <3>7, <3>8 DEF Reader
  <2> QED BY <2>2, <2>3
<1> QED BY <1>1, PTL DEF Spec, AbortIsFinal

\* After an abort no further network chunk reaches the answer.
THEOREM StreamAbortStopsTheAnswer == Spec => AbortStopsTheAnswer
<1>1. [Next]_vars => (aborted /\ text' # text => frames # <<>> \/ place' = "tail")
  <2>1. SUFFICES ASSUME [Next]_vars, aborted, text' # text
                 PROVE  frames # <<>> \/ place' = "tail"
    OBVIOUS
  <2>2. CASE NetworkChunk
    BY <2>1, <2>2 DEF NetworkChunk, Release
  <2>3. CASE Resume
    BY <2>3 DEF Resume
  <2>4. CASE BodyEnds
    BY <2>1, <2>4 DEF BodyEnds
  <2>5. CASE BodyFails \/ ResumeTail \/ ServeReturn \/ Released
    BY <2>1, <2>5 DEF BodyFails, ResumeTail, ServeReturn, Released, Release
  <2>6. CASE ~Reader
    BY <2>1, <2>6 DEF Next, Abort, Ask, Break, Answer, vars
  <2> QED BY <2>2, <2>3, <2>4, <2>5, <2>6 DEF Reader
<1> QED BY <1>1, PTL DEF Spec, AbortStopsTheAnswer

-----------------------------------------------------------------------------
\* The refinement: while the generator is open the verdict is, and no accessor
\* has been told anything.
LEMMA StillOpen ==
  ASSUME IInv, place # "closed"
  PROVE  Verdict = "open" /\ Told = [a \in Accessors |-> "nothing"]
BY DEF IInv, Judged, Verdict, Told

\* Closing the generator is the one Judge of the abstract answer.
LEMMA ClosingJudges ==
  ASSUME IInv, place # "closed", queue # <<>>, NEW how \in {"done", "left", "failed"},
         Close(how), UNCHANGED <<text, got>>,
         how = "failed" => failure' # None,
         how # "failed" => failure' = None /\ ending' \in {"done", "abandoned"}
  PROVE  Promise!Next
<1>1. /\ place' = "closed" /\ Head(queue) \in Callers /\ caller'[Head(queue)] = how
      /\ \A c \in Callers \ {Head(queue)} :
           \/ caller[c] = "waiting" /\ caller'[c] = "done"
           \/ caller[c] = "leaving" /\ caller'[c] = "left"
           \/ caller[c] \notin {"waiting", "leaving"} /\ caller'[c] = caller[c]
  BY CloseLemma DEF IInv
<1>2. \A a \in Accessors : caller[a] \notin {"answered", "failed"}
  BY DEF IInv, Judged
<1> DEFINE heard == IF how = "failed" THEN {Head(queue)} \cap Accessors ELSE {}
<1>3. heard \subseteq Accessors /\ \A a, b \in heard : a = b
  OBVIOUS
<1>4. \A a \in Accessors : (caller'[a] = "failed" <=> a \in heard) /\ caller'[a] # "answered"
  BY <1>1, <1>2 DEF Callers
<1>5. Told' = [a \in Accessors |-> IF a \in heard THEN "failed" ELSE "nothing"]
  BY <1>4 DEF Told
<1>6. Verdict' \in {"whole", "abandoned", "failed"} /\ (how = "failed" => Verdict' = "failed")
  BY <1>1 DEF Verdict
<1>7. Verdict = "open" /\ Told = [a \in Accessors |-> "nothing"]
  BY StillOpen
<1>8. heard # {} => Verdict' = "failed" /\ \A a \in heard : Told[a] = "nothing"
  BY <1>3, <1>6, <1>7
<1>9. Told' = [a \in Accessors |-> IF a \in heard THEN "failed" ELSE Told[a]]
  BY <1>5, <1>7
<1> HIDE DEF heard
<1>10. Promise!Judge(Verdict', heard)
  BY <1>3, <1>7, <1>8, <1>9 DEF Promise!Judge
<1> QED BY <1>3, <1>6, <1>10 DEF Promise!Next

LEMMA GrowingGrows ==
  ASSUME IInv, IInv', Asking, NEW rest, Yield(rest), UNCHANGED got, place # "closed", place' # "closed"
  PROVE  Promise!Next
<1>1. text' = text + 1
  BY DEF Yield
<1>2. Verdict = "open" /\ Verdict' = "open" /\ Told' = Told
  BY StillOpen DEF IInv, Judged, Verdict, Told
<1> QED BY <1>1, <1>2 DEF Promise!Next, Promise!Grow

LEMMA StillStutters ==
  ASSUME IInv, IInv', place # "closed", place' # "closed", UNCHANGED <<text, got>>
  PROVE  UNCHANGED Promise!vars
<1>1. Verdict = "open" /\ Verdict' = "open" /\ Told' = Told
  BY StillOpen DEF IInv, Judged, Verdict, Told
<1> QED BY <1>1 DEF Promise!vars

LEMMA StepImplements ==
  ASSUME IInv, IInv', [Next]_vars
  PROVE  [Promise!Next]_(Promise!vars)
<1>1. ASSUME NEW fs, Interpret(fs), place = "body", Asking, UNCHANGED got
      PROVE  [Promise!Next]_(Promise!vars)
  BY <1>1, GrowingGrows, StillStutters DEF Interpret, Release
<1>2. CASE NetworkChunk
  <2>1. place = "body" /\ Asking /\ UNCHANGED got
    BY <1>2 DEF NetworkChunk
  <2>2. Release("aborted") \/ \E fs \in Chunks : Interpret(fs)
    BY <1>2 DEF NetworkChunk
  <2> QED BY <1>1, <2>1, <2>2, StillStutters DEF Release
<1>3. CASE Resume
  BY <1>1, <1>3 DEF Resume
<1>4. ASSUME place # "closed", queue # <<>>, UNCHANGED <<text, got>>,
             NEW kind \in Kinds \ {"none"}, NEW r \in BOOLEAN, Fail(kind, r)
      PROVE  [Promise!Next]_(Promise!vars)
  <2>1. Close("failed") /\ failure' # None
    BY <1>4 DEF Fail, None
  <2> QED BY <1>4, <2>1, ClosingJudges
<1>5. CASE BodyFails
  BY <1>4, <1>5 DEF BodyFails, FailRaw, Asking, Kinds
<1>6. CASE BodyEnds
  <2>1. place = "body" /\ Asking /\ queue # <<>> /\ UNCHANGED got /\ failure = None
    BY <1>6 DEF BodyEnds, Asking, IInv, Judged
  <2>2. CASE Cut /\ UNCHANGED <<ending, text, sent>>
    BY <1>4, <2>1, <2>2 DEF Cut, Kinds
  <2>3. CASE Yield(<<>>) /\ place' = "tail"
    BY <2>1, <2>3, GrowingGrows
  <2>4. CASE ending' = "done" /\ Close("done") /\ UNCHANGED <<text, failure, sent>>
    BY <2>1, <2>4, ClosingJudges
  <2>5. ASSUME NEW e \in Errors, Fail("frame", e = "overloaded"), UNCHANGED text
        PROVE  [Promise!Next]_(Promise!vars)
    BY <1>4, <2>1, <2>5 DEF Kinds
  <2> QED BY <1>6, <2>2, <2>3, <2>4, <2>5 DEF BodyEnds
<1>7. CASE ResumeTail
  BY <1>4, <1>7 DEF ResumeTail, Cut, Asking, Kinds
<1>8. CASE ServeReturn
  <2>1. place \in {"body", "tail"} /\ queue # <<>> /\ UNCHANGED got /\ failure = None
    BY <1>8 DEF ServeReturn, IInv, Judged
  <2>2. CASE Release("abandoned")
    BY <2>1, <2>2, StillStutters DEF Release
  <2>3. CASE Close("left") /\ ending' = "abandoned" /\ UNCHANGED <<text, failure>>
    BY <2>1, <2>3, ClosingJudges
  <2> QED BY <1>8, <2>2, <2>3 DEF ServeReturn
<1>9. CASE Released
  <2>1. /\ place = "release" /\ queue # <<>> /\ UNCHANGED <<ending, text, got>>
        /\ failure = None
    BY <1>9 DEF Released, IInv, Judged
  <2>2. \/ \E kind \in Kinds \ {"none"}, r \in BOOLEAN : Fail(kind, r)
        \/ /\ ending \in {"done", "abandoned"} /\ UNCHANGED failure
           /\ Close("done") \/ Close("left")
    BY <1>9 DEF Released, FailRaw, Kinds
  <2>3. CASE \E kind \in Kinds \ {"none"}, r \in BOOLEAN : Fail(kind, r)
    BY <1>4, <2>1, <2>3
  <2>4. CASE /\ ending \in {"done", "abandoned"} /\ UNCHANGED failure
             /\ Close("done") \/ Close("left")
    BY <2>1, <2>4, ClosingJudges
  <2> QED BY <2>2, <2>3, <2>4
<1>10. ASSUME UNCHANGED <<place, ending, text, failure, got>>,
              \A a \in Accessors : Told'[a] = Told[a]
       PROVE  UNCHANGED Promise!vars
  BY <1>10 DEF Promise!vars, Verdict, Told
<1>11. CASE Abort \/ UNCHANGED vars
  BY <1>11, <1>10 DEF Abort, vars, Told
<1>12. ASSUME NEW c \in Callers, Ask(c) PROVE [Promise!Next]_(Promise!vars)
  <2>1. /\ caller[c] \notin {"answered", "failed"} /\ caller'[c] \notin {"answered", "failed"}
        /\ \A d \in Callers \ {c} : caller'[d] = caller[d]
    BY <1>12 DEF Ask, IInv, TypeOK
  <2>2. \A a \in Accessors : Told'[a] = Told[a]
    BY <2>1 DEF Told, Callers
  <2> QED BY <1>10, <1>12, <2>2 DEF Ask
<1>13. ASSUME NEW l \in Loops, Break(l) PROVE [Promise!Next]_(Promise!vars)
  <2>1. \A a \in Accessors : caller'[a] = caller[a]
    BY <1>13, CallersAssumption DEF Break, IInv, TypeOK, Callers
  <2>2. \A a \in Accessors : Told'[a] = Told[a]
    BY <2>1 DEF Told
  <2> QED BY <1>10, <1>13, <2>2 DEF Break
<1>14. ASSUME NEW a \in Accessors, Answer(a) PROVE [Promise!Next]_(Promise!vars)
  <2>1. /\ UNCHANGED <<place, ending, text, failure>> /\ caller[a] = "done"
        /\ place = "closed" /\ a \in Callers
    BY <1>14 DEF Answer, IInv, Judged, Callers
  <2>2. Verdict' = Verdict /\ Verdict # "open" /\ Told[a] = "nothing"
    BY <2>1 DEF Verdict, Told
  <2>3. CASE failure # None
    <3>1. Told' = [Told EXCEPT ![a] = "failed"] /\ UNCHANGED got
      BY <1>14, <2>1, <2>3 DEF Answer, Told, IInv, TypeOK, Callers
    <3>2. Verdict = "failed"
      BY <2>1, <2>3 DEF Verdict
    <3> QED BY <2>1, <2>2, <3>1, <3>2 DEF Promise!Next, Promise!Tell
  <2>4. CASE failure = None
    <3>1. Told' = [Told EXCEPT ![a] = "answered"] /\ got' = [got EXCEPT ![a] = text]
      BY <1>14, <2>1, <2>4 DEF Answer, Told, IInv, TypeOK, Callers
    <3>2. Verdict # "failed"
      BY <2>1, <2>4 DEF Verdict
    <3> QED BY <2>1, <2>2, <3>1, <3>2 DEF Promise!Next, Promise!Tell
  <2> QED BY <2>3, <2>4
<1> QED
  BY <1>2, <1>3, <1>5, <1>6, <1>7, <1>8, <1>9, <1>11, <1>12, <1>13, <1>14 DEF Next, Reader

\* The reader implements the abstract answer: one verdict over one text, told to
\* every accessor alike, whatever the network, the signal and the loops do.
THEOREM StreamImplementsAnswer == Spec => ImplementsAnswer
<1>1. Init => Promise!Init
  BY DEF Init, Promise!Init, Verdict, Told, Callers
<1> QED BY <1>1, InvHolds, StepImplements, PTL DEF Spec, ImplementsAnswer, Promise!Spec
=============================================================================
