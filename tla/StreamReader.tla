---------------------------- MODULE StreamReader ----------------------------
(***************************************************************************)
(* One StreamResult of sdks/js/src/stream.ts (streamChat, readFrames).     *)
(*                                                                         *)
(* The body of the response is single-use, so every `for await` over       *)
(* `chunks` (Loops) and every text(), usage(), finishReason() or           *)
(* toolCalls() (Accessors, which drain what is left) share ONE async       *)
(* generator.  Its requests form a FIFO; it runs for the request at the    *)
(* head, and a request made after it closed is answered "done" at once.    *)
(*                                                                         *)
(* A frame that carries nothing (a comment, a keep-alive, JSON that is no  *)
(* chunk) is skipped in the step that reads it and is left out of the      *)
(* data.  What separates the others is their verdict: a delta of the text, *)
(* the terminator, an in-band error that cannot ("refused") or can         *)
(* ("overloaded") be retried.                                              *)
(***************************************************************************)
EXTENDS Naturals, Sequences, SequencesExt

CONSTANTS
  Loops,         \* the `for await` statements over chunks
  Accessors,     \* the calls of text() and its siblings
  MaxSent,       \* bound: deltas the gateway sends
  MaxChunk       \* bound: frames in one chunk of the network

ASSUME CallersAssumption  == Loops \cap Accessors = {}
ASSUME MaxSentAssumption  == MaxSent \in Nat
ASSUME MaxChunkAssumption == MaxChunk \in Nat

Callers == Loops \cup Accessors
Errors  == {"refused", "overloaded"}
Frames  == {"delta", "done"} \cup Errors
Kinds   == {"none", "frame", "aborted", "truncated", "transport"}
Ending  == {"none", "aborted"} \cup (Frames \ {"delta"}) \cup {"abandoned"}

VARIABLES
  place,         \* the generator: "body", "tail", "release" (of the body), "closed"
  frames,        \* what is left of the last network chunk
  ending,        \* why the generator left the body early
  text,          \* state.text, in deltas
  failure,       \* state.failure: its kind, and what isRetryable says of it
  aborted,       \* signal.aborted
  queue,         \* the requests of the generator, oldest first
  caller,        \* "idle", "waiting" (next), "leaving" (return), "took", "done",
                 \* "left", "failed", "answered"
  got,           \* the text an accessor answered with
  sent           \* history: the deltas the gateway sent before its terminator

vars == <<place, frames, ending, text, failure, aborted, queue, caller, got, sent>>

None == [kind |-> "none", retryable |-> FALSE]

\* A chunk of the network: nothing follows a terminator or an error.
ChunkLike(fs) == \A k \in 1..Len(fs) : fs[k] # "delta" => k = Len(fs)

Deltas(fs) == IF fs = <<>> \/ fs[Len(fs)] = "delta" THEN Len(fs) ELSE Len(fs) - 1

Chunks == { fs \in BoundedSeq(Frames, MaxChunk) :
              ChunkLike(fs) /\ sent + Deltas(fs) <= MaxSent }

Asking == queue # <<>> /\ caller[Head(queue)] = "waiting"

Init ==
  /\ place = "body" /\ frames = <<>> /\ ending = "none"
  /\ text = 0 /\ failure = None /\ aborted = FALSE
  /\ queue = <<>> /\ caller = [c \in Callers |-> "idle"]
  /\ got = [a \in Accessors |-> 0] /\ sent = 0

-----------------------------------------------------------------------------
\* Mutant of Close: only the request the generator was running for is settled.
ClosesForOne(how) ==
  /\ place' = "closed" /\ queue' = <<>> /\ frames' = <<>>
  /\ caller' = [caller EXCEPT ![Head(queue)] = how]

\* How the generator ends: the request at the head settles as `how`, the ones
\* behind it find it closed.
Close(how) ==
  /\ place' = "closed" /\ queue' = <<>> /\ frames' = <<>>
  /\ caller' = [c \in Callers |->
                  IF c = Head(queue) THEN how
                  ELSE IF caller[c] = "waiting" THEN "done"
                  ELSE IF caller[c] = "leaving" THEN "left" ELSE caller[c]]

\* Mutant of Fail: the error of a frame keeps its retryability after an abort.
FailsAsItWas(kind, retryable) ==
  /\ failure' = [kind |-> kind, retryable |-> retryable]
  /\ Close("failed")

\* Mutant of Fail: the failure is thrown and not kept.
FailsForgetfully(kind, retryable) ==
  /\ failure' = None
  /\ Close("failed")

\* The catch of readFrames.  After an abort nothing is retryable, whatever failed.
Fail(kind, retryable) ==
  /\ failure' = [kind      |-> kind,
                 retryable |-> retryable /\ ~aborted]
  /\ Close("failed")

\* An error out of the body: a cancellation if the signal or its name says so.
FailRaw(abortNamed) ==
  IF aborted \/ abortNamed THEN Fail("aborted", FALSE) ELSE Fail("transport", TRUE)

\* The body ended and the terminator was not seen.
Cut == IF aborted THEN Fail("aborted", FALSE) ELSE Fail("truncated", FALSE)

\* `for await` is left early and releases the body.
Release(why) ==
  /\ place' = "release" /\ ending' = why /\ frames' = <<>>
  /\ UNCHANGED <<text, failure, queue, caller>>

\* The next delta goes to the request at the head, and the generator suspends.
Yield(rest) ==
  /\ text' = text + 1 /\ frames' = rest
  /\ caller' = [caller EXCEPT ![Head(queue)] = "took"] /\ queue' = Tail(queue)
  /\ UNCHANGED <<failure, ending>>

\* The inner loop of readFrames over the events of one network chunk.
Interpret(fs) ==
  \/ fs = <<>> /\ frames' = <<>> /\ UNCHANGED <<place, ending, text, failure, queue, caller>>
  \/ fs # <<>> /\ Head(fs) = "delta" /\ Yield(Tail(fs)) /\ UNCHANGED place
  \/ fs # <<>> /\ Head(fs) # "delta" /\ Release(Head(fs))

-----------------------------------------------------------------------------
\* The reader.

\* Mutant of NetworkChunk: the signal is not looked at between chunks.
ReadsOnAfterAbort ==
  /\ place = "body" /\ frames = <<>> /\ Asking
  /\ \E fs \in Chunks : sent' = sent + Deltas(fs) /\ Interpret(fs)
  /\ UNCHANGED <<aborted, got>>

NetworkChunk ==
  /\ place = "body" /\ frames = <<>> /\ Asking
  /\ \E fs \in Chunks :
       /\ sent' = sent + Deltas(fs)
       /\ IF aborted THEN Release("aborted") ELSE Interpret(fs)
  /\ UNCHANGED <<aborted, got>>

\* The suspended generator is asked for more and still has frames of the chunk.
Resume ==
  /\ place = "body" /\ frames # <<>> /\ Asking
  /\ Interpret(frames)
  /\ UNCHANGED <<aborted, got, sent>>

BodyFails ==
  /\ place = "body" /\ frames = <<>> /\ Asking
  /\ \E abortNamed \in BOOLEAN : FailRaw(abortNamed)
  /\ UNCHANGED <<ending, text, aborted, got, sent>>

\* The body is exhausted; an event that lacks its blank line is still an event.
BodyEnds ==
  /\ place = "body" /\ frames = <<>> /\ Asking
  /\ \/ Cut /\ UNCHANGED <<ending, text, sent>>
     \/ /\ sent < MaxSent /\ sent' = sent + 1
        /\ Yield(<<>>) /\ place' = "tail"
     \/ ending' = "done" /\ Close("done") /\ UNCHANGED <<text, failure, sent>>
     \/ \E e \in Errors :
          ending' = e /\ Fail("frame", e = "overloaded") /\ UNCHANGED <<text, sent>>
  /\ UNCHANGED <<aborted, got>>

ResumeTail ==
  /\ place = "tail" /\ Asking
  /\ Cut
  /\ UNCHANGED <<ending, text, aborted, got, sent>>

\* A `break` of the caller: the generator returns at its suspended yield.
ServeReturn ==
  /\ place \in {"body", "tail"} /\ queue # <<>> /\ caller[Head(queue)] = "leaving"
  /\ IF place = "body"
     THEN Release("abandoned")
     ELSE Close("left") /\ ending' = "abandoned" /\ UNCHANGED <<text, failure>>
  /\ UNCHANGED <<aborted, got, sent>>

\* The body answers that it is released.  A rejection replaces a `return`, and is
\* dropped when an error was already on its way.
Released ==
  /\ place = "release"
  /\ \/ /\ ending \in {"done", "abandoned"}
        /\ \/ Close(IF ending = "done" THEN "done" ELSE "left") /\ UNCHANGED failure
           \/ \E abortNamed \in BOOLEAN : FailRaw(abortNamed)
     \/ ending = "aborted" /\ Fail("aborted", FALSE)
     \/ ending \in Errors /\ Fail("frame", ending = "overloaded")
  /\ UNCHANGED <<ending, text, aborted, got, sent>>

Reader ==
  NetworkChunk \/ Resume \/ BodyFails \/ BodyEnds \/ ResumeTail \/ ServeReturn \/ Released

-----------------------------------------------------------------------------
\* The callers.

Abort ==
  /\ ~aborted /\ aborted' = TRUE
  /\ UNCHANGED <<place, frames, ending, text, failure, queue, caller, got, sent>>

\* iterator.next(), by a loop or by the drain of an accessor.
Ask(c) ==
  /\ caller[c] \in {"idle", "took"}
  /\ IF place = "closed"
     THEN caller' = [caller EXCEPT ![c] = "done"] /\ UNCHANGED queue
     ELSE caller' = [caller EXCEPT ![c] = "waiting"] /\ queue' = Append(queue, c)
  /\ UNCHANGED <<place, frames, ending, text, failure, aborted, got, sent>>

Break(l) ==
  /\ caller[l] = "took"
  /\ IF place = "closed"
     THEN caller' = [caller EXCEPT ![l] = "left"] /\ UNCHANGED queue
     ELSE caller' = [caller EXCEPT ![l] = "leaving"] /\ queue' = Append(queue, l)
  /\ UNCHANGED <<place, frames, ending, text, failure, aborted, got, sent>>

\* Mutant of Answer: an accessor does not look at state.failure.
AnswersAnyway(a) ==
  /\ caller[a] = "done"
  /\ caller' = [caller EXCEPT ![a] = "answered"] /\ got' = [got EXCEPT ![a] = text]
  /\ UNCHANGED <<place, frames, ending, text, failure, aborted, queue, sent>>

\* The accessor after its drain.
Answer(a) ==
  /\ caller[a] = "done"
  /\ IF failure # None
     THEN caller' = [caller EXCEPT ![a] = "failed"] /\ UNCHANGED got
     ELSE caller' = [caller EXCEPT ![a] = "answered"] /\ got' = [got EXCEPT ![a] = text]
  /\ UNCHANGED <<place, frames, ending, text, failure, aborted, queue, sent>>

Next ==
  \/ Reader
  \/ Abort
  \/ \E c \in Callers : Ask(c)
  \/ \E l \in Loops : Break(l)
  \/ \E a \in Accessors : Answer(a)

Spec == Init /\ [][Next]_vars

\* The body says something or ends (a body that is silent is failed by the idle
\* timeout of client.ts), and an accessor that took a chunk goes on draining.  A
\* loop owes nothing: it may stop without a break and never ask again.
FairSpec ==
  /\ Spec
  /\ WF_vars(Reader)
  /\ \A a \in Accessors : WF_vars(caller[a] = "took" /\ Ask(a)) /\ WF_vars(Answer(a))

-----------------------------------------------------------------------------
TypeOK ==
  /\ place \in {"body", "tail", "release", "closed"}
  /\ frames \in Seq(Frames)
  /\ ending \in Ending
  /\ text \in Nat /\ sent \in 0..MaxSent
  /\ failure \in [kind : Kinds, retryable : BOOLEAN]
  /\ aborted \in BOOLEAN
  /\ queue \in Seq(Callers)
  /\ caller \in [Callers -> {"idle", "waiting", "leaving", "took", "done", "left",
                             "failed", "answered"}]
  /\ got \in [Accessors -> Nat]

\* An accessor never returns an answer that only looks whole: it has every delta
\* the gateway sent before its terminator, or what was read when a loop left
\* (`text()`: "an early exit cancels the body, and this does not pretend
\* otherwise").  An aborted, withheld, cut or broken answer is never returned.
AnswersAreWhole ==
  \A a \in Accessors : caller[a] = "answered" =>
    \/ ending = "done" /\ got[a] = sent
    \/ ending = "abandoned" /\ got[a] = text

\* Every caller waits in the queue exactly once, so that each request of the
\* shared generator is settled and none is settled twice.
QueuedOnce ==
  /\ \A c \in Callers :
       caller[c] \in {"waiting", "leaving"} <=> \E k \in 1..Len(queue) : queue[k] = c
  /\ \A k, l \in 1..Len(queue) : queue[k] = queue[l] => k = l

\* Nothing that fails after the caller aborted is reported as worth retrying: the
\* request was billed and its caller asked to stop.
AbortIsFinal == [][aborted /\ failure' # failure => ~failure'.retryable]_vars

\* After an abort the answer grows by the chunk in hand at most, or by the tail
\* of a body that had already ended.
AbortStopsTheAnswer ==
  [][aborted /\ text' # text => frames # <<>> \/ place' = "tail"]_vars

\* No caller is left hanging on the shared generator: an accessor settles however
\* the stream ends, even if a loop holds a chunk and never asks again.
EveryAccessorSettles ==
  \A a \in Accessors : caller[a] = "waiting" ~> caller[a] \in {"answered", "failed"}

\* An answer whose terminator was read is not reported as worth retrying: it was
\* delivered whole, and billed.
WholeIsNotRetried == ending = "done" => ~failure.retryable

-----------------------------------------------------------------------------
\* The answer the reader implements.
Verdict ==
  IF place # "closed" THEN "open"
  ELSE IF failure # None THEN "failed"
  ELSE IF ending = "abandoned" THEN "abandoned" ELSE "whole"

Told == [a \in Accessors |->
           IF caller[a] \in {"answered", "failed"} THEN caller[a] ELSE "nothing"]

Promise == INSTANCE StreamAnswer WITH
             length <- text, verdict <- Verdict, told <- Told, value <- got

\* One verdict over one text, whoever asks and whenever: two accessors, or one
\* called twice, never disagree, and a failure seen once is thrown ever after.
ImplementsAnswer == Promise!Spec
=============================================================================
