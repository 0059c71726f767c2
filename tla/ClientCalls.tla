----------------------------- MODULE ClientCalls -----------------------------
(***************************************************************************)
(* Requests of a client and of its clone on their way to the gateway:      *)
(* pinnedFetch, withOptions, withBodyIdleTimeout, request and raw of       *)
(* sdks/js/src/client.ts, chat and compare of chat.ts, the classification  *)
(* of errors.ts, and the poll of a video job (waitForVideo, multimodal.ts).*)
(*                                                                         *)
(* External: the vendor client, which builds the headers of a request,     *)
(* looks at its signal, retries and gives up; the gateway; the video job;  *)
(* and a caller that does what the code expects of one: it calls again     *)
(* while isRetryable says so.                                              *)
(*                                                                         *)
(* Time is a clock that ticks; a timer that is due fires before the next   *)
(* tick.  A chat that is tried again, a compare and a wait share the keys  *)
(* and the clock and nothing else, so a behaviour has one of them (work).  *)
(***************************************************************************)
EXTENDS Naturals, Sequences, SequencesExt, FiniteSets

CONSTANTS
  Chats,         \* the billed POSTs: a chat(), or the arms of a compare
  Poll,          \* the GET of waitForVideo
  Keys,          \* the keys a client may be given
  MaxRetries,    \* NRouterOptions.maxRetries
  MaxTries,      \* bound: how often a caller calls chat() again
  MaxChunks,     \* bound: chunks of a body
  IdleTimeout,   \* bodyIdleTimeoutMs, in ticks
  PollInterval,  \* pollIntervalMs, in ticks
  WaitTimeout    \* timeoutMs of waitForVideo, in ticks

ASSUME PollAssumption   == Poll \notin Chats
ASSUME KeysAssumption   == Keys # {}
ASSUME BoundsAssumption ==
  {MaxRetries, MaxTries, MaxChunks} \subseteq Nat /\ {IdleTimeout, PollInterval} \subseteq Nat \ {0}
  /\ WaitTimeout \in Nat /\ PollInterval <= WaitTimeout

Calls   == Chats \cup {Poll}
Clients == {"parent", "clone"}

VARIABLES
  key,           \* apiKey of each client
  layers,        \* whose pinnedFetch a request of each client runs through
  work,          \* what the caller does: "chat", "compare" or "video"
  call,          \* each call: where its request is and what it ended with
  signal,        \* signal.aborted of each call
  job,           \* the video job: "running", "completed", "failed"
  wait,          \* waitForVideo
  compared       \* what compare() returned: an outcome for each arm

vars == <<key, layers, work, call, signal, job, wait, compared>>

\* A call that has not been made, and what one can end with: an answer, or an error
\* with its kind, its status and its cause: a cancellation, an idle body or neither.
Unmade == [at |-> "idle", via |-> "parent", header |-> CHOOSE k \in Keys : TRUE,
           left |-> 0, sends |-> 0, tries |-> 0, content |-> "none", chunks |-> 0,
           timer |-> 0, silence |-> 0, end |-> [kind |-> "none"]]

Answer(content) == [kind |-> "answer", content |-> content]
Raised(kind, status, cause) == [kind |-> kind, status |-> status, cause |-> cause]

Waiting == [at |-> "idle", elapsed |-> 0, sleep |-> 0, end |-> [kind |-> "none"]]

Settled(c) == call[c].at = "settled"
Live(c)    == call[c].at \in {"built", "sent", "body"}

-----------------------------------------------------------------------------
\* errors.ts.  A code the gateway sends wins over the status, and one nobody knows
\* is no reason to try again.
Kind(code, status) ==
  CASE code = "odd"                      -> "other"
    [] code = "none" /\ status = 400     -> "request"
    [] code = "none" /\ status = 429     -> "rate_limit"
    [] code = "none" /\ status = 503     -> "service"
    [] code = "none" /\ status \notin {400, 429, 503} -> "other"

Refusals  == {400, 408, 429, 503}
Transient == {408, 429, 503}       \* what the vendor client would retry

\* isRetryable
Retryable(end) ==
  /\ end.kind \notin {"none", "answer"} /\ end.cause # "cancelled"
  /\ end.status = 408 \/ end.kind \in {"rate_limit", "service", "transport"}

\* What chat() and videoStatus() make of the body of a 2xx.
Decoded(content) ==
  CASE content = "other_type" -> Raised("configuration", 200, "none")
    [] content = "corrupt"    -> Raised("transport", 200, "none")
    [] content = "envelope"   -> Raised("other", 200, "none")
    [] content \in {"completion", "running", "completed", "failed"} -> Answer(content)

Contents(c) ==
  {"other_type", "corrupt"} \cup (IF c = Poll THEN {job} ELSE {"completion", "envelope"})

-----------------------------------------------------------------------------
Init ==
  /\ key = [k \in Clients |-> CHOOSE k0 \in Keys : TRUE]
  /\ layers = [k \in Clients |-> IF k = "parent" THEN <<"parent">> ELSE <<>>]
  /\ work \in {"chat", "compare", "video"}
  /\ call = [c \in Calls |-> Unmade]
  /\ signal = [c \in Calls |-> FALSE]
  /\ job = "running" /\ wait = Waiting /\ compared = [c \in Chats |-> Unmade.end]

\* The apiKey of a client is assigned.
Rotate(client, k) ==
  /\ layers[client] # <<>> /\ key' = [key EXCEPT ![client] = k]
  /\ UNCHANGED <<layers, work, call, signal, job, wait, compared>>

\* Mutant of Clone: the clone is given the wrapped fetch of its parent.
CloneStacksFetch(k) ==
  /\ layers["clone"] = <<>>
  /\ key' = [key EXCEPT !["clone"] = k]
  /\ layers' = [layers EXCEPT !["clone"] = <<"clone">> \o layers["parent"]]
  /\ UNCHANGED <<work, call, signal, job, wait, compared>>

\* withOptions: the live key or one of its own, over the caller's own fetch.
Clone(k) ==
  /\ layers["clone"] = <<>>
  /\ key' = [key EXCEPT !["clone"] = k]
  /\ layers' = [layers EXCEPT !["clone"] = <<"clone">>]
  /\ UNCHANGED <<work, call, signal, job, wait, compared>>

-----------------------------------------------------------------------------
OnlyTheCall == UNCHANGED <<key, layers, work, signal, job, wait, compared>>

Settle(c, end) ==
  call' = [call EXCEPT ![c] = [Unmade EXCEPT !.at = "settled", !.via = call[c].via,
                                             !.tries = call[c].tries, !.end = end]]

\* The vendor client builds the headers, with the key of that moment.
Built(c, via, left) ==
  [call[c] EXCEPT !.at = "built", !.via = via, !.header = key[via], !.left = left,
                  !.end = Unmade.end]

\* Mutant of RetriesOf: a POST keeps the retries of the client.
RetriesOfTheClient(c) == MaxRetries

\* raw(): a POST is never sent again.
RetriesOf(c) == IF c = Poll THEN MaxRetries ELSE 0

\* A try of a call through a client.
Try(c, via) == [Built(c, via, RetriesOf(c)) EXCEPT !.tries = IF c = Poll THEN 0 ELSE @ + 1]

\* chat().
Chat(c, via) ==
  /\ work = "chat" /\ layers[via] # <<>> /\ \A d \in Chats : call[d].at = "idle"
  /\ call' = [call EXCEPT ![c] = Try(c, via)]
  /\ OnlyTheCall

\* The caller of chat(): `while (isRetryable(e))`.
Again(c) ==
  /\ work = "chat" /\ Settled(c) /\ Retryable(call[c].end) /\ call[c].tries < MaxTries
  /\ call' = [call EXCEPT ![c] = Try(c, call[c].via)]
  /\ OnlyTheCall

\* compare() starts all its arms at once.
Compare(via) ==
  /\ work = "compare" /\ layers[via] # <<>> /\ \A c \in Chats : call[c].at = "idle"
  /\ call' = [c \in Calls |-> IF c \in Chats THEN Try(c, via) ELSE call[c]]
  /\ OnlyTheCall

\* Mutant of CompareReturns: Promise.all.
CompareFailsFast ==
  /\ work = "compare" /\ \A c \in Chats : compared[c].kind = "none"
  /\ \/ \A c \in Chats : Settled(c) /\ call[c].end.kind = "answer"
     \/ \E c \in Chats : Settled(c) /\ call[c].end.kind # "answer"
  /\ compared' = IF \A c \in Chats : Settled(c) /\ call[c].end.kind = "answer"
                 THEN [c \in Chats |-> call[c].end]
                 ELSE LET lost == CHOOSE c \in Chats : Settled(c) /\ call[c].end.kind # "answer"
                      IN  [c \in Chats |-> call[lost].end]
  /\ UNCHANGED <<key, layers, work, call, signal, job, wait>>

\* Promise.allSettled: a failure is parked in the slot of its arm.
CompareReturns ==
  /\ work = "compare" /\ \A c \in Chats : compared[c].kind = "none"
  /\ \A c \in Chats : Settled(c)
  /\ compared' = [c \in Chats |-> call[c].end]
  /\ UNCHANGED <<key, layers, work, call, signal, job, wait>>

\* Mutant of Header: the header the vendor client built is what leaves.
HeaderAsBuilt(c) == call[c].header

\* pinnedFetch: each layer writes the key that is live on its client over the last.
Header(c) == key[Last(layers[call[c].via])]

\* The vendor client looks at the signal before it fetches.
Fetch(c) ==
  /\ call[c].at = "built" /\ ~signal[c]
  /\ call' = [call EXCEPT ![c].at = "sent", ![c].header = Header(c), ![c].sends = @ + 1]
  /\ OnlyTheCall

\* The vendor client: again with new headers while retries are left, else the error.
Failed(c, transient, end) ==
  IF transient /\ call[c].left > 0
  THEN call' = [call EXCEPT ![c] = Built(c, call[c].via, call[c].left - 1)]
  ELSE Settle(c, end)

\* responseFromApiError gives a refusal back as a response; gatewayFailure names it.
Refuse(c, status, code) ==
  /\ call[c].at = "sent"
  /\ Failed(c, status \in Transient, Raised(Kind(code, status), status, "none"))
  /\ OnlyTheCall

\* No connection, a lost one, or the deadline of the request.
Disconnect(c) ==
  /\ call[c].at = "sent"
  /\ Failed(c, TRUE, Raised("transport", 0, "none"))
  /\ OnlyTheCall

-----------------------------------------------------------------------------
\* withBodyIdleTimeout: every pull of the body races a timer of its own.
Accept(c, content) ==
  /\ call[c].at = "sent"
  /\ call' = [call EXCEPT ![c] = [Unmade EXCEPT !.at = "body", !.via = call[c].via,
                              !.tries = call[c].tries, !.sends = call[c].sends,
                              !.content = content, !.timer = IdleTimeout]]
  /\ OnlyTheCall

\* Mutant of Chunk: the timer of the last pull is left running.
ChunkKeepsTheTimer(c) ==
  /\ call[c].at = "body" /\ call[c].chunks < MaxChunks
  /\ call' = [call EXCEPT ![c].chunks = @ + 1, ![c].silence = 0]
  /\ OnlyTheCall

Chunk(c) ==
  /\ call[c].at = "body" /\ call[c].chunks < MaxChunks
  /\ call' = [call EXCEPT ![c].chunks = @ + 1, ![c].timer = IdleTimeout, ![c].silence = 0]
  /\ OnlyTheCall

\* Mutant of IdleFires: only the first pull has a timer.
IdleFiresOnTheFirstPull(c) ==
  /\ call[c].at = "body" /\ call[c].timer = 0 /\ call[c].chunks = 0
  /\ Settle(c, Raised("transport", 200, "idle"))
  /\ OnlyTheCall

\* The timer wins the race: a failure nobody asked for.
IdleFires(c) ==
  /\ call[c].at = "body" /\ call[c].timer = 0
  /\ Settle(c, Raised("transport", 200, "idle"))
  /\ OnlyTheCall

BodyEnds(c) ==
  /\ call[c].at = "body"
  /\ Settle(c, Decoded(call[c].content))
  /\ OnlyTheCall

BodyBreaks(c) ==
  /\ call[c].at = "body"
  /\ Settle(c, Raised("transport", 200, "none"))
  /\ OnlyTheCall

\* Mutant of Cancelled: the error of the vendor client keeps its name, "Error".
CancelledUnnamed(c) == Raised("transport", 0, "none")

\* An abort is told apart wherever it lands: responseFromApiError before there is a
\* response, the cause of the failed read of a body after it.
Cancelled(c) == Raised("transport", IF call[c].at = "body" THEN 200 ELSE 0, "cancelled")

AbortLands(c) ==
  /\ signal[c] /\ Live(c)
  /\ Settle(c, Cancelled(c))
  /\ OnlyTheCall

\* The caller aborts; the arms of a compare have one signal.
Abort(c) ==
  /\ ~signal[c] /\ (c = Poll => wait.at # "idle") /\ (c # Poll => call[c].at # "idle")
  /\ signal' = [d \in Calls |-> signal[d] \/ d = c \/ (work = "compare" /\ c \in Chats /\ d \in Chats)]
  /\ UNCHANGED <<key, layers, work, call, job, wait, compared>>

-----------------------------------------------------------------------------
\* waitForVideo.
BeginWait ==
  /\ work = "video" /\ wait.at = "idle" /\ wait' = [wait EXCEPT !.at = "deciding"]
  /\ UNCHANGED <<key, layers, work, call, signal, job, compared>>

EndWait(end) ==
  /\ wait' = [wait EXCEPT !.at = "done", !.end = end]
  /\ UNCHANGED <<key, layers, work, call, signal, job, compared>>

\* The head of the loop: the deadline, then the signal, then one more poll.
Expire ==
  /\ wait.at = "deciding" /\ wait.elapsed >= WaitTimeout
  /\ EndWait(Raised("transport", 0, "none"))

NoticeAbort ==
  /\ wait.at = "deciding" /\ wait.elapsed < WaitTimeout /\ signal[Poll]
  /\ EndWait(Raised("transport", 0, "none"))

StartPoll ==
  /\ wait.at = "deciding" /\ wait.elapsed < WaitTimeout /\ ~signal[Poll]
  /\ call' = [call EXCEPT ![Poll] = Try(Poll, "parent")]
  /\ wait' = [wait EXCEPT !.at = "polling"]
  /\ UNCHANGED <<key, layers, work, signal, job, compared>>

Polled(status) == wait.at = "polling" /\ Settled(Poll) /\ call[Poll].end = Answer(status)

Collect ==
  /\ Polled("completed")
  /\ EndWait(Answer("completed"))

Report ==
  /\ Polled("failed")
  /\ EndWait(Raised(Kind("odd", 500), 500, "none"))

PollRaises ==
  /\ wait.at = "polling" /\ Settled(Poll) /\ call[Poll].end.kind # "answer"
  /\ EndWait(call[Poll].end)

\* The sleep cannot be cut short.
Sleep ==
  /\ Polled("running")
  /\ wait' = [wait EXCEPT !.at = "sleeping", !.sleep = PollInterval]
  /\ UNCHANGED <<key, layers, work, call, signal, job, compared>>

Wake ==
  /\ wait.at = "sleeping" /\ wait.sleep = 0 /\ wait' = [wait EXCEPT !.at = "deciding"]
  /\ UNCHANGED <<key, layers, work, call, signal, job, compared>>

WaitStep == Expire \/ NoticeAbort \/ StartPoll \/ Collect \/ Report \/ PollRaises \/ Sleep \/ Wake

\* The video job, external.
JobEnds(status) ==
  /\ work = "video" /\ job = "running" /\ job' = status
  /\ UNCHANGED <<key, layers, work, call, signal, wait, compared>>

-----------------------------------------------------------------------------
Due == (\E c \in Calls : call[c].at = "body" /\ call[c].timer = 0)
       \/ (wait.at = "sleeping" /\ wait.sleep = 0)

Less(n) == IF n = 0 THEN 0 ELSE n - 1

Tick ==
  /\ ~Due
  /\ call' = [c \in Calls |->
                IF call[c].at = "body"
                THEN [call[c] EXCEPT !.timer = Less(@), !.silence = @ + 1] ELSE call[c]]
  /\ wait' = IF wait.at \in {"idle", "done"} THEN wait
             ELSE [wait EXCEPT !.elapsed = IF @ < WaitTimeout THEN @ + 1 ELSE @,
                               !.sleep = Less(@)]
  /\ UNCHANGED <<key, layers, work, signal, job, compared>>

Gateway(c) ==
  \/ \E status \in Refusals, code \in {"none", "odd"} : Refuse(c, status, code)
  \/ Disconnect(c)
  \/ \E content \in Contents(c) : Accept(c, content)
  \/ Chunk(c) \/ BodyEnds(c) \/ BodyBreaks(c)

Next ==
  \/ \E client \in Clients, k \in Keys : Rotate(client, k)
  \/ \E k \in Keys : Clone(k)
  \/ \E via \in Clients : Compare(via) \/ \E c \in Chats : Chat(c, via)
  \/ CompareReturns \/ \E c \in Chats : Again(c)
  \/ \E c \in Calls : Fetch(c) \/ Gateway(c) \/ IdleFires(c) \/ AbortLands(c) \/ Abort(c)
  \/ BeginWait \/ WaitStep
  \/ \E status \in {"completed", "failed"} : JobEnds(status)
  \/ Tick

\* The vendor client and the SDK run on, a request has a deadline before its headers
\* come, and the clock ticks.  Nothing is asked of the gateway, the job or the caller.
Fairness ==
  /\ \A c \in Calls : WF_vars(Fetch(c)) /\ WF_vars(Disconnect(c))
                      /\ WF_vars(IdleFires(c)) /\ WF_vars(AbortLands(c))
  /\ WF_vars(WaitStep) /\ WF_vars(CompareReturns) /\ WF_vars(Tick)

Spec == Init /\ [][Next]_vars /\ Fairness

-----------------------------------------------------------------------------
\* pinnedFetch: what leaves carries the key that is live, when it leaves, on the
\* client the caller called, whatever was rotated or cloned in between.
KeyIsLive ==
  [][\A c \in Calls : call'[c].at = "sent" /\ call[c].at # "sent"
        => call'[c].header = key[call[c].via]]_vars

\* raw(): however often the client may retry, a billed POST leaves once for each call
\* the caller makes; only the poll is sent again.
OnePostPerCall ==
  \A c \in Calls : call[c].sends <= IF c \in Chats THEN 1 ELSE MaxRetries + 1

\* withBodyIdleTimeout, responseFromApiError, isRetryable: a body that goes on arriving
\* is never called idle and a silent one is not waited for longer; a caller is told
\* of a cancellation only after an abort, and what an abort ended is not tried again.
FailureIsWhatHappened ==
  [][\A c \in Calls :
       /\ call'[c].silence <= IdleTimeout
       /\ ~Settled(c) /\ call'[c].at = "settled" /\ call'[c].end.kind # "answer"
          => /\ call'[c].end.cause = "idle"      => call[c].silence = IdleTimeout
             /\ call'[c].end.cause = "cancelled" => signal[c]
       /\ AbortLands(c) => ~Retryable(call'[c].end)]_vars

\* compare(): it returns once, after every arm has ended, each with its own outcome: an
\* arm that was paid for and answered is not lost to the failure of another.
CompareKeepsPaidAnswers ==
  (\E c \in Chats : compared[c].kind # "none")
    => \A c \in Chats : Settled(c) /\ compared[c] = call[c].end

\* Every request ends, and so do a compare and a wait: the deadline before the headers,
\* the idle timer after them, and the deadline of the wait see to it.
EveryCallSettles ==
  /\ \A c \in Calls : Live(c) ~> Settled(c)
  /\ wait.at # "idle" ~> wait.at = "done"
  /\ \A c \in Chats : work = "compare" /\ Live(c) ~> compared[c].kind # "none"

\* errors.ts of isRetryable: "An aborted request is never retryable whatever its kind".
AbortedWaitIsFinal == [][NoticeAbort => ~Retryable(wait'.end)]_vars
=============================================================================
