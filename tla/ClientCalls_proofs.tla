--------------------------- MODULE ClientCalls_proofs ---------------------------
(***************************************************************************)
(* Requests of a client and of its clone, for any set of calls and of      *)
(* keys, any number of retries and any timeouts.                           *)
(*                                                                         *)
(* A call is judged by its record alone (Good): what it has sent and may   *)
(* still send, and how its idle timer and the silence of its body add up.  *)
(* What relates the calls to the rest is small: whose fetch a client has   *)
(* (LayersInv), that a poll is under way only while the wait polls         *)
(* (PollInv), and that a compare is over when it has returned (ComparedInv)*)
(***************************************************************************)
EXTENDS ClientCalls, SequenceTheorems, TLAPS

Bodies == {"none", "other_type", "corrupt", "envelope", "completion", "running", "completed",
           "failed"}
Ends == {[kind |-> "none"]} \cup [kind : {"answer"}, content : Bodies]
        \cup [kind : {"request", "rate_limit", "service", "other", "configuration", "transport"},
              status : Nat, cause : {"none", "idle", "cancelled"}]

CallRecord ==
  [at : {"idle", "built", "sent", "body", "settled"}, via : Clients, header : Keys,
   left : Nat, sends : Nat, tries : Nat, content : Bodies, chunks : Nat,
   timer : Nat, silence : Nat, end : Ends]

WaitRecord ==
  [at : {"idle", "deciding", "polling", "sleeping", "done"}, elapsed : 0..WaitTimeout,
   sleep : 0..PollInterval, end : Ends]

TypeOK ==
  /\ key \in [Clients -> Keys] /\ layers \in [Clients -> Seq(Clients)]
  /\ work \in {"chat", "compare", "video"}
  /\ call \in [Calls -> CallRecord] /\ signal \in [Calls -> BOOLEAN]
  /\ job \in {"running", "completed", "failed"} /\ wait \in WaitRecord
  /\ compared \in [Chats -> Ends]

\* A call by itself: its requests and those it has left never exceed what raw() gives
\* it, and its timer and its silence make up the timeout.
Good(c, r) ==
  /\ r \in CallRecord
  /\ r.at \in {"idle", "settled"} => r.sends = 0
  /\ r.at = "built" => r.sends + r.left <= RetriesOf(c)
  /\ r.at = "sent"  => r.sends + r.left <= RetriesOf(c) + 1
  /\ r.at = "body"  => r.sends <= RetriesOf(c) + 1 /\ r.timer + r.silence = IdleTimeout
                       /\ r.content # "none"
  /\ r.at # "body"  => r.silence = 0

\* Each client has one layer, its own, and a call is made through a client there is.
LayersInv ==
  /\ \A k \in Clients : layers[k] \in {<<>>, <<k>>}
  /\ layers["parent"] = <<"parent">>
  /\ \A c \in Calls : call[c].at # "idle" => layers[call[c].via] # <<>>

PollInv == Live(Poll) => wait.at = "polling"

ComparedInv ==
  (\E c \in Chats : compared[c].kind # "none")
    => work = "compare" /\ \A c \in Chats : Settled(c) /\ compared[c] = call[c].end

IInv ==
  /\ TypeOK
  /\ \A c \in Calls : Good(c, call[c])
  /\ LayersInv
  /\ PollInv
  /\ ComparedInv

-----------------------------------------------------------------------------
\* What a request can end with.
LEMMA EndsOf ==
  /\ Unmade.end \in Ends /\ Unmade.end = [kind |-> "none"]
  /\ \A content \in Bodies : Answer(content) \in Ends
  /\ \A status \in Nat, cause \in {"none", "idle", "cancelled"},
        kind \in {"request", "rate_limit", "service", "other", "configuration", "transport"} :
        Raised(kind, status, cause) \in Ends
  /\ \A status \in Refusals, code \in {"none", "odd"} :
        Kind(code, status) \in {"request", "rate_limit", "service", "other"} /\ status \in Nat
  /\ \A content \in Bodies \ {"none"} : Decoded(content) \in Ends
<1>1. Unmade.end \in Ends /\ Unmade.end = [kind |-> "none"]
  BY DEF Unmade, Ends
<1>2. \A content \in Bodies : Answer(content) \in Ends
  BY DEF Answer, Ends
<1>3. \A status \in Nat, cause \in {"none", "idle", "cancelled"},
        kind \in {"request", "rate_limit", "service", "other", "configuration", "transport"} :
        Raised(kind, status, cause) \in Ends
  BY DEF Raised, Ends
<1>4. \A status \in Refusals, code \in {"none", "odd"} :
        Kind(code, status) \in {"request", "rate_limit", "service", "other"} /\ status \in Nat
  BY DEF Kind, Refusals
<1>5. \A content \in Bodies \ {"none"} : Decoded(content) \in Ends
  BY <1>2, <1>3 DEF Decoded, Bodies
<1> QED BY <1>1, <1>2, <1>3, <1>4, <1>5

LEMMA Broken ==
  ASSUME NEW status \in Nat, NEW cause \in {"none", "idle", "cancelled"}
  PROVE  Raised("transport", status, cause) \in Ends
         /\ Raised("transport", status, cause).cause = cause
<1>1. Raised("transport", status, cause) \in Ends
  BY EndsOf
<1>2. Raised("transport", status, cause).cause = cause
  BY DEF Raised
<1> QED BY <1>1, <1>2

LEMMA CancelledIs ==
  ASSUME NEW c
  PROVE  Cancelled(c) \in Ends /\ Cancelled(c).cause = "cancelled"
<1> DEFINE status == IF call[c].at = "body" THEN 200 ELSE 0
<1>1. status \in Nat /\ Cancelled(c) = Raised("transport", status, "cancelled")
  BY DEF Cancelled
<1> HIDE DEF status
<1> QED BY <1>1, Broken

\* The records a step gives a call are good ones.
LEMMA GoodUnmade ==
  /\ Unmade \in CallRecord
  /\ \A c \in Calls : Good(c, Unmade)
<1>1. (CHOOSE k \in Keys : TRUE) \in Keys
  BY KeysAssumption
<1>2. Unmade \in CallRecord
  BY <1>1, EndsOf DEF Unmade, CallRecord, Clients, Bodies
<1> QED BY <1>2 DEF Good, Unmade

LEMMA RetriesAreBounded ==
  \A c \in Calls : RetriesOf(c) \in Nat /\ (c \in Chats => RetriesOf(c) = 0)
BY BoundsAssumption, PollAssumption DEF RetriesOf, Calls

LEMMA GoodTry ==
  ASSUME TypeOK, NEW c \in Calls, Good(c, call[c]), call[c].at \in {"idle", "settled"},
         NEW via \in Clients
  PROVE  Good(c, Try(c, via)) /\ Try(c, via).via = via /\ Try(c, via).at = "built"
<1>1. call[c] \in CallRecord /\ key[via] \in Keys /\ RetriesOf(c) \in Nat
  BY RetriesAreBounded DEF TypeOK
<1>2. call[c].sends = 0 /\ call[c].silence = 0
  BY DEF Good
<1>3. Try(c, via) = [Built(c, via, RetriesOf(c)) EXCEPT !.tries = IF c = Poll THEN 0 ELSE @ + 1]
  BY DEF Try
<1>4. /\ Built(c, via, RetriesOf(c)) \in CallRecord
      /\ Built(c, via, RetriesOf(c)).at = "built" /\ Built(c, via, RetriesOf(c)).via = via
      /\ Built(c, via, RetriesOf(c)).sends = 0 /\ Built(c, via, RetriesOf(c)).silence = 0
      /\ Built(c, via, RetriesOf(c)).left = RetriesOf(c)
      /\ Built(c, via, RetriesOf(c)).tries \in Nat
  BY <1>1, <1>2, EndsOf DEF Built, CallRecord
<1>5. /\ Try(c, via) \in CallRecord /\ Try(c, via).at = "built" /\ Try(c, via).via = via
      /\ Try(c, via).sends = 0 /\ Try(c, via).silence = 0 /\ Try(c, via).left = RetriesOf(c)
  BY <1>3, <1>4 DEF CallRecord
<1> QED BY <1>1, <1>5 DEF Good

\* A request that is tried again.
LEMMA GoodAgain ==
  ASSUME TypeOK, NEW c \in Calls, Good(c, call[c]), call[c].at = "sent", call[c].left > 0
  PROVE  LET again == Built(c, call[c].via, call[c].left - 1)
         IN  Good(c, again) /\ again.via = call[c].via /\ again.at = "built"
<1> DEFINE again == Built(c, call[c].via, call[c].left - 1)
<1>1. /\ call[c] \in CallRecord /\ call[c].via \in Clients /\ key[call[c].via] \in Keys
      /\ RetriesOf(c) \in Nat /\ call[c].left \in Nat /\ call[c].sends \in Nat
  BY RetriesAreBounded DEF TypeOK, CallRecord
<1>2. call[c].sends + call[c].left <= RetriesOf(c) + 1 /\ call[c].silence = 0
  BY DEF Good
<1>3. call[c].left - 1 \in Nat
  BY <1>1
<1>4. /\ again \in CallRecord
      /\ again.at = "built" /\ again.via = call[c].via
      /\ again.sends = call[c].sends /\ again.silence = 0 /\ again.left = call[c].left - 1
  BY <1>1, <1>2, <1>3, EndsOf DEF Built, CallRecord
<1> QED BY <1>1, <1>2, <1>4 DEF Good

\* A call that has ended.
Closed(c, end) == [Unmade EXCEPT !.at = "settled", !.via = call[c].via,
                                 !.tries = call[c].tries, !.end = end]

LEMMA GoodSettled ==
  ASSUME TypeOK, NEW c \in Calls, NEW end \in Ends
  PROVE  /\ Good(c, Closed(c, end)) /\ Closed(c, end).via = call[c].via
         /\ Closed(c, end).at = "settled" /\ Closed(c, end).end = end
<1>1. call[c].via \in Clients /\ call[c].tries \in Nat
  BY DEF TypeOK, CallRecord
<1>2. Unmade \in CallRecord /\ Unmade.sends = 0 /\ Unmade.silence = 0
  BY GoodUnmade DEF Unmade
<1>3. /\ Closed(c, end) \in CallRecord /\ Closed(c, end).via = call[c].via
      /\ Closed(c, end).at = "settled" /\ Closed(c, end).end = end
      /\ Closed(c, end).sends = 0 /\ Closed(c, end).silence = 0
  BY <1>1, <1>2 DEF Closed, CallRecord
<1> QED BY <1>3 DEF Good

\* A request that leaves.
LEMMA GoodFetched ==
  ASSUME TypeOK, LayersInv, NEW c \in Calls, Good(c, call[c]), Fetch(c)
  PROVE  /\ Header(c) = key[call[c].via]
         /\ \E sent : /\ call' = [call EXCEPT ![c] = sent] /\ Good(c, sent)
                      /\ sent.at = "sent" /\ sent.via = call[c].via /\ sent.header = Header(c)
<1>1. /\ call[c] \in CallRecord /\ call[c].via \in Clients /\ call[c].sends \in Nat
      /\ call[c].left \in Nat /\ call[c].at = "built" /\ RetriesOf(c) \in Nat
  BY RetriesAreBounded DEF TypeOK, CallRecord, Fetch
<1>2. Header(c) = key[call[c].via] /\ Header(c) \in Keys
  <2>1. layers[call[c].via] = <<call[c].via>>
    BY <1>1 DEF LayersInv
  <2>2. Last(<<call[c].via>>) = call[c].via
    BY DEF Last
  <2> QED BY <1>1, <2>1, <2>2 DEF Header, TypeOK
<1> DEFINE sent == [call[c] EXCEPT !.at = "sent", !.header = Header(c), !.sends = @ + 1]
<1>3. call' = [call EXCEPT ![c] = sent]
  BY <1>1 DEF Fetch, TypeOK
<1>4. /\ sent \in CallRecord /\ sent.at = "sent" /\ sent.via = call[c].via
      /\ sent.header = Header(c) /\ sent.sends = call[c].sends + 1 /\ sent.left = call[c].left
      /\ sent.silence = call[c].silence
  <2> DEFINE more == call[c].sends + 1
  <2>1. more \in Nat
    BY <1>1
  <2>2. sent = [call[c] EXCEPT !.at = "sent", !.header = Header(c), !.sends = more]
    OBVIOUS
  <2> HIDE DEF sent, more
  <2>3. /\ sent \in CallRecord /\ sent.at = "sent" /\ sent.via = call[c].via
        /\ sent.header = Header(c) /\ sent.sends = more /\ sent.left = call[c].left
        /\ sent.silence = call[c].silence
    BY <1>1, <1>2, <2>1, <2>2 DEF CallRecord
  <2> QED BY <2>3 DEF more
<1>5. Good(c, sent)
  BY <1>1, <1>4 DEF Good
<1> QED BY <1>2, <1>3, <1>4, <1>5

\* A body that begins, and one that goes on.
LEMMA GoodBody ==
  ASSUME TypeOK, NEW c \in Calls, Good(c, call[c]),
         Chunk(c) \/ \E content \in Contents(c) : Accept(c, content)
  PROVE  \E body : /\ call' = [call EXCEPT ![c] = body] /\ Good(c, body)
                   /\ body.at = "body" /\ body.via = call[c].via
<1>1. /\ call[c] \in CallRecord /\ call[c].via \in Clients /\ call[c].sends \in Nat
      /\ call[c].left \in Nat /\ call[c].chunks \in Nat /\ call[c].tries \in Nat
      /\ RetriesOf(c) \in Nat /\ IdleTimeout \in Nat
  BY RetriesAreBounded, BoundsAssumption DEF TypeOK, CallRecord
<1>2. CASE Chunk(c)
  <2> DEFINE body == [call[c] EXCEPT !.chunks = @ + 1, !.timer = IdleTimeout, !.silence = 0]
  <2>1. call' = [call EXCEPT ![c] = body] /\ call[c].at = "body"
    BY <1>1, <1>2 DEF Chunk, TypeOK
  <2>2. /\ body \in CallRecord /\ body.at = "body" /\ body.via = call[c].via
        /\ body.sends = call[c].sends /\ body.timer = IdleTimeout /\ body.silence = 0
        /\ body.content = call[c].content
    <3> DEFINE more == call[c].chunks + 1
    <3>1. more \in Nat
      BY <1>1
    <3>2. body = [call[c] EXCEPT !.chunks = more, !.timer = IdleTimeout, !.silence = 0]
      OBVIOUS
    <3> HIDE DEF body, more
    <3> QED BY <1>1, <2>1, <3>1, <3>2 DEF CallRecord
  <2>3. Good(c, body)
    BY <1>1, <2>1, <2>2 DEF Good
  <2> QED BY <2>1, <2>2, <2>3
<1>3. CASE \E content \in Contents(c) : Accept(c, content)
  <2>1. PICK content \in Contents(c) : Accept(c, content)
    BY <1>3
  <2>2. content \in Bodies \ {"none"}
    BY DEF Contents, Bodies, TypeOK
  <2> DEFINE body == [Unmade EXCEPT !.at = "body", !.via = call[c].via, !.tries = call[c].tries,
                                    !.sends = call[c].sends, !.content = content,
                                    !.timer = IdleTimeout]
  <2>3. call' = [call EXCEPT ![c] = body] /\ call[c].at = "sent"
    BY <2>1 DEF Accept
  <2>4. Unmade \in CallRecord /\ Unmade.silence = 0
    BY GoodUnmade DEF Unmade
  <2>5. /\ body \in CallRecord /\ body.at = "body" /\ body.via = call[c].via
        /\ body.sends = call[c].sends /\ body.timer = IdleTimeout /\ body.silence = 0
        /\ body.content = content
    BY <1>1, <2>2, <2>4 DEF CallRecord
  <2>6. Good(c, body)
    BY <1>1, <2>2, <2>3, <2>5 DEF Good
  <2> QED BY <2>3, <2>5, <2>6
<1> QED BY <1>2, <1>3

-----------------------------------------------------------------------------
\* What a step of the vendor client, the gateway or the timers makes of a call: what
\* leaves has the live key, and what ends has the reason it names.
Explained(c, r) ==
  /\ r.at # "idle"
  /\ r.at = "sent" => call[c].at = "sent" \/ r.header = key[call[c].via]
  /\ r.at = "settled" /\ r.end.kind # "answer" =>
       /\ r.end.cause = "idle"      => call[c].silence = IdleTimeout
       /\ r.end.cause = "cancelled" => signal[c]

Becomes(c, r) ==
  /\ call' = [call EXCEPT ![c] = r] /\ Good(c, r) /\ r.via = call[c].via /\ Explained(c, r)

LEMMA SettleMoves ==
  ASSUME TypeOK, NEW c \in Calls, NEW end \in Ends, Settle(c, end),
         end.kind # "answer" => /\ end.cause = "idle"      => call[c].silence = IdleTimeout
                                /\ end.cause = "cancelled" => signal[c]
  PROVE  \E r : Becomes(c, r)
<1>1. call' = [call EXCEPT ![c] = Closed(c, end)]
  BY DEF Settle, Closed
<1>2. Good(c, Closed(c, end)) /\ Closed(c, end).via = call[c].via
      /\ Closed(c, end).at = "settled" /\ Closed(c, end).end = end
  BY GoodSettled
<1> QED BY <1>1, <1>2 DEF Becomes, Explained

LEMMA FailedMoves ==
  ASSUME TypeOK, NEW c \in Calls, Good(c, call[c]), call[c].at = "sent",
         NEW kind \in {"request", "rate_limit", "service", "other", "transport"},
         NEW status \in Nat, NEW transient \in BOOLEAN,
         Failed(c, transient, Raised(kind, status, "none"))
  PROVE  \E r : Becomes(c, r)
<1>1. CASE transient /\ call[c].left > 0
  <2> DEFINE again == Built(c, call[c].via, call[c].left - 1)
  <2>1. call' = [call EXCEPT ![c] = again]
    BY <1>1 DEF Failed
  <2>2. Good(c, again) /\ again.via = call[c].via /\ again.at = "built"
    BY <1>1, GoodAgain
  <2> QED BY <2>1, <2>2 DEF Becomes, Explained
<1>2. CASE ~(transient /\ call[c].left > 0)
  <2>1. Settle(c, Raised(kind, status, "none"))
    BY <1>2 DEF Failed
  <2>2. Raised(kind, status, "none") \in Ends /\ Raised(kind, status, "none").cause = "none"
    BY EndsOf DEF Raised
  <2> QED BY <2>1, <2>2, SettleMoves
<1> QED BY <1>1, <1>2

LEMMA GatewayMoves ==
  ASSUME TypeOK, NEW c \in Calls, Good(c, call[c]), Gateway(c)
  PROVE  Live(c) /\ OnlyTheCall /\ \E r : Becomes(c, r)
<1>1. CASE \E status \in Refusals, code \in {"none", "odd"} : Refuse(c, status, code)
  <2>1. PICK status \in Refusals, code \in {"none", "odd"} : Refuse(c, status, code)
    BY <1>1
  <2>2. /\ call[c].at = "sent" /\ OnlyTheCall
        /\ Failed(c, status \in Transient, Raised(Kind(code, status), status, "none"))
    BY <2>1 DEF Refuse
  <2>3. Kind(code, status) \in {"request", "rate_limit", "service", "other"} /\ status \in Nat
    BY EndsOf
  <2>4. (status \in Transient) \in BOOLEAN
    OBVIOUS
  <2>5. \E r : Becomes(c, r)
    BY <2>2, <2>3, <2>4, FailedMoves
  <2> QED BY <2>2, <2>5 DEF Live
<1>2. CASE Disconnect(c)
  <2>1. /\ call[c].at = "sent" /\ OnlyTheCall
        /\ Failed(c, TRUE, Raised("transport", 0, "none"))
    BY <1>2 DEF Disconnect
  <2>2. \E r : Becomes(c, r)
    BY <2>1, FailedMoves
  <2> QED BY <2>1, <2>2 DEF Live
<1>3. CASE Chunk(c) \/ \E content \in Contents(c) : Accept(c, content)
  <2>1. call[c].at \in {"sent", "body"} /\ OnlyTheCall
    BY <1>3 DEF Chunk, Accept
  <2>2. PICK body : /\ call' = [call EXCEPT ![c] = body] /\ Good(c, body)
                    /\ body.at = "body" /\ body.via = call[c].via
    BY <1>3, GoodBody
  <2> QED BY <2>1, <2>2 DEF Live, Becomes, Explained
<1>4. CASE BodyEnds(c)
  <2>1. call[c].at = "body" /\ OnlyTheCall /\ Settle(c, Decoded(call[c].content))
    BY <1>4 DEF BodyEnds
  <2>2. call[c].content \in Bodies \ {"none"}
    BY <2>1 DEF Good, CallRecord
  <2>3. Decoded(call[c].content) \in Ends
    BY <2>2, EndsOf
  <2>4. Decoded(call[c].content).kind # "answer" => Decoded(call[c].content).cause = "none"
    BY <2>2 DEF Decoded, Bodies, Raised, Answer
  <2>5. \E r : Becomes(c, r)
    BY <2>1, <2>3, <2>4, SettleMoves
  <2> QED BY <2>1, <2>5 DEF Live
<1>5. CASE BodyBreaks(c)
  <2>1. call[c].at = "body" /\ OnlyTheCall /\ Settle(c, Raised("transport", 200, "none"))
    BY <1>5 DEF BodyBreaks
  <2>2. Raised("transport", 200, "none") \in Ends /\ Raised("transport", 200, "none").cause = "none"
    BY Broken
  <2>3. \E r : Becomes(c, r)
    BY <2>1, <2>2, SettleMoves
  <2> QED BY <2>1, <2>3 DEF Live
<1> QED BY <1>1, <1>2, <1>3, <1>4, <1>5 DEF Gateway

LEMMA CallMoves ==
  ASSUME TypeOK, LayersInv, NEW c \in Calls, Good(c, call[c]),
         Fetch(c) \/ Gateway(c) \/ IdleFires(c) \/ AbortLands(c)
  PROVE  Live(c) /\ OnlyTheCall /\ \E r : Becomes(c, r)
<1>1. CASE Fetch(c)
  <2>1. call[c].at = "built" /\ OnlyTheCall
    BY <1>1 DEF Fetch
  <2>2. \E r : Becomes(c, r)
    BY <1>1, GoodFetched DEF Becomes, Explained
  <2> QED BY <2>1, <2>2 DEF Live
<1>2. CASE IdleFires(c)
  <2>1. /\ call[c].at = "body" /\ call[c].timer = 0 /\ OnlyTheCall
        /\ Settle(c, Raised("transport", 200, "idle"))
    BY <1>2 DEF IdleFires
  <2>2. Raised("transport", 200, "idle") \in Ends /\ Raised("transport", 200, "idle").cause = "idle"
    BY Broken
  <2>3. call[c].silence = IdleTimeout
    BY <2>1, BoundsAssumption DEF Good, CallRecord
  <2>4. \E r : Becomes(c, r)
    BY <2>1, <2>2, <2>3, SettleMoves
  <2> QED BY <2>1, <2>4 DEF Live
<1>3. CASE AbortLands(c)
  <2>1. signal[c] /\ Live(c) /\ Settle(c, Cancelled(c)) /\ OnlyTheCall
    BY <1>3 DEF AbortLands
  <2>2. Cancelled(c) \in Ends /\ Cancelled(c).cause = "cancelled"
    BY CancelledIs
  <2>3. \E r : Becomes(c, r)
    BY <2>1, <2>2, SettleMoves
  <2> QED BY <2>1, <2>3
<1> QED BY <1>1, <1>2, <1>3, GatewayMoves

-----------------------------------------------------------------------------
\* A step that changes one call, and possibly the wait.
LEMMA OneCallStep ==
  ASSUME IInv, NEW c \in Calls, NEW r, Good(c, r), call' = [call EXCEPT ![c] = r],
         UNCHANGED <<key, layers, work, signal, job, compared>>,
         r.at # "idle", layers[r.via] # <<>>,
         c \in Chats /\ work = "compare" => ~Settled(c),
         wait' \in WaitRecord,
         IF c = Poll THEN r.at \in {"built", "sent", "body"} => wait'.at = "polling"
                     ELSE wait' = wait
  PROVE  IInv'
<1>1. TypeOK /\ \A d \in Calls : Good(d, call[d])
  BY DEF IInv
<1>2. r \in CallRecord
  BY DEF Good
<1>3. \A d \in Calls : call'[d] = IF d = c THEN r ELSE call[d]
  BY <1>1 DEF TypeOK
<1>4. TypeOK'
  BY <1>1, <1>2 DEF TypeOK
<1>5. (\A d \in Calls : Good(d, call[d]))'
  <2>1. \A d \in Calls : Good(d, call'[d])
    BY <1>1, <1>3
  <2>2. \A d \in Calls : Good(d, call[d])' <=> Good(d, call'[d])
    BY DEF Good, RetriesOf, CallRecord
  <2> QED BY <2>1, <2>2
<1>6. LayersInv'
  BY <1>3 DEF IInv, LayersInv
<1>7. PollInv'
  BY <1>3 DEF IInv, PollInv, Live, Calls
<1>8. ComparedInv'
  <2>1. Chats \subseteq Calls
    BY DEF Calls
  <2> QED BY <1>3, <2>1 DEF IInv, ComparedInv, Settled
<1> QED BY <1>4, <1>5, <1>6, <1>7, <1>8 DEF IInv

\* A step that leaves the calls alone.
LEMMA CallsStay ==
  ASSUME IInv, UNCHANGED <<work, call>>, TypeOK', LayersInv', PollInv', ComparedInv'
  PROVE  IInv'
<1>1. (\A c \in Calls : Good(c, call[c]))'
  BY DEF IInv, Good, RetriesOf, CallRecord
<1> QED BY <1>1 DEF IInv

\* A call that is under way is changed by the vendor client, the gateway or a timer.
LEMMA CallStep ==
  ASSUME IInv, NEW c \in Calls, Fetch(c) \/ Gateway(c) \/ IdleFires(c) \/ AbortLands(c)
  PROVE  IInv'
<1>1. TypeOK /\ LayersInv /\ Good(c, call[c])
  BY DEF IInv
<1>2. Live(c) /\ OnlyTheCall /\ \E r : Becomes(c, r)
  BY <1>1, CallMoves
<1>3. PICK r : Becomes(c, r)
  BY <1>2
<1>4. Good(c, r) /\ call' = [call EXCEPT ![c] = r] /\ r.at # "idle" /\ r.via = call[c].via
  BY <1>3 DEF Becomes, Explained
<1>5. UNCHANGED <<key, layers, work, signal, job, compared, wait>> /\ wait' \in WaitRecord
  BY <1>1, <1>2 DEF OnlyTheCall, TypeOK
<1>6. layers[r.via] # <<>>
  BY <1>1, <1>2, <1>4 DEF LayersInv, Live
<1>7. ~Settled(c)
  BY <1>2 DEF Live, Settled
<1>8. c = Poll => wait'.at = "polling"
  BY <1>2, <1>5 DEF IInv, PollInv
<1> QED BY <1>4, <1>5, <1>6, <1>7, <1>8, OneCallStep

\* A call that is made: by chat(), by its caller again, or by the wait.
LEMMA StartStep ==
  ASSUME IInv, (\E c \in Chats, via \in Clients : Chat(c, via)) \/ (\E c \in Chats : Again(c))
               \/ StartPoll
  PROVE  IInv'
<1>1. TypeOK /\ LayersInv /\ Chats \subseteq Calls /\ Poll \in Calls
      /\ (\A c \in Calls : Good(c, call[c]))
  BY DEF IInv, Calls
<1>2. CASE \E c \in Chats, via \in Clients : Chat(c, via)
  <2>1. PICK c \in Chats, via \in Clients : Chat(c, via)
    BY <1>2
  <2>2. /\ work = "chat" /\ layers[via] # <<>> /\ call[c].at = "idle" /\ OnlyTheCall
        /\ call' = [call EXCEPT ![c] = Try(c, via)]
    BY <2>1 DEF Chat
  <2>3. c \in Calls /\ Good(c, call[c]) /\ c # Poll
    BY <1>1, PollAssumption
  <2>4. Good(c, Try(c, via)) /\ Try(c, via).via = via /\ Try(c, via).at = "built"
    BY <1>1, <2>2, <2>3, GoodTry
  <2>5. UNCHANGED <<key, layers, work, signal, job, compared>> /\ wait' = wait
        /\ wait' \in WaitRecord
    BY <1>1, <2>2 DEF OnlyTheCall, TypeOK
  <2> QED BY <2>2, <2>3, <2>4, <2>5, OneCallStep
<1>3. CASE \E c \in Chats : Again(c)
  <2>1. PICK c \in Chats : Again(c)
    BY <1>3
  <2>2. /\ work = "chat" /\ call[c].at = "settled" /\ OnlyTheCall
        /\ call' = [call EXCEPT ![c] = Try(c, call[c].via)]
    BY <2>1 DEF Again, Settled
  <2>3. c \in Calls /\ Good(c, call[c]) /\ c # Poll /\ call[c].via \in Clients
    BY <1>1, PollAssumption DEF TypeOK, CallRecord
  <2>4. layers[call[c].via] # <<>>
    BY <1>1, <2>2, <2>3 DEF LayersInv
  <2>5. /\ Good(c, Try(c, call[c].via)) /\ Try(c, call[c].via).via = call[c].via
        /\ Try(c, call[c].via).at = "built"
    BY <1>1, <2>2, <2>3, GoodTry
  <2>6. UNCHANGED <<key, layers, work, signal, job, compared>> /\ wait' = wait
        /\ wait' \in WaitRecord
    BY <1>1, <2>2 DEF OnlyTheCall, TypeOK
  <2> QED BY <2>2, <2>3, <2>4, <2>5, <2>6, OneCallStep
<1>4. CASE StartPoll
  <2>1. /\ wait.at = "deciding" /\ call' = [call EXCEPT ![Poll] = Try(Poll, "parent")]
        /\ wait' = [wait EXCEPT !.at = "polling"]
        /\ UNCHANGED <<key, layers, work, signal, job, compared>>
    BY <1>4 DEF StartPoll
  <2>2. Poll \notin Chats /\ "parent" \in Clients /\ layers["parent"] # <<>>
    BY <1>1, PollAssumption DEF Clients, LayersInv
  <2>3. call[Poll].at \in {"idle", "settled"}
    BY <1>1, <2>1 DEF IInv, PollInv, Live, TypeOK, CallRecord
  <2>4. /\ Good(Poll, Try(Poll, "parent")) /\ Try(Poll, "parent").via = "parent"
        /\ Try(Poll, "parent").at = "built"
    BY <1>1, <2>2, <2>3, GoodTry
  <2>5. wait' \in WaitRecord /\ wait'.at = "polling"
    BY <1>1, <2>1 DEF TypeOK, WaitRecord
  <2> QED BY <1>1, <2>1, <2>2, <2>4, <2>5, OneCallStep
<1> QED BY <1>2, <1>3, <1>4

\* compare() makes all its calls.
LEMMA CompareStep ==
  ASSUME IInv, NEW via \in Clients, Compare(via)
  PROVE  IInv'
<1>1. TypeOK /\ LayersInv /\ PollInv /\ Chats \subseteq Calls /\ Poll \in Calls /\ Poll \notin Chats
      /\ (\A c \in Calls : Good(c, call[c]))
  BY PollAssumption DEF IInv, Calls
<1>2. /\ work = "compare" /\ layers[via] # <<>> /\ \A c \in Chats : call[c].at = "idle"
      /\ call' = [c \in Calls |-> IF c \in Chats THEN Try(c, via) ELSE call[c]]
      /\ UNCHANGED <<key, layers, work, signal, job, wait, compared>>
  BY DEF Compare, OnlyTheCall
<1>3. \A c \in Chats : /\ Good(c, Try(c, via)) /\ Try(c, via).via = via
                       /\ Try(c, via).at = "built"
  BY <1>1, <1>2, GoodTry
<1>4. \A c \in Calls : Good(c, call'[c])
  BY <1>1, <1>2, <1>3
<1>5. (\A c \in Calls : Good(c, call[c]))'
  <2>1. \A c \in Calls : Good(c, call[c])' <=> Good(c, call'[c])
    BY DEF Good, RetriesOf, CallRecord
  <2> QED BY <1>4, <2>1
<1>6. TypeOK'
  <2>1. call' \in [Calls -> CallRecord]
    <3>1. \A c \in Calls : call'[c] \in CallRecord
      BY <1>4 DEF Good
    <3> QED BY <1>2, <3>1
  <2> QED BY <1>1, <1>2, <2>1 DEF TypeOK
<1>7. LayersInv'
  BY <1>1, <1>2, <1>3 DEF LayersInv
<1>8. PollInv'
  <2>1. call'[Poll] = call[Poll]
    BY <1>1, <1>2
  <2> QED BY <1>1, <1>2, <2>1 DEF PollInv, Live
<1>9. ComparedInv'
  BY <1>2 DEF IInv, ComparedInv, Settled
<1> QED BY <1>5, <1>6, <1>7, <1>8, <1>9 DEF IInv

\* The clock: what the timer of a body loses, its silence gains.
LEMMA TickStep ==
  ASSUME IInv, Tick
  PROVE  IInv'
<1> DEFINE Later(c) == [call[c] EXCEPT !.timer = Less(@), !.silence = @ + 1]
<1>1. /\ TypeOK /\ LayersInv /\ PollInv /\ ComparedInv /\ Chats \subseteq Calls /\ Poll \in Calls
      /\ \A c \in Calls : Good(c, call[c])
  BY DEF IInv, Calls
<1>2. /\ UNCHANGED <<key, layers, work, signal, job, compared>>
      /\ call' = [c \in Calls |-> IF call[c].at = "body" THEN Later(c) ELSE call[c]]
      /\ \A c \in Calls : call[c].at = "body" => call[c].timer # 0
  BY DEF Tick, Due
<1>3. ASSUME NEW c \in Calls, call[c].at = "body"
      PROVE  /\ Good(c, Later(c)) /\ Later(c).at = "body" /\ Later(c).via = call[c].via
             /\ Later(c).end = call[c].end
  <2> DEFINE silence == call[c].silence + 1
             timer == call[c].timer - 1
  <2>1. /\ call[c] \in CallRecord /\ call[c].timer \in Nat /\ call[c].silence \in Nat
        /\ call[c].timer # 0 /\ call[c].sends \in Nat
    <3>1. call[c] \in CallRecord
      BY <1>1 DEF TypeOK
    <3> QED BY <1>2, <1>3, <3>1 DEF CallRecord
  <2>2. silence \in Nat /\ timer \in Nat /\ Less(call[c].timer) = timer
    BY <2>1 DEF Less
  <2>3. Later(c) = [call[c] EXCEPT !.timer = timer, !.silence = silence]
    BY <2>2
  <2>4. timer + silence = call[c].timer + call[c].silence
    BY <2>1
  <2> HIDE DEF silence, timer, Later
  <2>5. /\ Later(c) \in CallRecord /\ Later(c).at = "body" /\ Later(c).via = call[c].via
        /\ Later(c).end = call[c].end /\ Later(c).timer = timer /\ Later(c).silence = silence
        /\ Later(c).sends = call[c].sends /\ Later(c).content = call[c].content
    BY <1>3, <2>1, <2>2, <2>3 DEF CallRecord
  <2> QED BY <1>1, <1>3, <2>4, <2>5 DEF Good
<1> HIDE DEF Later
<1>4. \A c \in Calls : /\ Good(c, call'[c]) /\ call'[c].at = call[c].at
                       /\ call'[c].via = call[c].via /\ call'[c].end = call[c].end
  BY <1>1, <1>2, <1>3
<1>5. (\A c \in Calls : Good(c, call[c]))'
  <2>1. \A c \in Calls : Good(c, call[c])' <=> Good(c, call'[c])
    BY DEF Good, RetriesOf, CallRecord
  <2> QED BY <1>4, <2>1
<1>6. wait' \in WaitRecord /\ wait'.at = wait.at
  <2>1. wait \in WaitRecord
    BY <1>1 DEF TypeOK
  <2>2. CASE wait.at \in {"idle", "done"}
    BY <2>1, <2>2 DEF Tick
  <2>3. CASE wait.at \notin {"idle", "done"}
    <3> DEFINE elapsed == IF wait.elapsed < WaitTimeout THEN wait.elapsed + 1 ELSE wait.elapsed
               sleep == Less(wait.sleep)
    <3>1. elapsed \in 0..WaitTimeout /\ sleep \in 0..PollInterval
      BY <2>1, BoundsAssumption DEF WaitRecord, Less
    <3>2. wait' = [wait EXCEPT !.elapsed = elapsed, !.sleep = sleep]
      BY <2>3 DEF Tick
    <3> HIDE DEF elapsed, sleep
    <3> QED BY <2>1, <3>1, <3>2 DEF WaitRecord
  <2> QED BY <2>2, <2>3
<1>7. TypeOK'
  <2>1. call' \in [Calls -> CallRecord]
    <3>1. \A c \in Calls : call'[c] \in CallRecord
      BY <1>4 DEF Good
    <3> QED BY <1>2, <3>1
  <2> QED BY <1>1, <1>2, <1>6, <2>1 DEF TypeOK
<1>8. LayersInv'
  BY <1>1, <1>2, <1>4 DEF LayersInv
<1>9. PollInv'
  BY <1>1, <1>4, <1>6 DEF PollInv, Live
<1>10. ComparedInv'
  BY <1>1, <1>2, <1>4 DEF ComparedInv, Settled
<1> QED BY <1>5, <1>7, <1>8, <1>9, <1>10 DEF IInv

\* The keys and the fetch of the clients.
LEMMA ClientStep ==
  ASSUME IInv, (\E client \in Clients, k \in Keys : Rotate(client, k)) \/ \E k \in Keys : Clone(k)
  PROVE  IInv'
<1>1. TypeOK /\ LayersInv /\ PollInv /\ ComparedInv
  BY DEF IInv
<1>2. /\ UNCHANGED <<work, call, signal, job, wait, compared>>
      /\ PollInv' /\ ComparedInv'
  BY <1>1 DEF Rotate, Clone, PollInv, ComparedInv, Live, Settled
<1>3. key' \in [Clients -> Keys]
  BY <1>1 DEF TypeOK, Rotate, Clone
<1>4. /\ layers' \in [Clients -> Seq(Clients)]
      /\ \A k \in Clients : layers'[k] \in {<<>>, <<k>>}
      /\ layers'["parent"] = <<"parent">>
      /\ \A k \in Clients : layers[k] # <<>> => layers'[k] # <<>>
  <2>1. CASE layers' = layers
    BY <1>1, <2>1 DEF TypeOK, LayersInv
  <2>2. CASE layers' = [layers EXCEPT !["clone"] = <<"clone">>]
    <3>1. <<"clone">> \in Seq(Clients) /\ <<"clone">> # <<>> /\ "clone" # "parent"
      BY DEF Clients
    <3> QED BY <1>1, <2>2, <3>1 DEF TypeOK, LayersInv, Clients
  <2> QED BY <2>1, <2>2 DEF Rotate, Clone
<1>5. TypeOK'
  BY <1>1, <1>2, <1>3, <1>4 DEF TypeOK
<1>6. LayersInv'
  BY <1>1, <1>2, <1>4 DEF LayersInv, TypeOK, CallRecord
<1> QED BY <1>2, <1>5, <1>6, CallsStay

\* What the caller, the wait and the job do beside the calls.
LEMMA CallerStep ==
  ASSUME IInv, CompareReturns \/ (\E c \in Calls : Abort(c))
               \/ \E status \in {"completed", "failed"} : JobEnds(status)
  PROVE  IInv'
<1>1. TypeOK /\ LayersInv /\ PollInv /\ ComparedInv /\ Chats \subseteq Calls
  BY DEF IInv, Calls
<1>2. /\ UNCHANGED <<key, layers, work, call, wait>> /\ LayersInv' /\ PollInv'
  BY <1>1 DEF CompareReturns, Abort, JobEnds, LayersInv, PollInv, Live
<1>3. CASE CompareReturns
  <2>1. /\ UNCHANGED <<signal, job>> /\ work = "compare" /\ compared' = [c \in Chats |-> call[c].end]
        /\ \A c \in Chats : Settled(c)
    BY <1>3 DEF CompareReturns
  <2>2. compared' \in [Chats -> Ends]
    BY <1>1, <2>1 DEF TypeOK, CallRecord
  <2>3. TypeOK'
    BY <1>1, <1>2, <2>1, <2>2 DEF TypeOK
  <2>4. ComparedInv'
    BY <1>2, <2>1 DEF ComparedInv, Settled
  <2> QED BY <1>2, <2>3, <2>4, CallsStay
<1>4. CASE UNCHANGED compared /\ signal' \in [Calls -> BOOLEAN]
           /\ job' \in {"running", "completed", "failed"}
  <2>1. TypeOK'
    BY <1>1, <1>2, <1>4 DEF TypeOK
  <2>2. ComparedInv'
    BY <1>1, <1>2, <1>4 DEF ComparedInv, Settled
  <2> QED BY <1>2, <2>1, <2>2, CallsStay
<1>5. ASSUME NEW c \in Calls, Abort(c)
      PROVE  UNCHANGED compared /\ signal' \in [Calls -> BOOLEAN]
             /\ job' \in {"running", "completed", "failed"}
  BY <1>1, <1>5 DEF Abort, TypeOK
<1>6. ASSUME NEW status \in {"completed", "failed"}, JobEnds(status)
      PROVE  UNCHANGED compared /\ signal' \in [Calls -> BOOLEAN]
             /\ job' \in {"running", "completed", "failed"}
  BY <1>1, <1>6 DEF JobEnds, TypeOK
<1> QED BY <1>3, <1>4, <1>5, <1>6

LEMMA WaitingStep ==
  ASSUME IInv, BeginWait \/ Expire \/ NoticeAbort \/ Collect \/ Report \/ PollRaises \/ Sleep
               \/ Wake
  PROVE  IInv'
<1>1. TypeOK /\ LayersInv /\ PollInv /\ ComparedInv /\ Poll \in Calls /\ wait \in WaitRecord
  BY DEF IInv, TypeOK, Calls
<1>2. UNCHANGED <<key, layers, work, call, signal, job, compared>>
  BY DEF BeginWait, Expire, NoticeAbort, Collect, Report, PollRaises, Sleep, Wake, EndWait
<1>3. ~Live(Poll)
  BY <1>1 DEF PollInv, BeginWait, Expire, NoticeAbort, Collect, Report, PollRaises, Sleep, Wake,
              Polled, Live, Settled
<1>4. wait' \in WaitRecord
  <2>1. ASSUME NEW end \in Ends, EndWait(end)
        PROVE  wait' \in WaitRecord
    BY <1>1, <2>1 DEF EndWait, WaitRecord
  <2>2. CASE Expire \/ NoticeAbort
    <3>1. Raised("transport", 0, "none") \in Ends
      BY EndsOf
    <3> QED BY <2>1, <2>2, <3>1 DEF Expire, NoticeAbort
  <2>3. CASE Collect
    <3>1. Answer("completed") \in Ends
      BY EndsOf DEF Bodies
    <3> QED BY <2>1, <2>3, <3>1 DEF Collect
  <2>4. CASE Report
    <3>1. Kind("odd", 500) = "other"
      BY DEF Kind
    <3>2. Raised(Kind("odd", 500), 500, "none") \in Ends
      BY <3>1, EndsOf
    <3> QED BY <2>1, <2>4, <3>2 DEF Report
  <2>5. CASE PollRaises
    <3>1. call[Poll].end \in Ends
      BY <1>1 DEF TypeOK, CallRecord
    <3> QED BY <2>1, <2>5, <3>1 DEF PollRaises
  <2>6. CASE BeginWait \/ Wake
    BY <1>1, <2>6 DEF BeginWait, Wake, WaitRecord
  <2>7. CASE Sleep
    <3>1. PollInterval \in 0..PollInterval
      BY BoundsAssumption
    <3> QED BY <1>1, <2>7, <3>1 DEF Sleep, WaitRecord
  <2> QED BY <2>2, <2>3, <2>4, <2>5, <2>6, <2>7
<1>5. TypeOK' /\ LayersInv' /\ ComparedInv'
  BY <1>1, <1>2, <1>4 DEF TypeOK, LayersInv, ComparedInv, Settled
<1>6. PollInv'
  BY <1>2, <1>3 DEF PollInv, Live
<1> QED BY <1>2, <1>5, <1>6, CallsStay

-----------------------------------------------------------------------------
LEMMA InitInv == Init => IInv
<1> SUFFICES ASSUME Init PROVE IInv
  OBVIOUS
<1>1. \A c \in Calls : call[c] = Unmade
  BY DEF Init
<1>2. \A c \in Calls : Good(c, call[c]) /\ call[c].at = "idle"
  <2>1. Unmade.at = "idle"
    BY DEF Unmade
  <2> QED BY <1>1, <2>1, GoodUnmade
<1>3. TypeOK
  <2>1. key \in [Clients -> Keys]
    BY KeysAssumption DEF Init
  <2>2. layers \in [Clients -> Seq(Clients)]
    <3>1. <<"parent">> \in Seq(Clients) /\ <<>> \in Seq(Clients)
      BY DEF Clients
    <3> QED BY <3>1 DEF Init
  <2>3. call \in [Calls -> CallRecord]
    BY GoodUnmade DEF Init
  <2>4. Waiting \in WaitRecord
    BY BoundsAssumption, EndsOf DEF Waiting, WaitRecord, Ends
  <2>5. compared \in [Chats -> Ends]
    BY EndsOf DEF Init
  <2> QED BY <2>1, <2>2, <2>3, <2>4, <2>5 DEF Init, TypeOK
<1>4. LayersInv
  <2>1. /\ layers = [k \in Clients |-> IF k = "parent" THEN <<"parent">> ELSE <<>>]
        /\ "parent" \in Clients
    BY DEF Init, Clients
  <2> QED BY <1>2, <2>1 DEF LayersInv
<1>5. PollInv
  BY <1>2 DEF PollInv, Live, Calls
<1>6. ComparedInv
  <2>1. \A c \in Chats : compared[c].kind = "none"
    BY EndsOf DEF Init
  <2> QED BY <2>1 DEF ComparedInv
<1> QED BY <1>2, <1>3, <1>4, <1>5, <1>6 DEF IInv

LEMMA NextInv == IInv /\ [Next]_vars => IInv'
<1> SUFFICES ASSUME IInv, [Next]_vars PROVE IInv'
  OBVIOUS
<1>1. CASE \/ \E client \in Clients, k \in Keys : Rotate(client, k)
           \/ \E k \in Keys : Clone(k)
  BY <1>1, ClientStep
<1>2. CASE \E via \in Clients : Compare(via)
  BY <1>2, CompareStep
<1>3. CASE \/ \E via \in Clients, c \in Chats : Chat(c, via)
           \/ \E c \in Chats : Again(c)
           \/ StartPoll
  BY <1>3, StartStep
<1>4. CASE \E c \in Calls : Fetch(c) \/ Gateway(c) \/ IdleFires(c) \/ AbortLands(c)
  BY <1>4, CallStep
<1>5. CASE CompareReturns \/ (\E c \in Calls : Abort(c))
           \/ \E status \in {"completed", "failed"} : JobEnds(status)
  BY <1>5, CallerStep
<1>6. CASE BeginWait \/ Expire \/ NoticeAbort \/ Collect \/ Report \/ PollRaises \/ Sleep \/ Wake
  BY <1>6, WaitingStep
<1>7. CASE Tick
  BY <1>7, TickStep
<1>8. CASE UNCHANGED vars
  <2>1. UNCHANGED <<key, layers, work, call, signal, job, wait, compared>>
    BY <1>8 DEF vars
  <2>2. TypeOK' /\ LayersInv' /\ PollInv' /\ ComparedInv'
    BY <2>1 DEF IInv, TypeOK, LayersInv, PollInv, ComparedInv, Live, Settled
  <2> QED BY <2>1, <2>2, CallsStay
<1> QED BY <1>1, <1>2, <1>3, <1>4, <1>5, <1>6, <1>7, <1>8 DEF Next, WaitStep

LEMMA InvHolds == Spec => []IInv
BY InitInv, NextInv, PTL DEF Spec

-----------------------------------------------------------------------------
\* Every request, answer and failure is what its type says, at every point of a call.
THEOREM ClientCallsTypeOK == Spec => []TypeOK
<1>1. IInv => TypeOK
  BY DEF IInv
<1> QED BY <1>1, InvHolds, PTL

\* raw(): a billed POST leaves at most once for each call the caller makes, however many
\* retries the client has.
THEOREM ClientCallsOnePost == Spec => []OnePostPerCall
<1>1. IInv => OnePostPerCall
  <2> SUFFICES ASSUME IInv, NEW c \in Calls
               PROVE  call[c].sends <= IF c \in Chats THEN 1 ELSE MaxRetries + 1
    BY DEF OnePostPerCall
  <2>1. Good(c, call[c]) /\ RetriesOf(c) \in Nat
    BY RetriesAreBounded DEF IInv
  <2>2. call[c].sends \in Nat /\ call[c].left \in Nat
        /\ call[c].at \in {"idle", "built", "sent", "body", "settled"}
    BY <2>1 DEF Good, CallRecord
  <2>3. call[c].sends <= RetriesOf(c) + 1
    BY <2>1, <2>2 DEF Good
  <2>4. MaxRetries \in Nat /\ RetriesOf(c) <= IF c \in Chats THEN 0 ELSE MaxRetries
    BY RetriesAreBounded, BoundsAssumption DEF RetriesOf
  <2> QED BY <2>1, <2>2, <2>3, <2>4
<1> QED BY <1>1, InvHolds, PTL

\* compare(): when it has returned, every arm has ended and its slot holds what the arm
\* ended with: what one arm was billed for is not lost to the failure of another.
THEOREM ClientCallsCompare == Spec => []CompareKeepsPaidAnswers
<1>1. IInv => CompareKeepsPaidAnswers
  BY DEF IInv, ComparedInv, CompareKeepsPaidAnswers
<1> QED BY <1>1, InvHolds, PTL

-----------------------------------------------------------------------------
\* What every step leaves of a call: unchanged, moved on by one of the four actions
\* that touch a call under way, made anew, or its body a tick older.
LEMMA StepsOfACall ==
  ASSUME IInv, [Next]_vars, NEW c \in Calls
  PROVE  \/ call'[c] = call[c]
         \/ /\ Live(c) /\ \E r : Becomes(c, r)
         \/ call'[c].at = "built"
         \/ call[c].at = "body" /\ call'[c].at = "body"
<1>1. TypeOK /\ LayersInv /\ Chats \subseteq Calls /\ Poll \in Calls
      /\ (\A d \in Calls : Good(d, call[d]))
  BY DEF IInv, Calls
<1>2. CASE UNCHANGED call
  BY <1>2
<1>3. CASE \E d \in Calls : Fetch(d) \/ Gateway(d) \/ IdleFires(d) \/ AbortLands(d)
  <2>1. PICK d \in Calls : Fetch(d) \/ Gateway(d) \/ IdleFires(d) \/ AbortLands(d)
    BY <1>3
  <2>2. Live(d) /\ \E r : Becomes(d, r)
    BY <1>1, <2>1, CallMoves
  <2>3. CASE d = c
    BY <2>2, <2>3
  <2>4. CASE d # c
    BY <1>1, <2>2, <2>4 DEF Becomes, TypeOK
  <2> QED BY <2>3, <2>4
<1>4. CASE \E via \in Clients : Compare(via)
  <2>1. PICK via \in Clients : Compare(via)
    BY <1>4
  <2>2. /\ call' = [d \in Calls |-> IF d \in Chats THEN Try(d, via) ELSE call[d]]
        /\ \A d \in Chats : call[d].at = "idle"
    BY <2>1 DEF Compare
  <2>3. c \in Chats => Try(c, via).at = "built"
    BY <1>1, <2>2, GoodTry
  <2> QED BY <2>2, <2>3
<1>5. CASE \E d \in Calls, via \in Clients :
             call' = [call EXCEPT ![d] = Try(d, via)] /\ call[d].at \in {"idle", "settled"}
  <2>1. PICK d \in Calls, via \in Clients :
             call' = [call EXCEPT ![d] = Try(d, via)] /\ call[d].at \in {"idle", "settled"}
    BY <1>5
  <2>2. Try(d, via).at = "built"
    BY <1>1, <2>1, GoodTry
  <2> QED BY <1>1, <2>1, <2>2 DEF TypeOK
<1>6. CASE Tick
  <2>1. call[c].at = "body" => call'[c].at = "body"
    BY <1>1, <1>6 DEF Tick, TypeOK, CallRecord
  <2>2. call[c].at # "body" => call'[c] = call[c]
    BY <1>6 DEF Tick
  <2> QED BY <2>1, <2>2
<1>7. ASSUME (\E via \in Clients, d \in Chats : Chat(d, via)) \/ (\E d \in Chats : Again(d))
             \/ StartPoll
      PROVE  \E d \in Calls, via \in Clients :
               call' = [call EXCEPT ![d] = Try(d, via)] /\ call[d].at \in {"idle", "settled"}
  <2>1. ASSUME NEW via \in Clients, NEW d \in Chats, Chat(d, via)
        PROVE  call' = [call EXCEPT ![d] = Try(d, via)] /\ call[d].at \in {"idle", "settled"}
    BY <2>1 DEF Chat
  <2>2. ASSUME NEW d \in Chats, Again(d)
        PROVE  /\ call' = [call EXCEPT ![d] = Try(d, call[d].via)] /\ call[d].via \in Clients
               /\ call[d].at \in {"idle", "settled"}
    BY <1>1, <2>2 DEF Again, Settled, TypeOK, CallRecord
  <2>3. ASSUME StartPoll
        PROVE  /\ call' = [call EXCEPT ![Poll] = Try(Poll, "parent")] /\ "parent" \in Clients
               /\ call[Poll].at \in {"idle", "settled"}
    BY <1>1, <2>3 DEF StartPoll, IInv, PollInv, Live, TypeOK, CallRecord, Clients
  <2> QED BY <1>1, <1>7, <2>1, <2>2, <2>3
<1>8. ASSUME \/ \E client \in Clients, k \in Keys : Rotate(client, k)
             \/ \E k \in Keys : Clone(k)
             \/ CompareReturns \/ (\E d \in Calls : Abort(d))
             \/ \E status \in {"completed", "failed"} : JobEnds(status)
      PROVE  UNCHANGED call
  BY <1>8 DEF Rotate, Clone, CompareReturns, Abort, JobEnds
<1>9. ASSUME BeginWait \/ Expire \/ NoticeAbort \/ Collect \/ Report \/ PollRaises \/ Sleep \/ Wake
      PROVE  UNCHANGED call
  BY <1>9 DEF BeginWait, Expire, NoticeAbort, Collect, Report, PollRaises, Sleep, Wake, EndWait
<1>10. ASSUME UNCHANGED vars
       PROVE  UNCHANGED call
  BY <1>10 DEF vars
<1> QED BY <1>2, <1>3, <1>4, <1>5, <1>6, <1>7, <1>8, <1>9, <1>10 DEF Next, WaitStep

\* pinnedFetch: what leaves carries the key that is live on the client the caller called,
\* whatever was assigned to it, or to a clone of it, since the headers were built.
THEOREM ClientCallsKeyIsLive == Spec => KeyIsLive
<1>1. ASSUME IInv, [Next]_vars
      PROVE  [\A c \in Calls : call'[c].at = "sent" /\ call[c].at # "sent"
                 => call'[c].header = key[call[c].via]]_vars
  <2> SUFFICES ASSUME NEW c \in Calls, call'[c].at = "sent", call[c].at # "sent"
               PROVE  call'[c].header = key[call[c].via]
    OBVIOUS
  <2>1. PICK r : Becomes(c, r)
    BY <1>1, StepsOfACall
  <2>2. call'[c] = r
    BY <1>1, <2>1 DEF Becomes, IInv, TypeOK
  <2> QED BY <2>1, <2>2 DEF Becomes, Explained
<1> QED BY <1>1, InvHolds, PTL DEF Spec, KeyIsLive

\* withBodyIdleTimeout, responseFromApiError, isRetryable: no body is waited for longer
\* than its idle timeout, a failure names an idle body only when the whole timeout was
\* silent and a cancellation only after an abort, and nobody tries an aborted call again.
THEOREM ClientCallsFailures == Spec => FailureIsWhatHappened
<1> DEFINE Told(c) ==
       /\ call'[c].silence <= IdleTimeout
       /\ ~Settled(c) /\ call'[c].at = "settled" /\ call'[c].end.kind # "answer"
          => /\ call'[c].end.cause = "idle"      => call[c].silence = IdleTimeout
             /\ call'[c].end.cause = "cancelled" => signal[c]
       /\ AbortLands(c) => ~Retryable(call'[c].end)
<1>1. ASSUME IInv, [Next]_vars
      PROVE  [\A c \in Calls : Told(c)]_vars
  <2> SUFFICES ASSUME NEW c \in Calls
               PROVE  Told(c)
    OBVIOUS
  <2>1. call \in [Calls -> CallRecord] /\ IInv'
    BY <1>1, NextInv DEF IInv, TypeOK
  <2>2. call'[c].silence <= IdleTimeout
    <3>1. Good(c, call[c])'
      BY <2>1 DEF IInv
    <3>2. Good(c, call'[c])
      BY <3>1 DEF Good, RetriesOf, CallRecord
    <3> QED BY <3>2, BoundsAssumption DEF Good, CallRecord
  <2>3. ASSUME ~Settled(c), call'[c].at = "settled", call'[c].end.kind # "answer"
        PROVE  /\ call'[c].end.cause = "idle"      => call[c].silence = IdleTimeout
               /\ call'[c].end.cause = "cancelled" => signal[c]
    <3>1. PICK r : Becomes(c, r)
      BY <1>1, <2>3, StepsOfACall DEF Settled
    <3>2. call'[c] = r
      BY <2>1, <3>1 DEF Becomes
    <3> QED BY <2>3, <3>1, <3>2 DEF Becomes, Explained
  <2>4. ASSUME AbortLands(c)
        PROVE  ~Retryable(call'[c].end)
    <3>1. call' = [call EXCEPT ![c] = Closed(c, Cancelled(c))]
      BY <2>4 DEF AbortLands, Settle, Closed
    <3>2. Cancelled(c) \in Ends /\ Cancelled(c).cause = "cancelled"
      BY CancelledIs
    <3>3. Closed(c, Cancelled(c)).end = Cancelled(c)
      BY <1>1, <3>2, GoodSettled DEF IInv
    <3> QED BY <2>1, <3>1, <3>2, <3>3 DEF Retryable
  <2> QED BY <2>2, <2>3, <2>4
<1> QED BY <1>1, InvHolds, PTL DEF Spec, FailureIsWhatHappened

=============================================================================
