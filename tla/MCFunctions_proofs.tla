-------------------------- MODULE MCFunctions_proofs --------------------------
(***************************************************************************)
(* Four of the pure functions hold to their promises on every input, not   *)
(* on the bounded ones alone: slidingWindow for every history and limit,   *)
(* computeJitteredBackoff for every attempt, base, jitter and time the     *)
(* server names, the options of a chat call whatever numbers and tools     *)
(* they name, and a conversation of any length on the Anthropic wire and   *)
(* back.  The run's properties follow from these theorems, by what the     *)
(* inputs of the run are.                                                  *)
(***************************************************************************)
EXTENDS MCFunctions, SequenceTheorems, WellFoundedInduction, TLAPS

\* What the window of a history is held to, for a history, a limit and a choice of its own.
Newest(all, max, preserve) ==
  LET kept  == W!Window(all, max, preserve)
      limit == W!Floor(max)
  IN  /\ \E n \in 0..Len(all) :
           \/ kept = W!LastTurns(all, n)
           \/ /\ n < Len(all) /\ preserve /\ W!HasLead(all)
              /\ kept = <<all[1]>> \o W!LastTurns(all, n)
      /\ max.kind = "number" =>
           (limit > 0 => Len(kept) = IF Len(all) < limit THEN Len(all) ELSE limit)

\* The last n turns of a history are n turns of it.
LEMMA LastTurnsOf ==
  ASSUME NEW S, NEW all \in Seq(S), NEW n \in 0..Len(all)
  PROVE  /\ W!LastTurns(all, n) \in Seq(S) /\ Len(W!LastTurns(all, n)) = n
         /\ n = Len(all) => W!LastTurns(all, n) = all
         /\ n = 0 => W!LastTurns(all, n) = <<>>
<1> DEFINE m == Len(all)
<1>1. m \in Nat
  BY LenProperties
<1>2. \A i \in (m - n + 1)..m : all[i] \in S
  BY <1>1, ElementOfSeq
<1>3. m - n + 1 \in Nat /\ m - n + 1 \in Nat \ {0}
  BY <1>1
<1>4. /\ W!LastTurns(all, n) \in Seq(S)
      /\ Len(W!LastTurns(all, n)) = IF m - n + 1 <= m THEN m - (m - n + 1) + 1 ELSE 0
  BY <1>1, <1>2, <1>3, SubSeqProperties DEF W!LastTurns
<1>5. Len(W!LastTurns(all, n)) = n
  BY <1>1, <1>4
<1>6. ASSUME n = m PROVE W!LastTurns(all, n) = all
  <2>1. m - n + 1 = 1
    BY <1>1, <1>6
  <2>2. W!LastTurns(all, n) = SubSeq(all, 1, m)
    BY <2>1, Zenon DEF W!LastTurns
  <2> QED BY <2>2, SubSeqFull
<1>7. ASSUME n = 0 PROVE W!LastTurns(all, n) = <<>>
  BY <1>4, <1>5, <1>7, EmptySeq
<1> QED BY <1>4, <1>5, <1>6, <1>7

\* slidingWindow: for every history and every limit, the window is what it is held to.
THEOREM WindowIsNewest ==
  ASSUME NEW S, NEW all \in Seq(S), NEW max \in W!Limit, NEW preserve \in BOOLEAN
  PROVE  Newest(all, max, preserve)
<1> DEFINE m == Len(all)
           limit == W!Floor(max)
           kept == W!Window(all, max, preserve)
<1>1. m \in Nat /\ 0 \in 0..m /\ m \in 0..m
  BY LenProperties
<1>2. W!LastTurns(all, m) = all /\ W!LastTurns(all, 0) = <<>>
  BY <1>1, LastTurnsOf
<1>3. CASE max.kind \in {"undefined", "nonfinite"}
  <2>1. kept \in {all, <<>>} /\ max.kind # "number"
    BY <1>3 DEF W!Window
  <2> QED BY <1>1, <1>2, <2>1, Zenon DEF Newest
<1>4. CASE max.kind = "number"
  <2>1. max.halves \in Int /\ limit \in Int /\ (max.halves <= 0 => ~(limit > 0))
    BY <1>4 DEF W!Limit, W!Floor
  <2>2. CASE max.halves <= 0
    <3>1. kept = <<>> /\ ~(limit > 0)
      BY <1>4, <2>1, <2>2 DEF W!Window
    <3> QED BY <1>1, <1>2, <3>1, Zenon DEF Newest
  <2>3. CASE max.halves > 0 /\ m <= limit
    <3>1. kept = all
      <4>1. max.kind # "undefined" /\ max.kind # "nonfinite" /\ ~(max.halves <= 0)
        BY <1>4, <2>1, <2>3
      <4> QED BY <2>3, <4>1, Zenon DEF W!Window
    <3>2. m = IF m < limit THEN m ELSE limit
      BY <1>1, <2>1, <2>3
    <3> QED BY <1>1, <1>2, <3>1, <3>2, Zenon DEF Newest
  <2>4. CASE max.halves > 0 /\ ~(m <= limit)
    <3>1. kept = W!Pruned(all, limit, preserve) /\ limit \in 0..m /\ limit < m /\ ~(m < limit)
      <4>1. limit >= 0
        BY <1>4, <2>1, <2>4 DEF W!Floor
      <4>2. kept = W!Pruned(all, limit, preserve)
        BY <1>4, <2>1, <2>4 DEF W!Window
      <4> QED BY <1>1, <2>1, <2>4, <4>1, <4>2
    <3>2. CASE preserve /\ W!HasLead(all) /\ limit > 1
      <4>1. limit - 1 \in 0..m /\ limit - 1 < m /\ limit # 1 /\ 1 + (limit - 1) = limit
        BY <1>1, <3>1, <3>2
      <4>2. kept = <<all[1]>> \o W!LastTurns(all, limit - 1)
        BY <3>1, <3>2, <4>1 DEF W!Pruned
      <4>3. /\ W!LastTurns(all, limit - 1) \in Seq(S) /\ Len(W!LastTurns(all, limit - 1)) = limit - 1
            /\ <<all[1]>> \in Seq(S) /\ Len(<<all[1]>>) = 1
        <5>1. all[1] \in S
          BY <1>1, <3>1, ElementOfSeq
        <5> QED BY <4>1, <5>1, LastTurnsOf
      <4>4. \A x, y \in Seq(S) : Len(x \o y) = Len(x) + Len(y)
        BY ConcatProperties
      <4>5. Len(kept) = limit
        BY <4>1, <4>2, <4>3, <4>4, Zenon
      <4> QED BY <3>1, <3>2, <4>1, <4>2, <4>5, Zenon DEF Newest
    <3>3. CASE preserve /\ W!HasLead(all) /\ limit = 0
      <4>1. kept = <<all[1]>> \o W!LastTurns(all, limit - 1)
        BY <3>1, <3>3 DEF W!Pruned
      <4>2. W!LastTurns(all, limit - 1) = W!LastTurns(all, 0)
        <5>1. W!LastTurns(all, limit - 1) = SubSeq(all, m - (limit - 1) + 1, m)
          BY Zenon DEF W!LastTurns
        <5>2. m - (limit - 1) + 1 = m + 2
          BY <1>1, <3>3
        <5>3. SubSeq(all, m + 2, m) = <<>>
          BY <1>1, SubSeqEmpty
        <5> QED BY <1>2, <5>1, <5>2, <5>3, Zenon
      <4>3. ~(limit > 0) /\ 0 < m
        BY <1>1, <3>1, <3>3
      <4> QED BY <1>1, <3>3, <4>1, <4>2, <4>3, Zenon DEF Newest
    <3>4. CASE ~(preserve /\ W!HasLead(all) /\ limit # 1)
      <4>1. kept = W!LastTurns(all, limit)
        BY <3>1, <3>4 DEF W!Pruned
      <4>2. Len(kept) = limit
        BY <3>1, <4>1, LastTurnsOf
      <4> QED BY <3>1, <4>1, <4>2, Zenon DEF Newest
    <3> QED BY <1>1, <3>1, <3>2, <3>3, <3>4
  <2> QED BY <2>1, <2>2, <2>3, <2>4
<1> QED BY <1>3, <1>4 DEF W!Limit

-----------------------------------------------------------------------------
\* Induction, from the well-founded order of the numbers.
Below == { p \in Nat \X Nat : p[1] < p[2] }

\* A set that holds 0 and every successor holds every number.
LEMMA InductionOnNat ==
  ASSUME NEW T, 0 \in T, \A n \in Nat : n \in T => n + 1 \in T
  PROVE  Nat \subseteq T
<1> SUFFICES ASSUME Nat \ T # {} PROVE FALSE
  OBVIOUS
<1>1. IsWellFoundedOn(Below, Nat)
  BY NatLessThanWellFounded, Zenon DEF OpToRel, Below
<1>2. PICK n \in Nat \ T : \A m \in Nat \ T : <<m, n>> \notin Below
  BY <1>1, WFMin
<1>3. n # 0 /\ n - 1 \in Nat /\ n - 1 \in T
  <2>1. n # 0 /\ n - 1 \in Nat /\ n - 1 < n /\ <<n - 1, n>> \in Nat \X Nat
    BY <1>2
  <2>2. <<n - 1, n>> \in Below
    BY <2>1 DEF Below
  <2> QED BY <1>2, <2>1, <2>2
<1> QED BY <1>2, <1>3

-----------------------------------------------------------------------------
\* The delay as it doubles.
Grows(base, max, m, grown) ==
  grown = [n \in 0..m |-> IF n = 0 THEN D!Lesser(max, base) ELSE D!Lesser(max, 2 * grown[n - 1])]

\* A delay can be doubled any number of times.
LEMMA GrowsOn ==
  ASSUME NEW base, NEW max
  PROVE  \A m \in Nat : \E grown : Grows(base, max, m, grown)
<1> DEFINE T == { m \in Nat : \E grown : Grows(base, max, m, grown) }
<1>1. 0 \in T
  <2>1. Grows(base, max, 0, [n \in 0..0 |-> D!Lesser(max, base)])
    BY DEF Grows
  <2> QED BY <2>1
<1>2. ASSUME NEW m \in Nat, m \in T
      PROVE  m + 1 \in T
  <2>1. PICK grown : Grows(base, max, m, grown)
    BY <1>2
  <2> DEFINE more == [n \in 0..(m + 1) |->
                        IF n = m + 1 THEN D!Lesser(max, 2 * grown[m]) ELSE grown[n]]
  <2>2. ASSUME NEW n \in 0..(m + 1)
        PROVE  more[n] = IF n = 0 THEN D!Lesser(max, base) ELSE D!Lesser(max, 2 * more[n - 1])
    <3>1. CASE n = m + 1
      <4>1. n # 0 /\ n - 1 \in 0..(m + 1) /\ n - 1 # m + 1 /\ n - 1 = m
        BY <3>1
      <4>2. more[n] = D!Lesser(max, 2 * grown[m]) /\ more[n - 1] = grown[m]
        BY <3>1, <4>1, Zenon
      <4> HIDE DEF more
      <4> QED BY <4>1, <4>2, Zenon
    <3>2. CASE n # m + 1
      <4>1. n \in 0..m /\ (n # 0 => n - 1 \in 0..(m + 1) /\ n - 1 # m + 1)
        BY <3>2
      <4>2. grown[n] = IF n = 0 THEN D!Lesser(max, base) ELSE D!Lesser(max, 2 * grown[n - 1])
        BY <2>1, <4>1, Zenon DEF Grows
      <4>3. more[n] = grown[n] /\ (n # 0 => more[n - 1] = grown[n - 1])
        BY <3>2, <4>1, Zenon
      <4> HIDE DEF more
      <4> QED BY <4>2, <4>3, Zenon
    <3> QED BY <3>1, <3>2
  <2>3. Grows(base, max, m + 1, more)
    <3>1. more = [n \in 0..(m + 1) |-> more[n]]
      BY Zenon
    <3> HIDE DEF more
    <3> QED BY <2>2, <3>1, Zenon DEF Grows
  <2> QED BY <2>3
<1>3. Nat \subseteq T
  <2> HIDE DEF T
  <2> QED BY <1>1, <1>2, InductionOnNat
<1> QED BY <1>3

\* It never grows beyond its maximum.
LEMMA ExponentialIsBounded ==
  ASSUME NEW attempt \in Int, NEW base \in Int, NEW max \in Int
  PROVE  D!Exponential(attempt, base, max) \in Int /\ D!Exponential(attempt, base, max) <= max
<1> DEFINE last  == D!MaxAttempt
           grown == CHOOSE g : Grows(base, max, last, g)
           T     == { n \in Nat : n <= last => grown[n] \in Int /\ grown[n] <= max }
<1>1. last \in Nat
  BY DEF D!MaxAttempt
<1>2. Grows(base, max, last, grown)
  BY <1>1, GrowsOn, Zenon
<1>3. D!Exponential(attempt, base, max) = grown[D!Within(0, attempt, last)]
  BY Zenon DEF D!Exponential, Grows
<1> HIDE DEF grown, last
<1>4. \A n \in 0..last :
        grown[n] = IF n = 0 THEN D!Lesser(max, base) ELSE D!Lesser(max, 2 * grown[n - 1])
  BY <1>2, Zenon DEF Grows
<1>5. Nat \subseteq T
  <2>1. 0 \in T
    BY <1>1, <1>4 DEF D!Lesser
  <2>2. ASSUME NEW n \in Nat, n \in T PROVE n + 1 \in T
    <3>1. CASE n + 1 <= last
      <4>1. n + 1 \in 0..last /\ n + 1 # 0 /\ (n + 1) - 1 = n /\ grown[n] \in Int
        BY <1>1, <2>2, <3>1
      <4>2. grown[n + 1] = D!Lesser(max, 2 * grown[n])
        BY <1>4, <4>1, Zenon
      <4> QED BY <4>1, <4>2 DEF D!Lesser
    <3> QED BY <3>1
  <2> HIDE DEF T
  <2> QED BY <2>1, <2>2, InductionOnNat
<1>6. D!Within(0, attempt, last) \in Nat /\ D!Within(0, attempt, last) <= last
  BY <1>1 DEF D!Within, D!Greater, D!Lesser
<1> QED BY <1>3, <1>5, <1>6

\* A percentage of a number is no more than its bound.
LEMMA PartOf ==
  ASSUME NEW a \in Int, NEW part \in 0..100, NEW max \in Nat, a <= max
  PROVE  (a * part) \div 100 \in Int /\ (a * part) \div 100 <= max
<1>1. a * part \in Int /\ a * part <= 100 * max
  <2>1. CASE a <= 0
    <3>1. a * part <= 0
      BY <2>1, SMTT(20)
    <3> QED BY <3>1
  <2>2. CASE a > 0
    <3>1. a * part <= a * 100
      BY <2>2, SMTT(20)
    <3> QED BY <3>1
  <2> QED BY <2>1, <2>2
<1>2. \A x \in Int : x <= 100 * max => x \div 100 \in Int /\ x \div 100 <= max
  OBVIOUS
<1> QED BY <1>1, <1>2

\* A jitter in percent of what was drawn.
LEMMA DrawnPart ==
  ASSUME NEW jitter \in 0..100, NEW drawn \in 0..99
  PROVE  /\ (drawn * jitter) \div 100 \in 0..jitter
<1>1. drawn * jitter \in Int /\ 0 <= drawn * jitter /\ drawn * jitter <= 100 * jitter
  BY SMTT(20)
<1>2. \A x \in Int : 0 <= x /\ x <= 100 * jitter => x \div 100 \in 0..jitter
  OBVIOUS
<1> QED BY <1>1, <1>2

\* A day, in seconds.
LEMMA RetryMaximum == D!MaxRetryAfter \in Int /\ 1 <= D!MaxRetryAfter /\ D!MaxRetryAfter <= 86400
BY SMTT(40) DEF D!MaxRetryAfter

\* A day and its whole jitter fit a timer, and so does what is no longer than maxDelayMs.
LEMMA TimerFits ==
  /\ D!TimerMax \in Nat
  /\ \A t \in 1..D!MaxRetryAfter, x \in Int :
       x >= 100 * t /\ x <= 200 * t => x \in 0..D!TimerMax
  /\ \A max \in 0..D!TimerMax, x \in Int :
       x <= max => D!Greater(0, x) \in 0..D!TimerMax /\ D!Greater(0, x) <= max
<1>1. D!TimerMax \in Nat /\ 17280000 <= D!TimerMax
  BY SMTT(40) DEF D!TimerMax
<1>2. \A t \in 1..D!MaxRetryAfter : t \in Int /\ 0 <= t /\ t <= 86400
  <2>1. \A top \in Int : top <= 86400 => \A t \in 1..top : t \in Int /\ 0 <= t /\ t <= 86400
    BY SMTT(40)
  <2> QED BY <2>1, RetryMaximum, SMTT(40)
<1>3. \A t, x \in Int : 0 <= t /\ t <= 86400 /\ x >= 100 * t /\ x <= 200 * t => 0 <= x /\ x <= 17280000
  BY SMT
<1>4. \A t \in 1..D!MaxRetryAfter, x \in Int :
        x >= 100 * t /\ x <= 200 * t => x \in 0..D!TimerMax
  BY <1>1, <1>2, <1>3, SMT
<1>5. \A max \in 0..D!TimerMax, x \in Int :
        x <= max => D!Greater(0, x) \in 0..D!TimerMax /\ D!Greater(0, x) <= max
  BY <1>1, SMT DEF D!Greater
<1> QED BY <1>1, <1>4, <1>5, SMT

\* What the delay before a retry is held to.
Waits(o) ==
  /\ D!Backoff(o) \in 0..D!TimerMax
  /\ \A s \in o.given : D!Backoff(o) >= 100 * D!Lesser(s, D!MaxRetryAfter)
  /\ o.given \subseteq {0} => D!Backoff(o) <= o.max

\* computeJitteredBackoff: for any attempt, base, jitter and time the server names, and
\* any maximum that a timer can take.
THEOREM BackoffHonoursTheServer ==
  ASSUME NEW o, o.attempt \in Int, o.base \in Int, o.max \in 0..D!TimerMax, o.jitter \in Int,
         o.drawn \in 0..99, o.given \subseteq Int, \A s, t \in o.given : s = t
  PROVE  Waits(o)
<1> DEFINE jitter == D!Within(0, o.jitter, 100)
           drawn  == (o.drawn * jitter) \div 100
           times  == { t \in o.given : t > 0 }
           delays == { D!ServerDelay(s, jitter, o.drawn) : s \in times }
<1>1. jitter \in 0..100
  BY DEF D!Within, D!Greater, D!Lesser
<1>2. drawn \in 0..jitter
  BY <1>1, DrawnPart
<1>3. CASE times # {}
  <2>1. PICK s \in o.given : s > 0 /\ s \in Int
    BY <1>3
  <2>2. \A t \in o.given : t = s
    BY <2>1
  <2>3. delays = {D!ServerDelay(s, jitter, o.drawn)}
    BY <2>1, <2>2, Zenon
  <2>4. D!Backoff(o) = D!ServerDelay(s, jitter, o.drawn)
    <3>1. D!Backoff(o) = CHOOSE d \in delays : TRUE
      BY <2>3, Zenon DEF D!Backoff
    <3> QED BY <2>3, <3>1, Zenon
  <2>5. D!ServerDelay(s, jitter, o.drawn) = D!Lesser(s, D!MaxRetryAfter) * (100 + drawn)
    BY Zenon DEF D!ServerDelay
  <2> DEFINE time == D!Lesser(s, D!MaxRetryAfter)
  <2>6. time \in 1..D!MaxRetryAfter /\ time \in Nat
    BY <2>1, RetryMaximum, SMTT(40) DEF D!Lesser
  <2> HIDE DEF time, drawn, jitter
  <2>7. time * (100 + drawn) \in Int /\ time * (100 + drawn) >= 100 * time /\ time * (100 + drawn) <= 200 * time
    <3>1. drawn \in 0..100
      BY <1>1, <1>2
    <3>2. time * (100 + drawn) = 100 * time + time * drawn
      BY <2>6, <3>1, SMTT(20)
    <3>3. time * drawn \in Int /\ 0 <= time * drawn /\ time * drawn <= time * 100
      BY <2>6, <3>1, SMTT(20)
    <3> QED BY <2>6, <3>1, <3>2, <3>3
  <2>8. D!Backoff(o) = time * (100 + drawn)
    BY <2>4, <2>5, Zenon DEF time
  <2>9. D!Backoff(o) \in 0..D!TimerMax /\ D!Backoff(o) >= 100 * time
    BY <2>6, <2>7, <2>8, TimerFits, Zenon
  <2>10. ~(o.given \subseteq {0})
    BY <2>1
  <2>11. \A t \in o.given : D!Backoff(o) >= 100 * D!Lesser(t, D!MaxRetryAfter)
    BY <2>2, <2>9, Zenon DEF time
  <2> QED BY <2>9, <2>10, <2>11 DEF Waits
<1>4. CASE times = {}
  <2>1. delays = {}
    BY <1>4, Zenon
  <2> DEFINE own == D!OwnDelay(o.attempt, o.base, o.max, jitter, o.drawn)
             part == 100 - jitter + drawn
  <2>2. D!Backoff(o) = D!Greater(0, own)
    BY <2>1, Zenon DEF D!Backoff
  <2>3. part \in 0..100
    BY <1>1, <1>2
  <2>4. own = (D!Exponential(o.attempt, o.base, o.max) * part) \div 100
    BY Zenon DEF D!OwnDelay
  <2>5. own \in Int /\ own <= o.max
    <3>1. o.max \in Nat /\ o.max \in Int
      BY TimerFits
    <3> HIDE DEF part, own
    <3> QED BY <2>3, <2>4, <3>1, ExponentialIsBounded, PartOf
  <2> HIDE DEF own
  <2>6. D!Backoff(o) \in 0..D!TimerMax /\ D!Backoff(o) <= o.max
    BY <2>2, <2>5, TimerFits, Zenon
  <2>7. \A s \in o.given : 100 * D!Lesser(s, D!MaxRetryAfter) <= 0
    BY <1>4, RetryMaximum, SMTT(40) DEF D!Lesser
  <2> HIDE DEF times
  <2>8. \A s \in o.given : D!Lesser(s, D!MaxRetryAfter) \in Int
    BY RetryMaximum, SMTT(40) DEF D!Lesser
  <2>9. \A s \in o.given : D!Backoff(o) >= 100 * D!Lesser(s, D!MaxRetryAfter)
    BY <2>6, <2>7, <2>8
  <2> QED BY <2>6, <2>9 DEF Waits
<1> QED BY <1>3, <1>4

-----------------------------------------------------------------------------
\* The options of a chat call: any numbers, any names of tools but those of a choice.
IsRequest(o) ==
  /\ o.model \in R!Ids /\ o.canonical \in R!Ids /\ o.provider \in R!Providers
  /\ {o.advanced, o.twice, o.schema} \subseteq BOOLEAN
  /\ {o.tenancy, o.guardrails} \subseteq BOOLEAN
  /\ o.temperature \subseteq Int /\ o.topP \subseteq Int
  /\ o.tools = {} \/ \E names : o.tools = {names} /\ names \cap (R!Words \cup {"any"}) = {}
  /\ o.choice = {} \/ \E c : o.choice = {c}
  /\ o.extra.temperature \subseteq Nat
  /\ o.extra.n \subseteq Nat \ {0}

\* What a request that is not refused is held to.
Kept(o) ==
  LET b == R!Body(o)
      a == R!Anthropic(b)
  IN  /\ R!IsClaude(o) /\ o.extra.temperature = {} =>
           b.temperature = {} \/ b.topP = {}
      /\ R!Deprecated(o) => b.topP \cup (b.temperature \ o.extra.temperature) = {}
      /\ R!MessagesWire(o) =>
           /\ Callable(a.tools, a.choice) = Callable(b.tools, b.choice)
           /\ a.temperature \cup a.topP \subseteq 0..R!AnthropicMax
           /\ b.n \subseteq {1}
           /\ b.seed \cup b.logprobs \cup b.format \subseteq R!Declined
           /\ a.serial <=> TRUE \in b.serial /\ "serial" \notin R!Dropped(b)

\* The tools a model may call and must call are the same on either side.
LEMMA ToolsAreLeftAsTheyWere ==
  ASSUME NEW b, NEW o, b.tools = o.tools, b.choice = o.choice, ~R!RefusesTools(o), IsRequest(o)
  PROVE  Callable(R!ToolsSent(b), R!ChoiceSent(b)) = Callable(b.tools, b.choice)
<1>1. R!Tools(b) = b.tools
  BY DEF R!Tools, R!RefusesTools
<1>2. CASE b.tools = {}
  <2>1. b.choice = {} /\ R!ToolsSent(b) = {} /\ R!ChoiceSent(b) = {}
    BY <1>1, <1>2 DEF R!RefusesTools, R!Absent, R!ToolsSent, R!ChoiceSent
  <2> QED BY <1>2, <2>1
<1>3. ASSUME NEW names, b.tools = {names}, names \cap (R!Words \cup {"any"}) = {}
      PROVE  Callable(R!ToolsSent(b), R!ChoiceSent(b)) = Callable(b.tools, b.choice)
  <2>1. UNION b.tools = names /\ b.tools # {}
    BY <1>3
  <2>2. CASE b.choice = {}
    <3>1. R!ToolsSent(b) = b.tools
      BY <1>1, <2>2 DEF R!ToolsSent, R!Suppressed
    <3>2. R!ChoiceSent(b) \in {{}, {"auto"}}
      BY <1>3, <2>1, <2>2, <3>1 DEF R!ChoiceSent, R!Absent, R!Choice
    <3>3. "auto" \notin names
      BY <1>3 DEF R!Words
    <3> QED BY <2>1, <2>2, <3>1, <3>2, <3>3 DEF Callable
  <2>3. ASSUME NEW c, b.choice = {c}
        PROVE  Callable(R!ToolsSent(b), R!ChoiceSent(b)) = Callable(b.tools, b.choice)
    <3>0. c \in R!Words \cup names
      BY <1>3, <2>3 DEF R!RefusesTools
    <3>1. CASE c = "none"
      <4>1. R!ToolsSent(b) = {} /\ R!ChoiceSent(b) = {}
        BY <1>1, <1>3, <2>3, <3>1 DEF R!ToolsSent, R!Suppressed, R!ChoiceSent, R!Absent
      <4>2. Callable({}, {}) = [may |-> {}, must |-> FALSE]
        BY DEF Callable
      <4>3. Callable(b.tools, b.choice) = [may |-> {}, must |-> FALSE]
        <5>1. b.choice = {"none"}
          BY <2>3, <3>1
        <5>2. b.choice \notin {{"required"}, {"any"}} /\ b.choice \notin { {d} : d \in names }
          BY <1>3, <5>1 DEF R!Words
        <5> QED BY <2>1, <5>1, <5>2 DEF Callable
      <4> QED BY <4>1, <4>2, <4>3
    <3>2. CASE c # "none"
      <4>1. R!ToolsSent(b) = b.tools
        BY <1>1, <2>3, <3>2 DEF R!ToolsSent, R!Suppressed
      <4>2. R!ChoiceSent(b) = R!Choice(b)
        BY <2>1, <2>3, <4>1 DEF R!ChoiceSent, R!Absent
      <4>3. R!Choice(b) = CASE c = "auto"            -> {"auto"}
                            [] c = "required"        -> {"any"}
                            [] c \in {"none", "odd"} -> {}
                            [] c \notin R!Words      -> {c}
        BY <2>3 DEF R!Choice
      <4>4. \A w \in R!Words \cup {"any"} : w \notin names
        BY <1>3
      <4>5. CASE c \in R!Words
        <5>1. c \in {"auto", "required", "odd"}
          BY <3>2, <4>5 DEF R!Words
        <5>2. c = "auto" => R!Choice(b) = {"auto"}
          BY <4>3, Zenon
        <5>3. c = "required" => R!Choice(b) = {"any"}
          BY <2>3 DEF R!Choice, R!Words
        <5>4. c = "odd" => R!Choice(b) = {}
          BY <2>3 DEF R!Choice, R!Words
        <5>5. "auto" \notin names /\ "any" \notin names /\ "odd" \notin names /\ "required" \notin names
          BY <4>4 DEF R!Words
        <5> QED BY SMTT(20), <2>1, <2>3, <4>1, <4>2, <5>1, <5>2, <5>3, <5>4, <5>5 DEF Callable
      <4>6. CASE c \notin R!Words
        <5>1. R!Choice(b) = {c}
          BY <4>3, <4>6 DEF R!Words
        <5> QED BY <2>3, <4>1, <4>2, <5>1
      <4> QED BY <4>5, <4>6
    <3> QED BY <3>1, <3>2
  <2> QED BY <2>2, <2>3 DEF IsRequest
<1> QED BY <1>2, <1>3 DEF IsRequest

\* The switch against parallel calls is sent or told as dropped.
LEMMA SwitchIsSentOrTold ==
  ASSUME NEW b, NEW o, b.tools = o.tools, b.choice = o.choice, ~R!RefusesTools(o),
         b.serial \subseteq BOOLEAN
  PROVE  R!SerialSent(b) <=> TRUE \in b.serial /\ "serial" \notin R!Dropped(b)
<1> DEFINE lost == \/ R!ToolsSent(b) = R!Absent /\ b.serial # R!Absent
                   \/ R!ToolsSent(b) # R!Absent /\ R!ChoiceSent(b) = R!Absent /\ TRUE \in b.serial
<1>1. "serial" \in R!Dropped(b) <=> lost
  BY DEF R!Dropped
<1>2. R!ToolsSent(b) = R!Absent => R!ChoiceSent(b) = R!Absent
  BY DEF R!ChoiceSent
<1>3. TRUE \in b.serial => b.serial # R!Absent
  BY DEF R!Absent
<1> HIDE DEF lost
<1> QED BY <1>1, <1>2, <1>3, Zenon DEF R!SerialSent, lost

\* chat(): what is asked is sent or refused, whatever numbers and tools are asked.
THEOREM RequestsAreKept ==
  ASSUME NEW o, IsRequest(o), o.extra.serial \subseteq BOOLEAN, ~R!Refused(o)
  PROVE  Kept(o)
<1> DEFINE b == R!Body(o)
           a == R!Anthropic(b)
<1>1. /\ b.temperature = R!Over(o.extra.temperature, R!Temperature(o)) /\ b.topP = R!TopP(o)
      /\ b.tools = o.tools /\ b.choice = o.choice /\ b.serial = o.extra.serial
      /\ b.format = R!Over(o.extra.format, IF o.schema THEN {"json_schema"} ELSE R!Absent)
      /\ b.n = o.extra.n /\ b.seed = o.extra.seed /\ b.logprobs = o.extra.logprobs
  BY DEF R!Body
<1>2. /\ a.temperature = R!Clamped(b) /\ a.topP = b.topP /\ a.tools = R!ToolsSent(b)
      /\ a.choice = R!ChoiceSent(b) /\ a.serial = R!SerialSent(b)
  BY DEF R!Anthropic
<1>3. ~R!RefusesSampling(o) /\ ~R!RefusesTools(o) /\ (R!MessagesWire(o) => ~R!RefusesMaterial(b))
  BY DEF R!Refused
<1> HIDE DEF a, b
<1>4. ASSUME R!IsClaude(o), o.extra.temperature = {}
      PROVE  b.temperature = {} \/ b.topP = {}
  BY <1>1, <1>4 DEF R!Over, R!Absent, R!Temperature
<1>5. ASSUME R!Deprecated(o)
      PROVE  b.topP \cup (b.temperature \ o.extra.temperature) = {}
  BY <1>1, <1>5 DEF R!Over, R!Absent, R!Temperature, R!TopP, R!Sampled
<1>6. ASSUME R!MessagesWire(o)
      PROVE  /\ a.temperature \cup a.topP \subseteq 0..R!AnthropicMax
             /\ b.n \subseteq {1}
             /\ b.seed \cup b.logprobs \cup b.format \subseteq R!Declined
  <2>1. b.temperature \subseteq Nat
    BY <1>1, <1>3 DEF R!Over, R!Absent, R!Temperature, R!RefusesSampling, R!Unusable, IsRequest
  <2>2. R!TopP(o) \subseteq 0..2
    BY <1>3 DEF R!TopP, R!Absent, R!RefusesSampling, R!Unusable, IsRequest, R!NeutralTopP
  <2>3. \A v \in R!Clamped(b) : v \in 0..2
    BY <2>1 DEF R!Clamped, R!AnthropicMax
  <2>4. b.n \subseteq {1}
    BY <1>1, <1>3, <1>6 DEF R!RefusesMaterial, IsRequest
  <2>5. b.seed \cup b.logprobs \cup b.format \subseteq R!Declined
    BY <1>3, <1>6 DEF R!RefusesMaterial
  <2> QED BY <1>1, <1>2, <2>2, <2>3, <2>4, <2>5 DEF R!AnthropicMax
<1>7. Callable(a.tools, a.choice) = Callable(b.tools, b.choice)
  BY <1>1, <1>2, <1>3, ToolsAreLeftAsTheyWere
<1>8. a.serial <=> TRUE \in b.serial /\ "serial" \notin R!Dropped(b)
  BY <1>1, <1>2, <1>3, SwitchIsSentOrTold
<1> QED BY <1>4, <1>5, <1>6, <1>7, <1>8, Zenon DEF Kept, a, b

\* A maximum of half a minute is one that a timer can take.
LEMMA ShortMaximumFits == \A x \in 0..3000 : x \in 0..D!TimerMax
<1>1. D!TimerMax \in Int /\ 17280000 <= D!TimerMax
  BY SMTT(40) DEF D!TimerMax
<1>2. \A top \in Int : 17280000 <= top => \A x \in 0..3000 : x \in 0..top
  BY SMTT(40)
<1> QED BY <1>1, <1>2, SMTT(40)

\* A Retry-After header names one time, or none.
LEMMA HeaderNamesOneTime ==
  ASSUME NEW header, header.form \in D!Forms, header.seconds \in Int
  PROVE  D!RetryAfter(header) = {} \/ \E s \in Int : D!RetryAfter(header) = {s}
<1>1. \A s \in Int : D!Lesser(s, D!MaxRetryAfter) \in Int
  BY RetryMaximum, SMTT(40) DEF D!Lesser
<1>2. D!Greater(0, header.seconds) \in Int
  BY SMTT(40) DEF D!Greater
<1>3. CASE header.form = "digits"
  <2>1. D!RetryAfter(header) = {D!Lesser(header.seconds, D!MaxRetryAfter)}
    BY <1>3 DEF D!RetryAfter
  <2> DEFINE s == D!Lesser(header.seconds, D!MaxRetryAfter)
  <2>2. s \in Int
    BY <1>1, Zenon
  <2> HIDE DEF s
  <2>3. D!RetryAfter(header) = {s}
    BY <2>1, Zenon DEF s
  <2> QED BY <2>2, <2>3
<1>4. CASE header.form = "date"
  <2> DEFINE s == D!Lesser(D!Greater(0, header.seconds), D!MaxRetryAfter)
  <2>1. D!RetryAfter(header) = {s}
    BY <1>4 DEF D!RetryAfter
  <2>2. s \in Int
    BY <1>1, <1>2, Zenon
  <2> HIDE DEF s
  <2> QED BY <2>1, <2>2
<1>5. CASE header.form \in {"none", "other"}
  BY <1>5 DEF D!RetryAfter
<1> QED BY <1>3, <1>4, <1>5 DEF D!Forms

\* Nor does what was parsed before, or is parsed now, name two.
LEMMA AfterIsOneTime ==
  ASSUME NEW given \in BOOLEAN, NEW seconds \in Int, NEW times,
         times = {} \/ \E s \in Int : times = {s}
  PROVE  LET after == IF given THEN {seconds} ELSE times
         IN  after \subseteq Int /\ \A s, t \in after : s = t
<1>1. CASE given
  BY <1>1
<1>2. CASE ~given
  BY <1>2
<1> QED BY <1>1, <1>2

-----------------------------------------------------------------------------
\* What a function is called with stays one of its inputs.
Asked ==
  /\ fn = "window"       => input \in WindowCalls
  /\ fn = "request"      => input \in SamplingCalls \cup ToolCalls \cup ExtraCalls
  /\ fn = "conversation" => input \in ConversationCalls
  /\ fn = "blocks"       => input \in AnswerCalls
  /\ fn = "delay"        => input \in DelayCalls

\* A call changes neither the function nor its input.
LEMMA AskedAlways == Spec => []Asked
<1>1. Init => Asked
  BY Zenon DEF Init, Asked
<1>2. Asked /\ [Call]_vars => Asked'
  BY Zenon DEF Asked, Call, vars
<1> QED BY <1>1, <1>2, PTL DEF Spec

\* A window is asked of a history of turns, with a limit.
LEMMA WindowInputs ==
  ASSUME NEW x \in WindowCalls
  PROVE  /\ x.messages \in Seq([id : Nat, role : W!Roles])
         /\ x.max \in W!Limit /\ x.preserve \in BOOLEAN
<1>1. PICK n \in 0..MaxLen, roles \in [1..MaxLen -> W!Roles],
           max \in {W!NoLimit, W!NotFinite} \cup { W!Halves(h) : h \in (-1)..(2 * MaxLen + 2) },
           preserve \in BOOLEAN :
        x = [messages |-> [i \in 1..n |-> [id |-> i, role |-> roles[i]]], max |-> max, preserve |-> preserve]
  BY DEF WindowCalls
<1>2. max \in W!Limit
  BY MaxLenAssumption DEF W!Limit, W!NoLimit, W!NotFinite, W!Halves
<1>3. [i \in 1..n |-> [id |-> i, role |-> roles[i]]] \in Seq([id : Nat, role : W!Roles])
  <2>1. n \in Nat /\ \A i \in 1..n : i \in Nat /\ i \in 1..MaxLen
    BY MaxLenAssumption
  <2> QED BY <2>1
<1> QED BY <1>1, <1>2, <1>3

\* Calls that vary the sampling are requests.
LEMMA SamplingInputs ==
  ASSUME NEW x \in SamplingCalls PROVE IsRequest(x) /\ x.extra.serial \subseteq BOOLEAN
<1> DEFINE T == Maybe({R!NaN, -1, 0, 1, 3})
           P == Maybe({R!NaN, 1, 2, 3})
           N == Maybe({0, 5})
<1>1. PICK o \in [model : R!Ids, canonical : R!Ids, provider : R!Providers, advanced : BOOLEAN,
                  temperature : T, topP : P, maxTokens : N] :
        x = Asking(o)
  BY Zenon DEF SamplingCalls
<1>2. \A t \in T \cup P : t \subseteq Int
  BY DEF Maybe, R!NaN
<1> HIDE DEF T, P, N
<1>3. /\ x.model = o.model /\ x.canonical = o.canonical /\ x.provider = o.provider
      /\ x.advanced = o.advanced /\ x.temperature = o.temperature /\ x.topP = o.topP
      /\ x.tools = {} /\ x.twice = FALSE /\ x.choice = {}
      /\ x.schema = FALSE /\ x.tenancy = FALSE /\ x.guardrails = FALSE /\ x.extra = Plain.extra
  BY <1>1 DEF Plain, Asking
<1>4. x.extra.temperature = {} /\ x.extra.n = {} /\ x.extra.serial = {}
  BY <1>3 DEF Plain
<1> QED BY <1>1, <1>2, <1>3, <1>4 DEF IsRequest

\* Calls that vary the tools are requests.
LEMMA ToolInputs ==
  ASSUME NEW x \in ToolCalls PROVE IsRequest(x) /\ x.extra.serial \subseteq BOOLEAN
<1> DEFINE T == Maybe({{}, {"search"}, {"search", "fetch"}})
           Chosen == Maybe(R!Words \cup {"search", "fetch"})
           E == { [Plain.extra EXCEPT !.serial = serial] : serial \in Maybe(BOOLEAN) }
<1>1. PICK o \in [model : R!Ids, tools : T, twice : BOOLEAN, choice : Chosen, schema : BOOLEAN,
                  nrouter : BOOLEAN, extra : E] : x = Asking(o)
  BY Zenon DEF ToolCalls
<1>2. \A tools \in T : tools = {} \/ \E names : tools = {names} /\ names \cap (R!Words \cup {"any"}) = {}
  <2> SUFFICES ASSUME NEW tools \in T, tools # {}
               PROVE  \E names : tools = {names} /\ names \cap (R!Words \cup {"any"}) = {}
    OBVIOUS
  <2>1. PICK names \in {{}, {"search"}, {"search", "fetch"}} : tools = {names}
    BY Zenon DEF Maybe
  <2>2. names \cap (R!Words \cup {"any"}) = {}
    BY DEF R!Words
  <2> QED BY <2>1, <2>2
<1>5. \A choice \in Chosen : choice = {} \/ \E c : choice = {c}
  BY Zenon DEF Maybe
<1>3. \A e \in E : e.temperature = {} /\ e.n = {} /\ e.serial \subseteq BOOLEAN
  BY DEF Plain, Maybe
<1> HIDE DEF T, Chosen, E
<1>4. /\ x.model = o.model /\ x.canonical = "plain" /\ x.provider = "none" /\ x.advanced = FALSE
      /\ x.temperature = {} /\ x.topP = {} /\ x.tools = o.tools /\ x.twice = o.twice
      /\ x.choice = o.choice /\ x.schema = o.schema /\ x.tenancy = FALSE /\ x.guardrails = FALSE
      /\ x.extra = o.extra
  BY <1>1 DEF Plain, Asking
<1>6. o.tools \in T /\ o.choice \in Chosen /\ o.extra \in E /\ o.model \in R!Ids
      /\ {o.twice, o.schema} \subseteq BOOLEAN
  BY <1>1
<1>7. /\ x.tools = {} \/ \E names : x.tools = {names} /\ names \cap (R!Words \cup {"any"}) = {}
      /\ x.choice = {} \/ \E c : x.choice = {c}
  BY <1>2, <1>4, <1>5, <1>6, Zenon
<1>8. x.extra.temperature = {} /\ x.extra.n = {} /\ x.extra.serial \subseteq BOOLEAN
  BY <1>3, <1>4, <1>6
<1>9. /\ x.model \in R!Ids /\ x.canonical \in R!Ids /\ x.provider \in R!Providers
      /\ {x.advanced, x.twice, x.schema} \subseteq BOOLEAN
      /\ {x.tenancy, x.guardrails} \subseteq BOOLEAN
      /\ x.temperature \subseteq Int /\ x.topP \subseteq Int
  BY <1>4, <1>6 DEF R!Ids, R!Providers
<1>10. x.extra.temperature \subseteq Nat /\ x.extra.n \subseteq Nat \ {0}
  BY <1>8
<1> QED BY <1>7, <1>8, <1>9, <1>10, Zenon DEF IsRequest

\* Calls that vary `extra` are requests.
LEMMA ExtraInputs ==
  ASSUME NEW x \in ExtraCalls PROVE IsRequest(x) /\ x.extra.serial \subseteq BOOLEAN
<1> DEFINE T == Maybe({3})
           N == Maybe({1, 2})
           E == [temperature : T, serial : {{}}, n : N,
                 format : Maybe({"null", "text", "json_object"}), seed : Maybe({"null", "7"}),
                 logprobs : Maybe({"false", "true"}), stream : Maybe(BOOLEAN), user : Maybe({"me"})]
<1>1. PICK o \in [model : R!Ids, tenancy : BOOLEAN, guardrails : BOOLEAN, extra : E] : x = Asking(o)
  BY Zenon DEF ExtraCalls
<1>2. (\A t \in T : t \subseteq Nat) /\ \A n \in N : n \subseteq Nat \ {0}
  BY DEF Maybe
<1>3. \A e \in E : e.temperature \in T /\ e.n \in N /\ e.serial = {}
  OBVIOUS
<1> HIDE DEF T, N, E
<1>4. /\ x.model = o.model /\ x.canonical = "plain" /\ x.provider = "none" /\ x.advanced = FALSE
      /\ x.temperature = {} /\ x.topP = {} /\ x.tools = {} /\ x.twice = FALSE /\ x.choice = {}
      /\ x.schema = FALSE /\ x.tenancy = o.tenancy /\ x.guardrails = o.guardrails
      /\ x.extra = o.extra
  BY <1>1 DEF Plain, Asking
<1> QED BY <1>1, <1>2, <1>3, <1>4 DEF IsRequest, R!Ids, R!Providers

\* A delay is asked with numbers, and a maximum that a timer can take.
LEMMA DelayInputs ==
  ASSUME NEW x \in DelayCalls
  PROVE  /\ x.attempt \in Int /\ x.base \in Int /\ x.max \in 0..D!TimerMax /\ x.jitter \in Int
         /\ x.drawn \in 0..99 /\ x.form \in D!Forms /\ x.seconds \in Int /\ x.given \in BOOLEAN
<1>1. x.max \in 0..D!TimerMax
  <2>1. x.max \in 0..3000
    BY SMTT(30) DEF DelayCalls
  <2> DEFINE max == x.max
  <2>2. max \in 0..3000
    BY <2>1
  <2> HIDE DEF max
  <2>3. max \in 0..D!TimerMax
    BY <2>2, ShortMaximumFits, SMTT(40)
  <2> QED BY <2>3 DEF max
<1>2. /\ x.attempt \in Int /\ x.base \in Int /\ x.jitter \in Int
      /\ x.drawn \in 0..99 /\ x.form \in D!Forms /\ x.seconds \in Int /\ x.given \in BOOLEAN
  BY SMT DEF DelayCalls
<1> QED BY <1>1, <1>2, Zenon
-----------------------------------------------------------------------------
\* slidingWindow in the run: the newest turns within the limit, and all it allows.
THEOREM WindowIsTheNewest == Spec => []WindowIsTheNewestInBudget
<1>1. Asked => WindowIsTheNewestInBudget
  <2> SUFFICES ASSUME fn = "window", input \in WindowCalls
               PROVE  WindowIsTheNewestInBudget
    BY Zenon DEF Asked, WindowIsTheNewestInBudget, Answered
  <2>1. Newest(input.messages, input.max, input.preserve)
    BY WindowInputs, WindowIsNewest, Zenon
  <2> QED BY <2>1, Zenon DEF Newest, WindowIsTheNewestInBudget
<1> QED BY <1>1, AskedAlways, PTL

\* chat() in the run: what is asked is sent or refused.
THEOREM RequestIsKept == Spec => []RequestKeepsWhatWasAsked
<1>1. Asked => RequestKeepsWhatWasAsked
  <2> SUFFICES ASSUME input \in SamplingCalls \cup ToolCalls \cup ExtraCalls, ~R!Refused(input)
               PROVE  RequestKeepsWhatWasAsked
    BY Zenon DEF Asked, RequestKeepsWhatWasAsked, Answered
  <2>1. IsRequest(input) /\ input.extra.serial \subseteq BOOLEAN
    BY SamplingInputs, ToolInputs, ExtraInputs, Zenon
  <2>2. Kept(input)
    BY <2>1, RequestsAreKept, Zenon
  <2> QED BY <2>2, Zenon DEF Kept, RequestKeepsWhatWasAsked
<1> QED BY <1>1, AskedAlways, PTL

\* The delay before a retry in the run: no sooner than the server said, and no longer
\* than its maximum or than a timer can take.
THEOREM DelayWaits == Spec => []DelayHonoursTheServer
<1>1. Asked => DelayHonoursTheServer
  <2> SUFFICES ASSUME input \in DelayCalls
               PROVE  DelayHonoursTheServer
    BY Zenon DEF Asked, DelayHonoursTheServer, Answered
  <2> DEFINE after == IF input.given THEN {input.seconds} ELSE D!RetryAfter(input)
             o     == [input EXCEPT !.given = after]
  <2>1. /\ input.attempt \in Int /\ input.base \in Int /\ input.max \in 0..D!TimerMax
        /\ input.jitter \in Int /\ input.drawn \in 0..99
        /\ input.form \in D!Forms /\ input.seconds \in Int /\ input.given \in BOOLEAN
    BY DelayInputs, Zenon
  <2>2. after \subseteq Int /\ \A s, t \in after : s = t
    <3>1. D!RetryAfter(input) = {} \/ \E s \in Int : D!RetryAfter(input) = {s}
      BY <2>1, HeaderNamesOneTime, Zenon
    <3> QED BY <2>1, <3>1, AfterIsOneTime, Zenon
  <2> HIDE DEF after
  <2>3. /\ o.attempt = input.attempt /\ o.base = input.base /\ o.max = input.max
        /\ o.jitter = input.jitter /\ o.drawn = input.drawn /\ o.given = after
    BY DEF DelayCalls
  <2> HIDE DEF o
  <2>4. Waits(o)
    <3>1. /\ o.attempt \in Int /\ o.base \in Int /\ o.max \in 0..D!TimerMax /\ o.jitter \in Int
          /\ o.drawn \in 0..99 /\ o.given \subseteq Int /\ \A s, t \in o.given : s = t
      BY <2>1, <2>2, <2>3, Zenon
    <3> QED BY <3>1, BackoffHonoursTheServer, Zenon
  <2>5. Waits(o) => /\ D!Backoff(o) \in 0..D!TimerMax
                    /\ \A s \in after : D!Backoff(o) >= 100 * D!Lesser(s, D!MaxRetryAfter)
                    /\ after \subseteq {0} => D!Backoff(o) <= input.max
    BY <2>3, Zenon DEF Waits
  <2> QED BY <2>4, <2>5 DEF DelayHonoursTheServer, o, after
<1> QED BY <1>1, AskedAlways, PTL

-----------------------------------------------------------------------------
\* The lemmas on the Messages wire that the tool loop rests on.  They name nothing of the
\* loop, so that its constants and variables are given any values here.
L == INSTANCE RunTools_proofs WITH
       MaxSteps <- MaxLen, MaxCalls <- MaxTurns, MaxRuns <- MaxTurns,
       phase <- "idle", run <- 0, messages <- <<>>, seeded <- 0, steps <- 0, requests <- 0,
       answered <- 0, priced <- 0, unpriced <- 0, stopReason <- "maxSteps", text <- 0

\* The wire of the loop is the wire of the chat call.
LEMMA OneWire ==
  /\ \A b, kind : L!Wire!IdsOf(b, kind) = M!IdsOf(b, kind)
  /\ \A ts : L!Wire!Said(ts) = M!Said(ts)
  /\ \A ts : L!Wire!Alternates(ts) <=> M!Alternates(ts)
  /\ L!Wire!Speakers = M!Speakers /\ L!Wire!LeadRoles = M!LeadRoles
  /\ \A ts : L!Wire!System(ts) = M!System(ts)
  /\ \A ts, images : L!Wire!AttachImages(ts, images) = M!AttachImages(ts, images)
  /\ \A blocks : L!Wire!Answered(blocks) = M!Answered(blocks)
  /\ \A ts, roles : L!SaidBy(ts, roles) = Spoken(ts, roles)
<1>1. \A ss : L!Wire!FlattenSeq(ss) = M!FlattenSeq(ss)
  BY Zenon DEF L!Wire!FlattenSeq, M!FlattenSeq
<1>2. \A b, kind : L!Wire!IdsOf(b, kind) = M!IdsOf(b, kind)
  BY <1>1, Zenon DEF L!Wire!IdsOf, M!IdsOf
<1>3. \A ts : L!Wire!Said(ts) = M!Said(ts)
  BY <1>1, <1>2, Zenon DEF L!Wire!Said, M!Said
<1>4. \A ts : L!Wire!Alternates(ts) <=> M!Alternates(ts)
  BY Zenon DEF L!Wire!Alternates, M!Alternates
<1>5. L!Wire!Speakers = M!Speakers /\ L!Wire!LeadRoles = M!LeadRoles
  BY Zenon DEF L!Wire!Speakers, M!Speakers, L!Wire!LeadRoles, M!LeadRoles
<1>6. \A parts, kinds : L!Wire!Only(parts, kinds) = M!Only(parts, kinds)
  BY <1>1, Zenon DEF L!Wire!Only, M!Only
<1>7. \A ts : L!Wire!System(ts) = M!System(ts)
  BY Zenon DEF L!Wire!System, M!System, L!Wire!TextOf, M!TextOf, L!Wire!Only, M!Only,
               L!Wire!LeadRoles, M!LeadRoles, L!Wire!FlattenSeq, M!FlattenSeq
<1>8. \A ts, images : L!Wire!AttachImages(ts, images) = M!AttachImages(ts, images)
  BY Zenon DEF L!Wire!AttachImages, M!AttachImages, L!Wire!WithImages, M!WithImages,
               L!Wire!Last, M!Last, L!Wire!Turn, M!Turn, L!Wire!Content, M!Content,
               L!Wire!NoId, M!NoId
<1>9. \A blocks : L!Wire!Answered(blocks) = M!Answered(blocks)
  BY <1>2, <1>6, Zenon DEF L!Wire!Answered, M!Answered, L!Wire!CallsOf, M!CallsOf,
       L!Wire!Turn, M!Turn, L!Wire!Content, M!Content, L!Wire!Null, M!Null, L!Wire!NoId, M!NoId
<1>10. \A ts, roles : L!SaidBy(ts, roles) = Spoken(ts, roles)
  BY <1>1, <1>2, Zenon DEF L!SaidBy, Spoken
<1> QED BY <1>2, <1>3, <1>4, <1>5, <1>7, <1>8, <1>9, <1>10, Zenon

LEMMA OneRequest == \A ts : L!Wire!Messages(ts) = M!Messages(ts)
<1>1. \A ss : L!Wire!FlattenSeq(ss) = M!FlattenSeq(ss)
  BY Zenon DEF L!Wire!FlattenSeq, M!FlattenSeq
<1>2. \A t : /\ L!Wire!Result(t) = M!Result(t) /\ L!Wire!Calling(t) = M!Calling(t)
            /\ L!Wire!Speaking(t) = M!Speaking(t)
  BY Zenon DEF L!Wire!Result, M!Result, L!Wire!Calling, M!Calling, L!Wire!Speaking, M!Speaking,
       L!Wire!Known, M!Known, L!Wire!Only, M!Only, L!Wire!Part, M!Part,
       L!Wire!FlattenSeq, M!FlattenSeq
<1>3. \A t : L!Wire!Translated(t) = M!Translated(t)
  BY <1>2 DEF L!Wire!Translated, M!Translated
<1>4. \A ts : [i \in 1..Len(ts) |-> L!Wire!Translated(ts[i])] = [i \in 1..Len(ts) |-> M!Translated(ts[i])]
  BY <1>3, Zenon
<1>5. \A ts : L!Wire!MergeAdjacentRoles(ts) = M!MergeAdjacentRoles(ts)
  BY Zenon DEF L!Wire!MergeAdjacentRoles, M!MergeAdjacentRoles, L!Wire!Joined, M!Joined,
       L!Wire!Last, M!Last, L!Wire!FoldLeft, M!FoldLeft,
       L!Wire!MapThenFoldSet, M!MapThenFoldSet, L!Wire!Max, M!Max
<1> QED BY <1>1, <1>4, <1>5, Zenon DEF L!Wire!Messages, M!Messages

\* What a conversation is held to on the wire.
Survives(asked, images) ==
  LET turns  == M!AttachImages(asked, images)
      sent   == M!Messages(turns)
      system == M!System(turns)
  IN  /\ M!Alternates(sent) /\ \A i \in 1..Len(sent) : sent[i].role \in M!Speakers
      /\ M!Said(sent) = Spoken(turns, M!Speakers)
      /\ [k \in DOMAIN system |-> system[k].id] = Spoken(asked, M!LeadRoles)
      /\ images # <<>> =>
           sent # <<>> /\ Last(sent).role = "user" /\ IsSuffix(images, Last(sent).blocks)

LEMMA SurvivesAlike ==
  ASSUME NEW asked, NEW images, L!Survives(asked, images) PROVE Survives(asked, images)
<1>1. (\A s : L!Wire!Last(s) = Last(s)) /\ \A s, r : L!Wire!IsSuffix(s, r) <=> IsSuffix(s, r)
  BY Zenon DEF L!Wire!Last, Last, L!Wire!IsSuffix, IsSuffix, L!Wire!IsPrefix, IsPrefix,
               L!Wire!Reverse, Reverse
<1> QED BY <1>1, OneWire, OneRequest, Zenon DEF L!Survives, Survives

\* The parts of the run: what a person says, and what an answer is made of.
Ids       == Nat \cup Seq(Nat)
PartKinds == {"text", "image", "audio", "thinking", "tool_use", "tool_result"}

LEMMA IdsAreIn ==
  /\ M!NoId \in Ids /\ Nat \subseteq Ids /\ \A i \in Nat : <<i>> \in Ids
  /\ {"tool_use", "tool_result"} \subseteq PartKinds
  /\ \A kind \in PartKinds, i \in Ids : M!Part(kind, i) \in L!Parts(PartKinds, Ids)
<1>1. M!NoId \in Ids /\ Nat \subseteq Ids
  BY EmptySeq DEF Ids, M!NoId
<1>2. \A i \in Nat : <<i>> \in Ids
  BY DEF Ids
<1>3. {"tool_use", "tool_result"} \subseteq PartKinds
  BY DEF PartKinds
<1>4. \A kind \in PartKinds, i \in Ids : M!Part(kind, i) \in L!Parts(PartKinds, Ids)
  BY DEF M!Part, L!Parts
<1> QED BY <1>1, <1>2, <1>3, <1>4

\* What a turn holds is made of those parts.
LEMMA ContentInputs ==
  ASSUME NEW content \in {"string", "empty", "null", "array"}, NEW i \in Nat
  PROVE  ContentAt(content, i) \in [shape : L!Shapes, parts : Seq(L!Parts(PartKinds, Ids))]
<1> DEFINE P == L!Parts(PartKinds, Ids)
           Held == [shape : L!Shapes, parts : Seq(P)]
           text  == M!Part("text", i)
           image == M!Part("image", i)
           audio == M!Part("audio", i)
<1>1. text \in P /\ image \in P /\ audio \in P
  <2>1. i \in Ids /\ {"text", "image", "audio"} \subseteq PartKinds
    BY IdsAreIn DEF PartKinds
  <2> QED BY <2>1, IdsAreIn
<1> HIDE DEF P, text, image, audio
<1>2. <<>> \in Seq(P) /\ <<text>> \in Seq(P) /\ <<text, image, audio>> \in Seq(P)
  BY <1>1
<1>3. {"string", "array", "null"} \subseteq L!Shapes
  BY DEF L!Shapes
<1>4. \A shape \in L!Shapes, parts \in Seq(P) : M!Content(shape, parts) \in Held
  BY DEF M!Content
<1>5. M!Content("string", <<text>>) \in Held /\ M!Content("string", <<>>) \in Held
      /\ M!Null \in Held /\ M!Content("array", <<text, image, audio>>) \in Held
  <2> HIDE DEF Held
  <2> QED BY <1>2, <1>3, <1>4 DEF M!Null
<1> HIDE DEF Held
<1>6. ContentAt(content, i) = CASE content = "string" -> M!Content("string", <<text>>)
                                [] content = "empty"  -> M!Content("string", <<>>)
                                [] content = "null"   -> M!Null
                                [] content = "array"  -> M!Content("array", <<text, image, audio>>)
  BY Zenon DEF ContentAt, text, image, audio
<1>7. ContentAt(content, i) \in Held
  BY <1>5, <1>6
<1> QED BY <1>7 DEF Held, P

LEMMA TurnInputs ==
  ASSUME NEW form \in Forms, NEW i \in Nat
  PROVE  TurnAt(form, i) \in L!TurnsOn(L!Parts(PartKinds, Ids), Ids)
<1> DEFINE P == L!Parts(PartKinds, Ids)
           content == ContentAt(form.content, i)
           calls   == [k \in 1..form.calls |-> <<i + k>>]
           answers == IF form.named THEN <<i>> ELSE M!NoId
           S == Seq(Ids)
           B == [shape : L!Shapes, parts : Seq(P)]
           t == [role |-> form.role, content |-> content, calls |-> calls, answers |-> answers]
<1>1. /\ form.role \in {"system", "user", "assistant", "function", "tool"}
      /\ form.content \in {"string", "empty", "null", "array"}
      /\ form.calls \in 0..2 /\ (form.calls # 0 => form.role = "assistant")
      /\ form.named \in BOOLEAN
  <2> DEFINE contents == {"string", "empty", "null", "array"}
  <2>1. form \in [role : {"system", "user", "assistant", "function"}, content : contents,
                  calls : {0}, named : {FALSE}] \cup
                [role : {"assistant"}, content : contents, calls : {1, 2}, named : {FALSE}] \cup
                [role : {"tool"}, content : {"string"}, calls : {0}, named : BOOLEAN]
    BY Zenon DEF Forms
  <2>2. /\ form.role \in {"system", "user", "assistant", "function", "tool"}
        /\ form.content \in contents /\ form.calls \in {0, 1, 2} /\ form.named \in BOOLEAN
        /\ form.calls = 0 \/ form.role = "assistant"
    <3>1. CASE form \in [role : {"system", "user", "assistant", "function"}, content : contents,
                         calls : {0}, named : {FALSE}]
      <4> HIDE DEF contents
      <4> QED BY <3>1
    <3>2. CASE form \in [role : {"assistant"}, content : contents, calls : {1, 2}, named : {FALSE}]
      <4> HIDE DEF contents
      <4> QED BY <3>2
    <3>3. CASE form \in [role : {"tool"}, content : {"string"}, calls : {0}, named : BOOLEAN]
      BY <3>3
    <3> HIDE DEF contents
    <3> QED BY <2>1, <3>1, <3>2, <3>3, Zenon
  <2> QED BY <2>2
<1>2. content \in B
  BY <1>1, ContentInputs
<1>3. calls \in S
  <2>1. \A k \in 1..form.calls : i + k \in Nat
    BY <1>1
  <2>2. \A k \in 1..form.calls : <<i + k>> \in Ids
    BY <2>1, IdsAreIn, Zenon
  <2> DEFINE n == form.calls
             V == Ids
  <2>3. n \in Nat /\ \A k \in 1..n : <<i + k>> \in V
    BY <1>1, <2>2
  <2> HIDE DEF n, V
  <2>4. [k \in 1..n |-> <<i + k>>] \in Seq(V)
    BY <2>3
  <2> QED BY <2>4 DEF n, V
<1>4. answers \in Ids
  BY <1>1, IdsAreIn
<1>5. calls # <<>> => form.role = "assistant"
  <2>1. form.calls = 0 => calls = <<>>
    BY <1>1
  <2> HIDE DEF calls
  <2> QED BY <1>1, <2>1
<1>6. form.role \in L!Parties
  BY <1>1 DEF L!Parties, L!Wire!Speakers, L!Wire!LeadRoles
<1>7. TurnAt(form, i) = t
  BY Zenon DEF TurnAt, M!Turn
<1> HIDE DEF content, calls, answers, S, B
<1>8. t \in [role : L!Parties, content : B, calls : S, answers : Ids]
  BY <1>2, <1>3, <1>4, <1>6
<1>9. t.calls # <<>> => t.role = "assistant"
  BY <1>5
<1> HIDE DEF t
<1> QED BY <1>7, <1>8, <1>9, Zenon DEF L!TurnsOn, B, S

\* A conversation is asked of turns, and of images.
LEMMA ConversationInputs ==
  ASSUME NEW x \in ConversationCalls
  PROVE  /\ x.turns \in Seq(L!TurnsOn(L!Parts(PartKinds, Ids), Ids))
         /\ x.images \in Seq(L!Parts(PartKinds, Ids))
         /\ \A i \in 1..Len(x.images) : x.images[i].kind = "image"
<1> DEFINE P == L!Parts(PartKinds, Ids)
           T == L!TurnsOn(P, Ids)
           image == M!Part("image", 0)
<1>1. x.turns \in Conversations /\ x.images \in {<<>>, <<image>>}
  BY DEF ConversationCalls
<1>2. PICK n \in 0..MaxTurns, forms \in [1..MaxTurns -> Forms] :
        x.turns = [i \in 1..n |-> TurnAt(forms[i], i)]
  <2> DEFINE c == x.turns
  <2>1. c \in Conversations
    BY <1>1
  <2> HIDE DEF c
  <2>2. \E n \in 0..MaxTurns, forms \in [1..MaxTurns -> Forms] : c = [i \in 1..n |-> TurnAt(forms[i], i)]
    BY <2>1 DEF Conversations
  <2> QED BY <2>2 DEF c
<1>3. n \in Nat /\ \A i \in 1..n : i \in Nat /\ forms[i] \in Forms
  BY MaxTurnsAssumption
<1>4. \A i \in 1..n : TurnAt(forms[i], i) \in T
  BY <1>3, TurnInputs, Zenon
<1>5. image \in P /\ image.kind = "image"
  <2>1. 0 \in Ids /\ "image" \in PartKinds
    BY IdsAreIn DEF PartKinds
  <2>2. image \in P
    BY <2>1, IdsAreIn, Zenon
  <2> QED BY <2>2 DEF M!Part
<1> HIDE DEF P, T, image
<1>6. [i \in 1..n |-> TurnAt(forms[i], i)] \in Seq(T)
  BY <1>3, <1>4
<1>7. \A s \in {<<>>, <<image>>} : s \in Seq(P) /\ \A i \in 1..Len(s) : s[i].kind = "image"
  <2>1. <<>> \in Seq(P) /\ \A i \in 1..Len(<<>>) : <<>>[i].kind = "image"
    OBVIOUS
  <2>2. <<image>> \in Seq(P) /\ Len(<<image>>) = 1 /\ <<image>>[1] = image
    BY <1>5
  <2>3. \A i \in 1..Len(<<image>>) : <<image>>[i].kind = "image"
    <3>1. \A i \in 1..1 : i = 1
      OBVIOUS
    <3> QED BY <1>5, <2>2, <3>1, Zenon
  <2> QED BY <2>1, <2>2, <2>3, Zenon
<1>8. x.turns \in Seq(T) /\ x.images \in Seq(P) /\ \A i \in 1..Len(x.images) : x.images[i].kind = "image"
  BY <1>1, <1>2, <1>6, <1>7, Zenon
<1> QED BY <1>8, Zenon DEF T, P

\* An answer is read as blocks.
LEMMA AnswerInputs ==
  ASSUME NEW x \in AnswerCalls
  PROVE  x.blocks \in Seq(L!Parts(PartKinds, Ids))
<1> DEFINE P == L!Parts(PartKinds, Ids)
<1>1. PICK n \in 0..3 : x.blocks \in [1..n -> Blocks]
  BY DEF AnswerCalls
<1>2. Blocks \subseteq P
  <2>1. {"text", "tool_use", "thinking"} \subseteq PartKinds /\ 1..2 \subseteq Ids
    BY IdsAreIn DEF PartKinds
  <2> QED BY <2>1 DEF Blocks, L!Parts
<1> HIDE DEF P
<1>3. x.blocks \in Seq(P)
  BY <1>1, <1>2
<1> QED BY <1>3 DEF P

\* The wire in the run: a conversation is told whole, and an answer is replayed.
THEOREM ConversationIsReplayed == Spec => []ConversationSurvivesTheWire
<1> DEFINE P == L!Parts(PartKinds, Ids)
           Replayed(b) == \A kind \in {"text", "tool_use"} :
                            M!IdsOf(M!Messages(<<M!Answered(b)>>)[1].blocks, kind) = M!IdsOf(b, kind)
<1>1. ASSUME Asked, Answered("blocks") PROVE Replayed(input.blocks)
  <2>1. input.blocks \in Seq(P)
    BY <1>1, AnswerInputs, Zenon DEF Asked, Answered
  <2>2. L!Wires(P, Ids)
    <3>1. {"tool_use", "tool_result"} \subseteq PartKinds
      BY IdsAreIn
    <3> QED BY <3>1 DEF L!Wires, L!IsIn, L!Parts, L!Wire!Part
  <2> HIDE DEF P
  <2>3. \A kind \in {"text", "tool_use"} :
          L!Wire!IdsOf(L!Wire!Messages(<<L!Wire!Answered(input.blocks)>>)[1].blocks, kind)
            = L!Wire!IdsOf(input.blocks, kind)
    BY <2>1, <2>2, L!AnswerIsReplayed, MaxLenAssumption, MaxTurnsAssumption, Zenon
  <2> QED BY <2>3, OneWire, OneRequest, Zenon
<1>2. ASSUME Asked, Answered("conversation")
      PROVE  Survives(input.turns, input.images)
             /\ M!BuildMessages(<<>>, input.turns, <<>>, input.images)
                  = M!AttachImages(input.turns, input.images)
  <2> DEFINE turns == input.turns
             images == input.images
             T == L!TurnsOn(P, Ids)
  <2>1. /\ turns \in Seq(T) /\ images \in Seq(P)
        /\ \A i \in 1..Len(images) : images[i].kind = "image"
    BY <1>2, ConversationInputs, Zenon DEF Asked, Answered
  <2>2. {"tool_use", "tool_result"} \subseteq PartKinds /\ L!Wire!NoId \in Ids
    BY IdsAreIn DEF L!Wire!NoId, M!NoId
  <2>3. Survives(turns, images)
    <3> HIDE DEF turns, images
    <3>1. L!Survives(turns, images)
      BY <2>1, <2>2, L!ConversationIsKept, MaxLenAssumption, MaxTurnsAssumption, Zenon
    <3> QED BY <3>1, SurvivesAlike, Zenon
  <2>4. <<>> \o (IF turns # <<>> THEN turns ELSE <<>>) = turns
    <3> HIDE DEF turns, T
    <3> QED BY <2>1, ConcatEmptySeq
  <2>5. M!BuildMessages(<<>>, turns, <<>>, images) = M!AttachImages(turns, images)
    BY <2>4, Zenon DEF M!BuildMessages
  <2> QED BY <2>3, <2>5
<1>3. Asked => ConversationSurvivesTheWire
  BY <1>1, <1>2, Zenon DEF ConversationSurvivesTheWire, Survives
<1> QED BY <1>3, AskedAlways, PTL
=============================================================================
