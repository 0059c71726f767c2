------------------------------- MODULE Delays -------------------------------
(***************************************************************************)
(* How long a retry waits: parseRetryAfter and computeJitteredBackoff of   *)
(* sdks/js/src/errors.ts.  Delays are in hundredths of a second (the code  *)
(* rounds to a millisecond), jitter in percent; a Retry-After header is its*)
(* form and what it says, in seconds from now.                             *)
(***************************************************************************)
EXTENDS Integers

MaxRetryAfter == 86400          \* seconds
TimerMax      == 214748364      \* 2^31 - 1 ms: a longer setTimeout fires at once
MaxAttempt    == 30

Lesser(a, b)  == IF a < b THEN a ELSE b
Greater(a, b) == IF a > b THEN a ELSE b
Within(low, x, high) == Greater(low, Lesser(x, high))

Forms == {"none", "digits", "date", "other"}

\* parseRetryAfter: a set of at most one number of seconds.  A date in the past is
\* now, and a form that is neither of the two is no answer.
RetryAfter(header) ==
  CASE header.form = "digits" -> {Lesser(header.seconds, MaxRetryAfter)}
    [] header.form = "date"   -> {Lesser(Greater(0, header.seconds), MaxRetryAfter)}
    [] header.form \in {"none", "other"} -> {}

\* baseDelayMs * 2^attempt, no longer than maxDelayMs; both may be any number.
Exponential(attempt, base, max) ==
  LET grown[n \in 0..MaxAttempt] ==
        IF n = 0 THEN Lesser(max, base) ELSE Lesser(max, 2 * grown[n - 1])
  IN  grown[Within(0, attempt, MaxAttempt)]

\* Mutant of ServerDelay: the jitter goes both ways, as it does without a server.
ServerDelayEarly(seconds, jitter, drawn) ==
  Lesser(seconds, MaxRetryAfter) * (100 - jitter + (drawn * jitter) \div 100)

\* Mutant of ServerDelay: the server's figure is taken as it is.
ServerDelayUnbounded(seconds, jitter, drawn) ==
  seconds * (100 + (drawn * jitter) \div 100)

\* The server named a time: jitter is only added to it.
ServerDelay(seconds, jitter, drawn) ==
  Lesser(seconds, MaxRetryAfter) * (100 + (drawn * jitter) \div 100)

OwnDelay(attempt, base, max, jitter, drawn) ==
  (Exponential(attempt, base, max) * (100 - jitter + (drawn * jitter) \div 100)) \div 100

\* computeJitteredBackoff; `drawn` is Math.random() in percent.
Backoff(o) ==
  LET jitter == Within(0, o.jitter, 100)
      delays == { ServerDelay(s, jitter, o.drawn) : s \in { t \in o.given : t > 0 } }
  IN  IF delays # {} THEN CHOOSE d \in delays : TRUE
      ELSE Greater(0, OwnDelay(o.attempt, o.base, o.max, jitter, o.drawn))
=============================================================================
