----------------------------- MODULE ErrorCauses -----------------------------
(***************************************************************************)
(* The causes an error of the SDK keeps, and what is read from them: an    *)
(* abort behind a failure, which must not be retried.  sanitizeCause,      *)
(* isAbortLike, wasAborted and isRetryable of sdks/js/src/errors.ts, and   *)
(* the end readFrames of stream.ts gives to a body that failed.            *)
(*                                                                         *)
(* `causes` maps each object of a chain to what decides: its name, the     *)
(* name of its class, its code, whether it says anything, and the object   *)
(* behind it, 0 for none.  A chain may lead back into itself.              *)
(***************************************************************************)
EXTENDS Naturals, Sequences, SequencesExt

CONSTANT MaxDepth          \* MAX_CAUSE_DEPTH: 8 in the code

\* Names: those of ABORT_NAMES are one, "none" is no string.
Names == {"none", "Error", "abort"}

\* An object that is no abort and says nothing.
Bare == [name |-> "none", class |-> "plain", code |-> "none", says |-> FALSE, error |-> FALSE,
         string |-> FALSE, next |-> 0]

\* isAbortLike: by name, class or code.
IsAbortLike(object) ==
  ~object.string /\ "abort" \in {object.name, object.class, object.code}

-----------------------------------------------------------------------------
\* Mutant of Path: the depth is all that bounds the walk.
PathOfDepth(causes, start) ==
  LET upto[n \in 0..MaxDepth] ==
        IF n = 0 THEN <<>>
        ELSE LET before == upto[n - 1]
                 at == IF n = 1 THEN start
                       ELSE IF Len(before) < n - 1 \/ causes[Last(before)].string THEN 0
                       ELSE causes[Last(before)].next
             IN  IF at = 0 THEN before ELSE Append(before, at)
  IN  upto[MaxDepth]

\* The objects of a chain, up to the depth and each once; a string ends it.
Path(causes, start) ==
  LET upto[n \in 0..MaxDepth] ==
        IF n = 0 THEN <<>>
        ELSE LET before == upto[n - 1]
                 at == IF n = 1 THEN start
                       ELSE IF Len(before) < n - 1 \/ causes[Last(before)].string THEN 0
                       ELSE causes[Last(before)].next
             IN  IF at = 0 \/ Contains(before, at) THEN before ELSE Append(before, at)
  IN  upto[MaxDepth]

Says(object) == object.string \/ object.name # "none" \/ object.error \/ object.says

\* The copy of one object: its name and its message, redacted.
Copy(object) ==
  [Bare EXCEPT !.name = IF object.string THEN "none"
                        ELSE IF object.name = "none" THEN "Error" ELSE object.name,
               !.says = object.says, !.string = object.string, !.error = ~object.string]

\* Mutant of Sanitized: only the top is kept.
SanitizedTop(causes, start) ==
  LET path == Path(causes, start)
  IN  IF path # <<>> /\ Says(causes[path[1]]) THEN <<Copy(causes[path[1]])>> ELSE <<>>

\* sanitizeCause: a copy of the chain, whose last objects are left out when they say
\* nothing.
Sanitized(causes, start) ==
  LET path == Path(causes, start)
      last == { i \in DOMAIN path : Says(causes[path[i]]) }
      n    == IF last = {} THEN 0 ELSE CHOOSE i \in last : \A j \in last : j <= i
  IN  [i \in 1..n |-> Copy(causes[path[i]])]

\* A chain of copies, as the causes it is sanitized from again.
Linked(chain) ==
  [i \in 1..Len(chain) |-> [chain[i] EXCEPT !.next = IF i = Len(chain) THEN 0 ELSE i + 1]]

SanitizedAgain(chain) == Sanitized(Linked(chain), IF chain = <<>> THEN 0 ELSE 1)

-----------------------------------------------------------------------------
\* wasAborted: the first MaxDepth objects of a chain.
WasAborted(chain) ==
  \E i \in 1..Len(chain) :
    i <= MaxDepth /\ IsAbortLike(chain[i]) /\ \A j \in 1..i : ~chain[j].string

\* isRetryable of [sdk, kind, cause]: an error that is not of the SDK is never retried.
Retryable(error) ==
  /\ error.sdk
  /\ ~WasAborted(error.cause)
  /\ error.kind \in {"rate_limit", "service", "transport"}

\* new nRouterError(message, {cause})
Raised(kind, causes, start) == [sdk |-> TRUE, kind |-> kind, cause |-> Sanitized(causes, start)]

\* The marker put in front of the causes of an error the caller aborted behind.
Marker == [Bare EXCEPT !.name = "abort", !.error = TRUE, !.says = TRUE]

\* Mutant of StreamFailure: a classified error is thrown as it is, aborted or not.
StreamFailureUnmarked(failure, aborted) ==
  IF failure.sdk THEN [sdk |-> TRUE, kind |-> failure.kind, cause |-> failure.cause]
  ELSE IF aborted \/ IsAbortLike(failure.causes[1])
  THEN [sdk |-> FALSE, kind |-> "abort", cause |-> <<Marker>>]
  ELSE Raised("transport", failure.causes, 1)

\* readFrames: a classified error is thrown again, with the abort in front of its
\* causes when the caller aborted; any other one is an abort or a failed transport.
StreamFailure(failure, aborted) ==
  IF failure.sdk
  THEN [sdk |-> TRUE, kind |-> failure.kind,
        cause |-> IF aborted
                  THEN <<Marker>> \o SanitizedAgain(failure.cause) ELSE failure.cause]
  ELSE IF aborted \/ IsAbortLike(failure.causes[1])
  THEN [sdk |-> FALSE, kind |-> "abort", cause |-> <<Marker>>]
  ELSE Raised("transport", failure.causes, 1)

\* responseFromApiError, of what is no answer: an abort is marked, so that its name tells
\* it where its class would not; anything else is a failed transport.
RequestFailure(causes) ==
  IF IsAbortLike(causes[1]) THEN [sdk |-> TRUE, kind |-> "transport", cause |-> <<Marker>>]
  ELSE Raised("transport", causes, 1)

\* An error of the SDK as the cause of another one.
RaisedOver(kind, error) ==
  LET object == [Bare EXCEPT !.name = "Error", !.error = TRUE, !.says = TRUE]
  IN  Raised(kind, Linked(<<object>> \o error.cause), 1)
=============================================================================
