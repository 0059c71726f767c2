---------------------------- MODULE StreamAnswer ----------------------------
(***************************************************************************)
(* What a StreamResult promises the code that reads it: one answer, judged *)
(* once.  The text grows while the verdict is open; once it is given it is *)
(* final, and every accessor called on the result, before or after, is     *)
(* told that same verdict over that same text.                             *)
(***************************************************************************)
EXTENDS Naturals

CONSTANTS Accessors   \* the calls of text(), usage(), finishReason(), toolCalls()

VARIABLES
  length,        \* deltas in the answer so far
  verdict,       \* "open", "whole", "abandoned" or "failed"
  told,          \* of each accessor: "nothing", "answered" or "failed"
  value          \* of each answered accessor: the deltas it returned

vars == <<length, verdict, told, value>>

Init ==
  /\ length = 0 /\ verdict = "open"
  /\ told = [a \in Accessors |-> "nothing"]
  /\ value = [a \in Accessors |-> 0]

Grow ==
  /\ verdict = "open"
  /\ length' = length + 1
  /\ UNCHANGED <<verdict, told, value>>

\* The reading whose turn it is hears of a failure as it happens.
Judge(v, heard) ==
  /\ verdict = "open" /\ verdict' = v
  /\ heard \subseteq Accessors /\ \A a, b \in heard : a = b
  /\ heard # {} => v = "failed" /\ \A a \in heard : told[a] = "nothing"
  /\ told' = [a \in Accessors |-> IF a \in heard THEN "failed" ELSE told[a]]
  /\ UNCHANGED <<length, value>>

Tell(a) ==
  /\ verdict # "open" /\ told[a] = "nothing"
  /\ IF verdict = "failed"
     THEN told' = [told EXCEPT ![a] = "failed"] /\ UNCHANGED value
     ELSE told' = [told EXCEPT ![a] = "answered"] /\ value' = [value EXCEPT ![a] = length]
  /\ UNCHANGED <<length, verdict>>

Next ==
  \/ Grow
  \/ \E v \in {"whole", "abandoned", "failed"}, heard \in SUBSET Accessors : Judge(v, heard)
  \/ \E a \in Accessors : Tell(a)

Spec == Init /\ [][Next]_vars
=============================================================================
