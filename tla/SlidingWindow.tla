---------------------------- MODULE SlidingWindow ----------------------------
(***************************************************************************)
(* The turns of a conversation and the pruning of a history to its most    *)
(* recent turns (sdks/js/src/memory.ts, slidingWindow).                    *)
(*                                                                         *)
(* A turn is a record: `id` tells one turn from every other (it is ghost   *)
(* data, no property of the content), `role` is the part of the content    *)
(* the code looks at.  Cloning is the identity on TLA+ values.             *)
(***************************************************************************)
EXTENDS Integers, Sequences

\* The roles the code tells apart: the two leading-instruction roles, every
\* other role a message may have, and a role validateMessage refuses.
LeadRoles == {"system", "developer"}
Roles     == LeadRoles \cup {"user"}
BadRole   == "unknown"

\* A row of the store.  The memory itself only ever writes Turns; a row with
\* BadRole can only come from whatever else writes to the same store.
Row  == [id : Int, role : Roles \cup {BadRole}]
Turn == [id : Int, role : Roles]

\* `maxMessages`: absent, NaN or infinite, or a number counted in halves, so
\* that a fractional limit is among the inputs.
Limit == [kind : {"undefined", "nonfinite"}] \cup [kind : {"number"}, halves : Int]

NoLimit      == [kind |-> "undefined"]
NotFinite    == [kind |-> "nonfinite"]
AtMost(n)    == [kind |-> "number", halves |-> 2 * n]
Halves(n)    == [kind |-> "number", halves |-> n]

\* Math.floor of a limit that is a number.
Floor(max) == max.halves \div 2

\* messages.slice(messages.length - n): empty when n <= 0.
LastTurns(msgs, n) == SubSeq(msgs, Len(msgs) - n + 1, Len(msgs))

HasLead(msgs) == msgs # <<>> /\ msgs[1].role \in LeadRoles

\* Mutants of Pruned: the tail is cut without making room for the leading turn;
\* or from the wrong end of the history.
PrunedForgetsTheLead(msgs, limit, preserveSystem) ==
  IF preserveSystem /\ HasLead(msgs) /\ limit # 1
  THEN <<msgs[1]>> \o LastTurns(msgs, limit)
  ELSE LastTurns(msgs, limit)

PrunedKeepsTheOldest(msgs, limit, preserveSystem) ==
  IF preserveSystem /\ HasLead(msgs) /\ limit # 1
  THEN <<msgs[1]>> \o SubSeq(msgs, 1, limit - 1)
  ELSE SubSeq(msgs, 1, limit)

\* A history longer than its limit: keep the leading instruction when asked to
\* and when the limit leaves room for a turn beside it.
Pruned(msgs, limit, preserveSystem) ==
  IF preserveSystem /\ HasLead(msgs) /\ limit # 1
  THEN <<msgs[1]>> \o LastTurns(msgs, limit - 1)
  ELSE LastTurns(msgs, limit)

Window(msgs, max, preserveSystem) ==
  IF max.kind = "undefined" THEN msgs
  ELSE IF max.kind = "nonfinite" \/ max.halves <= 0 THEN <<>>
  ELSE IF Len(msgs) <= Floor(max) THEN msgs
  ELSE Pruned(msgs, Floor(max), preserveSystem)
=============================================================================
