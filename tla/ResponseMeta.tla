---------------------------- MODULE ResponseMeta ----------------------------
(***************************************************************************)
(* What sdks/js/src/meta.ts reads from the x-nr-* headers of an answer:    *)
(* names in any case, repeated headers, and numbers that must be the       *)
(* gateway's own or none.  diagnoseReasoningExhaustion of diagnostics.ts   *)
(* reads three of them again.                                              *)
(*                                                                         *)
(* A raw value is [form, digits, power, noughts]: how it is written, the   *)
(* digits of its significand as a number, the power of ten behind it, and  *)
(* whether its exponent has no digit but zeros.  A parsed number is a set  *)
(* of at most one.                                                         *)
(***************************************************************************)
EXTENDS Integers, Sequences, SequencesExt

CONSTANTS
  MaxSafe,    \* Number.MAX_SAFE_INTEGER
  MinPower,   \* a positive number with a lower power of ten is rounded to zero
  MaxPower    \* and with a higher one to Infinity

Forms == {"blank", "digits", "decimal", "exponent", "signed", "hex", "trailing", "words"}

\* What Number() makes of a significand and a power of ten: a pair of both, of which
\* zero has one form only.
Zero == <<0, 0>>
Number(raw) ==
  CASE raw.digits = 0 \/ raw.power < MinPower -> Zero
    [] raw.digits # 0 /\ raw.power >= MinPower -> <<raw.digits, raw.power>>

IsFinite(raw) == raw.digits = 0 \/ raw.power <= MaxPower

-----------------------------------------------------------------------------
\* text: a blank header is no header.
Text(values) == { raw \in values : raw.form # "blank" }

\* Mutant of Count: parseInt.
CountLax(values) ==
  { raw.digits : raw \in { r \in Text(values) : r.form \in {"digits", "decimal", "trailing"} } }

\* count: digits and nothing else, and no more than a number holds exactly.
Count(values) ==
  { raw.digits : raw \in { r \in Text(values) : r.form = "digits" /\ r.digits <= MaxSafe } }

IsDecimal(raw) == raw.form \in {"digits", "decimal", "exponent"}

\* Mutant of Money: a price too small for a number is zero.
MoneyRounded(values) ==
  { Number(raw) : raw \in { r \in Text(values) : IsDecimal(r) /\ IsFinite(r) } }

\* money: an unsigned decimal that is finite; a zero only where no digit is another,
\* those of the exponent included.
Money(values) ==
  { Number(raw) :
      raw \in { r \in Text(values) :
                  /\ IsDecimal(r) /\ IsFinite(r)
                  /\ Number(r) = Zero => r.digits = 0 /\ r.noughts } }

\* isPriced: a cost, and the word that it is exact.
IsPriced(cost, status) == status = {"exact"} /\ cost # {}

-----------------------------------------------------------------------------
\* A header of a plain record: its name, and its value or its values.  One that is
\* undefined, or whose first value is, is none.
Stated(headers) == SelectSeq(headers, LAMBDA h : h.values # <<>>)

\* Mutant of Lookup: a repeated header is joined.
LookupJoined(headers, name) ==
  LET of == SelectSeq(Stated(headers), LAMBDA h : h.name = name)
  IN  IF of = <<>> THEN {} ELSE IF Len(Last(of).values) = 1 THEN {Last(of).values[1]} ELSE {}

\* metaFromHeaders: names in any case, the last key of a name, its first value.
Lookup(headers, name) ==
  LET of == SelectSeq(Stated(headers), LAMBDA h : h.name = name)
  IN  IF of = <<>> THEN {} ELSE {Last(of).values[1]}

-----------------------------------------------------------------------------
\* diagnoseReasoningExhaustion: a cut answer with nothing in it and tokens counted.
Exhausted(finish, output, reasoning, blank) ==
  /\ finish \in {"length", "max_tokens"} /\ blank
  /\ reasoning > 0 \/ output > 0
=============================================================================
