------------------------- MODULE MCTranslatedStream -------------------------
(***************************************************************************)
(* TranslatedStream with what a provider may count, for TLC.               *)
(***************************************************************************)
EXTENDS TranslatedStream

\* Nothing, what was read and written, and what the cache took of it as well.
UsagesCounted ==
  { NoFigures,
    [NoFigures EXCEPT !.input = {3}, !.output = {5}],
    [input |-> {3}, created |-> {2}, read |-> {4}, output |-> {5}] }
=============================================================================
