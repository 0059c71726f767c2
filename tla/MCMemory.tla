------------------------------ MODULE MCMemory ------------------------------
(***************************************************************************)
(* A Memory small enough for TLC: four calls of every kind, messages()     *)
(* without a limit and with the newest turn only.                          *)
(***************************************************************************)
EXTENDS Memory

MCLimits == {NoLimit, AtMost(2)}
MCAddedRoles == {"user"}
=============================================================================
