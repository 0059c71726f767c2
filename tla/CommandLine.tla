----------------------------- MODULE CommandLine -----------------------------
(***************************************************************************)
(* The command `support-agent build-kb` (cli.ts of the support agent): its *)
(* arguments, its exit code, and the index it leaves.  Reading, fetching,  *)
(* building and saving succeed or fail as a whole.                         *)
(***************************************************************************)
EXTENDS Naturals, Sequences, SequencesExt

K == INSTANCE KnowledgePieces

WithValue == {"--docs", "--out", "--seed-url", "--dimensions"}
Switches  == {"--skip-blocked", "--no-mask-pii"}

\* The options before any argument: `wants` is the one whose value is to come.
NoOptions == [docs |-> "", out |-> "", seeds |-> <<>>, dimensions |-> {}, skipBlocked |-> FALSE,
              maskPii |-> TRUE, wants |-> "", unknown |-> FALSE]

\* The texts that say a number; 0 and 9000 are no dimensions an index may have.
Digits == ("0" :> 0) @@ ("384" :> 384) @@ ("9000" :> 9000)

\* parseInt: the number, or none (NaN).
ParseInt(value) == { Digits[d] : d \in DOMAIN Digits \cap {value} }

\* Mutant of Take: the last seed is the one that is kept.
TakeLastSeed(options, flag, value) ==
  [options EXCEPT !.wants = "",
                  !.docs = IF flag = "--docs" THEN value ELSE @,
                  !.out  = IF flag = "--out" THEN value ELSE @,
                  !.seeds = IF flag = "--seed-url" THEN <<value>> ELSE @,
                  !.dimensions = IF flag = "--dimensions" THEN ParseInt(value) ELSE @]

\* An option and its value, empty where the arguments end.
Take(options, flag, value) ==
  [options EXCEPT !.wants = "",
                  !.docs = IF flag = "--docs" THEN value ELSE @,
                  !.out  = IF flag = "--out" THEN value ELSE @,
                  !.seeds = IF flag = "--seed-url" THEN Append(@, value) ELSE @,
                  !.dimensions = IF flag = "--dimensions" THEN ParseInt(value) ELSE @]

\* Mutant of Argument: an argument that looks like an option is not taken for a value.
ArgumentUnlessFlag(options, arg) ==
  CASE options.unknown -> options
    [] ~options.unknown /\ options.wants # "" /\ arg \notin WithValue \cup Switches ->
         Take(options, options.wants, arg)
    [] ~options.unknown /\ (options.wants = "" \/ arg \in WithValue \cup Switches) ->
         IF arg \in WithValue THEN [options EXCEPT !.wants = arg]
         ELSE IF arg \in Switches
         THEN [options EXCEPT !.skipBlocked = @ \/ arg = "--skip-blocked",
                              !.maskPii = @ /\ arg # "--no-mask-pii"]
         ELSE [options EXCEPT !.unknown = TRUE]

\* One argument: a value, whatever it looks like, where one is to come.
Argument(options, arg) ==
  CASE options.unknown -> options
    [] ~options.unknown /\ options.wants # "" -> Take(options, options.wants, arg)
    [] ~options.unknown /\ options.wants = "" ->
         IF arg \in WithValue THEN [options EXCEPT !.wants = arg]
         ELSE IF arg \in Switches
         THEN [options EXCEPT !.skipBlocked = @ \/ arg = "--skip-blocked",
                              !.maskPii = @ /\ arg # "--no-mask-pii"]
         ELSE [options EXCEPT !.unknown = TRUE]

Options(args) ==
  LET read == FoldLeft(Argument, NoOptions, args)
  IN  IF read.wants = "" THEN read ELSE Take(read, read.wants, "")

\* How it ends: the exit code, whether anything was read or sent, and what was saved.
Ends(code, began, saved) == [code |-> code, began |-> began, saved |-> saved]

\* Whether the index may be saved as it was asked for.
Builds(options) == ~K!Invalid(<<>>, K!Dimensions(options.dimensions))

\* runCliWith
RunCliWith(argv, world) ==
  LET options == Options(Tail(argv))
  IN  CASE argv = <<>> -> Ends(2, FALSE, {})
        [] argv # <<>> /\ argv[1] = "help" -> Ends(0, FALSE, {})
        [] argv # <<>> /\ argv[1] \notin {"help", "build-kb"} -> Ends(2, FALSE, {})
        [] argv # <<>> /\ argv[1] = "build-kb" ->
             IF options.unknown \/ "" \in {options.docs, options.out} THEN Ends(2, FALSE, {})
             ELSE IF ~world.key THEN Ends(1, FALSE, {})
             ELSE IF ~world.succeeds \/ ~Builds(options) THEN Ends(1, TRUE, {})
             ELSE Ends(0, TRUE, {[options EXCEPT !.dimensions = {K!Dimensions(@)}]})
=============================================================================
