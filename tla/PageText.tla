------------------------------ MODULE PageText -------------------------------
(***************************************************************************)
(* What is left of a page: stripTags and htmlToText of knowledge/fetch.ts  *)
(* of the support agent.                                                   *)
(*                                                                         *)
(* A page is a sequence of words and tags, and of signs "<" that open no   *)
(* tag.  A tag has a name and opens, closes or is closed in itself; of the *)
(* elements that are no content one has a name another begins with.        *)
(***************************************************************************)
EXTENDS Integers, Sequences, SequencesExt, FiniteSetsExt

Chrome == {"nav", "script"}
Blocks == {"nav", "p"}
Names  == {"nav", "navbar", "script", "p", "b"}

Word(id)      == [is |-> "word", name |-> id]
Tag(is, name) == [is |-> is, name |-> name]
Stray         == [is |-> "stray", name |-> "<"]

IsTag(t) == t.is \in {"open", "close", "self"}

\* Closing tags whose name begins with that of an element.
Begins(name) == IF name = "nav" THEN {"nav", "navbar"} ELSE {name}

Closers(page, i, name) ==
  { j \in (i + 1)..Len(page) : page[j].is = "close" /\ page[j].name \in Begins(name) }

\* The tag whose end is taken for that of a sign.
Ends(page, i) == { j \in (i + 1)..Len(page) : IsTag(page[j]) }

Gap == [is |-> "gap", name |-> " "]

\* Mutant of StripTags: an element ends at the last of its closing tags.
StripTagsGreedy(page) ==
  LET strip[i \in 1..(Len(page) + 1)] ==
        IF i > Len(page) THEN <<>>
        ELSE LET closers == Closers(page, i, page[i].name)
             IN  IF page[i].is # "open" \/ page[i].name \notin Chrome THEN <<page[i]>> \o strip[i + 1]
                 ELSE IF closers = {} THEN strip[i + 1] ELSE <<Gap>> \o strip[Max(closers) + 1]
  IN  strip[1]

\* stripTags: an element that is no content goes with all that is in it, up to the first
\* tag that closes it; one that is never closed leaves what follows it.  The tag that a
\* stray sign takes for its own is left as it is.
StripTags(page) ==
  LET strip[i \in 1..(Len(page) + 1)] ==
        IF i > Len(page) THEN <<>>
        ELSE LET t == page[i]
                 closers == Closers(page, i, t.name)
                 ends == Ends(page, i)
             IN  CASE t.name \in Chrome /\ t.is = "self" -> <<Gap>> \o strip[i + 1]
                   [] t.name \in Chrome /\ t.is = "open" ->
                        IF closers = {} THEN strip[i + 1] ELSE <<Gap>> \o strip[Min(closers) + 1]
                   [] t.is = "stray" /\ ends # {} ->
                        SubSeq(page, i, Min(ends)) \o strip[Min(ends) + 1]
                   [] OTHER -> <<t>> \o strip[i + 1]
  IN  strip[1]

\* The tags that are left when the blocks have been made lines.
Inline(left) == { j \in DOMAIN left : IsTag(left[j]) /\ left[j].name \notin Blocks }

\* What a stray sign takes with it: all up to the next of them.
Taken(left) ==
  { i \in DOMAIN left :
      \E s \in 1..i : /\ left[s].is = "stray" /\ Inline(left) \cap (s..(i - 1)) = {}
                      /\ Inline(left) \cap (i..Len(left)) # {} }

\* htmlToText: what was left, a block made a line, every other tag and what a sign took
\* with it made nothing.
HtmlToText(page) ==
  LET left == StripTags(page)
      line(t) == IsTag(t) /\ t.name \in Blocks
      kept(i) == i \notin Taken(left) \cup Inline(left)
  IN  FlattenSeq([i \in 1..Len(left) |->
        IF kept(i) THEN <<IF line(left[i]) THEN "line" ELSE left[i].name>> ELSE <<>>])
=============================================================================
