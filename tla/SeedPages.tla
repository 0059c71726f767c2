----------------------------- MODULE SeedPages -----------------------------
(***************************************************************************)
(* fetchSeedPages of agents/customer-support-agent/src/knowledge/fetch.ts: *)
(* the pages a knowledge index is built from, each followed through its    *)
(* redirects under one timer, read up to a number of bytes, and left out   *)
(* when anything fails.                                                    *)
(*                                                                         *)
(* `web` says what a URL answers: a redirect to another, a page with the   *)
(* sizes of its chunks, or nothing of use: an error, a timeout, another    *)
(* type.  What makes a URL safe is not looked into.                        *)
(***************************************************************************)
EXTENDS Integers, Sequences, SequencesExt, FiniteSets

CONSTANTS
  Urls,         \* where a seed or a redirect may lead
  SafeUrls      \* those isSafeUrl accepts

MaxRedirects == 3
Nowhere      == "nowhere"

Redirect(to)        == [is |-> "redirect", to |-> to, chunks |-> <<>>, breaks |-> FALSE]
Page(chunks, broke) == [is |-> "page", to |-> Nowhere, chunks |-> chunks, breaks |-> broke]
Useless             == [is |-> "useless", to |-> Nowhere, chunks |-> <<>>, breaks |-> FALSE]

\* Mutant of Trail: a redirect is followed wherever it leads.
TrailAnywhere(web, seed) ==
  LET at[n \in 0..MaxRedirects] ==
        IF n = 0 THEN (IF seed \in SafeUrls THEN seed ELSE Nowhere)
        ELSE IF at[n - 1] \in SafeUrls /\ web[at[n - 1]].is = "redirect"
        THEN web[at[n - 1]].to ELSE Nowhere
  IN  at

\* Where the n-th fetch for a seed goes: only to what is safe.
Trail(web, seed) ==
  LET at[n \in 0..MaxRedirects] ==
        IF n = 0 THEN (IF seed \in SafeUrls THEN seed ELSE Nowhere)
        ELSE IF at[n - 1] # Nowhere /\ web[at[n - 1]].is = "redirect"
                /\ web[at[n - 1]].to \in SafeUrls
        THEN web[at[n - 1]].to ELSE Nowhere
  IN  at

\* What is fetched for a seed.
Fetched(web, seed) == { Trail(web, seed)[n] : n \in 0..MaxRedirects } \ {Nowhere}

\* Mutant of Kept: the chunk that passes the limit is kept.
KeptWithTheLast(chunks, maxBytes) ==
  LET upto[n \in 0..Len(chunks)] == IF n = 0 THEN 0 ELSE upto[n - 1] + chunks[n]
  IN  Cardinality({ n \in 1..Len(chunks) : upto[n - 1] <= maxBytes })

\* How many chunks of a body are read into the text: those up to the limit.
Kept(chunks, maxBytes) ==
  LET upto[n \in 0..Len(chunks)] == IF n = 0 THEN 0 ELSE upto[n - 1] + chunks[n]
  IN  Cardinality({ n \in 1..Len(chunks) : upto[n] <= maxBytes })

\* The document of a seed, if it has one.  A body that breaks before the limit is
\* reached is a failure, and a text of nothing is no document.
Document(web, seed, maxBytes) ==
  LET trail == Trail(web, seed)
      pages == { n \in 0..MaxRedirects : trail[n] # Nowhere /\ web[trail[n]].is = "page" }
  IN  { [url |-> trail[n], chunks |-> Kept(web[trail[n]].chunks, maxBytes)] :
          n \in { m \in pages :
                    /\ Kept(web[trail[m]].chunks, maxBytes) > 0
                    /\ web[trail[m]].breaks =>
                         Kept(web[trail[m]].chunks, maxBytes) < Len(web[trail[m]].chunks) } }

\* fetchSeedPages: one seed after the other.
Documents(web, seeds, maxBytes) ==
  FlattenSeq([i \in 1..Len(seeds) |-> SetToSeq(Document(web, seeds[i], maxBytes))])
=============================================================================
