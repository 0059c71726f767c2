------------------------ MODULE KnowledgeIndex_proofs ------------------------
(***************************************************************************)
(* What the build of a knowledge index keeps, for every corpus, every size *)
(* of a batch and every guardrail.                                         *)
(***************************************************************************)
EXTENDS KnowledgeIndex, TLAPS

\* Between two batches the index holds what is kept of the chunks up to `at`.
KeptSoFar == chunks = { p \in Kept : p <= at }

\* What was refused so far is skipped, and only a caller who asked for it skips.
RefusedSoFar ==
  /\ \A p \in blocked : p <= at => base[p].url \in skipped
  /\ skipped # {} => skipBlocked
  /\ \A u \in Urls : told[u] = (IF u \in skipped THEN 1 ELSE 0)

\* Each chunk of the batch in hand is to be tried, embedded or refused.
Tried ==
  /\ place \in {"embedding", "single", "embeddingOne"} => batch = BatchOf
  /\ place \in {"single", "embeddingOne"} =>
       /\ todo \subseteq batch /\ good \subseteq batch /\ good \cap blocked = {}
       /\ \A p \in batch : p \in todo \/ p \in good \/ base[p].url \in refused

AtTheEnd ==
  /\ place \in {"built", "writing", "saved"} => at >= Len(base)
  /\ file # "partial"
  /\ file = "new" => place = "saved"

IInv == TypeOK /\ KeptSoFar /\ RefusedSoFar /\ Tried /\ AtTheEnd

-----------------------------------------------------------------------------
LEMMA TypeBase == ASSUME TypeOK PROVE base \in Seq(Chunk)
BY CorporaAssumption DEF TypeOK

\* The initial states have the inductive invariant.
LEMMA InitInv == Init => IInv
<1> SUFFICES ASSUME Init PROVE IInv
  OBVIOUS
<1> USE CorporaAssumption
<1>0. base \in Seq(Chunk)
  BY DEF Init
<1>1. TypeOK
  BY DEF Init, TypeOK, Places, NoError
<1>2. KeptSoFar
  <2>1. \A p \in Positions : p \in Nat /\ p > 0
    BY <1>0 DEF Positions
  <2>. QED
    BY <2>1 DEF Init, KeptSoFar, Kept
<1>3. RefusedSoFar
  BY <1>0 DEF Init, RefusedSoFar, Positions
<1>4. Tried /\ AtTheEnd
  BY DEF Init, Tried, AtTheEnd
<1>. QED
  BY <1>1, <1>2, <1>3, <1>4 DEF IInv

\* A call that rejects keeps all of it.
LEMMA RejectInv ==
  ASSUME IInv, NEW code \in {"aborted", "upstream_error", "guardrail_blocked",
                             "invalid_index", "save_failed"},
         NEW names \in SUBSET Urls, Reject(code, names), place # "saved"
  PROVE  IInv'
<1> USE DEF IInv, Reject, call, index
<1>1. TypeOK'
  <2>1. error' \in [code : {"none", "aborted", "upstream_error", "guardrail_blocked",
                           "invalid_index", "save_failed"}, names : SUBSET Urls]
    OBVIOUS
  <2>2. place' \in Places
    BY DEF Places
  <2>3. UNCHANGED <<call, aborted, at, batch, single, index, file>>
    OBVIOUS
  <2>. QED
    BY <2>1, <2>2, <2>3 DEF TypeOK, Positions, single
<1>2. KeptSoFar'
  BY DEF KeptSoFar, Kept, Positions
<1>3. RefusedSoFar'
  BY DEF RefusedSoFar
<1>4. Tried' /\ AtTheEnd'
  BY DEF Tried, AtTheEnd
<1>. QED
  BY <1>1, <1>2, <1>3, <1>4

\* A batch that is passed over: nothing between the old and the new `at` is kept.
LEMMA BatchKept ==
  ASSUME IInv
  PROVE  /\ BatchOf \subseteq Positions
         /\ \A p \in Kept : p <= at + BatchSize <=> p <= at \/ p \in BatchOf
         /\ \A p \in Positions :
              p <= at + BatchSize => p <= at \/ p \in BatchOf \/ base[p].url \in skipped
         /\ \A p \in BatchOf : p \in Kept
<1> USE BatchSizeAssumption DEF IInv
<1>1. base \in Seq(Chunk) /\ at \in Nat
  BY TypeBase DEF TypeOK
<1>2. \A p \in Positions : p \in Nat
  BY <1>1 DEF Positions
<1>3. skipped # {} => skipBlocked
  BY DEF RefusedSoFar
<1>. QED
  BY <1>1, <1>2, <1>3 DEF BatchOf, RawBatch, Kept

\* Every step keeps the inductive invariant.
LEMMA NextInv == IInv /\ [Next]_vars => IInv'
<1> SUFFICES ASSUME IInv, [Next]_vars PROVE IInv'
  OBVIOUS
<1> USE BatchSizeAssumption
<1>b. base \in Seq(Chunk) /\ at \in Nat
  BY TypeBase DEF IInv, TypeOK
<1>p. \A p \in Positions : p \in Nat
  BY <1>b DEF Positions
<1>a. CASE AbortedAtHead
  BY <1>a, RejectInv DEF AbortedAtHead
<1>c. CASE RequestBatch
  <2> USE <1>c DEF RequestBatch, call, single, index
  <2>1. TypeOK'
    BY <1>b, BatchKept DEF IInv, TypeOK, Places, Positions, Advance
  <2>2. CASE BatchOf = {}
    <3>1. at' = at + BatchSize /\ place' = "batch"
      BY <2>2 DEF Advance
    <3>2. KeptSoFar'
      BY <2>2, <3>1, BatchKept DEF IInv, KeptSoFar, Kept, Positions
    <3>3. RefusedSoFar'
      BY <2>2, <3>1, BatchKept DEF IInv, RefusedSoFar, TypeOK
    <3>. QED
      BY <2>1, <3>1, <3>2, <3>3 DEF IInv, Tried, AtTheEnd
  <2>3. CASE BatchOf # {}
    <3>1. at' = at /\ place' = "embedding" /\ batch' = BatchOf
      BY <2>3
    <3>2. KeptSoFar' /\ RefusedSoFar'
      BY <3>1 DEF IInv, KeptSoFar, Kept, Positions, RefusedSoFar
    <3>3. Tried'
      BY <3>1 DEF Tried, BatchOf, RawBatch, Positions
    <3>. QED
      BY <2>1, <3>1, <3>2, <3>3 DEF IInv, AtTheEnd
  <2>. QED
    BY <2>2, <2>3
<1>d. CASE BatchEmbedded
  <2> USE <1>d DEF BatchEmbedded, Advance, call, single
  <2>0. batch = BatchOf
    BY DEF IInv, Tried
  <2>1. TypeOK'
    BY <1>b DEF IInv, TypeOK, Places, Positions
  <2>2. KeptSoFar'
    BY <2>0, BatchKept DEF IInv, KeptSoFar, Kept, Positions
  <2>3. RefusedSoFar'
    BY <2>0, BatchKept DEF IInv, RefusedSoFar, TypeOK
  <2>. QED
    BY <2>1, <2>2, <2>3 DEF IInv, Tried, AtTheEnd
<1>e. CASE BatchRefused
  <2> USE <1>e DEF BatchRefused, call, index
  <2>1. TypeOK'
    BY DEF IInv, TypeOK, Places, Positions
  <2>2. KeptSoFar' /\ RefusedSoFar'
    BY DEF IInv, KeptSoFar, Kept, Positions, RefusedSoFar
  <2>3. Tried'
    BY DEF IInv, Tried, BatchOf, RawBatch, Positions
  <2>. QED
    BY <2>1, <2>2, <2>3 DEF IInv, AtTheEnd
<1>f. CASE EmbedFails
  BY <1>f, RejectInv DEF EmbedFails
<1>g. CASE RequestOne
  <2> USE <1>g DEF RequestOne, call, single, index
  <2>1. TypeOK'
    BY DEF IInv, TypeOK, Places, Positions
  <2>2. KeptSoFar' /\ RefusedSoFar'
    BY DEF IInv, KeptSoFar, Kept, Positions, RefusedSoFar
  <2>3. Tried'
    BY DEF IInv, Tried, BatchOf, RawBatch, Positions
  <2>. QED
    BY <2>1, <2>2, <2>3 DEF IInv, AtTheEnd
<1>h. ASSUME NEW p \in todo, OneEmbedded(p) PROVE IInv'
  <2> USE <1>h DEF OneEmbedded, call, index
  <2>1. TypeOK'
    BY DEF IInv, TypeOK, Places, Positions
  <2>2. KeptSoFar' /\ RefusedSoFar'
    BY DEF IInv, KeptSoFar, Kept, Positions, RefusedSoFar
  <2>3. Tried'
    BY DEF IInv, Tried, BatchOf, RawBatch, Positions
  <2>. QED
    BY <2>1, <2>2, <2>3 DEF IInv, AtTheEnd
<1>i. ASSUME NEW p \in todo, OneRefused(p) PROVE IInv'
  <2> USE <1>i DEF OneRefused, call, index
  <2>0. base[p].url \in Urls
    <3>1. base[p] \in Chunk
      BY <1>b DEF IInv, TypeOK, Positions
    <3>. QED
      BY <3>1 DEF Chunk
  <2>1. TypeOK'
    BY <2>0 DEF IInv, TypeOK, Places, Positions
  <2>2. KeptSoFar' /\ RefusedSoFar'
    BY DEF IInv, KeptSoFar, Kept, Positions, RefusedSoFar
  <2>3. Tried'
    BY DEF IInv, Tried, BatchOf, RawBatch, Positions
  <2>. QED
    BY <2>1, <2>2, <2>3 DEF IInv, AtTheEnd
<1>j. CASE RefusalReported
  BY <1>j, RejectInv DEF RefusalReported, IInv, TypeOK
<1>k. CASE SkipRefused
  <2> USE <1>k DEF SkipRefused, Advance, Skipping, call, single
  <2>0. /\ batch = BatchOf /\ good \subseteq batch /\ good \cap blocked = {}
        /\ \A p \in batch : p \in good \/ base[p].url \in refused
    BY DEF IInv, Tried
  <2>1. TypeOK'
    <3>1. told' \in [Urls -> Nat]
      BY DEF IInv, TypeOK, Tell
    <3>2. chunks' \subseteq Positions
      BY DEF IInv, TypeOK, Keeping
    <3>. QED
      BY <1>b, <3>1, <3>2 DEF IInv, TypeOK, Places, Positions
  <2>2. KeptSoFar'
    <3>1. chunks' = { p \in chunks \cup good : base[p].url \notin skipped' }
      BY DEF Keeping
    <3>2. chunks = { p \in Kept : p <= at }
      BY DEF IInv, KeptSoFar
    <3>3. Kept' = { p \in Kept : base[p].url \notin refused }
      BY DEF Kept, Positions
    <3>4. \A p \in good : p \in Kept /\ p <= at + BatchSize
      BY <2>0, <1>p, BatchKept DEF BatchOf, RawBatch
    <3>5. \A p \in Kept : (p <= at + BatchSize) <=> (p <= at \/ p \in batch)
      BY <2>0, BatchKept
    <3>6. \A p : p \in chunks' <=> (p \in Kept' /\ p <= at + BatchSize)
      BY <2>0, <3>1, <3>2, <3>3, <3>4, <3>5 DEF Kept
    <3>. QED
      BY <3>6 DEF KeptSoFar
  <2>3. RefusedSoFar'
    <3>1. \A p \in blocked : p <= at + BatchSize => base[p].url \in skipped'
      BY <2>0, BatchKept DEF IInv, RefusedSoFar, TypeOK
    <3>2. \A u \in Urls : told'[u] = (IF u \in skipped' THEN 1 ELSE 0)
      BY DEF IInv, RefusedSoFar, Tell
    <3>. QED
      BY <3>1, <3>2 DEF RefusedSoFar
  <2>. QED
    BY <2>1, <2>2, <2>3 DEF IInv, Tried, AtTheEnd
<1>l. CASE Finish
  <2>1. CASE Reject("invalid_index", {})
    BY <1>l, <2>1, RejectInv DEF Finish
  <2>2. CASE ~Reject("invalid_index", {})
    <3> USE <1>l, <2>2 DEF Finish, call, single, index
    <3>1. TypeOK'
      BY DEF IInv, TypeOK, Places, Positions
    <3>2. KeptSoFar' /\ RefusedSoFar'
      BY DEF IInv, KeptSoFar, Kept, Positions, RefusedSoFar
    <3>. QED
      BY <3>1, <3>2 DEF IInv, Tried, AtTheEnd
  <2>. QED
    BY <2>1, <2>2
<1>m. CASE WriteFile
  <2> USE <1>m DEF WriteFile, call, single, index
  <2>1. TypeOK'
    BY DEF IInv, TypeOK, Places, Positions
  <2>2. KeptSoFar' /\ RefusedSoFar'
    BY DEF IInv, KeptSoFar, Kept, Positions, RefusedSoFar
  <2>. QED
    BY <2>1, <2>2 DEF IInv, Tried, AtTheEnd
<1>n. CASE Rename
  <2> USE <1>n DEF Rename, call, single, index
  <2>1. TypeOK'
    BY DEF IInv, TypeOK, Places, Positions
  <2>2. KeptSoFar' /\ RefusedSoFar'
    BY DEF IInv, KeptSoFar, Kept, Positions, RefusedSoFar
  <2>. QED
    BY <2>1, <2>2 DEF IInv, Tried, AtTheEnd
<1>o. CASE SaveFails
  BY <1>o, RejectInv DEF SaveFails
<1>q. CASE Crash
  <2> USE <1>q DEF Crash, call, single, index
  <2>1. TypeOK'
    BY DEF IInv, TypeOK, Places, Positions
  <2>2. KeptSoFar' /\ RefusedSoFar'
    BY DEF IInv, KeptSoFar, Kept, Positions, RefusedSoFar
  <2>. QED
    BY <2>1, <2>2 DEF IInv, Tried, AtTheEnd
<1>r. CASE Abort
  <2> USE <1>r DEF Abort, call, single, index
  <2>1. TypeOK'
    BY DEF IInv, TypeOK, Places, Positions
  <2>2. KeptSoFar' /\ RefusedSoFar'
    BY DEF IInv, KeptSoFar, Kept, Positions, RefusedSoFar
  <2>3. Tried'
    BY DEF IInv, Tried, BatchOf, RawBatch, Positions
  <2>. QED
    BY <2>1, <2>2, <2>3 DEF IInv, AtTheEnd
<1>s. CASE UNCHANGED vars
  <2> USE <1>s DEF vars, call, single, index
  <2>1. TypeOK'
    BY DEF IInv, TypeOK, Positions
  <2>2. KeptSoFar' /\ RefusedSoFar'
    BY DEF IInv, KeptSoFar, Kept, Positions, RefusedSoFar
  <2>3. Tried'
    BY DEF IInv, Tried, BatchOf, RawBatch, Positions
  <2>. QED
    BY <2>1, <2>2, <2>3 DEF IInv, AtTheEnd
<1>. QED
  BY <1>a, <1>c, <1>d, <1>e, <1>f, <1>g, <1>h, <1>i, <1>j, <1>k, <1>l, <1>m,
     <1>n, <1>o, <1>q, <1>r, <1>s
  DEF Next, Build, Save, BatchSettles, OneSettles

\* The inductive invariant holds in every reachable state.
THEOREM InvariantHolds == Spec => []IInv
BY InitInv, NextInv, PTL DEF Spec

-----------------------------------------------------------------------------
\* Every variable has its type.
THEOREM TypeCorrect == Spec => []TypeOK
<1>1. IInv => TypeOK
  BY DEF IInv
<1>. QED
  BY <1>1, InvariantHolds, PTL

\* At the end nothing lies behind `at`, so what is kept so far is all there is.
LEMMA WholeAtTheEnd == IInv => DocumentsAreWhole
<1> SUFFICES ASSUME IInv, place \in {"built", "writing", "saved"} PROVE chunks = Kept
  BY DEF DocumentsAreWhole
<1>1. at >= Len(base) /\ at \in Nat /\ base \in Seq(Chunk)
  BY TypeBase DEF IInv, AtTheEnd, TypeOK
<1>2. \A p \in Positions : p <= at
  BY <1>1 DEF Positions
<1>. QED
  BY <1>2 DEF IInv, KeptSoFar, Kept

\* The index that is built holds every chunk of the documents that were not
\* skipped and no other (build.ts:62-134).
THEOREM IndexHoldsWholeDocuments == Spec => []DocumentsAreWhole
BY WholeAtTheEnd, InvariantHolds, PTL

\* No part of a document with a refused part is in the index, and onSkip was
\* called once for each document left out (build.ts:112-120).
THEOREM SkippedDocumentsAreTold == Spec => []SkippedAreTold
<1>1. IInv => SkippedAreTold
  <2> SUFFICES ASSUME IInv PROVE SkippedAreTold
    OBVIOUS
  <2>1. base \in Seq(Chunk) /\ at \in Nat
    BY TypeBase DEF IInv, TypeOK
  <2>2. place \in {"built", "writing", "saved"} => \A p \in blocked : p <= at
    BY <2>1 DEF IInv, AtTheEnd, TypeOK, Positions
  <2>. QED
    BY <2>2 DEF IInv, RefusedSoFar, SkippedAreTold, UrlOf
<1>. QED
  BY <1>1, InvariantHolds, PTL

\* Under the path of the index lies the old index or the whole new one
\* (node.ts:12-16).
THEOREM FileStaysWhole == Spec => []FileIsWhole
<1>1. IInv => FileIsWhole
  BY WholeAtTheEnd DEF IInv, AtTheEnd, FileIsWhole, DocumentsAreWhole
<1>. QED
  BY <1>1, InvariantHolds, PTL

\* After an abort no further request is started (build.ts:36, 78).
THEOREM AbortEndsRequests == Spec => QuietAfterAbort
<1>1. [Next]_vars =>
        [aborted /\ place' # place => place' \notin {"embedding", "embeddingOne"}]_vars
  BY DEF Next, Build, Save, BatchSettles, OneSettles, AbortedAtHead, RequestBatch,
         BatchEmbedded, BatchRefused, EmbedFails, RequestOne, OneEmbedded,
         OneRefused, RefusalReported, SkipRefused, Finish, WriteFile, Rename,
         SaveFails, Crash, Abort, Reject, vars
<1>. QED
  BY <1>1, PTL DEF Spec, QuietAfterAbort
=============================================================================
