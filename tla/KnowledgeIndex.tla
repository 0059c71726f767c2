--------------------------- MODULE KnowledgeIndex ---------------------------
(***************************************************************************)
(* The knowledge index of the support agent: buildKnowledgeIndex           *)
(* (knowledge/build.ts) and the saveKnowledgeIndex (node.ts) that follows. *)
(*                                                                         *)
(* The documents are cut into chunks and embedded batch by batch.  When    *)
(* the guardrail of the gateway refuses a batch, its chunks are embedded   *)
(* one at a time to find which documents it refuses: the build fails and   *)
(* names them, or (skipBlocked) leaves these documents out, with what      *)
(* earlier batches hold of them.                                           *)
(*                                                                         *)
(* A chunk is known by its position in `base`.  The index being built is a *)
(* set of positions: what is pushed always lies behind what is there, so   *)
(* its order is that of the positions.  The code between two awaits is one *)
(* step, or two with the head of a loop between them: only Abort can come  *)
(* in there, to the effect of an abort just before the first.              *)
(***************************************************************************)
EXTENDS Naturals, Sequences, FiniteSets, SequencesExt

CONSTANTS
  Urls,          \* the urls of documents
  Corpora,       \* what chunkDocs makes of the documents of a call
  BatchSize      \* opts.batchSize

Chunk == [url : Urls, pos : Nat]

ASSUME CorporaAssumption   == Corpora \subseteq Seq(Chunk)
ASSUME BatchSizeAssumption == BatchSize \in Nat \ {0}

VARIABLES
  base,          \* baseChunks, fixed
  skipBlocked,   \* opts.skipBlocked, fixed
  blocked,       \* the positions the guardrail always refuses, fixed
  aborted,       \* opts.signal.aborted
  place,         \* where the call stands
  at,            \* i, the position before the current batch
  batch,         \* the batch in hand
  todo,          \* what is left of it, one at a time
  refused,       \* the urls in refusedInBatch
  good,          \* the positions in successfulInBatch
  chunks,        \* the positions in the index
  skipped,       \* skippedDocUrls
  told,          \* how often onSkip was called for each url
  error,         \* the code the call rejects with, and the documents it names
  file           \* what the path of the index holds: "old", "partial", "new"

call   == <<base, skipBlocked, blocked>>
single == <<todo, refused, good>>
index  == <<chunks, skipped, told>>
vars   == <<call, aborted, place, at, batch, single, index, error, file>>

Positions == 1..Len(base)
UrlOf(ps) == { base[p].url : p \in ps }
Id(p)     == base[p]              \* stableHash of url and position

\* chunkDocs: documents are records of their url and how many pieces they make.
ChunkDocs(docs) ==
  FlattenSeq([d \in 1..Len(docs) |->
                [k \in 1..docs[d].pieces |-> [url |-> docs[d].url, pos |-> k]]])

NoError == [code |-> "none", names |-> {}]

Init ==
  /\ base \in Corpora /\ skipBlocked \in BOOLEAN
  /\ blocked \in SUBSET Positions
  /\ aborted \in BOOLEAN
  /\ place = "batch" /\ at = 0 /\ batch = {}
  /\ todo = {} /\ refused = {} /\ good = {}
  /\ chunks = {} /\ skipped = {} /\ told = [u \in Urls |-> 0]
  /\ error = NoError /\ file = "old"

-----------------------------------------------------------------------------
\* Mutant of Advance: a batch of which nothing is left is not passed over.
AdvanceUnlessEmpty(b) == at' = IF b = {} THEN at ELSE at + BatchSize

Advance(b) == at' = at + BatchSize

Reject(code, names) ==
  /\ place' = "failed" /\ error' = [code |-> code, names |-> names]
  /\ UNCHANGED <<call, aborted, at, batch, single, index, file>>

\* Mutant of RawBatch: a batch is one chunk short of what the build advances by.
RawBatchOffByOne == { p \in Positions : at < p /\ p <= at + BatchSize - 1 }

RawBatch == { p \in Positions : at < p /\ p <= at + BatchSize }

\* What of a batch is sent: not the documents that were skipped before.
BatchOf == { p \in RawBatch : skipBlocked => base[p].url \notin skipped }

AbortedAtHead ==
  /\ aborted
  /\ \/ place = "batch" /\ at < Len(base)
     \/ place = "single" /\ todo # {}
  /\ Reject("aborted", {})

RequestBatch ==
  /\ place = "batch" /\ at < Len(base) /\ ~aborted
  /\ batch' = BatchOf
  /\ IF batch' = {}
     THEN Advance(batch') /\ UNCHANGED place
     ELSE place' = "embedding" /\ UNCHANGED at
  /\ UNCHANGED <<call, aborted, single, index, error, file>>

BatchEmbedded ==
  /\ place = "embedding" /\ batch \cap blocked = {}
  /\ chunks' = chunks \cup batch
  /\ place' = "batch" /\ Advance(batch)
  /\ UNCHANGED <<call, aborted, batch, single, skipped, told, error, file>>

\* The guardrail may refuse a batch of which it refuses no chunk.
BatchRefused ==
  /\ place = "embedding" /\ ~aborted
  /\ place' = "single" /\ todo' = batch /\ refused' = {} /\ good' = {}
  /\ UNCHANGED <<call, aborted, at, batch, index, error, file>>

\* Any other failure of embed, its checks of the answer included.
EmbedFails ==
  /\ place \in {"embedding", "embeddingOne"}
  /\ Reject(IF aborted THEN "aborted" ELSE "upstream_error", {})

First(p) == p \in todo /\ \A q \in todo : p <= q

\* Mutant of RequestOne: the signal is looked at once per batch only.
RequestOneRegardless ==
  /\ place = "single" /\ todo # {}
  /\ place' = "embeddingOne"
  /\ UNCHANGED <<call, aborted, at, batch, single, index, error, file>>

RequestOne ==
  /\ place = "single" /\ todo # {} /\ ~aborted
  /\ place' = "embeddingOne"
  /\ UNCHANGED <<call, aborted, at, batch, single, index, error, file>>

OneEmbedded(p) ==
  /\ place = "embeddingOne" /\ First(p) /\ p \notin blocked
  /\ todo' = todo \ {p} /\ good' = good \cup {p}
  /\ place' = "single"
  /\ UNCHANGED <<call, aborted, at, batch, refused, index, error, file>>

OneRefused(p) ==
  /\ place = "embeddingOne" /\ First(p) /\ ~aborted
  /\ todo' = todo \ {p} /\ refused' = refused \cup {base[p].url}
  /\ place' = "single"
  /\ UNCHANGED <<call, aborted, at, batch, good, index, error, file>>

\* Nothing is refused alone (the error of the batch is thrown on), or the
\* refusal is the caller's to see; the message lists at most ten of the names.
RefusalReported ==
  /\ place = "single" /\ todo = {}
  /\ refused = {} \/ ~skipBlocked
  /\ Reject("guardrail_blocked", refused)

\* Mutant of Keeping: what earlier batches hold of a refused document stays.
KeepingEarlier(ps) == chunks \cup { p \in ps : base[p].url \notin skipped' }

Keeping(ps) == { p \in chunks \cup ps : base[p].url \notin skipped' }

\* Mutant of Skipping: the set is a batch's own.
SkippingHere == refused

Skipping == skipped \cup refused

Tell == [u \in Urls |-> IF u \in refused \ skipped THEN told[u] + 1 ELSE told[u]]

SkipRefused ==
  /\ place = "single" /\ todo = {}
  /\ refused # {} /\ skipBlocked
  /\ skipped' = Skipping
  /\ told' = Tell
  /\ chunks' = Keeping(good)
  /\ place' = "batch" /\ Advance(batch)
  /\ UNCHANGED <<call, aborted, batch, single, error, file>>

\* validateIndex refuses an id that occurs twice (two documents of one url).
Finish ==
  /\ place = "batch" /\ at >= Len(base)
  /\ IF \A p, q \in chunks : Id(p) = Id(q) => p = q
     THEN /\ place' = "built"
          /\ UNCHANGED <<call, aborted, at, batch, single, index, error, file>>
     ELSE Reject("invalid_index", {})

-----------------------------------------------------------------------------
\* Mutant of WriteFile: the index is written in place.
WriteInPlace ==
  /\ place = "built"
  /\ place' = "writing" /\ file' = "partial"
  /\ UNCHANGED <<call, aborted, at, batch, single, index, error>>

\* saveKnowledgeIndex writes to a name of its own.
WriteFile ==
  /\ place = "built"
  /\ place' = "writing"
  /\ UNCHANGED <<call, aborted, at, batch, single, index, error, file>>

Rename ==
  /\ place = "writing"
  /\ place' = "saved" /\ file' = "new"
  /\ UNCHANGED <<call, aborted, at, batch, single, index, error>>

SaveFails == place = "writing" /\ Reject("save_failed", {})

Crash ==
  /\ place \notin {"saved", "failed", "crashed"}
  /\ place' = "crashed"
  /\ UNCHANGED <<call, aborted, at, batch, single, index, error, file>>

Abort ==
  /\ ~aborted
  /\ aborted' = TRUE
  /\ UNCHANGED <<call, place, at, batch, single, index, error, file>>

BatchSettles == BatchEmbedded \/ BatchRefused \/ EmbedFails
OneSettles   == \E p \in todo : OneEmbedded(p) \/ OneRefused(p)

Build == AbortedAtHead \/ RequestBatch \/ BatchSettles \/ RequestOne
           \/ OneSettles \/ RefusalReported \/ SkipRefused \/ Finish
Save  == WriteFile \/ Rename \/ SaveFails
Next  == Build \/ Save \/ Crash \/ Abort

\* A request settles (the timeout of the client), and so does a write.
Spec == Init /\ [][Next]_vars /\ WF_vars(Build \/ Save)

-----------------------------------------------------------------------------
Places == {"batch", "embedding", "single", "embeddingOne", "built", "writing",
           "saved", "failed", "crashed"}

\* Every variable has its type.
TypeOK ==
  /\ base \in Corpora /\ skipBlocked \in BOOLEAN /\ blocked \subseteq Positions
  /\ aborted \in BOOLEAN /\ place \in Places /\ at \in Nat
  /\ batch \subseteq Positions /\ todo \subseteq Positions /\ good \subseteq Positions
  /\ refused \subseteq Urls /\ skipped \subseteq Urls
  /\ chunks \subseteq Positions
  /\ told \in [Urls -> Nat]
  /\ error \in [code : {"none", "aborted", "upstream_error", "guardrail_blocked",
                        "invalid_index", "save_failed"}, names : SUBSET Urls]
  /\ file \in {"old", "partial", "new"}

Kept == { p \in Positions : base[p].url \notin skipped }

\* A document is in the index whole or not at all, however its chunks were
\* spread over batches and whichever of them was refused: the index holds every
\* chunk of the documents that were not skipped and no other (build.ts:62-134).
DocumentsAreWhole == place \in {"built", "writing", "saved"} => chunks = Kept

\* No document that the guardrail refuses a part of is in the index that is
\* built, not by its other parts either, and the caller is told of what is left
\* out: onSkip is called once for each, however many chunks and batches of it
\* were refused (build.ts:112-120).
SkippedAreTold ==
  /\ \A u \in Urls : told[u] = (IF u \in skipped THEN 1 ELSE 0)
  /\ place \in {"built", "writing", "saved"} =>
       /\ UrlOf(blocked) \subseteq skipped
       /\ skipped # {} => skipBlocked

\* What a reader finds under the path of the index is the old index or the new
\* one, complete, wherever the build failed, was aborted or crashed (node.ts:13).
FileIsWhole ==
  /\ file # "partial"
  /\ file = "new" => place = "saved" /\ chunks = Kept

\* After an abort the build starts no further (billed) request, not between the
\* chunks of a refused batch either (build.ts:36, 78).
QuietAfterAbort ==
  [][aborted /\ place' # place => place' \notin {"embedding", "embeddingOne"}]_vars

\* A build comes to its end: an index, an error, or the crash of the process.
BuildEnds == <>(place \in {"saved", "failed", "crashed"})
=============================================================================
