----------------------------- MODULE Similarity ------------------------------
(***************************************************************************)
(* How near a chunk is to a question: the chunks validateIndex of          *)
(* knowledge/validate.ts lets in, cosineSimilarity and the scores of the   *)
(* in-memory store of knowledge/store.ts of the support agent.             *)
(*                                                                         *)
(* A vector is a sequence of integers, Infinite one that is no finite      *)
(* number.  A similarity is kept as its square with the sign it had, a     *)
(* fraction, so that it is ordered as it is without a root.                *)
(***************************************************************************)
EXTENDS Integers, Sequences, SequencesExt

Infinite == 99

Dot(a, b) == FoldLeft(+, 0, [i \in DOMAIN a |-> a[i] * b[i]])

Abs(n) == IF n < 0 THEN -n ELSE n

Fraction(above, below) == [above |-> above, below |-> below]

\* Of a vector of nothing but zeros nothing is said.
Nothing == Fraction(0, 1)

Less(p, q) == p.above * q.below < q.above * p.below

-----------------------------------------------------------------------------
\* cosineSimilarity throws for vectors of two lengths.
RefusesPair(a, b) == Len(a) # Len(b)

\* cosineSimilarity
Cosine(a, b) ==
  LET dot == Dot(a, b)
      normA == Dot(a, a)
      normB == Dot(b, b)
  IN  IF normA = 0 \/ normB = 0 THEN Nothing ELSE Fraction(dot * Abs(dot), normA * normB)

\* Mutant of Score: not divided by the norms.
ScoreByProduct(chunk, query) == Fraction(Dot(chunk.vector, query) * Abs(Dot(chunk.vector, query)), 1)

\* search: the same by the norm that was kept for the chunk.
Score(chunk, query) ==
  IF Dot(chunk.vector, chunk.vector) * Dot(query, query) = 0 THEN Nothing
  ELSE Fraction(Dot(chunk.vector, query) * Abs(Dot(chunk.vector, query)),
                Dot(chunk.vector, chunk.vector) * Dot(query, query))

\* search: the nearest first, ties by id.
Ranked(chunks, query) ==
  LET near(i) == Score(chunks[i], query)
      before(i, j) == \/ Less(near(j), near(i))
                      \/ ~Less(near(i), near(j)) /\ chunks[i].id < chunks[j].id
      order == SortSeq([i \in DOMAIN chunks |-> i], before)
  IN  [i \in DOMAIN chunks |-> chunks[order[i]].id]

\* search refuses a question of another length than the chunks.
RefusesQuery(query, dimensions) == Len(query) # dimensions

-----------------------------------------------------------------------------
\* Mutant of RefusesChunk: the lengths are checked when they are multiplied.
RefusesChunkOfText(chunk, dimensions) ==
  \/ chunk.blank \/ chunk.audiences \notin {"none", "strings"}
  \/ Infinite \in Range(chunk.vector)

\* validateIndex: a chunk says something, to nobody or to those in a list of strings, and
\* has a finite number for every dimension.
RefusesChunk(chunk, dimensions) ==
  \/ chunk.blank \/ chunk.audiences \notin {"none", "strings"}
  \/ Len(chunk.vector) # dimensions \/ Infinite \in Range(chunk.vector)

\* createMemoryKnowledgeStore: no store over a chunk that is refused, nor over two of
\* one id.
RefusesIndex(chunks, dimensions) ==
  \/ \E i \in DOMAIN chunks : RefusesChunk(chunks[i], dimensions)
  \/ \E i, j \in DOMAIN chunks : i # j /\ chunks[i].id = chunks[j].id
=============================================================================
