-------------------------- MODULE MCKnowledgeIndex --------------------------
(* Documents of one to three pieces, so that one spans two batches of two *)
(* and shares a batch with another; a url that occurs twice; no document. *)
EXTENDS KnowledgeIndex

Doc(u, n) == [url |-> u, pieces |-> n]

MCUrls == {"a", "b", "c"}

MCCorpora == { ChunkDocs(docs) : docs \in {
  <<>>,
  <<Doc("a", 3), Doc("b", 2)>>,
  <<Doc("a", 1), Doc("b", 3), Doc("c", 1)>>,
  <<Doc("a", 1), Doc("b", 1), Doc("a", 2)>> } }
=============================================================================
