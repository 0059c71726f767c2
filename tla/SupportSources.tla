--------------------------- MODULE SupportSources ---------------------------
(***************************************************************************)
(* What an answer of the support agent is grounded in, and how that is     *)
(* numbered: the checks of a request (limits.ts), retrieval and search     *)
(* (retrieval.ts, knowledge/store.ts), confidence (confidence.ts), the web *)
(* search (web-search.ts), the citations and the sources of the prompt     *)
(* (prompt.ts), and the question they are all for (gaps.ts), under         *)
(* agents/customer-support-agent/src.                                      *)
(*                                                                         *)
(* A similarity is a number of the chunk, in thousandths; a URL is where   *)
(* it leads once it is cleaned, and whether that is http.  An optional     *)
(* value is a set of at most one element.                                  *)
(***************************************************************************)
EXTENDS Integers, Sequences, SequencesExt, FiniteSetsExt

MaxTopK      == 50
MaxCitations == 8
MaxResults   == 5         \* of a web search that names no other number

-----------------------------------------------------------------------------
\* validateChatRequest.  A content has a length and may be blank.
Refused(request, limits) ==
  LET turns == request.messages
  IN  \/ turns = <<>> \/ Len(turns) > limits.maxMessages
      \/ \E i \in 1..Len(turns) :
           \/ turns[i].role \notin {"user", "assistant"}
           \/ turns[i].blank \/ turns[i].length > limits.maxMessageChars
      \/ Last(turns).role # "user"
      \/ \E length \in request.pageContext : length > 10 * limits.maxPageContextChars

\* The page context that is kept: cut, not refused, up to ten times its limit.
PageContext(request, limits) ==
  { IF length > limits.maxPageContextChars THEN limits.maxPageContextChars ELSE length :
      length \in request.pageContext }

\* Mutant of LatestQuestion: the first turn of the user.
FirstQuestion(turns) ==
  LET asked == { i \in 1..Len(turns) : turns[i].role = "user" }
  IN  IF asked = {} THEN 0 ELSE Min(asked)

\* latestQuestion: which turn it is, or none.
LatestQuestion(turns) ==
  LET asked == { i \in 1..Len(turns) : turns[i].role = "user" }
  IN  IF asked = {} THEN 0 ELSE Max(asked)

-----------------------------------------------------------------------------
\* Mutant of Eligible: a chunk for some is for everyone who names nobody.
EligibleUnasked(chunk, audiences) ==
  chunk.audiences = {} \/ audiences = {} \/ \E names \in audiences : chunk.audiences \cap names # {}

\* A chunk for nobody in particular is for all; the others for those who are named.
Eligible(chunk, audiences) ==
  chunk.audiences = {} \/ \E names \in audiences : chunk.audiences \cap names # {}

\* Closest first; ties by id.
Before(a, b) == a.near > b.near \/ (a.near = b.near /\ a.id < b.id)

\* Mutant of Search: cut before it is sorted.
SearchFirst(chunks, topK, audiences) ==
  LET found == SelectSeq(chunks, LAMBDA c : Eligible(c, audiences))
  IN  SortSeq(SubSeq(found, 1, Min({topK, Len(found)})), Before)

\* search: the topK closest chunks the caller may see.
Search(chunks, topK, audiences) ==
  LET found == SortSeq(SelectSeq(chunks, LAMBDA c : Eligible(c, audiences)), Before)
  IN  SubSeq(found, 1, Min({topK, Len(found)}))

RefusesSearch(topK) == topK \notin 1..MaxTopK

\* retrieve: nothing for a blank question, or one that could not be embedded.
Retrieve(chunks, topK, audiences, question) ==
  IF question.blank \/ ~question.embedded THEN <<>> ELSE Search(chunks, topK, audiences)

\* scoreConfidence
Clamp(near) == Max({0, Min({1000, near})})

Score(chunks) == Max({0} \cup { Clamp(chunks[i].near) : i \in 1..Len(chunks) })

Level(chunks, thresholds) ==
  CASE chunks = <<>> -> "low"
    [] chunks # <<>> /\ Score(chunks) >= thresholds.high -> "high"
    [] chunks # <<>> /\ Score(chunks) \in thresholds.medium..(thresholds.high - 1) -> "medium"
    [] chunks # <<>> /\ Score(chunks) < thresholds.medium -> "low"

\* runWebSearch: a search that fails, is too late, or whose caller had left is one
\* that found nothing.
WebSources(search) ==
  IF search.aborted \/ search.ends # "results" THEN <<>>
  ELSE LET found == SelectSeq(search.results, LAMBDA s : s.http)
       IN  SubSeq(found, 1, Min({MaxResults, Len(found)}))

-----------------------------------------------------------------------------
\* addSource: up to eight, http only, each place once.
AddSource(citations, source) ==
  IF Len(citations) >= MaxCitations \/ ~source.http \/ Contains(citations, source.leads)
  THEN citations ELSE Append(citations, source.leads)

\* Mutant of Citations: the web first.
CitationsWebFirst(chunks, web) == FoldLeft(AddSource, <<>>, web \o chunks)

\* buildCitations
Citations(chunks, web) == FoldLeft(AddSource, <<>>, chunks \o web)

\* Mutant of Number: the position of the source in the prompt.
NumberInThePrompt(citations, sources, i) == i

\* getCiteIdx: the number a source has in the prompt, zero for none.
Number(citations, sources, i) ==
  LET places == { n \in 1..Len(citations) : citations[n] = sources[i].leads }
  IN  IF places = {} THEN 0 ELSE Min(places)

\* buildSystemPrompt: the numbers of the chunks, then of the web sources.  The retry
\* of a refused answer is built without the latter.
Numbers(chunks, web) ==
  [i \in 1..Len(chunks \o web) |-> Number(Citations(chunks, web), chunks \o web, i)]
=============================================================================
