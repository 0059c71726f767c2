--------------------------- MODULE KnowledgePieces ---------------------------
(***************************************************************************)
(* From the files of a directory to the pieces that are embedded:          *)
(* readDocsDir (node.ts), chunkText and chunkDocs (knowledge/chunk.ts),    *)
(* and the checks an index must pass to be built or loaded                 *)
(* (knowledge/validate.ts), under agents/customer-support-agent/src.       *)
(*                                                                         *)
(* A text is a sequence of characters, of which only blanks are told from  *)
(* the others; offsets count from zero, as in the code, and a piece is the *)
(* pair of its first offset and the one behind its last.                   *)
(***************************************************************************)
EXTENDS Integers, Sequences, SequencesExt, FiniteSetsExt

Blank(text, k) == text[k + 1] = "blank"

\* The blanks among some offsets.
BlanksIn(text, offsets) == { k \in offsets : Blank(text, k) }

\* Where the piece that begins at i ends: at the last blank of its second half.
EndOf(text, maxChars, i) ==
  LET hard   == Min({i + maxChars, Len(text)})
      blanks == BlanksIn(text, (i + (maxChars \div 2) + 1)..hard \ {Len(text)})
  IN  IF hard = Len(text) \/ blanks = {} THEN hard ELSE Max(blanks)

\* Mutant of NextOf: the first blank is looked for to the end of the text.
NextOfAnyWord(text, overlap, i, end) ==
  LET next   == Max({i + 1, end - overlap})
      blanks == BlanksIn(text, next..(Len(text) - 1))
  IN  IF blanks = {} THEN next ELSE Min(blanks) + 1

\* Where the next piece begins: behind the first blank of the overlap.
NextOf(text, overlap, i, end) ==
  LET next   == Max({i + 1, end - overlap})
      blanks == BlanksIn(text, next..(end - 1))
  IN  IF blanks = {} THEN next ELSE Min(blanks) + 1

\* Where the pieces begin.
Starts(text, maxChars, overlap) ==
  LET upto[n \in 1..Len(text)] ==
        IF n = 1 THEN <<0>>
        ELSE LET starts == upto[n - 1]
                 end    == EndOf(text, maxChars, Last(starts))
             IN  IF Len(starts) < n - 1 \/ end = Len(text) THEN starts
                 ELSE Append(starts, NextOf(text, overlap, Last(starts), end))
  IN  upto[Len(text)]

\* A piece without the blanks around it, and nothing of one that has no word.
Trimmed(text, from, to) ==
  LET words == (from..(to - 1)) \ BlanksIn(text, from..(to - 1))
  IN  IF words = {} THEN <<>> ELSE << <<Min(words), Max(words) + 1>> >>

\* chunkText, of a text that has been cleaned.
ChunkText(text, maxChars, overlap) ==
  IF text = <<>> THEN <<>>
  ELSE IF Len(text) <= maxChars THEN << <<0, Len(text)>> >>
  ELSE LET starts == Starts(text, maxChars, overlap)
       IN  FlattenSeq([n \in 1..Len(starts) |->
                         Trimmed(text, starts[n], EndOf(text, maxChars, starts[n]))])

-----------------------------------------------------------------------------
\* A file is [stem, ext, opens, closes, title, audiences, pieces]: its path without the
\* extension, the two lines of its front matter, what stands between them, and how
\* many pieces its text makes, zero when it is blank.
IsRead(file) == file.ext \in {"md", "mdx", "txt"}

HasFront(file) == file.opens /\ file.closes

\* Mutant of SourceDoc: what the front matter says is the title's only.
SourceDocForAll(file) ==
  [url |-> file.stem, pieces |-> file.pieces,
   title |-> IF HasFront(file) /\ file.title # {} THEN file.title ELSE {file.stem},
   audiences |-> {}]

\* The document of a file: its url is the path without the extension.
SourceDoc(file) ==
  [url |-> file.stem, pieces |-> file.pieces,
   title |-> IF HasFront(file) /\ file.title # {} THEN file.title ELSE {file.stem},
   audiences |-> IF HasFront(file) THEN file.audiences ELSE {}]

\* Mutant of ReadDocsDir: in the order the directory gives.
ReadDocsDirUnsorted(files) ==
  LET read == SelectSeq(files, IsRead) IN [i \in 1..Len(read) |-> SourceDoc(read[i])]

\* readDocsDir: the files with a known extension, by url.
ReadDocsDir(files) ==
  LET read == SelectSeq(files, IsRead)
  IN  SortSeq([i \in 1..Len(read) |-> SourceDoc(read[i])], LAMBDA a, b : a.url < b.url)

\* chunkDocs: an id is a hash of the url and the place in the document.
ChunkDocs(docs) ==
  FlattenSeq([d \in 1..Len(docs) |->
                [k \in 1..docs[d].pieces |->
                   [id |-> <<docs[d].url, k>>, title |-> docs[d].title, url |-> docs[d].url,
                    audiences |-> docs[d].audiences]]])

DefaultDimensions == 768

\* Mutant of Dimensions: the default stands for what is absent only.
DimensionsUnlessAbsent(asked) == IF asked = {} THEN DefaultDimensions ELSE Max(asked)

\* The dimensions an index is built with: those asked for, unless none, no number, or 0 was.
Dimensions(asked) == IF asked \subseteq {0} THEN DefaultDimensions ELSE Max(asked)

\* validateIndex of an index that was built: what the build cannot rule out itself is a
\* number of dimensions no index may have, and an id that is there twice.
Invalid(chunks, dimensions) ==
  \/ dimensions \notin 1..8192
  \/ \E i, j \in 1..Len(chunks) : i # j /\ chunks[i].id = chunks[j].id
=============================================================================
