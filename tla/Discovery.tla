------------------------------ MODULE Discovery ------------------------------
(***************************************************************************)
(* What a key can reach: the models of sdks/js/src/models.ts, the          *)
(* capabilities of the gateway, and the MCP servers of mcp.ts.             *)
(*                                                                         *)
(* An id is the sequence of its components, between the slashes: of a      *)
(* component only what a URL would read in it is kept.  "?" stands for one *)
(* with a character that ends a path, " " for one of white space; "." and  *)
(* ".." are the components that lead nowhere and up.                       *)
(***************************************************************************)
EXTENDS Naturals, Sequences, SequencesExt

Dots       == {".", ".."}
Components == {"a", "A", "?", " ", ""} \cup Dots

\* An entry of a list of models, and a body that may be one.
Entry(is, id) == [is |-> is, id |-> id]
Body(record, list, entries) == [record |-> record, list |-> list, entries |-> entries]

-----------------------------------------------------------------------------
\* Mutant of Path: the id encoded as a whole, its slashes too.
PathOfWhole(id) == <<[holds |-> id, encoded |-> TRUE]>>

\* encodeModelId: each component is encoded, the slashes between them are kept.
Path(id) == [i \in 1..Len(id) |-> [holds |-> <<id[i]>>, encoded |-> TRUE]]

\* The path of rpc: one component more for a server that is named.
ServerPath(server) == { [holds |-> <<s>>, encoded |-> TRUE] : s \in server \ {""} }

\* How a URL is resolved under its mount: encoding keeps the dots of a component; one
\* that leads nowhere falls out, one that leads up takes the component before it away,
\* and a last one leaves its slash.
Resolved(held) ==
  LET walked == FoldLeft(LAMBDA path, c : CASE c = "."  -> path
                                            [] c = ".." -> SubSeq(path, 1, Len(path) - 1)
                                            [] c \notin Dots -> Append(path, c),
                         <<"mount">>, held)
  IN  IF Last(held) \in Dots THEN Append(walked, "") ELSE walked

\* What is reached under a mount, none of it when the gateway refuses the path or the path
\* leads out of it: an encoded slash is refused, a component that is not encoded ends at
\* what a URL reads in it, and an empty one names the list.
Reaches(path) ==
  LET resolved == Resolved([i \in 1..Len(path) |-> path[i].holds[1]])
      under    == Tail(resolved)
  IN  IF \/ \E i \in 1..Len(path) : Len(path[i].holds) > 1
         \/ \E i \in 1..Len(path) : path[i].holds = <<"?">> /\ ~path[i].encoded
         \/ resolved[1] # "mount"
      THEN {}
      ELSE {IF under = <<"">> THEN <<>> ELSE under}

-----------------------------------------------------------------------------
\* list: the models of the envelope, none where there is no list.
List(body) == IF body.record /\ body.list THEN body.entries ELSE <<>>

\* ids: reading the id of a null entry throws.
RefusesIds(body) == \E e \in Range(List(body)) : e.is = "null"

\* Mutant of Ids: an empty id is one too.
IdsOfStrings(body) ==
  LET strings == SelectSeq(List(body), LAMBDA e : e.is = "string")
  IN  [i \in 1..Len(strings) |-> strings[i].id]

\* ids: those that are strings and not empty, in the order they came in.
Ids(body) ==
  LET usable == SelectSeq(List(body), LAMBDA e : e.is = "string" /\ e.id # <<"">>)
  IN  [i \in 1..Len(usable) |-> usable[i].id]

\* Mutant of Has: whatever the case of its letters.
HasInAnyCase(body, id) ==
  \E held \in Range(Ids(body)) :
    /\ Len(held) = Len(id)
    /\ \A i \in 1..Len(id) : held[i] = id[i] \/ {held[i], id[i]} = {"a", "A"}

\* has
Has(body, id) == id \in Range(Ids(body))

\* Mutant of RefusesId: any string is an id.
RefusesNoId(id) == FALSE

\* get: a blank id is refused.
RefusesId(id) == id \in {<<"">>, <<" ">>}

-----------------------------------------------------------------------------
\* Mutant of CapabilitiesFrom: the gateway mounts them under the version.
CapabilitiesFromVersioned(works) == works \cap {"versioned"}

\* capabilities: from the root, and under the version whatever the root failed with.
CapabilitiesFrom(works) == IF "root" \in works THEN {"root"} ELSE works \cap {"versioned"}

\* A field of the capabilities: what the body has under its name, an empty list where it
\* has nothing.
Capability(field) == IF field = "missing" THEN "empty" ELSE field

\* Mutant of Providers: a null is handed on.
ProvidersAsHeld(record, field) == IF record THEN Capability(field) ELSE "empty"

\* providers
Providers(record, field) ==
  IF record /\ field # "null" THEN Capability(field) ELSE "empty"
=============================================================================
