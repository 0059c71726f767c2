---------------------------- MODULE ClientHeaders ----------------------------
(***************************************************************************)
(* What a client of sdks/js/src/client.ts is built from, and the headers   *)
(* its requests leave with: the key, the default headers beside those the  *)
(* environment names for another service, the headers of one request, and  *)
(* the wrapper around fetch that sets the last word.                       *)
(*                                                                         *)
(* The name of a header is a pair of its lower-case name and its spelling. *)
(* A header on the wire is the sequence of its values; one with no value   *)
(* is removed from it.                                                     *)
(***************************************************************************)
EXTENDS Sequences, SequencesExt, Functions

CONSTANTS
  Keys,        \* strings that may stand for a key
  ValidKeys    \* those with the prefix of an nRouter key

Auth    == "authorization"
Tenancy == {"openai-organization", "openai-project"}
Trace   == "x-nr-trace-id"
Session == "x-nr-session-id"
Client  == "x-nr-client-language"

Undefined == "undefined"
Null      == "null"

\* An entry of a container of headers: a name and the values given under it.
Entry(name, spelling, values) == [name |-> <<name, spelling>>, values |-> values]

-----------------------------------------------------------------------------
\* Mutant of ResolveKey: the environment first.
ResolveKeyOfEnvironment(given, env) == IF env # {} THEN env \cap ValidKeys ELSE given \cap ValidKeys

\* resolveApiKey: the argument, else the environment; what is no key, or a function
\* that would return one, is refused.  The key, or none.
ResolveKey(given, env) ==
  IF given = {"function"} THEN {}
  ELSE IF given \subseteq {""} THEN env \cap ValidKeys ELSE given \cap ValidKeys

\* assertNRouterKey: no environment behind it.
AssertKey(value) == value \cap ValidKeys

\* Assigning client.apiKey: the key that is live afterwards; a refused one changes
\* nothing.
Rotate(key, value) == IF AssertKey(value) = {} THEN key ELSE AssertKey(value)

\* validateGatewayBaseUrl: no control character, a URL, with a host and without
\* credentials, over https, or http to a loopback.
RefusesUrl(url) ==
  \/ url.control \/ ~url.parses
  \/ url.scheme \notin {"http", "https"} \/ url.credentials \/ url.host = "none"
  \/ url.scheme = "http" /\ url.host # "loopback"

-----------------------------------------------------------------------------
\* The values of an entry that say something.
Items(values) == SelectSeq(values, LAMBDA v : v # Undefined)

\* One header after another entry of its name: a value is added, null clears.
Applied(before, items) ==
  FoldLeft(LAMBDA held, v : IF v = Null THEN <<>> ELSE Append(held, v), before, items)

\* Mutant of Slots: an entry without a value takes part.
SlotsOfAll(source, entries) ==
  FoldLeft(LAMBDA slots, e :
             LET name == e.name[1]
                 held == IF source = "record" \/ name \notin DOMAIN slots THEN <<>> ELSE slots[name]
             IN  [n \in DOMAIN slots \cup {name} |->
                    IF n = name THEN Applied(held, Items(e.values)) ELSE slots[n]],
           [n \in {} |-> <<>>], entries)

\* The slots of nrouterHeaders: one for a name, whatever its spelling.  In a record a
\* name that comes again is set anew, elsewhere its values are added.
Slots(source, entries) ==
  FoldLeft(LAMBDA slots, e :
             LET name == e.name[1]
                 held == IF source = "record" \/ name \notin DOMAIN slots THEN <<>> ELSE slots[name]
             IN  IF Items(e.values) = <<>> THEN slots
                 ELSE [n \in DOMAIN slots \cup {name} |->
                         IF n = name THEN Applied(held, Items(e.values)) ELSE slots[n]],
           [n \in {} |-> <<>>], entries)

\* Mutant of DefaultHeaders: only the names of the other service that are known.
DefaultHeadersListed(defaults, env, key) ==
  LET slots == Slots(defaults.source, defaults.entries)
  IN  [n \in DOMAIN slots \cup Tenancy \cup {Auth} |->
         CASE n = Auth -> <<key>> [] n \in Tenancy -> <<>> [] OTHER -> slots[n]]

\* nrouterHeaders: what the caller set, with every name of the environment that the
\* caller did not set removed, the tenancy of the other service too, and the key last.
DefaultHeaders(defaults, env, key) ==
  LET slots == Slots(defaults.source, defaults.entries)
  IN  [n \in DOMAIN slots \cup env \cup Tenancy \cup {Auth} |->
         CASE n = Auth -> <<key>>
           [] n \in Tenancy -> <<>>
           [] n \notin Tenancy \cup {Auth} -> IF n \in DOMAIN slots THEN slots[n] ELSE <<>>]

-----------------------------------------------------------------------------
\* A map in the order its keys were first set, as a JavaScript object has it.
Put(map, e) ==
  IF \E i \in DOMAIN map : map[i].name = e.name
  THEN [i \in DOMAIN map |-> IF map[i].name = e.name THEN e ELSE map[i]]
  ELSE Append(map, e)

\* Mutant of MergeHeaders: those of the fetch options first.
MergeHeadersSwapped(left, right) ==
  FoldLeft(LAMBDA map, e : IF e.values = <<Undefined>> THEN map ELSE Put(map, e), <<>>, right \o left)

\* mergeHeaders: those of the request, then those of its fetch options, by spelling.
MergeHeaders(left, right) ==
  FoldLeft(LAMBDA map, e : IF e.values = <<Undefined>> THEN map ELSE Put(map, e), <<>>, left \o right)

\* How the vendor client lays the entries of a record over headers it has: one by
\* one, each sets its name or removes it.
Over(headers, entries) ==
  FoldLeft(LAMBDA held, e :
             [n \in DOMAIN held \cup {e.name[1]} |->
                IF n = e.name[1] THEN Applied(<<>>, Items(e.values)) ELSE held[n]],
           headers, entries)

\* The vendor client: the headers of the environment, under those of the client, under
\* those of the request.
Assembled(call) ==
  LET defaults == DefaultHeaders(call.defaults, call.env, call.built)
      under    == [n \in call.env \cup DOMAIN defaults |->
                     IF n \in DOMAIN defaults THEN defaults[n] ELSE <<"env">>]
  IN  Over(under, MergeHeaders(call.headers, call.fetchHeaders))

\* The wrapper around fetch: a key of its own, no tenancy of the other service, and the
\* trace of the client where the request has none of its own.
Pin(call, key, sent) ==
  LET own == [n \in {Trace, Session, Client} |->
                CASE n = Trace -> call.traceId [] n = Session -> call.sessionId [] n = Client -> <<"js">>]
  IN  [n \in DOMAIN sent \cup {Auth} \cup DOMAIN own |->
         CASE n = Auth -> <<key>>
           [] n \in Tenancy -> <<>>
           [] n \in DOMAIN own -> IF n \in DOMAIN sent /\ sent[n] # <<>> THEN sent[n] ELSE own[n]
           [] n \notin Tenancy \cup {Auth} \cup DOMAIN own -> sent[n]]

\* Mutant of Pinned: the key the client was built with.
PinnedAsBuilt(call) == Pin(call, call.built, Assembled(call))

\* pinnedFetch: the key that is live on the way out.
Pinned(call) == Pin(call, call.live, Assembled(call))

\* Headers that have a value.
Present(headers) == [n \in { m \in DOMAIN headers : headers[m] # <<>> } |-> headers[n]]

\* The headers that leave.
Wire(call) == Present(Pinned(call))
=============================================================================
