----------------------------- MODULE HeaderBags ------------------------------
(***************************************************************************)
(* The readers of a bag of headers in sdks/js/src: headerValue of chat.ts, *)
(* headerValue of stream.ts, readHeader of multimodal.ts, contentTypeOf of *)
(* client.ts; and the headers that are handed on: extractNRouterHeaders of *)
(* chat.ts, extractTraceHeaders and withTraceContext of client.ts.         *)
(*                                                                         *)
(* A bag is the Headers of fetch, an object with `get` alone, or a record. *)
(* The first two find a name however it is spelled and hold it once; in a  *)
(* record each spelling is a key, its value a string, a list or undefined. *)
(***************************************************************************)
EXTENDS Sequences, SequencesExt

\* Names with the prefix of the gateway: one the SDK lists, one it does not.
Listed  == "x-nr-request-id"
New     == "x-nr-new"
Ours    == {Listed, New}
Trace   == "x-nr-trace-id"
Session == "x-nr-session-id"

Header(name, lower, list, values) ==
  [name |-> name, lower |-> lower, list |-> list, values |-> values]

First(values) == IF values = <<>> THEN {} ELSE {values[1]}

Keys(bag, name) == SelectSeq(bag.entries, LAMBDA h : h.name = name)

-----------------------------------------------------------------------------
\* headerValue of chat.ts: the first value under the first key of the name.
HeaderValue(bag, name) ==
  LET keys == Keys(bag, name) IN IF keys = <<>> THEN {} ELSE First(keys[1].values)

\* Mutant of StreamHeaderValue: a key that is not in lower case is another name.
StreamHeaderValueExact(bag, name) ==
  UNION { First(h.values) : h \in { x \in Range(bag.entries) : x.name = name /\ x.lower } }

\* headerValue of stream.ts: the keys in turn, the first of the name decides.
StreamHeaderValue(bag, name) ==
  LET at == { i \in DOMAIN bag.entries : bag.entries[i].name = name }
  IN  UNION { First(bag.entries[i].values) : i \in { j \in at : \A k \in at : j <= k } }

\* readHeader of multimodal.ts: the first key of the name too, and what is no string is
\* no value.
ReadHeader(bag, name) ==
  LET keys == Keys(bag, name)
  IN  UNION { First(keys[i].values) : i \in DOMAIN keys \cap {1} }

\* contentTypeOf: in a record only the name in lower case.
ContentTypeOf(bag) ==
  LET found(h) == h.name = "content-type" /\ (bag.form = "record" => h.lower)
      keys == SelectSeq(bag.entries, found)
  IN  IF keys = <<>> THEN {} ELSE First(keys[1].values)

-----------------------------------------------------------------------------
\* Mutant of ExtractNRouterHeaders: every name that the SDK lists, and no other.
ExtractListedHeaders(bag) ==
  LET taken(h) == h.name = Listed /\ ~h.list /\ h.values # <<>>
      kept == SelectSeq(bag.entries, taken)
  IN  [n \in { kept[i].name : i \in DOMAIN kept } |->
         Last(SelectSeq(kept, LAMBDA h : h.name = n)).values[1]]

\* extractNRouterHeaders: those with the prefix, of a bag that cannot be walked those
\* that are listed, of a record those that are strings, the last of a name.
ExtractNRouterHeaders(bag) ==
  LET taken(h) == /\ h.name \in IF bag.form = "get" THEN {Listed} ELSE Ours
                  /\ ~h.list /\ h.values # <<>>
      kept == SelectSeq(bag.entries, taken)
  IN  [n \in { kept[i].name : i \in DOMAIN kept } |->
         Last(SelectSeq(kept, LAMBDA h : h.name = n)).values[1]]

\* extractTraceHeaders: an id that says something, under the name of its header.
ExtractTraceHeaders(requestId) ==
  LET says == requestId \ {""}
  IN  [form |-> "record",
       entries |-> IF says = {} THEN <<>>
                   ELSE <<Header(Listed, TRUE, FALSE, <<CHOOSE id \in says : TRUE>>)>>]

-----------------------------------------------------------------------------
\* A record with a header set under its name in lower case.
With(record, name, value) ==
  LET header == Header(name, TRUE, FALSE, <<value>>)
      same(h) == h.name = name /\ h.lower
  IN  IF \E h \in Range(record) : same(h)
      THEN [i \in DOMAIN record |-> IF same(record[i]) THEN header ELSE record[i]]
      ELSE Append(record, header)

\* withTraceContext refuses a trace that cannot be sent.
RefusesContext(context) == "breaks" \in context.traceId \cup context.sessionId

\* Mutant of WithTraceContext: the context first, the headers over it.
WithTraceContextUnder(headers, context) ==
  LET kept == SelectSeq(headers, LAMBDA h : h.values # <<>> /\ h.values[1] # "breaks")
      put(record, name, value) ==
        IF value \ {""} = {} \/ \E h \in Range(record) : h.name = name /\ h.lower THEN record
        ELSE With(record, name, CHOOSE v \in value : TRUE)
  IN  put(put(kept, Trace, context.traceId), Session, context.sessionId)

\* withTraceContext: headers that can be sent, and the context over them.
WithTraceContext(headers, context) ==
  LET kept == SelectSeq(headers, LAMBDA h : h.values # <<>> /\ h.values[1] # "breaks")
      put(record, name, value) ==
        IF value \ {""} = {} THEN record ELSE With(record, name, CHOOSE v \in value : TRUE)
  IN  put(put(kept, Trace, context.traceId), Session, context.sessionId)
=============================================================================
