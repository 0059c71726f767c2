---------------------------- MODULE MCClientCases ----------------------------
(***************************************************************************)
(* The bounded inputs of what a client of the SDK sends with a request and *)
(* reads beside the answer of a call (keys, headers, prompts, causes and   *)
(* numbers; what a key can reach, the text of an answer as JSON, refusals  *)
(* on their way through the vendor client; and the page that the support   *)
(* agent reads), and what the answers are held to.                         *)
(***************************************************************************)
EXTENDS Integers, Sequences, SequencesExt

Option(values) == {{}} \cup { {v} : v \in values }

H == INSTANCE ClientHeaders WITH Keys <- {"k1", "k2", "k3", "odd", ""}, ValidKeys <- {"k1", "k2", "k3"}
P == INSTANCE Prompts
E == INSTANCE ErrorCauses WITH MaxDepth <- 2
N == INSTANCE ResponseMeta WITH MaxSafe <- 9, MinPower <- -3, MaxPower <- 3
T == INSTANCE ChatAnswer

-----------------------------------------------------------------------------
\* The life of a key: given or found when the client is made, then assigned.
KeyCases ==
  { [given |-> given, env |-> env, next |-> next] :
      given \in Option({"", "function", "k1", "odd"}), env \in Option({"k2", "odd"}),
      next \in SeqOf({{}, {""}, {"k3"}, {"odd"}}, 2) }

UrlCases ==
  { [control |-> c, parses |-> p, scheme |-> s, credentials |-> w, host |-> h] :
      c \in BOOLEAN, p \in BOOLEAN, s \in {"http", "https", "ftp"}, w \in BOOLEAN,
      h \in {"none", "loopback", "remote"} }

Tag(spelling, values)  == H!Entry("x-tag", spelling, values)
Token(values)          == H!Entry(H!Auth, "Title", values)
Given == { <<"a">>, <<"b">>, <<H!Null>>, <<H!Undefined>>, <<>>, <<"a", H!Null>>, <<H!Null, "b">> }

HeaderCall(defaults, env, headers, fetchHeaders) ==
  [defaults |-> defaults, env |-> env, headers |-> headers,
   fetchHeaders |-> fetchHeaders, built |-> "k1", live |-> "k2", traceId |-> <<"t">>, sessionId |-> <<>>]

Defaults ==
  { [source |-> source, entries |-> entries] :
      source \in {"record", "pairs"},
      entries \in { es \in SeqOf({ Tag(s, v) : s \in {"lower", "Title"}, v \in Given } \cup
                                 { Token(v) : v \in Given }, 2) :
                      Len(es) = 2 => es[1].name # es[2].name \/ es[1].values # <<>> } }

\* A record has each spelling once.
IsRecord(entries) == \A i, j \in DOMAIN entries : entries[i].name = entries[j].name => i = j
Records(entries)  == { es \in SeqOf(entries, 2) : IsRecord(es) }

Possible(defaults) == defaults.source = "record" => IsRecord(defaults.entries)

Single == { <<"c">>, <<H!Null>>, <<H!Undefined>> }
OfRequest == { Tag("lower", v) : v \in Single } \cup { Token(<<"d">>) } \cup
             { H!Entry(H!Trace, "lower", <<"own">>), H!Entry("openai-project", "lower", <<"p">>) }

\* One header in either of its spellings, or in both.
OfTwoSpellings == { Tag(s, v) : s \in {"lower", "Title"}, v \in Single }

\* What the fetch options say of the same names.
Later(e) == [e EXCEPT !.values = IF @ = <<"c">> THEN <<"e">> ELSE @]

HeaderCases ==
  { HeaderCall(d, env, h, <<>>) :
      d \in { x \in Defaults : Possible(x) },
      env \in {{}, {"x-tag"}, {H!Auth, "x-other"}, {"openai-project", "x-tag"}},
      h \in {<<>>, <<Tag("Title", <<"c">>)>>, <<Tag("lower", <<H!Null>>)>>} } \cup
  { HeaderCall([source |-> "record", entries |-> es], env, h, f) :
      es \in {<<>>, <<Tag("lower", <<"a">>)>>, <<Tag("Title", <<H!Null>>)>>},
      env \in {{}, {"x-tag", H!Trace}}, h \in Records(OfRequest),
      f \in Records({ Later(e) : e \in OfRequest }) } \cup
  { HeaderCall([source |-> "record", entries |-> <<Tag("lower", <<"a">>)>>], {}, h, f) :
      h \in Records(OfTwoSpellings), f \in Records({ Later(e) : e \in OfTwoSpellings }) }

-----------------------------------------------------------------------------
Id(says, spaced) == [says |-> says, spaced |-> spaced]
Maps == { [n \in names |-> <<P!Plain(v)>>] : names \in SUBSET {"city", "model"}, v \in {"x", "y"} }

\* A selection made for one request, from one that may be shared, over some options.
PromptCases ==
  { [id |-> id, given |-> given, more |-> more, options |-> options] :
      id \in {{}} \cup { {Id(says, spaced)} : says \in {"t1", ""}, spaced \in BOOLEAN },
      given \in Option(Maps), more \in Option(Maps),
      options \in [templateId : Option({Id("t0", FALSE), Id("", FALSE)}), variables : Option(Maps),
                   cache : Option(BOOLEAN), guardrails : {{}, {"g"}}] }

Values == { <<P!Plain("x")>>, <<P!Place("city")>>, <<P!Place("model")>>, <<>> }

RenderCases ==
  { [template |-> template, variables |-> variables, system |-> system,
     strict |-> strict] :
      template \in SeqOf({P!Plain("x"), P!Place("city"), P!Place("model")}, 3),
      variables \in UNION { [names -> Values] : names \in SUBSET {"city", "model"} },
      system \in UNION { [names -> Values] : names \in SUBSET {"model"} }, strict \in BOOLEAN }

-----------------------------------------------------------------------------
Objects ==
  { E!Bare, [E!Bare EXCEPT !.says = TRUE], [E!Bare EXCEPT !.error = TRUE],
    [E!Bare EXCEPT !.string = TRUE, !.says = TRUE], [E!Bare EXCEPT !.name = "abort", !.error = TRUE],
    [E!Bare EXCEPT !.name = "Error", !.class = "abort", !.error = TRUE],
    [E!Bare EXCEPT !.name = "Error", !.code = "abort", !.error = TRUE] }

CauseCases ==
  { [aborted |-> aborted, kind |-> kind,
     causes |-> [i \in 1..3 |-> [objects[i] EXCEPT !.next = next[i]]]] :
      aborted \in BOOLEAN, kind \in {"transport", "request"}, objects \in [1..3 -> Objects],
      next \in { n \in [1..3 -> 0..3] : n[2] # 2 /\ n[3] \in {0, 1} } }

-----------------------------------------------------------------------------
Raw == { r \in [form : N!Forms, digits : {0, 1, 9, 10}, power : {-4, -3, 0, 3, 4}, noughts : BOOLEAN] :
           /\ r.form \in {"digits", "signed", "hex", "trailing", "words", "blank"} => r.power = 0
           /\ r.form = "decimal" => r.power < 0
           /\ r.form # "exponent" => r.noughts
           /\ r.power # 0 /\ r.form = "exponent" => ~r.noughts }

Few == { r \in Raw : r.digits \in {0, 10} /\ r.power \in {0, -4} }

NumberCases ==
  { [status |-> status, headers |-> headers] :
      status \in Option({"exact", "unpriced"}),
      headers \in { <<[name |-> "cost", values |-> <<r>>]>> : r \in Raw } \cup
                  SeqOf({ [name |-> n, values |-> v] : n \in {"cost", "tokens"},
                            v \in {<<>>} \cup { <<r>> : r \in Few } \cup
                                  { <<r, [r EXCEPT !.digits = 1]>> : r \in Few } }, 2) }

-----------------------------------------------------------------------------
\* The key of a client is the last one it was given that is a key; the environment
\* stands in when the client is made, and never later.
KeyIsTheLastGiven(input) ==
  LET made == H!ResolveKey(input.given, input.env)
      key  == FoldLeft(LAMBDA k, v : H!Rotate(k, v), made, input.next)
      said == SelectSeq(<<input.given>> \o input.next, LAMBDA v : H!AssertKey(v) # {})
  IN  made # {} =>
        key = IF said = <<>> THEN input.env ELSE Last(said)

\* What the last of some entries of a name says of it: nothing, a removal or a value.
SaysOf(entries, name) ==
  LET of == SelectSeq(entries, LAMBDA e : e.name[1] = name /\ H!Items(e.values) # <<>>)
  IN  IF of = <<>> THEN {} ELSE {H!Applied(<<>>, Last(of).values)}

\* The values a list of pairs has for a name: those behind its last removal.
Listed(entries, name) ==
  LET of  == SelectSeq(entries, LAMBDA e : e.name[1] = name)
      all == H!Items(FlattenSeq([i \in 1..Len(of) |-> of[i].values]))
  IN  IF all = <<>> THEN {} ELSE {H!Applied(<<>>, all)}

\* What a request says of a name in its headers and those of its fetch options: of two
\* spellings the one that was named later counts, with what was said last of that one.
SaysOfRequest(call, name) ==
  LET of == SelectSeq(call.headers \o call.fetchHeaders,
                      LAMBDA e : e.name[1] = name /\ H!Items(e.values) # <<>>)
      new == { i \in DOMAIN of : \A j \in 1..(i - 1) : of[j].name # of[i].name }
  IN  IF of = <<>> THEN {} ELSE SaysOf(SelectSeq(of, LAMBDA e : e.name = of[Max(new)].name), name)

Wanted(call, name) ==
  LET defaults == IF call.defaults.source = "record" THEN SaysOf(call.defaults.entries, name)
                  ELSE Listed(call.defaults.entries, name)
      ofCall == SelectSeq(<<SaysOfRequest(call, name), defaults>>, LAMBDA s : s # {})
  IN  IF ofCall = <<>> THEN {<<>>} ELSE ofCall[1]

\* A request leaves with the live key of its client, and of every other header with
\* what its caller said last, of the spelling that counts, in the request before the
\* defaults: nothing of the environment, nothing the caller removed, and the trace of the
\* client where the request has none.
HeadersAreTheCallers(call) ==
  \A wire \in {H!Wire(call)} :
     LET held(n) == IF n \in DOMAIN wire THEN wire[n] ELSE <<>>
     IN  /\ held(H!Auth) = <<call.live>>
         /\ \A n \in H!Tenancy : held(n) = <<>>
         /\ \A n \in {"x-tag", "x-other"} : {held(n)} = Wanted(call, n)
         /\ \A w \in Wanted(call, H!Trace) :
               held(H!Trace) = IF w = <<>> THEN call.traceId ELSE w

\* A request runs the template that was chosen for it, or is refused, and its variables
\* are the latest of each name, from the selection before the options; a shared
\* selection is left as it was.
PromptIsTheOneChosen(input) ==
  LET chosen == IF input.id = {} THEN P!PromptVariables(P!OrEmpty(input.given))
                ELSE P!PromptTemplate(CHOOSE id \in input.id : TRUE, input.given)
      selection == IF input.more = {} THEN chosen
                   ELSE P!WithVariables(chosen, P!OrEmpty(input.more))
      body == P!ExtraBody(P!ApplyPrompt(input.options, selection))
      latest == <<P!OrEmpty(input.options.variables), P!OrEmpty(input.given), P!OrEmpty(input.more)>>
      names  == UNION { DOMAIN latest[i] : i \in 1..3 }
      value(n) == latest[CHOOSE i \in 1..3 : /\ n \in DOMAIN latest[i]
                                             /\ \A j \in (i + 1)..3 : n \notin DOMAIN latest[j]][n]
  IN  \/ P!RefusesExtra(input.options)
      \/ \E id \in input.id : P!RefusesTemplate(id)
      \/ /\ \A id \in input.id : \E sent \in body.templateId : sent.says = id.says /\ ~sent.spaced
         /\ input.id = {} => body.templateId = { id \in input.options.templateId : id.says # "" }
         /\ body.variables = IF names = {} THEN {} ELSE {[n \in names |-> value(n)]}
         /\ TRUE \notin body.cache
         /\ P!PromptExtraBody(selection).templateId = selection.templateId

\* What stands in a place of a rendered template is the value as it was given, the
\* system's before the caller's, never read as a template again; and a strict template
\* that is not refused has no place left that no value brought.  A variable the system
\* overrides is one that is reported as a conflict, and it changes nothing.
RenderedOnce(input) ==
  LET render(template) == P!Render(template, input.variables, input.system)
      all   == input.template
      given == P!Spread(input.variables, input.system)
      lost  == Range(P!Conflicts({input.variables})) \cap DOMAIN input.system
      heard == [n \in DOMAIN input.variables \ lost |-> input.variables[n]]
  IN  /\ \A n \in DOMAIN heard : given[n] = heard[n]
      /\ render(all) = P!Render(all, heard, input.system)
      /\ \A i \in DOMAIN all :
           all[i].place /\ all[i].name \in DOMAIN given =>
             render(all) = render(SubSeq(all, 1, i - 1)) \o given[all[i].name]
                             \o render(SubSeq(all, i + 1, Len(all)))
      /\ ~P!RefusesRender(all, input.variables, input.system, input.strict) /\ input.strict =>
           \A t \in Range(render(all)) : t.place => \E n \in DOMAIN given : t \in Range(given[n])

\* An abort is never taken for a failure worth another try: not one of the caller, nor
\* one that is named anywhere in the causes that are kept, nor when the error is the
\* cause of another; and what is no abort stays a failed transport.
AbortStaysAnAbort(input) ==
  LET causes == input.causes
      path   == E!Path(causes, 1)
      strings == { i \in DOMAIN path : causes[path[i]].string }
      named  == { i \in DOMAIN path : ~causes[path[i]].string /\ causes[path[i]].name = "abort" }
      top    == E!IsAbortLike(causes[1])
      like   == { i \in DOMAIN path : E!IsAbortLike(causes[path[i]]) }
      request == E!RequestFailure(causes)
      stream  == E!StreamFailure([sdk |-> FALSE, causes |-> causes], input.aborted)
      again   == E!StreamFailure(E!Raised(input.kind, causes, 1), input.aborted)
      over    == E!RaisedOver("transport", request)
  IN  /\ input.aborted => ~E!Retryable(stream) /\ ~E!Retryable(again)
      /\ named # {} \/ top => ~E!Retryable(request) /\ ~E!Retryable(stream)
      /\ 1 \in named \/ top => ~E!Retryable(over)
      /\ like = {} => E!Retryable(request) /\ (E!Retryable(stream) <=> ~input.aborted)
      /\ Len(request.cause) <= 3 /\ IsInjective(path)

\* No number is invented: a price is the one that was written, zero only where zero was
\* written, and a count too; of a header that is there more than once the last name and
\* the first value count.
NumbersAreTheGateways(input) ==
  LET of(name) == SelectSeq(input.headers, LAMBDA h : h.name = name /\ h.values # <<>>)
      raw(name) == Last(of(name)).values[1]
      cost   == N!Money(N!Lookup(input.headers, "cost"))
      tokens == N!Count(N!Lookup(input.headers, "tokens"))
  IN  /\ \A c \in cost :
           /\ of("cost") # <<>> /\ raw("cost").form \in {"digits", "decimal", "exponent"}
           /\ c = IF raw("cost").digits = 0 THEN N!Zero ELSE <<raw("cost").digits, raw("cost").power>>
      /\ of("tokens") # <<>> /\ raw("tokens").form = "digits" /\ raw("tokens").digits <= 9 =>
           tokens = {raw("tokens").digits}
      /\ \A t \in tokens : of("tokens") # <<>> /\ t = raw("tokens").digits /\ t <= 9
      /\ N!IsPriced(cost, input.status) => cost # {}

\* The two readers of a cut answer with nothing in it agree that tokens were spent.
ReadersAgree(answer) ==
  LET condition == T!Condition(answer, {})
      spent == \E f \in answer.finish : N!Exhausted(f, T!OrZero(answer.output),
                                                  T!OrZero(answer.reasoning), ~answer.text)
  IN  ~answer.calls =>
        /\ spent => condition \in {"reasoning_budget_exhausted_possible", "output_budget_exhausted"}
        /\ answer.finish = {"length"} /\ T!Reasoned(answer) /\ ~answer.text => spent

-----------------------------------------------------------------------------
V == INSTANCE VendorErrors
Y == INSTANCE Discovery
B == INSTANCE HeaderBags
X == INSTANCE PageText

-----------------------------------------------------------------------------
Ids == { <<c>> : c \in Y!Components } \cup { <<c, d>> : c \in {"a", "?"}, d \in {"A", "?"} }

\* Ids that lead elsewhere as a path.
Leading == { <<"a", d>> : d \in Y!Dots } \cup { <<d, "a">> : d \in Y!Dots }

Entries == { Y!Entry("string", id) : id \in Ids } \cup
           { Y!Entry(is, <<>>) : is \in {"number", "missing", "null"} }

ModelCases ==
  { [body |-> Y!Body(record, list, entries), id |-> id] :
      record \in BOOLEAN, list \in BOOLEAN, entries \in SeqOf(Entries, 2), id \in Ids \cup Leading }

CapabilityCases ==
  { [works |-> works, record |-> record, field |-> field, server |-> server] :
      works \in SUBSET {"root", "versioned"}, record \in BOOLEAN,
      field \in {"list", "string", "null", "missing"}, server \in Option({"", "a", "?"} \cup Y!Dots) }

-----------------------------------------------------------------------------
Headers ==
  { B!Header(n, lower, list, vs) :
      n \in B!Ours \cup {"retry-after", "content-type"}, lower \in BOOLEAN, list \in BOOLEAN,
      vs \in {<<>>, <<"v">>, <<"w", "v">>} }

\* A record has each spelling once, and a list only where it says so; the other forms
\* have each name once, with one value.
Holds(form, entries) ==
  /\ \A i \in DOMAIN entries :
       /\ Len(entries[i].values) = 2 => entries[i].list
       /\ form # "record" => Len(entries[i].values) = 1 /\ ~entries[i].list /\ entries[i].lower
  /\ \A i, j \in DOMAIN entries :
       /\ entries[i].name = entries[j].name
       /\ form = "record" => entries[i].lower = entries[j].lower
       => i = j

BagCases ==
  { b \in [form : {"fetch", "get", "record"}, entries : SeqOf(Headers, 2)] :
      Holds(b.form, b.entries) }

TraceCases ==
  { [headers |-> headers, traceId |-> t, sessionId |-> s, requestId |-> r] :
      headers \in { hs \in SeqOf({ B!Header(n, lower, FALSE, v) :
                                     n \in {B!Trace, "x-tag"}, lower \in BOOLEAN,
                                     v \in {<<>>, <<"own">>, <<"breaks">>} }, 2) :
                      Holds("record", hs) },
      t \in Option({"", "t", "breaks"}), s \in Option({"s", "breaks"}), r \in Option({"", "r"}) }

-----------------------------------------------------------------------------
Pieces == {"fence", "json", "prose", "value", "space"}

ReplyCases ==
  { [choices |-> <<[shape |-> shape, parts |-> [i \in DOMAIN text |-> <<text[i]>>]]>>] :
      shape \in {"string", "parts", "none"}, text \in SeqOf(Pieces, 4) } \cup
  {[choices |-> <<>>]}

\* A page: its words are numbered, so that each is known again.
Numbered == <<"first", "second", "third", "fourth", "fifth">>
Page(kinds) ==
  [i \in DOMAIN kinds |-> IF kinds[i].is = "word" THEN X!Word(Numbered[i]) ELSE kinds[i]]

PageCases ==
  { [page |-> Page(kinds)] :
      kinds \in SeqOf({X!Word("word"), X!Stray, X!Tag("open", "nav"), X!Tag("close", "nav"),
                       X!Tag("close", "navbar"), X!Tag("open", "script"), X!Tag("close", "script"),
                       X!Tag("open", "p"), X!Tag("self", "nav"), X!Tag("open", "b")}, 5) }

-----------------------------------------------------------------------------
\* An id that is asked for and has no component of dots is the one that is reached, so that
\* only such an id reaches the list of all models, or leaves it; of the ids that are listed
\* only a blank one is refused; and an id is found in any list that has it as it is
\* written and in no other.
ModelsAreThoseListed(input) ==
  LET body == input.body
      id   == input.id
  IN  /\ ~Y!RefusesId(id) /\ Range(id) \cap Y!Dots = {} => Y!Reaches(Y!Path(id)) = {id}
      /\ Y!RefusesIds(body) \/
           /\ Y!Has(body, id) <=>
                /\ id # <<"">> /\ body.record /\ body.list
                /\ \E i \in DOMAIN body.entries : body.entries[i] = Y!Entry("string", id)
           /\ \A listed \in Range(Y!Ids(body)) : Y!RefusesId(listed) => listed = <<" ">>
           /\ IsInjective(Y!Ids(body)) \/ ~IsInjective(body.entries)

\* The capabilities come from whichever path has them, the server that is named is the one
\* that is asked unless its name is dots, and a list of providers is the one that was sent,
\* never null.
CapabilitiesAreFound(input) ==
  LET providers == Y!Providers(input.record, input.field)
      asked == Y!ServerPath(input.server)
  IN  /\ Y!CapabilitiesFrom(input.works) = {} <=> input.works = {}
      /\ input.record /\ input.field = "list" => providers = "list"
      /\ providers # "null"
      /\ \A segment \in asked :
           Range(segment.holds) \cap Y!Dots = {} => Y!Reaches(<<segment>>) = { <<s>> : s \in input.server }

\* The readers of headers agree on each name, whatever the bag and however its keys are
\* spelled; what is handed on has the prefix of the gateway, and what the SDK read of a
\* name it lists it hands on too, unless a record has the name twice or as a list.
ReadersOfHeadersAgree(bag) ==
  LET forwarded == B!ExtractNRouterHeaders(bag)
      plain(n) == Len(B!Keys(bag, n)) = 1 /\ ~B!Keys(bag, n)[1].list
  IN  /\ \A n \in B!Ours \cup {"retry-after", "content-type"} :
           /\ B!StreamHeaderValue(bag, n) = B!HeaderValue(bag, n)
           /\ B!ReadHeader(bag, n) = B!HeaderValue(bag, n)
      /\ bag.form # "record" => B!ContentTypeOf(bag) = B!HeaderValue(bag, "content-type")
      /\ DOMAIN forwarded \subseteq B!Ours
      /\ \A n \in B!Ours : plain(n) /\ (n = B!Listed \/ bag.form # "get") =>
           /\ B!HeaderValue(bag, n) = { forwarded[m] : m \in DOMAIN forwarded \cap {n} }
           /\ B!HeaderValue(bag, n) = N!Lookup(bag.entries, n)

\* A context that can be sent is, over what the headers had under its name, the other
\* headers are kept, and none that cannot be sent; the id of a request is read back as
\* it was handed on.
TraceIsHandedOn(input) ==
  LET sent == B!WithTraceContext(input.headers, input)
      under(name) == { h.values[1] : h \in { x \in Range(sent) : x.name = name /\ x.lower } }
      onwards == B!ExtractTraceHeaders(input.requestId)
  IN  B!RefusesContext(input) \/
      /\ input.traceId \ {""} # {} => under(B!Trace) = input.traceId
      /\ under(B!Session) = input.sessionId
      /\ \A h \in Range(sent) : h.values \notin {<<>>, <<"breaks">>}
      /\ \A h \in Range(input.headers) : h.name = "x-tag" /\ h.values = <<"own">> => h \in Range(sent)
      /\ B!HeaderValue(onwards, B!Listed) = input.requestId \ {""}
      /\ N!Lookup(onwards.entries, B!Listed) = input.requestId \ {""}

\* An answer is a value when its text is that value alone, in a fence or not, and whatever
\* form its content had; any other is refused, for good and with its metadata, and so
\* is one that chatTextDiagnostic calls empty.
ReplyIsItsValue(input) ==
  LET text  == T!ChatText(input.choices)
      made  == T!Parsed(input.choices)
      said  == SelectSeq(text, LAMBDA p : p # T!Space)
      empty == [text |-> text # <<>>, calls |-> FALSE, finish |-> {}, output |-> {}, reasoning |-> {}]
  IN  /\ made.kind = "value" <=>
           said \in {<<"value">>, <<"fence", "value", "fence">>} \/
           (/\ said = <<"fence", "json", "value", "fence">>
            /\ \E i \in 2..Len(text) : text[i - 1] = "fence" /\ text[i] = "json")
      /\ made.kind # "value" => made.kind = "configuration" /\ made.meta
      /\ T!Condition(empty, {}) # "ok" => made.kind # "value"
      /\ \A c \in Range(input.choices) :
           c.shape # "none" => T!ChatText(<<[c EXCEPT !.shape = "string"]>>) = text

\* A refusal is the same failure through the vendor client as it is read from the wire:
\* of a JSON body always, of a text by every reader, and one for good whatever its
\* status when it says the answer was too large.  What cannot be sent is never worth
\* another try, and what was lost on the way back keeps its status.
RefusalSurvivesTheVendor(answer) ==
  LET through == [r \in V!Readers |-> V!Request(r, answer, TRUE, FALSE)]
      untold  == V!Request("json", answer, FALSE, FALSE)
      lost    == V!Request("json", answer, TRUE, TRUE)
  IN  /\ V!IsSuccess(answer) \/ V!Parses(answer.body) =>
           \A r \in V!Readers : through[r] = V!Read(r, answer)
      /\ ~V!IsSuccess(answer) /\ ~V!Parses(answer.body) =>
           /\ \A r1, r2 \in V!Readers : through[r1].kind = through[r2].kind
           /\ answer.body.text = {"too large"} /\ answer.body.shape = "bytes" /\ answer.status = 502 =>
                ~V!Retryable(through["chat"])
      /\ ~V!Retryable(untold)
      /\ V!IsSuccess(answer) => lost.status = answer.status /\ V!Retryable(lost)

\* The first tag that closes an element of a page.
Closer(page, o) ==
  { c \in X!Closers(page, o, page[o].name) : \A d \in X!Closers(page, o, page[o].name) : c <= d }

Opens(page, o) == page[o].is = "open" /\ page[o].name \in X!Chrome

\* The words of a page that are left are in its order; none inside an element that is no
\* content, unless one that ended before had opened it, and all outside of those.
TextIsThePages(input) ==
  LET page == input.page
      text == X!HtmlToText(page)
      at(k) == { i \in DOMAIN text : text[i] = page[k].name }
      inside(o, k) == /\ o < k /\ Opens(page, o)
                      /\ \E c \in Closer(page, o) : k < c
      words == { k \in DOMAIN page : page[k].is = "word" }
  IN  /\ \A j, k \in words : j < k => \A a \in at(j), b \in at(k) : a < b
      /\ \/ \E i \in DOMAIN page : page[i].is = "stray"
         \/ /\ \A k \in words : at(k) = {} => \E o \in DOMAIN page : inside(o, k)
            /\ \A k \in words, o \in DOMAIN page :
                 at(k) # {} /\ inside(o, k) =>
                   \E p \in 1..(o - 1) : inside(p, o) /\ \A c \in Closer(page, p) : c < k
=============================================================================
