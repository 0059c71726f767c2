--------------------------- MODULE MCSupportCases ---------------------------
(***************************************************************************)
(* The bounded inputs of the pure functions of the support agent, of what  *)
(* it is set up with, sends and reports, and of the command that builds    *)
(* its index; and what their answers are held to.                          *)
(***************************************************************************)
EXTENDS Integers, Sequences, SequencesExt, FiniteSets

S == INSTANCE SupportSources

Option(values) == {{}} \cup { {v} : v \in values }

-----------------------------------------------------------------------------
Limits == [maxMessages |-> 2, maxMessageChars |-> 5, maxPageContextChars |-> 3]

RequestCases ==
  { [messages |-> turns, pageContext |-> page] :
      turns \in SeqOf([role : {"user", "assistant", "system"}, blank : BOOLEAN, length : {5, 6}], 3),
      page \in Option({0, 3, 4, 30, 31}) }

\* The chunks of an index, whose ids are not in their order.
SearchCases ==
  { [topK |-> topK, asks |-> asks,
     chunks |-> [i \in 1..3 |-> [id |-> <<2, 1, 3>>[i], near |-> near[i], audiences |-> for[i]]]] :
      near \in [1..3 -> {-100, 399, 400}],
      for \in [1..3 -> {{}, {"staff"}, {"staff", "guest"}}],
      asks \in Option({{}, {"guest"}}), topK \in {0, 2, 3, 51} }

Source(leads, http) == [leads |-> leads, http |-> http]

\* Chunks of pages, one of which may be cited twice and one not be http.
CitationCases ==
  { [chunks |-> [i \in 1..n |-> IF i = file THEN Source(20, FALSE)
                               ELSE Source(IF i = again THEN 1 ELSE i, TRUE)], web |-> web] :
      n \in 0..9, again \in {0, 2, 5}, file \in {0, 1, 3},
      web \in SeqOf({Source(1, TRUE), Source(10, TRUE), Source(11, TRUE), Source(12, FALSE)}, 2) }

WebCases ==
  { [aborted |-> aborted, ends |-> ends,
     results |-> [i \in 1..n |-> Source(i, i # file)]] :
      aborted \in BOOLEAN, ends \in {"results", "rejects", "late"}, n \in 0..7, file \in {0, 1, 6} }

-----------------------------------------------------------------------------
Places  == {"p1", "p2", "p3", "p4", "p5", "inside"}
P == INSTANCE SeedPages WITH Urls <- Places, SafeUrls <- Places \ {"inside"}

MaxBytes == 3

Read == P!Page(<<2>>, FALSE)

\* A way of redirects from one place to the next, that ends in a page, in nothing, in
\* a place that is not safe, or where it began; and two seeds over pages of all sizes.
Way == <<"p1", "p2", "p3", "p4", "p5">>

SeedCases ==
  { [seeds |-> <<"p1">>,
     web |-> [u \in Places |->
                IF \E k \in 1..(n - 1) : Way[k] = u
                THEN P!Redirect(Way[1 + CHOOSE k \in 1..(n - 1) : Way[k] = u])
                ELSE IF u = Way[n] THEN end ELSE Read]] :
      n \in 1..5, end \in {Read, P!Useless, P!Redirect("inside"), P!Redirect("p1")} } \cup
  { [seeds |-> seeds,
     web |-> [u \in Places |-> IF u \in {"p1", "p2"} THEN web[u] ELSE Read]] :
      seeds \in { <<s, t>> : s \in {"p1", "inside"}, t \in {"p1", "p2"} },
      web \in [{"p1", "p2"} ->
                 {P!Useless, P!Redirect("p2"), P!Redirect("inside")} \cup
                 { P!Page(chunks, broken) : chunks \in SeqOf({1, 3, 4}, 2), broken \in BOOLEAN }] }

-----------------------------------------------------------------------------
K == INSTANCE KnowledgePieces

\* Clean texts: no blank at an end, no three in a row.
CleanTexts ==
  { t \in UNION { [1..n -> {"word", "blank"}] : n \in 1..9 } :
      /\ t[1] = "word" /\ Last(t) = "word"
      /\ \A k \in 1..(Len(t) - 2) : {t[k], t[k + 1], t[k + 2]} # {"blank"} }

TextCases ==
  { [text |-> t, maxChars |-> m, overlap |-> o] :
      t \in CleanTexts, m \in 1..5, o \in 0..5 }

File(stem, ext, opens, closes, audiences, pieces) ==
  [stem |-> stem, ext |-> ext, opens |-> opens, closes |-> closes, title |-> {},
   audiences |-> audiences, pieces |-> pieces]

Files ==
  { File(stem, ext, opens, closes, audiences, pieces) :
      stem \in 1..2, ext \in {"md", "txt", "png"}, opens \in {TRUE}, closes \in BOOLEAN,
      audiences \in {{}, {"staff"}}, pieces \in {0, 2} }

\* The files of a directory, no two of one name, and the dimensions that are asked for.
DirectoryCases ==
  { c \in [files : SeqOf(Files, 2), dimensions : Option({-1, 0, 1, 8192, 8193})] :
      Len(c.files) = 2 =>
        <<c.files[1].stem, c.files[1].ext>> # <<c.files[2].stem, c.files[2].ext>> }

-----------------------------------------------------------------------------
Z == INSTANCE Similarity

Vectors == [1..2 -> {-1, 0, 2}]

Embedded(id, blank, audiences, vector) ==
  [id |-> id, blank |-> blank, audiences |-> audiences, vector |-> vector]

\* Chunks of every direction, and some that no index may hold.
EmbeddedChunks ==
  { Embedded(id, FALSE, "none", v) : id \in 1..2, v \in Vectors } \cup
  { Embedded(1, b, a, v) : b \in BOOLEAN, a \in {"strings", "mixed"},
                           v \in {<<2, 0>>, <<2>>, <<2, Z!Infinite>>} }

NearCases ==
  { [chunks |-> chunks, query |-> query] :
      chunks \in SeqOf(EmbeddedChunks, 2), query \in Vectors \cup {<<1>>} }

-----------------------------------------------------------------------------
\* A request that is accepted asks something, and what is looked up for it is the
\* turn that the session remembers: its last.
QuestionIsTheLastTurn(input) ==
  ~S!Refused(input, Limits) =>
    /\ S!LatestQuestion(input.messages) = Len(input.messages)
    /\ ~Last(input.messages).blank
    /\ \A length \in S!PageContext(input, Limits) : length <= Limits.maxPageContextChars

\* Search gives what the caller may see and no more: no chunk for others, none left
\* out that is closer than one given, and the answer counts as unsure just when
\* nothing given is near.
SearchIsTheClosestAllowed(input) ==
  LET given == S!Retrieve(input.chunks, input.topK, input.asks, [blank |-> FALSE, embedded |-> TRUE])
      all   == ToSet(input.chunks)
      may   == { c \in all : c.audiences = {} \/ \E names \in input.asks : c.audiences \cap names # {} }
      low   == S!Level(given, [high |-> 550, medium |-> 400]) = "low"
  IN  S!RefusesSearch(input.topK) \/
      /\ ToSet(given) \subseteq may /\ IsInjective(given)
      /\ Len(given) = input.topK \/ ToSet(given) = may
      /\ \A i, j \in 1..Len(given) : i < j => given[i].near >= given[j].near
      /\ \A c \in may \ ToSet(given) : \A i \in 1..Len(given) : given[i].near >= c.near
      /\ low <=> \A i \in 1..Len(given) : given[i].near < 400

\* A number in the prompt is the place of that source among the citations the user
\* is shown, in the first prompt and in the one of a retry without the web; and
\* nothing on the web is left without one while there is room.
NumbersAreThoseShown(input) ==
  LET shown == S!Citations(input.chunks, input.web)
  IN  /\ Len(shown) <= S!MaxCitations /\ IsInjective(shown)
      /\ \A web \in {input.web, <<>>} :
           LET sources == input.chunks \o web
               numbers == S!Numbers(input.chunks, web)
           IN  \A i \in 1..Len(sources) :
                 /\ numbers[i] # 0 => numbers[i] <= Len(shown) /\ shown[numbers[i]] = sources[i].leads
                 /\ sources[i].http /\ numbers[i] = 0 => Len(shown) = S!MaxCitations

\* A web search that did not end well found nothing, and one that did gives no more
\* than was asked for, all of it http.
SearchedWebIsUsable(input) ==
  LET found == S!WebSources(input)
  IN  /\ input.aborted \/ input.ends # "results" => found = <<>>
      /\ Len(found) <= 5
      /\ \A i \in 1..Len(found) : found[i].http
      /\ ~input.aborted /\ input.ends = "results" =>
           \/ Len(found) = 5
           \/ ToSet(found) = { s \in ToSet(input.results) : s.http }

\* Where the redirects of a seed lead in so many steps, through safe pages.
After(web, steps, seed) ==
  LET at[n \in 0..steps] ==
        IF n = 0 THEN {seed} \cap (Places \ {"inside"})
        ELSE { web[u].to : u \in { v \in at[n - 1] : web[v].is = "redirect" } } \cap (Places \ {"inside"})
  IN  at[steps]

\* The documents are those of the seeds whose page is found within three redirects
\* and whole up to the limit, in the order of the seeds, and nothing that is not safe
\* is ever asked for.
SeedsAreReached(input) ==
  LET docs == P!Documents(input.web, input.seeds, MaxBytes)
      good(u) == LET page == input.web[u]
                     whole == Len(page.chunks) > 0 /\ page.chunks[1] <= MaxBytes
                     cut == \E n \in 1..Len(page.chunks) :
                              FoldLeft(LAMBDA a, b : a + b, 0, SubSeq(page.chunks, 1, n)) > MaxBytes
                 IN  page.is = "page" /\ whole /\ (page.breaks => cut)
      reached == [i \in 1..Len(input.seeds) |->
                    { u \in UNION { After(input.web, n, input.seeds[i]) : n \in 0..3 } : good(u) }]
  IN  /\ [i \in 1..Len(docs) |-> {docs[i].url}] = SelectSeq(reached, LAMBDA us : us # {})
      /\ \A i \in 1..Len(docs) :
           FoldLeft(LAMBDA a, b : a + b, 0, SubSeq(input.web[docs[i].url].chunks, 1, docs[i].chunks))
             <= MaxBytes
      /\ \A i \in 1..Len(input.seeds) : "inside" \notin P!Fetched(input.web, input.seeds[i])

\* The offsets of the word around one of its characters.
WordAt(text, k) ==
  { j \in 0..(Len(text) - 1) : \A b \in (j..k) \cup (k..j) : ~K!Blank(text, b) }

\* The pieces of a text are all of it, in order and none too long, and a word is whole
\* in one of them unless it is longer than half of what a piece may be.
PiecesAreTheText(input) ==
  LET text   == input.text
      pieces == K!ChunkText(text, input.maxChars, input.overlap)
      in(k, n) == pieces[n][1] <= k /\ k < pieces[n][2]
  IN  /\ \A n \in 1..Len(pieces) : pieces[n][2] - pieces[n][1] \in 1..input.maxChars
      /\ \A n \in 2..Len(pieces) : pieces[n - 1][1] <= pieces[n][1] /\ pieces[n - 1][2] <= pieces[n][2]
      /\ \A k \in 0..(Len(text) - 1) :
           \/ K!Blank(text, k)
           \/ \E n \in 1..Len(pieces) :
                /\ in(k, n)
                /\ 2 * Cardinality(WordAt(text, k)) < input.maxChars =>
                     \A j \in WordAt(text, k) : in(j, n)

\* An index that is built from a directory can be loaded, holds all the text of its files
\* whatever order they are read in, and tells none of it to those its front matter
\* leaves out; it has the dimensions that were asked for, or the default where none or 0
\* were, and is not built when two files would share a url, or for others no index
\* may have.
IndexIsOfTheFiles(input) ==
  LET docs   == K!ReadDocsDir(input.files)
      chunks == K!ChunkDocs(docs)
      files  == { f \in ToSet(input.files) : K!IsRead(f) /\ f.pieces > 0 }
      shared == \E f, g \in files : f # g /\ f.stem = g.stem
      built  == K!Dimensions(input.dimensions)
  IN  IF shared \/ ~(input.dimensions \subseteq 0..8192) THEN K!Invalid(chunks, built)
      ELSE /\ ~K!Invalid(chunks, built)
           /\ {built} = IF input.dimensions \subseteq {0} THEN {768} ELSE input.dimensions
           /\ ToSet(chunks) = { [id |-> <<f.stem, k>>, title |-> {f.stem}, url |-> f.stem,
                                 audiences |-> IF f.closes THEN f.audiences ELSE {}] :
                                f \in files, k \in 1..2 }
           /\ chunks = K!ChunkDocs(K!ReadDocsDir(Reverse(input.files)))

Times(n, vector) == [k \in DOMAIN vector |-> n * vector[k]]

\* What an index is let in with, a question of its dimensions can be compared to: nothing
\* is divided by zero, both computations of a similarity agree, and only the direction
\* of a vector counts, not its length, for the question as for a chunk.
RankedByDirection(input) ==
  LET chunks == input.chunks
      query  == input.query
      longer(i) == [chunks EXCEPT ![i].vector = Times(2, @)]
  IN  \/ Z!RefusesIndex(chunks, 2) \/ Z!RefusesQuery(query, 2)
      \/ /\ \A i \in DOMAIN chunks :
              /\ Z!Infinite \notin Range(chunks[i].vector) /\ ~Z!RefusesPair(chunks[i].vector, query)
              /\ Z!Score(chunks[i], query).below > 0
              /\ Z!Score(chunks[i], query) = Z!Cosine(chunks[i].vector, query)
              /\ Z!Ranked(longer(i), query) = Z!Ranked(chunks, query)
         /\ Z!Ranked(chunks, Times(2, query)) = Z!Ranked(chunks, query)
         /\ Z!Ranked(Reverse(chunks), query) = Z!Ranked(chunks, query)

SourcesAreTrue(fn, input) ==
  CASE fn = "request to support" -> QuestionIsTheLastTurn(input)
    [] fn = "search"     -> SearchIsTheClosestAllowed(input)
    [] fn = "citations"  -> NumbersAreThoseShown(input)
    [] fn = "web search" -> SearchedWebIsUsable(input)
    [] fn = "seeds"      -> SeedsAreReached(input)
    [] fn = "text"       -> PiecesAreTheText(input)
    [] fn = "directory"  -> IndexIsOfTheFiles(input)
    [] fn = "near"       -> RankedByDirection(input)
    [] fn \notin {"request to support", "search", "citations", "web search", "seeds",
                     "text", "directory", "near"} -> TRUE

-----------------------------------------------------------------------------
A == INSTANCE SupportCalls
L == INSTANCE CommandLine
G == INSTANCE GatewayAnswers

-----------------------------------------------------------------------------
\* One part of a configuration is varied at a time.
Good == [model |-> TRUE, client |-> "given", knowledge |-> "index", topK |-> {}, maskPii |-> {},
         limits |-> [n \in {} |-> 0], confidence |-> [n \in {} |-> 0]]

Partial(fields, values) == UNION { [fs -> values] : fs \in SUBSET fields }

ConfigCases ==
  { [config |-> c] : c \in
      { [Good EXCEPT !.model = m, !.client = c, !.knowledge = k, !.maskPii = p] :
          m \in BOOLEAN, c \in {"given", "key", "none"}, k \in {"store", "index", "broken", "none"},
          p \in Option(BOOLEAN) } \cup
      { [Good EXCEPT !.topK = k, !.limits = l] :
          k \in Option({0, 1, 50, 51}),
          l \in Partial({"maxMessages", "maxMessageChars", "maxPageContextChars"}, {A!Undefined, 0, 1}) } \cup
      { [Good EXCEPT !.confidence = c] :
          c \in Partial({"high", "medium"}, {A!Undefined, 0, 300, 600, 1000, 1001}) } }

\* A feedback about a turn of a session, at the limits of both.
FeedbackCases ==
  { [session |-> s, question |-> q, rating |-> r, level |-> l] :
      s \in {0, 1, 128, 129}, q \in {1, 2000, 2001}, r \in {"up", "down", "other"},
      l \in {"high", "medium", "low", "other"} }

Tokens ==
  {A!Word, A!Address} \cup
  { A!Digits(n, shape, "none") : n \in {6, 7, 15, 16}, shape \in {"plain", "date", "dotted"} } \cup
  { A!Digits(8, "plain", around) : around \in {"path", "currency", "unit"} }

Content(shape, text, parts) == [shape |-> shape, text |-> text, parts |-> parts]

Contents ==
  { Content("string", text, <<>>) : text \in SeqOf(Tokens, 2) } \cup
  { Content("parts", <<>>, <<[type |-> "text", text |-> <<t>>], [type |-> type, text |-> <<u>>]>>) :
      t \in Tokens, u \in {A!Address, A!Word}, type \in {"text", "image_url"} } \cup
  {Content("null", <<>>, <<>>)}

\* A step of a run: a turn of the model and what a tool gave for it.
Step(token) == <<Content("string", <<A!Word>>, <<>>), Content("string", <<token>>, <<>>)>>

SentCases ==
  { c \in [maskPii : BOOLEAN, tools : BOOLEAN,
           messages : { <<e, Content("string", <<t>>, <<>>)>> : e \in Contents, t \in {A!Word, A!Address} },
           steps : SeqOf({Step(A!Word), Step(A!Address)}, 2)] :
      c.tools \/ c.steps = <<>> }

CostCases ==
  { [answers |-> answers] :
      answers \in SeqOf([priced : BOOLEAN, cost : {0, 3}], 3) }

\* An error of the SDK, raised here or in another copy of it.
Classes == {"request", "guardrail_blocked", "authentication", "credit", "budget_exceeded",
            "not_found", "rate_limit", "service", "transport", "configuration", "other"}

ErrorCases ==
  { [class |-> class, status |-> status, abort |-> FALSE] :
      class \in Classes, status \in Option(Classes) } \cup
  { [class |-> "none", status |-> status, abort |-> abort] :
      status \in Option(Classes), abort \in BOOLEAN }

\* The options of a command in groups: a switch, or an option and what follows it.
Groups ==
  { <<f>> : f \in L!Switches } \cup
  { <<f, v>> : f \in {"--docs", "--out"}, v \in {"a", "b", "--skip-blocked"} } \cup
  { <<"--seed-url", v>> : v \in {"a", "b"} } \cup
  { <<"--dimensions", v>> : v \in {"0", "384", "9000", "many"} } \cup {<<"other">>}

CommandCases ==
  { [groups |-> groups, last |-> last, key |-> key, succeeds |-> succeeds] :
      groups \in { <<<<"--docs", "a">>, g, h, <<"--out", "b">>>> : g \in Groups, h \in Groups } \cup
                 SeqOf(Groups, 2),
      last \in {<<>>, <<"--out">>, <<"--seed-url">>, <<"--dimensions">>}, key \in BOOLEAN, succeeds \in BOOLEAN }

-----------------------------------------------------------------------------
\* A configuration that is accepted works: it asks the store for no more than it gives,
\* the shortest question is not too long for it, a chunk that matches is sure and one
\* that does not is unsure, and what was given was not replaced by a default.
ConfigIsUsable(input) ==
  \A made \in A!ResolveConfig(input.config) :
    /\ ~S!RefusesSearch(made.topK)
    /\ ~S!Refused([messages |-> <<[role |-> "user", blank |-> FALSE, length |-> 1]>>,
                   pageContext |-> {1}], made.limits)
    /\ S!Level(<<[near |-> 1000]>>, made.confidence) = "high"
    /\ S!Level(<<[near |-> 0]>>, made.confidence) = "low"
    /\ \A f \in DOMAIN input.config.limits : made.limits[f] = input.config.limits[f]
    /\ made.maskPii \/ input.config.maskPii = {FALSE}

\* Feedback can be given about every turn of every session the agent has with its default
\* limits.
FeedbackFitsTheChat(input) ==
  LET request == [messages |-> <<[role |-> "user", blank |-> FALSE, length |-> input.question]>>,
                  pageContext |-> {}]
      context == [identity |-> [n \in {} |-> 0], audiences |-> <<>>, sessionId |-> {input.session}]
      feedback == [sessionId |-> input.session, messageId |-> 1, rating |-> input.rating,
                   question |-> {input.question}, confidence |-> {input.level}, reason |-> {}]
  IN  A!RefusesFeedback(feedback) <=>
        \/ S!Refused(request, A!DefaultLimits) \/ A!RefusesContext(context)
        \/ input.rating = "other" \/ input.level = "other"

IsPhone(token) ==
  token.is = "number" /\ token.digits \in 7..15 /\ token.shape = "plain" /\ token.around = "none"

\* What is left of a text whose addresses and phone numbers must not leave.
OnlyHides(before, after) ==
  /\ Len(before) = Len(after)
  /\ \A i \in 1..Len(before) :
       IF before[i].is = "email" \/ IsPhone(before[i]) THEN after[i].is = "mask"
       ELSE after[i] = before[i]

\* Of a question and its history no address or phone number is sent to the gateway, in
\* whichever shape a message has it and in whichever request of the run, and everything
\* else is sent as it is.  What the model and the tools of the host add to a run is sent as
\* it is in the requests behind it; with masking off the history is, too, but the question
\* is looked up masked all the same.
WhatLeavesIsMasked(input) ==
  LET messages == input.messages
      sent == A!Sent(input.maskPii, input.tools, Last(messages).text, messages, input.steps)
      of(n) == messages \o FlattenSeq(SubSeq(input.steps, 1, n - 1))
  IN  /\ OnlyHides(Last(messages).text, sent.embedded[1])
      /\ Len(sent.chat) = Len(input.steps) + 1
      /\ \A n \in DOMAIN sent.chat :
           /\ Len(sent.chat[n]) = Len(of(n))
           /\ \A i \in DOMAIN sent.chat[n] :
                LET was == of(n)[i]
                    now == sent.chat[n][i]
                IN  IF ~input.maskPii \/ i > Len(messages) THEN now = was
                    ELSE /\ OnlyHides(was.text, now.text)
                         /\ \A k \in DOMAIN was.parts :
                              IF was.parts[k].type = "text"
                              THEN OnlyHides(was.parts[k].text, now.parts[k].text)
                              ELSE now.parts[k] = was.parts[k]

\* A price is shown for an answer only when all of it was priced, and then the whole.
CostIsWhole(input) ==
  LET answers == input.answers
      priced  == SelectSeq(answers, LAMBDA a : a.priced)
      sum(as) == FoldLeft(LAMBDA total, a : total + a.cost, 0, as)
      run     == [total |-> sum(priced), priced |-> Len(priced), complete |-> priced = answers]
      shown   == A!CostFrame(A!CostOfRun(run)).costUsd
  IN  /\ shown = IF answers = <<>> \/ \E i \in DOMAIN answers : ~answers[i].priced THEN {}
                 ELSE {sum(answers)}
      /\ \A i \in DOMAIN answers :
           A!CostFrame(A!CostFromMeta([priced |-> answers[i].priced, cost |-> {answers[i].cost}])).costUsd
             = IF answers[i].priced THEN {answers[i].cost} \ {0} ELSE {}

\* An error of another copy of the SDK is told as one of this, whether its class is known
\* by name or its status speaks for it; so the refusal that is worth a retry without the
\* web is known in both.  A cancellation is told as one.
ErrorIsTheSame(input) ==
  LET code(from) == A!SafeCode([from |-> from, class |-> input.class, status |-> input.status,
                                abort |-> input.abort])
  IN  /\ input.class # "none" /\ (input.status = {input.class} \/ input.class \in A!Named) =>
           code("copy") = code("sdk")
      /\ code("sdk") = "guardrail_blocked" <=> input.class = "guardrail_blocked"
      /\ input.abort => code("other") = "aborted"

\* The command leaves the index its arguments name, the last of each option and every
\* seed, and says so; else nothing is saved, and what is not understood has not begun.
\* A number of dimensions that is 0 or none is as good as none, even behind one that is,
\* and one no index may have leaves no index.
CommandSaysWhatItDid(input) ==
  LET groups == input.groups \o (IF input.last = <<>> THEN <<>> ELSE <<Append(input.last, "")>>)
      end    == L!RunCliWith(<<"build-kb">> \o FlattenSeq(input.groups \o <<input.last>>),
                             [key |-> input.key, succeeds |-> input.succeeds])
      of(flag) == SelectSeq(groups, LAMBDA g : g[1] = flag)
      value(flag) == IF of(flag) = <<>> THEN "" ELSE Last(of(flag))[2]
  IN  /\ end.code = 0 <=> end.saved # {}
      /\ end.code = 2 => ~end.began
      /\ end.code = 0 <=>
           end.code # 2 /\ input.key /\ input.succeeds /\ value("--dimensions") # "9000"
      /\ end.code = 2 <=> of("other") # <<>> \/ value("--docs") = "" \/ value("--out") = ""
      /\ \A o \in end.saved :
           /\ o.docs = value("--docs") /\ o.out = value("--out")
           /\ o.seeds = [i \in DOMAIN of("--seed-url") |-> of("--seed-url")[i][2]]
           /\ o.maskPii <=> of("--no-mask-pii") = <<>>
           /\ o.skipBlocked <=> of("--skip-blocked") # <<>>
           /\ o.dimensions = {IF value("--dimensions") = "384" THEN 384 ELSE 768}
=============================================================================
