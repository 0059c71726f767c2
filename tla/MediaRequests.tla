--------------------------- MODULE MediaRequests ---------------------------
(***************************************************************************)
(* What the media calls of sdks/js/src/multimodal.ts refuse and what they  *)
(* send: the JSON bodies of speech, image, video and embeddings, the form  *)
(* of transcribe and translate, the reference of an image in a chat, and   *)
(* the limits of a wait.                                                   *)
(*                                                                         *)
(* An option is a set of at most one value; a text is what it says and     *)
(* whether it is spelled as the wire spells it (tidy), since a check trims *)
(* and lowers the text and the wire does not.                              *)
(***************************************************************************)
EXTENDS Integers, Sequences, SequencesExt

MaxImageCount   == 10
MaxVideoSeconds == 1333
MinPollInterval == 250
DefaultPollInterval == 500
DefaultWait     == 60000

Text(says, tidy) == [says |-> says, tidy |-> tidy]
Number(n)        == [is |-> "number", value |-> n]
NotFinite        == [is |-> "not_finite", value |-> 0]

\* The words a check lists, of those an option may say.
Listed   == {"listed"}

-----------------------------------------------------------------------------
\* requireNonEmpty
Empty(option) == option = {} \/ \E t \in option : t.says = ""

\* assertOneOf, validateAudioFormat
Unlisted(option) == \E t \in option : t.says \notin Listed

\* validateImageParams
RefusesImage(named) ==
  \/ Empty(named.model) \/ Empty(named.prompt)
  \/ \E n \in named.n : n.is # "number" \/ n.value \notin 1..MaxImageCount
  \/ Unlisted(named.response_format) \/ Unlisted(named.size) \/ Unlisted(named.quality)

\* Mutant of RefusesVideo: the bound is checked for a number only.
RefusesVideoOfNumbers(named) ==
  \/ Empty(named.model) \/ Empty(named.prompt)
  \/ \E s \in named.seconds : s.is # "number" \/ s.value <= 0
                               \/ (~s.text /\ s.value > MaxVideoSeconds)
  \/ \E z \in named.size : z.width <= 0 \/ z.height <= 0

\* validateVideoParams: seconds are a number or its text; a size that is not
\* WIDTHxHEIGHT has no width.
RefusesVideo(named) ==
  \/ Empty(named.model) \/ Empty(named.prompt)
  \/ \E s \in named.seconds : s.is # "number" \/ s.value <= 0 \/ s.value > MaxVideoSeconds
  \/ \E z \in named.size : z.width <= 0 \/ z.height <= 0

\* speech(): an empty format is not looked at.
RefusesSpeech(named) ==
  \/ Empty(named.model) \/ Empty(named.input) \/ Empty(named.voice)
  \/ \E t \in named.response_format : t.says # "" /\ Unlisted({t})

\* embeddings(): an input that says nothing, as a text or as a list.
RefusesEmbeddings(named) == Empty(named.model) \/ Empty(named.input)

Refuses(endpoint, named) ==
  CASE endpoint = "image"      -> RefusesImage(named)
    [] endpoint = "video"      -> RefusesVideo(named)
    [] endpoint = "speech"     -> RefusesSpeech(named)
    [] endpoint = "embeddings" -> RefusesEmbeddings(named)

\* wireSeconds: the gateway takes text.
WireSeconds(s) == [s EXCEPT !.text = TRUE]

Wire(field, option) == IF field = "seconds" THEN { WireSeconds(s) : s \in option } ELSE option

\* Mutant of Body: an option that was not given erases what `extra` says of it.
BodyOfUndefined(named, extra) ==
  [f \in DOMAIN named \cup DOMAIN extra |->
     IF f \in DOMAIN named THEN Wire(f, named[f]) ELSE extra[f]]

\* defined, jsonBody: the options that were given are written over `extra`.
Body(named, extra) ==
  [f \in DOMAIN named \cup DOMAIN extra |->
     IF f \in DOMAIN named /\ named[f] # {} THEN Wire(f, named[f])
     ELSE IF f \in DOMAIN extra THEN extra[f] ELSE {}]

-----------------------------------------------------------------------------
\* audioUpload.  The gateway takes the first part of a name.
Reserved == {"model", "language", "prompt", "temperature", "response_format",
             "timestamp_granularities[]", "file"}

NamedFields == <<"model", "language", "prompt", "temperature", "response_format">>

Field(name, value) == [name |-> name, value |-> value]

\* pushField
Given(name, option) == IF option = {} THEN <<>> ELSE <<Field(name, CHOOSE v \in option : TRUE)>>

\* Mutant of Fields: `extra` first, as in a JSON body.
FieldsExtraFirst(upload) ==
  upload.extra
    \o FlattenSeq([i \in 1..Len(NamedFields) |-> Given(NamedFields[i], upload.named[NamedFields[i]])])
    \o [i \in 1..Len(upload.granularities) |-> Field("timestamp_granularities[]", upload.granularities[i])]

Fields(upload) ==
  FlattenSeq([i \in 1..Len(NamedFields) |-> Given(NamedFields[i], upload.named[NamedFields[i]])])
    \o SelectSeq(upload.extra, LAMBDA f : f.name \notin Reserved)
    \o [i \in 1..Len(upload.granularities) |-> Field("timestamp_granularities[]", upload.granularities[i])]

NoFileNames == {"audio", "dir/speech.mp3", "two lines.mp3", ""}

\* multipartBody: every name is one line and says something, the file has a name
\* with an extension and no path.
RefusesForm(upload) ==
  \/ upload.fileName \in NoFileNames
  \/ \E i \in 1..Len(Fields(upload)) : Fields(upload)[i].name \in {"", "two lines"}

\* requireNonEmpty, toBytes, multipartBody, chooseBoundary: `free` says which of its
\* eight draws occur nowhere in the payload.
RefusesUpload(upload) ==
  \/ upload.named.model = {} \/ upload.fileEmpty
  \/ RefusesForm(upload)
  \/ \A attempt \in 1..8 : attempt \notin upload.free

\* The parts of the form, with the boundary they are cut at: the number of its draw.
Form(upload) ==
  [boundary |-> CHOOSE a \in upload.free : \A b \in upload.free : a <= b,
   parts |-> Append(Fields(upload), Field("file", upload.fileName))]

-----------------------------------------------------------------------------
\* Mutant of Decodes: the padding is not counted.
DecodesAnyPadding(digits, pads) == digits > 0 /\ pads <= 2 /\ digits % 4 # 1

\* dataUrlToPart: a base64 payload of so many digits and padding signs.
Decodes(digits, pads) ==
  LET length == digits + pads
  IN  /\ digits > 0 /\ pads <= 2
      /\ pads > 0 => length % 4 = 0
      /\ length % 4 # 1

\* dataUrlToPart: a reference is data, an https URL with a host, or neither.
RefusesImageReference(ref) ==
  \/ ref.lines
  \/ CASE ref.scheme = "data"  -> ~ref.image \/ ref.spaces \/ ~ref.standard
                                  \/ ~Decodes(ref.digits, ref.pads)
       [] ref.scheme = "https" -> ~ref.host
       [] ref.scheme \in {"http", "none"} -> TRUE

-----------------------------------------------------------------------------
\* validateWaitForVideoOptions: the two times it answers with, or none.
WaitOptions(poll, timeout) ==
  LET p == IF poll = {} THEN {Number(DefaultPollInterval)} ELSE poll
      t == IF timeout = {} THEN {Number(DefaultWait)} ELSE timeout
  IN  { [poll |-> w[1].value, timeout |-> w[2].value] :
          w \in { ab \in p \X t : /\ ab[1].is = "number" /\ ab[1].value >= MinPollInterval
                                 /\ ab[2].is = "number" /\ ab[2].value >= ab[1].value } }
=============================================================================
