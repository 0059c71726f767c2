------------------------------- MODULE Prompts -------------------------------
(***************************************************************************)
(* A prompt template chosen for a request: the selections of prompts.ts,   *)
(* what is folded into the options of a call, and the fields               *)
(* buildExtraBody of options.ts writes into its body; and renderPrompt,    *)
(* which fills a template on the client.                                   *)
(*                                                                         *)
(* A selection has at most one template and at most one map of variables.  *)
(* An id is a record of what it says and whether only blanks are in it.    *)
(* A template is a sequence of plain text and of places for a variable,    *)
(* and so is a value, which may look like a place itself.                  *)
(***************************************************************************)
EXTENDS Sequences, SequencesExt, Functions

\* The names the gateway fills in itself, after those of the caller.
SystemVariables == <<"org_name", "model", "timestamp", "user_id">>

Empty == [n \in {} |-> <<>>]

\* `{...left, ...right}`: the later map wins.
Spread(left, right) ==
  [n \in DOMAIN left \cup DOMAIN right |-> IF n \in DOMAIN right THEN right[n] ELSE left[n]]

OrEmpty(variables) == IF variables = {} THEN Empty ELSE CHOOSE v \in variables : variables = {v}

-----------------------------------------------------------------------------
\* An id without its blanks, and an id that is set.
Trimmed(id) == [id EXCEPT !.spaced = FALSE]
IsSet(ids)  == \E id \in ids : id.says # "" \/ id.spaced

\* Mutant of RefusesTemplate: an id of blanks is an id.
RefusesEmptyTemplate(id) == ~IsSet({id})

\* promptTemplate refuses an id that says nothing.
RefusesTemplate(id) == id.says = ""

PromptTemplate(id, variables) == [templateId |-> {Trimmed(id)}, variables |-> variables]

\* promptVariables: the template assigned to the key, with these variables.
PromptVariables(variables) == [templateId |-> {}, variables |-> {variables}]

\* Mutant of WithVariables: the variables are set anew.
WithVariablesOnly(selection, more) == [selection EXCEPT !.variables = {more}]

\* withVariables: the later values win.
WithVariables(selection, more) ==
  [selection EXCEPT !.variables = {Spread(OrEmpty(selection.variables), more)}]

\* Mutant of ApplyPrompt: a selection without a template clears the one of the options.
ApplyPromptWhole(options, selection) ==
  [options EXCEPT
     !.templateId = selection.templateId,
     !.variables = IF selection.variables = {} THEN options.variables
                   ELSE {Spread(OrEmpty(options.variables), OrEmpty(selection.variables))}]

\* applyPrompt: what the selection says over what the options say.
ApplyPrompt(options, selection) ==
  [options EXCEPT
     !.templateId = IF IsSet(selection.templateId) THEN selection.templateId ELSE options.templateId,
     !.variables = IF selection.variables = {} THEN options.variables
                   ELSE {Spread(OrEmpty(options.variables), OrEmpty(selection.variables))}]

\* buildExtraBody refuses an option the gateway would not read.
RefusesExtra(options) == options.guardrails # {}

\* buildExtraBody: a template that is set, variables that are not empty, and the cache
\* only where it is turned off.
ExtraBody(options) ==
  [templateId |-> IF IsSet(options.templateId) THEN options.templateId ELSE {},
   variables  |-> { v \in options.variables : DOMAIN v # {} },
   cache      |-> options.cache \cap {FALSE}]

\* promptExtraBody
PromptExtraBody(selection) ==
  ExtraBody([templateId |-> selection.templateId, variables |-> selection.variables,
             cache |-> {}, guardrails |-> {}])

\* systemVariableConflicts
Conflicts(variables) ==
  SelectSeq(SystemVariables, LAMBDA n : \E v \in variables : n \in DOMAIN v)

-----------------------------------------------------------------------------
Plain(text) == [place |-> FALSE, name |-> text]
Place(name) == [place |-> TRUE, name |-> name]

\* What stands in a place: a system variable, else one of the caller, else the place.
Filled(token, variables, system) ==
  LET n == token.name
  IN  CASE ~token.place -> <<token>>
        [] token.place /\ n \in DOMAIN system -> system[n]
        [] token.place /\ n \notin DOMAIN system /\ n \in DOMAIN variables -> variables[n]
        [] token.place /\ n \notin DOMAIN system \cup DOMAIN variables -> <<token>>

\* Mutant of Render: rendered until nothing changes, or twice.
RenderAgain(template, variables, system) ==
  LET once == FlattenSeq([i \in 1..Len(template) |-> Filled(template[i], variables, system)])
  IN  FlattenSeq([i \in 1..Len(once) |-> Filled(once[i], variables, system)])

\* renderPrompt: one pass over the template.
Render(template, variables, system) ==
  FlattenSeq([i \in 1..Len(template) |-> Filled(template[i], variables, system)])

\* renderPrompt refuses a strict template with a place nothing stands in.
RefusesRender(template, variables, system, strict) ==
  /\ strict
  /\ \E i \in 1..Len(template) :
       template[i].place /\ template[i].name \notin DOMAIN system \cup DOMAIN variables
=============================================================================
