------------------------------- MODULE Parser -------------------------------
(***************************************************************************)
(* Parsing one source text (src/threadlang/parser.py).                     *)
(*                                                                         *)
(* A source text lists its blocks and steps in order, but leaves the order *)
(* of the clauses in a step body to the author: a body is a set of clauses *)
(* and the parser may meet them in any order.  Tokens that begin no clause *)
(* are the clause "junk".  Spelling, layout and error messages are left    *)
(* out; what the lexer counts in a string literal is not.                  *)
(***************************************************************************)
EXTENDS Workflow
LOCAL INSTANCE FiniteSetsExt

CONSTANTS Texts,          \* the source texts an author may write
          MaxSourceBytes, \* policy.py
          DefaultMaxIters

ASSUME ParserAssumption == MaxSourceBytes \in Nat /\ DefaultMaxIters \in 1..MaxAgentIters

\* What the clauses and the emit block of a text hold are terms, at least one, rules,
\* and names.
ASSUME TextsAssumption ==
  \A t \in Texts :
    /\ t.name # NoIdentifier /\ IsContext(t.context) /\ IsEmit(t.emit)
    /\ Len(t.steps) \in Nat /\ DOMAIN t.steps = 1..Len(t.steps)
    /\ \A i \in DOMAIN t.steps : t.steps[i].kind \in {"llm", "agent", "route"}
    /\ \A i \in DOMAIN t.steps : \A c \in t.steps[i].clauses :
         /\ c.word = "prompt" => IsExpression(c.prompt) /\ c.prompt # <<>>
         /\ c.word = "expect" => IsRules(c.rules)
         /\ c.word = "max_iters" => c.max_iters \in Nat
         /\ c.word = "tools" => \A k \in DOMAIN c.tools : c.tools[k] # NoIdentifier
         /\ c.word \in {"then", "on", "else"} => c.target # NoTarget
    /\ \A i \in DOMAIN t.steps :
         t.steps[i].name # NoIdentifier /\ IsFiniteSet(t.steps[i].clauses)

VARIABLES text,   \* the source text
          phase,  \* the production the parser is in, or its verdict
          unread, \* clauses of the step body that are still to come
          body,   \* the locals of _parse_llm, _parse_agent or _parse_route
          parsed, \* steps read so far
          program \* the result of parse_program

parserVars == <<text, phase, unread, body, parsed, program>>

NoBody == [prompt |-> <<>>, expect |-> <<>>, next_target |-> NoTarget, tools |-> <<>>,
           max_iters |-> DefaultMaxIters, arms |-> <<>>, else_target |-> NoTarget,
           seen |-> {}]
NoProgram == Program(NoTarget, <<>>, <<>>, EmitBlock("text", <<>>, NoText))

ParserInit ==
  /\ text \in Texts
  /\ phase = "source" /\ unread = {} /\ body = NoBody /\ parsed = <<>>
  /\ program = NoProgram

Refuse == phase' = "refused" /\ UNCHANGED <<text, unread, body, parsed, program>>

-----------------------------------------------------------------------------
(* parse_program: the size of the text, and _lex. *)

\* A literal costs its characters, two quotes and a plus or a comma; names, models,
\* patterns and layout are not counted.
LiteralBytes(string) == 3 + Chars(string)
ExpressionBytes(expression) ==
  MapThenSumSet(LAMBDA i : expression[i].times * LiteralBytes(expression[i].term.value),
                {i \in DOMAIN expression : expression[i].term.node = "StringLiteral"})
RuleBytes(r) ==
  IF r.kind = "one_of"
  THEN MapThenSumSet(LAMBDA v : LiteralBytes(LiteralOf(r.values[v])), DOMAIN r.values)
  ELSE 0
ClauseBytes(c) ==
  CASE c.word = "prompt" -> ExpressionBytes(c.prompt)
    [] c.word = "on"     -> LiteralBytes(LiteralOf(c.label))
    [] c.word = "expect" -> MapThenSumSet(LAMBDA k : RuleBytes(c.rules[k]), DOMAIN c.rules)
    [] OTHER             -> 0
SourceBytes(source) ==
  MapThenSumSet(LAMBDA i : LiteralBytes(source.context[i].value), DOMAIN source.context)
  + MapThenSumSet(LAMBDA i : MapThenSumSet(ClauseBytes, source.steps[i].clauses),
                  DOMAIN source.steps)
  + ExpressionBytes(source.emit.expression)

\* An unknown escape is one element of the list whose length is checked.
LexedLength(string) == string.plain + string.odd

Literals(expression) == {t.value : t \in {u \in Terms(expression) : u.node = "StringLiteral"}}
RuleLiterals(r) ==
  IF r.kind = "one_of" THEN {LiteralOf(r.values[v]) : v \in DOMAIN r.values} ELSE {}
ClauseLiterals(c) ==
  CASE c.word = "prompt" -> Literals(c.prompt)
    [] c.word = "on"     -> {LiteralOf(c.label)}
    [] c.word = "expect" -> UNION {RuleLiterals(c.rules[k]) : k \in DOMAIN c.rules}
    [] OTHER             -> {}
TextLiterals(source) ==
  {source.context[i].value : i \in DOMAIN source.context}
    \cup {source.steps[i].model : i \in DOMAIN source.steps}
    \cup ({source.emit.model} \ {NoText}) \cup Literals(source.emit.expression)
    \cup UNION {UNION {ClauseLiterals(c) : c \in source.steps[i].clauses} :
                   i \in DOMAIN source.steps}

Lexes(source) ==
  /\ SourceBytes(source) <= MaxSourceBytes
  /\ \A string \in TextLiterals(source) : LexedLength(string) <= MaxStringChars

Lex ==
  /\ phase = "source"
  /\ IF Lexes(text) THEN phase' = "context" /\ UNCHANGED <<text, unread, body, parsed, program>>
                    ELSE Refuse

-----------------------------------------------------------------------------
(* The productions. *)

\* _parse_context; Program.parse goes on with the steps, which may be none.
ParseContext ==
  /\ phase = "context"
  /\ IF Unique(ListedNames(text.context))
     THEN phase' = "steps" /\ UNCHANGED <<text, unread, body, parsed, program>>
     ELSE Refuse

Header == text.steps[Len(parsed) + 1]

\* _parse_steps up to the opening brace of one step.
OpenStep ==
  /\ phase = "steps" /\ Len(parsed) < Len(text.steps)
  /\ IF Header.name = End \/ Header.name \in NamesOf(parsed) THEN Refuse
     ELSE /\ phase' = "body" /\ unread' = Header.clauses /\ body' = NoBody
          /\ UNCHANGED <<text, parsed, program>>

\* _parse_expect: duplicate kinds, except `matches`, and an empty block are refused.
ExpectOK(rules) ==
  /\ rules # <<>>
  /\ \A i, j \in DOMAIN rules :
       rules[i].kind = rules[j].kind /\ rules[i].kind # "matches" => i = j
  /\ \A i \in DOMAIN rules :
       /\ rules[i].kind = "max_chars" => rules[i].limit >= 1
       /\ rules[i].kind = "matches" => RegexOK(rules[i].pattern)
       /\ rules[i].kind = "one_of" => Unique(Folded(rules[i].values))

\* Mutant: `multiple expect blocks` is not noticed, and the last one counts.
ClauseOKWithoutExpectCheck(c) ==
  CASE c.word = "prompt"    -> body.prompt = <<>>
    [] c.word = "expect"    -> Header.kind = "llm" /\ ExpectOK(c.rules)
    [] c.word = "then"      -> Header.kind # "route" /\ body.next_target = NoTarget
    [] c.word = "tools"     -> /\ Header.kind = "agent" /\ "tools" \notin body.seen
                               /\ Unique(c.tools)
    [] c.word = "max_iters" -> /\ Header.kind = "agent" /\ "max_iters" \notin body.seen
                               /\ c.max_iters \in 1..MaxAgentIters
    [] c.word = "on"        -> Header.kind = "route"
    [] c.word = "else"      -> Header.kind = "route" /\ body.else_target = NoTarget
    [] OTHER                -> FALSE

\* The loops of _parse_llm, _parse_agent and _parse_route: what each takes, once.
ClauseOK(c) ==
  CASE c.word = "prompt"    -> body.prompt = <<>>
    [] c.word = "expect"    -> Header.kind = "llm" /\ body.expect = <<>> /\ ExpectOK(c.rules)
    [] c.word = "then"      -> Header.kind # "route" /\ body.next_target = NoTarget
    [] c.word = "tools"     -> /\ Header.kind = "agent" /\ "tools" \notin body.seen
                               /\ Unique(c.tools)
    [] c.word = "max_iters" -> /\ Header.kind = "agent" /\ "max_iters" \notin body.seen
                               /\ c.max_iters \in 1..MaxAgentIters
    [] c.word = "on"        -> Header.kind = "route"
    [] c.word = "else"      -> Header.kind = "route" /\ body.else_target = NoTarget
    [] OTHER                -> FALSE

WithClause(c) ==
  CASE c.word = "prompt"    -> [body EXCEPT !.prompt = c.prompt]
    [] c.word = "expect"    -> [body EXCEPT !.expect = c.rules]
    [] c.word = "then"      -> [body EXCEPT !.next_target = c.target]
    [] c.word = "tools"     -> [body EXCEPT !.tools = c.tools, !.seen = @ \cup {"tools"}]
    [] c.word = "max_iters" -> [body EXCEPT !.max_iters = c.max_iters,
                                            !.seen = @ \cup {"max_iters"}]
    [] c.word = "on"        -> [body EXCEPT !.arms = Append(@, [label |-> c.label,
                                                                target |-> c.target])]
    [] c.word = "else"      -> [body EXCEPT !.else_target = c.target]

ReadClause(c) ==
  /\ phase = "body" /\ c \in unread
  /\ IF ClauseOK(c)
     THEN /\ body' = WithClause(c) /\ unread' = unread \ {c}
          /\ UNCHANGED <<text, phase, parsed, program>>
     ELSE Refuse

BodyComplete == body.prompt # <<>> /\ (Header.kind = "route" => body.arms # <<>>)

ParsedStep ==
  CASE Header.kind = "llm" ->
         Step(Header.name, Header.model, body.prompt, body.next_target, body.expect)
    [] Header.kind = "agent" ->
         AgentStep(Header.name, Header.model, body.prompt, body.tools, body.max_iters,
                   body.next_target)
    [] Header.kind = "route" ->
         RouteStep(Header.name, Header.model, body.prompt, body.arms, body.else_target)

CloseStep ==
  /\ phase = "body" /\ unread = {}
  /\ IF BodyComplete
     THEN /\ phase' = "steps" /\ parsed' = Append(parsed, ParsedStep) /\ body' = NoBody
          /\ UNCHANGED <<text, unread, program>>
     ELSE Refuse

CloseSteps ==
  /\ phase = "steps" /\ Len(parsed) = Len(text.steps)
  /\ IF ValidTargets(parsed)
     THEN phase' = "emit" /\ UNCHANGED <<text, unread, body, parsed, program>>
     ELSE Refuse

\* _parse_emit and the check of the whole workflow.
ParseEmit ==
  /\ phase = "emit"
  /\ IF ValidReferences(text.context, parsed, text.emit)
     THEN /\ phase' = "accepted"
          /\ program' = Program(text.name, text.context, parsed, text.emit)
          /\ UNCHANGED <<text, unread, body, parsed>>
     ELSE Refuse

ParserNext ==
  \/ Lex \/ ParseContext \/ OpenStep \/ (\E c \in unread : ReadClause(c))
  \/ CloseStep \/ CloseSteps \/ ParseEmit

ParserSpec == ParserInit /\ [][ParserNext]_parserVars
=============================================================================
