------------------------------ MODULE Workflow ------------------------------
(***************************************************************************)
(* Workflows as the parser builds them (src/threadlang/ast.py) and the two *)
(* checks of src/threadlang/parser.py that every workflow passes, whether  *)
(* it arrives as source or as IR.                                          *)
(*                                                                         *)
(* Names are strings.  A string literal is a record of two counts: `odd`   *)
(* is the number of escapes the language does not know (\d), which stand   *)
(* for two characters each, `plain` the number of all other characters.    *)
(* An expression lists its terms by runs, [term, times], so that a long    *)
(* one stays small.  A label or an admissible reply is a triple, its case- *)
(* folded form, its spelling, and the counts of that string.  A dataclass  *)
(* is a record with its class under `node`.                                *)
(***************************************************************************)
EXTENDS Naturals, Sequences, FiniteSets

CONSTANTS MaxStringChars, MaxAgentIters, MaxRegexPatternChars \* policy.py

ASSUME WorkflowAssumption ==
  MaxStringChars \in Nat /\ MaxAgentIters \in Nat \ {0} /\ MaxRegexPatternChars \in Nat

End       == "end"                \* END_TARGET
NoTarget  == "-"                  \* no outgoing edge declared; not a name
NoIdentifier == ""                \* a string that is no name
NoText    == [absent |-> TRUE]    \* no string
NoPattern == [absent |-> TRUE]
NoLimit   == 0

Chars(string) == string.plain + 2 * string.odd

Unique(s) == \A i, j \in DOMAIN s : s[i] = s[j] => i = j
NamesOf(s) == {s[i].name : i \in DOMAIN s}
ListedNames(s) == [i \in DOMAIN s |-> s[i].name]
Folded(values) == [i \in DOMAIN values |-> values[i][1]]
LiteralOf(value) == value[3]
Labels(arms) == [i \in DOMAIN arms |-> arms[i].label]

\* re.compile accepts it, and it is short enough.
RegexOK(pattern) == pattern.compiles /\ pattern.chars <= MaxRegexPatternChars

-----------------------------------------------------------------------------
(* AST nodes. *)

StringLiteral(value)     == [node |-> "StringLiteral", value |-> value]
ContextRef(n)            == [node |-> "ContextRef", name |-> n]
InputsRef(n)             == [node |-> "InputsRef", name |-> n]
StepsRef(n, optional)    == [node |-> "StepsRef", step_name |-> n, optional |-> optional]
ExpectRule(kind, values, pattern, limit) ==
  [kind |-> kind, values |-> values, pattern |-> pattern, limit |-> limit]
Step(n, model, prompt, next_target, expect) ==
  [node |-> "Step", name |-> n, model |-> model, prompt |-> prompt,
   next_target |-> next_target, expect |-> expect]
AgentStep(n, model, prompt, tools, max_iters, next_target) ==
  [node |-> "AgentStep", name |-> n, model |-> model, prompt |-> prompt,
   tools |-> tools, max_iters |-> max_iters, next_target |-> next_target]
RouteStep(n, model, prompt, arms, else_target) ==
  [node |-> "RouteStep", name |-> n, model |-> model, prompt |-> prompt,
   arms |-> arms, else_target |-> else_target]
EmitBlock(kind, expression, model) ==
  [kind |-> kind, expression |-> expression, model |-> model]
Program(n, context, steps, emit) ==
  [thread_name |-> n, context |-> context, steps |-> steps, emit |-> emit]

\* Well-formed nodes: what a value of each dataclass of ast.py looks like.
IsTerm(t) ==
  \/ t.node = "StringLiteral" /\ t = StringLiteral(t.value)
  \/ t.node \in {"ContextRef", "InputsRef"} /\ t = [node |-> t.node, name |-> t.name]
  \/ t.node = "StepsRef" /\ t = StepsRef(t.step_name, t.optional)

IsExpression(e) ==
  /\ e = [i \in DOMAIN e |-> [term |-> e[i].term, times |-> e[i].times]]
  /\ \A i \in DOMAIN e : IsTerm(e[i].term)

\* A rule carries the payload of its kind and nothing else.
IsRule(r) ==
  \/ /\ r.kind = "one_of" /\ r.values # <<>>
     /\ r = ExpectRule("one_of", r.values, NoPattern, NoLimit)
  \/ r.kind = "matches" /\ r = ExpectRule("matches", <<>>, r.pattern, NoLimit)
  \/ r.kind = "max_chars" /\ r = ExpectRule("max_chars", <<>>, NoPattern, r.limit)
  \/ r.kind = "nonempty" /\ r = ExpectRule("nonempty", <<>>, NoPattern, NoLimit)

IsRules(rules) ==
  /\ rules = [i \in DOMAIN rules |-> rules[i]]
  /\ \A i \in DOMAIN rules : IsRule(rules[i])

IsArms(arms) ==
  /\ arms = [k \in DOMAIN arms |-> arms[k]]
  /\ Len(arms) \in Nat /\ DOMAIN arms = 1..Len(arms)
  /\ \A k \in DOMAIN arms : DOMAIN arms[k] = {"label", "target"} /\ arms[k].target # NoTarget

IsStep(s) ==
  /\ s.name # NoIdentifier /\ IsExpression(s.prompt)
  /\ \/ /\ s.node = "Step" /\ IsRules(s.expect)
        /\ s = Step(s.name, s.model, s.prompt, s.next_target, s.expect)
     \/ /\ s.node = "AgentStep" /\ s.max_iters \in Nat
        /\ \A k \in DOMAIN s.tools : s.tools[k] # NoIdentifier
        /\ s = AgentStep(s.name, s.model, s.prompt, s.tools, s.max_iters, s.next_target)
     \/ /\ s.node = "RouteStep" /\ IsArms(s.arms)
        /\ s = RouteStep(s.name, s.model, s.prompt, s.arms, s.else_target)

IsEmit(e) ==
  /\ e = EmitBlock(e.kind, e.expression, e.model)
  /\ IsExpression(e.expression) /\ e.expression # <<>>
  /\ e.kind \in {"text", "llm"} /\ (e.kind = "llm" <=> e.model # NoText)

IsContext(context) ==
  \A i \in DOMAIN context : /\ DOMAIN context[i] = {"name", "value"}
                            /\ context[i].name # NoIdentifier

IsProgram(p) ==
  /\ p.thread_name # NoIdentifier /\ IsContext(p.context)
  /\ p = Program(p.thread_name, p.context, p.steps, p.emit) /\ IsEmit(p.emit)
  /\ p.steps = [i \in DOMAIN p.steps |-> p.steps[i]]
  /\ Len(p.steps) \in Nat /\ DOMAIN p.steps = 1..Len(p.steps)
  /\ \A i \in DOMAIN p.steps : IsStep(p.steps[i])

-----------------------------------------------------------------------------
(* _validate_targets and _validate_program. *)

Terms(expression) == {expression[i].term : i \in DOMAIN expression}
ContextRefs(expression) == {t.name : t \in {u \in Terms(expression) : u.node = "ContextRef"}}
StepsRefs(expression) == {t.step_name : t \in {u \in Terms(expression) : u.node = "StepsRef"}}

Targets(step) ==
  (IF step.node = "RouteStep"
   THEN {step.arms[i].target : i \in DOMAIN step.arms} \cup {step.else_target}
   ELSE {step.next_target}) \ {NoTarget}

\* Mutant: `index[target] < position`: a step may jump to itself.
ValidTargetsOrSelf(steps) ==
  \A i \in DOMAIN steps :
    /\ \A t \in Targets(steps[i]) \ {End} : \E j \in i..Len(steps) : steps[j].name = t
    /\ steps[i].node = "RouteStep" => Unique(Folded(Labels(steps[i].arms)))

ValidTargets(steps) ==
  \A i \in DOMAIN steps :
    /\ \A t \in Targets(steps[i]) \ {End} : \E j \in (i + 1)..Len(steps) : steps[j].name = t
    /\ steps[i].node = "RouteStep" => Unique(Folded(Labels(steps[i].arms)))

ValidReferences(context, steps, emit) ==
  /\ \A i \in DOMAIN steps :
       /\ ContextRefs(steps[i].prompt) \subseteq NamesOf(context)
       /\ StepsRefs(steps[i].prompt) \subseteq {steps[j].name : j \in 1..(i - 1)}
  /\ ContextRefs(emit.expression) \subseteq NamesOf(context)
  /\ StepsRefs(emit.expression) \subseteq NamesOf(steps)

-----------------------------------------------------------------------------
(* What runtime.py relies on when it executes a workflow.                    *)

\* index_by_name finds one step for a name, and only "end" is not a step.
NamesResolve(p) ==
  /\ Unique(ListedNames(p.steps)) /\ End \notin NamesOf(p.steps)
  /\ Unique(ListedNames(p.context))

\* Positions a run may be at after step i; 0 stands for emit.
Successors(p, i) ==
  {j \in DOMAIN p.steps : p.steps[j].name \in Targets(p.steps[i])}
    \cup (IF End \in Targets(p.steps[i]) THEN {0} ELSE {})
    \cup (IF p.steps[i].node # "RouteStep" /\ Targets(p.steps[i]) = {}
          THEN {IF i = Len(p.steps) THEN 0 ELSE i + 1} ELSE {})

\* Every step leads somewhere, and only onwards: the loop ends and repeats nothing.
RunsForward(p) ==
  \A i \in DOMAIN p.steps :
    /\ \A t \in Targets(p.steps[i]) : t = End \/ t \in NamesOf(p.steps)
    /\ Successors(p, i) # {}
    /\ \A j \in Successors(p, i) : j = 0 \/ j > i

\* A reference names a context value, or a step that is behind when it is rendered.
RendersKnown(p) ==
  /\ \A i \in DOMAIN p.steps :
       /\ p.steps[i].prompt # <<>>
       /\ ContextRefs(p.steps[i].prompt) \subseteq NamesOf(p.context)
       /\ \A n \in StepsRefs(p.steps[i].prompt) :
            \E j \in DOMAIN p.steps : j < i /\ p.steps[j].name = n
  /\ ContextRefs(p.emit.expression) \subseteq NamesOf(p.context)
  /\ StepsRefs(p.emit.expression) \subseteq NamesOf(p.steps)

\* A reply matches at most one label; a contract can be evaluated and met; an agent
\* has a turn, and not too many.
Decides(p) ==
  \A i \in DOMAIN p.steps : LET s == p.steps[i] IN
    /\ s.node = "RouteStep" => \A a, b \in DOMAIN s.arms :
                                 s.arms[a].label[1] = s.arms[b].label[1] => a = b
    /\ s.node = "Step" => \A k \in DOMAIN s.expect :
                            /\ s.expect[k].kind = "matches" => RegexOK(s.expect[k].pattern)
                            /\ s.expect[k].kind = "max_chars" => s.expect[k].limit >= 1
    /\ s.node = "AgentStep" => s.max_iters \in 1..MaxAgentIters

RuntimeReady(p) == NamesResolve(p) /\ RunsForward(p) /\ RendersKnown(p) /\ Decides(p)
=============================================================================
