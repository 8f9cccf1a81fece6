----------------------------- MODULE WorkflowIR -----------------------------
(***************************************************************************)
(* Workflow IR v1 (src/threadlang/ir.py): compiling an AST, its canonical  *)
(* JSON object, strict loading, and the bridge back to the AST.            *)
(*                                                                         *)
(* An IR dataclass is a record, a JSON object a record whose fields are    *)
(* its keys.  JSON null is NoTarget or NoText; a name that is no           *)
(* identifier is the empty string; a value of another JSON type than its   *)
(* field's is left out, a missing or an additional key is not.  Adjacent   *)
(* runs of an expression are taken to differ, so that the object stands    *)
(* for the canonical bytes, and for their SHA-256.                         *)
(***************************************************************************)
EXTENDS Workflow
LOCAL INSTANCE FiniteSetsExt

CONSTANT MaxIrBytes \* policy.py

ASSUME WorkflowIRAssumption == MaxIrBytes \in Nat

IR_VERSION       == "threadlang.ir/v1"
LANGUAGE_VERSION == "threadlang/v0.12"

NoName == "-"

-----------------------------------------------------------------------------
(* compile_program. *)

IRTerm(kind, value, n, step_name, optional) ==
  [kind |-> kind, value |-> value, name |-> n, step_name |-> step_name,
   optional |-> optional]

EachTerm(Op(_), expression) ==
  [i \in DOMAIN expression |-> [term |-> Op(expression[i].term), times |-> expression[i].times]]

Each(Op(_), s) == [i \in DOMAIN s |-> Op(s[i])]

\* Mutant: `optional` is not passed on.
CompileTermForgetful(t) ==
  CASE t.node = "StringLiteral" -> IRTerm("literal", t.value, NoName, NoName, FALSE)
    [] t.node = "ContextRef"    -> IRTerm("context_ref", NoText, t.name, NoName, FALSE)
    [] t.node = "InputsRef"     -> IRTerm("input_ref", NoText, t.name, NoName, FALSE)
    [] t.node = "StepsRef"      -> IRTerm("step_ref", NoText, NoName, t.step_name, FALSE)

CompileTerm(t) ==
  CASE t.node = "StringLiteral" -> IRTerm("literal", t.value, NoName, NoName, FALSE)
    [] t.node = "ContextRef"    -> IRTerm("context_ref", NoText, t.name, NoName, FALSE)
    [] t.node = "InputsRef"     -> IRTerm("input_ref", NoText, t.name, NoName, FALSE)
    [] t.node = "StepsRef"      -> IRTerm("step_ref", NoText, NoName, t.step_name, t.optional)

CompileExpression(expression) == EachTerm(CompileTerm, expression)

\* Only the payload of its kind is kept; _expectation_from_ir does the same.
CompileExpectation(r) ==
  CASE r.kind = "one_of"    -> ExpectRule(r.kind, r.values, NoPattern, NoLimit)
    [] r.kind = "matches"   -> ExpectRule(r.kind, <<>>, r.pattern, NoLimit)
    [] r.kind = "max_chars" -> ExpectRule(r.kind, <<>>, NoPattern, r.limit)
    [] r.kind = "nonempty"  -> ExpectRule(r.kind, <<>>, NoPattern, NoLimit)

CompileStep(s) ==
  LET prompt == CompileExpression(s.prompt) IN
  CASE s.node = "Step" ->
         [kind |-> "llm", name |-> s.name, model |-> s.model, prompt |-> prompt,
          next_target |-> s.next_target, expect |-> Each(CompileExpectation, s.expect)]
    [] s.node = "AgentStep" ->
         [kind |-> "agent", name |-> s.name, model |-> s.model, prompt |-> prompt,
          tools |-> s.tools, max_iters |-> s.max_iters, next_target |-> s.next_target]
    [] s.node = "RouteStep" ->
         [kind |-> "route", name |-> s.name, model |-> s.model, prompt |-> prompt,
          arms |-> s.arms, else_target |-> s.else_target]

compile_program(p) ==
  [name |-> p.thread_name, context |-> p.context, steps |-> Each(CompileStep, p.steps),
   emit |-> [p.emit EXCEPT !.expression = CompileExpression(@)],
   ir_version |-> IR_VERSION, language_version |-> LANGUAGE_VERSION]

-----------------------------------------------------------------------------
(* program_from_ir. *)

TermFromIR(t) ==
  CASE t.kind = "literal"     -> StringLiteral(t.value)
    [] t.kind = "context_ref" -> ContextRef(t.name)
    [] t.kind = "input_ref"   -> InputsRef(t.name)
    [] t.kind = "step_ref"    -> StepsRef(t.step_name, t.optional)

StepFromIR(s) ==
  LET prompt == EachTerm(TermFromIR, s.prompt) IN
  CASE s.kind = "llm" ->
         Step(s.name, s.model, prompt, s.next_target, Each(CompileExpectation, s.expect))
    [] s.kind = "agent" ->
         AgentStep(s.name, s.model, prompt, s.tools, s.max_iters, s.next_target)
    [] s.kind = "route" ->
         RouteStep(s.name, s.model, prompt, s.arms, s.else_target)

BridgeOK(w) ==
  /\ w.ir_version = IR_VERSION /\ w.language_version = LANGUAGE_VERSION
  /\ w.emit.kind \in {"text", "llm"}
  /\ w.emit.kind = "llm" <=> w.emit.model # NoText

program_from_ir(w) ==
  Program(w.name, w.context, Each(StepFromIR, w.steps),
          EmitBlock(w.emit.kind, EachTerm(TermFromIR, w.emit.expression), w.emit.model))

-----------------------------------------------------------------------------
(* workflow_ir_object, the object behind canonical_ir_bytes. *)

TermObject(t) ==
  CASE t.kind = "literal"  -> [kind |-> t.kind, value |-> t.value]
    [] t.kind = "step_ref" -> [kind |-> t.kind, step_name |-> t.step_name,
                               optional |-> t.optional]
    [] OTHER               -> [kind |-> t.kind, name |-> t.name]

ExpressionObject(expression) == [terms |-> EachTerm(TermObject, expression)]

ExpectationObject(r) ==
  CASE r.kind = "one_of"    -> [kind |-> r.kind, values |-> r.values]
    [] r.kind = "matches"   -> [kind |-> r.kind, pattern |-> r.pattern]
    [] r.kind = "max_chars" -> [kind |-> r.kind, limit |-> r.limit]
    [] r.kind = "nonempty"  -> [kind |-> r.kind]

StepObject(s) ==
  LET prompt == ExpressionObject(s.prompt) IN
  IF s.kind = "llm"
  THEN [s EXCEPT !.prompt = prompt, !.expect = Each(ExpectationObject, @)]
  ELSE [s EXCEPT !.prompt = prompt]

workflow_ir_object(w) ==
  [name |-> w.name, context |-> w.context, steps |-> Each(StepObject, w.steps),
   emit |-> [kind |-> w.emit.kind, expression |-> ExpressionObject(w.emit.expression),
             model |-> w.emit.model],
   ir_version |-> w.ir_version, language_version |-> w.language_version]

\* Unknown escapes, \d, get a second backslash.
JsonBytes(string) == string.plain + 3 * string.odd
\* {"kind":"literal","value":""}, for each literal.
LiteralObjectBytes(string) == 30 + JsonBytes(string)
ObjectBytes(expression) ==
  MapThenSumSet(LAMBDA i : expression.terms[i].times
                             * LiteralObjectBytes(expression.terms[i].term.value),
                {i \in DOMAIN expression.terms : "value" \in DOMAIN expression.terms[i].term})
\* {"label":"","target":""}, for each arm, and "", for each admissible reply.
LabelsBytes(step) ==
  CASE step.kind = "route" ->
         MapThenSumSet(LAMBDA k : 25 + JsonBytes(LiteralOf(step.arms[k].label)),
                       DOMAIN step.arms)
    [] step.kind = "llm" ->
         MapThenSumSet(LAMBDA k : MapThenSumSet(
             LAMBDA v : 3 + JsonBytes(LiteralOf(step.expect[k].values[v])),
             IF step.expect[k].kind = "one_of" THEN DOMAIN step.expect[k].values ELSE {}),
           DOMAIN step.expect)
    [] OTHER -> 0
IrBytes(object) ==
  MapThenSumSet(LAMBDA i : LiteralObjectBytes(object.context[i].value), DOMAIN object.context)
  + MapThenSumSet(LAMBDA i : ObjectBytes(object.steps[i].prompt) + LabelsBytes(object.steps[i]),
                  DOMAIN object.steps)
  + ObjectBytes(object.emit.expression)

canonical(p) == workflow_ir_object(compile_program(p))

-----------------------------------------------------------------------------
(* load_ir_bytes: the shape of the document, ... *)

Has(object, keys) == DOMAIN object = keys

\* Mutant: the loader does not know optional references.
TermLoadsRequired(o) ==
  \/ Has(o, {"kind", "value"}) /\ o.kind = "literal"
  \/ Has(o, {"kind", "name"}) /\ o.kind \in {"context_ref", "input_ref"}
  \/ Has(o, {"kind", "step_name"}) /\ o.kind = "step_ref"

TermLoads(o) ==
  \/ Has(o, {"kind", "value"}) /\ o.kind = "literal"
  \/ Has(o, {"kind", "name"}) /\ o.kind \in {"context_ref", "input_ref"}
  \/ Has(o, {"kind", "optional", "step_name"}) /\ o.kind = "step_ref"

TermFromObject(o) ==
  CASE o.kind = "literal"  -> IRTerm(o.kind, o.value, NoName, NoName, FALSE)
    [] o.kind = "step_ref" -> IRTerm(o.kind, NoText, NoName, o.step_name, o.optional)
    [] OTHER               -> IRTerm(o.kind, NoText, o.name, NoName, FALSE)

ExpressionLoads(o) ==
  /\ Has(o, {"terms"}) /\ o.terms # <<>>
  /\ \A i \in DOMAIN o.terms : TermLoads(o.terms[i].term)

ExpressionFromObject(o) == EachTerm(TermFromObject, o.terms)

ExpectationLoads(o) ==
  \/ Has(o, {"kind", "values"}) /\ o.kind = "one_of" /\ o.values # <<>>
  \/ Has(o, {"kind", "pattern"}) /\ o.kind = "matches"
  \/ Has(o, {"kind", "limit"}) /\ o.kind = "max_chars" /\ o.limit >= 1
  \/ Has(o, {"kind"}) /\ o.kind = "nonempty"

ExpectationFromObject(o) ==
  CASE o.kind = "one_of"    -> ExpectRule(o.kind, o.values, NoPattern, NoLimit)
    [] o.kind = "matches"   -> ExpectRule(o.kind, <<>>, o.pattern, NoLimit)
    [] o.kind = "max_chars" -> ExpectRule(o.kind, <<>>, NoPattern, o.limit)
    [] o.kind = "nonempty"  -> ExpectRule(o.kind, <<>>, NoPattern, NoLimit)

StepLoads(o) ==
  LET common == {"kind", "model", "name", "prompt"} IN
  /\ common \subseteq DOMAIN o /\ ExpressionLoads(o.prompt)
  /\ \/ /\ Has(o, common \cup {"expect", "next_target"}) /\ o.kind = "llm"
        /\ \A i \in DOMAIN o.expect : ExpectationLoads(o.expect[i])
     \/ /\ Has(o, common \cup {"max_iters", "next_target", "tools"}) /\ o.kind = "agent"
        /\ o.max_iters >= 1
     \/ /\ Has(o, common \cup {"arms", "else_target"}) /\ o.kind = "route"
        /\ o.arms # <<>>
        /\ \A i \in DOMAIN o.arms : Has(o.arms[i], {"label", "target"})

StepFromObject(o) ==
  LET prompt == ExpressionFromObject(o.prompt) IN
  IF o.kind = "llm"
  THEN [o EXCEPT !.prompt = prompt, !.expect = Each(ExpectationFromObject, @)]
  ELSE [o EXCEPT !.prompt = prompt]

WorkflowLoads(o) ==
  /\ Has(o, {"context", "emit", "ir_version", "language_version", "name", "steps"})
  /\ o.ir_version = IR_VERSION /\ o.language_version = LANGUAGE_VERSION
  /\ \A i \in DOMAIN o.context : Has(o.context[i], {"name", "value"})
  /\ \A i \in DOMAIN o.steps : StepLoads(o.steps[i])
  /\ Has(o.emit, {"expression", "kind", "model"})
  /\ o.emit.kind \in {"text", "llm"} /\ ExpressionLoads(o.emit.expression)

WorkflowFromObject(o) ==
  [name |-> o.name, context |-> o.context, steps |-> Each(StepFromObject, o.steps),
   emit |-> [kind |-> o.emit.kind, expression |-> ExpressionFromObject(o.emit.expression),
             model |-> o.emit.model],
   ir_version |-> o.ir_version, language_version |-> o.language_version]

-----------------------------------------------------------------------------
(* ... and _validate_loaded_workflow. *)

Identifier(n)   == n # NoIdentifier
Bounded(string) == Chars(string) <= MaxStringChars

ExpressionValid(expression) ==
  \A i \in DOMAIN expression : LET t == expression[i].term IN
    /\ t.value # NoText => Bounded(t.value)
    /\ Identifier(t.name) /\ Identifier(t.step_name)

\* The labels of a step, as an IR step or an object.
LabelsBounded(s) ==
  /\ s.kind = "route" => \A k \in DOMAIN s.arms : Bounded(LiteralOf(s.arms[k].label))
  /\ s.kind = "llm" => \A k \in DOMAIN s.expect : s.expect[k].kind = "one_of" =>
       \A v \in DOMAIN s.expect[k].values : Bounded(LiteralOf(s.expect[k].values[v]))

StepValid(s) ==
  /\ Identifier(s.name) /\ Bounded(s.model) /\ ExpressionValid(s.prompt) /\ LabelsBounded(s)
  /\ s.kind = "agent" => /\ s.max_iters <= MaxAgentIters /\ Unique(s.tools)
                         /\ \A i \in DOMAIN s.tools : Identifier(s.tools[i])
  /\ s.kind = "route" => Unique(Folded(Labels(s.arms)))
  /\ s.kind = "llm" =>
       /\ \A i, j \in DOMAIN s.expect :
            s.expect[i].kind = s.expect[j].kind /\ s.expect[i].kind # "matches" => i = j
       /\ \A i \in DOMAIN s.expect :
            /\ s.expect[i].kind = "matches" => RegexOK(s.expect[i].pattern)
            /\ s.expect[i].kind = "one_of" => Unique(Folded(s.expect[i].values))

\* Mutant of ValidLoaded: without the parser's two checks.
ShapeValid(w) ==
  /\ BridgeOK(w) /\ Identifier(w.name)
  /\ \A i \in DOMAIN w.context : Identifier(w.context[i].name) /\ Bounded(w.context[i].value)
  /\ Unique(ListedNames(w.context)) /\ Unique(ListedNames(w.steps))
  /\ End \notin NamesOf(w.steps)
  /\ w.emit.model # NoText => Bounded(w.emit.model)
  /\ ExpressionValid(w.emit.expression)
  /\ \A i \in DOMAIN w.steps : StepValid(w.steps[i])

ValidLoaded(w) ==
  /\ ShapeValid(w)
  /\ LET p == program_from_ir(w) IN
       ValidTargets(p.steps) /\ ValidReferences(p.context, p.steps, p.emit)

Loads(o) == WorkflowLoads(o) /\ IrBytes(o) <= MaxIrBytes /\ ValidLoaded(WorkflowFromObject(o))

load_ir(o) == WorkflowFromObject(o)
=============================================================================
