--------------------------- MODULE Definition_proofs --------------------------
(***************************************************************************)
(* Proofs about Definition: that source and IR say the same, that whatever *)
(* is accepted is what the runtime relies on, and that a run executes one  *)
(* workflow.                                                               *)
(*                                                                         *)
(* The first part follows ir.py over terms, rules, steps and workflows;    *)
(* the second the parser, production by production (ParserInv); the third  *)
(* shows that the loader's checks are the parser's; the fourth follows the *)
(* row and the attempt (RunInv).                                           *)
(***************************************************************************)
EXTENDS Definition, FiniteSetTheorems, TLAPS

\* A term's object holds all of its IR, and its IR all of the term.
LEMMA TermSurvives ==
  ASSUME NEW t, IsTerm(t)
  PROVE  /\ TermFromObject(TermObject(CompileTerm(t))) = CompileTerm(t)
         /\ TermFromIR(CompileTerm(t)) = t
<1>1. CASE t.node = "StringLiteral"
  <2> DEFINE v == t.value
  <2>1. t = StringLiteral(v)
    BY <1>1 DEF IsTerm, StepsRef
  <2> HIDE DEF v
  <2>2. CompileTerm(t) = IRTerm("literal", v, NoName, NoName, FALSE)
    BY <2>1 DEF CompileTerm, StringLiteral
  <2>3. TermObject(CompileTerm(t)) = [kind |-> "literal", value |-> v]
    BY <2>2 DEF TermObject, IRTerm
  <2>4. TermFromObject([kind |-> "literal", value |-> v]) = CompileTerm(t)
    BY <2>2 DEF TermFromObject
  <2> QED
    BY <2>1, <2>2, <2>3, <2>4 DEF TermFromIR, IRTerm
<1>2. CASE t.node \in {"ContextRef", "InputsRef"}
  <2> DEFINE n == t.name
             k == IF t.node = "ContextRef" THEN "context_ref" ELSE "input_ref"
  <2>1. k \in {"context_ref", "input_ref"}
          /\ t = IF k = "context_ref" THEN ContextRef(n) ELSE InputsRef(n)
    BY <1>2 DEF IsTerm, ContextRef, InputsRef
  <2> HIDE DEF n, k
  <2>2. CompileTerm(t) = IRTerm(k, NoText, n, NoName, FALSE)
    BY <2>1 DEF CompileTerm, ContextRef, InputsRef
  <2>3. TermObject(CompileTerm(t)) = [kind |-> k, name |-> n]
    BY <2>1, <2>2 DEF TermObject, IRTerm
  <2>4. TermFromObject([kind |-> k, name |-> n]) = CompileTerm(t)
    BY <2>1, <2>2 DEF TermFromObject
  <2> QED
    BY <2>1, <2>2, <2>3, <2>4 DEF TermFromIR, IRTerm
<1>3. CASE t.node = "StepsRef"
  <2> DEFINE n == t.step_name
             q == t.optional
  <2>1. t = StepsRef(n, q)
    BY <1>3 DEF IsTerm, StringLiteral
  <2> HIDE DEF n, q
  <2>2. CompileTerm(t) = IRTerm("step_ref", NoText, NoName, n, q)
    BY <2>1 DEF CompileTerm, StepsRef
  <2>3. TermObject(CompileTerm(t)) = [kind |-> "step_ref", step_name |-> n, optional |-> q]
    BY <2>2 DEF TermObject, IRTerm
  <2>4. TermFromObject([kind |-> "step_ref", step_name |-> n, optional |-> q]) = CompileTerm(t)
    BY <2>2 DEF TermFromObject
  <2> QED
    BY <2>1, <2>2, <2>3, <2>4 DEF TermFromIR, IRTerm
<1> QED
  BY <1>1, <1>2, <1>3 DEF IsTerm

\* Run by run, so does an expression.
LEMMA ExpressionSurvives ==
  ASSUME NEW e, IsExpression(e)
  PROVE  /\ ExpressionFromObject(ExpressionObject(CompileExpression(e))) = CompileExpression(e)
         /\ EachTerm(TermFromIR, CompileExpression(e)) = e
<1> DEFINE c == CompileExpression(e)
           o == ExpressionObject(c)
           f == ExpressionFromObject(o)
           b == EachTerm(TermFromIR, c)
<1>1. /\ c = [i \in DOMAIN e |-> [term |-> CompileTerm(e[i].term), times |-> e[i].times]]
      /\ DOMAIN c = DOMAIN e
  BY DEF CompileExpression, EachTerm
<1>2. /\ o.terms = [i \in DOMAIN c |-> [term |-> TermObject(c[i].term), times |-> c[i].times]]
      /\ DOMAIN o.terms = DOMAIN c
  BY DEF ExpressionObject, EachTerm
<1>3. /\ f = [i \in DOMAIN o.terms |->
               [term |-> TermFromObject(o.terms[i].term), times |-> o.terms[i].times]]
      /\ DOMAIN f = DOMAIN o.terms
  BY DEF ExpressionFromObject, EachTerm
<1>4. /\ b = [i \in DOMAIN c |-> [term |-> TermFromIR(c[i].term), times |-> c[i].times]]
      /\ DOMAIN b = DOMAIN c
  BY DEF EachTerm
<1> HIDE DEF b, f, o, c
<1>5. ASSUME NEW i \in DOMAIN e
      PROVE  f[i] = c[i] /\ b[i] = [term |-> e[i].term, times |-> e[i].times]
  <2>1. c[i] = [term |-> CompileTerm(e[i].term), times |-> e[i].times]
    BY <1>1
  <2>2. o.terms[i].term = TermObject(c[i].term) /\ o.terms[i].times = c[i].times
    BY <1>1, <1>2
  <2>3. f[i] = [term |-> TermFromObject(o.terms[i].term), times |-> o.terms[i].times]
    BY <1>1, <1>2, <1>3
  <2>4. b[i] = [term |-> TermFromIR(c[i].term), times |-> c[i].times]
    BY <1>1, <1>4
  <2> QED
    BY <2>1, <2>2, <2>3, <2>4, TermSurvives DEF IsExpression
<1>6. f = c
  BY <1>1, <1>2, <1>3, <1>5
<1>7. b = [i \in DOMAIN e |-> b[i]]
  BY <1>1, <1>4
<1>8. [i \in DOMAIN e |-> b[i]] = [i \in DOMAIN e |-> [term |-> e[i].term, times |-> e[i].times]]
  BY <1>5
<1>9. b = e
  BY <1>7, <1>8 DEF IsExpression
<1> QED
  BY <1>6, <1>9 DEF b, f, o, c

\* A rule has only the payload of its kind, and all of the four conversions keep that.
LEMMA RuleSurvives ==
  ASSUME NEW r, IsRule(r)
  PROVE  /\ CompileExpectation(r) = r
         /\ ExpectationFromObject(ExpectationObject(r)) = r
<1>1. CompileExpectation(r) = r
  BY DEF IsRule, CompileExpectation
<1>2. ASSUME NEW x
      PROVE  \A q \in {ExpectRule("one_of", x, NoPattern, NoLimit),
                       ExpectRule("matches", <<>>, x, NoLimit),
                       ExpectRule("max_chars", <<>>, NoPattern, x),
                       ExpectRule("nonempty", <<>>, NoPattern, NoLimit)} :
               ExpectationFromObject(ExpectationObject(q)) = q
  BY DEF ExpectRule, ExpectationObject, ExpectationFromObject
<1> QED
  BY <1>1, <1>2 DEF IsRule

\* Rule by rule, so does a contract.
LEMMA RulesSurvive ==
  ASSUME NEW rules, IsRules(rules)
  PROVE  /\ Each(CompileExpectation, rules) = rules
         /\ Each(ExpectationFromObject, Each(ExpectationObject, rules)) = rules
<1> DEFINE c == Each(CompileExpectation, rules)
           o == Each(ExpectationObject, rules)
           f == Each(ExpectationFromObject, o)
<1>1. c = [i \in DOMAIN rules |-> CompileExpectation(rules[i])]
  BY DEF Each
<1>2. o = [i \in DOMAIN rules |-> ExpectationObject(rules[i])] /\ DOMAIN o = DOMAIN rules
  BY DEF Each
<1>3. f = [i \in DOMAIN o |-> ExpectationFromObject(o[i])]
  BY DEF Each
<1> HIDE DEF f, o, c
<1>4. f = [i \in DOMAIN rules |-> ExpectationFromObject(ExpectationObject(rules[i]))]
  BY <1>2, <1>3
<1>5. c = [i \in DOMAIN rules |-> rules[i]] /\ f = [i \in DOMAIN rules |-> rules[i]]
  BY <1>1, <1>4, RuleSurvives DEF IsRules
<1>6. c = rules /\ f = rules
  BY <1>5 DEF IsRules
<1> QED
  BY <1>6 DEF f, o, c

\* A step of each kind goes through its object and back, field by field.
LEMMA StepSurvives ==
  ASSUME NEW s, IsStep(s)
  PROVE  /\ StepFromObject(StepObject(CompileStep(s))) = CompileStep(s)
         /\ StepFromIR(CompileStep(s)) = s
<1> DEFINE c == CompileExpression(s.prompt)
           o == ExpressionObject(c)
<1>1. ExpressionFromObject(o) = c /\ EachTerm(TermFromIR, c) = s.prompt
  BY ExpressionSurvives DEF IsStep
<1>2. CASE s.node = "Step"
  <2> DEFINE ro == Each(ExpectationObject, s.expect)
             Rec(prompt, expect) ==
               [kind |-> "llm", name |-> s.name, model |-> s.model, prompt |-> prompt,
                next_target |-> s.next_target, expect |-> expect]
  <2>1. Each(CompileExpectation, s.expect) = s.expect /\ Each(ExpectationFromObject, ro) = s.expect
    BY <1>2, RulesSurvive DEF IsStep, AgentStep, RouteStep
  <2>2. CompileStep(s) = Rec(c, s.expect)
    BY <1>2, <2>1 DEF CompileStep
  <2>3. StepObject(Rec(c, s.expect)) = Rec(o, ro)
    BY DEF StepObject
  <2>4. StepFromObject(Rec(o, ro)) = Rec(c, s.expect)
    BY <1>1, <2>1 DEF StepFromObject
  <2>5. StepFromIR(Rec(c, s.expect)) = Step(s.name, s.model, s.prompt, s.next_target, s.expect)
    BY <1>1, <2>1 DEF StepFromIR
  <2>6. s = Step(s.name, s.model, s.prompt, s.next_target, s.expect)
    BY <1>2 DEF IsStep
  <2> QED
    BY <2>2, <2>3, <2>4, <2>5, <2>6
<1>3. CASE s.node = "AgentStep"
  <2> DEFINE Rec(prompt) ==
               [kind |-> "agent", name |-> s.name, model |-> s.model, prompt |-> prompt,
                tools |-> s.tools, max_iters |-> s.max_iters, next_target |-> s.next_target]
  <2>2. CompileStep(s) = Rec(c)
    BY <1>3 DEF CompileStep
  <2>3. StepObject(Rec(c)) = Rec(o)
    BY DEF StepObject
  <2>4. StepFromObject(Rec(o)) = Rec(c)
    BY <1>1 DEF StepFromObject
  <2>5. StepFromIR(Rec(c))
          = AgentStep(s.name, s.model, s.prompt, s.tools, s.max_iters, s.next_target)
    BY <1>1 DEF StepFromIR
  <2>6. s = AgentStep(s.name, s.model, s.prompt, s.tools, s.max_iters, s.next_target)
    BY <1>3 DEF IsStep
  <2> QED
    BY <2>2, <2>3, <2>4, <2>5, <2>6
<1>4. CASE s.node = "RouteStep"
  <2> DEFINE Rec(prompt) ==
               [kind |-> "route", name |-> s.name, model |-> s.model, prompt |-> prompt,
                arms |-> s.arms, else_target |-> s.else_target]
  <2>2. CompileStep(s) = Rec(c)
    BY <1>4 DEF CompileStep
  <2>3. StepObject(Rec(c)) = Rec(o)
    BY DEF StepObject
  <2>4. StepFromObject(Rec(o)) = Rec(c)
    BY <1>1 DEF StepFromObject
  <2>5. StepFromIR(Rec(c)) = RouteStep(s.name, s.model, s.prompt, s.arms, s.else_target)
    BY <1>1 DEF StepFromIR
  <2>6. s = RouteStep(s.name, s.model, s.prompt, s.arms, s.else_target)
    BY <1>4 DEF IsStep
  <2> QED
    BY <2>2, <2>3, <2>4, <2>5, <2>6
<1> QED
  BY <1>2, <1>3, <1>4 DEF IsStep

\* Loading the canonical object gives the compiled workflow, and the bridge gives back
\* the AST: nothing is lost between ir.py's compile_program, canonical_ir_bytes,
\* load_ir_bytes and program_from_ir.
THEOREM BridgeIsLossless ==
  ASSUME NEW p, IsProgram(p)
  PROVE  /\ load_ir(canonical(p)) = compile_program(p)
         /\ program_from_ir(load_ir(canonical(p))) = p
<1> DEFINE c == Each(CompileStep, p.steps)
           o == Each(StepObject, c)
           f == Each(StepFromObject, o)
           b == Each(StepFromIR, c)
           ec == CompileExpression(p.emit.expression)
           eo == ExpressionObject(ec)
           Emit(e) == [kind |-> p.emit.kind, expression |-> e, model |-> p.emit.model]
           Rec(steps, emit) ==
             [name |-> p.thread_name, context |-> p.context, steps |-> steps, emit |-> emit,
              ir_version |-> IR_VERSION, language_version |-> LANGUAGE_VERSION]
<1>1. c = [i \in DOMAIN p.steps |-> CompileStep(p.steps[i])] /\ DOMAIN c = DOMAIN p.steps
  BY DEF Each
<1>2. o = [i \in DOMAIN c |-> StepObject(c[i])] /\ DOMAIN o = DOMAIN c
  BY DEF Each
<1>3. f = [i \in DOMAIN o |-> StepFromObject(o[i])] /\ DOMAIN f = DOMAIN o
  BY DEF Each
<1>4. b = [i \in DOMAIN c |-> StepFromIR(c[i])] /\ DOMAIN b = DOMAIN c
  BY DEF Each
<1>5. f = c /\ b = p.steps
  <2> HIDE DEF b, f, o, c
  <2>1. ASSUME NEW i \in DOMAIN p.steps
        PROVE  f[i] = c[i] /\ b[i] = p.steps[i]
    BY <1>1, <1>2, <1>3, <1>4, StepSurvives DEF IsProgram
  <2>2. f = c /\ b = [i \in DOMAIN p.steps |-> b[i]]
    BY <1>1, <1>2, <1>3, <1>4, <2>1
  <2>3. [i \in DOMAIN p.steps |-> b[i]] = [i \in DOMAIN p.steps |-> p.steps[i]]
    BY <2>1
  <2> QED
    BY <2>2, <2>3 DEF IsProgram
<1>6. ExpressionFromObject(eo) = ec /\ EachTerm(TermFromIR, ec) = p.emit.expression
  BY ExpressionSurvives DEF IsProgram, IsEmit
<1>7. p.emit = Emit(p.emit.expression)
  BY DEF IsProgram, IsEmit, EmitBlock
<1>8. compile_program(p) = Rec(c, Emit(ec))
  BY <1>7 DEF compile_program
<1>9. workflow_ir_object(Rec(c, Emit(ec))) = Rec(o, Emit(eo))
  <2>1. ASSUME NEW steps, NEW e
        PROVE  workflow_ir_object(Rec(steps, Emit(e)))
                 = Rec([i \in DOMAIN steps |-> StepObject(steps[i])], Emit(ExpressionObject(e)))
    BY DEF workflow_ir_object, Each
  <2> QED
    BY <1>2, <2>1
<1>10. WorkflowFromObject(Rec(o, Emit(eo))) = Rec(f, Emit(ExpressionFromObject(eo)))
  <2>1. ASSUME NEW steps, NEW e
        PROVE  WorkflowFromObject(Rec(steps, Emit(e)))
                 = Rec([i \in DOMAIN steps |-> StepFromObject(steps[i])],
                       Emit(ExpressionFromObject(e)))
    BY DEF WorkflowFromObject, Each
  <2> QED
    BY <1>3, <2>1
<1>11. program_from_ir(Rec(c, Emit(ec)))
         = Program(p.thread_name, p.context, p.steps,
                   EmitBlock(p.emit.kind, p.emit.expression, p.emit.model))
  BY <1>5, <1>6 DEF program_from_ir
<1>12. p = Program(p.thread_name, p.context, p.steps,
                   EmitBlock(p.emit.kind, p.emit.expression, p.emit.model))
  BY DEF IsProgram, IsEmit
<1> HIDE DEF c, o, f, b, ec, eo
<1> QED
  BY <1>5, <1>6, <1>8, <1>9, <1>10, <1>11, <1>12 DEF canonical, load_ir

-----------------------------------------------------------------------------
(* Whatever is accepted is a well-formed program. *)

\* Nothing read yet is well-formed.
LEMMA NoTerms == IsExpression(<<>>) /\ IsRules(<<>>) /\ IsArms(<<>>) /\ \E S : <<>> \in Seq(S)
<1>1. <<>> \in Seq({})
  OBVIOUS
<1> QED
  BY <1>1 DEF IsExpression, IsRules, IsArms

\* The default of max_iters is one of the values that are allowed.
LEMMA DefaultIsNat == DefaultMaxIters \in Nat
BY ParserAssumption, WorkflowAssumption

\* The arms that a body's `on` clauses say, in some order: one for each clause.
LEMMA ArmsSaidAreTheClauses ==
  ASSUME NEW s, IsFiniteSet(Clauses(s, "on"))
  PROVE  /\ ArmsSaid(s) \in Seq({[label |-> c.label, target |-> c.target] : c \in Clauses(s, "on")})
         /\ Len(ArmsSaid(s)) = Cardinality(Clauses(s, "on"))
         /\ {ArmsSaid(s)[k] : k \in DOMAIN ArmsSaid(s)}
              = {[label |-> c.label, target |-> c.target] : c \in Clauses(s, "on")}
<1> DEFINE C    == Clauses(s, "on")
           n    == Cardinality(C)
           on   == SetToSeq(C)
           arm(c) == [label |-> c.label, target |-> c.target]
<1>1. ArmsSaid(s) = [k \in DOMAIN on |-> arm(on[k])]
  BY DEF ArmsSaid, Each
<1>2. n \in Nat /\ ExistsBijection(1..n, C)
  BY FS_CardinalityType
<1> HIDE DEF C, n
<1>3. on \in [1..n -> C] /\ IsInjective(on)
  <2>1. PICK f : f \in [1..n -> C] /\ IsInjective(f)
    BY <1>2 DEF ExistsBijection, Bijection, Injection, IsInjective
  <2> QED
    BY <2>1 DEF SetToSeq, n
<1> HIDE DEF on
<1>4. on \in Surjection(1..n, C)
  <2>1. on \in Injection(1..n, C)
    BY <1>3 DEF Injection, IsInjective
  <2>2. IsFiniteSet(C) /\ Cardinality(1..n) = n
    BY <1>2, FS_Interval DEF C
  <2> QED
    BY <2>1, <2>2, FS_Injection DEF n
<1>5. DOMAIN on = 1..n /\ {on[k] : k \in 1..n} = C
  BY <1>3, <1>4 DEF Surjection
<1> DEFINE arms == ArmsSaid(s)
<1>6. arms = [k \in 1..n |-> arm(on[k])]
  BY <1>1, <1>5
<1> HIDE DEF arms
<1>7. arms \in Seq({arm(c) : c \in C}) /\ Len(arms) = n
  <2>1. \A k \in 1..n : arm(on[k]) \in {arm(c) : c \in C}
    BY <1>3
  <2> DEFINE T == {arm(c) : c \in C}
  <2>2. arms \in [1..n -> T]
    BY <1>6, <2>1
  <2> HIDE DEF T
  <2>3. arms \in Seq(T) /\ Len(arms) = n
    BY <1>2, <2>2
  <2> QED
    BY <2>3 DEF T
<1>8. {arms[k] : k \in DOMAIN arms} = {arm(c) : c \in C}
  BY <1>5, <1>6
<1> QED
  BY <1>7, <1>8 DEF arms, C, n

\* A step of a text says a well-formed one.
LEMMA StepSaidIsStep ==
  ASSUME text \in Texts, NEW i \in DOMAIN text.steps
  PROVE  IsStep(StepSaid(text.steps[i]))
<1> DEFINE s      == text.steps[i]
           prompt == Said(s, "prompt", "prompt", <<>>)
           then   == Said(s, "then", "target", NoTarget)
           expect == Said(s, "expect", "rules", <<>>)
<1>1. IsExpression(prompt)
  BY TextsAssumption, NoTerms DEF Said, Clauses
<1>2. IsRules(expect)
  BY TextsAssumption, NoTerms DEF Said, Clauses
<1> HIDE DEF prompt, then, expect
<1>3. s.name # NoIdentifier
  BY TextsAssumption
<1>4. CASE s.kind = "llm"
  <2>1. StepSaid(s) = Step(s.name, s.model, prompt, then, expect)
    BY <1>4 DEF StepSaid, prompt, then, expect
  <2> QED
    BY <2>1, <1>1, <1>2, <1>3 DEF IsStep, Step
<1>5. CASE s.kind = "agent"
  <2> DEFINE max_iters == Said(s, "max_iters", "max_iters", DefaultMaxIters)
             tools     == Said(s, "tools", "tools", <<>>)
  <2>1. StepSaid(s) = AgentStep(s.name, s.model, prompt, tools, max_iters, then)
    BY <1>5 DEF StepSaid, prompt, then
  <2>2. max_iters \in Nat /\ \A k \in DOMAIN tools : tools[k] # NoIdentifier
    BY TextsAssumption, DefaultIsNat DEF Said, Clauses
  <2> HIDE DEF max_iters, tools
  <2> QED
    BY <2>1, <2>2, <1>1, <1>3 DEF IsStep, AgentStep
<1>6. CASE s.kind = "route"
  <2> DEFINE arms == ArmsSaid(s)
             else == Said(s, "else", "target", NoTarget)
  <2>1. StepSaid(s) = RouteStep(s.name, s.model, prompt, arms, else)
    BY <1>6 DEF StepSaid, prompt
  <2>2. IsFiniteSet(Clauses(s, "on"))
    BY TextsAssumption, FS_Subset DEF Clauses
  <2>3. \A c \in Clauses(s, "on") : c.target # NoTarget
    BY TextsAssumption DEF Clauses
  <2>4. /\ arms \in Seq({[label |-> c.label, target |-> c.target] : c \in Clauses(s, "on")})
    BY <2>2, ArmsSaidAreTheClauses
  <2> HIDE DEF arms, else
  <2>5. IsArms(arms)
    BY <2>3, <2>4 DEF IsArms
  <2> QED
    BY <2>1, <2>5, <1>1, <1>3 DEF IsStep, RouteStep
<1> QED
  BY <1>4, <1>5, <1>6, TextsAssumption

\* A text that has the form of a workflow says a well-formed one.
LEMMA ProgramSaidIsProgram ==
  ASSUME text \in Texts
  PROVE  IsProgram(ProgramSaid)
<1> DEFINE steps == [i \in DOMAIN text.steps |-> StepSaid(text.steps[i])]
<1>1. IsEmit(text.emit) /\ IsContext(text.context) /\ text.name # NoIdentifier
        /\ Len(text.steps) \in Nat /\ DOMAIN text.steps = 1..Len(text.steps)
  BY TextsAssumption
<1>2. \A i \in DOMAIN steps : IsStep(steps[i])
  BY StepSaidIsStep
<1>3. ProgramSaid = Program(text.name, text.context, steps, text.emit)
  BY DEF ProgramSaid
<1>4. steps = [i \in DOMAIN steps |-> steps[i]] /\ DOMAIN steps = DOMAIN text.steps
  OBVIOUS
<1>5. Len(steps) = Len(text.steps)
  BY <1>1
<1> HIDE DEF steps
<1> QED
  BY <1>1, <1>2, <1>3, <1>4, <1>5 DEF IsProgram, Program

\* ir.py, _object and _validate_loaded_workflow: a key too few or too many, another
\* version, or an emit block against its kind is never loaded.
LEMMA DamagedIsRefused ==
  ASSUME NEW p, IsProgram(p), NEW d \in Damaged(canonical(p))
  PROVE  ~Loads(d)
<1> DEFINE w == canonical(p)
<1>1. /\ w = [name |-> w.name, context |-> w.context, steps |-> w.steps, emit |-> w.emit,
               ir_version |-> IR_VERSION, language_version |-> LANGUAGE_VERSION]
      /\ w.emit = [kind |-> p.emit.kind, expression |-> w.emit.expression, model |-> p.emit.model]
      /\ w.emit.expression = [terms |-> w.emit.expression.terms]
  BY DEF canonical, compile_program, workflow_ir_object, IsProgram, IsEmit, EmitBlock,
         ExpressionObject
<1> HIDE DEF w
<1>2. CASE d = [k \in DOMAIN w \ {"context"} |-> w[k]]
  BY <1>1, <1>2 DEF Loads, WorkflowLoads, Has
<1>3. CASE d = [k \in DOMAIN w \cup {"comment"} |-> IF k = "comment" THEN "" ELSE w[k]]
  BY <1>1, <1>3 DEF Loads, WorkflowLoads, Has
<1>4. CASE d = [w EXCEPT !.ir_version = "threadlang.ir/v2"]
  BY <1>1, <1>4 DEF Loads, WorkflowLoads, Has, IR_VERSION
<1>5. CASE d = [w EXCEPT !.emit.model = IF @ = NoText THEN [plain |-> 1, odd |-> 0] ELSE NoText]
  <2>1. d.emit.kind = p.emit.kind /\ (d.emit.model = NoText <=> p.emit.model # NoText)
    <3>1. [plain |-> 1, odd |-> 0] # NoText
      BY DEF NoText
    <3> QED
      BY <1>1, <1>5, <3>1
  <2>2. ~BridgeOK(WorkflowFromObject(d))
    BY <2>1 DEF BridgeOK, WorkflowFromObject, IsProgram, IsEmit
  <2> QED
    BY <2>2 DEF Loads, ValidLoaded, ShapeValid
<1>6. CASE d = [w EXCEPT !.emit.expression.terms = <<>>]
  BY <1>1, <1>6 DEF Loads, WorkflowLoads, ExpressionLoads
<1> QED
  BY <1>2, <1>3, <1>4, <1>5, <1>6 DEF Damaged, w

-----------------------------------------------------------------------------
(* The parser's locals: what parse_program assembles is well-formed, and has *)
(* passed the checks that the runtime relies on.                             *)

RulesMeetable(rules) ==
  /\ \A j, k \in DOMAIN rules :
       rules[j].kind = rules[k].kind /\ rules[j].kind # "matches" => j = k
  /\ \A k \in DOMAIN rules : /\ rules[k].kind = "matches" => RegexOK(rules[k].pattern)
                             /\ rules[k].kind = "max_chars" => rules[k].limit >= 1
                             /\ rules[k].kind = "one_of" => Unique(Folded(rules[k].values))

StepReady(s) ==
  /\ s.prompt # <<>>
  /\ s.node = "Step" => RulesMeetable(s.expect)
  /\ s.node = "AgentStep" => s.max_iters \in 1..MaxAgentIters /\ Unique(s.tools)
  /\ s.node = "RouteStep" => s.arms # <<>>

Checked(p) ==
  /\ NamesResolve(p) /\ ValidTargets(p.steps) /\ ValidReferences(p.context, p.steps, p.emit)
  /\ \A i \in DOMAIN p.steps : StepReady(p.steps[i])

IsStepSeq(s) == (\E S : s \in Seq(S)) /\ \A i \in DOMAIN s : IsStep(s[i]) /\ StepReady(s[i])

\* What Append does to a sequence over no particular set.
LEMMA AppendGrows ==
  ASSUME NEW s, \E S : s \in Seq(S), NEW e
  PROVE  /\ \E S : Append(s, e) \in Seq(S)
         /\ Len(s) \in Nat /\ DOMAIN s = 1..Len(s)
         /\ Len(Append(s, e)) = Len(s) + 1 /\ DOMAIN Append(s, e) = 1..(Len(s) + 1)
         /\ \A i \in 1..(Len(s) + 1) : Append(s, e)[i] = IF i = Len(s) + 1 THEN e ELSE s[i]
<1>1. PICK S : s \in Seq(S)
  OBVIOUS
<1> DEFINE T == S \cup {e}
<1>2. s \in Seq(T) /\ e \in T
  BY <1>1
<1> HIDE DEF T
<1>3. Append(s, e) \in Seq(T)
  BY <1>2
<1> QED
  BY <1>2, <1>3

\* _parse_steps appends a step that is well-formed and ready.
LEMMA AppendIsStepSeq ==
  ASSUME NEW s, IsStepSeq(s), NEW e, IsStep(e), StepReady(e)
  PROVE  IsStepSeq(Append(s, e)) /\ Len(Append(s, e)) = Len(s) + 1
<1> DEFINE t == Append(s, e)
<1>1. /\ \E S : t \in Seq(S)
      /\ Len(s) \in Nat /\ DOMAIN s = 1..Len(s) /\ Len(t) = Len(s) + 1
      /\ DOMAIN t = 1..(Len(s) + 1)
      /\ \A i \in 1..(Len(s) + 1) : t[i] = IF i = Len(s) + 1 THEN e ELSE s[i]
  BY AppendGrows DEF IsStepSeq
<1> HIDE DEF t
<1>2. \A i \in DOMAIN t : IsStep(t[i]) /\ StepReady(t[i])
  BY <1>1 DEF IsStepSeq
<1>3. IsStepSeq(t)
  BY <1>1, <1>2 DEF IsStepSeq
<1> QED
  BY <1>1, <1>3 DEF t

\* _parse_steps refuses a name it has seen, so the names stay distinct.
LEMMA AppendNewName ==
  ASSUME NEW s, IsStepSeq(s), NEW e, Unique(ListedNames(s)), e.name \notin NamesOf(s)
  PROVE  /\ Unique(ListedNames(Append(s, e)))
         /\ NamesOf(Append(s, e)) = NamesOf(s) \cup {e.name}
<1> DEFINE t == Append(s, e)
<1>1. /\ Len(s) \in Nat /\ DOMAIN s = 1..Len(s) /\ DOMAIN t = 1..(Len(s) + 1)
      /\ \A i \in 1..(Len(s) + 1) : t[i] = IF i = Len(s) + 1 THEN e ELSE s[i]
  BY AppendGrows DEF IsStepSeq
<1> HIDE DEF t
<1>2. NamesOf(t) = NamesOf(s) \cup {e.name}
  BY <1>1 DEF NamesOf
<1>3. Unique(ListedNames(t))
  BY <1>1 DEF NamesOf, Unique, ListedNames
<1> QED
  BY <1>2, <1>3 DEF t

\* A list of arms that is not empty has an arm.
LEMMA ArmsEmptyOrNot ==
  ASSUME NEW arms, IsArms(arms)
  PROVE  arms # <<>> <=> Len(arms) # 0
<1>1. arms = [k \in DOMAIN arms |-> arms[k]]
  BY DEF IsArms
<1>2. Len(arms) \in Nat /\ DOMAIN arms = 1..Len(arms)
  BY DEF IsArms
<1>3. ASSUME Len(arms) = 0 PROVE arms = <<>>
  <2>1. DOMAIN arms = {}
    BY <1>2, <1>3
  <2> QED
    BY <1>1, <2>1
<1> QED
  BY <1>3

\* _parse_route appends an arm.
LEMMA AppendIsArms ==
  ASSUME NEW arms, IsArms(arms), \E S : arms \in Seq(S), NEW arm,
         DOMAIN arm = {"label", "target"}, arm.target # NoTarget
  PROVE  IsArms(Append(arms, arm)) /\ \E S : Append(arms, arm) \in Seq(S)
<1> DEFINE s == Append(arms, arm)
<1>1. \E S : s \in Seq(S)
  BY AppendGrows
<1>2. \A k \in DOMAIN s : DOMAIN s[k] = {"label", "target"} /\ s[k].target # NoTarget
  BY AppendGrows DEF IsArms
<1>3. s = [k \in DOMAIN s |-> s[k]]
  <2> HIDE DEF s
  <2> QED
    BY <1>1
<1> QED
  BY <1>1, <1>2, <1>3 DEF IsArms

\* A sequence of steps is a function on 1..Len.
LEMMA StepSeqIsFunction ==
  ASSUME NEW s, IsStepSeq(s)
  PROVE  s = [i \in DOMAIN s |-> s[i]] /\ Len(s) \in Nat /\ DOMAIN s = 1..Len(s)
BY DEF IsStepSeq

\* The locals of a body hold what its clauses, so far, brought.
BodyOK(b) ==
  /\ DOMAIN b = {"prompt", "expect", "next_target", "tools", "max_iters", "arms", "else_target",
                 "seen"}
  /\ IsExpression(b.prompt) /\ IsRules(b.expect) /\ RulesMeetable(b.expect)
  /\ b.max_iters \in 1..MaxAgentIters
  /\ Unique(b.tools) /\ \A k \in DOMAIN b.tools : b.tools[k] # NoIdentifier
  /\ IsArms(b.arms) /\ \E S : b.arms \in Seq(S)

\* The locals of a step body, before its first clause.
LEMMA NoBodyOK == BodyOK(NoBody)
BY NoTerms, ParserAssumption DEF BodyOK, NoBody, RulesMeetable, Unique

\* Each phase is one production, and knows what the productions before it checked.
ParserInv ==
  /\ text \in Texts /\ BodyOK(body)
  /\ IsStepSeq(parsed) /\ Len(parsed) <= Len(text.steps)
  /\ Unique(ListedNames(parsed)) /\ End \notin NamesOf(parsed)
  /\ phase \in {"source", "context", "steps", "body", "emit", "accepted", "refused"}
  /\ phase = "body" => /\ Len(parsed) < Len(text.steps) /\ unread \subseteq Header.clauses
                       /\ Header.name # End /\ Header.name \notin NamesOf(parsed)
  /\ phase \notin {"body", "refused"} => unread = {}
  /\ phase \in {"steps", "body", "emit"} => Unique(ListedNames(text.context))
  /\ phase = "emit" => ValidTargets(parsed)
  /\ way = "source" /\ phase = "accepted" => IsProgram(program) /\ Checked(program)

\* The parser starts with nothing read.
LEMMA ParserInvInit == Init => ParserInv
<1> SUFFICES ASSUME Init PROVE ParserInv
  OBVIOUS
<1>1. text \in Texts /\ phase = "source" /\ unread = {} /\ body = NoBody /\ parsed = <<>>
  BY DEF Init, ParserInit
<1>2. IsStepSeq(<<>>) /\ Len(<<>>) = 0 /\ Unique(ListedNames(<<>>)) /\ NamesOf(<<>>) = {}
  BY <<>> \in Seq({}) DEF IsStepSeq, Unique, ListedNames, NamesOf
<1>3. Len(text.steps) \in Nat
  BY <1>1, TextsAssumption
<1> QED
  BY <1>1, <1>2, <1>3, NoBodyOK DEF ParserInv

\* A clause that _parse_llm, _parse_agent or _parse_route takes.
LEMMA ClauseKeepsBodyOK ==
  ASSUME ParserInv, phase = "body", NEW c \in unread, ClauseOK(c)
  PROVE  BodyOK(WithClause(c))
<1>1. c \in Header.clauses /\ Len(parsed) + 1 \in DOMAIN text.steps
  BY StepSeqIsFunction, TextsAssumption DEF ParserInv
<1>2. /\ c.word = "prompt" => IsExpression(c.prompt)
      /\ c.word = "expect" => IsRules(c.rules)
      /\ c.word = "tools" => \A k \in DOMAIN c.tools : c.tools[k] # NoIdentifier
      /\ c.word = "on" => c.target # NoTarget
  BY <1>1, TextsAssumption DEF Header, ParserInv
<1>3. BodyOK(body)
  BY DEF ParserInv
<1> DEFINE b == WithClause(c)
<1>4. c.word \in {"prompt", "expect", "then", "tools", "max_iters", "on", "else"}
  BY DEF ClauseOK
<1>5. /\ DOMAIN b = DOMAIN body
      /\ b.prompt = IF c.word = "prompt" THEN c.prompt ELSE body.prompt
      /\ b.expect = IF c.word = "expect" THEN c.rules ELSE body.expect
      /\ b.max_iters = IF c.word = "max_iters" THEN c.max_iters ELSE body.max_iters
      /\ b.tools = IF c.word = "tools" THEN c.tools ELSE body.tools
      /\ b.arms = IF c.word = "on"
                  THEN Append(body.arms, [label |-> c.label, target |-> c.target])
                  ELSE body.arms
  BY <1>3, <1>4 DEF WithClause, BodyOK
<1>6. c.word = "expect" => RulesMeetable(c.rules)
  BY DEF ClauseOK, ExpectOK, RulesMeetable
<1>7. /\ c.word = "max_iters" => c.max_iters \in 1..MaxAgentIters
      /\ c.word = "tools" => Unique(c.tools)
  BY DEF ClauseOK
<1>8. IsArms(b.arms) /\ \E S : b.arms \in Seq(S)
  BY <1>2, <1>3, <1>5, AppendIsArms DEF BodyOK
<1> HIDE DEF b
<1> QED
  BY <1>2, <1>3, <1>5, <1>6, <1>7, <1>8 DEF BodyOK, b

\* What _parse_llm, _parse_agent or _parse_route returns, whatever it has met.
LEMMA ParsedStepIsStep ==
  ASSUME ParserInv, phase = "body"
  PROVE  /\ IsStep(ParsedStep) /\ ParsedStep.name = Header.name
         /\ ParsedStep.prompt = body.prompt
         /\ ParsedStep.node = "RouteStep" <=> Header.kind = "route"
         /\ Header.kind = "route" => ParsedStep.arms = body.arms
<1>1. Len(parsed) + 1 \in DOMAIN text.steps
  BY StepSeqIsFunction, TextsAssumption DEF ParserInv
<1>2. Header.kind \in {"llm", "agent", "route"} /\ Header.name # NoIdentifier
  BY <1>1, TextsAssumption DEF Header, ParserInv
<1>3. body.max_iters \in Nat /\ BodyOK(body)
  BY WorkflowAssumption DEF BodyOK, ParserInv
<1>4. IsStep(ParsedStep)
  BY <1>2, <1>3 DEF ParsedStep, IsStep, Step, AgentStep, RouteStep, BodyOK
<1> QED
  BY <1>2, <1>4 DEF ParsedStep, Step, AgentStep, RouteStep

\* Every production keeps what the ones before it checked; only Parse and LoadDocument
\* move the parser.
LEMMA ParserInvStep ==
  ASSUME ParserInv, ParserNext, UNCHANGED way
  PROVE  ParserInv'
<1> USE DEF ParserInv
<1>0. IsStepSeq(parsed) /\ Len(parsed) \in Nat /\ Len(text.steps) \in Nat
        /\ DOMAIN text.steps = 1..Len(text.steps)
  BY StepSeqIsFunction, TextsAssumption
<1>1. CASE Refuse
  BY <1>1 DEF Refuse
<1>2. CASE Lex
  BY <1>1, <1>2 DEF Lex
<1>3. CASE ParseContext
  BY <1>1, <1>3 DEF ParseContext
<1>4. CASE OpenStep
  <2>1. CASE Refuse
    BY <1>1, <2>1
  <2>2. CASE /\ phase' = "body" /\ unread' = Header.clauses /\ body' = NoBody
             /\ Header.name # End /\ Header.name \notin NamesOf(parsed)
             /\ UNCHANGED <<text, parsed, program>>
    <3>1. BodyOK(body')
      BY <2>2, NoBodyOK
    <3>2. Header' = Header
      BY <2>2 DEF Header
    <3> QED
      BY <1>0, <1>4, <2>2, <3>1, <3>2 DEF OpenStep
  <2> QED
    BY <1>4, <2>1, <2>2 DEF OpenStep
<1>5. ASSUME NEW c \in unread, ReadClause(c)
      PROVE  ParserInv'
  <2>1. CASE Refuse
    BY <1>1, <2>1
  <2>2. CASE /\ phase = "body" /\ ClauseOK(c) /\ body' = WithClause(c) /\ unread' = unread \ {c}
             /\ UNCHANGED <<text, phase, parsed, program>>
    <3>1. BodyOK(body')
      BY <2>2, ClauseKeepsBodyOK
    <3>2. Header' = Header
      BY <2>2 DEF Header
    <3> QED
      BY <2>2, <3>1, <3>2
  <2> QED
    BY <1>5, <2>1, <2>2 DEF ReadClause
<1>6. CASE CloseStep
  <2>1. CASE Refuse
    BY <1>1, <2>1
  <2>2. CASE /\ phase' = "steps" /\ parsed' = Append(parsed, ParsedStep) /\ body' = NoBody
             /\ BodyComplete /\ UNCHANGED <<text, unread, program>>
    <3>1. Header.kind \in {"llm", "agent", "route"}
      BY <1>0, <1>6, TextsAssumption DEF CloseStep, Header
    <3>3. IsStep(ParsedStep)
      BY <1>6, ParsedStepIsStep DEF CloseStep
    <3>4. StepReady(ParsedStep) /\ ParsedStep.name = Header.name
      BY <2>2, <3>1 DEF ParsedStep, StepReady, Step, AgentStep, RouteStep, BodyOK, BodyComplete
    <3>5. IsStepSeq(parsed') /\ Len(parsed') = Len(parsed) + 1
      BY <2>2, <3>3, <3>4, AppendIsStepSeq
    <3>6. Unique(ListedNames(parsed')) /\ End \notin NamesOf(parsed')
      BY <1>6, <2>2, <3>4, AppendNewName DEF CloseStep
    <3>7. BodyOK(body')
      BY <2>2, NoBodyOK
    <3> QED
      BY <1>0, <1>6, <2>2, <3>5, <3>6, <3>7 DEF CloseStep
  <2> QED
    BY <1>6, <2>1, <2>2 DEF CloseStep
<1>7. CASE CloseSteps
  BY <1>1, <1>7 DEF CloseSteps
<1>8. CASE ParseEmit
  <2>1. CASE Refuse
    BY <1>1, <2>1
  <2>2. CASE /\ phase' = "accepted" /\ ValidReferences(text.context, parsed, text.emit)
             /\ program' = Program(text.name, text.context, parsed, text.emit)
             /\ UNCHANGED <<text, unread, body, parsed>>
    <3>1. IsProgram(program')
      BY <2>2, StepSeqIsFunction, TextsAssumption DEF IsProgram, Program, IsStepSeq
    <3>2. Checked(program')
      BY <1>8, <2>2 DEF Checked, NamesResolve, Program, IsStepSeq, ParseEmit
    <3> QED
      BY <1>8, <2>2, <3>1, <3>2 DEF ParseEmit
  <2> QED
    BY <1>8, <2>1, <2>2 DEF ParseEmit
<1> QED
  BY <1>2, <1>3, <1>4, <1>5, <1>6, <1>7, <1>8 DEF ParserNext

-----------------------------------------------------------------------------
(* What is accepted, either way, is what the runtime relies on.              *)

\* _validate_targets looks at names; with unique names that bounds positions.
LEMMA ForwardEdges ==
  ASSUME NEW p, IsProgram(p), Checked(p), NEW i \in DOMAIN p.steps
  PROVE  /\ \A t \in Targets(p.steps[i]) : t = End \/ t \in NamesOf(p.steps)
         /\ Successors(p, i) # {}
         /\ \A j \in Successors(p, i) : j = 0 \/ j > i
<1> DEFINE s == p.steps[i]
<1>1. Len(p.steps) \in Nat /\ DOMAIN p.steps = 1..Len(p.steps) /\ IsStep(s) /\ StepReady(s)
  BY DEF IsProgram, Checked
<1>2. \A t \in Targets(s) \ {End} : \E j \in (i + 1)..Len(p.steps) : p.steps[j].name = t
  BY DEF Checked, ValidTargets
<1>3. \A j, k \in DOMAIN p.steps : p.steps[j].name = p.steps[k].name => j = k
  BY DEF Checked, NamesResolve, Unique, ListedNames
<1>4. \A t \in Targets(s) : t = End \/ t \in NamesOf(p.steps)
  BY <1>1, <1>2 DEF NamesOf
<1>5. \A j \in DOMAIN p.steps : p.steps[j].name \in Targets(s) => j > i
  <2> SUFFICES ASSUME NEW j \in DOMAIN p.steps, p.steps[j].name \in Targets(s)
               PROVE  j > i
    OBVIOUS
  <2>1. p.steps[j].name # End
    BY DEF Checked, NamesResolve, NamesOf
  <2>2. PICK k \in (i + 1)..Len(p.steps) : p.steps[k].name = p.steps[j].name
    BY <1>2, <2>1
  <2>3. k = j
    BY <1>1, <1>3, <2>2
  <2> QED
    BY <1>1, <2>2, <2>3
<1>6. \A j \in Successors(p, i) : j = 0 \/ j > i
  BY <1>1, <1>5 DEF Successors
<1>7. s.node = "RouteStep" => Targets(s) # {}
  <2> SUFFICES ASSUME s.node = "RouteStep" PROVE Targets(s) # {}
    OBVIOUS
  <2>1. s.arms # <<>> /\ IsArms(s.arms)
    BY <1>1 DEF StepReady, IsStep, Step, AgentStep
  <2>2. PICK k : k \in DOMAIN s.arms
    <3>1. 1 \in DOMAIN s.arms
      BY <2>1, ArmsEmptyOrNot DEF IsArms
    <3> QED
      BY <3>1
  <2>3. s.arms[k].target \in Targets(s)
    BY <2>1, <2>2 DEF Targets, IsArms
  <2> QED
    BY <2>3
<1>8. Successors(p, i) # {}
  <2>1. CASE Targets(s) = {}
    BY <1>7, <2>1 DEF Successors
  <2>2. CASE Targets(s) # {}
    <3>1. PICK t : t \in Targets(s)
      BY <2>2
    <3>2. t = End \/ \E j \in DOMAIN p.steps : p.steps[j].name = t
      BY <1>4, <3>1 DEF NamesOf
    <3> QED
      BY <3>1, <3>2 DEF Successors
  <2> QED
    BY <2>1, <2>2
<1> QED
  BY <1>4, <1>6, <1>8

\* The two validation passes give the runtime all it trusts.
LEMMA CheckedIsReady ==
  ASSUME NEW p, IsProgram(p), Checked(p)
  PROVE  RuntimeReady(p)
<1>1. RunsForward(p)
  BY ForwardEdges DEF RunsForward
<1>2. RendersKnown(p)
  <2>1. ASSUME NEW i \in DOMAIN p.steps, NEW n \in StepsRefs(p.steps[i].prompt)
        PROVE  \E j \in DOMAIN p.steps : j < i /\ p.steps[j].name = n
    <3>1. PICK j \in 1..(i - 1) : p.steps[j].name = n
      BY DEF Checked, ValidReferences
    <3> QED
      BY <3>1 DEF IsProgram
  <2> QED
    BY <2>1 DEF RendersKnown, Checked, ValidReferences, StepReady
<1>3. Decides(p)
  <2> SUFFICES ASSUME NEW i \in DOMAIN p.steps
               PROVE  LET s == p.steps[i] IN
                 /\ s.node = "RouteStep" => \A a, b \in DOMAIN s.arms :
                                              s.arms[a].label[1] = s.arms[b].label[1] => a = b
                 /\ s.node = "Step" => \A k \in DOMAIN s.expect :
                                         /\ s.expect[k].kind = "matches" => RegexOK(s.expect[k].pattern)
                                         /\ s.expect[k].kind = "max_chars" => s.expect[k].limit >= 1
                 /\ s.node = "AgentStep" => s.max_iters \in 1..MaxAgentIters
    BY DEF Decides
  <2>1. p.steps[i].node = "RouteStep" => Unique(Folded(Labels(p.steps[i].arms)))
    BY DEF Checked, ValidTargets
  <2> QED
    BY <2>1 DEF Checked, StepReady, RulesMeetable, Unique, Folded, Labels
<1> QED
  BY <1>1, <1>2, <1>3 DEF RuntimeReady, Checked

\* The strict loader and _validate_loaded_workflow make the parser's checks.
LEMMA LoadedIsChecked ==
  ASSUME NEW p, IsProgram(p), Loads(canonical(p))
  PROVE  Checked(p)
<1> DEFINE d == canonical(p)
           w == compile_program(p)
<1>1. ValidLoaded(w) /\ program_from_ir(w) = p /\ WorkflowLoads(d)
  BY BridgeIsLossless DEF Loads, load_ir
<1>2. /\ w.steps = [i \in DOMAIN p.steps |-> CompileStep(p.steps[i])]
      /\ w.context = p.context
      /\ d.steps = [i \in DOMAIN p.steps |-> StepObject(CompileStep(p.steps[i]))]
  BY DEF canonical, compile_program, workflow_ir_object, Each
<1>3. ValidTargets(p.steps) /\ ValidReferences(p.context, p.steps, p.emit)
  BY <1>1 DEF ValidLoaded
<1>4. ASSUME NEW i \in DOMAIN p.steps
      PROVE  CompileStep(p.steps[i]).name = p.steps[i].name
  BY DEF CompileStep, IsProgram, IsStep
<1>5. NamesResolve(p)
  <2>1. Unique(ListedNames(w.context)) /\ Unique(ListedNames(w.steps)) /\ End \notin NamesOf(w.steps)
    BY <1>1 DEF ValidLoaded, ShapeValid
  <2>2. ListedNames(w.steps) = ListedNames(p.steps) /\ NamesOf(w.steps) = NamesOf(p.steps)
    BY <1>2, <1>4 DEF ListedNames, NamesOf
  <2> QED
    BY <1>2, <2>1, <2>2 DEF NamesResolve
<1>6. ASSUME NEW i \in DOMAIN p.steps
      PROVE  StepReady(p.steps[i])
  <2> DEFINE s == p.steps[i]
             c == CompileStep(s)
             o == StepObject(c)
  <2>1. IsStep(s) /\ StepValid(c) /\ StepLoads(o)
    BY <1>1, <1>2 DEF IsProgram, ValidLoaded, ShapeValid, WorkflowLoads
  <2>2. s.prompt # <<>>
    <3>1. o.prompt = ExpressionObject(CompileExpression(s.prompt))
      BY <2>1 DEF IsStep, CompileStep, StepObject
    <3>2. ExpressionObject(CompileExpression(<<>>)).terms = <<>>
      BY DEF ExpressionObject, CompileExpression, EachTerm
    <3> QED
      BY <2>1, <3>1, <3>2 DEF StepLoads, ExpressionLoads
  <2>3. ASSUME s.node = "Step" PROVE RulesMeetable(s.expect)
    <3>1. /\ IsRules(s.expect) /\ c.kind = "llm" /\ c.expect = Each(CompileExpectation, s.expect)
          /\ o.kind = "llm" /\ o.expect = Each(ExpectationObject, c.expect)
      BY <2>1, <2>3 DEF IsStep, CompileStep, StepObject, AgentStep, RouteStep
    <3>2. c.expect = s.expect
      BY <3>1, RulesSurvive
    <3>3. o.expect = [k \in DOMAIN s.expect |-> ExpectationObject(s.expect[k])]
      BY <3>1, <3>2 DEF Each
    <3>4. /\ \A j, k \in DOMAIN s.expect :
               s.expect[j].kind = s.expect[k].kind /\ s.expect[j].kind # "matches" => j = k
          /\ \A k \in DOMAIN s.expect :
               /\ s.expect[k].kind = "matches" => RegexOK(s.expect[k].pattern)
               /\ s.expect[k].kind = "one_of" => Unique(Folded(s.expect[k].values))
      BY <2>1, <3>1, <3>2 DEF StepValid
    <3>5. ASSUME NEW k \in DOMAIN s.expect, s.expect[k].kind = "max_chars"
          PROVE  s.expect[k].limit >= 1
      <4>1. ExpectationLoads(ExpectationObject(s.expect[k]))
        BY <2>1, <3>1, <3>3 DEF StepLoads
      <4> QED
        BY <3>5, <4>1 DEF ExpectationLoads, ExpectationObject
    <3> QED
      BY <3>4, <3>5 DEF RulesMeetable
  <2>4. ASSUME s.node = "AgentStep" PROVE s.max_iters \in 1..MaxAgentIters /\ Unique(s.tools)
    <3>1. /\ s.max_iters \in Nat /\ c.kind = "agent" /\ c.max_iters = s.max_iters
          /\ c.tools = s.tools
          /\ o.kind = "agent" /\ o.max_iters = s.max_iters
      BY <2>1, <2>4 DEF IsStep, CompileStep, StepObject, Step, RouteStep
    <3> QED
      BY <2>1, <3>1, WorkflowAssumption DEF StepValid, StepLoads
  <2>5. ASSUME s.node = "RouteStep" PROVE s.arms # <<>>
    <3>1. o.kind = "route" /\ o.arms = s.arms
      BY <2>1, <2>5 DEF IsStep, CompileStep, StepObject, Step, AgentStep
    <3> QED
      BY <2>1, <3>1 DEF StepLoads
  <2> QED
    BY <2>2, <2>3, <2>4, <2>5 DEF StepReady
<1> QED
  BY <1>3, <1>5, <1>6 DEF Checked

\* What compile_program makes of a term has the keys the loader asks for; ...
LEMMA TermIsLoaded ==
  ASSUME NEW t, IsTerm(t)
  PROVE  TermLoads(TermObject(CompileTerm(t)))
<1>1. ASSUME NEW x, NEW y
      PROVE  \A u \in {StringLiteral(x), ContextRef(x), InputsRef(x), StepsRef(x, y)} :
               TermLoads(TermObject(CompileTerm(u)))
  BY DEF TermLoads, Has, TermObject, CompileTerm, IRTerm, StringLiteral, ContextRef, InputsRef,
         StepsRef
<1>2. \E x, y : t \in {StringLiteral(x), ContextRef(x), InputsRef(x), StepsRef(x, y)}
  BY DEF IsTerm, StringLiteral, ContextRef, InputsRef, StepsRef
<1> QED
  BY <1>1, <1>2

\* ... so has an expression, ...
LEMMA ExpressionIsLoaded ==
  ASSUME NEW e, IsExpression(e), e # <<>>
  PROVE  ExpressionLoads(ExpressionObject(CompileExpression(e)))
<1> DEFINE c == CompileExpression(e)
           terms == [i \in DOMAIN c |-> [term |-> TermObject(c[i].term), times |-> c[i].times]]
<1>1. c = [i \in DOMAIN e |-> [term |-> CompileTerm(e[i].term), times |-> e[i].times]]
  BY DEF CompileExpression, EachTerm
<1>2. ExpressionObject(c) = [terms |-> terms]
  BY DEF ExpressionObject, EachTerm
<1>3. DOMAIN e # {}
  BY DEF IsExpression
<1>4. DOMAIN terms = DOMAIN e /\ terms # <<>>
  BY <1>1, <1>3
<1>5. ASSUME NEW i \in DOMAIN e
      PROVE  TermLoads(terms[i].term)
  BY <1>1, TermIsLoaded DEF IsExpression
<1> HIDE DEF terms
<1> QED
  BY <1>2, <1>4, <1>5 DEF ExpressionLoads, Has

\* ... a rule the parser took, ...
LEMMA RuleIsLoaded ==
  ASSUME NEW r, IsRule(r), r.kind = "max_chars" => r.limit >= 1
  PROVE  ExpectationLoads(ExpectationObject(r))
BY DEF IsRule, ExpectRule, ExpectationObject, ExpectationLoads, Has

\* ... and a step.
LEMMA StepIsLoaded ==
  ASSUME NEW s, IsStep(s), StepReady(s)
  PROVE  StepLoads(StepObject(CompileStep(s)))
<1> DEFINE o == ExpressionObject(CompileExpression(s.prompt))
<1>1. ExpressionLoads(o)
  BY ExpressionIsLoaded DEF IsStep, StepReady
<1>2. CASE s.node = "Step"
  <2> DEFINE ro == Each(ExpectationObject, Each(CompileExpectation, s.expect))
  <2>1. IsRules(s.expect) /\ RulesMeetable(s.expect)
    BY <1>2 DEF IsStep, StepReady, AgentStep, RouteStep
  <2>2. ro = [k \in DOMAIN s.expect |-> ExpectationObject(s.expect[k])]
    BY <2>1, RulesSurvive DEF Each
  <2>3. \A k \in DOMAIN ro : ExpectationLoads(ro[k])
    BY <2>1, <2>2, RuleIsLoaded DEF IsRules, RulesMeetable
  <2> HIDE DEF ro, o
  <2>4. StepObject(CompileStep(s))
          = [kind |-> "llm", name |-> s.name, model |-> s.model, prompt |-> o,
             next_target |-> s.next_target, expect |-> ro]
    BY <1>2 DEF CompileStep, StepObject, ro, o
  <2> QED
    BY <1>1, <2>3, <2>4 DEF StepLoads, Has
<1>3. CASE s.node = "AgentStep"
  <2>1. s.max_iters >= 1
    BY <1>3 DEF StepReady
  <2> HIDE DEF o
  <2>2. StepObject(CompileStep(s))
          = [kind |-> "agent", name |-> s.name, model |-> s.model, prompt |-> o,
             tools |-> s.tools, max_iters |-> s.max_iters, next_target |-> s.next_target]
    BY <1>3 DEF CompileStep, StepObject, o
  <2> QED
    BY <1>1, <2>1, <2>2 DEF StepLoads, Has
<1>4. CASE s.node = "RouteStep"
  <2>1. s.arms # <<>> /\ IsArms(s.arms)
    BY <1>4 DEF StepReady, IsStep, Step, AgentStep
  <2> HIDE DEF o
  <2>2. StepObject(CompileStep(s))
          = [kind |-> "route", name |-> s.name, model |-> s.model, prompt |-> o,
             arms |-> s.arms, else_target |-> s.else_target]
    BY <1>4 DEF CompileStep, StepObject, o
  <2> QED
    BY <1>1, <2>1, <2>2 DEF StepLoads, Has, IsArms
<1> QED
  BY <1>2, <1>3, <1>4 DEF IsStep

\* The object of a step has the labels of the step.
LEMMA LabelsSurvive ==
  ASSUME NEW s, IsStep(s), LabelsBounded(StepObject(CompileStep(s)))
  PROVE  LabelsBounded(CompileStep(s))
<1>1. CASE s.node = "Step"
  <2>1. IsRules(s.expect)
    BY <1>1 DEF IsStep, AgentStep, RouteStep
  <2>2. CompileStep(s).kind = "llm" /\ CompileStep(s).expect = s.expect
    BY <1>1, <2>1, RulesSurvive DEF CompileStep
  <2>3. /\ StepObject(CompileStep(s)).kind = "llm"
        /\ StepObject(CompileStep(s)).expect = Each(ExpectationObject, s.expect)
    BY <1>1, <2>1, RulesSurvive DEF CompileStep, StepObject
  <2>4. ASSUME NEW k \in DOMAIN s.expect, s.expect[k].kind = "one_of"
        PROVE  ExpectationObject(s.expect[k]) = [kind |-> "one_of", values |-> s.expect[k].values]
    BY <2>4 DEF ExpectationObject
  <2>5. ASSUME NEW k \in DOMAIN s.expect, s.expect[k].kind = "one_of",
               NEW v \in DOMAIN s.expect[k].values
        PROVE  Bounded(LiteralOf(s.expect[k].values[v]))
    <3> DEFINE o == StepObject(CompileStep(s))
    <3>1. o.expect = Each(ExpectationObject, s.expect) /\ o.kind = "llm" /\ LabelsBounded(o)
      BY <2>3
    <3> HIDE DEF o
    <3>2. DOMAIN o.expect = DOMAIN s.expect /\ o.expect[k] = ExpectationObject(s.expect[k])
      BY <3>1 DEF Each
    <3>3. ExpectationObject(s.expect[k]) = [kind |-> "one_of", values |-> s.expect[k].values]
      BY <2>4, <2>5
    <3>4. o.expect[k].kind = "one_of" /\ o.expect[k].values = s.expect[k].values
      BY <3>2, <3>3
    <3> QED
      BY <2>5, <3>1, <3>2, <3>4 DEF LabelsBounded
  <2> QED
    BY <2>2, <2>5 DEF LabelsBounded
<1>2. CASE s.node = "AgentStep"
  BY <1>2 DEF CompileStep, LabelsBounded
<1>3. CASE s.node = "RouteStep"
  BY <1>3 DEF CompileStep, StepObject, LabelsBounded
<1> QED
  BY <1>1, <1>2, <1>3 DEF IsStep

\* _validate_loaded_workflow passes a step the parser took, within its own limits.
LEMMA StepIsValid ==
  ASSUME NEW s, IsStep(s), StepReady(s),
         Bounded(s.model), ExpressionValid(CompileExpression(s.prompt)),
         LabelsBounded(CompileStep(s)),
         s.node = "RouteStep" => Unique(Folded(Labels(s.arms)))
  PROVE  StepValid(CompileStep(s))
<1> DEFINE c == CompileExpression(s.prompt)
<1>1. Identifier(s.name)
  BY DEF IsStep, Identifier
<1> HIDE DEF c
<1>2. CASE s.node = "Step"
  <2>1. IsRules(s.expect) /\ RulesMeetable(s.expect)
    BY <1>2 DEF IsStep, StepReady, AgentStep, RouteStep
  <2>2. CompileStep(s) = [kind |-> "llm", name |-> s.name, model |-> s.model, prompt |-> c,
                          next_target |-> s.next_target, expect |-> s.expect]
    BY <1>2, <2>1, RulesSurvive DEF CompileStep, c
  <2> QED
    BY <1>1, <2>1, <2>2 DEF StepValid, RulesMeetable, c
<1>3. CASE s.node = "AgentStep"
  <2>1. /\ s.max_iters \in 1..MaxAgentIters /\ Unique(s.tools)
        /\ \A k \in DOMAIN s.tools : Identifier(s.tools[k])
    BY <1>3 DEF IsStep, StepReady, Step, RouteStep, Identifier
  <2>2. CompileStep(s) = [kind |-> "agent", name |-> s.name, model |-> s.model, prompt |-> c,
                          tools |-> s.tools, max_iters |-> s.max_iters,
                          next_target |-> s.next_target]
    BY <1>3 DEF CompileStep, c
  <2> QED
    BY <1>1, <2>1, <2>2 DEF StepValid, c
<1>4. CASE s.node = "RouteStep"
  <2>2. CompileStep(s) = [kind |-> "route", name |-> s.name, model |-> s.model, prompt |-> c,
                          arms |-> s.arms, else_target |-> s.else_target]
    BY <1>4 DEF CompileStep, c
  <2> QED
    BY <1>1, <1>4, <2>2 DEF StepValid, c
<1> QED
  BY <1>2, <1>3, <1>4 DEF IsStep

\* The converse of LoadedIsChecked: what the parser checked, the loader takes, as long as
\* it keeps the loader's limits on sizes.
LEMMA CheckedIsLoaded ==
  ASSUME NEW p, IsProgram(p), Checked(p), WithinIrLimits(canonical(p))
  PROVE  Loads(canonical(p))
<1> DEFINE d == canonical(p)
           w == compile_program(p)
<1>1. WorkflowFromObject(d) = w /\ program_from_ir(w) = p
  BY BridgeIsLossless DEF load_ir
<1>2. p.emit = [kind |-> p.emit.kind, expression |-> p.emit.expression, model |-> p.emit.model]
  BY DEF IsProgram, IsEmit, EmitBlock
<1>3. w = [name |-> p.thread_name, context |-> p.context,
           steps |-> [i \in DOMAIN p.steps |-> CompileStep(p.steps[i])],
           emit |-> [kind |-> p.emit.kind, expression |-> CompileExpression(p.emit.expression),
                     model |-> p.emit.model],
           ir_version |-> IR_VERSION, language_version |-> LANGUAGE_VERSION]
  BY <1>2 DEF compile_program, Each
<1>4. d = [name |-> p.thread_name, context |-> p.context,
           steps |-> [i \in DOMAIN p.steps |-> StepObject(CompileStep(p.steps[i]))],
           emit |-> [kind |-> p.emit.kind,
                     expression |-> ExpressionObject(CompileExpression(p.emit.expression)),
                     model |-> p.emit.model],
           ir_version |-> IR_VERSION, language_version |-> LANGUAGE_VERSION]
  <2>1. DOMAIN w.steps = DOMAIN p.steps
    BY <1>3
  <2>2. d = [name |-> w.name, context |-> w.context,
             steps |-> [i \in DOMAIN w.steps |-> StepObject(w.steps[i])],
             emit |-> [kind |-> w.emit.kind, expression |-> ExpressionObject(w.emit.expression),
                       model |-> w.emit.model],
             ir_version |-> w.ir_version, language_version |-> w.language_version]
    BY DEF canonical, workflow_ir_object, Each
  <2> HIDE DEF d
  <2> QED
    BY <1>3, <2>2
<1> HIDE DEF d, w
<1>5. ExpressionLoads(d.emit.expression)
  BY <1>4, ExpressionIsLoaded DEF IsProgram, IsEmit
<1>6. WorkflowLoads(d)
  <2>1. \A i \in DOMAIN d.steps : StepLoads(d.steps[i])
    BY <1>4, StepIsLoaded DEF Checked, IsProgram
  <2>2. \A i \in DOMAIN d.context : DOMAIN d.context[i] = {"name", "value"}
    BY <1>4 DEF IsProgram, IsContext
  <2> QED
    BY <1>4, <1>5, <2>1, <2>2 DEF WorkflowLoads, Has, IsProgram, IsEmit
<1>7. WithinIrLimits(d)
  BY DEF d
<1>8. ASSUME NEW i \in DOMAIN p.steps
      PROVE  StepValid(CompileStep(p.steps[i]))
  <2> DEFINE s == p.steps[i]
  <2>1. IsStep(s) /\ StepReady(s)
    BY DEF IsProgram, Checked
  <2>2. /\ StepObject(CompileStep(s)).model = s.model
        /\ StepObject(CompileStep(s)).prompt = ExpressionObject(CompileExpression(s.prompt))
    BY <2>1 DEF IsStep, CompileStep, StepObject
  <2>3. /\ Bounded(s.model)
        /\ ExpressionValid(ExpressionFromObject(ExpressionObject(CompileExpression(s.prompt))))
    BY <1>4, <1>7, <2>2 DEF WithinIrLimits
  <2>4. ExpressionValid(CompileExpression(s.prompt))
    BY <2>1, <2>3, ExpressionSurvives DEF IsStep
  <2>5. s.node = "RouteStep" => Unique(Folded(Labels(s.arms)))
    BY DEF Checked, ValidTargets
  <2>6. LabelsBounded(CompileStep(s))
    BY <1>4, <1>7, <2>1, LabelsSurvive DEF WithinIrLimits
  <2> HIDE DEF s
  <2> QED
    BY <2>1, <2>3, <2>4, <2>5, <2>6, StepIsValid DEF s
<1>9. ASSUME NEW i \in DOMAIN p.steps
      PROVE  CompileStep(p.steps[i]).name = p.steps[i].name
  BY DEF CompileStep, IsProgram, IsStep
<1>10. ShapeValid(w)
  <2>1. BridgeOK(w) /\ Identifier(w.name)
    BY <1>3 DEF BridgeOK, IsProgram, IsEmit, Identifier
  <2>2. \A i \in DOMAIN w.context : Identifier(w.context[i].name) /\ Bounded(w.context[i].value)
    BY <1>3, <1>4, <1>7 DEF WithinIrLimits, IsProgram, IsContext, Identifier
  <2>3. ListedNames(w.steps) = ListedNames(p.steps) /\ NamesOf(w.steps) = NamesOf(p.steps)
    BY <1>3, <1>9 DEF ListedNames, NamesOf
  <2>4. /\ Unique(ListedNames(w.context)) /\ Unique(ListedNames(w.steps))
        /\ End \notin NamesOf(w.steps)
    BY <1>3, <2>3 DEF Checked, NamesResolve
  <2>5. w.emit.model # NoText => Bounded(w.emit.model)
    BY <1>3, <1>4, <1>7 DEF WithinIrLimits
  <2>6. ExpressionValid(w.emit.expression)
    BY <1>3, <1>4, <1>7, ExpressionSurvives DEF WithinIrLimits, IsProgram, IsEmit
  <2>7. \A i \in DOMAIN w.steps : StepValid(w.steps[i])
    BY <1>3, <1>8
  <2> QED
    BY <2>1, <2>2, <2>4, <2>5, <2>6, <2>7 DEF ShapeValid
<1>11. ValidLoaded(w)
  BY <1>1, <1>10 DEF ValidLoaded, Checked
<1> QED
  BY <1>1, <1>6, <1>7, <1>11 DEF Loads, WithinIrLimits, d

-----------------------------------------------------------------------------
(* A run executes what was bound to its row.                                 *)

\* An IR document is the text's own, or a damaged one; nothing happens to a run before
\* its workflow is accepted, and what is accepted is a program.
AcceptInv ==
  /\ way \in {"source", "ir"}
  /\ way = "ir" => \E p : /\ IsProgram(p)
                          /\ document[1] \in {canonical(p)} \cup Damaged(canonical(p))
  /\ phase = "accepted" => IsProgram(program) /\ Checked(program)
  /\ phase # "accepted" => row = NoRow
  /\ row = NoRow => attempt = NoAttempt /\ executed = {}

\* The row: once a definition is bound it is the origin's, and so are the hashes; a text
\* is the accepted text, and a row with it never had another workflow.  Only rows with
\* a text, or with a definition, wait to be claimed.  The hash of the inputs is there
\* from the start, except where an older release left it out.
RowInv ==
  /\ DOMAIN row = {"status", "source", "program_sha256", "inputs", "inputs_sha256", "definition"}
  /\ row.definition # Unset =>
       /\ IsProgram(origin) /\ Checked(origin) /\ row.definition = Identified(origin)
       /\ row.program_sha256 # Unset /\ row.inputs_sha256 # Unset
  /\ row.definition = Unset /\ row.program_sha256 # Unset =>
       row.program_sha256 = SourceSha("this") /\ origin = program
  /\ row.source # Unset => row.source = Some("this") /\ origin = program
  /\ row.status \in {"pending", "running"} => row.definition # Unset \/ row.source # Unset
  /\ row.status = "created" => executed = {} /\ row.source = Unset
  /\ row.definition = Unset /\ executed # {} => origin = program
  /\ row # NoRow => row.inputs # Unset
  /\ row # NoRow /\ ~unhashed => row.inputs_sha256 = row.inputs

\* The attempt: its text is what its workflow was parsed from; a claimed run brings the
\* bound workflow; past the checks of run_durable, so does every attempt.
AttemptInv ==
  attempt.stage # "none" =>
    /\ IsProgram(attempt.program) /\ Checked(attempt.program) /\ attempt.inputs # Unset
    /\ attempt.source = Some("this") => attempt.program = program
    /\ attempt.source \in {Unset, Some("this"), Some("other")}
    /\ attempt.claimed => attempt.program = origin
    /\ attempt.stage # "read" /\ row.inputs_sha256 # Unset => row.inputs_sha256 = attempt.inputs
    /\ attempt.stage = "binding" =>
         /\ row.definition = Unset
         /\ executed # {} \/ row.source # Unset => attempt.program = origin
    /\ attempt.stage \in {"ready", "executing"} =>
         row.definition # Unset /\ attempt.program = origin

ExecutedInv ==
  \A a \in executed : a[1] = origin /\ (a[2] = Unset \/ a[2] = row.inputs_sha256)

RunInv == AcceptInv /\ RowInv /\ AttemptInv /\ ExecutedInv

\* Nothing has been submitted yet.
LEMMA RunInvInit == Init => RunInv
<1> SUFFICES ASSUME Init PROVE RunInv
  OBVIOUS
<1>1. phase = "source" /\ row = NoRow /\ attempt = NoAttempt /\ origin = NoProgram /\ executed = {}
  BY DEF Init, ParserInit
<1>2. AcceptInv
  <2>1. CASE way = "source"
    BY <1>1, <2>1 DEF AcceptInv
  <2>2. CASE way = "ir"
    <3>1. IsProgram(ProgramSaid)
      BY ProgramSaidIsProgram DEF Init, ParserInit
    <3>2. document[1] \in {canonical(ProgramSaid)} \cup Damaged(canonical(ProgramSaid))
      BY <2>2 DEF Init, Some
    <3> QED
      BY <1>1, <2>2, <3>1, <3>2 DEF AcceptInv
  <2> QED
    BY <2>1, <2>2 DEF Init
<1>3. RowInv /\ AttemptInv /\ ExecutedInv
  BY <1>1 DEF RowInv, AttemptInv, ExecutedInv, NoRow, NoAttempt
<1> QED
  BY <1>2, <1>3 DEF RunInv

\* Whatever file a command brings has passed one of the two ways in.
LEMMA FilesAreWellFormed ==
  ASSUME phase = "accepted", IsProgram(program), Checked(program), NEW f \in Files
  PROVE  /\ IsProgram(f.program) /\ Checked(f.program) /\ f.source \in {Unset, Some("this"), Some("other")}
         /\ f.source = Some("this") => f.program = program
         /\ f.program = program \/ f.program = OtherWorkflow
<1>1. program_from_ir(load_ir(canonical(program))) = program
  BY BridgeIsLossless
<1>2. \/ f = [program |-> program, source |-> Some("this")]
      \/ f = [program |-> OtherWorkflow, source |-> Some("other")]
      \/ f = [program |-> OtherWorkflow, source |-> Unset]
      \/ f = [program |-> program, source |-> Unset]
  BY <1>1 DEF Files
<1>3. Some("this") # Some("other") /\ Some("this") # Unset
  BY DEF Some, Unset
<1> QED
  BY <1>2, <1>3, DefinitionAssumption, LoadedIsChecked

\* The parser does nothing after its verdict.
LEMMA VerdictIsFinal ==
  ASSUME ParserNext
  PROVE  phase \notin {"accepted", "refused"}
BY DEF ParserNext, Lex, ParseContext, OpenStep, ReadClause, CloseStep, CloseSteps, ParseEmit

\* The hash of a text is no hash of a program, nor of another text.
LEMMA HashesDiffer ==
  ASSUME NEW a, Fingerprint(a) = SourceSha("this"),
         a.source \in {Unset, Some("this"), Some("other")}
  PROVE  a.source = Some("this")
BY DEF Fingerprint, SourceSha, ProgramSha, Some, Unset

\* What run_durable's checks establish.
LEMMA AdmittedIsBound ==
  ASSUME RunInv, attempt.stage = "read", Admits(row, attempt)
  PROVE  /\ row.inputs_sha256 # Unset => row.inputs_sha256 = attempt.inputs
         /\ row.definition # Unset => attempt.program = origin
         /\ executed # {} \/ row.source # Unset => attempt.program = origin
<1> USE DEF RunInv
<1>0. /\ attempt.source = Some("this") => attempt.program = program
      /\ IsProgram(attempt.program)
      /\ attempt.source \in {Unset, Some("this"), Some("other")}
      /\ attempt.claimed => attempt.program = origin
  BY DEF AttemptInv
<1>1. CASE row.definition # Unset
  <2>1. row.definition = Identified(origin) /\ row.definition = Identified(attempt.program)
          /\ IsProgram(origin)
    BY <1>1 DEF RowInv, Admits
  <2>2. canonical(origin) = canonical(attempt.program)
    BY <2>1 DEF Identified, Some
  <2>3. attempt.program = origin
    BY <1>0, <2>1, <2>2, BridgeIsLossless
  <2> QED
    BY <2>3 DEF Admits
<1>2. CASE row.definition = Unset
  <2> SUFFICES ASSUME executed # {} \/ row.source # Unset, ~attempt.claimed
               PROVE  attempt.program = origin
    BY <1>0, <1>2 DEF Admits
  <2>1. origin = program
    BY <1>2 DEF RowInv
  <2>2. CASE row.program_sha256 # Unset
    <3>1. Fingerprint(attempt) = SourceSha("this")
      BY <1>2, <2>2 DEF Admits, RowInv
    <3> QED
      BY <1>0, <2>1, <3>1, HashesDiffer
  <2>3. CASE row.program_sha256 = Unset
    <3>1. row.source = Some("this") /\ attempt.source = row.source
      BY <2>3 DEF Admits, IdentityMissing, RowInv
    <3> QED
      BY <1>0, <2>1, <3>1
  <2> QED
    BY <2>2, <2>3
<1> QED
  BY <1>1, <1>2

\* Every action on the row keeps its identity; the attempt between its checks and Bind is
\* the case that needs AdmittedIsBound.
LEMMA RunInvStep ==
  ASSUME ParserInv, RunInv, [Next]_vars
  PROVE  RunInv'
<1> USE DEF RunInv
<1>1. CASE Parse
  <2>1. /\ phase # "accepted" /\ row = NoRow /\ attempt = NoAttempt /\ executed = {}
        /\ UNCHANGED <<way, document, row, attempt, origin, executed, unhashed>>
    BY <1>1, VerdictIsFinal DEF Parse, runVars, AcceptInv
  <2>2. ParserInv'
    BY <1>1, ParserInvStep DEF Parse
  <2>3. AcceptInv'
    BY <1>1, <2>1, <2>2 DEF AcceptInv, ParserInv, Parse
  <2>4. RowInv' /\ AttemptInv' /\ ExecutedInv'
    BY <2>1 DEF RowInv, AttemptInv, ExecutedInv, NoRow, NoAttempt
  <2> QED
    BY <2>3, <2>4
<1>2. CASE LoadDocument
  <2>1. /\ phase # "accepted" /\ row = NoRow /\ attempt = NoAttempt /\ executed = {}
        /\ UNCHANGED <<way, document, row, attempt, origin, executed, unhashed>>
    BY <1>2 DEF LoadDocument, runVars, AcceptInv
  <2>2. PICK p : IsProgram(p) /\ document[1] \in {canonical(p)} \cup Damaged(canonical(p))
    BY <1>2 DEF AcceptInv, LoadDocument
  <2>3. ASSUME Loads(document[1]), program' = program_from_ir(load_ir(document[1]))
        PROVE  IsProgram(program') /\ Checked(program')
    <3>1. document[1] = canonical(p)
      BY <2>2, <2>3, DamagedIsRefused
    <3>2. program' = p
      BY <2>2, <2>3, <3>1, BridgeIsLossless
    <3> QED
      BY <2>2, <2>3, <3>1, <3>2, LoadedIsChecked
  <2>4. phase' = "accepted" => IsProgram(program') /\ Checked(program')
    BY <1>2, <2>3 DEF LoadDocument, Refuse
  <2>5. AcceptInv'
    BY <2>1, <2>4 DEF AcceptInv
  <2>6. RowInv' /\ AttemptInv' /\ ExecutedInv'
    BY <2>1 DEF RowInv, AttemptInv, ExecutedInv, NoRow, NoAttempt
  <2> QED
    BY <2>5, <2>6
<1>3. CASE Post
  <2>1. /\ phase = "accepted" /\ attempt = NoAttempt /\ executed = {} /\ origin' = program
        /\ UNCHANGED <<phase, program, way, document, attempt, executed, unhashed>>
    BY <1>3 DEF Post, Fresh, AcceptInv, parserVars
  <2>2. PICK source, sha, given :
          /\ row' = NewRow("pending", source, sha, given, Some(given), Identified(program))
          /\ source \in {Unset, Some("this")} /\ sha # Unset
    BY <1>3 DEF Post, SourceSha, DefinitionSha, Some, Unset
  <2>3. row' # NoRow
    BY <2>2 DEF NoRow, NewRow
  <2>4. AcceptInv'
    BY <2>1, <2>3 DEF AcceptInv
  <2>5. RowInv'
    <3>1. IsProgram(program) /\ Checked(program) /\ Identified(program) # Unset /\ Some(given) # Unset
      BY <2>1 DEF AcceptInv, Identified, Some, Unset
    <3> QED
      BY <2>1, <2>2, <3>1 DEF RowInv, NewRow
  <2>6. AttemptInv' /\ ExecutedInv'
    BY <2>1 DEF AttemptInv, ExecutedInv, NoAttempt
  <2> QED
    BY <2>4, <2>5, <2>6
<1>4. CASE Inherit
  <2>1. /\ phase = "accepted" /\ attempt = NoAttempt /\ origin' = program
        /\ unhashed' = (row'.inputs_sha256 = Unset)
        /\ UNCHANGED <<phase, program, way, document, attempt>>
    BY <1>4 DEF Inherit, Fresh, AcceptInv, parserVars
  <2>2. PICK given \in Inputs :
          \/ /\ row' \in {NewRow("pending", Some("this"), Unset, given, Unset, Unset),
                          NewRow("pending", Some("this"), SourceSha("this"), given, Some(given),
                                 Unset),
                          NewRow("created", Unset, Unset, given, Unset, Unset)}
             /\ executed' = {}
          \/ /\ row' \in {NewRow("failed", Unset, SourceSha("this"), given, Some(given), Unset),
                          NewRow("failed", Some("this"), SourceSha("this"), given, Some(given),
                                 Unset)}
             /\ executed' = {<<program, Some(given)>>}
          \/ /\ row' \in {NewRow("failed", Some("this"), Unset, given, Unset, Unset),
                          NewRow("failed", Unset, Unset, given, Unset, Unset)}
             /\ executed' = {<<program, Unset>>}
    BY <1>4 DEF Inherit
  <2>3. row' # NoRow
    BY <2>2 DEF NoRow, NewRow
  <2>4. AcceptInv'
    BY <2>1, <2>3 DEF AcceptInv
  <2>5. RowInv'
    <3>1. PICK status, source, sha, hash :
            /\ row' = NewRow(status, source, sha, given, hash, Unset)
            /\ source \in {Unset, Some("this")} /\ sha \in {Unset, SourceSha("this")}
            /\ hash \in {Unset, Some(given)}
            /\ status = "pending" => source # Unset
            /\ status = "created" => executed' = {} /\ source = Unset
            /\ status \in {"pending", "created", "failed"}
      BY <2>2 DEF SourceSha, Some, Unset
    <3>2. row'.inputs = Some(given) /\ Some(given) # Unset /\ row'.inputs_sha256 = hash
      BY <3>1 DEF NewRow, Some, Unset
    <3>3. row'.definition = Unset /\ row'.source = source /\ row'.program_sha256 = sha
            /\ row'.status = status
            /\ DOMAIN row' = {"status", "source", "program_sha256", "inputs", "inputs_sha256",
                               "definition"}
      BY <3>1 DEF NewRow
    <3> QED
      BY <2>1, <3>1, <3>2, <3>3 DEF RowInv
  <2>6. AttemptInv'
    BY <2>1 DEF AttemptInv, NoAttempt
  <2>7. ExecutedInv'
    BY <2>1, <2>2 DEF ExecutedInv, NewRow
  <2> QED
    BY <2>4, <2>5, <2>6, <2>7
<1>5. CASE CliStart
  <2>1. /\ phase = "accepted" /\ executed = {} /\ IsProgram(program) /\ Checked(program)
        /\ UNCHANGED <<phase, program, way, document, origin, executed, unhashed>>
    BY <1>5 DEF CliStart, Fresh, AcceptInv, parserVars
  <2>2. PICK given \in Inputs, f \in Files :
          /\ row' = NewRow("created", Unset, Unset, given, Some(given), Unset)
          /\ Attempting("read", FALSE, f.program, f.source, Some(given))
    BY <1>5 DEF CliStart
  <2>3. row' # NoRow
    BY <2>2 DEF NoRow, NewRow
  <2>4. AcceptInv'
    BY <2>1, <2>3 DEF AcceptInv
  <2>5. RowInv'
    BY <2>1, <2>2 DEF RowInv, NewRow, Some, Unset
  <2>6. AttemptInv'
    BY <2>1, <2>2, FilesAreWellFormed DEF AttemptInv, NewRow, Attempting, Some, Unset
  <2>7. ExecutedInv'
    BY <2>1 DEF ExecutedInv
  <2> QED
    BY <2>4, <2>5, <2>6, <2>7
<1>6. CASE CliResume
  <2>1. /\ phase = "accepted" /\ row # NoRow /\ IsProgram(program) /\ Checked(program)
        /\ UNCHANGED <<phase, program, way, document, row, origin, executed, unhashed>>
    BY <1>6 DEF CliResume, AcceptInv, parserVars
  <2>2. PICK f \in Files, flag \in {Unset} \cup {Some(i) : i \in Inputs} :
          Attempting("read", FALSE, f.program, f.source, IF flag = Unset THEN row.inputs ELSE flag)
    BY <1>6 DEF CliResume
  <2>3. AttemptInv'
    BY <2>1, <2>2, FilesAreWellFormed DEF AttemptInv, Attempting, RowInv
  <2>4. AcceptInv' /\ RowInv' /\ ExecutedInv'
    BY <2>1 DEF AcceptInv, RowInv, ExecutedInv
  <2> QED
    BY <2>3, <2>4
<1>7. CASE WorkerClaims
  <2>1. /\ phase = "accepted" /\ row # NoRow /\ IsProgram(program) /\ Checked(program) /\ attempt = NoAttempt
        /\ row.status = "pending"
        /\ UNCHANGED <<phase, program, way, document, origin, executed, unhashed>>
    BY <1>7 DEF WorkerClaims, AcceptInv, parserVars, NoRow
  <2>2. PICK status : /\ row' = [row EXCEPT !.status = status]
                      /\ status \in {"running", "failed"}
    BY <1>7 DEF WorkerClaims
  <2>3. row.definition # Unset => IsProgram(origin) /\ Checked(origin) /\ row.definition[1] = canonical(origin)
    BY DEF RowInv, Identified, Some
  <2>4. \/ attempt' = attempt
        \/ Attempting("read", TRUE, origin, row.source, row.inputs) /\ IsProgram(origin) /\ Checked(origin)
    <3>1. CASE row.definition = Unset
      <4>1. row.source # Unset /\ origin = program
        BY <2>1, <3>1 DEF RowInv
      <4> QED
        BY <1>7, <2>1, <3>1, <4>1 DEF WorkerClaims
    <3>2. CASE row.definition # Unset
      BY <1>7, <2>3, <3>2, BridgeIsLossless DEF WorkerClaims
    <3> QED
      BY <3>1, <3>2
  <2>5. AcceptInv'
    BY <2>1, <2>2 DEF AcceptInv, NoRow
  <2>6. RowInv'
    BY <2>1, <2>2 DEF RowInv, NoRow
  <2>7. AttemptInv'
    <3>1. row.inputs # Unset /\ (row.source # Unset => row.source = Some("this") /\ origin = program)
      BY <2>1 DEF RowInv
    <3>2. CASE attempt' = attempt
      BY <2>1, <3>2 DEF AttemptInv, NoAttempt
    <3>3. CASE Attempting("read", TRUE, origin, row.source, row.inputs) /\ IsProgram(origin) /\ Checked(origin)
      <4>1. Some("this") # Unset
        BY DEF Some, Unset
      <4>2. /\ attempt'.stage = "read" /\ attempt'.program = origin
            /\ attempt'.source = row.source /\ attempt'.inputs = row.inputs
        BY <3>3 DEF Attempting
      <4> QED
        BY <2>1, <3>1, <3>3, <4>1, <4>2 DEF AttemptInv
    <3> QED
      BY <2>4, <3>2, <3>3
  <2>8. ExecutedInv'
    BY <2>1, <2>2 DEF ExecutedInv
  <2> QED
    BY <2>5, <2>6, <2>7, <2>8
<1>8. CASE Requeue
  <2>1. /\ row # NoRow /\ attempt = NoAttempt /\ row' = [row EXCEPT !.status = "pending"]
        /\ row.source # Unset \/ row.definition # Unset
        /\ UNCHANGED <<phase, program, way, document, attempt, origin, executed, unhashed>>
    BY <1>8 DEF Requeue, parserVars, NoRow
  <2>2. AcceptInv' /\ RowInv' /\ ExecutedInv'
    BY <2>1 DEF AcceptInv, RowInv, ExecutedInv, NoRow
  <2>3. AttemptInv'
    BY <2>1 DEF AttemptInv, NoAttempt
  <2> QED
    BY <2>2, <2>3
<1>9. CASE Admit
  <2>1. /\ row # NoRow /\ attempt.stage = "read"
        /\ attempt' = [attempt EXCEPT !.stage =
             IF IdentityMissing(row) \/ row.definition = Unset THEN "binding" ELSE "ready"]
        /\ UNCHANGED <<phase, program, way, document, row, origin, executed, unhashed>>
    BY <1>9 DEF Admit, parserVars, AcceptInv, NoAttempt
  <2>2. IdentityMissing(row) => row.definition = Unset
    BY DEF IdentityMissing, RowInv
  <2>3. AttemptInv'
    BY <1>9, <2>1, <2>2, AdmittedIsBound DEF AttemptInv, Admit
  <2>4. AcceptInv' /\ RowInv' /\ ExecutedInv'
    BY <2>1 DEF AcceptInv, RowInv, ExecutedInv
  <2> QED
    BY <2>3, <2>4
<1>10. CASE TurnAway
  <2>1. /\ row # NoRow /\ attempt' = NoAttempt
        /\ row' = [row EXCEPT !.status = IF attempt.claimed THEN "failed" ELSE @]
        /\ UNCHANGED <<phase, program, way, document, origin, executed, unhashed>>
    BY <1>10 DEF TurnAway, parserVars, AcceptInv, NoAttempt
  <2>2. AcceptInv' /\ RowInv' /\ ExecutedInv'
    BY <2>1 DEF AcceptInv, RowInv, ExecutedInv, NoRow
  <2>3. AttemptInv'
    BY <2>1 DEF AttemptInv, NoAttempt
  <2> QED
    BY <2>2, <2>3
<1>11. CASE Bind
  <2>1. /\ row # NoRow /\ attempt.stage = "binding" /\ row.definition = Unset
        /\ row' = [row EXCEPT !.program_sha256 = Coalesce(@, Fingerprint(attempt)),
                              !.inputs_sha256 = Coalesce(@, attempt.inputs),
                              !.definition = Coalesce(@, Identified(attempt.program))]
        /\ origin' = attempt.program
        /\ attempt' = [attempt EXCEPT !.stage = "ready"]
        /\ UNCHANGED <<phase, program, way, document, executed, unhashed>>
    BY <1>11 DEF Bind, parserVars, AcceptInv, AttemptInv, NoAttempt
  <2>2. Fingerprint(attempt) # Unset /\ Identified(attempt.program) # Unset
    BY DEF Fingerprint, SourceSha, ProgramSha, Identified, Some, Unset
  <2>3. /\ row'.definition = Identified(attempt.program)
        /\ row'.program_sha256 # Unset
        /\ row'.inputs_sha256 = attempt.inputs /\ attempt.inputs # Unset
        /\ row.inputs_sha256 # Unset => row'.inputs_sha256 = row.inputs_sha256
        /\ row'.status = row.status /\ row'.source = row.source /\ row'.inputs = row.inputs
        /\ row' # NoRow
    BY <2>1, <2>2 DEF Coalesce, AttemptInv, RowInv, NoRow
  <2>4. IsProgram(attempt.program) /\ Checked(attempt.program)
          /\ (executed # {} \/ row.source # Unset => attempt.program = origin)
    BY <2>1 DEF AttemptInv
  <2>5. AcceptInv'
    BY <2>1, <2>3 DEF AcceptInv
  <2>6. RowInv'
    BY <2>1, <2>2, <2>3, <2>4 DEF RowInv
  <2>7. AttemptInv'
    BY <2>1, <2>2, <2>3, <2>4 DEF AttemptInv
  <2>8. ExecutedInv'
    BY <2>1, <2>3, <2>4 DEF ExecutedInv, Unset
  <2> QED
    BY <2>5, <2>6, <2>7, <2>8
<1>12. CASE Execute
  <2>1. /\ row # NoRow /\ attempt.stage = "ready"
        /\ row' = [row EXCEPT !.status = "running"]
        /\ executed' = executed \cup {<<attempt.program, attempt.inputs>>}
        /\ attempt' = [attempt EXCEPT !.stage = "executing"]
        /\ UNCHANGED <<phase, program, way, document, origin, unhashed>>
    BY <1>12 DEF Execute, parserVars, AcceptInv, NoAttempt
  <2>2. row.definition # Unset /\ attempt.program = origin /\ row.inputs_sha256 = attempt.inputs
    BY <2>1 DEF AttemptInv, RowInv
  <2>3. AcceptInv' /\ RowInv'
    BY <2>1, <2>2 DEF AcceptInv, RowInv, NoRow
  <2>4. AttemptInv' /\ ExecutedInv'
    BY <2>1, <2>2 DEF AttemptInv, ExecutedInv
  <2> QED
    BY <2>3, <2>4
<1>13. CASE Ends
  <2>1. PICK outcome \in {"completed", "failed"} :
          /\ row # NoRow /\ attempt' = NoAttempt /\ row' = [row EXCEPT !.status = outcome]
          /\ UNCHANGED <<phase, program, way, document, origin, executed, unhashed>>
    BY <1>13 DEF Ends, parserVars, AcceptInv, NoAttempt
  <2>2. AcceptInv' /\ RowInv' /\ ExecutedInv'
    BY <2>1 DEF AcceptInv, RowInv, ExecutedInv, NoRow
  <2>3. AttemptInv'
    BY <2>1 DEF AttemptInv, NoAttempt
  <2> QED
    BY <2>2, <2>3
<1>14. CASE Crash
  <2>1. /\ row # NoRow /\ attempt' = NoAttempt
        /\ UNCHANGED <<phase, program, way, document, row, origin, executed, unhashed>>
    BY <1>14 DEF Crash, parserVars, AcceptInv
  <2>2. AcceptInv' /\ RowInv' /\ ExecutedInv'
    BY <2>1 DEF AcceptInv, RowInv, ExecutedInv
  <2>3. AttemptInv'
    BY <2>1 DEF AttemptInv, NoAttempt
  <2> QED
    BY <2>2, <2>3
<1>15. CASE UNCHANGED vars
  BY <1>15 DEF vars, parserVars, runVars, AcceptInv, RowInv, AttemptInv, ExecutedInv
<1> QED
  BY <1>1, <1>2, <1>3, <1>4, <1>5, <1>6, <1>7, <1>8, <1>9, <1>10, <1>11, <1>12, <1>13, <1>14,
     <1>15 DEF Next

\* No action on the row moves the parser.
LEMMA ParserInvKept ==
  ASSUME ParserInv, [Next]_vars
  PROVE  ParserInv'
<1>1. CASE Parse
  BY <1>1, ParserInvStep DEF Parse
<1>2. CASE LoadDocument
  BY <1>2 DEF LoadDocument, ParserInv, Refuse, Header
<1>3. CASE UNCHANGED <<parserVars, way>>
  BY <1>3 DEF parserVars, ParserInv, Header
<1>4. Next /\ ~Parse /\ ~LoadDocument => UNCHANGED <<parserVars, way>>
  BY DEF Next, Post, Inherit, CliStart, CliResume, WorkerClaims, Requeue, Admit, TurnAway, Bind,
         Execute, Ends, Crash
<1> QED
  BY <1>1, <1>2, <1>3, <1>4 DEF vars

\* Whatever parser.py or ir.py accepts, the step loop of runtime.py can follow: edges lead
\* forward, references are behind, contracts can be met.
THEOREM AcceptedIsRuntimeReadyCorrect == Spec => []AcceptedIsRuntimeReady
<1>1. RunInv => AcceptedIsRuntimeReady
  BY CheckedIsReady DEF RunInv, AcceptInv, AcceptedIsRuntimeReady
<1> QED
  BY <1>1, ParserInvInit, ParserInvKept, RunInvInit, RunInvStep, PTL DEF Spec

\* An attempt executes the workflow bound to its row, from whichever file it came.
THEOREM ExecutesWhatWasBoundCorrect == Spec => []ExecutesWhatWasBound
<1>1. RunInv => ExecutesWhatWasBound
  BY DEF RunInv, AttemptInv, ExecutesWhatWasBound
<1> QED
  BY <1>1, ParserInvInit, ParserInvKept, RunInvInit, RunInvStep, PTL DEF Spec

\* run_durable: all attempts at a run execute one workflow, on one recorded input.
THEOREM OneDefinitionPerRunCorrect == Spec => []OneDefinitionPerRun
<1>1. RunInv => OneDefinitionPerRun
  BY DEF RunInv, ExecutedInv, OneDefinitionPerRun
<1> QED
  BY <1>1, ParserInvInit, ParserInvKept, RunInvInit, RunInvStep, PTL DEF Spec

\* run_durable admits a failed run again with what it executed, on the inputs in its row
\* (cli.py, _run), unless an older release left no hash of them.
THEOREM OwnerMayResumeCorrect == Spec => []OwnerMayResume
<1>1. ASSUME RunInv, row.status = "failed", row.definition # Unset, Loads(row.definition[1]),
             NEW a \in executed, NEW source \in {Unset, Some("this")}
      PROVE  Admits(row, [claimed |-> FALSE, program |-> a[1], source |-> source,
                          inputs |-> IF unhashed THEN row.inputs_sha256 ELSE row.inputs])
  <2>1. row # NoRow
    BY <1>1 DEF NoRow
  <2>2. /\ row.definition = Identified(origin) /\ a[1] = origin
        /\ row.program_sha256 # Unset /\ row.inputs_sha256 # Unset
    BY <1>1 DEF RunInv, RowInv, ExecutedInv
  <2>3. (IF unhashed THEN row.inputs_sha256 ELSE row.inputs) = row.inputs_sha256
    BY <1>1, <2>1 DEF RunInv, RowInv
  <2> QED
    BY <1>1, <2>2, <2>3 DEF Admits, IdentityMissing
<1>2. RunInv => OwnerMayResume
  BY <1>1 DEF OwnerMayResume
<1> QED
  BY <1>2, ParserInvInit, ParserInvKept, RunInvInit, RunInvStep, PTL DEF Spec

\* store.py, bind_run_identity, and control.py, process_one: a definition that was stored
\* for a run can be loaded for the next attempt, if it is within the loader's limits.
THEOREM StoredDefinitionLoadsIfBoundedCorrect == Spec => []StoredDefinitionLoadsIfBounded
<1>1. RunInv => StoredDefinitionLoadsIfBounded
  BY CheckedIsLoaded DEF RunInv, RowInv, StoredDefinitionLoadsIfBounded, Identified, Some
<1> QED
  BY <1>1, ParserInvInit, ParserInvKept, RunInvInit, RunInvStep, PTL DEF Spec

\* The last parts of TypeOK that the invariants above do not hold.
TypeInv ==
  /\ TypeOK
  /\ row # NoRow => row.inputs[1] \in Inputs
  /\ DOMAIN attempt = {"stage", "claimed", "program", "source", "inputs"}

\* The initial row and attempt have their types.
LEMMA TypeInvInit == Init => TypeInv
<1> SUFFICES ASSUME Init PROVE TypeInv
  OBVIOUS
<1>1. text \in Texts /\ phase = "source" /\ unread = {} /\ parsed = <<>> /\ row = NoRow
        /\ attempt = NoAttempt
  BY DEF Init, ParserInit
<1>2. Len(parsed) <= Len(text.steps)
  BY ParserInvInit DEF ParserInv
<1> QED
  BY <1>1, <1>2 DEF TypeInv, TypeOK, NoRow, NoAttempt

\* Every action keeps the types, by what ParserInv and RunInv know of its guard.
LEMMA TypeInvStep ==
  ASSUME ParserInv, ParserInv', RunInv, TypeInv, [Next]_vars
  PROVE  TypeInv'
<1> DEFINE Parsing == /\ phase \in {"source", "context", "steps", "body", "emit", "accepted", "refused"}
                      /\ unread \subseteq UNION {text.steps[i].clauses : i \in DOMAIN text.steps}
                      /\ Len(parsed) <= Len(text.steps)
           Running == /\ row.status \in {"none", "created", "pending", "running", "completed", "failed"}
                      /\ attempt.stage \in {"none", "read", "binding", "ready", "executing"}
                      /\ attempt.stage # "none" => row # NoRow /\ attempt.inputs[1] \in Inputs
                      /\ attempt.claimed => row.status = "running"
                      /\ row # NoRow => row.inputs[1] \in Inputs
                      /\ DOMAIN attempt = {"stage", "claimed", "program", "source", "inputs"}
<1>0. Parsing /\ Running /\ (Parsing' /\ Running' => TypeInv')
  BY DEF TypeInv, TypeOK
<1>6. DOMAIN row = {"status", "source", "program_sha256", "inputs", "inputs_sha256", "definition"}
  BY DEF RunInv, RowInv
<1>1. CASE Parse
  <2>1. Running'
    BY <1>0, <1>1 DEF Parse, runVars
  <2>2. /\ text' = text
        /\ \/ unread' \subseteq unread
           \/ phase = "steps" /\ Len(parsed) < Len(text.steps) /\ unread' = Header.clauses
    <3>1. CASE OpenStep
      BY <3>1 DEF OpenStep, Refuse
    <3>2. CASE \E c \in unread : ReadClause(c)
      BY <3>2 DEF ReadClause, Refuse
    <3>3. CASE Lex \/ ParseContext \/ CloseStep \/ CloseSteps \/ ParseEmit
      BY <3>3 DEF Lex, ParseContext, CloseStep, CloseSteps, ParseEmit, Refuse
    <3> QED
      BY <1>1, <3>1, <3>2, <3>3 DEF Parse, ParserNext
  <2>3. Len(parsed) < Len(text.steps) => Len(parsed) + 1 \in DOMAIN text.steps
    BY TextsAssumption, StepSeqIsFunction DEF ParserInv
  <2>4. unread' \subseteq UNION {text.steps[i].clauses : i \in DOMAIN text.steps}
    BY <1>0, <2>2, <2>3 DEF Header
  <2> QED
    BY <1>0, <2>1, <2>2, <2>4 DEF ParserInv
<1>2. CASE LoadDocument
  BY <1>0, <1>2 DEF LoadDocument, Refuse, runVars
<1>3. CASE UNCHANGED parserVars /\ ~Parse /\ ~LoadDocument /\ Next
  <2>1. Parsing'
    BY <1>0, <1>3 DEF parserVars
  <2>2. CASE Post
    BY <1>0, <2>1, <2>2 DEF Post, NewRow, Fresh, RunInv, AcceptInv, NoAttempt, Some
  <2>3. CASE Inherit
    BY <1>0, <2>1, <2>3 DEF Inherit, NewRow, Fresh, RunInv, AcceptInv, NoAttempt, Some
  <2>4. CASE CliStart
    BY <1>0, <2>1, <2>4 DEF CliStart, NewRow, NoRow, Attempting, Some
  <2>5. CASE CliResume
    BY <1>0, <2>1, <2>5 DEF CliResume, Attempting, Some
  <2>6. CASE WorkerClaims
    <3>1. row.status = "pending" /\ \E status \in {"running", "failed"} :
                                     row' = [row EXCEPT !.status = status]
      BY <2>6 DEF WorkerClaims
    <3>2. row # NoRow /\ row' # NoRow
      BY <1>6, <3>1 DEF NoRow
    <3> QED
      BY <1>0, <1>6, <2>1, <2>6, <3>2 DEF WorkerClaims, Attempting, NoAttempt
  <2>7. CASE Requeue
    BY <1>0, <1>6, <2>1, <2>7 DEF Requeue, NoAttempt, NoRow
  <2>8. CASE Admit
    BY <1>0, <2>1, <2>8 DEF Admit
  <2>9. CASE TurnAway
    BY <1>0, <1>6, <2>1, <2>9 DEF TurnAway, NoAttempt, NoRow
  <2>10. CASE Bind
    <3>1. row # NoRow /\ row'.status = row.status /\ row'.inputs = row.inputs /\ row' # NoRow
      BY <1>0, <1>6, <2>10 DEF Bind, NoRow, Coalesce, RunInv, AcceptInv, RowInv
    <3> QED
      BY <1>0, <2>1, <2>10, <3>1 DEF Bind
  <2>11. CASE Execute
    BY <1>0, <1>6, <2>1, <2>11 DEF Execute, NoRow
  <2>12. CASE Ends
    BY <1>0, <1>6, <2>1, <2>12 DEF Ends, NoAttempt, NoRow
  <2>13. CASE Crash
    BY <1>0, <2>1, <2>13 DEF Crash, NoAttempt
  <2> QED
    BY <1>3, <2>2, <2>3, <2>4, <2>5, <2>6, <2>7, <2>8, <2>9, <2>10, <2>11, <2>12, <2>13 DEF Next
<1>4. CASE UNCHANGED vars
  BY <1>0, <1>4 DEF vars, parserVars, runVars
<1>5. Next => Parse \/ LoadDocument \/ UNCHANGED parserVars
  BY DEF Next, Post, Inherit, CliStart, CliResume, WorkerClaims, Requeue, Admit, TurnAway, Bind,
         Execute, Ends, Crash
<1> QED
  BY <1>1, <1>2, <1>3, <1>4, <1>5

\* The parser's locals and the row and attempt stay what the modules declare.
THEOREM TypeCorrect == Spec => []TypeOK
<1>1. TypeInv => TypeOK
  BY DEF TypeInv
<1> QED
  BY <1>1, ParserInvInit, ParserInvKept, RunInvInit, RunInvStep, TypeInvInit, TypeInvStep, PTL
     DEF Spec
=============================================================================
