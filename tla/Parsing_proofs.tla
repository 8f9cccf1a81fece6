----------------------------- MODULE Parsing_proofs ----------------------------
(***************************************************************************)
(* Proofs that the parser reads what the author wrote: an accepted text    *)
(* says the program it became, and the parser refuses a text that says a   *)
(* workflow only where the loader would refuse the workflow.               *)
(*                                                                         *)
(* The author orders the clauses of a body, so the invariant (Holds) is    *)
(* about the set of the clauses that have been met so far; the second      *)
(* direction is about the ones that have not.                              *)
(***************************************************************************)
EXTENDS Definition_proofs

Arm(c) == [label |-> c.label, target |-> c.target]

\* The locals b of a body of that kind hold what the clauses C bring, none but `on` twice.
Holds(b, kind, C) ==
  /\ \A c \in C : c.word \in Words(kind) /\ (c.word = "expect" => c.rules # <<>>)
  /\ \A c, d \in C : c.word = d.word /\ c.word # "on" => c = d
  /\ \A c \in C : /\ c.word = "prompt" => b.prompt = c.prompt
                  /\ c.word = "expect" => b.expect = c.rules
                  /\ c.word = "then" => b.next_target = c.target
                  /\ c.word = "tools" => b.tools = c.tools
                  /\ c.word = "max_iters" => b.max_iters = c.max_iters
                  /\ c.word = "else" => b.else_target = c.target
  /\ LET Met == {c.word : c \in C} IN
       /\ "prompt" \notin Met => b.prompt = <<>>
       /\ "expect" \notin Met => b.expect = <<>>
       /\ "then" \notin Met => b.next_target = NoTarget
       /\ "tools" \notin Met => b.tools = <<>>
       /\ "max_iters" \notin Met => b.max_iters = DefaultMaxIters
       /\ "else" \notin Met => b.else_target = NoTarget
       /\ b.seen = Met \cap {"tools", "max_iters"}
  /\ Len(b.arms) = Cardinality({c \in C : c.word = "on"})
  /\ {b.arms[k] : k \in DOMAIN b.arms} = {Arm(c) : c \in {d \in C : d.word = "on"}}

\* The steps read are the ones said, the locals hold the clauses met, and a text that
\* says a workflow which passes the checks is not refused.
SaidInv ==
  /\ \A i \in DOMAIN parsed : /\ StepExpressible(text.steps[i])
                              /\ SameStep(parsed[i], StepSaid(text.steps[i]))
  /\ phase = "body" => Holds(body, Header.kind, Header.clauses \ unread)
  /\ phase = "emit" => Len(parsed) = Len(text.steps)
  /\ phase = "accepted" /\ way = "source" => Expressible /\ SameUpToArms(program, ProgramSaid)
  /\ phase = "refused" /\ way = "source" =>
       ~(Lexes(text) /\ Expressible /\ Checked(ProgramSaid))

-----------------------------------------------------------------------------
(* A body, clause by clause.                                                 *)

\* The text of the step whose header has been read.
LEMMA HeaderIsAStep ==
  ASSUME ParserInv, phase = "body"
  PROVE  /\ Len(parsed) + 1 \in DOMAIN text.steps /\ Header = text.steps[Len(parsed) + 1]
         /\ Header.kind \in {"llm", "agent", "route"} /\ IsFiniteSet(Header.clauses)
         /\ \A c \in Header.clauses :
              /\ c.word = "prompt" => c.prompt # <<>>
              /\ c.word \in {"then", "on", "else"} => c.target # NoTarget
<1>1. Len(parsed) \in Nat /\ Len(parsed) < Len(text.steps) /\ text \in Texts
  BY StepSeqIsFunction DEF ParserInv
<1>2. Len(parsed) + 1 \in DOMAIN text.steps
  BY <1>1, TextsAssumption
<1> QED
  BY <1>1, <1>2, TextsAssumption DEF Header

\* The locals before the loop hold no clause.
LEMMA NoBodyHoldsNothing ==
  ASSUME NEW kind
  PROVE  Holds(NoBody, kind, {})
<1>1. {c \in {} : c.word = "on"} = {} /\ Cardinality({}) = 0 /\ {c.word : c \in {}} = {}
  BY FS_EmptySet
<1>2. Len(<<>>) = 0 /\ DOMAIN <<>> = {}
  OBVIOUS
<1> QED
  BY <1>1, <1>2 DEF Holds, NoBody

\* A clause that the loop takes becomes one of those the locals hold.
LEMMA ClauseIsHeld ==
  ASSUME ParserInv, phase = "body", NEW c \in unread, ClauseOK(c),
         Holds(body, Header.kind, Header.clauses \ unread)
  PROVE  Holds(WithClause(c), Header.kind, Header.clauses \ (unread \ {c}))
<1> DEFINE C == Header.clauses \ unread
           D == C \cup {c}
           kind == Header.kind
           b == WithClause(c)
           w == c.word
<1>1. /\ D = Header.clauses \ (unread \ {c}) /\ c \notin C /\ IsFiniteSet(C)
      /\ kind \in {"llm", "agent", "route"}
      /\ \A d \in D : /\ d.word = "prompt" => d.prompt # <<>>
                      /\ d.word \in {"then", "on", "else"} => d.target # NoTarget
  BY HeaderIsAStep, FS_Subset DEF ParserInv
<1>2. w \in {"prompt", "expect", "then", "tools", "max_iters", "on", "else"}
  BY DEF ClauseOK
<1>3. /\ b.prompt = IF w = "prompt" THEN c.prompt ELSE body.prompt
      /\ b.expect = IF w = "expect" THEN c.rules ELSE body.expect
      /\ b.next_target = IF w = "then" THEN c.target ELSE body.next_target
      /\ b.tools = IF w = "tools" THEN c.tools ELSE body.tools
      /\ b.max_iters = IF w = "max_iters" THEN c.max_iters ELSE body.max_iters
      /\ b.arms = IF w = "on" THEN Append(body.arms, Arm(c)) ELSE body.arms
      /\ b.else_target = IF w = "else" THEN c.target ELSE body.else_target
      /\ b.seen = body.seen \cup ({w} \cap {"tools", "max_iters"})
  BY <1>2 DEF WithClause, ParserInv, BodyOK, Arm
<1>4. Holds(body, kind, C) /\ (\E S : body.arms \in Seq(S))
  BY DEF ParserInv, BodyOK
<1>5. w \in Words(kind) /\ (w = "expect" => c.rules # <<>>)
  BY <1>1 DEF ClauseOK, Words, OptionalWords, ExpectOK
<1>6. w # "on" => \A d \in C : d.word # w
  BY <1>1, <1>2, <1>4 DEF ClauseOK, Holds
<1> HIDE DEF b, C, kind
<1>7. /\ \A d \in D : d.word \in Words(kind) /\ (d.word = "expect" => d.rules # <<>>)
      /\ \A d, e \in D : d.word = e.word /\ d.word # "on" => d = e
  BY <1>4, <1>5, <1>6 DEF Holds
<1>8. \A d \in D : /\ d.word = "prompt" => b.prompt = d.prompt
                   /\ d.word = "expect" => b.expect = d.rules
                   /\ d.word = "then" => b.next_target = d.target
                   /\ d.word = "tools" => b.tools = d.tools
                   /\ d.word = "max_iters" => b.max_iters = d.max_iters
                   /\ d.word = "else" => b.else_target = d.target
  BY <1>3, <1>4, <1>6 DEF Holds
<1>9. LET Met == {d.word : d \in D} IN
        /\ "prompt" \notin Met => b.prompt = <<>>
        /\ "expect" \notin Met => b.expect = <<>>
        /\ "then" \notin Met => b.next_target = NoTarget
        /\ "tools" \notin Met => b.tools = <<>>
        /\ "max_iters" \notin Met => b.max_iters = DefaultMaxIters
        /\ "else" \notin Met => b.else_target = NoTarget
        /\ b.seen = Met \cap {"tools", "max_iters"}
  <2> DEFINE Before == {d.word : d \in C}
  <2>1. {d.word : d \in D} = Before \cup {w}
    OBVIOUS
  <2>2. /\ "prompt" \notin Before => body.prompt = <<>>
        /\ "expect" \notin Before => body.expect = <<>>
        /\ "then" \notin Before => body.next_target = NoTarget
        /\ "tools" \notin Before => body.tools = <<>>
        /\ "max_iters" \notin Before => body.max_iters = DefaultMaxIters
        /\ "else" \notin Before => body.else_target = NoTarget
        /\ body.seen = Before \cap {"tools", "max_iters"}
    BY <1>4 DEF Holds
  <2> HIDE DEF Before, D
  <2> QED
    BY <1>3, <2>1, <2>2
<1> DEFINE onC == {d \in C : d.word = "on"}
           onD == {d \in D : d.word = "on"}
<1>10. IsFiniteSet(onC) /\ onD = (IF w = "on" THEN onC \cup {c} ELSE onC) /\ c \notin onC
  BY <1>1, FS_Subset
<1>11. /\ Len(body.arms) = Cardinality(onC) /\ Len(body.arms) \in Nat
       /\ {body.arms[k] : k \in DOMAIN body.arms} = {Arm(d) : d \in onC}
  <2>1. Len(body.arms) \in Nat
    BY <1>4
  <2> QED
    BY <1>4, <2>1 DEF Holds
<1>12. Len(b.arms) = Cardinality(onD) /\ {b.arms[k] : k \in DOMAIN b.arms} = {Arm(d) : d \in onD}
  <2> HIDE DEF onC, onD
  <2>1. CASE w # "on"
    BY <1>3, <1>10, <1>11, <2>1
  <2>2. CASE w = "on"
    <3> DEFINE n == Len(body.arms)
    <3>1. /\ Len(b.arms) = n + 1 /\ DOMAIN b.arms = 1..(n + 1) /\ DOMAIN body.arms = 1..n
          /\ \A i \in 1..(n + 1) : b.arms[i] = IF i = n + 1 THEN Arm(c) ELSE body.arms[i]
      BY <1>3, <1>4, <2>2, AppendGrows
    <3>2. Cardinality(onD) = n + 1
      BY <1>10, <1>11, <2>2, FS_AddElement
    <3>3. {b.arms[k] : k \in DOMAIN b.arms} = {body.arms[k] : k \in DOMAIN body.arms} \cup {Arm(c)}
      <4> HIDE DEF n
      <4>1. n \in Nat
        BY <1>11 DEF n
      <4> QED
        BY <3>1, <4>1
    <3>4. {Arm(d) : d \in onD} = {Arm(d) : d \in onC} \cup {Arm(c)}
      BY <1>10, <2>2
    <3> QED
      BY <1>11, <3>1, <3>2, <3>3, <3>4
  <2> QED
    BY <2>1, <2>2
<1>13. Holds(b, kind, D)
  BY <1>7, <1>8, <1>9, <1>12 DEF Holds
<1> HIDE DEF D
<1> QED
  BY <1>1, <1>13 DEF b, kind, C

\* A word that comes once: what the text says with it is what its clause brings.
LEMMA SaidOnce ==
  ASSUME NEW s, NEW c, NEW w, Clauses(s, w) = {c}, NEW field, NEW default
  PROVE  Said(s, w, field, default) = c[field]
BY DEF Said

\* The locals that hold all clauses of a body have the values its text says.
LEMMA HeldIsSaid ==
  ASSUME NEW b, NEW s, Holds(b, s.kind, s.clauses)
  PROVE  /\ b.prompt = Said(s, "prompt", "prompt", <<>>)
         /\ b.expect = Said(s, "expect", "rules", <<>>)
         /\ b.next_target = Said(s, "then", "target", NoTarget)
         /\ b.tools = Said(s, "tools", "tools", <<>>)
         /\ b.max_iters = Said(s, "max_iters", "max_iters", DefaultMaxIters)
         /\ b.else_target = Said(s, "else", "target", NoTarget)
         /\ \A w : w # "on" => Clauses(s, w) = {} \/ \E c \in s.clauses : Clauses(s, w) = {c}
<1>1. ASSUME NEW w, w # "on"
      PROVE  \/ Clauses(s, w) = {} /\ w \notin {c.word : c \in s.clauses}
             \/ \E c \in s.clauses : Clauses(s, w) = {c} /\ c.word = w
  <2>1. \A c, d \in s.clauses : c.word = d.word /\ c.word # "on" => c = d
    BY DEF Holds
  <2>2. CASE Clauses(s, w) = {}
    BY <2>2 DEF Clauses
  <2>3. CASE Clauses(s, w) # {}
    <3>1. PICK c : c \in Clauses(s, w)
      BY <2>3
    <3>2. Clauses(s, w) = {c}
      BY <1>1, <2>1, <3>1 DEF Clauses
    <3> QED
      BY <3>1, <3>2 DEF Clauses
  <2> QED
    BY <2>2, <2>3
<1>2. b.prompt = Said(s, "prompt", "prompt", <<>>)
  <2>1. /\ \A c \in s.clauses : c.word = "prompt" => b.prompt = c.prompt
        /\ "prompt" \notin {c.word : c \in s.clauses} => b.prompt = <<>>
    BY DEF Holds
  <2> QED
    BY <1>1, <2>1, SaidOnce DEF Said
<1>3. b.expect = Said(s, "expect", "rules", <<>>)
  <2>1. /\ \A c \in s.clauses : c.word = "expect" => b.expect = c.rules
        /\ "expect" \notin {c.word : c \in s.clauses} => b.expect = <<>>
    BY DEF Holds
  <2> QED
    BY <1>1, <2>1, SaidOnce DEF Said
<1>4. b.next_target = Said(s, "then", "target", NoTarget)
  <2>1. /\ \A c \in s.clauses : c.word = "then" => b.next_target = c.target
        /\ "then" \notin {c.word : c \in s.clauses} => b.next_target = NoTarget
    BY DEF Holds
  <2> QED
    BY <1>1, <2>1, SaidOnce DEF Said
<1>5. b.tools = Said(s, "tools", "tools", <<>>)
  <2>1. /\ \A c \in s.clauses : c.word = "tools" => b.tools = c.tools
        /\ "tools" \notin {c.word : c \in s.clauses} => b.tools = <<>>
    BY DEF Holds
  <2> QED
    BY <1>1, <2>1, SaidOnce DEF Said
<1>6. b.max_iters = Said(s, "max_iters", "max_iters", DefaultMaxIters)
  <2>1. /\ \A c \in s.clauses : c.word = "max_iters" => b.max_iters = c.max_iters
        /\ "max_iters" \notin {c.word : c \in s.clauses} => b.max_iters = DefaultMaxIters
    BY DEF Holds
  <2> QED
    BY <1>1, <2>1, SaidOnce DEF Said
<1>7. b.else_target = Said(s, "else", "target", NoTarget)
  <2>1. /\ \A c \in s.clauses : c.word = "else" => b.else_target = c.target
        /\ "else" \notin {c.word : c \in s.clauses} => b.else_target = NoTarget
    BY DEF Holds
  <2> QED
    BY <1>1, <2>1, SaidOnce DEF Said
<1> QED
  BY <1>1, <1>2, <1>3, <1>4, <1>5, <1>6, <1>7

\* Routes that differ in the order of their arms only.
LEMMA SameRoute ==
  ASSUME NEW n, NEW model, NEW prompt, NEW else, NEW a, NEW b, Len(a) = Len(b),
         {a[k] : k \in DOMAIN a} = {b[k] : k \in DOMAIN b}
  PROVE  SameStep(RouteStep(n, model, prompt, a, else), RouteStep(n, model, prompt, b, else))
<1> DEFINE s == RouteStep(n, model, prompt, a, else)
           t == RouteStep(n, model, prompt, b, else)
<1>1. /\ s.node = "RouteStep" /\ t.node = "RouteStep" /\ s.arms = a /\ t.arms = b
      /\ [s EXCEPT !.arms = <<>>] = RouteStep(n, model, prompt, <<>>, else)
      /\ [t EXCEPT !.arms = <<>>] = RouteStep(n, model, prompt, <<>>, else)
  BY DEF RouteStep
<1> HIDE DEF s, t
<1>2. /\ Len(s.arms) = Len(t.arms)
      /\ {s.arms[k] : k \in DOMAIN s.arms} = {t.arms[k] : k \in DOMAIN t.arms}
  <2>1. {s.arms[k] : k \in DOMAIN s.arms} = {a[k] : k \in DOMAIN a}
    BY <1>1
  <2>2. {t.arms[k] : k \in DOMAIN t.arms} = {b[k] : k \in DOMAIN b}
    BY <1>1
  <2> QED
    BY <1>1, <2>1, <2>2, Zenon
<1>3. [s EXCEPT !.arms = <<>>] = [t EXCEPT !.arms = <<>>]
  BY <1>1
<1>4. SameStep(s, t)
  BY <1>1, <1>2, <1>3, Zenon DEF SameStep
<1> QED
  BY <1>4 DEF s, t

\* Locals that hold all clauses, with a prompt: the text has the form of a step, and the
\* step that _parse_llm, _parse_agent or _parse_route returns is the one it says.
LEMMA BodyIsSaid ==
  ASSUME ParserInv, phase = "body", Holds(body, Header.kind, Header.clauses)
  PROVE  /\ body.prompt # <<>> => StepExpressible(Header)
         /\ SameStep(ParsedStep, StepSaid(Header))
<1> DEFINE s == Header
           b == body
<1>1. s.kind \in {"llm", "agent", "route"} /\ IsFiniteSet(s.clauses)
  BY HeaderIsAStep
<1>2. Holds(b, s.kind, s.clauses)
  OBVIOUS
<1> HIDE DEF s, b
<1>3. /\ b.prompt = Said(s, "prompt", "prompt", <<>>)
      /\ b.expect = Said(s, "expect", "rules", <<>>)
      /\ b.next_target = Said(s, "then", "target", NoTarget)
      /\ b.tools = Said(s, "tools", "tools", <<>>)
      /\ b.max_iters = Said(s, "max_iters", "max_iters", DefaultMaxIters)
      /\ b.else_target = Said(s, "else", "target", NoTarget)
      /\ \A w : w # "on" => Clauses(s, w) = {} \/ \E c \in s.clauses : Clauses(s, w) = {c}
  BY <1>2, HeldIsSaid
<1>4. ASSUME b.prompt # <<>> PROVE StepExpressible(s)
  <2>1. Clauses(s, "prompt") # {}
    BY <1>3, <1>4 DEF Said
  <2>2. Cardinality(Clauses(s, "prompt")) = 1
    <3>1. PICK c : Clauses(s, "prompt") = {c}
      BY <1>3, <2>1
    <3> QED
      BY <3>1, FS_Singleton
  <2>3. ASSUME NEW w, w # "on" PROVE Cardinality(Clauses(s, w)) <= 1
    <3>1. CASE Clauses(s, w) = {}
      BY <3>1, FS_EmptySet
    <3>2. CASE \E c : Clauses(s, w) = {c}
      <4>1. PICK c : Clauses(s, w) = {c}
        BY <3>2
      <4>2. Cardinality(Clauses(s, w)) = 1
        BY <4>1, FS_Singleton
      <4> QED
        BY <4>2
    <3> QED
      BY <1>3, <2>3, <3>1, <3>2
  <2>4. \A w \in OptionalWords[s.kind] : w # "on"
    BY <1>1 DEF OptionalWords
  <2>5. \A c \in s.clauses : c.word \in Words(s.kind) /\ (c.word = "expect" => c.rules # <<>>)
    BY <1>2 DEF Holds
  <2> QED
    BY <2>2, <2>3, <2>4, <2>5 DEF StepExpressible
<1>5. SameStep(ParsedStep, StepSaid(s))
  <2>1. CASE s.kind = "llm"
    <3>1. ParsedStep = Step(s.name, s.model, b.prompt, b.next_target, b.expect)
      BY <2>1 DEF ParsedStep, s, b
    <3>2. StepSaid(s) = Step(s.name, s.model, b.prompt, b.next_target, b.expect)
      BY <1>3, <2>1 DEF StepSaid
    <3> QED
      BY <3>1, <3>2 DEF SameStep, Step
  <2>2. CASE s.kind = "agent"
    <3>1. ParsedStep = AgentStep(s.name, s.model, b.prompt, b.tools, b.max_iters, b.next_target)
      BY <2>2 DEF ParsedStep, s, b
    <3>2. StepSaid(s) = AgentStep(s.name, s.model, b.prompt, b.tools, b.max_iters, b.next_target)
      BY <1>3, <2>2 DEF StepSaid
    <3> QED
      BY <3>1, <3>2 DEF SameStep, AgentStep
  <2>3. CASE s.kind = "route"
    <3>1. ParsedStep = RouteStep(s.name, s.model, b.prompt, b.arms, b.else_target)
      BY <2>3 DEF ParsedStep, s, b
    <3>2. StepSaid(s) = RouteStep(s.name, s.model, b.prompt, ArmsSaid(s), b.else_target)
      BY <1>3, <2>3 DEF StepSaid
    <3> DEFINE arms == ArmsSaid(s)
               read == b.arms
    <3>3. /\ Len(read) = Len(arms)
          /\ {read[k] : k \in DOMAIN read} = {arms[k] : k \in DOMAIN arms}
      <4>1. /\ Len(b.arms) = Cardinality(Clauses(s, "on"))
            /\ {b.arms[k] : k \in DOMAIN b.arms} = {Arm(c) : c \in Clauses(s, "on")}
        BY <1>2 DEF Holds, Clauses
      <4>2. IsFiniteSet(Clauses(s, "on"))
        BY <1>1, FS_Subset DEF Clauses
      <4> QED
        BY <4>1, <4>2, ArmsSaidAreTheClauses DEF Arm
    <3> HIDE DEF arms, read
    <3>4. SameStep(RouteStep(s.name, s.model, b.prompt, read, b.else_target),
                   RouteStep(s.name, s.model, b.prompt, arms, b.else_target))
      BY <3>3, SameRoute
    <3> QED
      BY <3>1, <3>2, <3>4 DEF arms, read
  <2> QED
    BY <1>1, <2>1, <2>2, <2>3
<1> QED
  BY <1>4, <1>5 DEF s, b

\* At most one clause with a word: any two are the same.
LEMMA AtMostOne ==
  ASSUME NEW s, IsFiniteSet(s.clauses), NEW w, Cardinality(Clauses(s, w)) <= 1,
         NEW c \in Clauses(s, w)
  PROVE  Clauses(s, w) = {c}
<1>1. IsFiniteSet(Clauses(s, w)) /\ Cardinality(Clauses(s, w)) \in Nat
  BY FS_Subset, FS_CardinalityType DEF Clauses
<1>2. Cardinality(Clauses(s, w)) # 0
  BY <1>1, FS_EmptySet
<1>3. Cardinality(Clauses(s, w)) = 1
  BY <1>1, <1>2
<1> QED
  BY <1>1, <1>3, FS_Singleton

\* A clause of a text that says a step which passes the loader's checks: the loop takes it.
LEMMA ClauseIsTaken ==
  ASSUME ParserInv, phase = "body", Holds(body, Header.kind, Header.clauses \ unread),
         NEW c \in unread, StepExpressible(Header), StepReady(StepSaid(Header))
  PROVE  ClauseOK(c)
<1> DEFINE s == Header
           C == s.clauses \ unread
           w == c.word
<1>1. s.kind \in {"llm", "agent", "route"} /\ IsFiniteSet(s.clauses) /\ c \in s.clauses
  BY HeaderIsAStep DEF ParserInv
<1>2. Holds(body, s.kind, C)
  OBVIOUS
<1>3. /\ Cardinality(Clauses(s, "prompt")) = 1
      /\ \A v \in OptionalWords[s.kind] : Cardinality(Clauses(s, v)) <= 1
      /\ w \in Words(s.kind) /\ (w = "expect" => c.rules # <<>>)
  BY <1>1 DEF StepExpressible
<1> HIDE DEF s
<1>4. /\ w \in {"prompt", "expect", "then", "tools", "max_iters", "on", "else"}
      /\ w = "expect" => s.kind = "llm"
      /\ w = "then" => s.kind # "route"
      /\ w \in {"tools", "max_iters"} => s.kind = "agent"
      /\ w \in {"on", "else"} => s.kind = "route"
  BY <1>1, <1>3 DEF Words, OptionalWords
<1>5. ASSUME w # "on"
      PROVE  Clauses(s, w) = {c} /\ w \notin {d.word : d \in C}
  <2>1. Cardinality(Clauses(s, w)) <= 1
    BY <1>1, <1>3, <1>4, <1>5 DEF Words
  <2>2. c \in Clauses(s, w)
    BY <1>1 DEF Clauses
  <2>3. Clauses(s, w) = {c}
    BY <1>1, <2>1, <2>2, AtMostOne
  <2> QED
    BY <2>3 DEF Clauses
<1>6. w # "on" => \A field, default : Said(s, w, field, default) = c[field]
  BY <1>5, SaidOnce
<1>7. LET Met == {d.word : d \in C} IN
        /\ "prompt" \notin Met => body.prompt = <<>>
        /\ "expect" \notin Met => body.expect = <<>>
        /\ "then" \notin Met => body.next_target = NoTarget
        /\ "else" \notin Met => body.else_target = NoTarget
        /\ body.seen = Met \cap {"tools", "max_iters"}
  BY <1>2 DEF Holds
<1> HIDE DEF C
<1>8. /\ w = "prompt" => body.prompt = <<>>
      /\ w = "expect" => body.expect = <<>>
      /\ w = "then" => body.next_target = NoTarget
      /\ w = "else" => body.else_target = NoTarget
      /\ w \in {"tools", "max_iters"} => w \notin body.seen
  BY <1>5, <1>7
<1>9. StepReady(StepSaid(s))
  BY DEF s
<1>10. ASSUME w = "expect" PROVE ExpectOK(c.rules)
  <2>1. /\ StepSaid(s).node = "Step" /\ StepSaid(s).expect = Said(s, "expect", "rules", <<>>)
    BY <1>4, <1>10 DEF StepSaid, Step
  <2>2. StepSaid(s).expect = c.rules
    BY <1>6, <1>10, <2>1
  <2> QED
    BY <1>3, <1>9, <1>10, <2>1, <2>2 DEF StepReady, RulesMeetable, ExpectOK
<1>11. /\ w = "tools" => Unique(c.tools)
       /\ w = "max_iters" => c.max_iters \in 1..MaxAgentIters
  <2> SUFFICES ASSUME w \in {"tools", "max_iters"}
               PROVE  /\ w = "tools" => Unique(c.tools)
                      /\ w = "max_iters" => c.max_iters \in 1..MaxAgentIters
    OBVIOUS
  <2>1. /\ StepSaid(s).node = "AgentStep"
        /\ StepSaid(s).tools = Said(s, "tools", "tools", <<>>)
        /\ StepSaid(s).max_iters = Said(s, "max_iters", "max_iters", DefaultMaxIters)
    BY <1>4 DEF StepSaid, AgentStep
  <2>2. /\ w = "tools" => StepSaid(s).tools = c.tools
        /\ w = "max_iters" => StepSaid(s).max_iters = c.max_iters
    BY <1>6, <2>1
  <2> QED
    BY <1>9, <2>1, <2>2 DEF StepReady
<1> QED
  BY <1>4, <1>8, <1>10, <1>11 DEF ClauseOK, s

-----------------------------------------------------------------------------
(* The order of a route's arms makes no difference to the checks.            *)

\* _validate_targets counts folded labels: as many as there are arms.
LEMMA FoldedByCount ==
  ASSUME NEW arms, IsArms(arms)
  PROVE  Unique(Folded(Labels(arms)))
           <=> Cardinality({arms[k].label[1] : k \in DOMAIN arms}) = Len(arms)
<1> DEFINE n == Len(arms)
           R == {arms[k].label[1] : k \in DOMAIN arms}
           f == [k \in 1..n |-> arms[k].label[1]]
<1>1. n \in Nat /\ DOMAIN arms = 1..n
  BY DEF IsArms
<1>2. Folded(Labels(arms)) = f
  BY <1>1 DEF Folded, Labels
<1>3. IsFiniteSet(1..n) /\ Cardinality(1..n) = n
  <2> HIDE DEF n
  <2> QED
    BY <1>1, FS_Interval
<1>4. f \in Surjection(1..n, R)
  BY <1>1 DEF Surjection
<1>5. Cardinality(R) = n <=> f \in Injection(1..n, R)
  <2> HIDE DEF n, R, f
  <2> QED
    BY <1>3, <1>4, FS_Surjection
<1>6. Unique(f) <=> f \in Injection(1..n, R)
  <2>1. f \in [1..n -> R] /\ DOMAIN f = 1..n
    BY <1>1
  <2> HIDE DEF f, R, n
  <2> QED
    BY <2>1 DEF Unique, Injection, IsInjective
<1> HIDE DEF f, n, R
<1>7. Unique(Folded(Labels(arms))) <=> Cardinality(R) = n
  BY <1>2, <1>5, <1>6
<1> QED
  BY <1>7 DEF n, R

\* Two steps that differ in the order of arms are read, followed and checked alike.
LEMMA SameStepIsAsGood ==
  ASSUME NEW s, NEW t, IsStep(s), IsStep(t), SameStep(s, t)
  PROVE  /\ t.node = s.node /\ t.name = s.name /\ t.prompt = s.prompt
         /\ Targets(t) = Targets(s)
         /\ StepReady(s) <=> StepReady(t)
         /\ s.node = "RouteStep" =>
              (Unique(Folded(Labels(s.arms))) <=> Unique(Folded(Labels(t.arms))))
<1>1. CASE s.node # "RouteStep"
  BY <1>1 DEF SameStep
<1>2. CASE s.node = "RouteStep"
  <2> DEFINE a == s.arms
             b == t.arms
  <2>1. /\ t.node = "RouteStep" /\ [s EXCEPT !.arms = <<>>] = [t EXCEPT !.arms = <<>>]
        /\ Len(a) = Len(b) /\ {a[k] : k \in DOMAIN a} = {b[k] : k \in DOMAIN b}
    BY <1>2 DEF SameStep
  <2>2. IsArms(a) /\ IsArms(b)
    BY <1>2, <2>1 DEF IsStep, Step, AgentStep
  <2>3. /\ s = RouteStep(s.name, s.model, s.prompt, s.arms, s.else_target)
        /\ t = RouteStep(t.name, t.model, t.prompt, t.arms, t.else_target)
    BY <1>2, <2>1 DEF IsStep, Step, AgentStep
  <2>4. t.name = s.name /\ t.prompt = s.prompt /\ t.else_target = s.else_target
    <3>1. /\ [s EXCEPT !.arms = <<>>].name = s.name /\ [t EXCEPT !.arms = <<>>].name = t.name
          /\ [s EXCEPT !.arms = <<>>].prompt = s.prompt
          /\ [t EXCEPT !.arms = <<>>].prompt = t.prompt
          /\ [s EXCEPT !.arms = <<>>].else_target = s.else_target
          /\ [t EXCEPT !.arms = <<>>].else_target = t.else_target
      BY <2>3 DEF RouteStep
    <3> QED
      BY <2>1, <3>1
  <2>5. a # <<>> <=> b # <<>>
    BY <2>1, <2>2, ArmsEmptyOrNot
  <2> HIDE DEF a, b
  <2>6. /\ {a[k].target : k \in DOMAIN a} = {b[k].target : k \in DOMAIN b}
        /\ {a[k].label[1] : k \in DOMAIN a} = {b[k].label[1] : k \in DOMAIN b}
    <3> DEFINE A == {a[k] : k \in DOMAIN a}
               B == {b[k] : k \in DOMAIN b}
    <3>1. /\ {a[k].target : k \in DOMAIN a} = {x.target : x \in A}
          /\ {a[k].label[1] : k \in DOMAIN a} = {x.label[1] : x \in A}
          /\ {b[k].target : k \in DOMAIN b} = {x.target : x \in B}
          /\ {b[k].label[1] : k \in DOMAIN b} = {x.label[1] : x \in B}
      OBVIOUS
    <3> HIDE DEF A, B
    <3> QED
      BY <2>1, <3>1 DEF A, B
  <2>7. Targets(t) = Targets(s)
    BY <1>2, <2>1, <2>4, <2>6 DEF Targets, a, b
  <2>8. Unique(Folded(Labels(a))) <=> Unique(Folded(Labels(b)))
    BY <2>1, <2>2, <2>6, FoldedByCount
  <2>9. StepReady(s) <=> StepReady(t)
    BY <1>2, <2>1, <2>4, <2>5 DEF StepReady, a, b
  <2> QED
    BY <1>2, <2>1, <2>4, <2>7, <2>8, <2>9 DEF a, b
<1> QED
  BY <1>1, <1>2

SameSteps(a, b) ==
  /\ Len(a) \in Nat /\ Len(b) = Len(a) /\ DOMAIN a = 1..Len(a) /\ DOMAIN b = 1..Len(b)
  /\ \A i \in DOMAIN a : IsStep(a[i]) /\ IsStep(b[i]) /\ SameStep(a[i], b[i])

\* So do lists of them, with _validate_targets and _validate_program.
LEMMA SameStepsAreAsGood ==
  ASSUME NEW a, NEW b, SameSteps(a, b)
  PROVE  /\ NamesOf(b) = NamesOf(a) /\ ListedNames(b) = ListedNames(a)
         /\ ValidTargets(a) <=> ValidTargets(b)
         /\ \A context, emit : ValidReferences(context, a, emit) <=> ValidReferences(context, b, emit)
         /\ (\A i \in DOMAIN a : StepReady(a[i])) <=> (\A i \in DOMAIN b : StepReady(b[i]))
<1>1. DOMAIN b = DOMAIN a /\ Len(b) = Len(a) /\ Len(a) \in Nat /\ DOMAIN a = 1..Len(a)
  BY DEF SameSteps
<1>2. ASSUME NEW i \in DOMAIN a
      PROVE  /\ b[i].node = a[i].node /\ b[i].name = a[i].name /\ b[i].prompt = a[i].prompt
             /\ Targets(b[i]) = Targets(a[i])
             /\ StepReady(a[i]) <=> StepReady(b[i])
             /\ a[i].node = "RouteStep" => (Unique(Folded(Labels(a[i].arms)))
                                              <=> Unique(Folded(Labels(b[i].arms))))
  BY SameStepIsAsGood DEF SameSteps
<1>3. NamesOf(b) = NamesOf(a) /\ ListedNames(b) = ListedNames(a)
  BY <1>1, <1>2 DEF NamesOf, ListedNames
<1>4. ValidTargets(a) <=> ValidTargets(b)
  <2>1. ASSUME NEW i \in DOMAIN a, NEW t
        PROVE  (\E j \in (i + 1)..Len(a) : a[j].name = t)
                 <=> (\E j \in (i + 1)..Len(b) : b[j].name = t)
    BY <1>1, <1>2
  <2>2. ASSUME NEW i \in DOMAIN a
        PROVE  (\A t \in Targets(a[i]) \ {End} : \E j \in (i + 1)..Len(a) : a[j].name = t)
                 <=> (\A t \in Targets(b[i]) \ {End} : \E j \in (i + 1)..Len(b) : b[j].name = t)
    <3> DEFINE A(t) == \E j \in (i + 1)..Len(a) : a[j].name = t
               B(t) == \E j \in (i + 1)..Len(b) : b[j].name = t
    <3>1. \A t : A(t) <=> B(t)
      BY <2>1
    <3>2. Targets(b[i]) = Targets(a[i])
      BY <1>2
    <3> HIDE DEF A, B
    <3>3. (\A t \in Targets(a[i]) \ {End} : A(t)) <=> (\A t \in Targets(b[i]) \ {End} : B(t))
      BY <3>1, <3>2
    <3> QED
      BY <3>3 DEF A, B
  <2>3. ASSUME NEW i \in DOMAIN a
        PROVE  (a[i].node = "RouteStep" => Unique(Folded(Labels(a[i].arms))))
                 <=> (b[i].node = "RouteStep" => Unique(Folded(Labels(b[i].arms))))
    BY <1>2
  <2> QED
    BY <1>1, <2>2, <2>3, Zenon DEF ValidTargets
<1>5. ASSUME NEW context, NEW emit
      PROVE  ValidReferences(context, a, emit) <=> ValidReferences(context, b, emit)
  <2>1. ASSUME NEW i \in DOMAIN a
        PROVE  {a[j].name : j \in 1..(i - 1)} = {b[j].name : j \in 1..(i - 1)}
    BY <1>1, <1>2
  <2> QED
    BY <1>1, <1>2, <1>3, <2>1 DEF ValidReferences
<1> QED
  BY <1>1, <1>2, <1>3, <1>4, <1>5

\* One of two workflows that are the same up to arms passes the checks if the other does.
LEMMA SameIsChecked ==
  ASSUME NEW p, NEW q, IsProgram(p), IsProgram(q), SameUpToArms(p, q)
  PROVE  Checked(p) <=> Checked(q)
<1>1. SameSteps(p.steps, q.steps)
  BY DEF SameSteps, SameUpToArms, IsProgram
<1>2. p.context = q.context /\ p.emit = q.emit
  <2>1. /\ [p EXCEPT !.steps = <<>>].context = p.context
        /\ [q EXCEPT !.steps = <<>>].context = q.context
        /\ [p EXCEPT !.steps = <<>>].emit = p.emit /\ [q EXCEPT !.steps = <<>>].emit = q.emit
    BY DEF IsProgram, Program
  <2> QED
    BY <2>1 DEF SameUpToArms
<1> QED
  BY <1>1, <1>2, SameStepsAreAsGood DEF Checked, NamesResolve

-----------------------------------------------------------------------------
(* The parser, production by production.                                     *)

\* What the text says, step by step.
LEMMA SaidStepByStep ==
  ASSUME text \in Texts
  PROVE  /\ ProgramSaid.context = text.context /\ ProgramSaid.emit = text.emit
         /\ Len(text.steps) \in Nat /\ DOMAIN text.steps = 1..Len(text.steps)
         /\ Len(ProgramSaid.steps) = Len(text.steps)
         /\ DOMAIN ProgramSaid.steps = DOMAIN text.steps
         /\ \A i \in DOMAIN text.steps :
              /\ ProgramSaid.steps[i] = StepSaid(text.steps[i])
              /\ StepSaid(text.steps[i]).name = text.steps[i].name
              /\ text.steps[i].kind \in {"llm", "agent", "route"}
<1>1. Len(text.steps) \in Nat /\ DOMAIN text.steps = 1..Len(text.steps)
  BY TextsAssumption
<1>2. /\ ProgramSaid.context = text.context /\ ProgramSaid.emit = text.emit
      /\ ProgramSaid.steps = [i \in DOMAIN text.steps |-> StepSaid(text.steps[i])]
  BY DEF ProgramSaid, Program
<1>3. ASSUME NEW i \in DOMAIN text.steps
      PROVE  /\ StepSaid(text.steps[i]).name = text.steps[i].name
             /\ text.steps[i].kind \in {"llm", "agent", "route"}
  BY TextsAssumption DEF StepSaid, Step, AgentStep, RouteStep
<1>4. Len(ProgramSaid.steps) = Len(text.steps)
  BY <1>1, <1>2
<1> QED
  BY <1>1, <1>2, <1>3, <1>4

\* All steps have been read: the list is what the text says, up to arms.
LEMMA AllStepsRead ==
  ASSUME ParserInv, SaidInv, Len(parsed) = Len(text.steps)
  PROVE  Expressible /\ SameSteps(parsed, ProgramSaid.steps)
<1>1. /\ text \in Texts /\ Len(parsed) \in Nat /\ DOMAIN parsed = 1..Len(parsed)
      /\ \A i \in DOMAIN parsed : IsStep(parsed[i])
  BY StepSeqIsFunction DEF ParserInv, IsStepSeq
<1>2. DOMAIN parsed = DOMAIN text.steps
  BY <1>1, SaidStepByStep
<1>3. Expressible
  BY <1>2 DEF Expressible, SaidInv
<1>4. ASSUME NEW i \in DOMAIN parsed
      PROVE  IsStep(ProgramSaid.steps[i]) /\ SameStep(parsed[i], ProgramSaid.steps[i])
  BY <1>1, <1>2, SaidStepByStep, StepSaidIsStep DEF SaidInv
<1>5. Len(ProgramSaid.steps) = Len(parsed) /\ DOMAIN ProgramSaid.steps = 1..Len(parsed)
  BY <1>1, <1>2, SaidStepByStep
<1> QED
  BY <1>1, <1>3, <1>4, <1>5 DEF SameSteps

\* No production refuses a text that says a workflow which passes the checks.
LEMMA NotRefused ==
  ASSUME ParserInv, SaidInv, ParserNext, Lexes(text), Expressible, Checked(ProgramSaid)
  PROVE  phase' # "refused"
<1> DEFINE q == ProgramSaid
<1>1. /\ text \in Texts /\ Len(parsed) \in Nat /\ DOMAIN parsed = 1..Len(parsed)
      /\ \A i \in DOMAIN parsed : IsStep(parsed[i])
      /\ Len(parsed) <= Len(text.steps)
  BY StepSeqIsFunction DEF ParserInv, IsStepSeq
<1>2. /\ q.context = text.context /\ q.emit = text.emit
      /\ Len(text.steps) \in Nat /\ DOMAIN text.steps = 1..Len(text.steps)
      /\ DOMAIN q.steps = DOMAIN text.steps
      /\ \A i \in DOMAIN text.steps :
           q.steps[i] = StepSaid(text.steps[i]) /\ q.steps[i].name = text.steps[i].name
  BY <1>1, SaidStepByStep
<1>3. /\ Unique(ListedNames(q.context)) /\ Unique(ListedNames(q.steps)) /\ End \notin NamesOf(q.steps)
      /\ ValidTargets(q.steps) /\ ValidReferences(q.context, q.steps, q.emit)
      /\ \A i \in DOMAIN q.steps : StepReady(q.steps[i])
  BY DEF Checked, NamesResolve
<1> HIDE DEF q
<1>4. CASE Lex
  BY <1>4 DEF Lex
<1>5. CASE ParseContext
  BY <1>2, <1>3, <1>5 DEF ParseContext
<1>6. CASE OpenStep
  <2> DEFINE m == Len(parsed) + 1
  <2>1. m \in DOMAIN q.steps /\ Header.name = q.steps[m].name /\ m \notin DOMAIN parsed
    BY <1>1, <1>2, <1>6 DEF OpenStep, Header
  <2>2. Header.name # End
    BY <1>3, <2>1 DEF NamesOf
  <2>3. Header.name \notin NamesOf(parsed)
    <3>1. ASSUME NEW j \in DOMAIN parsed, parsed[j].name = Header.name
          PROVE  FALSE
      <4>1. j \in DOMAIN text.steps
        BY <1>1, <1>2
      <4>2. q.steps[j].name = parsed[j].name
        BY <1>1, <1>2, <4>1, StepSaidIsStep, SameStepIsAsGood DEF SaidInv
      <4>3. j = m
        BY <1>2, <1>3, <2>1, <3>1, <4>1, <4>2 DEF Unique, ListedNames
      <4> QED
        BY <2>1, <4>3
    <3> QED
      BY <3>1 DEF NamesOf
  <2> QED
    BY <1>6, <2>2, <2>3 DEF OpenStep
<1>7. ASSUME phase = "body"
      PROVE  StepExpressible(Header) /\ StepReady(StepSaid(Header))
  <2>1. Len(parsed) + 1 \in DOMAIN text.steps /\ Header = text.steps[Len(parsed) + 1]
    BY <1>7, HeaderIsAStep
  <2> QED
    BY <1>2, <1>3, <2>1 DEF Expressible
<1>8. ASSUME NEW c \in unread, ReadClause(c)
      PROVE  phase' # "refused"
  <2>1. ClauseOK(c)
    BY <1>7, <1>8, ClauseIsTaken DEF ReadClause, SaidInv
  <2> QED
    BY <1>8, <2>1 DEF ReadClause
<1>9. CASE CloseStep
  <2>1. Holds(body, Header.kind, Header.clauses)
    BY <1>9 DEF CloseStep, SaidInv
  <2>2. SameStep(ParsedStep, StepSaid(Header)) /\ IsStep(ParsedStep)
    BY <1>9, <2>1, BodyIsSaid, ParsedStepIsStep DEF CloseStep
  <2>3. IsStep(StepSaid(Header))
    BY <1>1, <1>9, HeaderIsAStep, StepSaidIsStep DEF CloseStep
  <2>4. StepReady(ParsedStep)
    BY <1>7, <1>9, <2>2, <2>3, SameStepIsAsGood DEF CloseStep
  <2>5. BodyComplete
    BY <1>9, <2>4, ParsedStepIsStep DEF BodyComplete, StepReady, CloseStep
  <2> QED
    BY <1>9, <2>5 DEF CloseStep
<1>10. CASE CloseSteps
  <2>1. SameSteps(parsed, q.steps)
    BY <1>10, AllStepsRead DEF CloseSteps, q
  <2>2. ValidTargets(parsed)
    BY <1>3, <2>1, SameStepsAreAsGood
  <2> QED
    BY <1>10, <2>2 DEF CloseSteps
<1>11. CASE ParseEmit
  <2>1. SameSteps(parsed, q.steps)
    BY <1>11, AllStepsRead DEF ParseEmit, SaidInv, q
  <2>2. ValidReferences(text.context, parsed, text.emit)
    BY <1>2, <1>3, <2>1, SameStepsAreAsGood
  <2> QED
    BY <1>11, <2>2 DEF ParseEmit
<1> QED
  BY <1>4, <1>5, <1>6, <1>8, <1>9, <1>10, <1>11 DEF ParserNext

\* Nothing has been read.
LEMMA SaidInvInit == Init => SaidInv
<1> SUFFICES ASSUME Init PROVE SaidInv
  OBVIOUS
<1>1. phase = "source" /\ parsed = <<>>
  BY DEF Init, ParserInit
<1>2. DOMAIN parsed = {}
  BY <1>1
<1> QED
  BY <1>1, <1>2 DEF SaidInv

\* A refusal breaks no promise; ...
LEMMA RefusalKeepsSaidInv ==
  ASSUME ParserInv, SaidInv, ParserNext, Refuse
  PROVE  SaidInv'
<1>1. /\ phase' = "refused" /\ text' = text /\ parsed' = parsed
  BY DEF Refuse
<1>2. ~(Lexes(text) /\ Expressible /\ Checked(ProgramSaid))
  BY <1>1, NotRefused
<1>3. ~(Lexes(text') /\ Expressible' /\ Checked(ProgramSaid'))
  BY <1>1, <1>2 DEF Expressible, ProgramSaid
<1> QED
  BY <1>1, <1>3 DEF SaidInv

\* ... and what is read is what is said.
LEMMA SaidInvStep ==
  ASSUME ParserInv, SaidInv, ParserNext
  PROVE  SaidInv'
<1>0. text' = text /\ phase \notin {"accepted", "refused"}
  BY DEF ParserNext, Lex, ParseContext, OpenStep, ReadClause, CloseStep, CloseSteps, ParseEmit,
         Refuse
<1>1. CASE Refuse
  BY <1>1, RefusalKeepsSaidInv
<1>2. CASE Lex
  BY <1>0, <1>1, <1>2 DEF Lex, SaidInv
<1>3. CASE ParseContext
  BY <1>0, <1>1, <1>3 DEF ParseContext, SaidInv
<1>4. CASE OpenStep
  <2>1. CASE ~Refuse
    <3>1. /\ phase' = "body" /\ unread' = Header.clauses /\ body' = NoBody /\ parsed' = parsed
          /\ Header' = Header
      BY <1>4, <2>1 DEF OpenStep, Header
    <3>2. Header.clauses \ Header.clauses = {}
      OBVIOUS
    <3>3. Holds(body', Header'.kind, Header'.clauses \ unread')
      BY <3>1, <3>2, NoBodyHoldsNothing
    <3> QED
      BY <1>0, <3>1, <3>3 DEF SaidInv
  <2> QED
    BY <1>1, <2>1
<1>5. ASSUME NEW c \in unread, ReadClause(c)
      PROVE  SaidInv'
  <2>1. CASE ~Refuse
    <3>1. /\ phase = "body" /\ phase' = "body" /\ unread' = unread \ {c} /\ body' = WithClause(c)
          /\ parsed' = parsed /\ Header' = Header /\ ClauseOK(c)
      BY <1>5, <2>1 DEF ReadClause, Header
    <3>2. Holds(body', Header'.kind, Header'.clauses \ unread')
      BY <3>1, ClauseIsHeld DEF SaidInv
    <3> QED
      BY <1>0, <3>1, <3>2 DEF SaidInv
  <2> QED
    BY <1>1, <2>1
<1>6. CASE CloseStep
  <2>1. CASE ~Refuse
    <3> DEFINE m == Len(parsed) + 1
    <3>1. /\ phase = "body" /\ unread = {} /\ BodyComplete /\ phase' = "steps"
          /\ parsed' = Append(parsed, ParsedStep)
      BY <1>6, <2>1 DEF CloseStep
    <3>2. Holds(body, Header.kind, Header.clauses)
      BY <3>1 DEF SaidInv
    <3>3. StepExpressible(Header) /\ SameStep(ParsedStep, StepSaid(Header))
      BY <3>1, <3>2, BodyIsSaid DEF BodyComplete
    <3>4. Header = text.steps[m]
      BY DEF Header
    <3>5. /\ DOMAIN parsed = 1..Len(parsed) /\ DOMAIN parsed' = 1..m
          /\ \A i \in 1..m : parsed'[i] = IF i = m THEN ParsedStep ELSE parsed[i]
      BY <3>1, AppendGrows DEF ParserInv, IsStepSeq
    <3>6. Len(parsed) \in Nat
      BY StepSeqIsFunction DEF ParserInv
    <3>7. ASSUME NEW i \in DOMAIN parsed'
          PROVE  StepExpressible(text.steps[i]) /\ SameStep(parsed'[i], StepSaid(text.steps[i]))
      <4>1. CASE i = m
        BY <3>3, <3>4, <3>5, <4>1
      <4>2. CASE i # m
        <5>1. i \in DOMAIN parsed
          BY <3>5, <3>6, <4>2
        <5> QED
          BY <3>5, <4>2, <5>1 DEF SaidInv
      <4> QED
        BY <4>1, <4>2
    <3> QED
      BY <1>0, <3>1, <3>7 DEF SaidInv
  <2> QED
    BY <1>1, <2>1
<1>7. CASE CloseSteps
  BY <1>0, <1>1, <1>7 DEF CloseSteps, SaidInv
<1>8. CASE ParseEmit
  <2>1. CASE ~Refuse
    <3>1. /\ phase = "emit" /\ phase' = "accepted" /\ parsed' = parsed
          /\ program' = Program(text.name, text.context, parsed, text.emit)
      BY <1>8, <2>1 DEF ParseEmit
    <3>2. Expressible /\ SameSteps(parsed, ProgramSaid.steps)
      BY <3>1, AllStepsRead DEF SaidInv
    <3>3. SameUpToArms(program', ProgramSaid)
      <4>1. \A p \in {program', ProgramSaid} :
              [p EXCEPT !.steps = <<>>] = Program(text.name, text.context, <<>>, text.emit)
        BY <3>1 DEF ProgramSaid, Program
      <4>2. program'.steps = parsed
        BY <3>1 DEF Program
      <4> QED
        BY <3>2, <4>1, <4>2 DEF SameUpToArms, SameSteps
    <3>4. Expressible' /\ ProgramSaid' = ProgramSaid
      BY <1>0, <3>2 DEF Expressible, ProgramSaid
    <3> QED
      BY <1>0, <3>1, <3>3, <3>4 DEF SaidInv
  <2> QED
    BY <1>1, <2>1
<1> QED
  BY <1>2, <1>3, <1>4, <1>5, <1>6, <1>7, <1>8 DEF ParserNext

\* No other action moves the parser, and the loader reads no source.
LEMMA SaidInvKept ==
  ASSUME ParserInv, RunInv, SaidInv, [Next]_vars
  PROVE  SaidInv'
<1>1. CASE Parse
  BY <1>1, SaidInvStep DEF Parse
<1>2. CASE LoadDocument
  <2>1. way' = "ir" /\ text' = text /\ parsed' = parsed /\ phase' \in {"accepted", "refused"}
    BY <1>2 DEF LoadDocument, Refuse
  <2> QED
    BY <2>1 DEF SaidInv
<1>3. CASE UNCHANGED <<parserVars, way>>
  <2>1. UNCHANGED <<text, phase, unread, body, parsed, program, way, Header>>
    BY <1>3 DEF parserVars, Header
  <2>2. UNCHANGED <<Expressible, ProgramSaid>>
    BY <2>1 DEF Expressible, ProgramSaid
  <2> QED
    BY <2>1, <2>2 DEF SaidInv
<1>4. Next /\ ~Parse /\ ~LoadDocument => UNCHANGED <<parserVars, way>>
  BY DEF Next, Post, Inherit, CliStart, CliResume, WorkerClaims, Requeue, Admit, TurnAway, Bind,
         Execute, Ends, Crash
<1> QED
  BY <1>1, <1>2, <1>3, <1>4 DEF vars

\* parse_program: in whatever order _parse_llm, _parse_agent and _parse_route meet the
\* clauses of a body, an accepted text has the form of a workflow and the program is what
\* it says.
THEOREM AcceptedIsAsWrittenCorrect == Spec => []AcceptedIsAsWritten
<1>1. SaidInv => AcceptedIsAsWritten
  BY DEF SaidInv, AcceptedIsAsWritten
<1> QED
  BY <1>1, ParserInvInit, ParserInvKept, RunInvInit, RunInvStep, SaidInvInit, SaidInvKept, PTL
     DEF Spec

\* parse_program and load_ir_bytes give one verdict on a workflow within the limits of
\* both: the checks of the one are neither stricter nor laxer than those of the other.
THEOREM BothWaysAgreeCorrect == Spec => []BothWaysAgree
<1>1. ParserInv /\ SaidInv => BothWaysAgree
  <2> SUFFICES ASSUME ParserInv, SaidInv, phase \in {"accepted", "refused"}, way = "source",
                      Expressible, Lexes(text), WithinIrLimits(canonical(ProgramSaid))
               PROVE  phase = "accepted" <=> Loads(canonical(ProgramSaid))
    BY DEF BothWaysAgree
  <2>1. IsProgram(ProgramSaid)
    BY ProgramSaidIsProgram DEF ParserInv
  <2>2. CASE phase = "accepted"
    <3>1. IsProgram(program) /\ Checked(program) /\ SameUpToArms(program, ProgramSaid)
      BY <2>2 DEF ParserInv, SaidInv
    <3>2. Checked(ProgramSaid)
      BY <2>1, <3>1, SameIsChecked
    <3> QED
      BY <2>1, <2>2, <3>2, CheckedIsLoaded
  <2>3. CASE phase = "refused"
    <3>1. ~Checked(ProgramSaid)
      BY <2>3 DEF SaidInv
    <3> QED
      BY <2>1, <2>3, <3>1, LoadedIsChecked
  <2> QED
    BY <2>2, <2>3
<1> QED
  BY <1>1, ParserInvInit, ParserInvKept, RunInvInit, RunInvStep, SaidInvInit, SaidInvKept, PTL
     DEF Spec
=============================================================================
