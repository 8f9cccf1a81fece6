----------------------------- MODULE Definition -----------------------------
(***************************************************************************)
(* What a run executes, from the author's text to the last attempt.        *)
(*                                                                         *)
(* A workflow arrives as source (parser.py) or as an IR document (ir.py),  *)
(* by HTTP (server.py, do_POST) or from a file of the command line         *)
(* (cli.py, _run); what a run is held to afterwards is the identity kept   *)
(* in its row: run_durable (store.py) compares it with what the next       *)
(* attempt brings and fills in what is missing.  Attempts come from a      *)
(* worker (control.py, process_one) or from the command line, may crash    *)
(* between any two statements, and may follow an older release.            *)
(*                                                                         *)
(* One run is followed, with one process at it at a time: who excludes     *)
(* whom is ControlPlane's concern.  A hash is taken to be injective and    *)
(* stands for what it is the hash of.                                      *)
(***************************************************************************)
EXTENDS Parser, WorkflowIR, SequencesExt

CONSTANTS Runnable,      \* bound: the texts whose acceptance is followed by runs
          OtherWorkflow, \* another valid workflow somebody may bring to a resume
          Inputs         \* values of the one input

ASSUME DefinitionAssumption ==
  /\ Runnable \subseteq Texts /\ Inputs # {}
  /\ IsProgram(OtherWorkflow) /\ Loads(canonical(OtherWorkflow))

VARIABLES way,      \* "source" or "ir": how the workflow is submitted
          document, \* the JSON object submitted as IR
          row,      \* the run's row
          attempt,  \* the process that works on the run
          origin,   \* ghost: the workflow the row was bound to
          executed, \* ghost: what attempts executed, <<workflow, inputs>>, the inputs Unset
            \* where an older release did not record them
          unhashed  \* ghost: an older release left the row without the hash of its inputs

runVars == <<row, attempt, origin, executed, unhashed>>
vars == <<parserVars, way, document, runVars>>

Unset   == <<>>      \* a NULL column, or no --input
Some(x) == <<x>>

NoRow == [status |-> "none", source |-> Unset, program_sha256 |-> Unset, inputs |-> Unset,
          inputs_sha256 |-> Unset, definition |-> Unset]
NoAttempt == [stage |-> "none", claimed |-> FALSE, program |-> NoProgram, source |-> Unset,
              inputs |-> Unset]

-----------------------------------------------------------------------------
(* The document that says what a text says.                                  *)

Clauses(s, w) == {c \in s.clauses : c.word = w}

OptionalWords == [llm |-> {"expect", "then"}, agent |-> {"tools", "max_iters", "then"},
                  route |-> {"else"}]

\* The words that begin a clause in the body of a kind of step.
Words(kind) ==
  OptionalWords[kind] \cup {"prompt"} \cup (IF kind = "route" THEN {"on"} ELSE {})

\* A step's text has the form of a step, whatever its clauses say.
StepExpressible(s) ==
  /\ Cardinality(Clauses(s, "prompt")) = 1
  /\ \A w \in OptionalWords[s.kind] : Cardinality(Clauses(s, w)) <= 1
  /\ \A c \in s.clauses : c.word \in Words(s.kind) /\ (c.word = "expect" => c.rules # <<>>)

Expressible == \A i \in DOMAIN text.steps : StepExpressible(text.steps[i])

Said(s, w, field, default) ==
  IF Clauses(s, w) = {} THEN default ELSE (CHOOSE c \in Clauses(s, w) : TRUE)[field]

ArmsSaid(s) ==
  Each(LAMBDA c : [label |-> c.label, target |-> c.target], SetToSeq(Clauses(s, "on")))

StepSaid(s) ==
  LET prompt == Said(s, "prompt", "prompt", <<>>)
      then   == Said(s, "then", "target", NoTarget)
  IN CASE s.kind = "llm" ->
            Step(s.name, s.model, prompt, then, Said(s, "expect", "rules", <<>>))
       [] s.kind = "agent" ->
            AgentStep(s.name, s.model, prompt, Said(s, "tools", "tools", <<>>),
                      Said(s, "max_iters", "max_iters", DefaultMaxIters), then)
       [] s.kind = "route" ->
            RouteStep(s.name, s.model, prompt, ArmsSaid(s),
                      Said(s, "else", "target", NoTarget))

ProgramSaid ==
  Program(text.name, text.context, [i \in DOMAIN text.steps |-> StepSaid(text.steps[i])],
          text.emit)

\* Documents with a key too few or too many, or of another version.
Damaged(d) ==
  {[k \in DOMAIN d \ {"context"} |-> d[k]],
   [k \in DOMAIN d \cup {"comment"} |-> IF k = "comment" THEN "" ELSE d[k]],
   [d EXCEPT !.ir_version = "threadlang.ir/v2"],
   [d EXCEPT !.emit.model = IF @ = NoText THEN [plain |-> 1, odd |-> 0] ELSE NoText],
   [d EXCEPT !.emit.expression.terms = <<>>]}

Init ==
  /\ ParserInit
  /\ \/ way = "source" /\ document = Unset
     \/ /\ way = "ir" /\ Expressible
        /\ LET d == canonical(ProgramSaid) IN
             document \in {Some(d)} \cup {Some(x) : x \in IF text \in Runnable THEN Damaged(d) ELSE {}}
  /\ row = NoRow /\ attempt = NoAttempt /\ origin = NoProgram /\ executed = {} /\ unhashed = FALSE

-----------------------------------------------------------------------------
(* Submission. *)

Parse == way = "source" /\ ParserNext /\ UNCHANGED <<way, document, runVars>>

\* load_ir_bytes and program_from_ir, in do_POST or with --from-ir.
LoadDocument ==
  /\ way = "ir" /\ phase = "source"
  /\ IF Loads(document[1])
     THEN /\ phase' = "accepted" /\ program' = program_from_ir(load_ir(document[1]))
          /\ UNCHANGED <<text, unread, body, parsed>>
     ELSE Refuse
  /\ UNCHANGED <<way, document, runVars>>

Fresh == phase = "accepted" /\ text \in Runnable /\ row = NoRow

NewRow(status, source, sha, given, inputs_sha, definition) ==
  [status |-> status, source |-> source, program_sha256 |-> sha, inputs |-> Some(given),
   inputs_sha256 |-> inputs_sha, definition |-> definition]

SourceSha(which)    == Some(<<"source", which>>)
ProgramSha(p)       == Some(<<"program", p>>)
DefinitionSha(d)    == Some(<<"definition", d>>)
Identified(p)       == Some(canonical(p))

\* do_POST: enqueue_run with the text, enqueue_ir without.
Post ==
  /\ Fresh
  /\ \E given \in Inputs :
       row' = IF way = "source"
              THEN NewRow("pending", Some("this"), SourceSha("this"), given, Some(given),
                          Identified(program))
              ELSE NewRow("pending", Unset, DefinitionSha(canonical(program)), given,
                          Some(given), Identified(program))
  /\ origin' = program
  /\ UNCHANGED <<parserVars, way, document, attempt, executed, unhashed>>

\* Rows that older releases left, none with a definition: created or queued and never
\* executed; failed, with the text or without; with the hashes of v0.12 or without.
Inherit ==
  /\ Fresh /\ way = "source"
  /\ \E given \in Inputs, source \in {Unset, Some("this")} :
       \/ /\ row' \in {NewRow("pending", Some("this"), Unset, given, Unset, Unset),
                       NewRow("pending", Some("this"), SourceSha("this"), given, Some(given), Unset),
                       NewRow("created", Unset, Unset, given, Unset, Unset)}
          /\ executed' = {}
       \/ /\ row' = NewRow("failed", source, SourceSha("this"), given, Some(given), Unset)
          /\ executed' = {<<program, Some(given)>>}
       \/ /\ row' = NewRow("failed", source, Unset, given, Unset, Unset)
          /\ executed' = {<<program, Unset>>}
  /\ origin' = program /\ unhashed' = (row'.inputs_sha256 = Unset)
  /\ UNCHANGED <<parserVars, way, document, attempt>>

-----------------------------------------------------------------------------
(* Attempts. *)

Attempting(stage, claimed, p, source, inputs) ==
  attempt' = [stage |-> stage, claimed |-> claimed, program |-> p, source |-> source,
              inputs |-> inputs]

\* What may be in the file of a command: this workflow or another, as text or as IR.
Files == {[program |-> program, source |-> Some("this")],
          [program |-> OtherWorkflow, source |-> Some("other")],
          [program |-> OtherWorkflow, source |-> Unset]}
         \cup (IF Loads(canonical(program))
               THEN {[program |-> program_from_ir(load_ir(canonical(program))), source |-> Unset]}
               ELSE {})

\* Mutant: create_run stores the inputs without their hash.
CliStartUnhashed ==
  /\ Fresh
  /\ \E given \in Inputs, f \in Files :
       /\ f.source = (IF way = "source" THEN Some("this") ELSE Unset)
       /\ f.program # OtherWorkflow
       /\ row' = NewRow("created", Unset, Unset, given, Unset, Unset)
       /\ Attempting("read", FALSE, f.program, f.source, Some(given))
  /\ UNCHANGED <<parserVars, way, document, origin, executed, unhashed>>

\* cli.py, _run: create_run stores the inputs and their hash, and nothing of the workflow.
CliStart ==
  /\ Fresh
  /\ \E given \in Inputs, f \in Files :
       /\ f.source = (IF way = "source" THEN Some("this") ELSE Unset)
       /\ f.program # OtherWorkflow
       /\ row' = NewRow("created", Unset, Unset, given, Some(given), Unset)
       /\ Attempting("read", FALSE, f.program, f.source, Some(given))
  /\ UNCHANGED <<parserVars, way, document, origin, executed, unhashed>>

\* --resume: inputs = {**prior.inputs, **inputs}.
CliResume ==
  /\ row # NoRow /\ attempt = NoAttempt
  /\ \E f \in Files, flag \in {Unset} \cup {Some(i) : i \in Inputs} :
       Attempting("read", FALSE, f.program, f.source,
                  IF flag = Unset THEN row.inputs ELSE flag)
  /\ UNCHANGED <<parserVars, way, document, row, origin, executed, unhashed>>

\* process_one: claim_next_pending, then the stored definition or, failing that, the text.
WorkerClaims ==
  /\ attempt = NoAttempt /\ row.status = "pending"
  /\ IF row.definition = Unset
     THEN /\ row' = [row EXCEPT !.status = "running"]
          /\ Attempting("read", TRUE, program, row.source, row.inputs)
     ELSE IF Loads(row.definition[1])
     THEN /\ row' = [row EXCEPT !.status = "running"]
          /\ Attempting("read", TRUE, program_from_ir(load_ir(row.definition[1])), row.source,
                        row.inputs)
     ELSE row' = [row EXCEPT !.status = "failed"] /\ UNCHANGED attempt
  /\ UNCHANGED <<parserVars, way, document, origin, executed, unhashed>>

\* Mutant: the requeue does not wait for the worker that has the run.
RequeueLive ==
  /\ row.status = "running"
  /\ row.source # Unset \/ row.definition # Unset
  /\ row' = [row EXCEPT !.status = "pending"]
  /\ UNCHANGED <<parserVars, way, document, attempt, origin, executed, unhashed>>

\* A server starts: requeue_orphans.
Requeue ==
  /\ attempt = NoAttempt /\ row.status = "running"
  /\ row.source # Unset \/ row.definition # Unset
  /\ row' = [row EXCEPT !.status = "pending"]
  /\ UNCHANGED <<parserVars, way, document, attempt, origin, executed, unhashed>>

Fingerprint(a) == IF a.source # Unset THEN SourceSha(a.source[1]) ELSE ProgramSha(a.program)

IdentityMissing(r) == r.program_sha256 = Unset \/ r.inputs_sha256 = Unset

\* Mutant: the stored definition is not compared.
AdmitsAnyDefinition(r, a) ==
  /\ r.definition = Unset /\ r.program_sha256 # Unset => r.program_sha256 = Fingerprint(a)
  /\ r.inputs_sha256 # Unset => r.inputs_sha256 = a.inputs
  /\ IF a.claimed THEN r.status = "running" ELSE r.status \in {"created", "failed"}
  /\ IdentityMissing(r) => \/ r.status = "created" \/ a.claimed
                           \/ r.source # Unset /\ a.source = r.source

\* The checks of run_durable on the row it reads.
Admits(r, a) ==
  /\ r.definition = Unset /\ r.program_sha256 # Unset => r.program_sha256 = Fingerprint(a)
  /\ r.inputs_sha256 # Unset => r.inputs_sha256 = a.inputs
  /\ r.definition # Unset => Loads(r.definition[1]) /\ r.definition = Identified(a.program)
  /\ IF a.claimed THEN r.status = "running" ELSE r.status \in {"created", "failed"}
  /\ IdentityMissing(r) => \/ r.status = "created" \/ a.claimed
                           \/ r.source # Unset /\ a.source = r.source

Admit ==
  /\ attempt.stage = "read" /\ Admits(row, attempt)
  /\ attempt' = [attempt EXCEPT !.stage =
       IF IdentityMissing(row) \/ row.definition = Unset THEN "binding" ELSE "ready"]
  /\ UNCHANGED <<parserVars, way, document, row, origin, executed, unhashed>>

\* A refusal, or the stored result: a command just ends, a worker marks the run failed.
TurnAway ==
  /\ attempt.stage = "read" /\ ~Admits(row, attempt)
  /\ row' = [row EXCEPT !.status = IF attempt.claimed THEN "failed" ELSE @]
  /\ attempt' = NoAttempt
  /\ UNCHANGED <<parserVars, way, document, origin, executed, unhashed>>

Coalesce(column, value) == IF column = Unset THEN value ELSE column

\* bind_run_identity.
Bind ==
  /\ attempt.stage = "binding"
  /\ row' = [row EXCEPT !.program_sha256 = Coalesce(@, Fingerprint(attempt)),
                        !.inputs_sha256 = Coalesce(@, attempt.inputs),
                        !.definition = Coalesce(@, Identified(attempt.program))]
  /\ origin' = IF row.definition = Unset THEN attempt.program ELSE origin
  /\ attempt' = [attempt EXCEPT !.stage = "ready"]
  /\ UNCHANGED <<parserVars, way, document, executed, unhashed>>

\* mark_running, unless the worker's claim did it; then run_program.
Execute ==
  /\ attempt.stage = "ready"
  /\ row' = [row EXCEPT !.status = "running"]
  /\ executed' = executed \cup {<<attempt.program, attempt.inputs>>}
  /\ attempt' = [attempt EXCEPT !.stage = "executing"]
  /\ UNCHANGED <<parserVars, way, document, origin, unhashed>>

Ends ==
  /\ attempt.stage = "executing"
  /\ \E outcome \in {"completed", "failed"} : row' = [row EXCEPT !.status = outcome]
  /\ attempt' = NoAttempt
  /\ UNCHANGED <<parserVars, way, document, origin, executed, unhashed>>

Crash ==
  /\ attempt # NoAttempt
  /\ attempt' = NoAttempt
  /\ UNCHANGED <<parserVars, way, document, row, origin, executed, unhashed>>

Next ==
  \/ Parse \/ LoadDocument \/ Post \/ Inherit
  \/ CliStart \/ CliResume \/ WorkerClaims \/ Requeue
  \/ Admit \/ TurnAway \/ Bind \/ Execute \/ Ends \/ Crash

Spec == Init /\ [][Next]_vars

-----------------------------------------------------------------------------
\* The parser is in a production, the row in a status, and an attempt in a stage it
\* reaches with what that stage needs.
TypeOK ==
  /\ phase \in {"source", "context", "steps", "body", "emit", "accepted", "refused"}
  /\ unread \subseteq UNION {text.steps[i].clauses : i \in DOMAIN text.steps}
  /\ Len(parsed) <= Len(text.steps)
  /\ row.status \in {"none", "created", "pending", "running", "completed", "failed"}
  /\ attempt.stage \in {"none", "read", "binding", "ready", "executing"}
  /\ attempt.stage # "none" => row # NoRow /\ attempt.inputs[1] \in Inputs
  /\ attempt.claimed => row.status = "running"

\* The runtime trusts edges, references and bounds of the workflow it is given
\* (runtime.py): what the parser or the IR loader accepts satisfies all of it.
AcceptedIsRuntimeReady == phase = "accepted" => RuntimeReady(program)

SameStep(s, t) ==
  IF s.node # "RouteStep" THEN s = t
  ELSE /\ t.node = "RouteStep"
       /\ [s EXCEPT !.arms = <<>>] = [t EXCEPT !.arms = <<>>]
       /\ Len(s.arms) = Len(t.arms)
       /\ {s.arms[k] : k \in DOMAIN s.arms} = {t.arms[k] : k \in DOMAIN t.arms}

SameUpToArms(p, q) ==
  /\ [p EXCEPT !.steps = <<>>] = [q EXCEPT !.steps = <<>>]
  /\ Len(p.steps) = Len(q.steps)
  /\ \A i \in DOMAIN p.steps : SameStep(p.steps[i], q.steps[i])

\* In whatever order the parser met the clauses of a body: an accepted text has one
\* prompt and no clause twice, and the program is what the text says.
AcceptedIsAsWritten ==
  phase = "accepted" /\ way = "source" => Expressible /\ SameUpToArms(program, ProgramSaid)

\* The loader's limits, which are not the lexer's.
WithinIrLimits(d) ==
  /\ IrBytes(d) <= MaxIrBytes
  /\ \A i \in DOMAIN d.context : Bounded(d.context[i].value)
  /\ ExpressionValid(ExpressionFromObject(d.emit.expression))
  /\ \A i \in DOMAIN d.steps : /\ Bounded(d.steps[i].model) /\ LabelsBounded(d.steps[i])
                               /\ ExpressionValid(ExpressionFromObject(d.steps[i].prompt))
  /\ d.emit.model # NoText => Bounded(d.emit.model)

\* The parser, clause by clause, and the loader, on the whole document
\* (_validate_loaded_workflow), give the same verdict on a workflow.
BothWaysAgree ==
  phase \in {"accepted", "refused"} /\ way = "source" /\ Expressible
    /\ Lexes(text) /\ WithinIrLimits(canonical(ProgramSaid))
    => (phase = "accepted" <=> Loads(canonical(ProgramSaid)))

\* A run that was accepted can be executed and resumed: unless it is over the loader's
\* limits, its stored definition loads.
StoredDefinitionLoadsIfBounded ==
  row.definition # Unset /\ WithinIrLimits(row.definition[1]) => Loads(row.definition[1])

\* Source -> AST -> IR -> JSON -> IR -> AST loses nothing (docs/ir-production.md: the
\* bridge "is lossless"): an attempt executes the workflow that was bound to the row,
\* whichever file it came from.
ExecutesWhatWasBound ==
  attempt.stage = "executing" => attempt.program = origin

\* "Resume fails closed" (docs/ir-production.md): however attempts crash and whatever
\* files resumes bring, a run executes one workflow, on one input unless an older
\* release did not record it.
OneDefinitionPerRun ==
  \A a, b \in executed :
    /\ a[1] = b[1]
    /\ Unset \in {a[2], b[2]} \/ a[2] = b[2]

\* The fences do not lock out the owner: a failed run is admitted again with its own
\* workflow, from the text or from the emitted IR, by a plain --resume, which brings the
\* inputs in the row.  Only where an older release left no hash of them may a resume
\* have changed the inputs, and has the owner to repeat those it bound.
OwnerMayResume ==
  row.status = "failed" /\ row.definition # Unset /\ Loads(row.definition[1]) =>
    \A a \in executed, source \in {Unset, Some("this")} :
      (source # Unset => a[1] = program) =>
      Admits(row, [claimed |-> FALSE, program |-> a[1], source |-> source,
                      inputs |-> IF unhashed THEN row.inputs_sha256 ELSE row.inputs])

-----------------------------------------------------------------------------
\* docs/ir-production.md has the runtime "strictly reload the IR" that the author's
\* source compiles to: the definition stored for an accepted source always loads.
StoredDefinitionLoads == row.definition # Unset => Loads(row.definition[1])
=============================================================================
