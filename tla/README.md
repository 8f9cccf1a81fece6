# A verification model of ThreadLang's durable execution

ThreadLang runs small LLM workflows: a program is a forward-only graph of steps
(`llm`, `route`, `agent`) ended by `emit`. Runs can be persisted in one SQLite
file, executed by CLI processes or by the worker pool of an HTTP server, and
resumed after a failure or a crash. This directory holds TLA+ models of that
machinery, TLC runs on small instances, and proofs checked by TLAPS.

## 1. Inventory

Paths are relative to `src/threadlang/`.

| component | state | operations | how it interacts | what makes it correct |
|---|---|---|---|---|
| run store (`store.py`, `RunStore`) | tables `runs`, `events`, `step_outputs`, `llm_journal` | enqueue (admission + prune), create, claim, requeue, bind identity, mark running/completed/failed, append event, checkpoint, journal row | every thread and process opens its own connection to one file; the database lock makes each statement or `BEGIN IMMEDIATE` transaction atomic | a run has one executor; a queued run is executable; results are final; queue and table are bounded |
| worker pool (`control.py`) | flock on `<store>.worker.lock`, stop flag, threads | start (lock, requeue, spawn), loop, `process_one`, stop (join with timeout, unlock), drain | claims from the store, executes through `run_durable` | no two pools; nothing stranded; accepted runs end |
| CLI (`cli.py`) | none of its own | create or resume a run and execute it, `--probe` N runs | `run_durable` without a worker lock: `mark_running` is a compare-and-swap | two resumes never execute one run; a failed run can be resumed |
| `run_durable` (`store.py`) | one attempt: loaded checkpoints, write-through trace | admission checks, identity, checkpoints, outcome | wraps the runtime and the LLM client | finished steps are reused, identity is stored before execution |
| journal (`journal.py`) | rows (fingerprint, occurrence) -> reply; per-attempt ordinals | look up, call, record | between the runtime and the client | recorded calls are not repeated; a call replays its own reply |
| runtime (`runtime.py`) | position, step outputs, messages of an agent | step loop, contract retry, route retry, tool loop, emit | calls client, tools, checkpoint hook, trace | only usable outputs are checkpointed; attempts agree on one path |
| identity of a run (`store.py`, `run_durable`) | columns `source`, `program_sha256`, `inputs_sha256`, `definition_json`, `definition_sha256`, `ir_version` | compare with what the attempt brings, bind what is missing | every attempt, from a worker or a command, passes it | a run executes one workflow on one input, and its owner can resume it |
| HTTP server (`server.py`) | admission limits | POST /runs, reads, health, serve | enqueues; owns a pool | admission is bounded (429), workflows and inputs are validated |
| parser and AST (`parser.py`, `ast.py`) | token position, locals of a body | lex, parse, validate | source -> `Program` | edges go forward, references go back; the program is what the text says |
| workflow IR (`ir.py`) | - | compile, canonical bytes, load, validate, back to `Program` | identity of a run; a second way in | same validation as source; lossless |
| LLM clients, tools (`llm.py`, `tools.py`) | registry | provider calls, tool calls, `validate_durable` | called by the runtime | external; at-least-once tools |
| trace, metrics (`trace.py`, `metrics.py`) | `events` rows of all attempts | append, fold | the runtime appends through the store | the fold agrees with what was executed |
| probe, dashboard | - | repeated runs, HTML | read the store | derived views only |
| support triage app, tests, benchmarks, docs | - | - | clients of the above | - |

What is hard here: several processes and threads act on one file between each
other's statements; a process may die between any two of them; `stop()` may time
out; a read row is stale by the time it is used; a resume has to make sense of
what several dead attempts left behind, with whatever file its caller brings; a
workflow has two ways in, and the runtime trusts both. `PROJECT.json` lists the hazards line by
line with the properties that cover them.

## 2. Modules

| module | models |
|---|---|
| `RunStore` | the `runs` table; one operator per statement or transaction of `store.py` |
| `WorkerPool` (extends `RunStore`) | server processes with a pool each: flock, start/stop, the thread loop, `process_one` and `run_durable(claimed=True)` |
| `CliRunner` (extends `RunStore`) | CLI processes in `run_durable(claimed=False)` |
| `ControlPlane` (extends both) | everything on one store, with crashes, operator stops and store calls that raise; the properties |
| `RunQueue` | the abstract specification of the store: a durable queue of runs |
| `DurableRun` | one run from the inside: attempts, step loop, checkpoints, journal |
| `RunWalk` | the abstract specification of a run: one walk of its workflow |
| `Metrics` (extends `DurableRun`) | the trace the attempts write, and the metrics folded from it |
| `Workflow` | the AST, the two validation passes, and what the runtime relies on |
| `Parser` (extends `Workflow`) | `parse_program` on one source text |
| `WorkflowIR` (extends `Workflow`) | `ir.py`: compile, canonical object, strict loading, bridge back |
| `Definition` (extends both) | what a run executes: submission, identity, attempts, older rows |
| `MCControlPlane`, `MCDurableRun`, `MCMetrics`, `MCDefinition` | symmetry sets; four sample workflows; 3,313 sample texts |
| `ControlPlane_proofs`, `ControlPlaneBounds_proofs`, `DurableRun_proofs`, `DurableCalls_proofs`, `RunWalk_proofs`, `Metrics_proofs`, `Definition_proofs`, `Parsing_proofs` | theorems about these modules |

The definitions named "Mutant" in the modules are plausible bugs of the
definition that follows them. No specification uses them; each shows that one
property can fail.

### ControlPlane and its parts

A row of `runs` is its `status` plus `bound`, "has source or definition_json",
which is the condition `requeue_orphans` tests. `none` and `deleted` stand for
rows that are not there; ids are uuid4, hence never minted twice. `created_at`
and `updated_at` matter only through `ORDER BY`, so they are kept as orders
(`createdBefore`, `endedBefore`); ties are not modelled.

Each store operator is one atomic step, because the connection is in autocommit
mode and the multi-statement operations open `BEGIN IMMEDIATE`.
`_enqueue_definition` is two steps: it takes the id and the time before it waits
for the lock (`MintRun`), then admits or refuses (`EnqueueRun`, `RefuseRun`).
The prune is part of the admission transaction.

A thread's `pc` has a value for every point at which another actor can act
between two of its store calls: opening its own `RunStore`, claim, second read,
execution, `mark_failed` in `run_durable`, `mark_failed` in `process_one`. The loop
swallows what an iteration raises, but the store is opened before its `try`:
`OpenStoreRaises` ends the thread for good, while its pool stays up and keeps the flock. `"marking"` and `"marked"` differ
only in whether the first of these recorded anything; `BeginRefused` is always
enabled, since the definition or the tools may be unusable. Execution is one
state: what happens inside is `DurableRun`'s subject. The kernel drops the flock
with its process (`EndProcess`). `StopJoins = FALSE` allows `stop()` to return
before its threads have ended; with TRUE no thread outlives the join.

A CLI process reads (`opened`), is admitted or turned away, binds the identity,
and takes the run only if the status is still the one it read. It may die
anywhere. `Legacy` rows are rows an older release left `running` without a
definition.

`Spec` lets servers and CLI processes meet in any way. `OrderlySpec` keeps two
rules that nothing in the program enforces and its operator can: no server
starts while a CLI process executes (`OrderlyStart`), and a failed run is resumed
once the thread that ran it has let it go (`OrderlyResume`).

### RunQueue

What a caller of a store may rely on, in six actions: `Submit` (which may
forget ended runs), `Create`, `Take`, `Finish`, `Abandon` (executors die, or give up
without an outcome), `Requeue` (only of runs nobody executes). `ControlPlane`
instantiates it with `status` as its state and whoever holds a run as the
run's executors. A claim is `Take`, and so is a CLI's compare-and-swap, from `created`
or `failed`; `mark_completed` or the first effective
`mark_failed` is `Finish`; a crash, the end of a stopped process, a CLI's death or two failing
marks are `Abandon`; `requeue_orphans` is `Requeue`; everything else stutters.

### DurableRun

`program` gives per step its kind, prompt, the steps it must render, and its
edges; `DurableRunAssumption` states what the parser's validation guarantees of
a program. A reply is a value a contract may ask for, such a value in a noisy
spelling, `Bad` (outside the contract), or `Tool` (a tool request). What a step
binds of a reply is `Output`: a `one_of` contract or a route binds the value as the
workflow spells it, another contract the reply stripped, a route's second miss the
reply stripped, every other step the reply as it is. The journal keeps replies,
the checkpoints keep outputs. The request that the journal fingerprints is the
prompt, the rendered outputs, and the turns so far. Model name and verb are part
of the prompt's identity. Each journal row also records the step and turn it was
written for, which the program does not store; only properties read them. After a
violated contract the second request quotes the rules, never the reply, so it is
the same for every `Bad` one.

`Raises` lets an attempt fail at any point: provider calls, journal and
checkpoint writes, and the trace append that accompanies every action may all
raise. `Crash` ends it without a word. The next attempt starts from `failed`,
`running` (requeued) or `created`; `ControlPlane` is about who may start it.
Optional references (`steps.x.output?`) render as empty when a step was skipped,
so they never fail and add nothing a path does not determine; they are left out.
Several tool calls in one turn are one result.

### RunWalk

The same run without attempts, journal, retries or replies: a position, the
outputs of the steps passed, and whether the output was emitted. A step passes
with an output that has an edge, once the steps it must render have been passed;
emit ends the walk. The position is mapped to `PathEnd`, the
first position that the edges of the checkpoints lead to and that has none
itself, which no variable of `DurableRun` holds between attempts; the results are the
checkpoints. `SettleStep` is a step of the walk, `EmitText` and `SettleEmit` end it, and everything
else, failures and new attempts included, leaves it where it is.

### Metrics

`Metrics` lets every step of `DurableRun` append what the code appends there, in
the code's order. A trace event is an autocommitted INSERT, so an attempt that is
interrupted leaves any prefix of what its step would have written. The table is
kept as a set: the events of repeated attempts coincide, and the fold's
`completed_steps` is a set in the code too. Of `compute_metrics` the model has
`completed_steps` and the model calls.

### Workflow, Parser, WorkflowIR, Definition

A source text is a record: context entries, steps with a *set* of clauses each,
emit. The productions of `_Parser` are actions; `ReadClause` takes any clause
that is left, which is the freedom the grammar gives the author, and the guards
are those of the `_parse_*` loops. A string literal is two numbers, because two
of them matter: how many elements the lexer's list has and how many characters
the value has, which differ by one for each escape the language does not know. A
label or an admissible reply carries the same two numbers beside its folded form
and its spelling, since both sides limit these too (`LabelsBounded`).
Sizes count literals, labels and admissible replies; names, models, patterns and
layout are taken as free. `IsTerm` ...
`IsProgram` say what a value of each dataclass of `ast.py` looks like; the texts
are assumed to hold such values, and the proofs are about every set of texts that does.

`WorkflowIR` has one operator per function of `ir.py`. An IR object is a record
whose fields are the keys; strict loading compares the key sets. The identifier
check knows names and the empty string. A JSON value of the wrong type is not
modelled.

`Definition` follows one run from its text to its last attempt. A row keeps the
identity columns; a hash stands for what it is the hash of. An attempt comes from
a worker (`WorkerClaims`, with the stored definition) or from a command
(`CliStart`, `CliResume`, with a file that holds this workflow or another, as
text or as IR, and with or without inputs); it is admitted or refused, binds
what is missing, is marked running, executes, and may crash between any two of
these. `CliStart`'s row has the hash of the inputs, which `create_run` computes,
and nothing of the workflow. `Inherit` puts rows there as older releases left them:
created, queued or failed, with the text or without, with the hashes of v0.12 or
without; the ghost `unhashed` remembers the last. A plain `--resume` brings the
inputs in the row, and `OwnerMayResume` is about that command. One process is at
the run at a time: who excludes whom is `ControlPlane`'s subject.

## 3. Runs

| run | instance | shows |
|---|---|---|
| `cp_served` | 4 runs, 2 servers x 2 workers, queue of 1, none retained, 1 interruption, 1 fault | implements `RunQueue`; one executor; the row of an executing run is running; only orphans requeued; nothing stranded beyond store faults; backlog and table bounds; results final |
| `cp_live` | 2 runs, 2 servers x 2 workers, 1 interruption, 2 faults | every accepted run ends, but for the two exceptions below |
| `cp_mixed` | 3 runs (1 legacy), 2 servers with stop timeouts, 2 CLIs, 1 interruption | what needs nobody's cooperation: one serving pool, queued runs executable, running runs recoverable, pruned runs gone |
| `cp_orderly` | 2 runs, 2 servers x 2 workers, 2 CLIs, 2 interruptions, 1 fault, under `OrderlySpec` | implements `RunQueue`; one executor, whether thread or CLI; the row of an executing run is running; only orphans requeued; results final |
| `dr_resume` | 4 workflows of 3 steps, 2 values, one of them in quotes and one within blanks besides, 2 agent turns, unlimited failures and crashes | implements `RunWalk`; finished steps not redone, checkpoints usable and on one path, requests quote what is stored, journal keys unique, recorded turns not asked again, replies replayed where recorded; steps and calls counted as executed |
| `wf_definition` | 3,313 texts of up to 3 steps, as source and as IR; runs of four of them, 2 inputs, any number of attempts | accepted workflows are what the runtime needs and what the text says; source and IR agree; a run executes one workflow, the bound one; its owner may resume it |
| `cp_stop_timeout`, `cp_second_mark`, `cp_cli_crash`, `dr_twins`, `dr_poisoned`, `wf_oversize` | one or two actors each | the disagreements of section 6 |

Bounds. Two servers are enough for a takeover, two workers for two claims, two
CLIs for two resumes of one run; a queue limit of one makes a requeue exceed it;
with nothing retained every admission prunes every ended run; four runs in `cp_served` fill queue
and threads and leave one to be refused or to trigger the prune; in `cp_orderly` two do,
since a second run is enough to prune or to queue beside the first. Interruptions
and faults are counted (`MaxInterruptions`, `MaxFaults`) because each one
multiplies the states; nothing else is cut. Ids are never reused, so no counter
grows. `cp_live` has two faults because two are what it takes to end both threads of a
pool. `DurableRun` needs no bound on attempts: its journal is finite because
ordinals restart with every attempt. Its four workflows have every kind of step,
routes with and without `else`, a required reference to a step that routing
skips, and two steps with the same request. `ToolResults = {seen}` assumes that
a tool answers the same call alike; without that a later request of the step
differs from the recorded one and is asked again, which the documentation's
"at-least-once" for tools allows. Deadlock is not checked: every submission may
be done and every process idle or ended, and a completed run is at its end.

`MCDefinition` builds every first step from sets of clauses that are right, or
have one missing, twice, of another kind of step, or out of its bounds, and
combines it with every other step; frames (context, names, emit) and lengths are
varied apart from that, and one workflow of three steps has a branch that joins
again. `Runnable` names the texts whose acceptance is followed by runs: that one,
and the three that are over the loader's limits: in size, by a literal, by a label. Limits are those of `policy.py`. An accepted or
refused text is an end, so deadlock is not checked there either.

The constraint is one store, hence servers and CLIs are modelled as able to
start at any time; only `cp_orderly` assumes the two rules of `OrderlySpec`, and
that `stop()` outlasts its threads is assumed where `StopJoins` is TRUE.

Fairness (`ControlPlane!FairSpec`). Some server keeps being started and keeps
going (weak fairness of `PoolRuns` over all servers: a supervisor restarts it,
which docs/production.md presumes), and each thread is scheduled (weak fairness
of `ThreadRuns`). Thread fairness includes that a provider call returns: clients
have timeouts. Nothing obliges anybody to submit. The interruptions are finite,
as "eventually" needs. `AcceptedRunEnds` allows two exceptions, each found as its
counterexample. A store fault may strand a run: where `process_one` refuses it
(`BeginRefused`) one `mark_failed` that raises is enough, after a failed execution it
takes both; the run stays running without an owner until a next start, which need
not come. And as many faults as a pool has threads may end all of them as they open
their stores (`Deserted`): the pool holds the flock, and serves nobody until it is
restarted. `is_healthy` reports that, and nothing in the program acts on it.
`DurableRun!FairSpec` says attempts are repeated and do not stall; only the
violated `FailingRunAsksAgain` uses it.

## 4. What is proved

Each theorem holds for every value of the constants that satisfies the
assumptions the modules state on them; the runs show the same formulas on their
instances first.

**The store and its executors** (`ControlPlane_proofs`)

1. `TypeCorrect`: TypeOK is inductive.
2. `OneServingPoolCorrect`, from `LockInv`: a pool between start() and the end of
   stop() holds the flock. No assumption on stop timeouts or CLIs.
3. `QueueIsExecutableCorrect`, `RunningIsRecoverableCorrect`, `PrunedStaysPrunedCorrect`,
   from `DefinitionInv`: a submitted id has no row yet, pending and running rows
   have definitions, and a CLI past its binding has bound its run or the run was
   pruned. The last part is what makes it inductive: `mark_running` does not
   look at the definition, the binding step before it does. `StoreStep` lists
   what any actor can do to the table, so each fact about the table is proved
   once per store operation and not once per action.
4. `ServedOneExecutor`, `ServedExecutingRowIsRunning`, `ServedCompletedIsFinal`,
   `ServedOnlyOrphansRequeued`, under `Served` (no CLIs, and joins outlast
   threads), from `ServedInv`: threads exist only in serving pools, and a
   thread's run is running, or already failed by its own mark, and held by nobody
   else. Requeueing happens while the flock is held and no thread exists
   (`NobodyWhileStarting`), which is why it takes nothing from anyone.
5. `CliOneExecutor`, `CliExecutingRowIsRunning`, `CliCompletedIsFinal`, under `CliOnly` (no servers), from
   `CliOnlyInv`: a holder's row is running and holders differ, so a
   compare-and-swap from `created` or `failed` meets no holder. (Without servers
   the rules of `OrderlySpec` are empty, so run `cp_orderly` checks these too.)
6. `OrderlyOneExecutor`, `OrderlyExecutingRowIsRunning`, `OrderlyCompletedIsFinal`,
   `OrderlyOnlyOrphansRequeued`: the same of servers and CLI processes together, when
   joins outlast threads and the two rules of `OrderlySpec` are kept. `MixedInv`
   joins the invariants of 4 and 5 with `Apart`: no thread and CLI process hold
   one run. A thread gains a run by a claim, and a pending row is no CLI's; a CLI
   gains one by its swap, and there the second rule is needed: the row may be
   failed while the thread has still to mark it a second time. The first rule
   makes a start find nobody (`StartFindsNobody`).
7. `OrderlyImplementsRunQueue`: initial states map to initial states, and every
   step is a step of `RunQueue` or a stutter. `MixedInv` gives the abstract
   guards: a requeued run has no executor, a taken one had none, an ended one had
   this one. `ServedImplementsRunQueue` follows: without CLIs there is nothing to keep the rules of.

`StopJoins` and the two rules are the boundary of the guarantee, and each is needed.
Run `cp_stop_timeout` shows what happens without the join and `cp_second_mark` without
the second rule. Without the first, `requeue_orphans` queues what a live CLI process
executes, since it resets every running row with a definition: with one
server and one CLI, TLC finds `OnlyOrphansRequeued` violated by `Spec`.

**How much there can be** (`ControlPlaneBounds_proofs`, under `Served`)

8. `ServedNothingStranded`. While a pool is live, the runs that are running
   without an owner are at most the store faults so far; while none is, nobody
   claims, and the next start requeues all of them.
9. `ServedBacklogBound`. `RunningBound`: the rows that are running are at most
   the threads of one pool plus the faults, since all threads are of the pool that holds
   the flock. An admission has counted fewer than `max_pending` pending rows, and
   no other step adds to pending and running together.
10. `ServedTableBound`. `updated_at` orders the ended rows totally, so the prune
   leaves at most `max_retained` of them (`PruneKeeps`); rows appear only in the
   transaction that prunes; what ends afterwards came out of the backlog of 9.

**One run from the inside** (`DurableRun_proofs`)

11. `TypeCorrect`, `FinishedStepIsNotRedoneCorrect`, `RequestsQuoteTheStoreCorrect`,
    `CheckpointIsUsableCorrect`, `CheckpointsFormAPathCorrect`,
    `JournalKeyIsUniqueCorrect`, `ReplayIsOwnIfDistinctCorrect`, for every program
    that satisfies `DurableRunAssumption` and any number of attempts. `StepForms`
    sorts the actions by what they do to a step (`Works`, `Ends`, or leave it), so
    that each invariant is proved per form. `WorkInv`: a step being worked
    on has no checkpoint. `PathInv`: the steps with outputs are linked by edges
    their outputs choose, and the current position is the open end; forward
    edges make a step that was left unreachable, in this attempt and in every later
    one. `JournalInv`: the call in flight has drawn its ordinal and nothing is
    recorded under it, so a new row has a new key. `QuoteInv`: what an attempt
    remembers of a step is that step's checkpoint, which no longer changes, so every
    recorded request quotes what is stored, however the reply was spelled
    (`OutputShape` says what a step can bind). `RowsAreLabelled`: if no
    two steps make equal requests, a row's key names the step that wrote it.
12. `OnlyInFlightCallRepeatsCorrect` (`DurableCalls_proofs`), under `Separate` (no
    two steps make the same request) and `SameTools` (a tool answers a repeated
    call alike). From `CallInv`: the rows of a step are one conversation, in which
    the turn after a reply is determined by the reply (`Fed`); the talk of an
    attempt is the beginning of it; references render from checkpoints, which no
    longer change; and an ordinal is drawn once per request and attempt. So an attempt that
    comes back finds every recorded turn. Without `Separate` the ordinals shift:
    run `dr_twins`.

**One run as one walk** (`RunWalk_proofs`)

13. `ImplementsRunWalkCorrect`, for every program and any number of attempts: every
    step of `DurableRun` is a step of `RunWalk` or a stutter. From `WalkInv`: the
    path of the checkpoints has an end (`PathHasEnd`) and only one
    (`FrontierIsUnique`), so the choice in `PathEnd` names it; an attempt that works
    on a step is there (`AtIsPathEnd`); and what was rendered when the step
    began was the attempt's own memory, which is what is stored
    (`RememberedIsStored`), hence outputs of steps the walk has passed. That gives the
    abstract guards: a step passes at the walk's position, with an edge for its
    output and its references behind it, and the output is emitted at emit, once.

**Its trace** (`Metrics_proofs`)

14. `TraceTypeCorrect`.
15. `StepsCompletedInLockstepCorrect`, from `LockstepInv`: what is reported as
    completed and has no checkpoint is where the path of the checkpoints leads
    (`Frontier`), and a path has one end (`FrontierIsUnique`, from `PathInv` of 11). In a completed
    run that end is `emit`, which completes no step.
16. `AnsweredCallsAreCountedCorrect`, under the assumptions of 12, from `CountInv`: a
    recorded call is counted once its step has a checkpoint, and until then its
    step is the end of the path, where the next attempt has to pass; the answer
    that settles a step is the last of its conversation (`NothingBeyond`), so
    none is left behind.

**What a run executes** (`Definition_proofs`, for every set of texts that are
values of the AST, any inputs, any number of attempts)

17. `BridgeIsLossless`: compiling a program to its canonical object and loading
    it back gives the program; built up from terms, rules and steps.
18. `AcceptedIsRuntimeReadyCorrect`: whatever either way in accepts has the shape
    the runtime relies on without checking: targets exist and lie ahead,
    references lie behind. For a source, from `ParserInv`, by which each
    production knows what the earlier ones checked (`CheckedIsReady`); for an IR object,
    because strict loading checks at least as much (`LoadedIsChecked`).
19. `StoredDefinitionLoadsIfBoundedCorrect`: a stored definition within the
    loader's limits, those on labels and admissible replies included, is one the loader
    takes (`CheckedIsLoaded`, the converse of `LoadedIsChecked`). Without the limits it is false: run `wf_oversize`.
20. `ExecutesWhatWasBoundCorrect`, `OneDefinitionPerRunCorrect`,
    `OwnerMayResumeCorrect`, from `RunInv`: the identity columns, once bound, are
    those of the workflow bound first (`RowInv`); an attempt past its checks brings
    exactly what the row records (`AttemptInv`); hence so does all that was executed.
    The hash of the inputs is that of the inputs in the row, from creation on, unless
    an older release left it out (`unhashed`); that is why a plain `--resume` passes.
21. `TypeCorrect`.

**What a text says** (`Parsing_proofs`, for every set of texts, as above)

22. `AcceptedIsAsWrittenCorrect`, from `SaidInv`: whatever order the clauses of a
    body come in, the locals of the body hold (`Holds`) what the clauses met
    so far bring, and no clause but `on` was met twice. The invariant is about the set
    of clauses because their order is the author's; arms alone are ordered in the
    program, and there the sets and the numbers of arms agree (`BodyIsSaid`).
23. `BothWaysAgreeCorrect`. That an accepted text's workflow loads follows from 22
    and 19. The other direction is part of `SaidInv`: a text that says a
    workflow which passes the checks (as one that loads does, 18) is refused by no production (`NotRefused`). For it,
    a clause not met yet has to be acceptable whatever came before
    (`ClauseIsTaken`), and the checks must not depend on the order of a route's arms
    (`SameStepsAreAsGood`), in which the program read and the one said may differ.

**Only model-checked.** Liveness (`AcceptedRunEnds`, and `FailingRunAsksAgain`, which
is violated): fairness and ENABLED are out of the prover's reach. Every other
property of a passing run is stated by a theorem. What the
other violated properties say is not provable, being false. The models use no
recursion and no induction over data: a property of a sequence is stated
position by position.

## 5. Not modelled

- The content of requests, prompts and replies, and the wording of errors and trace messages.
- HTTP framing, authentication, the read endpoints and the limits on request
  bodies and inputs; provider protocols and payload checks in `llm.py`; the
  calculator and the registry. These are I/O or pure functions on strings.
- `--probe`, the dashboard, `aggregate_metrics`, percentiles and the other
  counters of `compute_metrics`: folds over rows, without an effect on a run.
- JSON decoding, IR values of a wrong JSON type, spelling, token positions.
- `drain` (the loop of `process_one` without a pool) and runs without a store.
- Several tool calls in one turn, and tools that answer a repeated call differently.
- `append_event` selects the next number and inserts in two statements: they
  collide only when a run has two executors, which `OneExecutor` excludes where it holds.
- SQLite is taken as what `store.py` relies on: atomic, durable statements. With
  `synchronous = NORMAL` a power loss, unlike a process crash, may lose the last
  commits; that is not modelled.

Edges of the code that the abstraction hides, for whoever changes it:

- A row of an older release without an inputs hash accepts other inputs on its
  first resume, if it is `created` or has a source. From then on a plain `--resume`, which
  brings the inputs in the row, is refused: the owner has to repeat the others
  (`unhashed` in `OwnerMayResume`; `OneDefinitionPerRun` speaks of inputs from
  the moment they are recorded).
- A `--resume` loads the checkpoints before its compare-and-swap: if another resume
  takes the run and fails in between, the first one goes on without the other's
  checkpoints. `DurableRun` takes loading and marking as one step.
- A server that starts while a CLI process executes a run takes that run from it
  (`OrderlyStart` in section 4): nothing tells the two apart in the table.
- Two commands that are given one `created` id and different files both pass the
  identity check; the row may keep the identity of one and execute the other.
  `Definition` has one process at a time.
- Only the parser refuses an empty `expect {}`; as `"expect": []` the loader takes
  it. `AcceptedIsAsWritten` allows for it.
- A resumed route appends its "chose" event again, and a replayed call counts as
  a model call: counts in a trace are of attempts, not of the run.

## 6. Where the repository's words and the code differ

| run | words | code |
|---|---|---|
| `cp_cli_crash` | a crashed CLI run waits for `--resume` | `--resume` refuses a run that is `running` |
| `cp_stop_timeout` | a second pool fails rather than requeue active work | `stop()` unlocks after the join timeout, threads or not |
| `cp_second_mark` | the second mark_failed is harmless | it fails a run that was resumed in between |
| `dr_twins` | identical requests replay each its own response | occurrences shift when checkpointed steps are skipped |
| `dr_poisoned` | an invalid label must not poison every resume | the journal replays the invalid replies for ever |
| `wf_oversize` | an accepted source compiles to IR that is strictly reloaded | a term costs 3 bytes of source and 30 of IR, and an unknown escape, in a literal or a label, counts once in the lexer and twice in the loader: the stored definition may be refused |

## 7. Plan

Done: the store with its pools and commands, apart and together; the abstract queue and
the abstract walk with their refinements; the inside of a run; its trace and
the two counts that depend on the order of events; both ways in for a workflow, and what a run
executes; theorems for all of them, the cardinality bounds included.

Open, in the order of their worth:

1. Several commands on one `created` run in `Definition`.
2. The bounds of the queue and the table where CLI processes share the store: a CLI that
   dies leaves a row that a start requeues past admission.
3. Several tool calls per turn, and tools that change their answer.
4. `drain`; the aggregate over many runs, read while the prune runs.
