----------------------------- MODULE DurableRun -----------------------------
(***************************************************************************)
(* One persisted run: run_durable's attempts to execute a workflow over    *)
(* what they leave in the store (src/threadlang/store.py), the step loop   *)
(* of the runtime (src/threadlang/runtime.py) and the per-call response    *)
(* journal (src/threadlang/journal.py).                                    *)
(*                                                                         *)
(* An attempt ends by completing, by failing, or with its process.  What   *)
(* survives are the checkpoints, the journal and the status; the next      *)
(* attempt finds its way with these.  Who may start an attempt, and that   *)
(* there is one at a time, is ControlPlane's concern.                      *)
(*                                                                         *)
(* A model reply is abstracted to what the runtime does with it: a value a *)
(* contract may ask for, such a value in a noisy spelling, a reply outside *)
(* the contract, or a tool request.                                        *)
(***************************************************************************)
EXTENDS Naturals, Sequences, FiniteSets

CONSTANTS NSteps,      \* number of steps of the workflow
          Programs,    \* workflows: what a compiled Program says of each step
          Values,      \* what contracts ask for; for a route, labels
          Noisy,       \* a value with blanks around it, or in other case or quotes
          Strip, Fold, \* what str.strip() makes of a noisy reply, and its value
          ToolResults, \* results one tool call may have, from one execution to the next
          MaxIters     \* an agent's max_iters

Bad  == "bad"   \* outside the contract, or no label of the route
Tool == "tool"  \* an agent turn that asks for a tool
None == "none"  \* no output, no reply

Steps   == 1..NSteps
EmitPos == NSteps + 1
Texts   == Values \cup Noisy
Replies == Texts \cup {Bad, Tool}

\* "one_of": a contract with that rule; "expect": one with other rules only.
Contracts == {"one_of", "expect"}
Kinds     == Contracts \cup {"llm", "route", "agent", "emit_text", "emit_llm"}

Stripped(text)  == IF text \in Noisy THEN Strip[text] ELSE text
Canonical(text) == IF text \in Noisy THEN Fold[text] ELSE text

\* prompt: what the request says before references are rendered; refs: the steps
\* whose output it must render; next: the outgoing edge; arms, otherwise: a route's
\* edges by label and its `else`, 0 when there is none.  The parser only accepts
\* forward edges; position EmitPos is the emit block.
StepDefs(s) ==
  [kind : Kinds, prompt : Nat, refs : SUBSET (1..(s - 1)), next : (s + 1)..EmitPos,
   arms : UNION {[L -> (s + 1)..EmitPos] : L \in SUBSET Values},
   otherwise : {0} \cup (s + 1)..EmitPos]

ASSUME DurableRunAssumption ==
  /\ NSteps \in Nat \ {0} /\ MaxIters \in Nat \ {0}
  /\ {Bad, Tool, None} \cap Texts = {} /\ Values \cap Noisy = {}
  /\ Strip \in [Noisy -> Texts] /\ Fold \in [Noisy -> Values]
  /\ \A n \in Noisy : Stripped(Strip[n]) = Strip[n] /\ Canonical(Strip[n]) = Fold[n]
  /\ \A p \in Programs :
       /\ DOMAIN p = 1..EmitPos
       /\ \A s \in Steps : p[s] \in StepDefs(s) /\ p[s].kind \notin {"emit_text", "emit_llm"}
       /\ p[EmitPos].kind \in {"emit_text", "emit_llm"} /\ p[EmitPos].refs \subseteq Steps

VARIABLES
  program,     \* the workflow; a resume with another definition is refused
  status,      \* the run's status
  checkpoints, \* step_outputs rows
  journal,     \* llm_journal rows, each with the step and turn it was recorded for
  phase,       \* "none": no attempt; otherwise where the attempt is
  at,          \* the step the attempt is at
  resumed,     \* resume_outputs: the checkpoints the attempt started from
  outputs,     \* step_outputs of the attempt
  occurrences, \* JournaledLLMClient._occurrences
  talk,        \* the turns the current step has had, each <<reply, tool result>>
  reply        \* the reply in hand

stored  == <<program, status, checkpoints, journal>>
attempt == <<phase, at, resumed, outputs, occurrences, talk, reply>>
vars    == <<stored, attempt>>

Phases == {"none", "step", "asking", "inflight", "answered", "got"}
Nothing == [s \in Steps |-> None]
Done(f) == {s \in Steps : f[s] # None}

Idle ==
  /\ phase' = "none" /\ at' = 1 /\ resumed' = Nothing /\ outputs' = Nothing
  /\ occurrences' = <<>> /\ talk' = <<>> /\ reply' = None

Init ==
  /\ program \in Programs
  /\ status = "created" /\ checkpoints = Nothing /\ journal = {}
  /\ phase = "none" /\ at = 1 /\ resumed = Nothing /\ outputs = Nothing
  /\ occurrences = <<>> /\ talk = <<>> /\ reply = None

Here == program[at]

-----------------------------------------------------------------------------
(* Attempts. *)

\* Mutant: the attempt does not load the checkpoints.
StartAfresh ==
  /\ phase = "none" /\ status # "completed"
  /\ status' = "running"
  /\ phase' = "step"
  /\ UNCHANGED <<program, checkpoints, journal, at, resumed, outputs, occurrences, talk, reply>>

\* run_durable: load_step_outputs, mark the run running, wrap the client.
StartAttempt ==
  /\ phase = "none" /\ status # "completed"
  /\ status' = "running"
  /\ phase' = "step"
  /\ resumed' = checkpoints
  /\ UNCHANGED <<program, checkpoints, journal, at, outputs, occurrences, talk, reply>>

\* An exception reaches run_durable: mark_failed.
Fail ==
  /\ status' = "failed"
  /\ Idle
  /\ UNCHANGED <<program, checkpoints, journal>>

\* The process goes; the row stays `running` until it is requeued.
Crash ==
  /\ phase # "none"
  /\ Idle
  /\ UNCHANGED stored

-----------------------------------------------------------------------------
(* The step loop. *)

\* _route_target, or the step's next_target; 0 when no arm matches and there is
\* no else.
Target(s, out) ==
  IF program[s].kind # "route" THEN program[s].next
  ELSE IF out \in DOMAIN program[s].arms THEN program[s].arms[out]
  ELSE program[s].otherwise

\* The current step's output is `out`: follow its edge.
Leave(out) ==
  /\ Target(at, out) # 0
  /\ at' = Target(at, out)
  /\ outputs' = [outputs EXCEPT ![at] = out]
  /\ phase' = "step" /\ talk' = <<>> /\ reply' = None

\* Mutant: a skipped step falls through to the one after it.
SkipInOrder ==
  /\ phase = "step" /\ at \in Done(resumed)
  /\ at' = at + 1
  /\ outputs' = [outputs EXCEPT ![at] = resumed[at]]
  /\ UNCHANGED <<stored, phase, resumed, occurrences, talk, reply>>

SkipCheckpointed ==
  /\ phase = "step" /\ at \in Done(resumed)
  /\ Leave(resumed[at])
  /\ UNCHANGED <<stored, resumed, occurrences>>

\* Mutant: a reference to a step that did not run renders as an optional one does.
RendersOptional == Here.refs \subseteq Steps

Renders == Here.refs \subseteq Done(outputs)

BeginStep ==
  /\ phase = "step" /\ at \notin Done(resumed)
  /\ Here.kind # "emit_text" /\ Renders
  /\ phase' = "asking"
  /\ UNCHANGED <<stored, at, resumed, outputs, occurrences, talk, reply>>

\* A reference to a step that routing skipped.
RenderFails ==
  /\ phase = "step" /\ at \notin Done(resumed) /\ ~Renders
  /\ Fail

EmitText ==
  /\ phase = "step" /\ Here.kind = "emit_text" /\ Renders
  /\ status' = "completed"
  /\ Idle
  /\ UNCHANGED <<program, checkpoints, journal>>

-----------------------------------------------------------------------------
(* A model call through JournaledLLMClient. *)

\* Mutant: the fingerprint leaves the prompt out.
RequestWithoutPrompt == <<[s \in Here.refs |-> outputs[s]], talk>>

\* The fingerprinted request: prompt, rendered references, the turns so far.
Request == <<Here.prompt, [s \in Here.refs |-> outputs[s]], talk>>

\* Mutant: the ordinal counts the rows of the table, those of earlier attempts too.
RowsSoFar(req) == Cardinality({row \in journal : row.request = req})

Occurrence(req) == IF req \in DOMAIN occurrences THEN occurrences[req] ELSE 0

Recorded(req) == {row \in journal : row.request = req /\ row.occurrence = Occurrence(req)}

Ordinal(req) ==
  occurrences' = [q \in DOMAIN occurrences \cup {req} |->
                    IF q = req THEN Occurrence(req) + 1 ELSE occurrences[q]]

Replay ==
  /\ phase = "asking"
  /\ \E row \in Recorded(Request) : reply' = row.reply
  /\ Ordinal(Request)
  /\ phase' = "got"
  /\ UNCHANGED <<stored, at, resumed, outputs, talk>>

CallProvider ==
  /\ phase = "asking" /\ Recorded(Request) = {}
  /\ Ordinal(Request)
  /\ phase' = "inflight"
  /\ UNCHANGED <<stored, at, resumed, outputs, talk, reply>>

ProviderAnswers ==
  /\ phase = "inflight"
  /\ reply' \in CASE Here.kind = "agent"                       -> Texts \cup {Tool}
                  [] Here.kind \in Contracts \cup {"route"} -> Texts \cup {Bad}
                  [] OTHER                                   -> Texts
  /\ phase' = "answered"
  /\ UNCHANGED <<stored, at, resumed, outputs, occurrences, talk>>

\* Mutant: every answer is recorded as a first occurrence.
RecordAsFirst ==
  /\ phase = "answered"
  /\ journal' = journal \cup
       {[request |-> Request, occurrence |-> 0, reply |-> reply,
         step |-> at, turn |-> Len(talk) + 1]}
  /\ phase' = "got"
  /\ UNCHANGED <<program, status, checkpoints, at, resumed, outputs, occurrences, talk, reply>>

\* save_llm_journal_entry under the ordinal the call was looked up with.
RecordAnswer ==
  /\ phase = "answered"
  /\ journal' = journal \cup
       {[request |-> Request, occurrence |-> Occurrence(Request) - 1, reply |-> reply,
         step |-> at, turn |-> Len(talk) + 1]}
  /\ phase' = "got"
  /\ UNCHANGED <<program, status, checkpoints, at, resumed, outputs, occurrences, talk, reply>>

\* The provider or a store write raises: the answer's, a checkpoint's, the output's,
\* or a trace event's, and those are written all along the attempt.
Raises == phase # "none" /\ Fail

-----------------------------------------------------------------------------
(* What the runtime does with a reply. *)

\* What the step binds of the reply in hand: a contract's value as the workflow spells
\* it, or the reply stripped; a route's label, or when there is none the reply
\* stripped; of other steps the reply as it is.
Output ==
  CASE Here.kind = "one_of" -> Canonical(reply)
    [] Here.kind = "expect" -> Stripped(reply)
    [] Here.kind = "route"  -> IF Canonical(reply) \in DOMAIN Here.arms THEN Canonical(reply)
                               ELSE Stripped(reply)
    [] OTHER                -> reply

Acceptable ==
  CASE Here.kind = "route" -> Canonical(reply) \in DOMAIN Here.arms
    [] OTHER               -> reply \in Texts

\* A contract violation, or no label, is fed back once; the second request says which
\* rules there are, and of the reply not more than its length.
Retry ==
  /\ phase = "got" /\ Here.kind \in Contracts \cup {"route"}
  /\ ~Acceptable /\ talk = <<>>
  /\ talk' = <<<<Bad, None>>>>
  /\ phase' = "asking" /\ reply' = None
  /\ UNCHANGED <<stored, at, resumed, outputs, occurrences>>

\* Mutant: `range(max_iters + 1)`.
RunToolsOnceMore ==
  /\ phase = "got" /\ Here.kind = "agent" /\ reply = Tool
  /\ Len(talk) < MaxIters
  /\ \E result \in ToolResults : talk' = Append(talk, <<reply, result>>)
  /\ phase' = "asking" /\ reply' = None
  /\ UNCHANGED <<stored, at, resumed, outputs, occurrences>>

\* The tools of an agent turn run, and their results join the messages.
RunTools ==
  /\ phase = "got" /\ Here.kind = "agent" /\ reply = Tool
  /\ Len(talk) + 1 < MaxIters
  /\ \E result \in ToolResults : talk' = Append(talk, <<reply, result>>)
  /\ phase' = "asking" /\ reply' = None
  /\ UNCHANGED <<stored, at, resumed, outputs, occurrences>>

\* The reply becomes the step's output: a route's second miss is kept.
Settles ==
  /\ phase = "got" /\ at \in Steps
  /\ Acceptable \/ (Here.kind = "route" /\ talk # <<>>)

\* Mutants: the checkpoint is written before the edge is resolved; the attempt goes on
\* with the output and stores the reply.
SettleUnresolved ==
  /\ Settles
  /\ checkpoints' = [checkpoints EXCEPT ![at] = Output]
  /\ IF Target(at, Output) = 0
     THEN status' = "failed" /\ Idle /\ UNCHANGED <<program, journal>>
     ELSE Leave(Output) /\ UNCHANGED <<program, status, journal, resumed, occurrences>>
SettleRaw ==
  /\ Settles
  /\ Leave(Output)
  /\ checkpoints' = [checkpoints EXCEPT ![at] = reply]
  /\ UNCHANGED <<program, status, journal, resumed, occurrences>>

\* The checkpoint is written once the outgoing edge is resolved.
SettleStep ==
  /\ Settles
  /\ Leave(Output)
  /\ checkpoints' = [checkpoints EXCEPT ![at] = Output]
  /\ UNCHANGED <<program, status, journal, resumed, occurrences>>

SettleEmit ==
  /\ phase = "got" /\ at = EmitPos
  /\ status' = "completed"
  /\ Idle
  /\ UNCHANGED <<program, checkpoints, journal>>

\* No edge for the label, a contract violated twice, or max_iters turns spent.
StepFails ==
  /\ phase = "got" /\ at \in Steps
  /\ IF Settles THEN Target(at, Output) = 0
     ELSE \/ Here.kind \in Contracts /\ talk # <<>>
          \/ Here.kind = "agent" /\ Len(talk) + 1 >= MaxIters
  /\ Fail

AttemptStep ==
  \/ SkipCheckpointed \/ BeginStep \/ RenderFails \/ EmitText
  \/ Replay \/ CallProvider \/ ProviderAnswers \/ RecordAnswer \/ Raises
  \/ Retry \/ RunTools \/ SettleStep \/ SettleEmit \/ StepFails

Next == StartAttempt \/ AttemptStep \/ Crash

Spec == Init /\ [][Next]_vars
(* Attempts are made again until the run completes, and do not stall. *)
FairSpec == Spec /\ WF_vars(StartAttempt) /\ WF_vars(AttemptStep)

-----------------------------------------------------------------------------
TurnLimit == IF MaxIters > 2 THEN MaxIters ELSE 2

\* The store holds outputs and answers, turns stay within their limit, and an attempt
\* is at a position of the workflow.
TypeOK ==
  /\ program \in Programs
  /\ status \in {"created", "running", "failed", "completed"}
  /\ checkpoints \in [Steps -> Replies \cup {None}]
  /\ \A row \in journal :
       row.reply \in Replies /\ row.step \in 1..EmitPos /\ row.turn \in 1..TurnLimit
  /\ phase \in Phases
  /\ at \in 1..EmitPos
  /\ resumed \in [Steps -> Replies \cup {None}]
  /\ outputs \in [Steps -> Replies \cup {None}]
  /\ talk \in Seq(Replies \X (ToolResults \cup {None}))
  /\ reply \in Replies \cup {None}

\* "finished steps are reused" (README.md): no attempt works on a step that has a
\* checkpoint.
FinishedStepIsNotRedone ==
  phase \in {"asking", "inflight", "answered", "got"} => at \notin Done(checkpoints)

\* "an invalid route label would poison the checkpoint" (runtime.py): a stored
\* output has an edge to follow and satisfies its step's contract as it is stored, in
\* the contract's own spelling, since a resume does not look at it again.
CheckpointIsUsable ==
  \A s \in Done(checkpoints) :
    LET kind == program[s].kind
        out  == checkpoints[s]
    IN  /\ Target(s, out) # 0
        /\ kind # "route" => out \in Texts
        /\ kind = "one_of" => out \in Values
        /\ kind \in {"expect", "route"} => Stripped(out) = out

\* However many attempts wrote them, the checkpoints lie on one path from the
\* first step, and a completed run's path reaches emit.
CheckpointsFormAPath ==
  LET D == Done(checkpoints)
      Edge(s) == Target(s, checkpoints[s])
  IN  /\ \A s \in D \ {1} : \E q \in D : Edge(q) = s
      /\ \A s, q \in D : Edge(s) = Edge(q) => s = q
      /\ status = "completed" => \E s \in D : Edge(s) = EmitPos

\* Where the path of the checkpoints leads.
PathEnd ==
  LET D == Done(checkpoints)
  IN  IF D = {} THEN 1
      ELSE CHOOSE s \in (1..EmitPos) \ D : \E q \in D : Target(q, checkpoints[q]) = s

Walk == INSTANCE RunWalk WITH
          here <- PathEnd, results <- checkpoints, over <- (status = "completed")

\* "completed steps are skipped and reused, execution continues from the first
\* incomplete one" (docs/design/phase-2-durability.md): all attempts together are one
\* walk of the workflow.
ImplementsRunWalk == Walk!Spec

\* "a resumed attempt hashes an identical request identically" (journal.py): every
\* request an attempt has had answered quotes the outputs as they are stored, so an
\* attempt that reads them back makes the same request and finds its answer.
RequestsQuoteTheStore ==
  \A row \in journal : \A s \in DOMAIN row.request[2] : row.request[2][s] = checkpoints[s]

\* The journal has one row per key, though the table has no such constraint: which
\* row a replay reads is determined.
JournalKeyIsUnique ==
  \A a, b \in journal : a.request = b.request /\ a.occurrence = b.occurrence => a = b

\* "at most the interrupted step's single in-flight call re-executes" (store.py):
\* the provider is not called for a turn whose answer was recorded.
OnlyInFlightCallRepeats ==
  [][phase = "asking" /\ phase' = "inflight"
       => \A row \in journal : <<row.step, row.turn>> # <<at, Len(talk) + 1>>]_vars

\* "each replaying its own response" (journal.py): a call replays what was recorded
\* for that step and turn.
ReplayIsOwn ==
  [][phase = "asking" /\ phase' = "got"
       => \A row \in Recorded(Request) : row.step = at /\ row.turn = Len(talk) + 1]_vars

DistinctPrompts ==
  \A s, q \in 1..EmitPos : program[s].prompt = program[q].prompt => s = q

\* The same, of workflows in which no two steps issue the same request.
ReplayIsOwnIfDistinct ==
  [][phase = "asking" /\ phase' = "got" /\ DistinctPrompts
       => \A row \in Recorded(Request) : row.step = at /\ row.turn = Len(talk) + 1]_vars

\* "Otherwise an invalid route label would poison the checkpoint and every resume
\* would deterministically reuse it" (runtime.py): a run whose attempts keep failing
\* on the model's replies keeps asking the model.
FailingRunAsksAgain == []<><<StepFails>>_vars => []<><<ProviderAnswers>>_vars
=============================================================================
