------------------------------- MODULE Metrics -------------------------------
(***************************************************************************)
(* The trace of a persisted run (_WriteThroughTrace and the append sites   *)
(* of src/threadlang/runtime.py) and the metrics folded from it            *)
(* (src/threadlang/metrics.py).  Every attempt appends to the run's one    *)
(* events table, so what a resumed run reports is a fold over all of its   *)
(* attempts.                                                               *)
(*                                                                         *)
(* An event is a kind, a step and a turn.  The table is kept as the set of *)
(* events some attempt has written: what the fold counts per occurrence it *)
(* counts at least once for each of these.                                 *)
(***************************************************************************)
EXTENDS DurableRun, SequencesExt

VARIABLE events

tracedVars == <<vars, events>>

EventKinds ==
  {"resumed", "call", "started", "turn", "tool", "finished", "produced", "rejected", "chose",
   "emitted"}

\* Every event names a position of the workflow and a turn within its limit.
TraceTypeOK == events \subseteq EventKinds \X (1..EmitPos) \X (0..TurnLimit)

TracedInit == Init /\ events = {}

-----------------------------------------------------------------------------
(* What is appended, in order, by the step the attempt is about to take. *)

Event(kind, turn) == <<kind, at, turn>>

\* A route step that leaves has chosen its edge, a checkpointed one once more.
WritesChoice(out) ==
  IF Here.kind = "route" /\ Target(at, out) # 0 THEN <<Event("chose", 0)>> ELSE <<>>

WritesOnArrival ==
  IF at \in Done(resumed) THEN <<Event("resumed", 0)>> \o WritesChoice(resumed[at])
  ELSE IF ~Renders THEN <<>>
  ELSE CASE Here.kind = "agent"     -> <<Event("started", 0)>>
         [] Here.kind = "emit_text" -> <<Event("emitted", 0)>>
         [] OTHER                   -> <<Event("call", 1)>>

\* Mutant: a turn is traced when its tools run.
WritesOnAgentTurnLate ==
  IF reply = Tool THEN <<Event("turn", Len(talk) + 1), Event("tool", Len(talk) + 1)>>
  ELSE <<Event("finished", 0)>>

\* A turn is traced when it is answered.
WritesOnAgentTurn ==
  <<Event("turn", Len(talk) + 1)>> \o
  (IF reply = Tool THEN <<Event("tool", Len(talk) + 1)>> ELSE <<Event("finished", 0)>>)

\* Mutant: the attempt number is counted from the next one.
WritesOnRejectionAhead ==
  <<Event("rejected", Len(talk) + 2)>> \o
  (IF talk = <<>> THEN <<Event("call", 2)>> ELSE WritesChoice(Output))

\* A rejected reply is asked for again once.
WritesOnRejection ==
  <<Event("rejected", Len(talk) + 1)>> \o
  (IF talk = <<>> THEN <<Event("call", 2)>> ELSE WritesChoice(Output))

WritesOnReply ==
  CASE Here.kind = "agent"    -> WritesOnAgentTurn
    [] Here.kind = "emit_llm" -> <<Event("emitted", 0)>>
    [] Here.kind = "route"    -> IF Acceptable THEN WritesChoice(Output) ELSE WritesOnRejection
    [] OTHER                  -> IF Acceptable THEN <<Event("produced", 0)>>
                                 ELSE WritesOnRejection

Writes ==
  CASE phase = "step" -> WritesOnArrival
    [] phase = "got"  -> WritesOnReply
    [] OTHER          -> <<>>

\* Each event is one INSERT: an attempt that is interrupted leaves the ones it got to.
Interrupted ==
  /\ Raises \/ Crash
  /\ \E n \in 0..Len(Writes) : events' = events \cup ToSet(SubSeq(Writes, 1, n))

Traced ==
  /\ \/ SkipCheckpointed \/ BeginStep \/ RenderFails \/ EmitText
     \/ Replay \/ CallProvider \/ ProviderAnswers \/ RecordAnswer
     \/ Retry \/ RunTools \/ SettleStep \/ SettleEmit \/ StepFails
  /\ events' = events \cup ToSet(Writes)

TracedNext == (StartAttempt /\ UNCHANGED events) \/ Traced \/ Interrupted

TracedSpec == TracedInit /\ [][TracedNext]_tracedVars

-----------------------------------------------------------------------------
(* compute_metrics. *)

\* Mutant: the fold does not know how an agent step ends.
CompletedStepsWithoutAgents ==
  {e[2] : e \in {f \in events : f[1] \in {"produced", "chose", "resumed"}}}

completed_steps ==
  {e[2] : e \in {f \in events : f[1] \in {"produced", "finished", "chose", "resumed"}}}

\* model_calls: "Calling LLM ..." and agent turns.
CountedCalls == {<<e[2], e[3]>> : e \in {f \in events : f[1] \in {"call", "turn"}}}

\* "this stays in lockstep with execution" (metrics.py): the steps a run reports as
\* completed are its checkpointed ones and at most the one an attempt was settling,
\* and for a completed run exactly the ones on its path.
StepsCompletedInLockstep ==
  /\ Done(checkpoints) \subseteq completed_steps
  /\ Cardinality(completed_steps \ Done(checkpoints)) <= 1
  /\ status = "completed" => completed_steps = Done(checkpoints)

\* No model call a run paid for is missing from its metrics: whatever attempts died
\* between recording an answer and tracing it, a completed run counts every answer.
AnsweredCallsAreCounted ==
  status = "completed" => \A row \in journal : <<row.step, row.turn>> \in CountedCalls
=============================================================================
