--------------------------- MODULE RunWalk_proofs ---------------------------
(***************************************************************************)
(* That a persisted run is one walk of its workflow: DurableRun implements *)
(* RunWalk, with the end of the checkpoints' path as the walk's position.  *)
(***************************************************************************)
EXTENDS DurableCalls_proofs

USE DEF Steps, EmitPos, Replies, Phases

-----------------------------------------------------------------------------
(* The path of the checkpoints and its end. *)

\* emit text { ... } calls no model.
TextIsNotAsked == Working => Here.kind # "emit_text"

\* Where the path of the checkpoints leads.
Frontier(s) ==
  /\ s \notin Done(checkpoints)
  /\ IF Done(checkpoints) = {} THEN s = 1 ELSE \E q \in Done(checkpoints) : Edge(q) = s

PathBase == Typed /\ WorkInv /\ CheckpointIsUsable /\ PathInv /\ TextIsNotAsked

\* A path has one end.
LEMMA FrontierIsUnique ==
  ASSUME PathBase, NEW s, NEW q, Frontier(s), Frontier(q)
  PROVE  s = q
<1>1. CASE Done(checkpoints) = {}
  BY <1>1 DEF Frontier
<1>2. CASE Done(checkpoints) # {}
  <2>1. PICK a \in Done(checkpoints) : Edge(a) = s
    BY <1>2 DEF Frontier
  <2>2. PICK b \in Done(checkpoints) : Edge(b) = q
    BY <1>2 DEF Frontier
  <2>3. a \in Nat /\ b \in Nat
    BY DurableRunAssumption DEF Done
  <2>4. a <= b /\ b <= a
    BY <2>1, <2>2 DEF PathBase, PathInv, Frontier
  <2> QED  BY <2>1, <2>2, <2>3, <2>4
<1> QED  BY <1>1, <1>2

\* The attempt is on the path or at its end.
LEMMA AtIsOnPath ==
  ASSUME PathBase, phase # "none"
  PROVE  at \in Done(checkpoints) \/ Frontier(at)
BY DEF PathBase, PathInv, Frontier

\* A settled step was the end of the path; other steps leave it where it is.
LEMMA FrontierKept ==
  ASSUME PathBase, [Next]_vars
  PROVE  \/ /\ Done(checkpoints)' = Done(checkpoints) /\ \A s : Frontier(s)' = Frontier(s)
            /\ ~SettleStep
         \/ /\ SettleStep /\ Frontier(at) /\ Done(checkpoints)' = Done(checkpoints) \cup {at}
            /\ at \in Steps
<1>1. CASE SettleStep
  <2>1. /\ at \in Steps /\ at \notin Done(checkpoints)
        /\ Done(checkpoints') = Done(checkpoints) \cup {at}
    BY <1>1, SettlesOpenStep DEF PathBase
  <2>2. Frontier(at)
    BY <1>1, <2>1, AtIsOnPath DEF SettleStep, Settles
  <2> QED  BY <1>1, <2>1, <2>2
<1>2. CASE UNCHANGED <<program, checkpoints>> /\ ~SettleStep
  <2>1. Done(checkpoints)' = Done(checkpoints) /\ \A s : Edge(s)' = Edge(s)
    BY <1>2 DEF Done, Edge, Target
  <2> QED  BY <1>2, <2>1 DEF Frontier
<1>3. SettleStep \/ UNCHANGED <<program, checkpoints>>
  BY StepForms DEF PathBase, StartAttempt, SkipCheckpointed, Ends, Works, stored, vars
<1> QED  BY <1>1, <1>2, <1>3

\* What DurableRun_proofs shows of a run, kept by every step.
LEMMA PathBaseStep == PathBase /\ [Next]_vars => PathBase'
<1> SUFFICES ASSUME PathBase, [Next]_vars PROVE PathBase'
  OBVIOUS
<1>1. Typed' /\ WorkInv' /\ CheckpointIsUsable' /\ PathInv'
  BY NextTyped, WorkInvStep, UsableStep, PathInvStep DEF PathBase
<1>2. TextIsNotAsked'
  BY DEF PathBase, TextIsNotAsked, Working, Here, Next, AttemptStep, StartAttempt, Crash,
     SkipCheckpointed, BeginStep, RenderFails, EmitText, Replay, CallProvider, ProviderAnswers,
     RecordAnswer, Raises, Retry, RunTools, SettleStep, SettleEmit, StepFails, Fail, Idle, Leave,
     stored, vars, attempt
<1> QED  BY <1>1, <1>2 DEF PathBase

\* It holds before the first attempt.
LEMMA PathBaseInit == Init => PathBase
<1> SUFFICES ASSUME Init PROVE PathBase
  OBVIOUS
<1>1. Typed /\ WorkInv
  BY InitWork
<1>2. CheckpointIsUsable /\ PathInv /\ TextIsNotAsked
  BY NothingDone DEF Init, CheckpointIsUsable, PathInv, TextIsNotAsked, Working
<1> QED  BY <1>1, <1>2 DEF PathBase

\* The path has an end: steps are finitely many and edges lead forward.
PathHasEnd == \E s \in 1..EmitPos : Frontier(s)

\* Settling a step puts the end of the path where the attempt goes next.
LEMMA SettlingMovesEnd ==
  ASSUME PathBase, PathBase', SettleStep
  PROVE  Frontier(at)' /\ at' \in 1..EmitPos
<1>1. /\ at \in Steps /\ at \notin Done(checkpoints)
      /\ Done(checkpoints') = Done(checkpoints) \cup {at}
  BY SettlesOpenStep DEF PathBase
<1>2. phase # "none" /\ phase' = "step" /\ at' \in (at + 1)..EmitPos
  BY <1>1, LeavesForward DEF PathBase, SettleStep, Settles, Leave
<1>3. \A q \in Done(checkpoints) : q < at /\ q \in Nat
  BY <1>1, <1>2, DurableRunAssumption DEF PathBase, PathInv, Done
<1>4. at' # 1 /\ at' # at /\ at' \in 1..EmitPos /\ at' \notin Done(checkpoints)'
  BY <1>1, <1>2, <1>3, DurableRunAssumption
<1>5. \E q \in Done(checkpoints)' : Edge(q)' = at'
  BY <1>2, <1>4 DEF PathBase, PathInv
<1> QED  BY <1>4, <1>5 DEF Frontier

\* Every step keeps an end, and only a settled step moves it.
LEMMA PathHasEndStep == PathBase /\ PathHasEnd /\ [Next]_vars => PathHasEnd'
<1> SUFFICES ASSUME PathBase, PathHasEnd, [Next]_vars PROVE PathHasEnd'
  OBVIOUS
<1>1. CASE SettleStep
  BY <1>1, SettlingMovesEnd, PathBaseStep DEF PathHasEnd
<1>2. CASE ~SettleStep
  BY <1>2, FrontierKept DEF PathHasEnd
<1> QED  BY <1>1, <1>2

\* PathEnd is that end.
LEMMA PathEndIsFrontier ==
  ASSUME PathBase, PathHasEnd
  PROVE  Frontier(PathEnd) /\ \A s : Frontier(s) => s = PathEnd
<1> DEFINE D == Done(checkpoints)
<1>1. CASE D = {}
  BY <1>1 DEF PathEnd, Frontier
<1>2. CASE D # {}
  <2>1. \E s \in (1..EmitPos) \ D : \E q \in D : Target(q, checkpoints[q]) = s
    BY <1>2 DEF PathHasEnd, Frontier, Edge
  <2>2. /\ PathEnd \in (1..EmitPos) \ D
        /\ \E q \in D : Target(q, checkpoints[q]) = PathEnd
    BY <1>2, <2>1 DEF PathEnd
  <2>3. Frontier(PathEnd)
    BY <1>2, <2>2 DEF Frontier, Edge
  <2> QED  BY <2>3, FrontierIsUnique
<1> QED  BY <1>1, <1>2, FrontierIsUnique

\* An attempt at a step without a checkpoint is at the end of the path.
LEMMA AtIsPathEnd ==
  PathBase /\ PathHasEnd /\ phase # "none" /\ at \notin Done(checkpoints) => at = PathEnd
BY AtIsOnPath, PathEndIsFrontier

-----------------------------------------------------------------------------
(* What a step renders is there. *)

WalkInv ==
  /\ PathBase /\ PathHasEnd /\ RememberedIsStored
  /\ Working => Renders

\* References that could be rendered when the step began still can.
LEMMA RendersStep == (Working => Renders) /\ [Next]_vars => (Working => Renders)'
<1> SUFFICES ASSUME Working => Renders, [Next]_vars, Working' PROVE Renders'
  OBVIOUS
<1>1. CASE BeginStep
  BY <1>1 DEF BeginStep, Renders, Here, stored
<1>2. CASE Working /\ UNCHANGED <<program, at, outputs>>
  BY <1>2 DEF Renders, Here, Done
<1> QED
  BY <1>1, <1>2 DEF Working, Next, AttemptStep, StartAttempt, Crash, SkipCheckpointed, RenderFails,
     EmitText, Replay, CallProvider, ProviderAnswers, RecordAnswer, Raises, Retry, RunTools,
     SettleStep, SettleEmit, StepFails, Fail, Idle, Leave, stored, vars, attempt

\* WalkInv holds before the first attempt.
LEMMA WalkInvInit == Init => WalkInv
<1> SUFFICES ASSUME Init PROVE WalkInv
  OBVIOUS
<1>1. PathBase
  BY PathBaseInit
<1>2. Frontier(1) /\ 1 \in 1..EmitPos
  BY NothingDone, DurableRunAssumption DEF Init, Frontier
<1>3. RememberedIsStored /\ ~Working
  BY RememberedInit DEF Init, Working
<1> QED  BY <1>1, <1>2, <1>3 DEF WalkInv, PathHasEnd

\* Every step of an attempt keeps it.
LEMMA WalkInvStep == WalkInv /\ [Next]_vars => WalkInv'
<1> SUFFICES ASSUME WalkInv, [Next]_vars PROVE WalkInv'
  OBVIOUS
<1>1. PathBase' /\ PathHasEnd'
  BY PathBaseStep, PathHasEndStep DEF WalkInv
<1>2. RememberedIsStored'
  BY RememberedStep DEF WalkInv, PathBase
<1>3. (Working => Renders)'
  BY RendersStep DEF WalkInv
<1> QED  BY <1>1, <1>2, <1>3 DEF WalkInv

\* What an attempt can render, the walk has passed.
LEMMA RenderedIsPassed ==
  ASSUME RememberedIsStored, Renders
  PROVE  program[at].refs \subseteq Walk!Passed
BY DEF RememberedIsStored, Renders, Here, Done, Walk!Passed, None

-----------------------------------------------------------------------------
(* Each step of an attempt is a step of the walk, or none. *)

\* Settling a step passes it.
LEMMA SettlingIsPass ==
  ASSUME WalkInv, WalkInv', SettleStep
  PROVE  Walk!Next
<1>1. /\ at \in Steps /\ at \notin Done(checkpoints) /\ Output \in Replies
      /\ checkpoints' = [checkpoints EXCEPT ![at] = Output]
      /\ Done(checkpoints') = Done(checkpoints) \cup {at}
  BY SettlesOpenStep DEF WalkInv, PathBase
<1>2. /\ phase = "got" /\ phase' = "step" /\ UNCHANGED <<program, status>>
      /\ Target(at, Output) # 0 /\ at' = Target(at, Output)
  BY DEF SettleStep, Settles, Leave
<1>3. PathEnd = at /\ status = "running"
  BY <1>1, <1>2, AtIsPathEnd DEF WalkInv, PathBase, WorkInv
<1>4. PathEnd' = at'
  <2>1. Frontier(at)'
    BY SettlingMovesEnd DEF WalkInv
  <2>2. at' \notin Done(checkpoints)' /\ phase' # "none"
    BY <1>2, <2>1 DEF Frontier
  <2>3. (PathBase /\ PathHasEnd /\ phase # "none" /\ at \notin Done(checkpoints) => at = PathEnd)'
    BY AtIsPathEnd, PTL
  <2> QED  BY <2>2, <2>3 DEF WalkInv
<1>5. program[at].refs \subseteq Walk!Passed
  BY <1>2, RenderedIsPassed DEF WalkInv, Working
<1>6. /\ program[at].kind = "route" \/ Output \in Texts
      /\ program[at].kind = "one_of" => Output \in Values
  BY OutputShape DEF SettleStep, Here, WalkInv, PathBase
<1>7. Walk!Edge(program[at], Output) = Target(at, Output)
  BY DEF Walk!Edge, Target
<1>8. at <= NSteps
  BY <1>1, DurableRunAssumption
<1>9. Walk!Pass(Output)
  BY <1>1, <1>2, <1>3, <1>4, <1>5, <1>6, <1>7, <1>8 DEF Walk!Pass
<1> QED  BY <1>1, <1>9 DEF Walk!Next

\* The emit block ends the walk.
LEMMA EmittingIsEmit ==
  ASSUME WalkInv, EmitText \/ SettleEmit
  PROVE  Walk!Next
<1>1. /\ at = EmitPos /\ phase # "none" /\ Renders
      /\ status' = "completed" /\ UNCHANGED <<program, checkpoints>>
  <2>1. at \in 1..EmitPos /\ (at \in Steps => Here.kind # "emit_text")
    BY StepShape DEF WalkInv, PathBase, Typed, TypeOK, Here
  <2> QED  BY <2>1, DurableRunAssumption DEF EmitText, SettleEmit, WalkInv, Working
<1>2. at \notin Done(checkpoints) /\ status = "running"
  BY <1>1, DurableRunAssumption DEF Done, WalkInv, PathBase, WorkInv
<1>3. PathEnd = at /\ PathEnd' = PathEnd
  BY <1>1, <1>2, AtIsPathEnd DEF WalkInv, PathEnd, Done, Target
<1>4. program[at].refs \subseteq Walk!Passed
  BY <1>1, RenderedIsPassed DEF WalkInv
<1>5. Walk!Emit
  BY <1>1, <1>2, <1>3, <1>4 DEF Walk!Emit
<1> QED  BY <1>5 DEF Walk!Next

\* All else, attempts that begin, skip, ask, fail or die, is no step of the walk.
LEMMA OthersStutter ==
  ASSUME WalkInv, [Next]_vars, ~SettleStep, ~EmitText, ~SettleEmit
  PROVE  UNCHANGED Walk!walkVars
<1>1. UNCHANGED <<program, checkpoints>>
  BY StepForms DEF WalkInv, PathBase, StartAttempt, SkipCheckpointed, Ends, Works, stored, vars
<1>2. (status = "completed")' = (status = "completed")
  BY DEF WalkInv, PathBase, WorkInv, Next, AttemptStep, StartAttempt, Crash, SkipCheckpointed,
     BeginStep, RenderFails, Replay, CallProvider, ProviderAnswers, RecordAnswer, Raises, Retry,
     RunTools, StepFails, Fail, stored, vars
<1>3. PathEnd' = PathEnd
  BY <1>1 DEF PathEnd, Done, Target
<1> QED  BY <1>1, <1>2, <1>3 DEF Walk!walkVars

\* Whatever attempts fail or crash wherever, what the store shows is one walk of the
\* workflow from its first step to emit.
THEOREM ImplementsRunWalkCorrect == Spec => ImplementsRunWalk
<1>1. Init => Walk!Init
  <2> SUFFICES ASSUME Init PROVE Walk!Init
    OBVIOUS
  <2>1. PathEnd = 1
    BY NothingDone DEF Init, PathEnd
  <2> QED  BY <2>1 DEF Init, Walk!Init, Nothing, None
<1>2. WalkInv /\ [Next]_vars => [Walk!Next]_(Walk!walkVars)
  BY WalkInvStep, SettlingIsPass, EmittingIsEmit, OthersStutter
<1> QED  BY <1>1, <1>2, WalkInvInit, WalkInvStep, PTL DEF Spec, ImplementsRunWalk, Walk!Spec
=============================================================================
