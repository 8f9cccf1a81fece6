-------------------------- MODULE DurableRun_proofs --------------------------
(***************************************************************************)
(* Proofs about DurableRun, for every workflow, model and tool.            *)
(***************************************************************************)
EXTENDS DurableRun, TLAPS

USE DEF Steps, EmitPos, Replies, Phases

-----------------------------------------------------------------------------
(* Workflows have forward edges. *)

LEMMA StepShape ==
  ASSUME program \in Programs, NEW s \in Steps
  PROVE  /\ program[s].next \in (s + 1)..EmitPos
         /\ DOMAIN program[s].arms \subseteq Values
         /\ \A l \in DOMAIN program[s].arms : program[s].arms[l] \in (s + 1)..EmitPos
         /\ program[s].otherwise \in {0} \cup (s + 1)..EmitPos
         /\ program[s].kind \notin {"emit_text", "emit_llm"}
<1>1. program[s] \in StepDefs(s) /\ program[s].kind \notin {"emit_text", "emit_llm"}
  BY DurableRunAssumption
<1>2. program[s].arms \in UNION {[L -> (s + 1)..EmitPos] : L \in SUBSET Values}
  BY <1>1 DEF StepDefs
<1>3. PICK L \in SUBSET Values : program[s].arms \in [L -> (s + 1)..EmitPos]
  BY <1>2
<1> QED  BY <1>1, <1>3 DEF StepDefs

\* The edge of a step, when there is one, leads on.
LEMMA TargetIsForward ==
  ASSUME program \in Programs, NEW s \in Steps, NEW out, Target(s, out) # 0
  PROVE  Target(s, out) \in (s + 1)..EmitPos
BY StepShape, DurableRunAssumption DEF Target

-----------------------------------------------------------------------------
(* Types, with the limit on turns that they rest on. *)

Typed ==
  /\ TypeOK
  /\ Len(talk) < TurnLimit
  /\ phase \in {"answered", "got"} => reply \in Replies

LEMMA IdleTyped ==
  ASSUME Typed, Idle, program' = program, checkpoints' = checkpoints, journal' = journal,
         status' \in {"created", "running", "failed", "completed"}
  PROVE  Typed'
<1>1. /\ phase' = "none" /\ at' \in 1..EmitPos /\ reply' = None
      /\ resumed' = Nothing /\ outputs' = Nothing /\ talk' = <<>>
  BY DurableRunAssumption DEF Idle
<1>2. Nothing \in [Steps -> Replies \cup {None}]
  BY DEF Nothing
<1>3. Len(talk') = 0 /\ 0 < TurnLimit /\ talk' \in Seq(Replies \X (ToolResults \cup {None}))
  BY <1>1, DurableRunAssumption DEF TurnLimit
<1> QED  BY <1>1, <1>2, <1>3 DEF Typed, TypeOK, TurnLimit

\* Following an edge from a step of the workflow.
LEMMA LeaveTyped ==
  ASSUME Typed, at \in Steps, NEW out \in Replies \cup {None}, Leave(out),
         UNCHANGED <<program, status, journal, resumed>>,
         checkpoints' \in [Steps -> Replies \cup {None}]
  PROVE  Typed' /\ at' \in (at + 1)..EmitPos
<1>1. at' \in (at + 1)..EmitPos
  BY TargetIsForward DEF Leave, Typed, TypeOK
<1>2. at' \in 1..EmitPos
  BY <1>1, DurableRunAssumption
<1>3. outputs' \in [Steps -> Replies \cup {None}]
  BY DEF Leave, Typed, TypeOK
<1>4. Len(talk') = 0 /\ 0 < TurnLimit /\ talk' \in Seq(Replies \X (ToolResults \cup {None}))
  BY DurableRunAssumption DEF Leave, TurnLimit
<1> QED  BY <1>1, <1>2, <1>3, <1>4 DEF Leave, Typed, TypeOK, TurnLimit

\* A turn that fails to settle the step is added to the talk, within the limit.
LEMMA TalkGrows ==
  ASSUME Typed, phase = "got", Retry \/ RunTools
  PROVE  Typed'
<1>1. PICK turn \in Replies \X (ToolResults \cup {None}) :
        talk' = Append(talk, turn) /\ Len(talk) + 1 < TurnLimit
  <2>1. CASE Retry
    <3>1. talk' = Append(talk, <<Bad, None>>) /\ Len(talk) = 0 /\ 1 < TurnLimit
      BY <2>1, DurableRunAssumption DEF Retry, TurnLimit
    <3>2. <<Bad, None>> \in Replies \X (ToolResults \cup {None})
      OBVIOUS
    <3> QED  BY <3>1, <3>2
  <2>2. CASE RunTools
    <3>1. PICK result \in ToolResults : talk' = Append(talk, <<reply, result>>)
      BY <2>2 DEF RunTools
    <3>2. Len(talk) + 1 < TurnLimit
      BY <2>2, DurableRunAssumption DEF RunTools, TurnLimit, Typed, TypeOK
    <3>3. <<reply, result>> \in Replies \X (ToolResults \cup {None})
      BY DEF Typed
    <3> QED  BY <3>1, <3>2, <3>3
  <2> QED  BY <2>1, <2>2
<1>2. /\ talk' \in Seq(Replies \X (ToolResults \cup {None}))
      /\ Len(talk') < TurnLimit
  BY <1>1 DEF Typed, TypeOK
<1> QED  BY <1>2 DEF Retry, RunTools, Typed, TypeOK, TurnLimit, stored

\* What a step binds of a reply is an output, one of the contract's own spelling.
LEMMA OutputShape ==
  ASSUME Typed, Settles
  PROVE  /\ Output \in Replies /\ Output # None
         /\ Here.kind # "route" => Output \in Texts
         /\ Here.kind = "one_of" => Output \in Values
         /\ Here.kind \in {"expect", "route"} => Stripped(Output) = Output
<1>1. at \in Steps /\ reply \in Replies /\ program \in Programs
  BY DEF Settles, Typed, TypeOK
<1>2. /\ {Bad, Tool, None} \cap Texts = {} /\ Values \cap Noisy = {}
      /\ \A n \in Noisy : Strip[n] \in Texts /\ Fold[n] \in Values
      /\ \A n \in Noisy : Stripped(Strip[n]) = Strip[n]
  BY DurableRunAssumption
<1>3. DOMAIN Here.arms \subseteq Values
  BY <1>1, StepShape DEF Here
<1>4. Stripped(reply) \in Replies /\ Stripped(Stripped(reply)) = Stripped(reply)
  BY <1>1, <1>2 DEF Stripped
<1>5. CASE Here.kind = "one_of"
  <2>1. Output = Canonical(reply) /\ reply \in Texts
    BY <1>5 DEF Output, Settles, Acceptable
  <2>2. Output \in Values
    BY <1>2, <2>1 DEF Canonical, Texts
  <2> QED  BY <1>2, <1>5, <2>2 DEF Texts
<1>6. CASE Here.kind = "expect"
  <2>1. Output = Stripped(reply) /\ reply \in Texts
    BY <1>6 DEF Output, Settles, Acceptable
  <2>2. Output \in Texts
    BY <1>2, <2>1 DEF Stripped
  <2> QED  BY <1>2, <1>4, <1>6, <2>1, <2>2
<1>7. CASE Here.kind = "route"
  <2>1. \/ Output = Canonical(reply) /\ Output \in Values
       \/ Output = Stripped(reply)
    BY <1>3, <1>7 DEF Output
  <2>2. Stripped(Output) = Output /\ Output \in Replies
    BY <1>2, <1>4, <2>1 DEF Stripped, Texts
  <2>3. None \notin Replies
    BY <1>2 DEF None, Bad, Tool
  <2> QED  BY <1>7, <2>2, <2>3
<1>8. CASE Here.kind \notin {"one_of", "expect", "route"}
  <2>1. Output \in Texts
    BY <1>8 DEF Output, Settles, Acceptable
  <2> QED  BY <1>2, <1>8, <2>1
<1> QED  BY <1>5, <1>6, <1>7, <1>8

LEMMA NextTyped == Typed /\ [Next]_vars => Typed'
<1> SUFFICES ASSUME Typed, [Next]_vars PROVE Typed'
  OBVIOUS
<1>1. CASE StartAttempt
  BY <1>1 DEF StartAttempt, Typed, TypeOK, TurnLimit
<1>2. CASE SkipCheckpointed
  <2>1. at \in Steps /\ resumed[at] \in Replies \cup {None}
    BY <1>2 DEF SkipCheckpointed, Done, Typed, TypeOK
  <2> QED  BY <1>2, <2>1, LeaveTyped DEF SkipCheckpointed, stored, Typed, TypeOK
<1>3. CASE BeginStep
  BY <1>3 DEF BeginStep, Typed, TypeOK, TurnLimit, stored
<1>4. CASE RenderFails \/ Raises \/ StepFails
  BY <1>4, IdleTyped DEF RenderFails, Raises, StepFails, Fail
<1>5. CASE EmitText \/ SettleEmit
  BY <1>5, IdleTyped DEF EmitText, SettleEmit
<1>6. CASE Crash
  BY <1>6, IdleTyped DEF Crash, stored, Typed, TypeOK
<1>7. CASE Replay
  BY <1>7 DEF Replay, Recorded, Typed, TypeOK, TurnLimit, stored
<1>8. CASE CallProvider
  BY <1>8 DEF CallProvider, Typed, TypeOK, TurnLimit, stored
<1>9. CASE ProviderAnswers
  <2>1. reply' \in Replies
    BY <1>9 DEF ProviderAnswers
  <2> QED  BY <1>9, <2>1 DEF ProviderAnswers, Typed, TypeOK, TurnLimit, stored
<1>10. CASE RecordAnswer
  <2>1. Len(talk) + 1 \in 1..TurnLimit
    BY DurableRunAssumption DEF Typed, TypeOK, TurnLimit
  <2>2. \A row \in journal' : row \in journal \/
          (row.reply = reply /\ row.step = at /\ row.turn = Len(talk) + 1)
    BY <1>10 DEF RecordAnswer
  <2> QED  BY <1>10, <2>1, <2>2 DEF RecordAnswer, Typed, TypeOK, TurnLimit
<1>11. CASE Retry \/ RunTools
  BY <1>11, TalkGrows DEF Retry, RunTools
<1>12. CASE SettleStep
  <2>1. at \in Steps /\ Output \in Replies
    BY <1>12, OutputShape DEF SettleStep, Settles
  <2>2. checkpoints' \in [Steps -> Replies \cup {None}]
    BY <1>12, <2>1 DEF SettleStep, Typed, TypeOK
  <2> QED  BY <1>12, <2>1, <2>2, LeaveTyped DEF SettleStep
<1>13. CASE UNCHANGED vars
  BY <1>13 DEF vars, stored, attempt, Typed, TypeOK, TurnLimit
<1> QED
  BY <1>1, <1>2, <1>3, <1>4, <1>5, <1>6, <1>7, <1>8, <1>9, <1>10, <1>11, <1>12, <1>13
  DEF Next, AttemptStep

LEMMA InitTyped == Init => Typed
<1> SUFFICES ASSUME Init PROVE Typed
  OBVIOUS
<1>1. Nothing \in [Steps -> Replies \cup {None}]
  BY DEF Nothing
<1>2. Len(talk) = 0 /\ talk \in Seq(Replies \X (ToolResults \cup {None})) /\ 0 < TurnLimit
  BY DurableRunAssumption DEF Init, TurnLimit
<1> QED  BY <1>1, <1>2, DurableRunAssumption DEF Init, Typed, TypeOK

\* Whatever attempts there have been: the store holds outputs and answers, no step
\* takes more turns than its limit, and an attempt is at a step or at emit.
THEOREM TypeCorrect == Spec => []TypeOK
BY InitTyped, NextTyped, PTL DEF Spec, Typed

-----------------------------------------------------------------------------
(* What an attempt does to finished work. *)

\* An attempt is over, with or without an outcome.
Ends ==
  /\ Idle /\ UNCHANGED <<program, checkpoints>>
  /\ \/ status' = status
     \/ status' = "failed" /\ phase # "none"
     \/ status' = "completed" /\ phase # "none" /\ at = EmitPos

\* An attempt works on the step it is at.
Works ==
  /\ UNCHANGED <<program, status, checkpoints, at, resumed, outputs>>
  /\ phase # "none" /\ phase' \notin {"none", "step"}
  /\ phase = "step" => at \notin Done(resumed)

LEMMA StepForms ==
  ASSUME Typed, [Next]_vars
  PROVE  \/ StartAttempt \/ SkipCheckpointed \/ SettleStep \/ Ends \/ Works
         \/ UNCHANGED vars
<1>1. CASE RenderFails \/ Raises \/ StepFails
  BY <1>1 DEF RenderFails, Raises, StepFails, Fail, Ends
<1>2. CASE EmitText
  <2>1. at \in Steps => Here.kind # "emit_text"
    BY StepShape DEF Typed, TypeOK, Here
  <2> QED  BY <1>2, <2>1, DurableRunAssumption DEF EmitText, Ends, Typed, TypeOK
<1>3. CASE SettleEmit \/ Crash
  BY <1>3 DEF SettleEmit, Crash, Ends, stored
<1>4. CASE \/ BeginStep \/ Replay \/ CallProvider \/ ProviderAnswers \/ RecordAnswer
           \/ Retry \/ RunTools
  BY <1>4 DEF BeginStep, Replay, CallProvider, ProviderAnswers, RecordAnswer, Retry, RunTools,
              Works, stored
<1> QED  BY <1>1, <1>2, <1>3, <1>4 DEF Next, AttemptStep

\* Finished steps are the attempt's own, behind it, or the ones it started from, and
\* those it takes over unchanged.
WorkInv ==
  /\ phase = "none" => at = 1 /\ resumed = Nothing /\ outputs = Nothing
  /\ phase # "none" => status = "running"
  /\ phase \notin {"none", "step"} => at \notin Done(resumed)
  /\ \A s \in Done(resumed) : resumed[s] = checkpoints[s]
  /\ phase # "none" => \A s \in Done(checkpoints) : s \in Done(resumed) \/ s < at

LEMMA NothingDone == Done(Nothing) = {}
BY DEF Done, Nothing

\* Where the attempt goes from a step it can leave, and that nothing else moves.
LEMMA LeavesForward ==
  ASSUME Typed, at \in Steps, NEW out, Leave(out)
  PROVE  at' \in (at + 1)..EmitPos /\ at' = Target(at, out)
BY TargetIsForward DEF Leave, Typed, TypeOK

\* The step that is settled had no checkpoint.
LEMMA SettlesOpenStep ==
  ASSUME Typed, WorkInv, SettleStep
  PROVE  /\ at \in Steps /\ at \notin Done(checkpoints)
         /\ checkpoints' = [checkpoints EXCEPT ![at] = Output]
         /\ Output \in Replies /\ Output # None
         /\ Done(checkpoints') = Done(checkpoints) \cup {at}
<1>1. at \in Steps /\ phase = "got" /\ Output \in Replies /\ Output # None
  BY OutputShape DEF SettleStep, Settles
<1>2. at \notin Done(checkpoints)
  BY <1>1 DEF WorkInv
<1> QED  BY <1>1, <1>2 DEF SettleStep, Typed, TypeOK, Done

LEMMA WorkInvStep == Typed /\ WorkInv /\ [Next]_vars => WorkInv'
<1> SUFFICES ASSUME Typed, WorkInv, [Next]_vars PROVE WorkInv'
  OBVIOUS
<1>1. CASE StartAttempt
  <2>1. Done(resumed') = Done(checkpoints)
    BY <1>1 DEF StartAttempt, Done
  <2> QED  BY <1>1, <2>1 DEF StartAttempt, WorkInv, Done
<1>2. CASE SkipCheckpointed
  <2>1. at \in Steps
    BY <1>2 DEF SkipCheckpointed, Done
  <2>2. at' \in (at + 1)..EmitPos
    BY <1>2, <2>1, LeavesForward DEF SkipCheckpointed
  <2>3. UNCHANGED <<program, status, checkpoints, resumed>> /\ phase' = phase /\ phase = "step"
    BY <1>2 DEF SkipCheckpointed, stored, Leave
  <2> QED  BY <2>1, <2>2, <2>3 DEF WorkInv, Done
<1>3. CASE SettleStep
  <2>1. at' \in (at + 1)..EmitPos
    BY <1>3, SettlesOpenStep, LeavesForward DEF SettleStep
  <2>2. UNCHANGED <<program, status, resumed>> /\ phase' = "step" /\ phase = "got"
    BY <1>3 DEF SettleStep, Settles, Leave
  <2>3. \A s \in Done(resumed) : checkpoints'[s] = checkpoints[s]
    BY <1>3, <2>2, SettlesOpenStep DEF WorkInv, Done, Typed, TypeOK
  <2>4. \A s \in Done(checkpoints') : s \in Done(checkpoints) \/ s = at
    BY <1>3, SettlesOpenStep
  <2> QED  BY <1>3, <2>1, <2>2, <2>3, <2>4, SettlesOpenStep DEF WorkInv, Done
<1>4. CASE Ends
  BY <1>4, NothingDone DEF Ends, Idle, WorkInv, Done
<1>5. CASE Works
  BY <1>5 DEF Works, WorkInv, Done
<1>6. CASE UNCHANGED vars
  BY <1>6 DEF vars, stored, attempt, WorkInv, Done
<1> QED  BY <1>1, <1>2, <1>3, <1>4, <1>5, <1>6, StepForms

LEMMA InitWork == Init => Typed /\ WorkInv
<1> SUFFICES ASSUME Init PROVE Typed /\ WorkInv
  OBVIOUS
<1>1. Typed  BY InitTyped
<1> QED  BY <1>1, NothingDone DEF Init, WorkInv, Done

\* "finished steps are reused": no attempt, after whatever crashes and failures,
\* works on a step that has a checkpoint.
THEOREM FinishedStepIsNotRedoneCorrect == Spec => []FinishedStepIsNotRedone
<1>1. Typed /\ WorkInv => FinishedStepIsNotRedone
  BY DEF WorkInv, FinishedStepIsNotRedone, Typed, TypeOK, Done
<1> QED  BY <1>1, InitWork, NextTyped, WorkInvStep, PTL DEF Spec

\* What an attempt remembers is what is stored, its own and earlier work.
RememberedIsStored == \A s \in Done(outputs) : outputs[s] = checkpoints[s]

LEMMA RememberedStep ==
  Typed /\ WorkInv /\ RememberedIsStored /\ [Next]_vars => RememberedIsStored'
<1> SUFFICES ASSUME Typed, WorkInv, RememberedIsStored, [Next]_vars PROVE RememberedIsStored'
  OBVIOUS
<1> USE DEF RememberedIsStored, Done
<1>1. CASE StartAttempt
  BY <1>1 DEF StartAttempt
<1>2. CASE SkipCheckpointed
  <2>1. at \in Steps /\ resumed[at] = checkpoints[at] /\ checkpoints' = checkpoints
    BY <1>2 DEF SkipCheckpointed, WorkInv, stored
  <2>2. outputs' = [outputs EXCEPT ![at] = resumed[at]]
    BY <1>2 DEF SkipCheckpointed, Leave
  <2> QED  BY <2>1, <2>2 DEF Typed, TypeOK
<1>3. CASE SettleStep
  <2>1. outputs' = [outputs EXCEPT ![at] = Output]
    BY <1>3 DEF SettleStep, Leave
  <2> QED  BY <1>3, <2>1, SettlesOpenStep DEF Typed, TypeOK
<1>4. CASE Ends
  BY <1>4, NothingDone DEF Ends, Idle
<1>5. CASE Works
  BY <1>5 DEF Works
<1>6. CASE UNCHANGED vars
  BY <1>6 DEF vars, stored, attempt
<1> QED  BY <1>1, <1>2, <1>3, <1>4, <1>5, <1>6, StepForms

LEMMA RememberedInit == Init => RememberedIsStored
BY NothingDone DEF Init, RememberedIsStored

\* What was quoted in a recorded request is finished, and an attempt that is past
\* rendering has the references it rendered.
QuoteInv ==
  /\ \A row \in journal : DOMAIN row.request[2] \subseteq Done(checkpoints)
  /\ phase \notin {"none", "step"} => Renders
  /\ RequestsQuoteTheStore

LEMMA QuoteStep ==
  Typed /\ WorkInv /\ RememberedIsStored /\ QuoteInv /\ [Next]_vars => QuoteInv'
<1> SUFFICES ASSUME Typed, WorkInv, RememberedIsStored, QuoteInv, [Next]_vars PROVE QuoteInv'
  OBVIOUS
<1>1. phase' \notin {"none", "step"} => Renders'
  <2>1. CASE BeginStep
    BY <2>1 DEF BeginStep, Renders, Here, stored
  <2>2. CASE /\ UNCHANGED <<program, at, outputs>>
             /\ phase' \notin {"none", "step"} => phase \notin {"none", "step"}
    BY <2>2 DEF QuoteInv, Renders, Here
  <2>3. \/ BeginStep \/ phase' \in {"none", "step"}
        \/ phase \notin {"none", "step"} /\ UNCHANGED <<program, at, outputs>>
        \/ UNCHANGED vars
    BY DEF Next, AttemptStep, StartAttempt, Crash, SkipCheckpointed, RenderFails, EmitText, Replay,
       CallProvider, ProviderAnswers, RecordAnswer, Raises, Retry, RunTools, SettleStep,
       SettleEmit, StepFails, Fail, Idle, Leave, stored
  <2> QED  BY <2>1, <2>2, <2>3 DEF vars, stored, attempt
<1>2. CASE UNCHANGED <<checkpoints, journal>>
  BY <1>1, <1>2 DEF QuoteInv, RequestsQuoteTheStore, Done
<1>3. CASE RecordAnswer
  <2> DEFINE row == [request |-> Request, occurrence |-> Occurrence(Request) - 1, reply |-> reply,
                     step |-> at, turn |-> Len(talk) + 1]
  <2>1. journal' = journal \cup {row} /\ checkpoints' = checkpoints /\ Renders
    BY <1>3 DEF RecordAnswer, QuoteInv
  <2>2. row.request[2] = [s \in Here.refs |-> outputs[s]]
    BY DEF Request
  <2>3. \A s \in Here.refs : outputs[s] = checkpoints[s] /\ s \in Done(checkpoints)
    BY <2>1 DEF Renders, RememberedIsStored, Done
  <2>4. /\ DOMAIN row.request[2] \subseteq Done(checkpoints)
        /\ \A s \in DOMAIN row.request[2] : row.request[2][s] = checkpoints[s]
    BY <2>2, <2>3
  <2> HIDE DEF row
  <2> QED  BY <1>1, <2>1, <2>4 DEF QuoteInv, RequestsQuoteTheStore, Done
<1>4. CASE SettleStep
  <2>1. /\ at \notin Done(checkpoints) /\ journal' = journal
        /\ Done(checkpoints') = Done(checkpoints) \cup {at}
        /\ \A s \in Done(checkpoints) : checkpoints'[s] = checkpoints[s]
    BY <1>4, SettlesOpenStep DEF SettleStep, Done
  <2> QED  BY <1>1, <2>1 DEF QuoteInv, RequestsQuoteTheStore
<1>5. RecordAnswer \/ SettleStep \/ UNCHANGED <<checkpoints, journal>>
  BY DEF Next, AttemptStep, StartAttempt, Crash, SkipCheckpointed, BeginStep, RenderFails, EmitText,
     Replay, CallProvider, ProviderAnswers, Raises, Retry, RunTools, SettleEmit, StepFails,
     Fail, stored, vars
<1> QED  BY <1>2, <1>3, <1>4, <1>5

\* Whatever a model's replies look like and wherever attempts end, the requests that
\* were answered quote what the store holds: a later attempt that renders the stored
\* outputs makes the same requests.
THEOREM RequestsQuoteTheStoreCorrect == Spec => []RequestsQuoteTheStore
<1>1. Init => QuoteInv
  BY DEF Init, QuoteInv, RequestsQuoteTheStore
<1>2. QuoteInv => RequestsQuoteTheStore
  BY DEF QuoteInv
<1> QED
  BY <1>1, <1>2, InitWork, NextTyped, WorkInvStep, RememberedInit, RememberedStep, QuoteStep, PTL
  DEF Spec

LEMMA UsableStep ==
  Typed /\ WorkInv /\ CheckpointIsUsable /\ [Next]_vars => CheckpointIsUsable'
<1> SUFFICES ASSUME Typed, WorkInv, CheckpointIsUsable, [Next]_vars PROVE CheckpointIsUsable'
  OBVIOUS
<1>1. CASE SettleStep
  <2>1. program' = program /\ Target(at, Output) # 0
    BY <1>1 DEF SettleStep, Leave
  <2> DEFINE Usable(s, out) ==
        /\ Target(s, out) # 0
        /\ program[s].kind # "route" => out \in Texts
        /\ program[s].kind = "one_of" => out \in Values
        /\ program[s].kind \in {"expect", "route"} => Stripped(out) = out
  <2>2. Usable(at, Output)
    BY <1>1, <2>1, OutputShape DEF SettleStep, Here
  <2>3. ASSUME NEW s \in Done(checkpoints')
        PROVE  Usable(s, checkpoints'[s])
    <3>1. CASE s = at
      <4>1. checkpoints'[s] = Output
        BY <1>1, <3>1, SettlesOpenStep DEF Typed, TypeOK
      <4> QED  BY <2>2, <3>1, <4>1
    <3>2. CASE s # at
      <4>1. s \in Done(checkpoints) /\ checkpoints'[s] = checkpoints[s]
        BY <1>1, <2>3, <3>2, SettlesOpenStep DEF Typed, TypeOK, Done
      <4> QED  BY <4>1 DEF CheckpointIsUsable
    <3> QED  BY <3>1, <3>2
  <2> QED  BY <2>1, <2>3 DEF CheckpointIsUsable, Target
<1>2. CASE UNCHANGED <<program, checkpoints>>
  BY <1>2 DEF CheckpointIsUsable, Done, Target
<1> QED
  BY <1>1, <1>2, StepForms DEF StartAttempt, SkipCheckpointed, Ends, Works, vars, stored

\* No model answer poisons a checkpoint: what is stored satisfies its step's contract in
\* the contract's spelling and has an edge to follow, so every later attempt can go on.
THEOREM CheckpointIsUsableCorrect == Spec => []CheckpointIsUsable
<1>1. Init => CheckpointIsUsable
  BY NothingDone DEF Init, CheckpointIsUsable
<1> QED  BY <1>1, InitWork, NextTyped, WorkInvStep, UsableStep, PTL DEF Spec

-----------------------------------------------------------------------------
(* The checkpoints lie on one path. *)

Edge(s) == Target(s, checkpoints[s])

\* The path starts at the first step, does not fork or join, and has one end; the
\* attempt walks along it and, once past it, stands where its end leads.
PathInv ==
  /\ Done(checkpoints) # {} => 1 \in Done(checkpoints)
  /\ \A s \in Done(checkpoints) \ {1} : \E q \in Done(checkpoints) : Edge(q) = s
  /\ \A s, q \in Done(checkpoints) : Edge(s) = Edge(q) => s = q
  /\ \A q \in Done(checkpoints) :
       Edge(q) \notin Done(checkpoints) =>
         \A p \in Done(checkpoints) : p <= q /\ Edge(p) <= Edge(q)
  /\ phase # "none" =>
       /\ at = 1 \/ \E q \in Done(checkpoints) : Edge(q) = at
       /\ at \in Done(checkpoints) \/ \A q \in Done(checkpoints) : q < at /\ Edge(q) <= at
  /\ status = "completed" => \E s \in Done(checkpoints) : Edge(s) = EmitPos

LEMMA EdgesAreForward ==
  ASSUME Typed, CheckpointIsUsable, NEW s \in Done(checkpoints)
  PROVE  s \in Steps /\ Edge(s) \in (s + 1)..EmitPos /\ Edge(s) \in Nat
<1>1. s \in Steps /\ Edge(s) # 0
  BY DEF Done, CheckpointIsUsable, Edge
<1>2. Edge(s) \in (s + 1)..EmitPos
  BY <1>1, TargetIsForward DEF Edge, Typed, TypeOK
<1> QED  BY <1>1, <1>2, DurableRunAssumption

\* A settled step becomes the new end of the path.
LEMMA PathGrows ==
  ASSUME Typed, WorkInv, CheckpointIsUsable, PathInv, SettleStep
  PROVE  PathInv'
<1> DEFINE D == Done(checkpoints)
           new == D \cup {at}
           leads == [s \in new |-> IF s = at THEN at' ELSE Edge(s)]
<1>1. /\ at \in Steps /\ at \notin D /\ D' = new
      /\ phase = "got" /\ phase' = "step" /\ status = "running" /\ status' = "running"
  BY SettlesOpenStep DEF SettleStep, Settles, Leave, WorkInv
<1>2. \A s \in new : Edge(s)' = leads[s]
  <2>1. at' = Target(at, Output) /\ program' = program
    BY <1>1, LeavesForward DEF SettleStep
  <2>2. \A s \in new : checkpoints'[s] = IF s = at THEN Output ELSE checkpoints[s]
    BY <1>1, SettlesOpenStep DEF Typed, TypeOK, Done
  <2> QED  BY <2>1, <2>2 DEF Edge, Target
<1>3. at \in Nat /\ at' \in Nat /\ at < at'
  BY <1>1, LeavesForward, DurableRunAssumption DEF SettleStep
<1>4. \A q \in D : q < at /\ Edge(q) <= at /\ q \in Nat \ {0} /\ Edge(q) \in Nat
  BY <1>1, EdgesAreForward, DurableRunAssumption DEF PathInv
<1>5. at = 1 \/ \E q \in D : Edge(q) = at
  BY <1>1 DEF PathInv
<1>6. /\ D # {} => 1 \in D
      /\ \A s \in D \ {1} : \E q \in D : Edge(q) = s
      /\ \A s, q \in D : Edge(s) = Edge(q) => s = q
      /\ \A q \in D : Edge(q) \notin D => \A p \in D : p <= q /\ Edge(p) <= Edge(q)
  BY DEF PathInv
<1>7. leads[at] = at' /\ \A s \in D : leads[s] = Edge(s)
  BY <1>1
<1> HIDE DEF D, leads
<1>8. /\ 1 \in new
      /\ \A s \in new \ {1} : \E q \in new : leads[q] = s
      /\ \A s, q \in new : leads[s] = leads[q] => s = q
  <2>1. 1 \in new
    BY <1>5, <1>6
  <2>2. \A s \in new \ {1} : \E q \in new : leads[q] = s
    BY <1>5, <1>6, <1>7
  <2>3. \A s, q \in new : leads[s] = leads[q] => s = q
    BY <1>3, <1>4, <1>6, <1>7
  <2> QED  BY <2>1, <2>2, <2>3
<1>9. \A q \in new : leads[q] \notin new => \A p \in new : p <= q /\ leads[p] <= leads[q]
  <2>1. \A p \in new : p <= at /\ leads[p] <= at'
    BY <1>3, <1>4, <1>7
  <2>2. ASSUME NEW q \in D, leads[q] \notin new PROVE FALSE
    <3>1. Edge(q) \notin D /\ Edge(q) # at
      BY <1>7, <2>2
    <3>2. \A p \in D : Edge(p) <= Edge(q)
      BY <1>6, <3>1
    <3>3. at <= Edge(q)
      BY <1>3, <1>4, <1>5, <3>2
    <3> QED  BY <1>3, <1>4, <3>1, <3>3
  <2> QED  BY <1>7, <2>1, <2>2
<1>10. /\ \E q \in new : leads[q] = at'
       /\ \A q \in new : q < at' /\ leads[q] <= at'
  BY <1>3, <1>4, <1>7
<1> HIDE DEF new
<1> QED  BY <1>1, <1>2, <1>8, <1>9, <1>10 DEF PathInv, D

LEMMA PathInvStep ==
  Typed /\ WorkInv /\ CheckpointIsUsable /\ PathInv /\ [Next]_vars => PathInv'
<1> SUFFICES ASSUME Typed, WorkInv, CheckpointIsUsable, PathInv, [Next]_vars PROVE PathInv'
  OBVIOUS
<1>1. CASE StartAttempt
  <2>1. UNCHANGED <<program, checkpoints, at>> /\ at = 1 /\ status' = "running"
    BY <1>1 DEF StartAttempt, WorkInv
  <2>2. Done(checkpoints)' = Done(checkpoints) /\ \A s : Edge(s)' = Edge(s)
    BY <2>1 DEF Edge, Target, Done
  <2>3. \A q \in Done(checkpoints) : 1 \in Done(checkpoints)
    BY DEF PathInv
  <2> QED  BY <2>1, <2>2, <2>3 DEF PathInv
<1>2. CASE SkipCheckpointed
  <2>1. /\ at \in Done(checkpoints) /\ at' = Edge(at) /\ phase = "step" /\ phase' = "step"
        /\ UNCHANGED <<program, checkpoints, status>>
    <3>1. at \in Done(resumed) /\ at \in Steps /\ resumed[at] = checkpoints[at]
      BY <1>2 DEF SkipCheckpointed, Done, WorkInv
    <3>2. at' = Target(at, resumed[at])
      BY <1>2 DEF SkipCheckpointed, Leave
    <3> QED  BY <1>2, <3>1, <3>2 DEF SkipCheckpointed, Leave, stored, Edge, Done
  <2>2. Done(checkpoints)' = Done(checkpoints) /\ \A s : Edge(s)' = Edge(s)
    BY <2>1 DEF Edge, Target, Done
  <2>3. \A q \in Done(checkpoints) : q < Edge(q) /\ q \in Nat /\ Edge(q) \in Nat
    BY EdgesAreForward, DurableRunAssumption
  <2>4. at' \in Done(checkpoints) \/ \A q \in Done(checkpoints) : q < at' /\ Edge(q) <= at'
    BY <2>1, <2>3 DEF PathInv
  <2> QED  BY <2>1, <2>2, <2>4 DEF PathInv
<1>3. CASE SettleStep
  BY <1>3, PathGrows
<1>4. CASE Ends
  <2>1. Done(checkpoints)' = Done(checkpoints) /\ \A s : Edge(s)' = Edge(s)
    BY <1>4 DEF Ends, Edge, Target, Done
  <2>2. status' = "completed" => \E s \in Done(checkpoints) : Edge(s) = EmitPos
    BY <1>4, DurableRunAssumption, EdgesAreForward DEF Ends, PathInv, Typed, TypeOK
  <2> QED  BY <1>4, <2>1, <2>2 DEF Ends, Idle, PathInv
<1>5. CASE Works \/ UNCHANGED vars
  <2>1. UNCHANGED <<program, checkpoints, status, at>> /\ (phase' # "none" => phase # "none")
    BY <1>5 DEF Works, vars, stored, attempt
  <2>2. Done(checkpoints)' = Done(checkpoints) /\ \A s : Edge(s)' = Edge(s)
    BY <2>1 DEF Edge, Target, Done
  <2> QED  BY <2>1, <2>2 DEF PathInv
<1> QED  BY <1>1, <1>2, <1>3, <1>4, <1>5, StepForms

\* However many attempts wrote them and wherever those crashed, the checkpoints are
\* one path from the first step, and the path of a completed run reaches emit.
THEOREM CheckpointsFormAPathCorrect == Spec => []CheckpointsFormAPath
<1>1. Init => CheckpointIsUsable /\ PathInv
  BY NothingDone DEF Init, CheckpointIsUsable, PathInv
<1>2. PathInv => CheckpointsFormAPath
  BY DEF PathInv, CheckpointsFormAPath, Edge
<1> QED
  BY <1>1, <1>2, InitWork, NextTyped, WorkInvStep, UsableStep, PathInvStep, PTL DEF Spec

-----------------------------------------------------------------------------
(* The journal. *)

\* The call in flight has drawn its ordinal, and nothing is recorded under it.
JournalInv ==
  /\ JournalKeyIsUnique
  /\ \A req \in DOMAIN occurrences : occurrences[req] \in Nat \ {0}
  /\ phase \in {"inflight", "answered"} =>
       /\ Occurrence(Request) # 0
       /\ \A row \in journal :
            ~(row.request = Request /\ row.occurrence = Occurrence(Request) - 1)

LEMMA JournalInvStep == JournalInv /\ [Next]_vars => JournalInv'
<1> SUFFICES ASSUME JournalInv, [Next]_vars PROVE JournalInv'
  OBVIOUS
<1>1. CASE UNCHANGED <<program, journal, at, outputs, talk, occurrences>> /\
           (phase' \in {"inflight", "answered"} => phase \in {"inflight", "answered"})
  <2>1. Request' = Request
    BY <1>1 DEF Request, Here
  <2> QED  BY <1>1, <2>1 DEF JournalInv, JournalKeyIsUnique, Occurrence
<1>2. CASE journal' = journal /\ UNCHANGED occurrences /\ phase' \notin {"inflight", "answered"}
  BY <1>2 DEF JournalInv, JournalKeyIsUnique
<1>3. CASE Idle /\ journal' = journal
  BY <1>3 DEF Idle, JournalInv, JournalKeyIsUnique
<1>4. ASSUME Ordinal(Request)
      PROVE  /\ \A req \in DOMAIN occurrences' : occurrences'[req] \in Nat \ {0}
             /\ Request \in DOMAIN occurrences'
             /\ occurrences'[Request] = Occurrence(Request) + 1
             /\ Occurrence(Request) \in Nat
  BY <1>4 DEF Ordinal, Occurrence, JournalInv
<1>5. CASE Replay
  BY <1>4, <1>5 DEF Replay, JournalInv, JournalKeyIsUnique, stored
<1>6. CASE CallProvider
  <2>1. Request' = Request /\ journal' = journal
    BY <1>6 DEF CallProvider, Request, Here, stored
  <2>2. Occurrence(Request)' = Occurrence(Request) + 1
    BY <1>4, <1>6, <2>1 DEF CallProvider, Occurrence
  <2>3. \A row \in journal : ~(row.request = Request /\ row.occurrence = Occurrence(Request))
    BY <1>6 DEF CallProvider, Recorded
  <2> QED
    BY <1>4, <1>6, <2>1, <2>2, <2>3 DEF CallProvider, JournalInv, JournalKeyIsUnique
<1>7. CASE RecordAnswer
  <2> DEFINE row == [request |-> Request, occurrence |-> Occurrence(Request) - 1, reply |-> reply,
                     step |-> at, turn |-> Len(talk) + 1]
  <2>1. /\ journal' = journal \cup {row}
        /\ row.request = Request /\ row.occurrence = Occurrence(Request) - 1
    BY <1>7 DEF RecordAnswer
  <2> HIDE DEF row
  <2>2. JournalKeyIsUnique'
    BY <1>7, <2>1 DEF RecordAnswer, JournalInv, JournalKeyIsUnique
  <2> QED  BY <1>7, <2>2 DEF RecordAnswer, JournalInv
<1> QED
  BY <1>1, <1>2, <1>3, <1>5, <1>6, <1>7
  DEF Next, AttemptStep, StartAttempt, Crash, SkipCheckpointed, BeginStep, RenderFails, EmitText,
      ProviderAnswers, Raises, Retry, RunTools, SettleStep, SettleEmit, StepFails, Fail, Leave,
      vars, stored, attempt

\* The table has no uniqueness constraint, yet whatever attempts crash where, two
\* answers are never recorded under one key, so a replay is determined.
THEOREM JournalKeyIsUniqueCorrect == Spec => []JournalKeyIsUnique
<1>1. Init => JournalInv
  BY DEF Init, JournalInv, JournalKeyIsUnique
<1> QED  BY <1>1, JournalInvStep, PTL DEF Spec, JournalInv

\* A row says for which step and turn its request was made.
RowsAreLabelled ==
  \A row \in journal :
    /\ row.step \in 1..EmitPos
    /\ row.request[1] = program[row.step].prompt
    /\ row.turn = Len(row.request[3]) + 1

LEMMA RowsAreLabelledStep == Typed /\ RowsAreLabelled /\ [Next]_vars => RowsAreLabelled'
<1> SUFFICES ASSUME Typed, RowsAreLabelled, [Next]_vars PROVE RowsAreLabelled'
  OBVIOUS
<1>1. CASE UNCHANGED <<program, journal>>
  BY <1>1 DEF RowsAreLabelled
<1>2. CASE RecordAnswer
  <2> DEFINE row == [request |-> Request, occurrence |-> Occurrence(Request) - 1, reply |-> reply,
                     step |-> at, turn |-> Len(talk) + 1]
  <2>1. journal' = journal \cup {row} /\ program' = program
    BY <1>2 DEF RecordAnswer
  <2>2. row.step = at /\ row.turn = Len(talk) + 1 /\ row.request = Request
    OBVIOUS
  <2>3. Request[1] = program[at].prompt /\ Request[3] = talk /\ at \in 1..EmitPos
    BY DEF Request, Here, Typed, TypeOK
  <2> HIDE DEF row
  <2> QED  BY <2>1, <2>2, <2>3 DEF RowsAreLabelled
<1> QED
  BY <1>1, <1>2 DEF Next, AttemptStep, StartAttempt, Crash, SkipCheckpointed, BeginStep, RenderFails,
     EmitText, Replay, CallProvider, ProviderAnswers, Raises, Retry, RunTools, SettleStep,
     SettleEmit, StepFails, Fail, vars, stored

\* In a workflow whose steps issue different requests a call replays the answer that
\* was recorded for its own step and turn.
THEOREM ReplayIsOwnIfDistinctCorrect == Spec => ReplayIsOwnIfDistinct
<1> DEFINE Own == phase = "asking" /\ phase' = "got" /\ DistinctPrompts
                    => \A row \in Recorded(Request) : row.step = at /\ row.turn = Len(talk) + 1
<1>1. Init => RowsAreLabelled
  BY DEF Init, RowsAreLabelled
<1>2. Typed /\ RowsAreLabelled => Own
  <2> SUFFICES ASSUME Typed, RowsAreLabelled, DistinctPrompts, NEW row \in Recorded(Request)
               PROVE  row.step = at /\ row.turn = Len(talk) + 1
    OBVIOUS
  <2>1. row \in journal /\ row.request = Request
    BY DEF Recorded
  <2>2. Request[1] = program[at].prompt /\ Request[3] = talk /\ at \in 1..EmitPos
    BY DEF Request, Here, Typed, TypeOK
  <2> QED  BY <2>1, <2>2 DEF RowsAreLabelled, DistinctPrompts
<1>3. Typed /\ RowsAreLabelled /\ [Next]_vars => [Own]_vars
  BY <1>2
<1> QED
  BY <1>1, <1>3, InitTyped, NextTyped, RowsAreLabelledStep, PTL DEF Spec, ReplayIsOwnIfDistinct
=============================================================================
