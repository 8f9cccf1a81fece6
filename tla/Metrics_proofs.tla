--------------------------- MODULE Metrics_proofs ---------------------------
(***************************************************************************)
(* Proofs about Metrics: what the trace of all attempts says of a run,     *)
(* wherever the attempts were interrupted.                                 *)
(***************************************************************************)
EXTENDS Metrics, RunWalk_proofs, FiniteSetTheorems

USE DEF Steps, EmitPos, Replies, Phases

AllEvents == EventKinds \X (1..EmitPos) \X (0..TurnLimit)

\* A traced step is a step of DurableRun.
LEMMA TracedIsStep == [TracedNext]_tracedVars => [Next]_vars
BY DEF TracedNext, Traced, Interrupted, Next, AttemptStep, tracedVars

-----------------------------------------------------------------------------
(* What is written. *)

\* The events of a concatenation are those of its parts.
LEMMA ToSetConcat ==
  ASSUME NEW S, NEW s \in Seq(S), NEW t \in Seq(S)
  PROVE  ToSet(s \o t) = ToSet(s) \cup ToSet(t) /\ s \o t \in Seq(S)
<1>1. s \o t \in Seq(S) /\ Len(s \o t) = Len(s) + Len(t)
  OBVIOUS
<1>2. \A i \in 1..Len(s) : (s \o t)[i] = s[i]
  OBVIOUS
<1>3. \A i \in 1..Len(t) : (s \o t)[Len(s) + i] = t[i]
  OBVIOUS
<1>4. ASSUME NEW i \in 1..(Len(s) + Len(t))
      PROVE  (s \o t)[i] \in ToSet(s) \cup ToSet(t)
  <2>1. CASE i \in 1..Len(s)
    BY <1>2, <2>1 DEF ToSet
  <2>2. CASE i \notin 1..Len(s)
    <3>1. i - Len(s) \in 1..Len(t) /\ i = Len(s) + (i - Len(s))
      BY <2>2
    <3>2. (s \o t)[i] = t[i - Len(s)]
      BY <1>3, <3>1
    <3> QED  BY <3>1, <3>2 DEF ToSet
  <2> QED  BY <2>1, <2>2
<1>5. ASSUME NEW i \in 1..Len(s) PROVE s[i] \in ToSet(s \o t)
  BY <1>1, <1>2 DEF ToSet
<1>6. ASSUME NEW i \in 1..Len(t) PROVE t[i] \in ToSet(s \o t)
  <2>1. Len(s) + i \in 1..Len(s \o t)
    BY <1>1
  <2> QED  BY <1>1, <1>3, <2>1 DEF ToSet
<1>7. \A x \in ToSet(s \o t) : x \in ToSet(s) \cup ToSet(t)
  BY <1>1, <1>4 DEF ToSet
<1>8. \A x \in ToSet(s) : x \in ToSet(s \o t)
  BY <1>5 DEF ToSet
<1>9. \A x \in ToSet(t) : x \in ToSet(s \o t)
  BY <1>6 DEF ToSet
<1> QED  BY <1>1, <1>7, <1>8, <1>9

\* A single event.
LEMMA ToSetOne == ASSUME NEW S, NEW e \in S PROVE ToSet(<<e>>) = {e} /\ <<e>> \in Seq(S)
BY DEF ToSet

\* No event.
LEMMA ToSetNone == \A S : ToSet(<<>>) = {} /\ <<>> \in Seq(S)
BY DEF ToSet

\* An event and what follows it.
LEMMA ToSetCons ==
  ASSUME NEW S, NEW e \in S, NEW t \in Seq(S)
  PROVE  ToSet(<<e>> \o t) = {e} \cup ToSet(t) /\ <<e>> \o t \in Seq(S)
<1>1. ToSet(<<e>>) = {e} /\ <<e>> \in Seq(S)
  BY ToSetOne
<1>2. ToSet(<<e>> \o t) = ToSet(<<e>>) \cup ToSet(t) /\ <<e>> \o t \in Seq(S)
  BY <1>1, ToSetConcat
<1> QED  BY <1>1, <1>2

\* Two events.
LEMMA ToSetTwo ==
  ASSUME NEW S, NEW d \in S, NEW e \in S
  PROVE  ToSet(<<d>> \o <<e>>) = {d, e} /\ <<d>> \o <<e>> \in Seq(S)
<1>1. ToSet(<<e>>) = {e} /\ <<e>> \in Seq(S)
  BY ToSetOne
<1>2. ToSet(<<d>> \o <<e>>) = {d} \cup ToSet(<<e>>) /\ <<d>> \o <<e>> \in Seq(S)
  BY <1>1, ToSetCons
<1> QED  BY <1>1, <1>2

\* An event of a known kind, here and now.
LEMMA EventIs ==
  ASSUME Typed, NEW kind \in EventKinds, NEW turn \in 0..TurnLimit
  PROVE  /\ Event(kind, turn) \in AllEvents
         /\ Event(kind, turn)[1] = kind /\ Event(kind, turn)[2] = at /\ Event(kind, turn)[3] = turn
BY DEF Event, AllEvents, Typed, TypeOK

\* The turns that are traced are within the limit.
LEMMA TurnsAreBounded ==
  ASSUME Typed
  PROVE  /\ 0 \in 0..TurnLimit /\ 1 \in 0..TurnLimit /\ 2 \in 0..TurnLimit
         /\ Len(talk) + 1 \in 0..TurnLimit /\ Len(talk) \in Nat
<1>1. TurnLimit \in Nat /\ TurnLimit >= 2
  BY DurableRunAssumption DEF TurnLimit
<1>2. Len(talk) \in Nat /\ Len(talk) < TurnLimit
  BY DEF Typed, TypeOK
<1> QED  BY <1>1, <1>2

\* What a route writes when it has an edge.
LEMMA ChoiceIs ==
  ASSUME Typed, NEW out
  PROVE  /\ WritesChoice(out) \in Seq(AllEvents)
         /\ ToSet(WritesChoice(out)) =
              IF Here.kind = "route" /\ Target(at, out) # 0 THEN {Event("chose", 0)} ELSE {}
<1>1. Event("chose", 0) \in AllEvents
  BY EventIs, TurnsAreBounded DEF EventKinds
<1> QED  BY <1>1, ToSetOne, ToSetNone DEF WritesChoice

\* What is written on arrival at a step, by what the step is.
LEMMA ArrivalIs ==
  ASSUME Typed
  PROVE  /\ WritesOnArrival \in Seq(AllEvents)
         /\ at \in Done(resumed) =>
              ToSet(WritesOnArrival) = {Event("resumed", 0)} \cup ToSet(WritesChoice(resumed[at]))
         /\ at \notin Done(resumed) /\ Renders =>
              ToSet(WritesOnArrival) = CASE Here.kind = "agent"     -> {Event("started", 0)}
                                         [] Here.kind = "emit_text" -> {Event("emitted", 0)}
                                         [] OTHER                   -> {Event("call", 1)}
         /\ at \notin Done(resumed) /\ ~Renders => ToSet(WritesOnArrival) = {}
<1>1. /\ Event("resumed", 0) \in AllEvents /\ Event("started", 0) \in AllEvents
      /\ Event("emitted", 0) \in AllEvents /\ Event("call", 1) \in AllEvents
  BY EventIs, TurnsAreBounded DEF EventKinds
<1>2. CASE at \in Done(resumed)
  <2> DEFINE choice == WritesChoice(resumed[at])
  <2>1. choice \in Seq(AllEvents)
    BY ChoiceIs
  <2>2. WritesOnArrival = <<Event("resumed", 0)>> \o choice
    BY <1>2 DEF WritesOnArrival
  <2> HIDE DEF choice
  <2>3. /\ WritesOnArrival \in Seq(AllEvents)
        /\ ToSet(WritesOnArrival) = {Event("resumed", 0)} \cup ToSet(choice)
    BY <1>1, <2>1, <2>2, ToSetCons, Zenon
  <2> QED  BY <1>2, <2>3 DEF choice
<1>3. CASE at \notin Done(resumed) /\ ~Renders
  BY <1>3, ToSetNone DEF WritesOnArrival
<1>4. CASE at \notin Done(resumed) /\ Renders
  BY <1>1, <1>4, ToSetOne DEF WritesOnArrival
<1> QED  BY <1>2, <1>3, <1>4

\* What is written on a reply, by what the step makes of it.
LEMMA ReplyIs ==
  ASSUME Typed
  PROVE  /\ WritesOnReply \in Seq(AllEvents)
         /\ Here.kind = "agent" =>
              ToSet(WritesOnReply) =
                {Event("turn", Len(talk) + 1),
                 IF reply = Tool THEN Event("tool", Len(talk) + 1) ELSE Event("finished", 0)}
         /\ Here.kind = "emit_llm" => ToSet(WritesOnReply) = {Event("emitted", 0)}
         /\ Here.kind = "route" /\ Acceptable => ToSet(WritesOnReply) = ToSet(WritesChoice(Output))
         /\ Here.kind \notin {"agent", "emit_llm", "route"} /\ Acceptable =>
              ToSet(WritesOnReply) = {Event("produced", 0)}
         /\ Here.kind \notin {"agent", "emit_llm"} /\ ~Acceptable =>
              ToSet(WritesOnReply) = {Event("rejected", Len(talk) + 1)} \cup
                (IF talk = <<>> THEN {Event("call", 2)} ELSE ToSet(WritesChoice(Output)))
<1>1. /\ Event("turn", Len(talk) + 1) \in AllEvents /\ Event("tool", Len(talk) + 1) \in AllEvents
      /\ Event("finished", 0) \in AllEvents /\ Event("emitted", 0) \in AllEvents
      /\ Event("produced", 0) \in AllEvents /\ Event("rejected", Len(talk) + 1) \in AllEvents
      /\ Event("call", 2) \in AllEvents
  BY EventIs, TurnsAreBounded DEF EventKinds
<1>2. /\ WritesOnRejection \in Seq(AllEvents)
      /\ ToSet(WritesOnRejection) = {Event("rejected", Len(talk) + 1)} \cup
           (IF talk = <<>> THEN {Event("call", 2)} ELSE ToSet(WritesChoice(Output)))
  <2>1. CASE talk = <<>>
    <3>1. WritesOnRejection = <<Event("rejected", Len(talk) + 1)>> \o <<Event("call", 2)>>
      BY <2>1 DEF WritesOnRejection
    <3>2. {Event("rejected", Len(talk) + 1), Event("call", 2)} =
            {Event("rejected", Len(talk) + 1)} \cup {Event("call", 2)}
      OBVIOUS
    <3> QED  BY <1>1, <2>1, <3>1, <3>2, ToSetTwo
  <2>2. CASE talk # <<>>
    <3>1. WritesOnRejection = <<Event("rejected", Len(talk) + 1)>> \o WritesChoice(Output)
      BY <2>2 DEF WritesOnRejection
    <3> DEFINE choice == WritesChoice(Output)
    <3>2. /\ choice \in Seq(AllEvents)
          /\ WritesOnRejection = <<Event("rejected", Len(talk) + 1)>> \o choice
      BY <3>1, ChoiceIs
    <3> HIDE DEF choice
    <3>3. /\ WritesOnRejection \in Seq(AllEvents)
          /\ ToSet(WritesOnRejection) = {Event("rejected", Len(talk) + 1)} \cup ToSet(choice)
      BY <1>1, <3>2, ToSetCons, Zenon
    <3> QED  BY <2>2, <3>3 DEF choice
  <2> QED  BY <2>1, <2>2
<1>3. /\ WritesOnAgentTurn \in Seq(AllEvents)
      /\ ToSet(WritesOnAgentTurn) =
           {Event("turn", Len(talk) + 1),
            IF reply = Tool THEN Event("tool", Len(talk) + 1) ELSE Event("finished", 0)}
  BY <1>1, ToSetTwo DEF WritesOnAgentTurn
<1> QED  BY <1>1, <1>2, <1>3, ToSetOne, ChoiceIs DEF WritesOnReply

\* Events that complete a step; only steps of the workflow write them.
Completes == {"produced", "finished", "chose", "resumed"}

\* The events of a step of the attempt name the step it is at.
LEMMA WritesAreHere ==
  ASSUME Typed, TextIsNotAsked
  PROVE  /\ Writes \in Seq(AllEvents)
         /\ \A e \in ToSet(Writes) :
              e[2] = at /\ phase # "none" /\ (e[1] \in Completes => at \in Steps)
<1>1. CASE phase = "step"
  <2>1. Writes = WritesOnArrival
    BY <1>1 DEF Writes
  <2>2. at \notin Steps => at \notin Done(resumed) /\ Here.kind \in {"emit_text", "emit_llm"}
    BY DurableRunAssumption DEF Typed, TypeOK, Done, Here
  <2>3. \A e \in ToSet(Writes) :
          \/ e \in {Event("resumed", 0), Event("chose", 0)} /\ at \in Done(resumed)
          \/ e \in {Event("started", 0), Event("emitted", 0), Event("call", 1)}
    BY <2>1, ArrivalIs, ChoiceIs
  <2>4. /\ Event("resumed", 0)[2] = at /\ Event("chose", 0)[2] = at
        /\ Event("started", 0)[1] = "started" /\ Event("started", 0)[2] = at
        /\ Event("emitted", 0)[1] = "emitted" /\ Event("emitted", 0)[2] = at
        /\ Event("call", 1)[1] = "call" /\ Event("call", 1)[2] = at
    BY EventIs, TurnsAreBounded DEF EventKinds
  <2>5. Writes \in Seq(AllEvents)
    BY <2>1, ArrivalIs
  <2> QED  BY <1>1, <2>2, <2>3, <2>4, <2>5 DEF Completes
<1>2. CASE phase = "got"
  <2>1. Writes = WritesOnReply
    BY <1>2 DEF Writes
  <2>2. at \notin Steps => Here.kind = "emit_llm"
    BY <1>2, DurableRunAssumption DEF Typed, TypeOK, Here, TextIsNotAsked, Working
  <2> QED
    BY <1>2, <2>1, <2>2, ReplyIs, ChoiceIs, EventIs, TurnsAreBounded DEF EventKinds, Completes
<1>3. CASE phase \notin {"step", "got"}
  BY <1>3, ToSetNone DEF Writes
<1> QED  BY <1>1, <1>2, <1>3

\* The table grows by what the step writes.
LEMMA TraceGrows ==
  ASSUME Typed, TextIsNotAsked, [TracedNext]_tracedVars
  PROVE  /\ events \subseteq events' /\ events' \subseteq events \cup ToSet(Writes)
         /\ phase = "none" => events' = events
<1>1. CASE Interrupted
  <2>1. PICK n \in 0..Len(Writes) : events' = events \cup ToSet(SubSeq(Writes, 1, n))
    BY <1>1 DEF Interrupted
  <2>2. Writes \in Seq(AllEvents)
    BY WritesAreHere
  <2>3. DOMAIN SubSeq(Writes, 1, n) = 1..n /\ \A i \in 1..n : SubSeq(Writes, 1, n)[i] = Writes[i]
    BY <2>2
  <2>4. 1..n \subseteq DOMAIN Writes
    BY <2>2
  <2>5. ToSet(SubSeq(Writes, 1, n)) \subseteq ToSet(Writes)
    BY <2>3, <2>4 DEF ToSet
  <2> QED  BY <1>1, <2>1, <2>5 DEF Interrupted, Raises, Crash
<1>2. CASE Traced
  BY <1>2, WritesAreHere DEF Traced
<1>3. CASE UNCHANGED events
  BY <1>3
<1> QED  BY <1>1, <1>2, <1>3 DEF TracedNext, tracedVars

\* Settling a step writes the event that completes it.
LEMMA SettlingIsTraced ==
  ASSUME Typed, SettleStep, events' = events \cup ToSet(Writes)
  PROVE  \E e \in events' : e[1] \in Completes /\ e[2] = at
<1>1. /\ phase = "got" /\ at \in Steps /\ Target(at, Output) # 0
      /\ Acceptable \/ (Here.kind = "route" /\ talk # <<>>)
  BY DEF SettleStep, Settles, Leave
<1>2. ToSet(Writes) = ToSet(WritesOnReply)
  BY <1>1 DEF Writes
<1>3. \A kind \in Completes : kind \in EventKinds
  BY DEF Completes, EventKinds
<1>4. \A kind \in Completes : Event(kind, 0)[1] = kind /\ Event(kind, 0)[2] = at
  BY <1>3, EventIs, TurnsAreBounded
<1>5. CASE Here.kind = "agent"
  <2>1. reply # Tool
    BY <1>1, <1>5, DurableRunAssumption DEF Acceptable
  <2>2. Event("finished", 0) \in ToSet(Writes)
    BY <1>2, <1>5, <2>1, ReplyIs
  <2> QED  BY <1>4, <2>2 DEF Completes
<1>6. CASE Here.kind = "route"
  <2>1. Event("chose", 0) \in ToSet(WritesChoice(Output))
    BY <1>1, <1>6, ChoiceIs
  <2>2. Event("chose", 0) \in ToSet(Writes)
    BY <1>1, <1>2, <1>6, <2>1, ReplyIs
  <2> QED  BY <1>4, <2>2 DEF Completes
<1>7. CASE Here.kind \notin {"agent", "route"}
  <2>1. Here.kind \notin {"agent", "route", "emit_llm"} /\ Acceptable
    BY <1>1, <1>7, StepShape DEF Here, Typed, TypeOK
  <2>2. Event("produced", 0) \in ToSet(Writes)
    BY <1>2, <2>1, ReplyIs
  <2> QED  BY <1>4, <2>2 DEF Completes
<1> QED  BY <1>5, <1>6, <1>7

-----------------------------------------------------------------------------
(* Steps. *)

LockstepInv ==
  /\ Done(checkpoints) \subseteq completed_steps
  /\ \A s \in completed_steps \ Done(checkpoints) : s \in Steps /\ Frontier(s)

\* Every step and every interruption keeps completed steps and checkpoints together.
LEMMA LockstepStep ==
  PathBase /\ LockstepInv /\ [TracedNext]_tracedVars => LockstepInv'
<1> SUFFICES ASSUME PathBase, LockstepInv, [TracedNext]_tracedVars PROVE LockstepInv'
  OBVIOUS
<1> DEFINE D == Done(checkpoints)
<1>1. [Next]_vars
  BY TracedIsStep
<1>2. completed_steps \subseteq completed_steps'
  BY TraceGrows DEF completed_steps, PathBase
<1>3. \A s \in completed_steps' \ completed_steps : s = at /\ at \in Steps /\ phase # "none"
  <2>1. \A s \in completed_steps' \ completed_steps :
          \E e \in events' \ events : e[2] = s /\ e[1] \in Completes
    BY DEF completed_steps, Completes
  <2>2. \A e \in events' \ events : e \in ToSet(Writes)
    BY TraceGrows DEF PathBase
  <2> QED  BY <2>1, <2>2, WritesAreHere DEF PathBase
<1>4. \A s \in completed_steps' : s \in D \/ (s \in Steps /\ Frontier(s))
  BY <1>3, AtIsOnPath DEF LockstepInv
<1>5. CASE ~SettleStep
  <2>1. Done(checkpoints)' = D /\ \A s : Frontier(s)' = Frontier(s)
    BY <1>1, <1>5, FrontierKept
  <2> QED  BY <1>2, <1>4, <2>1 DEF LockstepInv
<1>6. CASE SettleStep
  <2>1. Frontier(at) /\ Done(checkpoints)' = D \cup {at}
    BY <1>1, <1>6, FrontierKept
  <2>2. events' = events \cup ToSet(Writes)
    <3>1. phase = "got" /\ phase' = "step"
      BY <1>6 DEF SettleStep, Settles, Leave
    <3>2. Traced
      BY <3>1 DEF TracedNext, StartAttempt, Interrupted, Raises, Fail, Crash, Idle, tracedVars,
                  vars, attempt
    <3> QED  BY <3>2 DEF Traced
  <2>3. at \in completed_steps'
    BY <1>6, <2>2, SettlingIsTraced DEF completed_steps, Completes, PathBase
  <2>4. \A s \in completed_steps' : s \in D \cup {at}
    BY <1>4, <2>1, FrontierIsUnique
  <2> QED  BY <1>2, <2>1, <2>3, <2>4 DEF LockstepInv
<1> QED  BY <1>5, <1>6

\* It holds of a traced run.
LEMMA TracedPathBase == TracedSpec => []PathBase
BY PathBaseInit, PathBaseStep, TracedIsStep, PTL DEF TracedSpec, TracedInit

\* Interrupted or not, what is traced are known events of positions of the workflow,
\* with turns within their limit.
THEOREM TraceTypeCorrect == TracedSpec => []TraceTypeOK
<1>1. TracedInit => TraceTypeOK
  BY DEF TracedInit, TraceTypeOK
<1>2. PathBase /\ TraceTypeOK /\ [TracedNext]_tracedVars => TraceTypeOK'
  <2> SUFFICES ASSUME PathBase, TraceTypeOK, [TracedNext]_tracedVars PROVE TraceTypeOK'
    OBVIOUS
  <2>1. Writes \in Seq(AllEvents) /\ events' \subseteq events \cup ToSet(Writes)
    BY WritesAreHere, TraceGrows DEF PathBase
  <2>2. ToSet(Writes) \subseteq AllEvents
    BY <2>1 DEF ToSet
  <2> QED  BY <2>1, <2>2 DEF TraceTypeOK, AllEvents
<1> QED  BY <1>1, <1>2, TracedPathBase, PTL DEF TracedSpec

\* "this stays in lockstep with execution" (metrics.py), for every workflow and however
\* often attempts fail or crash between two events or between an event and its
\* checkpoint: a resumed run neither loses a completed step nor reports one it never took.
THEOREM StepsCompletedInLockstepCorrect == TracedSpec => []StepsCompletedInLockstep
<1>1. TracedInit => LockstepInv
  BY NothingDone DEF TracedInit, Init, LockstepInv, completed_steps
<1>2. PathBase /\ LockstepInv => StepsCompletedInLockstep
  <2> SUFFICES ASSUME PathBase, LockstepInv PROVE StepsCompletedInLockstep
    OBVIOUS
  <2> DEFINE extra == completed_steps \ Done(checkpoints)
  <2>1. \A s, q \in extra : s = q
    BY FrontierIsUnique DEF LockstepInv
  <2>2. Cardinality(extra) <= 1
    <3>1. CASE extra = {}
      BY <3>1, FS_EmptySet
    <3>2. CASE extra # {}
      <4>1. PICK s \in extra : extra = {s}
        BY <2>1, <3>2
      <4> QED  BY <4>1, FS_Singleton
    <3> QED  BY <3>1, <3>2
  <2>3. status = "completed" => extra = {}
    <3> SUFFICES ASSUME status = "completed", NEW s \in extra PROVE FALSE
      OBVIOUS
    <3>1. PICK q \in Done(checkpoints) : Edge(q) = EmitPos
      BY DEF PathBase, PathInv
    <3>2. EmitPos \notin Steps /\ Done(checkpoints) \subseteq Steps
      BY DurableRunAssumption DEF Done
    <3>3. Frontier(EmitPos)
      BY <3>1, <3>2 DEF Frontier
    <3>4. s = EmitPos /\ s \in Steps
      BY <3>3, FrontierIsUnique DEF LockstepInv
    <3> QED  BY <3>2, <3>4
  <2> QED  BY <2>2, <2>3 DEF StepsCompletedInLockstep, LockstepInv
<1> QED  BY <1>1, <1>2, LockstepStep, TracedPathBase, PTL DEF TracedSpec

-----------------------------------------------------------------------------
(* Calls. *)

AcceptableAs(s, r) ==
  IF program[s].kind = "route" THEN Canonical(r) \in DOMAIN program[s].arms ELSE r \in Texts

\* A reply after which step s goes on with another turn.
GoesOn(s, turn, r) ==
  \/ program[s].kind = "agent" /\ r = Tool
  \/ program[s].kind \in Contracts \cup {"route"} /\ turn = 1 /\ ~AcceptableAs(s, r)

Called(s, turn) == <<s, turn>> \in CountedCalls

\* A conversation goes on only after replies that do not settle it; the turns up to the
\* current one are counted, an agent's current turn not before it is answered; what is
\* recorded is counted, or belongs to the step where the path ends.
TalkIsCounted ==
  /\ \A i \in 1..Len(talk) : Called(at, i)
  /\ \A row \in journal :
       row.step = at /\ row.turn <= Len(talk) => GoesOn(at, row.turn, row.reply)
  /\ Here.kind # "agent" => Called(at, Len(talk) + 1)

RowIsCounted(row) ==
  \/ row.step \in Done(checkpoints) /\ Called(row.step, row.turn)
  \/ Frontier(row.step) /\ program[row.step].kind # "emit_text"

CountInv ==
  /\ \A a, b \in journal : a.step = b.step /\ a.turn < b.turn => GoesOn(a.step, a.turn, a.reply)
  /\ Working => TalkIsCounted
  /\ \A row \in journal : RowIsCounted(row)
  /\ AnsweredCallsAreCounted

CountBase == PathBase /\ Base /\ CallInv

\* A step that goes on with the attempt writes all of its events.
LEMMA StepIsTraced ==
  ASSUME [TracedNext]_tracedVars, phase # "none", phase' # "none", phase' # phase
  PROVE  events' = events \cup ToSet(Writes)
<1>1. Traced
  BY DEF TracedNext, StartAttempt, Interrupted, Raises, Fail, Crash, Idle, tracedVars, vars, attempt
<1> QED  BY <1>1 DEF Traced

\* An event of a call counts it.
LEMMA EventCounts ==
  ASSUME Typed, NEW kind \in {"call", "turn"}, NEW turn \in 0..TurnLimit,
         Event(kind, turn) \in events'
  PROVE  <<at, turn>> \in CountedCalls'
<1>1. Event(kind, turn)[1] = kind /\ Event(kind, turn)[2] = at /\ Event(kind, turn)[3] = turn
  BY EventIs DEF EventKinds
<1> QED  BY <1>1 DEF CountedCalls

\* The answer that settles a step is the last one recorded for it.
LEMMA NothingBeyond ==
  ASSUME CountBase, CountInv, phase = "got",
         Acceptable \/ (Here.kind = "route" /\ talk # <<>>) \/ Here.kind = "emit_llm"
  PROVE  \A row \in journal : row.step = at => row.turn <= Len(talk) + 1
<1> SUFFICES ASSUME NEW row \in journal, row.step = at, ~(row.turn <= Len(talk) + 1)
             PROVE  FALSE
  OBVIOUS
<1>1. talk \in Seq(Turns) /\ Len(talk) \in Nat /\ row.turn \in Nat
  BY DEF CountBase, Base, CallInv, RowsAreRendered, Typed, TypeOK, Turns
<1>2. PICK here \in journal : here.step = at /\ here.turn = Len(talk) + 1 /\ here.reply = reply
  BY DEF CountBase, CallInv, Working, TurnIsOpen
<1>3. here.turn < row.turn
  BY <1>1, <1>2
<1>4. GoesOn(at, Len(talk) + 1, reply)
  BY <1>2, <1>3 DEF CountInv
<1>5. AcceptableAs(at, reply) <=> Acceptable
  BY DEF AcceptableAs, Acceptable, Here
<1>6. Tool \notin Texts
  BY DurableRunAssumption
<1>7. Len(talk) + 1 = 1 => talk = <<>>
  BY <1>1
<1> QED  BY <1>4, <1>5, <1>6, <1>7 DEF GoesOn, AcceptableAs, Here, Contracts

\* Settling a step leaves none of its recorded calls uncounted.
LEMMA SettledIsCounted ==
  ASSUME CountBase, CountInv, [TracedNext]_tracedVars, SettleStep,
         NEW row \in journal, row.step = at
  PROVE  <<at, row.turn>> \in CountedCalls'
<1>1. /\ phase = "got" /\ phase' = "step"
      /\ Acceptable \/ (Here.kind = "route" /\ talk # <<>>)
  BY DEF SettleStep, Settles, Leave
<1>2. Typed /\ TalkIsCounted /\ Len(talk) \in Nat /\ row.turn \in Nat \ {0}
  BY <1>1 DEF CountBase, CountInv, Base, CallInv, RowsAreRendered, Typed, TypeOK, Working
<1>3. events' = events \cup ToSet(Writes)
  BY <1>1, StepIsTraced
<1>4. CountedCalls \subseteq CountedCalls'
  BY <1>3 DEF CountedCalls
<1>5. row.turn <= Len(talk) + 1
  BY <1>1, NothingBeyond
<1>6. CASE row.turn <= Len(talk)
  <2>1. row.turn \in 1..Len(talk)
    BY <1>2, <1>6
  <2> QED  BY <1>2, <1>4, <2>1 DEF TalkIsCounted, Called
<1>7. CASE row.turn = Len(talk) + 1 /\ Here.kind # "agent"
  BY <1>2, <1>4, <1>7 DEF TalkIsCounted, Called
<1>8. CASE row.turn = Len(talk) + 1 /\ Here.kind = "agent"
  <2>1. Event("turn", Len(talk) + 1) \in ToSet(Writes)
    BY <1>1, <1>2, <1>8, ReplyIs DEF Writes
  <2>2. Len(talk) + 1 \in 0..TurnLimit
    BY <1>2, TurnsAreBounded
  <2> QED  BY <1>2, <1>3, <1>8, <2>1, <2>2, EventCounts
<1> QED  BY <1>2, <1>5, <1>6, <1>7, <1>8

\* A turn that is fed back is counted, and so is the one it asks for.
LEMMA TalkCountedByTurn ==
  ASSUME CountBase, CountInv, [TracedNext]_tracedVars, Retry \/ RunTools
  PROVE  TalkIsCounted'
<1>1. /\ phase = "got" /\ phase' = "asking" /\ UNCHANGED <<program, at>> /\ Here' = Here
  BY DEF Retry, RunTools, stored, Here
<1>2. Typed /\ TalkIsCounted /\ talk \in Seq(Turns) /\ Len(talk) \in Nat
  BY <1>1 DEF CountBase, CountInv, Base, Typed, TypeOK, Turns, Working
<1>3. events' = events \cup ToSet(Writes) /\ ToSet(Writes) = ToSet(WritesOnReply)
  BY <1>1, StepIsTraced DEF Writes
<1>4. CountedCalls \subseteq CountedCalls'
  BY <1>3 DEF CountedCalls
<1>5. AcceptableAs(at, reply) <=> Acceptable
  BY DEF AcceptableAs, Acceptable, Here
<1>6. \A s, i, r : GoesOn(s, i, r)' <=> GoesOn(s, i, r)
  BY <1>1 DEF GoesOn, AcceptableAs
<1>7. GoesOn(at, Len(talk) + 1, reply)
  <2>1. CASE Retry
    <3>1. talk = <<>> /\ ~Acceptable /\ Here.kind \in Contracts \cup {"route"}
      BY <2>1 DEF Retry
    <3>2. Len(talk) + 1 = 1
      BY <3>1
    <3> QED  BY <1>5, <3>1, <3>2 DEF GoesOn, Here
  <2>2. CASE RunTools
    BY <2>2 DEF RunTools, GoesOn, Here
  <2> QED  BY <2>1, <2>2
<1>8. ASSUME NEW row \in journal, row.step = at, row.turn <= Len(talk) + 1
      PROVE  GoesOn(at, row.turn, row.reply)
  <2>1. row.turn \in Nat
    BY DEF CountBase, CallInv, RowsAreRendered
  <2>2. CASE row.turn <= Len(talk)
    BY <1>2, <1>8, <2>2 DEF TalkIsCounted
  <2>3. CASE row.turn = Len(talk) + 1
    <3>1. PICK here \in journal : here.step = at /\ here.turn = Len(talk) + 1 /\ here.reply = reply
      BY <1>1 DEF CountBase, CallInv, Working, TurnIsOpen
    <3>2. row.reply = reply
      BY <1>2, <1>8, <2>1, <2>3, <3>1 DEF CountBase, CallInv, OneConversation, Continues
    <3> QED  BY <1>7, <2>3, <3>2
  <2> QED  BY <1>2, <1>8, <2>1, <2>2, <2>3
<1>9. <<at, Len(talk) + 1>> \in CountedCalls'
  <2>1. CASE Here.kind # "agent"
    BY <1>2, <1>4, <2>1 DEF TalkIsCounted, Called
  <2>2. CASE Here.kind = "agent"
    <3>1. Event("turn", Len(talk) + 1) \in ToSet(WritesOnReply)
      BY <1>2, <2>2, ReplyIs
    <3> QED  BY <1>2, <1>3, <3>1, EventCounts, TurnsAreBounded
  <2> QED  BY <2>1, <2>2
<1>10. Here.kind # "agent" => <<at, Len(talk) + 2>> \in CountedCalls'
  <2> SUFFICES ASSUME Here.kind # "agent" PROVE <<at, Len(talk) + 2>> \in CountedCalls'
    OBVIOUS
  <2>1. talk = <<>> /\ ~Acceptable /\ Here.kind # "emit_llm" /\ Len(talk) + 2 = 2
    BY DEF Retry, RunTools, Contracts
  <2>2. Event("call", 2) \in ToSet(WritesOnReply)
    BY <1>2, <2>1, ReplyIs
  <2> QED  BY <1>2, <1>3, <2>1, <2>2, EventCounts, TurnsAreBounded
<1>11. Len(talk') = Len(talk) + 1
  <2>1. CASE Retry
    BY <2>1 DEF Retry
  <2>2. CASE RunTools
    <3>1. PICK result \in ToolResults : talk' = Append(talk, <<reply, result>>)
      BY <2>2 DEF RunTools
    <3> QED  BY <1>2, <3>1
  <2> QED  BY <2>1, <2>2
<1>12. \A i \in 1..(Len(talk) + 1) : <<at, i>> \in CountedCalls'
  <2> SUFFICES ASSUME NEW i \in 1..(Len(talk) + 1) PROVE <<at, i>> \in CountedCalls'
    OBVIOUS
  <2>1. i \in 1..Len(talk) \/ i = Len(talk) + 1
    BY <1>2
  <2> QED  BY <1>2, <1>4, <1>9, <2>1 DEF TalkIsCounted, Called
<1>13. journal' = journal /\ Len(talk') + 1 = Len(talk) + 2
  BY <1>2, <1>11 DEF Retry, RunTools, stored
<1>14. \A row \in journal : row.step = at /\ row.turn <= Len(talk) + 1
                           => GoesOn(at, row.turn, row.reply)'
  BY <1>1, <1>6, <1>8
<1> QED  BY <1>1, <1>10, <1>11, <1>12, <1>13, <1>14 DEF TalkIsCounted, Called

\* Every step and every interruption keeps the recorded calls counted.
LEMMA CountInvStep == CountBase /\ CountInv /\ [TracedNext]_tracedVars => CountInv'
<1> SUFFICES ASSUME CountBase, CountInv, [TracedNext]_tracedVars PROVE CountInv'
  OBVIOUS
<1> DEFINE RowsGoOn ==
      \A a, b \in journal : a.step = b.step /\ a.turn < b.turn => GoesOn(a.step, a.turn, a.reply)
<1>1. /\ [Next]_vars /\ PathBase /\ Typed /\ WorkInv
      /\ CountedCalls \subseteq CountedCalls' /\ \A row \in journal : RowIsCounted(row)
  BY TracedIsStep, TraceGrows DEF CountBase, CountInv, PathBase, CountedCalls
<1>2. program' = program
  BY <1>1 DEF Next, AttemptStep, StartAttempt, Crash, SkipCheckpointed, BeginStep, RenderFails,
     EmitText, Replay, CallProvider, ProviderAnswers, RecordAnswer, Raises, Retry, RunTools,
     SettleStep, SettleEmit, StepFails, Fail, stored, vars
<1>3. \A s, i, r : GoesOn(s, i, r)' = GoesOn(s, i, r)
  BY <1>2 DEF GoesOn, AcceptableAs
<1>4. \A s, turn : Called(s, turn) => Called(s, turn)'
  BY <1>1 DEF Called
<1>5. journal' = journal => RowsGoOn'
  BY <1>3 DEF CountInv
<1>6. ~SettleStep => \A row \in journal : RowIsCounted(row)'
  <2>1. ~SettleStep => Done(checkpoints)' = Done(checkpoints) /\ \A s : Frontier(s)' = Frontier(s)
    BY <1>1, FrontierKept
  <2> QED  BY <1>1, <1>2, <1>4, <2>1 DEF RowIsCounted
<1>7. status' # "completed" => AnsweredCallsAreCounted'
  BY DEF AnsweredCallsAreCounted
<1>8. status = "completed" => phase = "none"
  BY <1>1 DEF WorkInv
<1>9. CASE /\ ~SettleStep /\ journal' = journal /\ ~Working' /\ status' # "completed"
  BY <1>5, <1>6, <1>7, <1>9 DEF CountInv
<1>10. CASE SettleStep
  <2>1. /\ journal' = journal /\ ~Working' /\ status' # "completed" /\ program' = program
    BY <1>10, <1>8 DEF SettleStep, Settles, Leave, Working
  <2>2. Frontier(at) /\ Done(checkpoints)' = Done(checkpoints) \cup {at}
    BY <1>1, <1>10, FrontierKept
  <2>3. ASSUME NEW row \in journal PROVE RowIsCounted(row)'
    <3>1. CASE row.step \in Done(checkpoints) /\ Called(row.step, row.turn)
      BY <1>4, <2>2, <3>1 DEF RowIsCounted
    <3>2. CASE Frontier(row.step)
      <4>1. row.step = at
        BY <1>1, <2>2, <3>2, FrontierIsUnique
      <4>2. <<at, row.turn>> \in CountedCalls'
        BY <1>10, <4>1, SettledIsCounted
      <4> QED  BY <2>2, <4>1, <4>2 DEF RowIsCounted, Called
    <3> QED  BY <1>1, <3>1, <3>2 DEF RowIsCounted
  <2> QED  BY <1>5, <1>7, <2>1, <2>3 DEF CountInv
<1>11. CASE BeginStep
  <2>1. /\ phase = "step" /\ phase' = "asking" /\ UNCHANGED <<stored, at, talk>> /\ talk = <<>>
        /\ at \notin Done(resumed) /\ Here.kind # "emit_text" /\ Renders /\ ~SettleStep
    BY <1>11 DEF BeginStep, CountBase, CallInv, Working, SettleStep, Settles
  <2>2. events' = events \cup ToSet(Writes) /\ ToSet(Writes) = ToSet(WritesOnArrival)
    BY <2>1, StepIsTraced DEF Writes
  <2>3. Here.kind # "agent" => <<at, 1>> \in CountedCalls'
    <3>1. Here.kind # "agent" => Event("call", 1) \in ToSet(WritesOnArrival)
      BY <1>1, <2>1, ArrivalIs
    <3> QED  BY <1>1, <2>2, <3>1, EventCounts, TurnsAreBounded
  <2>4. /\ Here' = Here /\ Len(talk') = 0 /\ Len(talk') + 1 = 1
        /\ \A row \in journal' : ~(row.turn <= Len(talk'))
    BY <1>2, <2>1 DEF Here, CountBase, CallInv, RowsAreRendered, stored
  <2>5. TalkIsCounted'
    BY <2>1, <2>3, <2>4 DEF TalkIsCounted, Called
  <2> QED  BY <1>5, <1>6, <1>7, <1>8, <2>1, <2>5 DEF CountInv, stored
<1>12. CASE Replay \/ CallProvider \/ ProviderAnswers
  <2>1. /\ UNCHANGED <<program, status, checkpoints, journal, at, talk>> /\ Working /\ ~SettleStep
    BY <1>12 DEF Replay, CallProvider, ProviderAnswers, stored, Working, SettleStep, Settles
  <2>2. TalkIsCounted
    BY <2>1 DEF CountInv
  <2>3. TalkIsCounted'
    BY <1>1, <1>3, <2>1, <2>2 DEF TalkIsCounted, Called, Here
  <2> QED  BY <1>5, <1>6, <1>7, <1>8, <2>1, <2>3 DEF CountInv, Working
<1>13. CASE RecordAnswer
  <2> DEFINE new == [request |-> Request, occurrence |-> Occurrence(Request) - 1, reply |-> reply,
                     step |-> at, turn |-> Len(talk) + 1]
  <2>1. /\ UNCHANGED <<program, status, checkpoints, at, talk>> /\ Working /\ ~SettleStep
        /\ journal' = journal \cup {new} /\ phase # "none"
    BY <1>13 DEF RecordAnswer, Working, SettleStep, Settles
  <2>2. new.step = at /\ new.turn = Len(talk) + 1
    OBVIOUS
  <2> HIDE DEF new
  <2>3. TalkIsCounted
    BY <2>1 DEF CountInv
  <2>4. Len(talk) \in Nat /\ \A row \in journal : row.turn \in Nat
    BY <1>1, TurnsAreBounded DEF CountBase, CallInv, RowsAreRendered
  <2>5. TalkIsCounted'
    BY <1>1, <1>3, <2>1, <2>2, <2>3, <2>4 DEF TalkIsCounted, Called, Here
  <2>6. RowsGoOn'
    <3>1. \A a \in journal : a.step = at => a.turn <= Len(talk)
      BY <1>13, NothingAhead DEF RecordAnswer, CountBase
    <3>2. \A a \in journal : a.step = at => GoesOn(at, a.turn, a.reply) /\ ~(new.turn < a.turn)
      BY <2>2, <2>3, <2>4, <3>1 DEF TalkIsCounted
    <3> QED  BY <1>3, <2>1, <2>2, <2>4, <3>2 DEF CountInv
  <2>7. at \notin Done(checkpoints)
    BY <1>1, <2>1, DurableRunAssumption DEF WorkInv, Working, Typed, TypeOK
  <2>8. Frontier(at) /\ program[at].kind # "emit_text"
    BY <1>1, <2>1, <2>7, AtIsOnPath DEF PathBase, TextIsNotAsked, Here
  <2>9. ASSUME NEW row, row = new PROVE RowIsCounted(row)'
    <3>1. \A s : Frontier(s)' = Frontier(s)
      BY <1>1, <2>1, FrontierKept
    <3> QED  BY <1>2, <2>2, <2>8, <2>9, <3>1 DEF RowIsCounted
  <2>10. \A row \in journal' : RowIsCounted(row)'
    BY <1>6, <2>1, <2>9
  <2> QED  BY <1>7, <1>8, <2>1, <2>5, <2>6, <2>10 DEF CountInv, Working
<1>14. CASE Retry \/ RunTools
  <2>1. TalkIsCounted' /\ journal' = journal /\ ~SettleStep /\ status' = status /\ phase # "none"
    BY <1>14, TalkCountedByTurn DEF Retry, RunTools, stored, SettleStep, Settles, Leave
  <2> QED  BY <1>5, <1>6, <1>7, <1>8, <2>1 DEF CountInv
<1>15. CASE EmitText \/ SettleEmit
  <2>1. /\ journal' = journal /\ ~Working' /\ ~SettleStep /\ phase # "none"
        /\ at \notin Done(checkpoints)
    <3>1. phase # "none" /\ at \notin Steps
      BY <1>1, <1>15, StepShape, DurableRunAssumption DEF EmitText, SettleEmit, Here, Typed, TypeOK
    <3> QED  BY <1>15, <3>1 DEF EmitText, SettleEmit, Idle, Working, SettleStep, Settles, Done
  <2>2. Frontier(at)
    BY <1>1, <2>1, AtIsOnPath
  <2>3. ASSUME NEW row \in journal PROVE <<row.step, row.turn>> \in CountedCalls'
    <3>1. CASE row.step \in Done(checkpoints) /\ Called(row.step, row.turn)
      BY <1>1, <3>1 DEF Called
    <3>2. CASE Frontier(row.step) /\ program[row.step].kind # "emit_text"
      <4>1. row.step = at
        BY <1>1, <2>2, <3>2, FrontierIsUnique
      <4>2. Here.kind = "emit_llm" /\ phase = "got" /\ Working
        BY <1>15, <3>2, <4>1, <1>1, DurableRunAssumption
        DEF EmitText, SettleEmit, Here, Typed, TypeOK, Working
      <4>3. TalkIsCounted /\ Len(talk) \in Nat /\ row.turn \in Nat \ {0}
        BY <1>1, <4>2, TurnsAreBounded DEF CountInv, CountBase, CallInv, RowsAreRendered
      <4>4. row.turn <= Len(talk) + 1
        BY <4>1, <4>2, NothingBeyond
      <4>5. row.turn \in 1..Len(talk) \/ row.turn = Len(talk) + 1
        BY <4>3, <4>4
      <4> QED  BY <1>1, <4>1, <4>2, <4>3, <4>5 DEF TalkIsCounted, Called
    <3> QED  BY <1>1, <3>1, <3>2 DEF RowIsCounted
  <2>4. AnsweredCallsAreCounted'
    BY <2>1, <2>3 DEF AnsweredCallsAreCounted
  <2> QED  BY <1>5, <1>6, <2>1, <2>4 DEF CountInv
<1>16. CASE StartAttempt \/ SkipCheckpointed \/ RenderFails \/ Raises \/ StepFails \/ Crash
  <2>1. journal' = journal /\ ~Working' /\ ~SettleStep
    BY <1>16 DEF StartAttempt, SkipCheckpointed, RenderFails, Raises, StepFails, Crash, Fail, Idle,
                 Leave, Working, SettleStep, Settles, stored
  <2>2. status' # "completed"
    BY <1>8, <1>16 DEF StartAttempt, SkipCheckpointed, RenderFails, Raises, StepFails, Crash, Fail,
                       stored
  <2> QED  BY <1>9, <2>1, <2>2
<1>17. CASE UNCHANGED vars
  <2>1. /\ UNCHANGED <<program, status, checkpoints, journal, phase, at, talk>> /\ ~SettleStep
    BY <1>17 DEF vars, stored, attempt, SettleStep, Settles, Leave
  <2>2. TalkIsCounted => TalkIsCounted'
    BY <1>1, <1>3, <2>1 DEF TalkIsCounted, Called, Here
  <2>3. AnsweredCallsAreCounted'
    BY <1>1, <2>1 DEF AnsweredCallsAreCounted, CountInv
  <2> QED  BY <1>5, <1>6, <2>1, <2>2, <2>3 DEF CountInv, Working
<1> QED
  BY <1>1, <1>10, <1>11, <1>12, <1>13, <1>14, <1>15, <1>16, <1>17 DEF Next, AttemptStep

\* No model call that was paid for is missing from the metrics of a completed run,
\* however many attempts died between recording an answer and tracing it. It takes what
\* OnlyInFlightCallRepeats takes.
THEOREM AnsweredCallsAreCountedCorrect ==
  ASSUME Separate, SameTools
  PROVE  TracedSpec => []AnsweredCallsAreCounted
<1>1. TracedInit => CountInv
  BY DEF TracedInit, Init, CountInv, Working, AnsweredCallsAreCounted
<1>2. TracedSpec => [](Base /\ CallInv)
  <2>1. TracedSpec => Spec
    BY TracedIsStep, PTL DEF TracedSpec, TracedInit, Spec
  <2> QED  BY <2>1, CallsInvariant, PTL
<1>3. CountInv => AnsweredCallsAreCounted
  BY DEF CountInv
<1>4. PathBase /\ (Base /\ CallInv) /\ CountInv /\ [TracedNext]_tracedVars => CountInv'
  BY CountInvStep DEF CountBase
<1> QED  BY <1>1, <1>2, <1>3, <1>4, TracedPathBase, PTL DEF TracedSpec
=============================================================================
