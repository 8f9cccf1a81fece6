------------------------- MODULE DurableCalls_proofs -------------------------
(***************************************************************************)
(* That a resume asks again for nothing but the call that was in flight.   *)
(*                                                                         *)
(* The rows of a step form one conversation: an attempt that comes back to *)
(* the step renders the same request, is given the recorded replies in     *)
(* their order, and so arrives at the turn whose answer is missing.        *)
(***************************************************************************)
EXTENDS DurableRun_proofs

USE DEF Steps, EmitPos, Replies, Phases

\* No two steps make the same request, and a tool answers a repeated call alike.
Separate  == \A p \in Programs : \A s, q \in 1..EmitPos : p[s].prompt = p[q].prompt => s = q
SameTools == \A a, b \in ToolResults : a = b

Turns   == Replies \X (ToolResults \cup {None})
Working == phase \notin {"none", "step"}

\* What the next request adds to the talk when step s is answered with r.
Fed(s, r) ==
  IF program[s].kind = "agent" THEN <<r, CHOOSE t \in ToolResults : TRUE>> ELSE <<Bad, None>>

Rendered(s) == [q \in program[s].refs |-> checkpoints[q]]

\* A row holds what its step would ask now: the references it rendered are finished.
RowsAreRendered ==
  \A row \in journal :
    /\ row.step \in 1..EmitPos /\ row.turn \in Nat \ {0} /\ row.occurrence = 0
    /\ program[row.step].refs \subseteq Done(checkpoints)
    /\ row.request = <<program[row.step].prompt, Rendered(row.step), row.request[3]>>
    /\ row.request[3] \in Seq(Turns) /\ row.turn = Len(row.request[3]) + 1

\* The talk of row b continues the one of row a.
Continues(b, a) ==
  /\ \A i \in 1..(a.turn - 1) : b.request[3][i] = a.request[3][i]
  /\ a.turn < b.turn => b.request[3][a.turn] = Fed(a.step, a.reply)
  /\ a.turn = b.turn => a.reply = b.reply

OneConversation ==
  /\ \A a, b \in journal : a.step = b.step /\ a.turn <= b.turn => Continues(b, a)
  /\ \A b \in journal : \A k \in 1..(b.turn - 1) :
       \E a \in journal : a.step = b.step /\ a.turn = k

\* The talk of the attempt is the beginning of that conversation.
TalkIsRecorded ==
  /\ \A row \in journal : row.step = at =>
       /\ \A i \in 1..Len(talk) : i < row.turn => talk[i] = row.request[3][i]
       /\ row.turn <= Len(talk) => talk[row.turn] = Fed(at, row.reply)
  /\ \A k \in 1..Len(talk) : \E row \in journal : row.step = at /\ row.turn = k

\* The turn the attempt is at is recorded once it has its reply, and not while the
\* call is out.
TurnIsOpen ==
  /\ phase = "got" =>
       \E row \in journal : row.step = at /\ row.turn = Len(talk) + 1 /\ row.reply = reply
  /\ phase \in {"inflight", "answered"} =>
       \A row \in journal : ~(row.step = at /\ row.turn = Len(talk) + 1)

\* Ordinals were drawn for the requests of earlier steps and turns only, each once.
Drawn(req) ==
  \E q \in 1..at :
    /\ req[1] = program[q].prompt
    /\ q = at => /\ Working
                 /\ Len(req[3]) < Len(talk) + (IF phase = "asking" THEN 0 ELSE 1)
OrdinalsAreDrawn ==
  /\ \A req \in DOMAIN occurrences : Drawn(req)
  /\ phase \in {"inflight", "answered"} => Occurrence(Request) = 1

CallInv ==
  /\ RowsAreRendered /\ OneConversation /\ OrdinalsAreDrawn
  /\ phase = "none" => occurrences = <<>>
  /\ Working => Renders /\ TalkIsRecorded /\ TurnIsOpen
  /\ ~Working => talk = <<>>

Base == Typed /\ WorkInv /\ RememberedIsStored

-----------------------------------------------------------------------------

\* What a step asks is made of its checkpoints and the talk.
LEMMA RequestIsRendered ==
  ASSUME Base, Renders
  PROVE  /\ Request = <<program[at].prompt, Rendered(at), talk>>
         /\ Here.refs \subseteq Done(checkpoints)
         /\ at \in 1..EmitPos
<1>1. at \in 1..EmitPos
  BY DEF Base, Typed, TypeOK
<1>2. \A q \in Here.refs :
        q \in Done(outputs) /\ outputs[q] = checkpoints[q] /\ checkpoints[q] # None
  BY DEF Renders, Base, RememberedIsStored, Done
<1>3. [q \in Here.refs |-> outputs[q]] = Rendered(at)
  BY <1>2 DEF Rendered, Here
<1>4. Here.refs \subseteq Done(checkpoints)
  BY <1>2 DEF Done
<1> QED  BY <1>1, <1>3, <1>4 DEF Request, Here

\* A row of the step and turn that is being asked for is found.
LEMMA RecordedIsFound ==
  ASSUME Separate, Base, CallInv, phase = "asking"
  PROVE  /\ Occurrence(Request) = 0
         /\ \A row \in journal :
              row.step = at /\ row.turn = Len(talk) + 1 => row \in Recorded(Request)
<1>1. Working /\ Renders /\ TalkIsRecorded
  BY DEF CallInv, Working
<1>2. /\ Request = <<program[at].prompt, Rendered(at), talk>> /\ at \in 1..EmitPos
      /\ program \in Programs /\ talk \in Seq(Turns)
  BY <1>1, RequestIsRendered DEF Base, Typed, TypeOK, Turns
<1>3. Request[1] = program[at].prompt /\ Request[3] = talk
  BY <1>2
<1>4. ~Drawn(Request)
  <2> SUFFICES ASSUME Drawn(Request) PROVE FALSE
    OBVIOUS
  <2>1. PICK q \in 1..at : program[at].prompt = program[q].prompt
                           /\ (q = at => Len(talk) < Len(talk) + 0)
    BY <1>3 DEF Drawn
  <2>2. at \in 1..EmitPos /\ q \in 1..EmitPos
    BY <1>2, DurableRunAssumption
  <2>3. q = at
    <3>1. \A s, r \in 1..EmitPos : program[s].prompt = program[r].prompt => s = r
      BY <1>2, Zenon DEF Separate
    <3>2. program[at].prompt = program[q].prompt
      BY <2>1, Zenon
    <3> QED  BY <2>2, <3>1, <3>2, Zenon
  <2>4. Len(talk) \in Nat
    BY <1>2
  <2> QED  BY <2>1, <2>3, <2>4
<1>5. Occurrence(Request) = 0
  BY <1>4 DEF Occurrence, CallInv, OrdinalsAreDrawn
<1>6. ASSUME NEW row \in journal, row.step = at, row.turn = Len(talk) + 1
      PROVE  row \in Recorded(Request)
  <2>1. /\ row.request = <<program[at].prompt, Rendered(at), row.request[3]>>
        /\ row.request[3] \in Seq(Turns) /\ Len(row.request[3]) = Len(talk) /\ row.occurrence = 0
    BY <1>2, <1>6 DEF CallInv, RowsAreRendered
  <2>2. \A i \in 1..Len(talk) : talk[i] = row.request[3][i]
    BY <1>1, <1>2, <1>6 DEF TalkIsRecorded
  <2>3. row.request[3] = talk
    <3> DEFINE said == row.request[3]
    <3>1. said \in Seq(Turns) /\ Len(said) = Len(talk) /\ \A i \in 1..Len(talk) : talk[i] = said[i]
      BY <2>1, <2>2
    <3> HIDE DEF said
    <3>2. said = talk
      BY <1>2, <3>1
    <3> QED  BY <3>2 DEF said
  <2> QED  BY <1>2, <1>5, <2>1, <2>3 DEF Recorded
<1> QED  BY <1>5, <1>6

\* The property itself: the provider is called for a turn that has no row.
LEMMA CallIsForOpenTurn ==
  ASSUME Separate, Base, CallInv, CallProvider
  PROVE  \A row \in journal : ~(row.step = at /\ row.turn = Len(talk) + 1)
BY RecordedIsFound DEF CallProvider

-----------------------------------------------------------------------------
(* The conversation is kept by every step. *)

\* Without a new row the conversation of every step is what it was.
LEMMA ConversationKept ==
  ASSUME CallInv, UNCHANGED <<program, journal>>
  PROVE  OneConversation'
<1>1. \A s, r : Fed(s, r)' = Fed(s, r)
  BY DEF Fed
<1>2. \A b, a : Continues(b, a)' = Continues(b, a)
  BY <1>1 DEF Continues
<1> QED  BY <1>2 DEF CallInv, OneConversation

\* A step that writes neither rows nor checkpoints.
LEMMA RowsKept ==
  ASSUME CallInv, UNCHANGED <<program, journal, checkpoints>>
  PROVE  RowsAreRendered' /\ OneConversation'
<1>1. \A s : Rendered(s)' = Rendered(s)
  BY DEF Rendered
<1>2. RowsAreRendered'
  BY <1>1 DEF CallInv, RowsAreRendered, Done
<1>3. OneConversation'
  BY ConversationKept
<1> QED  BY <1>2, <1>3

\* A checkpoint is of a step that no row has rendered.
LEMMA RowsKeptBySettling ==
  ASSUME Base, CallInv, SettleStep
  PROVE  RowsAreRendered' /\ OneConversation'
<1>1. UNCHANGED <<program, journal>>
  BY DEF SettleStep
<1>2. OneConversation'
  BY <1>1, ConversationKept
<1>3. /\ at \in Steps /\ at \notin Done(checkpoints)
      /\ checkpoints' = [checkpoints EXCEPT ![at] = Output]
      /\ Done(checkpoints') = Done(checkpoints) \cup {at}
  BY SettlesOpenStep DEF Base
<1>4. \A s : program[s].refs \subseteq Done(checkpoints) => Rendered(s)' = Rendered(s)
  BY <1>1, <1>3 DEF Rendered, Done
<1>5. RowsAreRendered'
  BY <1>1, <1>3, <1>4 DEF CallInv, RowsAreRendered
<1> QED  BY <1>2, <1>5

\* While a call is out the conversation of its step ends before it.
LEMMA NothingAhead ==
  ASSUME Base, CallInv, phase \in {"inflight", "answered"}
  PROVE  \A row \in journal : row.step = at => row.turn <= Len(talk)
<1> SUFFICES ASSUME NEW row \in journal, row.step = at, ~(row.turn <= Len(talk))
             PROVE  FALSE
  OBVIOUS
<1>1. TurnIsOpen /\ Len(talk) \in Nat /\ row.turn \in Nat
  BY DEF CallInv, Working, RowsAreRendered, Base, Typed, TypeOK
<1>2. row.turn # Len(talk) + 1
  BY <1>1 DEF TurnIsOpen
<1>3. Len(talk) + 1 \in 1..(row.turn - 1)
  BY <1>1, <1>2
<1>4. \E a \in journal : a.step = at /\ a.turn = Len(talk) + 1
  BY <1>3 DEF CallInv, OneConversation
<1> QED  BY <1>1, <1>4 DEF TurnIsOpen

\* The answer that is recorded continues the conversation of its step.
LEMMA RowsKeptByRecording ==
  ASSUME Base, CallInv, RecordAnswer
  PROVE  RowsAreRendered' /\ OneConversation' /\ TalkIsRecorded' /\ TurnIsOpen'
<1> DEFINE new == [request |-> Request, occurrence |-> Occurrence(Request) - 1, reply |-> reply,
                   step |-> at, turn |-> Len(talk) + 1]
<1>1. /\ Working /\ Renders /\ TalkIsRecorded /\ TurnIsOpen
      /\ Occurrence(Request) = 1 /\ phase = "answered"
  BY DEF RecordAnswer, CallInv, Working, OrdinalsAreDrawn
<1>2. /\ Request = <<program[at].prompt, Rendered(at), talk>> /\ at \in 1..EmitPos
      /\ program[at].refs \subseteq Done(checkpoints)
      /\ talk \in Seq(Turns) /\ Len(talk) \in Nat
  BY <1>1, RequestIsRendered DEF Base, Typed, TypeOK, Turns, Here
<1>3. /\ new.request = <<program[at].prompt, Rendered(at), talk>> /\ new.request[3] = talk
      /\ new.occurrence = 0 /\ new.reply = reply /\ new.step = at /\ new.turn = Len(talk) + 1
  BY <1>1, <1>2
<1>4. /\ journal' = journal \cup {new} /\ phase' = "got"
      /\ UNCHANGED <<program, checkpoints, at, talk, reply>>
  BY DEF RecordAnswer
<1> HIDE DEF new
<1>5. \A row \in journal : row.turn \in Nat \ {0}
  BY DEF CallInv, RowsAreRendered
<1>6. \A row \in journal : row.step = at => row.turn <= Len(talk)
  BY <1>1, NothingAhead
<1>7. RowsAreRendered'
  <2>1. \A s : Rendered(s)' = Rendered(s)
    BY <1>4 DEF Rendered
  <2>2. Done(checkpoints') = Done(checkpoints)
    BY <1>4
  <2> QED  BY <1>2, <1>3, <1>4, <2>1, <2>2 DEF CallInv, RowsAreRendered
<1>8. OneConversation'
  <2>1. ASSUME NEW a \in journal, a.step = at PROVE Continues(new, a)
    <3>1. a.turn \in Nat \ {0} /\ a.turn <= Len(talk)
      BY <1>5, <1>6, <2>1
    <3>2. \A i \in 1..(a.turn - 1) : new.request[3][i] = a.request[3][i]
      BY <1>1, <1>2, <1>3, <2>1, <3>1 DEF TalkIsRecorded
    <3>3. new.request[3][a.turn] = Fed(a.step, a.reply)
      BY <1>1, <1>3, <2>1, <3>1 DEF TalkIsRecorded
    <3> QED  BY <1>2, <1>3, <3>1, <3>2, <3>3 DEF Continues
  <2>2. Continues(new, new)
    BY <1>2, <1>3 DEF Continues
  <2>3. \A a \in journal : a.step = at => ~(new.turn <= a.turn)
    BY <1>2, <1>3, <1>5, <1>6
  <2>4. \A a, b \in journal' : a.step = b.step /\ a.turn <= b.turn => Continues(b, a)
    BY <1>3, <1>4, <2>1, <2>2, <2>3 DEF CallInv, OneConversation
  <2>5. \A a, b : Continues(b, a)' = Continues(b, a)
    BY <1>4 DEF Continues, Fed
  <2>6. \A b \in journal' : \A k \in 1..(b.turn - 1) :
          \E a \in journal' : a.step = b.step /\ a.turn = k
    <3> SUFFICES ASSUME NEW b \in journal', NEW k \in 1..(b.turn - 1)
                 PROVE  \E a \in journal : a.step = b.step /\ a.turn = k
      BY <1>4
    <3>1. CASE b \in journal
      BY <3>1 DEF CallInv, OneConversation
    <3>2. CASE b = new
      <4>1. k \in 1..Len(talk)
        BY <1>2, <1>3, <3>2
      <4> QED  BY <1>1, <1>3, <3>2, <4>1 DEF TalkIsRecorded
    <3> QED  BY <1>4, <3>1, <3>2
  <2> QED  BY <2>4, <2>5, <2>6 DEF OneConversation
<1>9. TalkIsRecorded'
  <2>1. \A row \in journal' : row \in journal \/ row = new
    BY <1>4
  <2>2. ~(new.turn <= Len(talk))
    BY <1>2, <1>3
  <2>3. \A s, r : Fed(s, r)' = Fed(s, r)
    BY <1>4 DEF Fed
  <2> QED  BY <1>1, <1>3, <1>4, <2>1, <2>2, <2>3 DEF TalkIsRecorded
<1>10. TurnIsOpen'
  BY <1>3, <1>4 DEF TurnIsOpen
<1> QED  BY <1>7, <1>8, <1>9, <1>10

\* Feeding back a reply leads to where the recorded conversation went.
LEMMA TalkKeptByTurn ==
  ASSUME SameTools, Base, CallInv, Retry \/ RunTools
  PROVE  TalkIsRecorded'
<1>1. /\ Working /\ TalkIsRecorded /\ TurnIsOpen /\ phase = "got"
      /\ UNCHANGED <<program, journal, at>>
  BY DEF Retry, RunTools, CallInv, Working, stored
<1>2. talk \in Seq(Turns) /\ Len(talk) \in Nat /\ reply \in Replies
  BY <1>1 DEF Base, Typed, TypeOK, Turns
<1>3. talk' = Append(talk, Fed(at, reply))
  <2>1. CASE Retry
    <3>1. talk = <<>> /\ talk' = <<<<Bad, None>>>> /\ program[at].kind # "agent"
      BY <2>1 DEF Retry, Here, Contracts
    <3> QED  BY <3>1 DEF Fed
  <2>2. CASE RunTools
    <3>1. PICK result \in ToolResults : talk' = Append(talk, <<reply, result>>)
      BY <2>2 DEF RunTools
    <3>2. result = CHOOSE t \in ToolResults : TRUE
      BY <3>1 DEF SameTools
    <3> QED  BY <2>2, <3>1, <3>2 DEF RunTools, Here, Fed
  <2> QED  BY <2>1, <2>2
<1>4. Fed(at, reply) \in Turns
  <2>1. CASE program[at].kind = "agent"
    <3>1. RunTools
      BY <2>1 DEF Retry, Here, Contracts
    <3> QED  BY <1>2, <2>1, <3>1 DEF RunTools, Fed, Turns
  <2> QED  BY <1>2, <2>1 DEF Fed, Turns
<1>5. /\ Len(talk') = Len(talk) + 1 /\ talk'[Len(talk) + 1] = Fed(at, reply)
      /\ \A i \in 1..Len(talk) : talk'[i] = talk[i]
  BY <1>2, <1>3, <1>4
<1>6. PICK here \in journal : here.step = at /\ here.turn = Len(talk) + 1 /\ here.reply = reply
  BY <1>1 DEF TurnIsOpen
<1>7. ASSUME NEW row \in journal, row.step = at, row.turn \in Nat
      PROVE  /\ Len(talk) + 1 < row.turn => Fed(at, reply) = row.request[3][Len(talk) + 1]
             /\ Len(talk) + 1 = row.turn => row.reply = reply
  <2>1. Len(talk) + 1 <= row.turn => Continues(row, here)
    BY <1>6, <1>7 DEF CallInv, OneConversation
  <2> QED  BY <1>2, <1>6, <1>7, <2>1 DEF Continues
<1>8. \A row \in journal : row.turn \in Nat
  BY DEF CallInv, RowsAreRendered
<1>9. ASSUME NEW row \in journal, row.step = at
      PROVE  /\ \A i \in 1..(Len(talk) + 1) : i < row.turn => talk'[i] = row.request[3][i]
             /\ row.turn <= Len(talk) + 1 => talk'[row.turn] = Fed(at, row.reply)
  <2>1. ASSUME NEW i \in 1..(Len(talk) + 1), i < row.turn PROVE talk'[i] = row.request[3][i]
    <3>1. CASE i \in 1..Len(talk)
      BY <1>1, <1>5, <1>9, <2>1, <3>1 DEF TalkIsRecorded
    <3>2. CASE i = Len(talk) + 1
      BY <1>5, <1>7, <1>8, <1>9, <2>1, <3>2
    <3> QED  BY <1>2, <3>1, <3>2
  <2>2. ASSUME row.turn <= Len(talk) + 1 PROVE talk'[row.turn] = Fed(at, row.reply)
    <3>1. CASE row.turn <= Len(talk)
      <4>1. row.turn \in 1..Len(talk)
        BY <1>2, <3>1 DEF CallInv, RowsAreRendered
      <4> QED  BY <1>1, <1>5, <1>9, <3>1, <4>1 DEF TalkIsRecorded
    <3>2. CASE row.turn = Len(talk) + 1
      BY <1>5, <1>7, <1>8, <1>9, <3>2
    <3> QED  BY <1>2, <1>8, <2>2, <3>1, <3>2
  <2> QED  BY <2>1, <2>2
<1>10. \A k \in 1..(Len(talk) + 1) : \E row \in journal : row.step = at /\ row.turn = k
  <2> SUFFICES ASSUME NEW k \in 1..(Len(talk) + 1)
               PROVE  \E row \in journal : row.step = at /\ row.turn = k
    OBVIOUS
  <2>1. CASE k \in 1..Len(talk)
    BY <1>1, <2>1 DEF TalkIsRecorded
  <2>2. CASE k = Len(talk) + 1
    BY <1>6, <2>2
  <2> QED  BY <1>2, <2>1, <2>2
<1>11. \A s, r : Fed(s, r)' = Fed(s, r)
  BY <1>1 DEF Fed
<1> QED  BY <1>1, <1>5, <1>9, <1>10, <1>11 DEF TalkIsRecorded

-----------------------------------------------------------------------------
(* Ordinals. *)

\* Ordinals drawn before stay accounted for when the attempt has moved on.
LEMMA DrawnStaysBehind ==
  ASSUME Base, CallInv, UNCHANGED <<program, occurrences>>, at' \in Nat, at < at'
  PROVE  \A req \in DOMAIN occurrences' : Drawn(req)'
<1> SUFFICES ASSUME NEW req \in DOMAIN occurrences PROVE Drawn(req)'
  OBVIOUS
<1>1. PICK q \in 1..at : req[1] = program[q].prompt
  BY DEF CallInv, OrdinalsAreDrawn, Drawn
<1>2. at \in Nat
  BY DurableRunAssumption DEF Base, Typed, TypeOK
<1>3. q \in 1..at' /\ q # at'
  BY <1>1, <1>2
<1> QED  BY <1>1, <1>3 DEF Drawn

\* They do, too, when it goes on with the step.
LEMMA DrawnStaysSaid ==
  ASSUME Base, CallInv, UNCHANGED <<program, at>>, Working', NEW req, Drawn(req),
         \/ talk' = talk /\ (phase = "asking" \/ phase' # "asking")
         \/ Len(talk') = Len(talk) + 1 /\ phase = "got"
  PROVE  Drawn(req)'
<1> DEFINE Bound == Len(talk) + (IF phase = "asking" THEN 0 ELSE 1)
<1>1. talk \in Seq(Turns) /\ Len(talk) \in Nat
  BY DEF Base, Typed, TypeOK, Turns
<1>2. PICK q \in 1..at :
        req[1] = program[q].prompt /\ (q = at => Working /\ Len(req[3]) < Bound)
  BY DEF Drawn
<1>3. Bound \in Nat /\ Bound' \in Nat /\ Bound <= Bound'
  BY <1>1
<1>4. q = at => Len(req[3]) < Bound'
  BY <1>2, <1>3
<1> QED  BY <1>2, <1>4 DEF Drawn

\* A call draws the ordinal of the turn it is at.
LEMMA DrawnByCall ==
  ASSUME Separate, Base, CallInv, Replay \/ CallProvider
  PROVE  OrdinalsAreDrawn'
<1>1. /\ phase = "asking" /\ phase' \in {"got", "inflight"} /\ Ordinal(Request)
      /\ UNCHANGED <<program, checkpoints, at, outputs, talk>> /\ Working /\ Renders
  BY DEF Replay, CallProvider, stored, Working, CallInv
<1>2. /\ Request[1] = program[at].prompt /\ Request[3] = talk /\ at \in 1..EmitPos
      /\ talk \in Seq(Turns) /\ Len(talk) \in Nat
  BY <1>1, RequestIsRendered DEF Base, Typed, TypeOK, Turns
<1>3. DOMAIN occurrences' = DOMAIN occurrences \cup {Request}
  BY <1>1 DEF Ordinal
<1>4. Drawn(Request)'
  <2>1. Request' = Request
    BY <1>1 DEF Request, Here
  <2>2. at \in 1..at'
    BY <1>1, <1>2, DurableRunAssumption
  <2>3. Len(talk) < Len(talk') + (IF phase' = "asking" THEN 0 ELSE 1)
    BY <1>1, <1>2
  <2> QED  BY <1>1, <1>2, <2>1, <2>2, <2>3 DEF Drawn, Working
<1>5. \A req \in DOMAIN occurrences : Drawn(req)'
  BY <1>1, DrawnStaysSaid DEF CallInv, OrdinalsAreDrawn, Working
<1>6. Occurrence(Request)' = 1
  <2>1. Request' = Request /\ Occurrence(Request) = 0
    BY <1>1, RecordedIsFound DEF Request, Here
  <2> QED  BY <1>1, <2>1 DEF Ordinal, Occurrence
<1>7. Request' = Request
  BY <1>1 DEF Request, Here
<1> QED  BY <1>3, <1>4, <1>5, <1>6, <1>7 DEF OrdinalsAreDrawn

-----------------------------------------------------------------------------

\* Before the first attempt nothing is recorded and no ordinal drawn.
LEMMA CallInvInit == Init => CallInv
BY DEF Init, CallInv, RowsAreRendered, OneConversation, OrdinalsAreDrawn, Working

\* A call that is answered, by the journal or in flight, leaves the conversation alone.
LEMMA TalkKeptByCall ==
  ASSUME Separate, Base, CallInv, Replay \/ CallProvider
  PROVE  TalkIsRecorded' /\ TurnIsOpen'
<1>1. /\ phase = "asking" /\ UNCHANGED <<program, checkpoints, journal, at, outputs, talk>>
      /\ Working /\ Renders /\ TalkIsRecorded
  BY DEF Replay, CallProvider, stored, Working, CallInv
<1>2. TalkIsRecorded'
  <2>1. \A s, r : Fed(s, r)' = Fed(s, r)
    BY <1>1 DEF Fed
  <2> QED  BY <1>1, <2>1 DEF TalkIsRecorded
<1>3. CASE CallProvider
  BY <1>1, <1>2, <1>3, CallIsForOpenTurn DEF CallProvider, TurnIsOpen
<1>4. CASE Replay
  <2>1. PICK row \in Recorded(Request) : reply' = row.reply
    BY <1>4 DEF Replay
  <2>2. row \in journal /\ row.request = Request
    BY <2>1 DEF Recorded
  <2>3. /\ Request[1] = program[at].prompt /\ Request[3] = talk /\ at \in 1..EmitPos
        /\ program \in Programs
    BY <1>1, RequestIsRendered DEF Base, Typed, TypeOK
  <2>4. /\ row.step \in 1..EmitPos /\ row.turn = Len(row.request[3]) + 1
        /\ row.request = <<program[row.step].prompt, Rendered(row.step), row.request[3]>>
    BY <2>2 DEF CallInv, RowsAreRendered
  <2>5. program[row.step].prompt = program[at].prompt
    BY <2>2, <2>3, <2>4
  <2>6. row.step = at
    <3>1. \A s, r \in 1..EmitPos : program[s].prompt = program[r].prompt => s = r
      BY <2>3, Zenon DEF Separate
    <3> QED  BY <2>3, <2>4, <2>5, <3>1, Zenon
  <2>7. row.turn = Len(talk) + 1
    BY <2>2, <2>3, <2>4
  <2> QED  BY <1>1, <1>2, <1>4, <2>1, <2>2, <2>6, <2>7 DEF Replay, TurnIsOpen
<1> QED  BY <1>3, <1>4, <1>2

\* Every step of an attempt, its failures and its crash keep the conversation.
LEMMA CallInvStep ==
  ASSUME Separate, SameTools
  PROVE  Base /\ CallInv /\ Base' /\ [Next]_vars => CallInv'
<1> SUFFICES ASSUME Base, CallInv, Base', [Next]_vars PROVE CallInv'
  OBVIOUS
<1> DEFINE Same == UNCHANGED <<program, journal, checkpoints>>
<1>1. CASE StartAttempt
  <2>1. UNCHANGED <<program, journal, checkpoints, occurrences, talk>> /\ phase = "none"
        /\ phase' = "step" /\ occurrences = <<>> /\ talk = <<>>
    BY <1>1 DEF StartAttempt, CallInv, Working
  <2> QED  BY <2>1, RowsKept DEF CallInv, OrdinalsAreDrawn, Working
<1>2. CASE Ends /\ journal' = journal
  <2>1. Same /\ phase' = "none" /\ occurrences' = <<>> /\ talk' = <<>>
    BY <1>2 DEF Ends, Idle
  <2> QED  BY <2>1, RowsKept DEF CallInv, OrdinalsAreDrawn, Working
<1>3. CASE SkipCheckpointed
  <2>1. at \in Steps /\ at' \in (at + 1)..EmitPos
    BY <1>3, LeavesForward DEF SkipCheckpointed, Done, Base
  <2>2. /\ Same /\ UNCHANGED occurrences /\ phase' = "step" /\ talk' = <<>>
        /\ at' \in Nat /\ at < at'
    BY <1>3, <2>1, DurableRunAssumption DEF SkipCheckpointed, stored, Leave
  <2> QED  BY <2>2, RowsKept, DrawnStaysBehind DEF CallInv, OrdinalsAreDrawn, Working
<1>4. CASE SettleStep
  <2>1. at \in Steps /\ at' \in (at + 1)..EmitPos
    BY <1>4, LeavesForward DEF SettleStep, Settles, Base
  <2>2. /\ UNCHANGED <<program, occurrences>> /\ phase' = "step" /\ talk' = <<>>
        /\ at' \in Nat /\ at < at'
    BY <1>4, <2>1, DurableRunAssumption DEF SettleStep, Leave
  <2> QED
    BY <1>4, <2>2, RowsKeptBySettling, DrawnStaysBehind DEF CallInv, OrdinalsAreDrawn, Working
<1>5. CASE BeginStep
  <2>1. /\ Same /\ UNCHANGED <<occurrences, at, talk, outputs>> /\ talk = <<>>
        /\ phase = "step" /\ phase' = "asking" /\ Renders
    BY <1>5 DEF BeginStep, stored, CallInv, Working
  <2>2. Renders'
    BY <2>1 DEF Renders, Here, Done
  <2>3. TalkIsRecorded' /\ TurnIsOpen'
    BY <2>1 DEF TalkIsRecorded, TurnIsOpen, CallInv, RowsAreRendered
  <2>4. \A req \in DOMAIN occurrences' : Drawn(req)'
    <3>1. \A req \in DOMAIN occurrences : Drawn(req)
      BY DEF CallInv, OrdinalsAreDrawn
    <3> QED  BY <2>1, <3>1 DEF Drawn, Working
  <2> QED  BY <2>1, <2>2, <2>3, <2>4, RowsKept DEF CallInv, OrdinalsAreDrawn, Working
<1>6. CASE Replay \/ CallProvider
  <2>1. Same /\ UNCHANGED <<at, outputs>> /\ phase' \in {"got", "inflight"} /\ Renders
    BY <1>6 DEF Replay, CallProvider, stored, CallInv, Working
  <2>2. Renders'
    BY <2>1 DEF Renders, Here, Done
  <2> QED
    BY <1>6, <2>1, <2>2, RowsKept, TalkKeptByCall, DrawnByCall DEF CallInv, Working
<1>7. CASE ProviderAnswers
  <2>1. /\ Same /\ UNCHANGED <<at, outputs, talk, occurrences>>
        /\ phase = "inflight" /\ phase' = "answered" /\ Renders /\ TalkIsRecorded /\ TurnIsOpen
    BY <1>7 DEF ProviderAnswers, stored, CallInv, Working
  <2>2. Renders' /\ Request' = Request
    BY <2>1 DEF Renders, Request, Here, Done
  <2>3. TalkIsRecorded' /\ TurnIsOpen'
    BY <2>1 DEF TalkIsRecorded, TurnIsOpen, Fed
  <2>4. OrdinalsAreDrawn'
    BY <2>1, <2>2, DrawnStaysSaid DEF CallInv, OrdinalsAreDrawn, Working, Occurrence
  <2> QED  BY <2>1, <2>2, <2>3, <2>4, RowsKept DEF CallInv, Working
<1>8. CASE RecordAnswer
  <2>1. /\ UNCHANGED <<program, at, outputs, talk, occurrences>>
        /\ phase = "answered" /\ phase' = "got" /\ Renders
    BY <1>8 DEF RecordAnswer, CallInv, Working
  <2>2. Renders'
    BY <2>1 DEF Renders, Here, Done
  <2>3. OrdinalsAreDrawn'
    BY <2>1, DrawnStaysSaid DEF CallInv, OrdinalsAreDrawn, Working
  <2> QED  BY <1>8, <2>1, <2>2, <2>3, RowsKeptByRecording DEF CallInv, Working
<1>9. CASE Retry \/ RunTools
  <2>1. /\ Same /\ UNCHANGED <<at, outputs, occurrences>>
        /\ phase = "got" /\ phase' = "asking" /\ Renders
    BY <1>9 DEF Retry, RunTools, stored, CallInv, Working
  <2>2. Renders'
    BY <2>1 DEF Renders, Here, Done
  <2>3. Len(talk') = Len(talk) + 1
    <3>1. CASE Retry
      BY <3>1 DEF Retry
    <3>2. CASE RunTools
      BY <3>2 DEF RunTools, Base, Typed, TypeOK
    <3> QED  BY <1>9, <3>1, <3>2
  <2>4. OrdinalsAreDrawn'
    BY <2>1, <2>3, DrawnStaysSaid DEF CallInv, OrdinalsAreDrawn, Working
  <2>5. TurnIsOpen'
    BY <2>1 DEF TurnIsOpen
  <2> QED  BY <1>9, <2>1, <2>2, <2>4, <2>5, RowsKept, TalkKeptByTurn DEF CallInv, Working
<1>10. CASE UNCHANGED vars
  <2>1. Same /\ UNCHANGED <<phase, at, outputs, talk, occurrences, reply>>
    BY <1>10 DEF vars, stored, attempt
  <2>2. Renders' = Renders /\ Request' = Request /\ Working' = Working
    BY <2>1 DEF Renders, Request, Here, Done, Working
  <2>3. TalkIsRecorded' = TalkIsRecorded /\ TurnIsOpen' = TurnIsOpen
    BY <2>1 DEF TalkIsRecorded, TurnIsOpen, Fed
  <2>4. OrdinalsAreDrawn'
    BY <2>1, <2>2 DEF CallInv, OrdinalsAreDrawn, Occurrence, Drawn
  <2> QED  BY <2>1, <2>2, <2>3, <2>4, RowsKept DEF CallInv
<1>11. \/ StartAttempt \/ SkipCheckpointed \/ SettleStep \/ (Ends /\ journal' = journal)
       \/ BeginStep \/ Replay \/ CallProvider \/ ProviderAnswers \/ RecordAnswer
       \/ Retry \/ RunTools \/ UNCHANGED vars
  <2>1. CASE RenderFails \/ Raises \/ StepFails \/ EmitText \/ SettleEmit \/ Crash
    <3>1. Idle /\ UNCHANGED <<program, checkpoints, journal>>
      BY <2>1 DEF RenderFails, Raises, StepFails, Fail, EmitText, SettleEmit, Crash, stored
    <3>2. \/ StartAttempt \/ SkipCheckpointed \/ SettleStep \/ Ends \/ Works
          \/ UNCHANGED vars
      BY StepForms DEF Base
    <3>3. ~Works
      BY <3>1 DEF Idle, Works
    <3> QED  BY <3>1, <3>2, <3>3
  <2> QED  BY <2>1 DEF Next, AttemptStep
<1> QED  BY <1>1, <1>2, <1>3, <1>4, <1>5, <1>6, <1>7, <1>8, <1>9, <1>10, <1>11

\* The conversation is kept by whatever attempts there are.
LEMMA CallsInvariant ==
  ASSUME Separate, SameTools
  PROVE  Spec => [](Base /\ CallInv)
<1>1. Base /\ CallInv /\ Base' /\ [Next]_vars => CallInv'
  BY CallInvStep
<1>2. Spec => []Base
  BY InitWork, NextTyped, WorkInvStep, RememberedInit, RememberedStep, PTL DEF Spec, Base
<1> QED  BY <1>1, <1>2, CallInvInit, PTL DEF Spec

\* "At most the interrupted step's single in-flight call re-executes": however often the
\* run fails or crashes, and wherever, no turn is asked of the provider again once its
\* answer was recorded. It takes steps whose requests differ and tools that answer alike.
THEOREM OnlyInFlightCallRepeatsCorrect ==
  ASSUME Separate, SameTools
  PROVE  Spec => OnlyInFlightCallRepeats
<1> DEFINE Fresh == phase = "asking" /\ phase' = "inflight"
                      => \A row \in journal : <<row.step, row.turn>> # <<at, Len(talk) + 1>>
<1>1. Base /\ CallInv /\ [Next]_vars => [Fresh]_vars
  <2> SUFFICES ASSUME Base, CallInv, Next, phase = "asking", phase' = "inflight"
               PROVE  \A row \in journal : <<row.step, row.turn>> # <<at, Len(talk) + 1>>
    OBVIOUS
  <2>1. CallProvider
    BY DEF Next, AttemptStep, StartAttempt, Crash, SkipCheckpointed, BeginStep, RenderFails,
       EmitText, Replay, ProviderAnswers, RecordAnswer, Raises, Retry, RunTools, SettleStep,
       SettleEmit, StepFails, Fail, Idle, Leave
  <2> QED  BY <2>1, CallIsForOpenTurn
<1> QED
  BY <1>1, CallsInvariant, PTL DEF Spec, OnlyInFlightCallRepeats
=============================================================================
