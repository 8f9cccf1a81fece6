------------------------------ MODULE RunWalk ------------------------------
(***************************************************************************)
(* What a persisted run promises, without attempts, journal or retries:    *)
(* the workflow is walked once, from the first step along the edges its    *)
(* outputs choose to emit; every step has its output once, from what was   *)
(* there when the walk came to it.  DurableRun implements it: whatever     *)
(* attempts fail or crash, what the store shows is one walk.               *)
(***************************************************************************)
EXTENDS Naturals

CONSTANTS NSteps, Programs, Values, Texts, Replies \* as in DurableRun

VARIABLES program, \* the workflow
          here,    \* where the walk is
          results, \* the outputs of the steps it passed
          over     \* the workflow's output was emitted

walkVars == <<program, here, results, over>>

Passed == {s \in 1..NSteps : results[s] # "none"}

Init ==
  /\ program \in Programs
  /\ here = 1 /\ over = FALSE
  /\ results = [s \in 1..NSteps |-> "none"]

\* Where a step's output leads; 0 when a route has no arm for it and no else.
Edge(step, out) ==
  CASE step.kind # "route"                             -> step.next
    [] step.kind = "route" /\ out \in DOMAIN step.arms -> step.arms[out]
    [] OTHER                                            -> step.otherwise

\* Only a route may have an output outside its contract, and then an edge for it.
Pass(out) ==
  LET step == program[here]
  IN  /\ here <= NSteps /\ ~over
      /\ step.refs \subseteq Passed
      /\ step.kind = "route" \/ out \in Texts
      /\ step.kind = "one_of" => out \in Values
      /\ Edge(step, out) # 0
      /\ here' = Edge(step, out)
      /\ results' = [results EXCEPT ![here] = out]
      /\ UNCHANGED <<program, over>>

Emit ==
  /\ here = NSteps + 1 /\ ~over
  /\ program[here].refs \subseteq Passed
  /\ over' = TRUE
  /\ UNCHANGED <<program, here, results>>

Next == Emit \/ \E out \in Replies : Pass(out)

Spec == Init /\ [][Next]_walkVars
=============================================================================
