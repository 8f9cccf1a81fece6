------------------------------ MODULE RunQueue ------------------------------
(***************************************************************************)
(* What a run store promises, without tables, locks, threads or clocks: a  *)
(* durable queue of runs, each executed by one executor at a time, given   *)
(* back to the queue only when its executor is gone, completed once, and   *)
(* forgotten only after it ended.  A run may also be taken past the queue, *)
(* when it is new or failed.  ControlPlane implements it.                  *)
(***************************************************************************)
CONSTANTS Runs, Executors

VARIABLES state,    \* state[r]: what the store says of run r
          executors \* executors[r]: who executes r

queueVars == <<state, executors>>

Ended == {r \in Runs : state[r] \in {"completed", "failed"}}

\* Runs an older release left running have nobody who executes them.
Init ==
  /\ state \in [Runs -> {"none", "running"}]
  /\ executors = [r \in Runs |-> {}]

\* Admission may forget runs that have ended.
Submit(r, forgotten) ==
  /\ state[r] = "none" /\ forgotten \subseteq Ended
  /\ state' = [x \in Runs |-> IF x = r THEN "pending"
                              ELSE IF x \in forgotten THEN "deleted" ELSE state[x]]
  /\ UNCHANGED executors

Create(r) ==
  /\ state[r] = "none"
  /\ state' = [state EXCEPT ![r] = "created"]
  /\ UNCHANGED executors

\* An executor takes a queued run; who names a run takes it new or failed.
Take(r, e) ==
  /\ state[r] \in {"pending", "created", "failed"}
  /\ \A x \in Runs : e \notin executors[x]
  /\ state' = [state EXCEPT ![r] = "running"]
  /\ executors' = [executors EXCEPT ![r] = {e}]

Finish(r, outcome) ==
  /\ executors[r] # {} /\ state[r] = "running"
  /\ state' = [state EXCEPT ![r] = outcome]
  /\ executors' = [executors EXCEPT ![r] = {}]

\* Executors die, or give up without an outcome.
Abandon(S) ==
  /\ executors' = [r \in Runs |-> executors[r] \ S]
  /\ UNCHANGED state

Requeue(S) ==
  /\ \A r \in S : state[r] = "running" /\ executors[r] = {}
  /\ state' = [r \in Runs |-> IF r \in S THEN "pending" ELSE state[r]]
  /\ UNCHANGED executors

Next ==
  \/ \E r \in Runs, forgotten \in SUBSET Runs : Submit(r, forgotten)
  \/ \E r \in Runs : Create(r)
  \/ \E r \in Runs, e \in Executors : Take(r, e)
  \/ \E r \in Runs, outcome \in {"completed", "failed"} : Finish(r, outcome)
  \/ \E S \in SUBSET Executors : Abandon(S)
  \/ \E S \in SUBSET Runs : Requeue(S)

Spec == Init /\ [][Next]_queueVars
=============================================================================
