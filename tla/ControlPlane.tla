---------------------------- MODULE ControlPlane ----------------------------
(***************************************************************************)
(* Everything that may act on one run store: submitters, worker pools of   *)
(* server processes, and CLI processes, with crashes and store faults.     *)
(***************************************************************************)
EXTENDS WorkerPool, CliRunner

CONSTANTS MaxInterruptions, \* bound on crashes, operator stops and CLI deaths
          MaxFaults         \* bound on store calls that raise

ASSUME ControlPlaneAssumption ==
  /\ MaxInterruptions \in Nat /\ MaxFaults \in Nat
  /\ Clis \cap Threads = {}

VARIABLES interruptions, faults

envVars == <<interruptions, faults>>
vars == <<storeVars, poolVars, cliVars, envVars>>

\* Every variable has its type, a thread that holds a run names it, and a CLI process
\* past its checks has the status it will compare with.
TypeOK ==
  /\ StoreTypeOK /\ PoolTypeOK /\ CliTypeOK
  /\ interruptions \in 0..MaxInterruptions
  /\ faults \in 0..MaxFaults

Init ==
  /\ StoreInit /\ PoolInit /\ CliInit
  /\ interruptions = 0 /\ faults = 0

Interrupted ==
  /\ interruptions < MaxInterruptions
  /\ interruptions' = interruptions + 1
  /\ UNCHANGED faults

Faulted ==
  /\ faults < MaxFaults
  /\ faults' = faults + 1
  /\ UNCHANGED interruptions

Submission(r) == MintRun(r) \/ EnqueueRun(r) \/ RefuseRun(r)

Submit  == (\E r \in Runs : Submission(r)) /\ UNCHANGED <<poolVars, cliVars, envVars>>
PoolRuns(s)   == PoolStep(s) /\ UNCHANGED <<cliVars, envVars>>
ThreadRuns(t) == ThreadStep(t) /\ UNCHANGED <<cliVars, envVars>>
CliRuns(c)    == CliStep(c) /\ UNCHANGED <<poolVars, envVars>>

Interruption ==
  /\ Interrupted
  /\ \/ (\E s \in Servers : RequestStop(s) \/ Crash(s)) /\ UNCHANGED cliVars
     \/ (\E c \in Clis : CliDies(c)) /\ UNCHANGED poolVars

Fault ==
  /\ Faulted
  /\ \/ \E s \in Servers : StartFails(s)
     \/ \E t \in Threads : ThreadFault(t)
  /\ UNCHANGED cliVars

Next ==
  \/ Submit
  \/ \E s \in Servers : PoolRuns(s)
  \/ \E t \in Threads : ThreadRuns(t)
  \/ \E c \in Clis : CliRuns(c)
  \/ Interruption
  \/ Fault

Spec == Init /\ [][Next]_vars

(* A supervisor restarts the server, threads and calls make progress; nothing *)
(* obliges anyone to submit, and interruptions and faults run out.            *)
FairSpec ==
  /\ Spec
  /\ WF_vars(\E s \in Servers : PoolRuns(s))
  /\ \A t \in Threads : WF_vars(ThreadRuns(t))
-----------------------------------------------------------------------------
(* Who holds a run: a worker thread from its claim until it lets the run go,  *)
(* a CLI process from its compare-and-swap until it has recorded the outcome. *)

CliHolds(c) == cpc[c] \in {"executing", "failing"}

ThreadHolders(r) == {t \in Threads : Holds(t) /\ held[t] = r}
CliHolders(r)    == {c \in Clis : CliHolds(c) /\ crun[c] = r}
Holders(r)       == ThreadHolders(r) \cup CliHolders(r)

Stranded == {r \in Running : bound[r] /\ Holders(r) = {}}
InFlight == {r \in Pending \cup Running : bound[r]}

\* "so no run runs twice" (control.py), "no run is ever claimed twice" (store.py):
\* no two threads or CLI processes hold the same run.
OneExecutor == \A r \in Runs : \A h1, h2 \in Holders(r) : h1 = h2

\* The row of a run that is being executed says so: an executing run is never
\* pruned, requeued or ended behind its executor's back.
ExecutingRowIsRunning ==
  /\ \A t \in Threads : pc[t] \in {"executing", "failing"} => status[held[t]] = "running"
  /\ \A c \in Clis : CliHolds(c) => status[crun[c]] = "running"

\* The result of a completed run is what every later reader replays: it is
\* never run again nor turned into a failure, only pruned.
CompletedIsFinal ==
  [][\A r \in Runs : status[r] = "completed" => status'[r] \in {"completed", "deleted"}]_vars

\* requeue_orphans runs before the threads start, so while a pool serves the
\* store a run is running without an owner only if marking it failed raised.
NothingStrandedWhileServed ==
  (\E s \in Servers : pool[s] = "up") => Cardinality(Stranded) <= faults

\* Admission bounds the backlog across crashes and requeues: the runs in flight
\* exceed max_pending at most by the runs the threads can hold.
BacklogBound == Cardinality(InFlight) <= MaxPending + Cardinality(Workers) + faults

\* Admission and cleanup share a transaction, so the table itself is bounded.
TableBound ==
  Cardinality(Rows \ Legacy) <= MaxRetained + MaxPending + Cardinality(Workers) + faults

\* process_one's InvariantError branch: a queued run always has a definition.
QueueIsExecutable == \A r \in Pending : bound[r]

\* A run is marked running only once its definition is stored, so the next
\* server start can requeue it if its executor dies.
RunningIsRecoverable == \A r \in Running \ Legacy : bound[r]

\* Two servers never serve one store: the flock spans requeue and execution.
OneServingPool ==
  \A s1, s2 \in Servers :
    {pool[s1], pool[s2]} \subseteq {"locked", "up", "stopping"} => s1 = s2

\* A pool that is up and has lost every thread: it holds the flock and serves nobody.
Deserted == \E s \in Servers : pool[s] = "up" /\ \A t \in ThreadsOf(s) : pc[t] = "off"

\* The queue survives crashes and restarts: an accepted run is eventually executed to
\* an outcome (and possibly pruned) unless a store fault strands it, or faults took
\* every thread of the serving pool as it opened its store (control.py, _loop).
AcceptedRunEnds ==
  \A r \in Runs :
    status[r] = "pending" ~> \/ status[r] \in {"completed", "failed", "deleted"}
                             \/ faults > 0 /\ r \in Stranded
                             \/ faults >= Cardinality(Workers) /\ Deserted

\* A pruned run never comes back, whoever still holds its id.
PrunedStaysPruned ==
  [][\A r \in Runs : status[r] = "deleted" => status'[r] = "deleted"]_vars

\* requeue_orphans: "Reset runs stranded in `running`": it leaves alone the runs
\* somebody is executing.
OnlyOrphansRequeued ==
  [][\A r \in Runs : status[r] = "running" /\ status'[r] = "pending"
                       => Holders(r) = {}]_vars

(* The executors of a run are those that hold it while its row says so: once  *)
(* the row has ended, whoever still has the id has nothing to execute.        *)
Queue == INSTANCE RunQueue WITH
  Executors <- Threads \cup Clis,
  state     <- status,
  executors <- [r \in Runs |-> {h \in Holders(r) : status[r] = "running"}]

\* The store is the abstract queue: through claims, resumes, restarts, store faults
\* and double marks, a run has one executor at a time, returns to the queue only when
\* its executor is gone, completes once and is forgotten after that.
ImplementsRunQueue == Queue!Spec

-----------------------------------------------------------------------------
(* Servers and CLI processes on one store whose operator lets them meet in    *)
(* neither of the two ways the store does not guard against.                  *)

\* No CLI process is executing when a server requeues and starts its threads.
OrderlyStart ==
  \A s \in Servers :
    pool[s] = "locked" /\ pool'[s] = "up" => \A c \in Clis : ~CliHolds(c)

\* A failed run is resumed once the thread that ran it has let it go.
OrderlyResume ==
  \A c \in Clis : ~CliHolds(c) /\ CliHolds(c)' => ThreadHolders(crun[c]) = {}

OrderlySpec == Init /\ [][Next /\ OrderlyStart /\ OrderlyResume]_vars

-----------------------------------------------------------------------------
(* What the repository says and the program does not do. *)

\* durability-conformance.md: "a crashed CLI run waits for an operator's --resume".
CrashedRunIsResumable ==
  \A r \in Running \ Legacy : Holders(r) = {} => Resumable(r)

\* control.py, process_one: "Runtime failures are already marked failed; updating
\* again is harmless": the second mark_failed leaves a run alone that has been
\* resumed since the first one.
SecondMarkIsHarmless ==
  [][\A t \in Threads :
       pc[t] = "marked" /\ pc'[t] = "top" /\ CliHolders(held[t]) # {}
         => status'[held[t]] = status[held[t]]]_vars
=============================================================================
