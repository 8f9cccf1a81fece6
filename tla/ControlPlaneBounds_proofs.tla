---------------------- MODULE ControlPlaneBounds_proofs ----------------------
(***************************************************************************)
(* Proofs about ControlPlane that count: how many runs may be stranded,    *)
(* in flight and in the table of a served store.                           *)
(***************************************************************************)
EXTENDS ControlPlane_proofs, FiniteSetTheorems

\* A set of runs is finite, and a subset has no more members.
LEMMA FewerRuns ==
  ASSUME NEW S, NEW T, T \subseteq Runs, S \subseteq T
  PROVE  /\ IsFiniteSet(S) /\ IsFiniteSet(T)
         /\ Cardinality(S) \in Nat /\ Cardinality(T) \in Nat
         /\ Cardinality(S) <= Cardinality(T)
<1>1. IsFiniteSet(T)
  BY RunStoreAssumption, FS_Subset
<1> QED
  BY <1>1, FS_Subset, FS_CardinalityType

\* A set with at most one run more.
LEMMA OneMoreRun ==
  ASSUME NEW S, NEW T, T \subseteq Runs, NEW r, S \subseteq T \cup {r}
  PROVE  /\ Cardinality(S) \in Nat /\ Cardinality(T) \in Nat
         /\ Cardinality(S) <= Cardinality(T) + 1
<1>1. IsFiniteSet(T) /\ Cardinality(T) \in Nat
  BY FewerRuns
<1>2. /\ IsFiniteSet(T \cup {r}) /\ Cardinality(T \cup {r}) \in Nat
      /\ Cardinality(T \cup {r}) <= Cardinality(T) + 1
  BY <1>1, FS_AddElement, FS_CardinalityType
<1>3. Cardinality(S) \in Nat /\ Cardinality(S) <= Cardinality(T \cup {r})
  BY <1>2, FS_Subset, FS_CardinalityType
<1> QED
  BY <1>1, <1>2, <1>3

\* A set whose members are in one of two others.
LEMMA RunsOfBoth ==
  ASSUME NEW S, NEW T, NEW U, IsFiniteSet(T), IsFiniteSet(U), S \subseteq T \cup U
  PROVE  /\ Cardinality(S) \in Nat /\ Cardinality(T) \in Nat /\ Cardinality(U) \in Nat
         /\ Cardinality(S) <= Cardinality(T) + Cardinality(U)
<1>1. /\ IsFiniteSet(T \cup U) /\ Cardinality(T) \in Nat /\ Cardinality(U) \in Nat
      /\ Cardinality(T \cap U) \in Nat
      /\ Cardinality(T \cup U) = Cardinality(T) + Cardinality(U) - Cardinality(T \cap U)
  BY FS_Union, FS_Intersection, FS_CardinalityType
<1>2. /\ Cardinality(S) \in Nat /\ Cardinality(T \cup U) \in Nat
      /\ Cardinality(S) <= Cardinality(T \cup U)
  BY <1>1, FS_Subset, FS_CardinalityType
<1> QED
  BY <1>1, <1>2

-----------------------------------------------------------------------------
(* What is stranded while a pool serves the store.                           *)

Live == \E s \in Servers : pool[s] \in {"up", "stopping"}

IsStranded(r) ==
  status[r] = "running" /\ bound[r] /\ \A t \in Threads : ~(Holds(t) /\ held[t] = r)

StrandedInv == Live => Cardinality(Stranded) <= faults

\* Without CLI processes only threads hold runs.
LEMMA StrandedRuns ==
  ASSUME Served
  PROVE  Stranded = {r \in Runs : IsStranded(r)} /\ Stranded' = {r \in Runs : IsStranded(r)'}
BY DEF Served, Stranded, IsStranded, Running, WithStatus, Holders, ThreadHolders, CliHolders

\* A pool that starts leaves nothing stranded; every other step strands nothing new,
\* except a mark_failed of process_one that raises.
LEMMA StrandedStep ==
  ASSUME Served, ServedInv, [Next]_vars, Live'
  PROVE  \/ Stranded' = {} /\ faults' = faults
         \/ Live /\ Stranded' \subseteq Stranded /\ faults' = faults
         \/ /\ Live /\ faults' = faults + 1
            /\ \E x : Stranded' \subseteq Stranded \cup {x}
<1> USE DEF ServedInv, DefinitionInv, TypeOK, StoreTypeOK, PoolTypeOK, IsStranded, Live
<1>1. ASSUME NEW r \in Runs, Submission(r), UNCHANGED <<poolVars, cliVars, envVars>>
      PROVE  Live /\ Stranded' \subseteq Stranded /\ faults' = faults
  <2>1. ASSUME NEW x \in Runs, IsStranded(x)' PROVE IsStranded(x)
    BY <1>1, <2>1 DEF Submission, MintRun, EnqueueRun, RefuseRun, poolVars, Holds
  <2> QED
    BY <1>1, <2>1, StrandedRuns DEF poolVars, envVars
<1>2. ASSUME NEW s \in Servers, RequeueAndSpawn(s), UNCHANGED <<cliVars, envVars>>
      PROVE  Stranded' = {} /\ faults' = faults
  <2>1. ASSUME NEW x \in Runs PROVE ~IsStranded(x)'
    BY <1>2, <2>1 DEF RequeueAndSpawn, RequeueOrphans, Orphans, Running, WithStatus
  <2> QED
    BY <1>2, <2>1, StrandedRuns DEF envVars
<1>3. ASSUME NEW s \in Servers,
             AcquireLock(s) \/ StopReturns(s) \/ Exit(s) \/ Crash(s) \/ RequestStop(s)
               \/ StartFails(s)
      PROVE  Live /\ Stranded' \subseteq Stranded
  <2>1. Live
    BY <1>3 DEF AcquireLock, StopReturns, Exit, Crash, EndProcess, RequestStop, StartFails
  <2>2. ASSUME Exit(s) \/ Crash(s), NEW w \in Workers
        PROVE  pc[<<s, w>>] = "off"
    BY <2>2 DEF Exit, Crash, EndProcess, LockInv, Serving, ThreadInv, ThreadsServed, Threads
  <2>3. ASSUME NEW x \in Runs, IsStranded(x)' PROVE IsStranded(x)
    BY <1>3, <2>2, <2>3 DEF AcquireLock, StopReturns, Exit, Crash, EndProcess, RequestStop,
       StartFails, storeVars, Holds, Threads
  <2> QED
    BY <2>1, <2>3, StrandedRuns
<1>4. ASSUME NEW t \in Threads, ThreadStep(t) \/ OpenStoreRaises(t)
      PROVE  Live /\ Stranded' \subseteq Stranded
  <2>1. Live
    BY <1>4 DEF ThreadStep, OpenStore, OpenStoreRaises, CheckStopFlag, Claim,
       QueueEmpty, Begin, BeginRefused, BeginReplays,
       Complete, RunRaises, MarkFailedInRun, MarkFailedInWorker, LetGo
  <2>2. ASSUME NEW x \in Runs, IsStranded(x)' PROVE IsStranded(x)
    <3> USE <2>2 DEF Holds, Goto, LetGo, storeVars
    <3>1. ASSUME NEW r \in Runs, Claim(t, r) PROVE IsStranded(x)
      BY <3>1 DEF Claim, ClaimRun
    <3>2. CASE \/ OpenStore(t) \/ OpenStoreRaises(t) \/ CheckStopFlag(t)
               \/ QueueEmpty(t) \/ Begin(t) \/ BeginRefused(t)
               \/ BeginReplays(t) \/ RunRaises(t)
      BY <3>2 DEF OpenStore, OpenStoreRaises, CheckStopFlag, QueueEmpty, Begin,
         BeginRefused, BeginReplays, RunRaises
    <3>3. CASE Complete(t) \/ MarkFailedInRun(t) \/ MarkFailedInWorker(t)
      BY <3>3 DEF Complete, MarkFailedInRun, MarkFailedInWorker, MarkCompleted, MarkFailed,
         MarkEnded, Rows, WithStatus
    <3> QED
      BY <1>4, <3>1, <3>2, <3>3 DEF ThreadStep
  <2> QED
    BY <2>1, <2>2, StrandedRuns
<1>5. ASSUME NEW t \in Threads, MarkFailedRaises(t)
      PROVE  Live /\ Stranded' \subseteq Stranded \cup {held[t]}
  <2>1. Live
    BY <1>5 DEF MarkFailedRaises, LetGo
  <2>2. ASSUME NEW x \in Runs, IsStranded(x)', x # held[t] PROVE IsStranded(x)
    BY <1>5, <2>2 DEF MarkFailedRaises, Holds, Goto, LetGo, storeVars
  <2> QED
    BY <2>1, <2>2, StrandedRuns
<1>6. CASE UNCHANGED vars
  <2>1. ASSUME NEW x \in Runs, IsStranded(x)' PROVE IsStranded(x)
    BY <1>6, <2>1 DEF vars, storeVars, poolVars, Holds
  <2> QED
    BY <1>6, <2>1, StrandedRuns DEF vars, poolVars, envVars
<1>7. CASE Submit
  BY <1>1, <1>7 DEF Submit
<1>8. ASSUME NEW s \in Servers, PoolRuns(s)
      PROVE  \/ Stranded' = {} /\ faults' = faults
             \/ Live /\ Stranded' \subseteq Stranded /\ faults' = faults
  BY <1>2, <1>3, <1>8 DEF PoolRuns, PoolStep, envVars
<1>9. ASSUME NEW t \in Threads, ThreadRuns(t)
      PROVE  Live /\ Stranded' \subseteq Stranded /\ faults' = faults
  BY <1>4, <1>9 DEF ThreadRuns, envVars
<1>10. CASE Interruption
  BY <1>3, <1>10 DEF Interruption, Interrupted, Served
<1>11. CASE Fault
  <2>1. faults' = faults + 1
    BY <1>11 DEF Fault, Faulted
  <2>2. ASSUME NEW s \in Servers, StartFails(s) PROVE Live /\ Stranded' \subseteq Stranded
    BY <1>3, <2>2
  <2> QED
    BY <1>4, <1>5, <1>11, <2>1, <2>2 DEF Fault, ThreadFault
<1> QED
  BY <1>6, <1>7, <1>8, <1>9, <1>10, <1>11 DEF Served, Next

\* So the stranded runs are never more than the faults so far.
LEMMA StrandedInvStep ==
  ASSUME Served
  PROVE  ServedInv /\ StrandedInv /\ [Next]_vars => StrandedInv'
<1> SUFFICES ASSUME ServedInv, StrandedInv, [Next]_vars, Live'
             PROVE  Cardinality(Stranded') <= faults'
  BY DEF StrandedInv
<1>1. faults \in Nat /\ Stranded \subseteq Runs
  BY ControlPlaneAssumption DEF ServedInv, DefinitionInv, TypeOK, Stranded, Running, WithStatus
<1> DEFINE N == Stranded'
<1>2. \/ N = {} /\ faults' = faults
      \/ Live /\ N \subseteq Stranded /\ faults' = faults
      \/ Live /\ faults' = faults + 1 /\ \E x : N \subseteq Stranded \cup {x}
  BY StrandedStep
<1> HIDE DEF N
<1>3. ASSUME N = {}, faults' = faults
      PROVE  Cardinality(N) <= faults'
  BY <1>1, <1>3, FS_EmptySet
<1>4. ASSUME Live, N \subseteq Stranded, faults' = faults
      PROVE  Cardinality(N) <= faults'
  BY <1>1, <1>4, FewerRuns DEF StrandedInv
<1>5. ASSUME Live, faults' = faults + 1, NEW x, N \subseteq Stranded \cup {x}
      PROVE  Cardinality(N) <= faults'
  <2>1. /\ Cardinality(N) \in Nat /\ Cardinality(Stranded) \in Nat
        /\ Cardinality(N) <= Cardinality(Stranded) + 1
    BY <1>1, <1>5, OneMoreRun
  <2> QED
    BY <1>1, <1>5, <2>1 DEF StrandedInv
<1>6. Cardinality(N) <= faults'
  BY <1>2, <1>3, <1>4, <1>5
<1> QED
  BY <1>6 DEF N

\* The invariant of ControlPlane_proofs, for use in temporal steps.
LEMMA ServedInvariant ==
  ASSUME Served
  PROVE  Spec => []ServedInv
BY ServedInvInit, ServedInvStep, PTL DEF Spec

\* A store starts without a live pool.
LEMMA StrandedInvariant ==
  ASSUME Served
  PROVE  Spec => []StrandedInv
<1>1. Init => StrandedInv
  BY DEF Init, PoolInit, StrandedInv, Live
<1> QED
  BY <1>1, ServedInvariant, StrandedInvStep, PTL DEF Spec

\* requeue_orphans runs before the threads of its pool: while a pool serves the store, a
\* run is running without an owner only where marking it failed raised.
THEOREM ServedNothingStranded ==
  ASSUME Served
  PROVE  Spec => []NothingStrandedWhileServed
<1>1. StrandedInv => NothingStrandedWhileServed
  BY DEF StrandedInv, Live, NothingStrandedWhileServed
<1> QED
  BY <1>1, StrandedInvariant, PTL

-----------------------------------------------------------------------------
(* Running runs: at most one for every thread slot, and the stranded ones.   *)

\* Runs that are running with a definition.
RunningBound == Cardinality(Orphans) <= Cardinality(Workers) + faults

\* Only the threads of the serving pool hold runs, one each.
LEMMA RunningWhileLive ==
  ASSUME Served, ServedInv, StrandedInv, Live
  PROVE  RunningBound
<1>1. PICK s \in Servers : pool[s] \in {"up", "stopping"}
  BY DEF Live
<1> DEFINE f == [w \in Workers |-> held[<<s, w>>]]
           H == {f[w] : w \in Workers}
<1>2. f \in Surjection(Workers, H)
  BY DEF Surjection
<1>3. IsFiniteSet(H) /\ Cardinality(H) <= Cardinality(Workers) /\ Cardinality(Workers) \in Nat
  BY <1>2, FS_Surjection, FS_CardinalityType, WorkerPoolAssumption
<1>4. ASSUME NEW t \in Threads, Holds(t) PROVE held[t] \in H
  <2>1. pool[t[1]] \in {"up", "stopping"} /\ t[1] \in Servers /\ t[2] \in Workers
          /\ t = <<t[1], t[2]>>
    BY <1>4 DEF ServedInv, ThreadInv, ThreadsServed, Holds, Threads
  <2>2. t[1] = s
    BY <1>1, <2>1 DEF ServedInv, LockInv, Serving
  <2> QED
    BY <2>1, <2>2
<1>5. Orphans \subseteq Stranded \cup H
  BY <1>4 DEF Orphans, Stranded, Served, Holders, ThreadHolders, CliHolders
<1>6. IsFiniteSet(Stranded) /\ Stranded \subseteq Runs
  BY FewerRuns DEF Stranded, Running, WithStatus
<1>7. faults \in Nat
  BY ControlPlaneAssumption DEF ServedInv, DefinitionInv, TypeOK
<1> HIDE DEF H
<1> QED
  BY <1>3, <1>5, <1>6, <1>7, RunsOfBoth DEF RunningBound, StrandedInv

\* What the threads and pools of a served store, and submitters, do to the table.
ServedRowOp(r) ==
  MintRun(r) \/ EnqueueRun(r) \/ RefuseRun(r) \/ ClaimRun(r) \/ MarkCompleted(r) \/ MarkFailed(r)

ServedStoreStep == UNCHANGED storeVars \/ RequeueOrphans \/ \E r \in Runs : ServedRowOp(r)

\* With no CLI process, nothing else changes the table.
LEMMA NextIsServedStoreStep ==
  ASSUME Served, ServedInv, [Next]_vars
  PROVE  ServedStoreStep
<1> USE DEF ServedInv, DefinitionInv, TypeOK, PoolTypeOK, ServedStoreStep, ServedRowOp
<1>1. CASE Submit
  BY <1>1 DEF Submit, Submission
<1>2. ASSUME NEW s \in Servers,
             PoolStep(s) \/ RequestStop(s) \/ Crash(s) \/ StartFails(s)
      PROVE  ServedStoreStep
  BY <1>2 DEF PoolStep, AcquireLock, RequeueAndSpawn, StopReturns, Exit, Crash, EndProcess,
              RequestStop, StartFails
<1>3. ASSUME NEW t \in Threads, ThreadStep(t) \/ ThreadFault(t)
      PROVE  ServedStoreStep
  <2>1. CASE (\E r \in Runs : Claim(t, r)) \/ Complete(t) \/ MarkFailedInRun(t)
               \/ MarkFailedInWorker(t)
    BY <2>1 DEF Claim, Complete, MarkFailedInRun, MarkFailedInWorker, Holds
  <2> QED
    BY <1>3, <2>1 DEF ThreadStep, ThreadFault, OpenStore, OpenStoreRaises, CheckStopFlag,
       QueueEmpty, Begin, BeginRefused, BeginReplays,
       RunRaises, MarkFailedRaises
<1>4. CASE UNCHANGED vars
  BY <1>4 DEF vars
<1> QED
  BY <1>1, <1>2, <1>3, <1>4 DEF Served, Next, PoolRuns, ThreadRuns, Interruption, Fault

\* A claim is made by a live thread; the counter of faults only grows.
LEMMA ClaimIsLive ==
  ASSUME Served, ServedInv, [Next]_vars
  PROVE  /\ (\E r \in Runs : ClaimRun(r)) => Live'
         /\ faults \in Nat /\ faults' \in Nat /\ faults <= faults'
<1> USE DEF ServedInv, DefinitionInv, TypeOK, StoreTypeOK, PoolTypeOK
<1>1. faults \in Nat /\ faults' \in Nat /\ faults <= faults'
  BY ControlPlaneAssumption DEF Served, Next, Submit, PoolRuns, ThreadRuns, Interruption,
     Interrupted, Fault, Faulted, envVars, vars
<1>2. SUFFICES ASSUME NEW r \in Runs, ClaimRun(r) PROVE Live'
  BY <1>1
<1>3. status[r] = "pending" /\ status' = [status EXCEPT ![r] = "running"]
  BY <1>2 DEF ClaimRun, NextPending, Pending, WithStatus
<1>4. ~UNCHANGED storeVars /\ ~RequeueOrphans
  BY <1>3 DEF storeVars, RequeueOrphans, Orphans, Running, WithStatus
<1>5. ASSUME NEW x \in Runs, Submission(x) PROVE FALSE
  BY <1>3, <1>5 DEF Submission, MintRun, EnqueueRun, RefuseRun, StoreInv, SubmittingUnborn,
     Prunable, Terminal, WithStatus
<1>6. ASSUME NEW x \in Runs, MarkEnded(x, "completed") \/ MarkEnded(x, "failed") PROVE FALSE
  BY <1>3, <1>6 DEF MarkEnded
<1>7. PICK t \in Threads : \E x \in Runs : Claim(t, x)
  <2>1. ~Submit /\ ~UNCHANGED vars
    BY <1>4, <1>5 DEF Submit, vars
  <2>2. ASSUME NEW s \in Servers,
               PoolStep(s) \/ RequestStop(s) \/ Crash(s) \/ StartFails(s)
        PROVE  FALSE
    BY <1>4, <2>2 DEF PoolStep, AcquireLock, RequeueAndSpawn, StopReturns, Exit, Crash,
       EndProcess, RequestStop, StartFails
  <2>3. ASSUME NEW t \in Threads, ThreadFault(t) PROVE FALSE
    BY <1>4, <2>3 DEF ThreadFault, MarkFailedRaises, OpenStoreRaises
  <2>4. ASSUME NEW t \in Threads, ThreadStep(t) PROVE \E x \in Runs : Claim(t, x)
    BY <1>4, <1>6, <2>4 DEF ThreadStep, ThreadFault, OpenStore, OpenStoreRaises,
       CheckStopFlag, QueueEmpty, Begin, BeginRefused,
       BeginReplays, RunRaises, Complete, MarkFailedInRun, MarkFailedInWorker, MarkCompleted,
       MarkFailed, Holds
  <2> QED
    BY <2>1, <2>2, <2>3, <2>4 DEF Served, Next, PoolRuns, ThreadRuns, Interruption, Fault
<1> QED
  BY <1>7 DEF Claim, ThreadInv, ThreadsServed, Live, Threads

\* The counts that a step may raise.
LEMMA RunningStep ==
  ASSUME Served, ServedInv, [Next]_vars
  PROVE  Orphans' \subseteq Orphans \/ Live'
<1> USE DEF ServedInv, DefinitionInv, TypeOK, StoreTypeOK, StoreInv, SubmittingUnborn, Orphans,
            Running, WithStatus
<1>1. CASE UNCHANGED storeVars
  BY <1>1 DEF storeVars
<1>2. CASE RequeueOrphans
  BY <1>2 DEF RequeueOrphans
<1>3. ASSUME NEW r \in Runs, ServedRowOp(r)
      PROVE  Orphans' \subseteq Orphans \/ Live'
  <2>1. CASE ClaimRun(r)
    BY <2>1, ClaimIsLive
  <2>2. CASE MintRun(r) \/ RefuseRun(r)
    BY <2>2 DEF MintRun, RefuseRun
  <2>3. CASE EnqueueRun(r)
    BY <2>3 DEF EnqueueRun
  <2>4. CASE MarkCompleted(r) \/ MarkFailed(r)
    BY <2>4 DEF MarkCompleted, MarkFailed, MarkEnded
  <2> QED
    BY <1>3, <2>1, <2>2, <2>3, <2>4 DEF ServedRowOp
<1> QED
  BY <1>1, <1>2, <1>3, NextIsServedStoreStep DEF ServedStoreStep

\* RunningBound, as far as RunningWhileLive gives it.
LiveBound == Live => RunningBound

\* While no pool is live nothing is claimed, and the bound survives from when one was.
LEMMA RunningBoundStep ==
  ASSUME Served
  PROVE  ServedInv /\ RunningBound /\ [Next]_vars /\ LiveBound' => RunningBound'
<1> SUFFICES ASSUME ServedInv, RunningBound, [Next]_vars, LiveBound', ~Live'
             PROVE  RunningBound'
  BY DEF LiveBound
<1>1. Orphans' \subseteq Orphans /\ Orphans \subseteq Runs
  BY RunningStep DEF Orphans, Running, WithStatus
<1>2. faults \in Nat /\ faults' \in Nat /\ faults <= faults'
  BY ClaimIsLive
<1>3. Cardinality(Workers) \in Nat
  BY FS_CardinalityType, WorkerPoolAssumption
<1> DEFINE N == Orphans'
<1>4. N \subseteq Orphans
  BY <1>1
<1> HIDE DEF N
<1>5. Cardinality(N) \in Nat /\ Cardinality(Orphans) \in Nat /\ Cardinality(N) <= Cardinality(Orphans)
  BY <1>1, <1>4, FewerRuns
<1>6. Cardinality(N) <= Cardinality(Workers) + faults'
  BY <1>2, <1>3, <1>5 DEF RunningBound
<1> QED
  BY <1>6 DEF RunningBound, N

\* Hence it holds always, through crashes and restarts too.
LEMMA RunningInvariant ==
  ASSUME Served
  PROVE  Spec => []RunningBound
<1>1. Init => RunningBound
  <2> SUFFICES ASSUME Init PROVE RunningBound
    OBVIOUS
  <2>1. Orphans = {} /\ faults = 0
    BY DEF Init, StoreInit, Orphans, Running, WithStatus
  <2> QED
    BY <2>1, FS_EmptySet, FS_CardinalityType, WorkerPoolAssumption DEF RunningBound
<1>2. ServedInv /\ StrandedInv => LiveBound
  BY RunningWhileLive DEF LiveBound
<1> QED
  BY <1>1, <1>2, ServedInvariant, StrandedInvariant, RunningBoundStep, PTL DEF Spec

-----------------------------------------------------------------------------
(* The backlog.                                                              *)

\* Every pending run has its definition, so what is in flight waits or is running with one.
LEMMA InFlightIs ==
  ASSUME QueueIsExecutable
  PROVE  InFlight = Pending \cup Orphans
BY DEF QueueIsExecutable, InFlight, Orphans

\* Only an admission adds to what is in flight: a claim, a requeue and an outcome do not.
LEMMA InFlightStep ==
  ASSUME Served, ServedInv, [Next]_vars
  PROVE  \/ InFlight' \subseteq InFlight
         \/ /\ Cardinality(Pending) < MaxPending
            /\ \E r \in Runs : EnqueueRun(r) /\ InFlight' \subseteq InFlight \cup {r}
<1> USE DEF ServedInv, DefinitionInv, TypeOK, StoreTypeOK, StoreInv, SubmittingUnborn, InFlight,
            Running, Pending, WithStatus, QueueIsExecutable
<1>1. CASE UNCHANGED storeVars
  BY <1>1 DEF storeVars
<1>2. CASE RequeueOrphans
  BY <1>2 DEF RequeueOrphans, Orphans
<1>3. ASSUME NEW r \in Runs, EnqueueRun(r)
      PROVE  InFlight' \subseteq InFlight \cup {r} /\ Cardinality(Pending) < MaxPending
  BY <1>3 DEF EnqueueRun
<1>4. ASSUME NEW r \in Runs, ServedRowOp(r), ~EnqueueRun(r)
      PROVE  InFlight' \subseteq InFlight
  BY <1>4 DEF ServedRowOp, MintRun, RefuseRun, ClaimRun, NextPending, MarkCompleted, MarkFailed,
     MarkEnded
<1> QED
  BY <1>1, <1>2, <1>3, <1>4, NextIsServedStoreStep DEF ServedStoreStep

\* The admission found fewer than max_pending rows waiting; the rest were running.
LEMMA BacklogStep ==
  ASSUME Served, ServedInv, RunningBound, BacklogBound, [Next]_vars
  PROVE  BacklogBound'
<1>1. faults \in Nat /\ faults' \in Nat /\ faults <= faults'
  BY ClaimIsLive
<1>2. Cardinality(Workers) \in Nat /\ MaxPending \in Nat
  BY FS_CardinalityType, WorkerPoolAssumption, RunStoreAssumption
<1>3. InFlight \subseteq Runs /\ Pending \subseteq Runs /\ Orphans \subseteq Runs
  BY DEF InFlight, Orphans, Pending, Running, WithStatus
<1> DEFINE N == InFlight'
<1>4. \/ N \subseteq InFlight
      \/ Cardinality(Pending) < MaxPending /\ \E r \in Runs : N \subseteq InFlight \cup {r}
  BY InFlightStep
<1> HIDE DEF N
<1>5. ASSUME N \subseteq InFlight
      PROVE  Cardinality(N) <= MaxPending + Cardinality(Workers) + faults'
  <2>1. Cardinality(N) \in Nat /\ Cardinality(InFlight) \in Nat
          /\ Cardinality(N) <= Cardinality(InFlight)
    BY <1>3, <1>5, FewerRuns
  <2> QED
    BY <1>1, <1>2, <2>1 DEF BacklogBound
<1>6. ASSUME Cardinality(Pending) < MaxPending, NEW r \in Runs, N \subseteq InFlight \cup {r}
      PROVE  Cardinality(N) <= MaxPending + Cardinality(Workers) + faults'
  <2>1. InFlight = Pending \cup Orphans
    BY InFlightIs DEF ServedInv, DefinitionInv, StoreInv
  <2>2. IsFiniteSet(Pending) /\ IsFiniteSet(Orphans)
    BY <1>3, FewerRuns
  <2>3. /\ Cardinality(Pending) \in Nat /\ Cardinality(Orphans) \in Nat
        /\ Cardinality(InFlight) \in Nat
        /\ Cardinality(InFlight) <= Cardinality(Pending) + Cardinality(Orphans)
    BY <2>1, <2>2, RunsOfBoth
  <2>4. Cardinality(N) \in Nat /\ Cardinality(N) <= Cardinality(InFlight) + 1
    BY <1>3, <1>6, OneMoreRun
  <2> QED
    BY <1>1, <1>2, <1>6, <2>3, <2>4 DEF RunningBound
<1>7. Cardinality(N) <= MaxPending + Cardinality(Workers) + faults'
  BY <1>4, <1>5, <1>6
<1> QED
  BY <1>7 DEF BacklogBound, N

\* An older release left no row with a definition running.
LEMMA BacklogInit == Init => BacklogBound
<1> SUFFICES ASSUME Init PROVE BacklogBound
  OBVIOUS
<1>1. InFlight = {} /\ faults = 0
  BY DEF Init, StoreInit, InFlight, Pending, Running, WithStatus
<1> QED
  BY <1>1, FS_EmptySet, FS_CardinalityType, WorkerPoolAssumption, RunStoreAssumption
  DEF BacklogBound

\* _enqueue_definition admits by the pending rows it counts, while requeue_orphans puts
\* more of them back: the runs in flight exceed max_pending at most by what the threads
\* hold and by what store faults stranded.
THEOREM ServedBacklogBound ==
  ASSUME Served
  PROVE  Spec => []BacklogBound
<1>1. ServedInv /\ RunningBound /\ BacklogBound /\ [Next]_vars => BacklogBound'
  BY BacklogStep
<1> QED
  BY <1>1, BacklogInit, ServedInvariant, RunningInvariant, PTL DEF Spec

-----------------------------------------------------------------------------
(* The table.                                                                *)

\* updated_at orders the ended runs.
EndedOrder ==
  /\ \A r \in Terminal : r \notin endedBefore[r]
  /\ \A r, s \in Terminal : r = s \/ r \in endedBefore[s] \/ s \in endedBefore[r]
  /\ \A r, s, u \in Terminal : r \in endedBefore[s] /\ s \in endedBefore[u] => r \in endedBefore[u]

\* Only the command line creates runs that nobody has queued.
NoneCreated == WithStatus({"created"}) = {}

\* A finite set that is not empty has an earliest run.
LEMMA EarliestEnded ==
  ASSUME NEW S \in SUBSET Terminal, S # {}, EndedOrder
  PROVE  \E r \in S : \A s \in S \ {r} : r \in endedBefore[s]
<1> DEFINE E(r) == {s \in S : s \in endedBefore[r]}
           Fam == {E(r) : r \in S}
<1>1. IsFiniteSet(S)
  BY FewerRuns DEF Terminal, WithStatus
<1>2. Fam \subseteq FiniteSubsetsOf(S) /\ Fam # {}
  <2>1. ASSUME NEW A \in SUBSET S PROVE IsFiniteSet(A)
    BY <1>1, FS_Subset
  <2> QED
    BY <2>1 DEF FiniteSubsetsOf
<1>3. IsWellFoundedOn(StrictSubsetOrdering(S), FiniteSubsetsOf(S))
  BY FS_StrictSubsetOrderingWellFounded
<1> HIDE DEF Fam
<1>4. PICK A \in Fam : \A B \in Fam : <<B, A>> \notin StrictSubsetOrdering(S)
  BY <1>2, <1>3, WFMin
<1>5. PICK r \in S : A = E(r)
  BY <1>4 DEF Fam
<1>6. ASSUME NEW s \in S, s \in endedBefore[r] PROVE FALSE
  <2>1. E(s) \subseteq E(r) /\ s \in E(r) /\ s \notin E(s)
    BY <1>6 DEF EndedOrder
  <2>2. E(s) \in Fam /\ E(s) \in SUBSET S /\ E(r) \in SUBSET S
    BY DEF Fam
  <2>3. <<E(s), E(r)>> \in StrictSubsetOrdering(S)
    BY <2>1, <2>2 DEF StrictSubsetOrdering
  <2> QED
    BY <1>4, <1>5, <2>2, <2>3
<1> QED
  BY <1>6 DEF EndedOrder

\* The cleanup keeps max_retained ended runs.
LEMMA PruneKeeps ==
  ASSUME EndedOrder
  PROVE  Cardinality(Terminal \ Prunable) <= MaxRetained
<1> DEFINE K == Terminal \ Prunable
<1>1. Terminal \subseteq Runs /\ MaxRetained \in Nat
  BY RunStoreAssumption DEF Terminal, WithStatus
<1>2. CASE K = {}
  BY <1>1, <1>2, FS_EmptySet
<1>3. CASE K # {}
  <2>1. PICK r \in K : \A s \in K \ {r} : r \in endedBefore[s]
    BY <1>3, EarliestEnded
  <2> DEFINE L == {s \in Terminal : r \in endedBefore[s]}
  <2>2. Cardinality(L) < MaxRetained /\ Cardinality(L) \in Nat
    <3>1. L \subseteq Terminal
      OBVIOUS
    <3>2. Cardinality(L) \in Nat
      BY <1>1, <3>1, FewerRuns
    <3>3. ~(Cardinality(L) >= MaxRetained)
      BY DEF Prunable
    <3> QED
      BY <1>1, <3>2, <3>3
  <2>3. K \subseteq L \cup {r} /\ L \subseteq Runs
    BY <1>1, <2>1
  <2> HIDE DEF K, L
  <2>4. Cardinality(K) \in Nat /\ Cardinality(K) <= Cardinality(L) + 1
    BY <2>3, OneMoreRun
  <2>5. Cardinality(K) <= MaxRetained
    BY <1>1, <2>2, <2>4
  <2> QED
    BY <2>5 DEF K
<1> QED
  BY <1>2, <1>3

\* mark_completed and mark_failed stamp a row after all others; the cleanup takes rows out.
LEMMA EndedOrderStep ==
  ASSUME ServedInv, EndedOrder, ServedStoreStep
  PROVE  EndedOrder'
<1> USE DEF ServedInv, DefinitionInv, TypeOK, StoreTypeOK, StoreInv, SubmittingUnborn, Terminal,
            WithStatus
<1>1. CASE UNCHANGED storeVars
  BY <1>1 DEF storeVars, EndedOrder
<1>2. CASE RequeueOrphans
  <2>1. Terminal' = Terminal /\ endedBefore' = endedBefore
    BY <1>2 DEF RequeueOrphans, Orphans, Running
  <2> QED
    BY <2>1 DEF EndedOrder
<1>3. ASSUME NEW r \in Runs, MintRun(r) \/ RefuseRun(r) \/ ClaimRun(r)
      PROVE  EndedOrder'
  <2>1. Terminal' = Terminal /\ endedBefore' = endedBefore
    BY <1>3 DEF MintRun, RefuseRun, ClaimRun, NextPending, Pending
  <2> QED
    BY <2>1 DEF EndedOrder
<1>4. ASSUME NEW r \in Runs, EnqueueRun(r)
      PROVE  EndedOrder'
  <2>1. Terminal' = Terminal \ Prunable
    BY <1>4 DEF EnqueueRun, Prunable
  <2>2. \A x \in Terminal' : endedBefore'[x] = endedBefore[x] \ Prunable
    BY <1>4, <2>1 DEF EnqueueRun, Forget
  <2> QED
    BY <2>1, <2>2 DEF EndedOrder
<1>5. ASSUME NEW r \in Runs, NEW o \in {"completed", "failed"}, MarkEnded(r, o)
      PROVE  EndedOrder'
  <2>1. CASE r \notin Rows
    BY <1>5, <2>1 DEF MarkEnded, EndedOrder
  <2>2. CASE r \in Rows
    <3>1. Terminal' = Terminal \cup {r}
      BY <1>5, <2>2 DEF MarkEnded
    <3>2. endedBefore'[r] = Terminal \ {r}
            /\ \A x \in Runs \ {r} : endedBefore'[x] = endedBefore[x] \ {r}
      BY <1>5, <2>2 DEF MarkEnded, Latest, Forget
    <3> QED
      BY <3>1, <3>2 DEF EndedOrder
  <2> QED
    BY <2>1, <2>2
<1> QED
  BY <1>1, <1>2, <1>3, <1>4, <1>5 DEF ServedStoreStep, ServedRowOp, MarkCompleted, MarkFailed

\* Rows appear only in the transaction that also cleans up.
LEMMA RowsStep ==
  ASSUME ServedInv, NoneCreated, ServedStoreStep
  PROVE  /\ NoneCreated'
         /\ Rows' \subseteq Rows \/ Terminal' = Terminal \ Prunable
<1> USE DEF ServedInv, DefinitionInv, TypeOK, StoreTypeOK, StoreInv, SubmittingUnborn, Terminal,
            WithStatus, NoneCreated, Rows
<1>1. CASE UNCHANGED storeVars
  BY <1>1 DEF storeVars
<1>2. CASE RequeueOrphans
  BY <1>2 DEF RequeueOrphans, Orphans, Running
<1>3. ASSUME NEW r \in Runs, EnqueueRun(r)
      PROVE  NoneCreated' /\ Terminal' = Terminal \ Prunable
  BY <1>3 DEF EnqueueRun, Prunable
<1>4. ASSUME NEW r \in Runs, ServedRowOp(r), ~EnqueueRun(r)
      PROVE  NoneCreated' /\ Rows' \subseteq Rows
  BY <1>4 DEF ServedRowOp, MintRun, RefuseRun, ClaimRun, NextPending, Pending, MarkCompleted,
     MarkFailed, MarkEnded
<1> QED
  BY <1>1, <1>2, <1>3, <1>4 DEF ServedStoreStep

TableInv == EndedOrder /\ NoneCreated /\ TableBound

\* The form in which RowsAre is carried to the next state.
RowsAreKnown == NoneCreated => Rows \ Legacy \subseteq Terminal \cup InFlight

\* A row has ended, is in flight, or was left by an older release.
LEMMA RowsAre == ServedInv => RowsAreKnown
<1> SUFFICES ASSUME ServedInv, NoneCreated, NEW r \in Rows, r \notin Legacy
             PROVE  r \in Terminal \cup InFlight
  BY DEF RowsAreKnown
<1> USE DEF WithStatus
<1>1. r \in Runs /\ status[r] \in Statuses \ {"none", "deleted"}
  BY DEF ServedInv, DefinitionInv, TypeOK, StoreTypeOK, Rows
<1>2. status[r] \in {"pending", "running", "completed", "failed"}
  BY <1>1 DEF NoneCreated, Statuses
<1>3. status[r] \in {"pending", "running"} => bound[r]
  BY <1>1 DEF ServedInv, DefinitionInv, StoreInv, QueueIsExecutable, RunningIsRecoverable,
     Pending, Running
<1> QED
  BY <1>1, <1>2, <1>3 DEF Terminal, InFlight, Pending, Running

\* An admission finds the table cleaned up; every other step adds no row.
LEMMA TableInvStep ==
  ASSUME Served, ServedInv, TableInv, BacklogBound', RowsAreKnown', [Next]_vars
  PROVE  TableInv'
<1>1. ServedStoreStep /\ EndedOrder /\ NoneCreated
  BY NextIsServedStoreStep DEF TableInv
<1>2. EndedOrder' /\ NoneCreated'
  BY <1>1, EndedOrderStep, RowsStep
<1>3. faults \in Nat /\ faults' \in Nat /\ faults <= faults'
  BY ClaimIsLive
<1>4. Cardinality(Workers) \in Nat /\ MaxPending \in Nat /\ MaxRetained \in Nat
  BY FS_CardinalityType, WorkerPoolAssumption, RunStoreAssumption
<1> DEFINE N == (Rows \ Legacy)'
           T == Terminal'
           F == InFlight'
<1>5. N \subseteq T \cup F /\ T \subseteq Runs /\ F \subseteq Runs
  BY <1>2 DEF RowsAreKnown, Terminal, InFlight, Pending, Running, WithStatus
<1>6. N \subseteq Rows \ Legacy \/ T = Terminal \ Prunable
  BY <1>1, RowsStep
<1>7. Cardinality(F) <= MaxPending + Cardinality(Workers) + faults'
  BY DEF BacklogBound
<1> HIDE DEF N, T, F
<1>8. ASSUME N \subseteq Rows \ Legacy
      PROVE  Cardinality(N) <= MaxRetained + MaxPending + Cardinality(Workers) + faults'
  <2>1. /\ Cardinality(N) \in Nat /\ Cardinality(Rows \ Legacy) \in Nat
        /\ Cardinality(N) <= Cardinality(Rows \ Legacy)
    BY <1>8, FewerRuns DEF Rows
  <2> QED
    BY <1>3, <1>4, <2>1 DEF TableInv, TableBound
<1>9. ASSUME T = Terminal \ Prunable
      PROVE  Cardinality(N) <= MaxRetained + MaxPending + Cardinality(Workers) + faults'
  <2>1. Cardinality(T) <= MaxRetained
    BY <1>1, <1>9, PruneKeeps
  <2>2. IsFiniteSet(T) /\ IsFiniteSet(F)
    BY <1>5, FewerRuns
  <2>3. /\ Cardinality(N) \in Nat /\ Cardinality(T) \in Nat /\ Cardinality(F) \in Nat
        /\ Cardinality(N) <= Cardinality(T) + Cardinality(F)
    BY <1>5, <2>2, RunsOfBoth
  <2> QED
    BY <1>3, <1>4, <1>7, <2>1, <2>3
<1>10. Cardinality(N) <= MaxRetained + MaxPending + Cardinality(Workers) + faults'
  BY <1>6, <1>8, <1>9
<1> QED
  BY <1>2, <1>10 DEF TableInv, TableBound, N

\* The table starts with the rows of an older release only.
LEMMA TableInvInit == Init => TableInv
<1> SUFFICES ASSUME Init PROVE TableInv
  OBVIOUS
<1>1. Rows \ Legacy = {} /\ Terminal = {} /\ NoneCreated /\ faults = 0
  BY DEF Init, StoreInit, Rows, Terminal, NoneCreated, WithStatus
<1>2. EndedOrder
  BY <1>1 DEF EndedOrder
<1>3. TableBound
  <2>1. Cardinality(Rows \ Legacy) = 0
    BY <1>1, FS_EmptySet
  <2>2. MaxRetained \in Nat /\ MaxPending \in Nat /\ Cardinality(Workers) \in Nat
    BY FS_CardinalityType, WorkerPoolAssumption, RunStoreAssumption
  <2> QED
    BY <1>1, <2>1, <2>2 DEF TableBound
<1> QED
  BY <1>1, <1>2, <1>3 DEF TableInv

\* The cleanup of _enqueue_definition: whatever ends between two admissions came out of
\* the backlog, and each admission leaves max_retained ended rows.
THEOREM ServedTableBound ==
  ASSUME Served
  PROVE  Spec => []TableBound
<1>2. TableInv => TableBound
  BY DEF TableInv
<1>3. ServedInv /\ TableInv /\ BacklogBound' /\ RowsAreKnown' /\ [Next]_vars => TableInv'
  BY TableInvStep
<1> QED
  BY <1>2, <1>3, RowsAre, TableInvInit, ServedInvariant, ServedBacklogBound, PTL DEF Spec
==============================================================================
