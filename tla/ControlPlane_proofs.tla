------------------------ MODULE ControlPlane_proofs ------------------------
(***************************************************************************)
(* Proofs about ControlPlane, for all values of its constants.             *)
(***************************************************************************)
EXTENDS ControlPlane, TLAPS

USE DEF Statuses, PoolStates, ThreadStates, CliStates

-----------------------------------------------------------------------------
(* Type correctness. *)

LEMMA OrderTypes ==
  ASSUME NEW order \in [Runs -> SUBSET Runs], NEW r \in Runs, NEW S \in SUBSET Runs
  PROVE  /\ Forget(order, S) \in [Runs -> SUBSET Runs]
         /\ Latest(order, r, S) \in [Runs -> SUBSET Runs]
<1>1. \A T \in SUBSET Runs : Forget(order, T) \in [Runs -> SUBSET Runs]
  BY DEF Forget
<1>2. Forget(order, {r}) \in [Runs -> SUBSET Runs] /\ S \ {r} \in SUBSET Runs
  BY <1>1
<1>3. Latest(order, r, S) \in [Runs -> SUBSET Runs]
  BY <1>2 DEF Latest
<1> QED  BY <1>1, <1>3

LEMMA RowSets ==
  /\ Rows \in SUBSET Runs /\ Pending \in SUBSET Runs /\ Running \in SUBSET Runs
  /\ Terminal \in SUBSET Runs /\ Prunable \in SUBSET Runs /\ NextPending \in SUBSET Runs
BY DEF Rows, Pending, Running, Terminal, Prunable, NextPending, WithStatus

\* Every store operation keeps the table well typed.
StoreOp(r) ==
  \/ MintRun(r) \/ EnqueueRun(r) \/ RefuseRun(r) \/ CreateRun(r)
  \/ ClaimRun(r) \/ RequeueOrphans \/ BindIdentity(r)
  \/ (\E e \in Statuses : MarkRunning(r, e)) \/ MarkCompleted(r) \/ MarkFailed(r)
  \/ UNCHANGED storeVars

LEMMA StoreOpType ==
  ASSUME StoreTypeOK, NEW r \in Runs, StoreOp(r)
  PROVE  StoreTypeOK'
<1> USE DEF StoreTypeOK
<1>1. CASE MintRun(r)
  <2>1. Rows \cup submitting \in SUBSET Runs  BY RowSets
  <2>2. createdBefore' \in [Runs -> SUBSET Runs]  BY <1>1, <2>1, OrderTypes DEF MintRun
  <2> QED  BY <1>1, <2>2 DEF MintRun
<1>2. CASE EnqueueRun(r)
  <2>1. createdBefore' \in [Runs -> SUBSET Runs] /\ endedBefore' \in [Runs -> SUBSET Runs]
    BY <1>2, RowSets, OrderTypes DEF EnqueueRun
  <2> QED  BY <1>2, <2>1 DEF EnqueueRun
<1>3. CASE RefuseRun(r)
  BY <1>3 DEF RefuseRun
<1>4. CASE CreateRun(r)
  <2>1. Rows \cup submitting \in SUBSET Runs  BY RowSets
  <2>2. createdBefore' \in [Runs -> SUBSET Runs]  BY <1>4, <2>1, OrderTypes DEF CreateRun
  <2> QED  BY <1>4, <2>2 DEF CreateRun
<1>5. CASE ClaimRun(r)
  BY <1>5 DEF ClaimRun
<1>6. CASE RequeueOrphans
  BY <1>6 DEF RequeueOrphans
<1>7. CASE BindIdentity(r)
  BY <1>7 DEF BindIdentity
<1>8. CASE \E e \in Statuses : MarkRunning(r, e)
  <2>1. endedBefore' \in [Runs -> SUBSET Runs]
    BY <1>8, OrderTypes DEF MarkRunning
  <2> QED  BY <1>8, <2>1 DEF MarkRunning
<1>9. ASSUME NEW o \in Statuses, MarkEnded(r, o)
      PROVE  StoreTypeOK'
  <2>1. Latest(endedBefore, r, Terminal) \in [Runs -> SUBSET Runs]
    BY RowSets, OrderTypes
  <2> QED  BY <1>9, <2>1 DEF MarkEnded
<1>10. CASE UNCHANGED storeVars
  BY <1>10 DEF storeVars
<1> QED
  BY <1>1, <1>2, <1>3, <1>4, <1>5, <1>6, <1>7, <1>8, <1>9, <1>10
  DEF StoreOp, MarkCompleted, MarkFailed
\* Every action of a pool or a thread is a store operation and a well-typed move.
LEMMA EndProcessType ==
  ASSUME PoolTypeOK, NEW s \in Servers, EndProcess(s)
  PROVE  PoolTypeOK'
BY DEF PoolTypeOK, EndProcess, Holds, Threads

LEMMA PoolStepType ==
  ASSUME StoreTypeOK, PoolTypeOK, NEW s \in Servers,
         PoolStep(s) \/ StartFails(s) \/ RequestStop(s) \/ Crash(s)
  PROVE  StoreTypeOK' /\ PoolTypeOK'
<1> USE DEF PoolTypeOK, Holds, Threads
<1>1. StoreTypeOK'
  <2>1. UNCHANGED storeVars \/ RequeueOrphans
    BY DEF PoolStep, AcquireLock, RequeueAndSpawn, StopReturns, Exit, EndProcess,
           StartFails, RequestStop, Crash
  <2>2. CASE UNCHANGED storeVars  BY <2>2 DEF storeVars, StoreTypeOK
  <2>3. CASE RequeueOrphans       BY <2>3 DEF RequeueOrphans, StoreTypeOK
  <2> QED  BY <2>1, <2>2, <2>3
<1> SUFFICES PoolTypeOK'  BY <1>1
<1>2. CASE AcquireLock(s)      BY <1>2 DEF AcquireLock
<1>3. CASE RequeueAndSpawn(s)  BY <1>3 DEF RequeueAndSpawn
<1>4. CASE StopReturns(s)      BY <1>4 DEF StopReturns
<1>5. CASE Exit(s) \/ Crash(s) BY <1>5, EndProcessType DEF Exit, Crash
<1>6. CASE StartFails(s)       BY <1>6 DEF StartFails
<1>7. CASE RequestStop(s)      BY <1>7 DEF RequestStop
<1> QED  BY <1>2, <1>3, <1>4, <1>5, <1>6, <1>7 DEF PoolStep

LEMMA ThreadStepType ==
  ASSUME StoreTypeOK, PoolTypeOK, NEW t \in Threads, ThreadStep(t) \/ ThreadFault(t)
  PROVE  StoreTypeOK' /\ PoolTypeOK'
<1> USE DEF PoolTypeOK, Holds, Goto, LetGo
<1>1. ASSUME NEW r \in Runs, Claim(t, r)
      PROVE  StoreTypeOK' /\ PoolTypeOK'
  <2>1. StoreTypeOK'  BY <1>1, StoreOpType DEF Claim, StoreOp
  <2>2. PoolTypeOK'   BY <1>1 DEF Claim
  <2> QED  BY <2>1, <2>2
<1>2. CASE \/ OpenStore(t) \/ OpenStoreRaises(t) \/ CheckStopFlag(t) \/ QueueEmpty(t)
           \/ Begin(t) \/ BeginRefused(t)
           \/ BeginReplays(t) \/ RunRaises(t) \/ MarkFailedRaises(t)
  <2> USE <1>2 DEF OpenStore, OpenStoreRaises, CheckStopFlag, QueueEmpty, Begin,
     BeginRefused, BeginReplays,
                   RunRaises, MarkFailedRaises
  <2>1. StoreTypeOK'  BY DEF storeVars, StoreTypeOK
  <2>2. PoolTypeOK'   OBVIOUS
  <2> QED  BY <2>1, <2>2
<1>3. CASE Complete(t)
  <2>1. held[t] \in Runs  BY <1>3 DEF Complete
  <2>2. StoreTypeOK'  BY <1>3, <2>1, StoreOpType DEF Complete, StoreOp
  <2>3. PoolTypeOK'   BY <1>3 DEF Complete
  <2> QED  BY <2>2, <2>3
<1>4. CASE MarkFailedInRun(t)
  <2>1. held[t] \in Runs  BY <1>4 DEF MarkFailedInRun
  <2>2. StoreTypeOK'  BY <1>4, <2>1, StoreOpType DEF MarkFailedInRun, StoreOp
  <2>3. PoolTypeOK'   BY <1>4 DEF MarkFailedInRun
  <2> QED  BY <2>2, <2>3
<1>5. CASE MarkFailedInWorker(t)
  <2>1. held[t] \in Runs  BY <1>5 DEF MarkFailedInWorker
  <2>2. StoreTypeOK'  BY <1>5, <2>1, StoreOpType DEF MarkFailedInWorker, StoreOp
  <2>3. PoolTypeOK'   BY <1>5 DEF MarkFailedInWorker
  <2> QED  BY <2>2, <2>3
<1> QED  BY <1>1, <1>2, <1>3, <1>4, <1>5 DEF ThreadStep, ThreadFault

LEMMA CliStepType ==
  ASSUME StoreTypeOK, CliTypeOK, NEW c \in Clis, CliStep(c) \/ CliDies(c)
  PROVE  StoreTypeOK' /\ CliTypeOK'
<1> USE DEF CliTypeOK, CliGoto, CliEnds
<1>1. ASSUME NEW r \in Runs, CliCreates(c, r)
      PROVE  StoreTypeOK' /\ CliTypeOK'
  <2>1. StoreTypeOK'  BY <1>1, StoreOpType DEF CliCreates, StoreOp
  <2>2. CliTypeOK'    BY <1>1 DEF CliCreates, CliOpens
  <2> QED  BY <2>1, <2>2
<1>2. ASSUME NEW r \in Runs, CliResumes(c, r)
      PROVE  StoreTypeOK' /\ CliTypeOK'
  <2>1. StoreTypeOK'  BY <1>2 DEF CliResumes, storeVars, StoreTypeOK
  <2>2. CliTypeOK'    BY <1>2 DEF CliResumes, CliOpens
  <2> QED  BY <2>1, <2>2
<1>3. CASE CliAdmitted(c) \/ CliTurnedAway(c) \/ CliLosesRace(c) \/ CliRaises(c) \/ CliDies(c)
  <2> USE <1>3 DEF CliAdmitted, CliTurnedAway, CliLosesRace, CliRaises, CliDies, Resumable
  <2>1. StoreTypeOK'  BY DEF storeVars, StoreTypeOK
  <2>2. CliTypeOK'    OBVIOUS
  <2> QED  BY <2>1, <2>2
<1>4. CASE CliBinds(c)
  <2>1. StoreTypeOK'  BY <1>4, StoreOpType DEF CliBinds, StoreOp
  <2>2. CliTypeOK'    BY <1>4 DEF CliBinds
  <2> QED  BY <2>1, <2>2
<1>5. CASE CliAcquires(c)
  <2>1. crun[c] \in Runs /\ expected[c] \in Statuses  BY <1>5 DEF CliAcquires
  <2>2. StoreTypeOK'  BY <1>5, <2>1, StoreOpType DEF CliAcquires, StoreOp
  <2>3. CliTypeOK'    BY <1>5 DEF CliAcquires
  <2> QED  BY <2>2, <2>3
<1>6. CASE CliCompletes(c) \/ CliMarksFailed(c)
  <2>1. crun[c] \in Runs  BY <1>6 DEF CliCompletes, CliMarksFailed
  <2>2. StoreTypeOK'  BY <1>6, <2>1, StoreOpType DEF CliCompletes, CliMarksFailed, StoreOp
  <2>3. CliTypeOK'    BY <1>6 DEF CliCompletes, CliMarksFailed
  <2> QED  BY <2>2, <2>3
<1> QED  BY <1>1, <1>2, <1>3, <1>4, <1>5, <1>6 DEF CliStep

LEMMA InitType == Init => TypeOK
BY RunStoreAssumption, ControlPlaneAssumption, WorkerPoolAssumption
DEF Init, TypeOK, StoreInit, StoreTypeOK, PoolInit, PoolTypeOK, Holds, CliInit, CliTypeOK

LEMMA NextType == TypeOK /\ [Next]_vars => TypeOK'
<1> SUFFICES ASSUME TypeOK, [Next]_vars PROVE TypeOK'
  OBVIOUS
<1>s. StoreTypeOK /\ PoolTypeOK /\ CliTypeOK  BY DEF TypeOK
<1>p. UNCHANGED poolVars => PoolTypeOK'  BY <1>s DEF poolVars, PoolTypeOK, Holds
<1>c. UNCHANGED cliVars => CliTypeOK'    BY <1>s DEF cliVars, CliTypeOK
<1>e. UNCHANGED envVars => interruptions' \in 0..MaxInterruptions /\ faults' \in 0..MaxFaults
  BY DEF envVars, TypeOK
<1>1. CASE Submit
  <2>1. StoreTypeOK'  BY <1>1, <1>s, StoreOpType DEF Submit, Submission, StoreOp
  <2> QED  BY <1>1, <2>1, <1>p, <1>c, <1>e DEF Submit, TypeOK
<1>2. ASSUME NEW s \in Servers, PoolRuns(s) PROVE TypeOK'
  <2>1. StoreTypeOK' /\ PoolTypeOK'  BY <1>2, <1>s, PoolStepType DEF PoolRuns
  <2> QED  BY <1>2, <2>1, <1>c, <1>e DEF PoolRuns, TypeOK
<1>3. ASSUME NEW t \in Threads, ThreadRuns(t) PROVE TypeOK'
  <2>1. StoreTypeOK' /\ PoolTypeOK'  BY <1>3, <1>s, ThreadStepType DEF ThreadRuns
  <2> QED  BY <1>3, <2>1, <1>c, <1>e DEF ThreadRuns, TypeOK
<1>4. ASSUME NEW c \in Clis, CliRuns(c) PROVE TypeOK'
  <2>1. StoreTypeOK' /\ CliTypeOK'  BY <1>4, <1>s, CliStepType DEF CliRuns
  <2> QED  BY <1>4, <2>1, <1>p, <1>e DEF CliRuns, TypeOK
<1>5. CASE Interruption
  <2>1. interruptions' \in 0..MaxInterruptions /\ faults' \in 0..MaxFaults
    BY <1>5, ControlPlaneAssumption DEF Interruption, Interrupted, TypeOK
  <2>2. ASSUME NEW s \in Servers, RequestStop(s) \/ Crash(s)
        PROVE  StoreTypeOK' /\ PoolTypeOK'
    BY <2>2, <1>s, PoolStepType
  <2>3. ASSUME NEW c \in Clis, CliDies(c)
        PROVE  StoreTypeOK' /\ CliTypeOK'
    BY <2>3, <1>s, CliStepType
  <2> QED  BY <1>5, <2>1, <2>2, <2>3, <1>p, <1>c DEF Interruption, TypeOK
<1>6. CASE Fault
  <2>1. interruptions' \in 0..MaxInterruptions /\ faults' \in 0..MaxFaults
    BY <1>6, ControlPlaneAssumption DEF Fault, Faulted, TypeOK
  <2>2. ASSUME NEW s \in Servers, StartFails(s) PROVE StoreTypeOK' /\ PoolTypeOK'
    BY <2>2, <1>s, PoolStepType
  <2>3. ASSUME NEW t \in Threads, ThreadFault(t) PROVE StoreTypeOK' /\ PoolTypeOK'
    BY <2>3, <1>s, ThreadStepType
  <2> QED  BY <1>6, <2>1, <2>2, <2>3, <1>c DEF Fault, TypeOK
<1>7. CASE UNCHANGED vars
  BY <1>7, <1>s, <1>p, <1>c, <1>e DEF vars, storeVars, StoreTypeOK, TypeOK
<1> QED  BY <1>1, <1>2, <1>3, <1>4, <1>5, <1>6, <1>7 DEF Next

\* The store, the pools, the threads and the CLI processes stay in their
\* domains; in particular whoever holds a run holds a run that was inserted.
THEOREM TypeCorrect == Spec => []TypeOK
<1>1. Init => TypeOK                     BY InitType
<1>2. TypeOK /\ [Next]_vars => TypeOK'   BY NextType
<1> QED  BY <1>1, <1>2, PTL DEF Spec
-----------------------------------------------------------------------------
(* One pool at a time, whatever else goes on. *)

Serving(s) == pool[s] \in {"locked", "up", "stopping"}

LockInv == \A s \in Servers : Serving(s) => lock = s

LEMMA LockInvStep == TypeOK /\ LockInv /\ [Next]_vars => LockInv'
<1> SUFFICES ASSUME TypeOK, LockInv, [Next]_vars PROVE LockInv'
  OBVIOUS
<1> USE WorkerPoolAssumption DEF LockInv, Serving, TypeOK, PoolTypeOK
<1>1. ASSUME NEW s \in Servers, EndProcess(s) PROVE LockInv'
  BY <1>1 DEF EndProcess
<1>2. ASSUME NEW s \in Servers, PoolRuns(s) PROVE LockInv'
  <2>1. CASE AcquireLock(s)      BY <2>1 DEF AcquireLock
  <2>2. CASE RequeueAndSpawn(s)  BY <2>2 DEF RequeueAndSpawn
  <2>3. CASE StopReturns(s)      BY <2>3 DEF StopReturns
  <2>4. CASE Exit(s)             BY <2>4, <1>1 DEF Exit
  <2> QED  BY <1>2, <2>1, <2>2, <2>3, <2>4 DEF PoolRuns, PoolStep
<1>3. ASSUME NEW s \in Servers, RequestStop(s) \/ Crash(s) \/ StartFails(s) PROVE LockInv'
  <2>1. CASE RequestStop(s)  BY <2>1 DEF RequestStop
  <2>2. CASE StartFails(s)   BY <2>2 DEF StartFails
  <2> QED  BY <1>3, <2>1, <2>2, <1>1 DEF Crash
<1>4. ASSUME NEW t \in Threads, ThreadStep(t) \/ ThreadFault(t)
      PROVE  UNCHANGED <<lock, pool>>
  BY <1>4 DEF ThreadStep, ThreadFault, OpenStore, OpenStoreRaises, CheckStopFlag, Claim,
     QueueEmpty, Begin, BeginRefused, BeginReplays,
     LetGo, Complete, RunRaises, MarkFailedInRun, MarkFailedInWorker, MarkFailedRaises
<1>5. UNCHANGED <<lock, pool>> => LockInv'
  OBVIOUS
<1> QED
  BY <1>2, <1>3, <1>4, <1>5
  DEF Next, Submit, ThreadRuns, CliRuns, Interruption, Fault, vars, poolVars

\* At most one server is between acquiring the flock and letting it go: with or
\* without CLI processes, crashes, store faults and late threads.
THEOREM OneServingPoolCorrect == Spec => []OneServingPool
<1>1. Init => LockInv
  BY DEF Init, PoolInit, LockInv, Serving
<1>2. TypeOK /\ LockInv => OneServingPool
  BY DEF LockInv, Serving, OneServingPool
<1> QED  BY <1>1, <1>2, LockInvStep, TypeCorrect, PTL DEF Spec

-----------------------------------------------------------------------------
(* A row that waits or runs has its definition, and no row comes back. *)

\* The compare-and-swap of a CLI process, as a store operation.
Acquire(r) == bound[r] /\ \E e \in {"created", "failed"} : MarkRunning(r, e)

RowOp(r) ==
  \/ MintRun(r) \/ EnqueueRun(r) \/ RefuseRun(r) \/ CreateRun(r) \/ ClaimRun(r)
  \/ BindIdentity(r) \/ Acquire(r) \/ MarkCompleted(r) \/ MarkFailed(r)

StoreStep == UNCHANGED storeVars \/ RequeueOrphans \/ \E r \in Runs : RowOp(r)

SubmittingUnborn == \A r \in submitting : status[r] = "none"

StoreInv == SubmittingUnborn /\ QueueIsExecutable /\ RunningIsRecoverable

\* A CLI process holds the id of an inserted row, and it binds that row, if it is
\* still there, before its compare-and-swap.
CliInv ==
  \A c \in Clis :
    /\ cpc[c] # "idle" => status[crun[c]] # "none"
    /\ cpc[c] = "bound" => bound[crun[c]] \/ status[crun[c]] = "deleted"

\* What no step undoes.
Ages ==
  \A r \in Runs :
    /\ status[r] # "none" => status'[r] # "none"
    /\ status[r] = "deleted" => status'[r] = "deleted"
    /\ bound[r] => bound'[r]

LEMMA PoolStepIsStoreStep ==
  ASSUME TypeOK, NEW s \in Servers,
         PoolStep(s) \/ StartFails(s) \/ RequestStop(s) \/ Crash(s)
  PROVE  StoreStep
BY DEF PoolStep, AcquireLock, RequeueAndSpawn, StopReturns, Exit, EndProcess,
       StartFails, RequestStop, Crash, StoreStep

LEMMA ThreadStepIsStoreStep ==
  ASSUME TypeOK, NEW t \in Threads, ThreadStep(t) \/ ThreadFault(t)
  PROVE  StoreStep
<1>1. Holds(t) => held[t] \in Runs
  BY DEF TypeOK, PoolTypeOK
<1>2. CASE (\E r \in Runs : Claim(t, r)) \/ Complete(t) \/ MarkFailedInRun(t) \/ MarkFailedInWorker(t)
  BY <1>1, <1>2
  DEF Claim, Complete, MarkFailedInRun, MarkFailedInWorker, Holds, StoreStep, RowOp
<1> QED
  BY <1>2 DEF ThreadStep, ThreadFault, OpenStore, OpenStoreRaises, CheckStopFlag,
     QueueEmpty, Begin, BeginRefused, BeginReplays,
     RunRaises, MarkFailedRaises, StoreStep

LEMMA CliStepIsStoreStep ==
  ASSUME TypeOK, CliInv, NEW c \in Clis, CliStep(c) \/ CliDies(c)
  PROVE  StoreStep
<1>1. cpc[c] # "idle" => crun[c] \in Runs
  BY DEF TypeOK, CliTypeOK
<1>2. CASE CliAcquires(c)
  <2>1. expected[c] \in {"created", "failed"}
    BY <1>2 DEF CliAcquires, TypeOK, CliTypeOK
  <2>2. bound[crun[c]]
    BY <1>2, <2>1 DEF CliAcquires, MarkRunning, CliInv
  <2> QED  BY <1>1, <1>2, <2>1, <2>2 DEF CliAcquires, Acquire, RowOp, StoreStep
<1>3. CASE (\E r \in Runs : CliCreates(c, r)) \/ CliBinds(c) \/ CliCompletes(c) \/ CliMarksFailed(c)
  BY <1>1, <1>3 DEF CliCreates, CliBinds, CliCompletes, CliMarksFailed, StoreStep, RowOp
<1> QED
  BY <1>2, <1>3 DEF CliStep, CliResumes, CliAdmitted, CliTurnedAway, CliLosesRace,
     CliRaises, CliDies, StoreStep

LEMMA NextIsStoreStep == TypeOK /\ CliInv /\ [Next]_vars => StoreStep
<1> SUFFICES ASSUME TypeOK, CliInv, [Next]_vars PROVE StoreStep
  OBVIOUS
<1>1. CASE Submit          BY <1>1 DEF Submit, Submission, StoreStep, RowOp
<1>2. CASE UNCHANGED vars  BY <1>2 DEF vars, StoreStep, storeVars
<1> QED
  BY <1>1, <1>2, PoolStepIsStoreStep, ThreadStepIsStoreStep, CliStepIsStoreStep
  DEF Next, PoolRuns, ThreadRuns, CliRuns, Interruption, Fault

LEMMA StoreInvStep ==
  ASSUME StoreTypeOK, StoreInv, StoreStep
  PROVE  StoreInv' /\ Ages
<1> USE DEF StoreTypeOK, StoreInv, SubmittingUnborn, QueueIsExecutable, RunningIsRecoverable,
            Ages, WithStatus, Pending, Running
<1>1. CASE UNCHANGED storeVars  BY <1>1 DEF storeVars
<1>2. CASE RequeueOrphans       BY <1>2 DEF RequeueOrphans, Orphans
<1>3. ASSUME NEW r \in Runs, RowOp(r)
      PROVE  StoreInv' /\ Ages
  <2>1. CASE MintRun(r)    BY <2>1 DEF MintRun
  <2>2. CASE EnqueueRun(r)
    <3>1. \A x \in Prunable : x \in Runs /\ status[x] \in {"completed", "failed"}
      BY DEF Prunable, Terminal
    <3> QED  BY <2>2, <3>1 DEF EnqueueRun
  <2>3. CASE RefuseRun(r)  BY <2>3 DEF RefuseRun
  <2>4. CASE CreateRun(r)  BY <2>4 DEF CreateRun
  <2>5. CASE ClaimRun(r)   BY <2>5 DEF ClaimRun, NextPending
  <2>6. CASE BindIdentity(r)  BY <2>6 DEF BindIdentity
  <2>7. CASE Acquire(r)    BY <2>7 DEF Acquire, MarkRunning
  <2>8. CASE MarkCompleted(r) \/ MarkFailed(r)
    BY <2>8 DEF MarkCompleted, MarkFailed, MarkEnded, Rows
  <2> QED  BY <1>3, <2>1, <2>2, <2>3, <2>4, <2>5, <2>6, <2>7, <2>8 DEF RowOp
<1> QED  BY <1>1, <1>2, <1>3 DEF StoreStep

LEMMA CliInvStep ==
  ASSUME TypeOK, CliInv, Ages, [Next]_vars
  PROVE  CliInv'
<1> USE DEF TypeOK, CliTypeOK, CliInv, Ages
<1>1. UNCHANGED cliVars => CliInv'
  BY DEF cliVars
<1>2. ASSUME NEW c \in Clis, CliStep(c) \/ CliDies(c)
      PROVE  CliInv'
  <2> USE DEF CliGoto, CliEnds, CliOpens
  <2>1. ASSUME NEW r \in Runs, CliCreates(c, r) PROVE CliInv'
    BY <2>1 DEF CliCreates, CreateRun, StoreTypeOK
  <2>2. ASSUME NEW r \in Runs, CliResumes(c, r) PROVE CliInv'
    BY <2>2 DEF CliResumes, Rows, WithStatus, StoreTypeOK
  <2>3. CASE CliAdmitted(c)  BY <2>3 DEF CliAdmitted
  <2>4. CASE CliBinds(c)
    BY <2>4 DEF CliBinds, BindIdentity, Rows, WithStatus, StoreTypeOK
  <2>5. CASE CliAcquires(c)  BY <2>5 DEF CliAcquires
  <2>6. CASE CliRaises(c)    BY <2>6 DEF CliRaises
  <2>7. CASE CliTurnedAway(c) \/ CliLosesRace(c) \/ CliCompletes(c) \/ CliMarksFailed(c) \/ CliDies(c)
    BY <2>7 DEF CliTurnedAway, CliLosesRace, CliCompletes, CliMarksFailed, CliDies
  <2> QED  BY <1>2, <2>1, <2>2, <2>3, <2>4, <2>5, <2>6, <2>7 DEF CliStep
<1> QED
  BY <1>1, <1>2 DEF Next, Submit, PoolRuns, ThreadRuns, CliRuns, Interruption, Fault, vars, cliVars

DefinitionInv == TypeOK /\ StoreInv /\ CliInv

LEMMA DefinitionInvStep == DefinitionInv /\ [Next]_vars => DefinitionInv' /\ Ages
<1> SUFFICES ASSUME DefinitionInv, [Next]_vars PROVE DefinitionInv' /\ Ages
  OBVIOUS
<1>1. StoreInv' /\ Ages
  BY NextIsStoreStep, StoreInvStep DEF DefinitionInv, TypeOK
<1>2. CliInv'  BY <1>1, CliInvStep DEF DefinitionInv
<1> QED  BY <1>1, <1>2, NextType DEF DefinitionInv

LEMMA DefinitionInvInit == Init => DefinitionInv
BY InitType DEF Init, DefinitionInv, StoreInv, CliInv, SubmittingUnborn, QueueIsExecutable,
   RunningIsRecoverable, StoreInit, CliInit, Pending, Running, WithStatus

\* A queued run always has a definition: the InvariantError branch of
\* process_one is unreachable.
THEOREM QueueIsExecutableCorrect == Spec => []QueueIsExecutable
BY DefinitionInvInit, DefinitionInvStep, PTL DEF Spec, DefinitionInv, StoreInv

\* A running row has its definition, hence the next server start can requeue it.
THEOREM RunningIsRecoverableCorrect == Spec => []RunningIsRecoverable
BY DefinitionInvInit, DefinitionInvStep, PTL DEF Spec, DefinitionInv, StoreInv

\* No stale holder of a pruned run's id can bring its row back.
THEOREM PrunedStaysPrunedCorrect == Spec => PrunedStaysPruned
<1>1. DefinitionInv /\ [Next]_vars
        => [\A r \in Runs : status[r] = "deleted" => status'[r] = "deleted"]_vars
  BY DefinitionInvStep DEF Ages
<1> QED  BY <1>1, DefinitionInvInit, DefinitionInvStep, PTL DEF Spec, PrunedStaysPruned
-----------------------------------------------------------------------------
(* One executor, on a store that only worker pools serve and whose pools join *)
(* every thread before they let the lock go.                                  *)

Served == StopJoins /\ Clis = {}

\* A live thread's pool holds the lock.
ThreadsServed == \A t \in Threads : pc[t] # "off" => pool[t[1]] \in {"up", "stopping"}

HeldOnce == \A t1, t2 \in Threads : Holds(t1) /\ Holds(t2) /\ held[t1] = held[t2] => t1 = t2

\* What a thread believes of its run is what the row says.
HeldRowAgrees ==
  \A t \in Threads :
    /\ pc[t] \in {"claimed", "executing", "failing", "marking"} => status[held[t]] = "running"
    /\ pc[t] = "marked" => status[held[t]] \in {"failed", "deleted"}

ThreadInv == ThreadsServed /\ HeldOnce /\ HeldRowAgrees

ServedInv == DefinitionInv /\ LockInv /\ ThreadInv

\* A completed row is only ever pruned.
ResultKept == \A r \in Runs : status[r] = "completed" => status'[r] \in {"completed", "deleted"}

LEMMA SubmitKeepsThreads ==
  ASSUME ServedInv, Submit
  PROVE  ThreadInv' /\ ResultKept
<1> USE DEF ServedInv, DefinitionInv, TypeOK, StoreTypeOK, PoolTypeOK, ThreadInv, ThreadsServed,
            HeldOnce, HeldRowAgrees, Holds, ResultKept, poolVars
<1>1. PICK r \in Runs : Submission(r) /\ UNCHANGED poolVars
  BY DEF Submit
<1>2. CASE UNCHANGED status
  BY <1>1, <1>2
<1>3. CASE EnqueueRun(r)
  <2>1. status[r] = "none"
    BY <1>3 DEF EnqueueRun, StoreInv, SubmittingUnborn
  <2>2. \A x \in Runs : x \in Prunable => status[x] \in {"completed", "failed"}
    BY DEF Prunable, Terminal, WithStatus
  <2>3. \A x \in Runs : (x = r \/ x \in Prunable) \/ status'[x] = status[x]
    BY <1>3 DEF EnqueueRun
  <2>4. \A x \in Prunable \ {r} : status'[x] = "deleted"
    BY <1>3, RowSets DEF EnqueueRun
  <2>5. \A t \in Threads : Holds(t) => held[t] \in Runs /\ held[t] # r
    BY <2>1
  <2> QED  BY <1>1, <2>1, <2>2, <2>3, <2>4, <2>5
<1> QED  BY <1>1, <1>2, <1>3 DEF Submission, MintRun, RefuseRun

\* Nobody holds a run while a pool starts: its own threads do not run yet, and a
\* thread of another pool would mean that pool holds the lock.
LEMMA NobodyWhileStarting ==
  ASSUME ServedInv, NEW s \in Servers, RequeueAndSpawn(s)
  PROVE  \A t \in Threads : pc[t] = "off"
<1>1. lock = s /\ pool[s] = "locked"
  BY DEF RequeueAndSpawn, ServedInv, LockInv, Serving
<1> QED  BY <1>1 DEF ServedInv, LockInv, Serving, ThreadInv, ThreadsServed, Threads

LEMMA PoolStepKeepsThreads ==
  ASSUME StopJoins, ServedInv, NEW s \in Servers,
         PoolStep(s) \/ StartFails(s) \/ RequestStop(s) \/ Crash(s)
  PROVE  ThreadInv' /\ ResultKept
<1> USE DEF ServedInv, DefinitionInv, TypeOK, StoreTypeOK, PoolTypeOK, Threads, ThreadInv,
            ThreadsServed, HeldOnce, HeldRowAgrees, Holds, ResultKept
<1>1. CASE RequeueAndSpawn(s)
  <2>1. \A t \in Threads : pc[t] = "off"
    BY <1>1, NobodyWhileStarting
  <2> QED  BY <1>1, <2>1 DEF RequeueAndSpawn, RequeueOrphans, Orphans, Running, WithStatus
<1>2. CASE AcquireLock(s) \/ StopReturns(s) \/ StartFails(s) \/ RequestStop(s)
  BY <1>2 DEF AcquireLock, StopReturns, StartFails, RequestStop, storeVars, ThreadsOf
<1>3. CASE Exit(s) \/ Crash(s)
  BY <1>3 DEF Exit, Crash, EndProcess, storeVars
<1> QED  BY <1>1, <1>2, <1>3 DEF PoolStep

LEMMA ThreadStepKeepsThreads ==
  ASSUME ServedInv, NEW t \in Threads, ThreadStep(t) \/ ThreadFault(t)
  PROVE  ThreadInv' /\ ResultKept
<1> USE DEF ServedInv, DefinitionInv, TypeOK, StoreTypeOK, PoolTypeOK, ThreadInv,
            ThreadsServed, HeldOnce, HeldRowAgrees, Holds, ResultKept, Goto, LetGo
<1>1. ASSUME NEW r \in Runs, Claim(t, r)
      PROVE  ThreadInv' /\ ResultKept
  <2>1. status[r] = "pending"
    BY <1>1 DEF Claim, ClaimRun, NextPending, Pending, WithStatus
  <2>2. \A t2 \in Threads : Holds(t2) => held[t2] # r
    BY <2>1
  <2> QED  BY <1>1, <2>1, <2>2 DEF Claim, ClaimRun
<1>2. CASE \/ OpenStore(t) \/ OpenStoreRaises(t) \/ CheckStopFlag(t) \/ QueueEmpty(t)
           \/ Begin(t) \/ BeginRefused(t)
           \/ BeginReplays(t) \/ RunRaises(t)
  BY <1>2 DEF OpenStore, OpenStoreRaises, CheckStopFlag, QueueEmpty, Begin, BeginRefused,
     BeginReplays, RunRaises, storeVars
<1>3. CASE MarkFailedRaises(t)
  BY <1>3 DEF MarkFailedRaises, storeVars
<1>4. CASE Complete(t)
  BY <1>4 DEF Complete, MarkCompleted, MarkEnded
<1>5. CASE MarkFailedInRun(t)
  BY <1>5 DEF MarkFailedInRun, MarkFailed, MarkEnded, Rows, WithStatus
<1>6. CASE MarkFailedInWorker(t)
  BY <1>6 DEF MarkFailedInWorker, MarkFailed, MarkEnded, Rows, WithStatus
<1> QED  BY <1>1, <1>2, <1>3, <1>4, <1>5, <1>6 DEF ThreadStep, ThreadFault

LEMMA ServedInvStep ==
  ASSUME Served
  PROVE  ServedInv /\ [Next]_vars => ServedInv' /\ ResultKept
<1> SUFFICES ASSUME ServedInv, [Next]_vars PROVE ServedInv' /\ ResultKept
  OBVIOUS
<1>1. DefinitionInv' /\ LockInv'
  BY DefinitionInvStep, LockInvStep DEF ServedInv, DefinitionInv
<1>2. ThreadInv' /\ ResultKept
  <2>1. CASE UNCHANGED vars
    BY <2>1 DEF ServedInv, ThreadInv, ThreadsServed, HeldOnce, HeldRowAgrees, Holds, ResultKept,
       vars, storeVars, poolVars
  <2> QED
    BY <2>1, SubmitKeepsThreads, PoolStepKeepsThreads, ThreadStepKeepsThreads
    DEF Served, Next, PoolRuns, ThreadRuns, Interruption, Fault
<1> QED  BY <1>1, <1>2 DEF ServedInv

LEMMA ServedInvInit == Init => ServedInv
<1> SUFFICES ASSUME Init PROVE LockInv /\ ThreadInv
  BY DefinitionInvInit DEF ServedInv
<1> QED
  BY DEF Init, PoolInit, LockInv, Serving, ThreadInv, ThreadsServed, HeldOnce, HeldRowAgrees, Holds

\* "so no run runs twice" (control.py): whatever the number of servers, workers
\* and runs, crashes, restarts and store faults, no two threads hold one run.
THEOREM ServedOneExecutor ==
  ASSUME Served
  PROVE  Spec => []OneExecutor
<1>1. ServedInv => OneExecutor
  BY DEF Served, ServedInv, ThreadInv, HeldOnce, OneExecutor, Holders, ThreadHolders, CliHolders
<1> QED  BY <1>1, ServedInvInit, ServedInvStep, PTL DEF Spec

\* The row of an executing run is running: it is not pruned, requeued or ended
\* while a thread executes it.
THEOREM ServedExecutingRowIsRunning ==
  ASSUME Served
  PROVE  Spec => []ExecutingRowIsRunning
<1>1. ServedInv => ExecutingRowIsRunning
  BY DEF Served, ServedInv, ThreadInv, HeldRowAgrees, ExecutingRowIsRunning
<1> QED  BY <1>1, ServedInvInit, ServedInvStep, PTL DEF Spec

\* A completed run keeps its result until it is pruned.
THEOREM ServedCompletedIsFinal ==
  ASSUME Served
  PROVE  Spec => CompletedIsFinal
<1>1. ServedInv /\ [Next]_vars
        => [\A r \in Runs : status[r] = "completed" => status'[r] \in {"completed", "deleted"}]_vars
  BY ServedInvStep DEF ResultKept
<1> QED  BY <1>1, ServedInvInit, ServedInvStep, PTL DEF Spec, CompletedIsFinal
\* No other step puts a running row back into the queue.
LEMMA OnlyRequeueReturns ==
  ASSUME ServedInv, [Next]_vars, NEW r \in Runs,
         status[r] = "running", status'[r] = "pending"
  PROVE  \E s \in Servers : RequeueAndSpawn(s)
<1> SUFFICES ASSUME \A s \in Servers : ~RequeueAndSpawn(s) PROVE FALSE
  OBVIOUS
<1>0. status \in [Runs -> Statuses]
  BY DEF ServedInv, DefinitionInv, TypeOK, StoreTypeOK
<1>1. ASSUME NEW x \in Runs, Submission(x) PROVE FALSE
  <2>1. r # x \/ ~EnqueueRun(x)
    BY DEF ServedInv, DefinitionInv, StoreInv, SubmittingUnborn, EnqueueRun
  <2> QED  BY <1>0, <1>1, <2>1 DEF Submission, MintRun, EnqueueRun, RefuseRun
<1>2. ASSUME NEW s \in Servers, PoolStep(s) \/ RequestStop(s) \/ Crash(s) \/ StartFails(s)
      PROVE  FALSE
  BY <1>2 DEF PoolStep, AcquireLock, StopReturns, Exit, Crash, EndProcess, RequestStop,
              StartFails, storeVars
<1>3. ASSUME NEW t \in Threads, ThreadStep(t) \/ ThreadFault(t)
      PROVE  FALSE
  <2>1. ASSUME NEW x \in Runs, Claim(t, x) PROVE FALSE
    BY <1>0, <2>1 DEF Claim, ClaimRun
  <2>2. CASE Complete(t) \/ MarkFailedInRun(t) \/ MarkFailedInWorker(t)
    BY <1>0, <2>2 DEF Complete, MarkCompleted, MarkFailedInRun, MarkFailedInWorker, MarkFailed, MarkEnded
  <2> QED
    BY <1>3, <2>1, <2>2 DEF ThreadStep, ThreadFault, OpenStore, OpenStoreRaises,
       CheckStopFlag, QueueEmpty, Begin, BeginRefused,
       BeginReplays, RunRaises, MarkFailedRaises, storeVars
<1>4. ASSUME NEW c \in Clis, CliStep(c) \/ CliDies(c)
      PROVE  FALSE
  <2>1. CASE (\E x \in Runs : CliCreates(c, x)) \/ CliAcquires(c) \/ CliCompletes(c) \/ CliMarksFailed(c)
    BY <1>0, <2>1 DEF CliCreates, CreateRun, CliAcquires, MarkRunning, CliCompletes, CliMarksFailed,
                      MarkCompleted, MarkFailed, MarkEnded
  <2> QED
    BY <1>4, <2>1 DEF CliStep, CliResumes, CliAdmitted, CliTurnedAway, CliBinds, BindIdentity,
       CliLosesRace, CliRaises, CliDies, storeVars
<1> QED
  BY <1>1, <1>2, <1>3, <1>4 DEF Next, Submit, PoolRuns, ThreadRuns, CliRuns, Interruption, Fault,
     vars, storeVars

\* "Reset runs stranded in running": a pool that starts finds no other thread alive,
\* so no run is taken from its executor.
THEOREM ServedOnlyOrphansRequeued ==
  ASSUME Served
  PROVE  Spec => OnlyOrphansRequeued
<1> DEFINE Given == \A r \in Runs : status[r] = "running" /\ status'[r] = "pending" => Holders(r) = {}
<1>1. ASSUME ServedInv, [Next]_vars, NEW r \in Runs, status[r] = "running", status'[r] = "pending"
      PROVE  Holders(r) = {}
  <2>1. PICK s \in Servers : RequeueAndSpawn(s)
    BY <1>1, OnlyRequeueReturns
  <2>2. \A t \in Threads : pc[t] = "off"
    BY <1>1, <2>1, NobodyWhileStarting
  <2> QED  BY <2>2 DEF Holders, ThreadHolders, CliHolders, Holds, Served
<1>2. ServedInv /\ [Next]_vars => [Given]_vars
  BY <1>1
<1> QED  BY <1>2, ServedInvInit, ServedInvStep, PTL DEF Spec, OnlyOrphansRequeued

-----------------------------------------------------------------------------
(* One executor, on a store that only CLI processes (and submitters) use.     *)

CliOnly == Servers = {}

CliRowAgrees == \A c \in Clis : CliHolds(c) => status[crun[c]] = "running"

CliHoldsOnce ==
  \A c1, c2 \in Clis : CliHolds(c1) /\ CliHolds(c2) /\ crun[c1] = crun[c2] => c1 = c2

CliOnlyInv == DefinitionInv /\ CliRowAgrees /\ CliHoldsOnce

LEMMA SubmitKeepsClis ==
  ASSUME CliOnlyInv, Submit
  PROVE  (CliRowAgrees /\ CliHoldsOnce)' /\ ResultKept
<1> USE DEF CliOnlyInv, DefinitionInv, TypeOK, StoreTypeOK, CliTypeOK, CliRowAgrees,
            CliHoldsOnce, CliHolds, ResultKept, cliVars
<1>1. PICK r \in Runs : Submission(r) /\ UNCHANGED cliVars
  BY DEF Submit
<1>2. CASE UNCHANGED status
  BY <1>1, <1>2
<1>3. CASE EnqueueRun(r)
  <2>1. status[r] = "none"
    BY <1>3 DEF EnqueueRun, StoreInv, SubmittingUnborn
  <2>2. \A x \in Runs : x \in Prunable => status[x] \in {"completed", "failed"}
    BY DEF Prunable, Terminal, WithStatus
  <2>3. \A x \in Runs : (x = r \/ x \in Prunable) \/ status'[x] = status[x]
    BY <1>3 DEF EnqueueRun
  <2>4. \A x \in Prunable \ {r} : status'[x] = "deleted"
    BY <1>3, RowSets DEF EnqueueRun
  <2> QED  BY <1>1, <2>1, <2>2, <2>3, <2>4
<1> QED  BY <1>1, <1>2, <1>3 DEF Submission, MintRun, RefuseRun

LEMMA CliStepKeepsClis ==
  ASSUME CliOnlyInv, NEW c \in Clis, CliStep(c) \/ CliDies(c)
  PROVE  (CliRowAgrees /\ CliHoldsOnce)' /\ ResultKept
<1> USE DEF CliOnlyInv, DefinitionInv, TypeOK, StoreTypeOK, CliTypeOK, CliRowAgrees,
            CliHoldsOnce, CliHolds, ResultKept, CliGoto, CliEnds, CliOpens
<1>1. ASSUME NEW r \in Runs, CliCreates(c, r)
      PROVE  (CliRowAgrees /\ CliHoldsOnce)' /\ ResultKept
  BY <1>1 DEF CliCreates, CreateRun
<1>2. ASSUME NEW r \in Runs, CliResumes(c, r)
      PROVE  (CliRowAgrees /\ CliHoldsOnce)' /\ ResultKept
  BY <1>2 DEF CliResumes, storeVars
<1>3. CASE CliAdmitted(c) \/ CliTurnedAway(c) \/ CliLosesRace(c) \/ CliRaises(c) \/ CliDies(c)
  BY <1>3 DEF CliAdmitted, CliTurnedAway, CliLosesRace, CliRaises, CliDies, storeVars
<1>4. CASE CliBinds(c)
  BY <1>4 DEF CliBinds, BindIdentity
<1>5. CASE CliAcquires(c)
  \* The swap succeeds from `created` or `failed` only, and whoever holds a run
  \* holds a `running` one.
  <2>1. status[crun[c]] \in {"created", "failed"} /\ crun[c] \in Runs
    BY <1>5 DEF CliAcquires, MarkRunning
  <2>2. \A c2 \in Clis : CliHolds(c2) => crun[c2] # crun[c]
    BY <2>1
  <2> QED  BY <1>5, <2>1, <2>2 DEF CliAcquires, MarkRunning
<1>6. CASE CliCompletes(c) \/ CliMarksFailed(c)
  BY <1>6 DEF CliCompletes, CliMarksFailed, MarkCompleted, MarkFailed, MarkEnded
<1> QED  BY <1>1, <1>2, <1>3, <1>4, <1>5, <1>6 DEF CliStep

LEMMA CliOnlyInvStep ==
  ASSUME CliOnly
  PROVE  CliOnlyInv /\ [Next]_vars => CliOnlyInv' /\ ResultKept
<1> SUFFICES ASSUME CliOnlyInv, [Next]_vars PROVE CliOnlyInv' /\ ResultKept
  OBVIOUS
<1>1. DefinitionInv'
  BY DefinitionInvStep DEF CliOnlyInv
<1>2. (CliRowAgrees /\ CliHoldsOnce)' /\ ResultKept
  <2>1. CASE UNCHANGED vars
    BY <2>1 DEF CliOnlyInv, CliRowAgrees, CliHoldsOnce, CliHolds, ResultKept, vars, storeVars, cliVars
  <2> QED
    BY <2>1, SubmitKeepsClis, CliStepKeepsClis
    DEF CliOnly, Threads, Next, CliRuns, Interruption, Fault
<1> QED  BY <1>1, <1>2 DEF CliOnlyInv

LEMMA CliOnlyInvInit == Init => CliOnlyInv
BY DefinitionInvInit DEF CliOnlyInv, CliRowAgrees, CliHoldsOnce, CliHolds, Init, CliInit

\* mark_running "prevents two CLI resume attempts from executing the same failed
\* run concurrently": any number of CLI processes creating and resuming runs,
\* dying and losing their marks, while submissions prune the table.
THEOREM CliOneExecutor ==
  ASSUME CliOnly
  PROVE  Spec => []OneExecutor
<1>1. CliOnlyInv => OneExecutor
  BY DEF CliOnly, Threads, CliOnlyInv, CliHoldsOnce, OneExecutor, Holders, ThreadHolders, CliHolders
<1> QED  BY <1>1, CliOnlyInvInit, CliOnlyInvStep, PTL DEF Spec

\* The row of a run that a CLI process executes stays `running`, whatever other
\* processes and submissions do.
THEOREM CliExecutingRowIsRunning ==
  ASSUME CliOnly
  PROVE  Spec => []ExecutingRowIsRunning
<1>1. CliOnlyInv => ExecutingRowIsRunning
  BY DEF CliOnly, Threads, CliOnlyInv, CliRowAgrees, ExecutingRowIsRunning
<1> QED  BY <1>1, CliOnlyInvInit, CliOnlyInvStep, PTL DEF Spec

\* On such a store too a completed run keeps its result until it is pruned.
THEOREM CliCompletedIsFinal ==
  ASSUME CliOnly
  PROVE  Spec => CompletedIsFinal
<1>1. CliOnlyInv /\ [Next]_vars
        => [\A r \in Runs : status[r] = "completed" => status'[r] \in {"completed", "deleted"}]_vars
  BY CliOnlyInvStep DEF ResultKept
<1> QED  BY <1>1, CliOnlyInvInit, CliOnlyInvStep, PTL DEF Spec, CompletedIsFinal

-----------------------------------------------------------------------------
(* One executor, on a store that servers and CLI processes share, as long as  *)
(* no server starts under an executing CLI process and no CLI process resumes *)
(* what a thread has not let go.  Either rule is needed.                      *)

Orderly == OrderlyStart /\ OrderlyResume

\* No thread and CLI process hold the same run.
Apart == \A t \in Threads, c \in Clis : Holds(t) /\ CliHolds(c) => held[t] # crun[c]

ClisInv  == CliRowAgrees /\ CliHoldsOnce /\ Apart
MixedInv == ServedInv /\ ClisInv

\* Submissions move neither threads nor CLI processes.
LEMMA SubmitKeepsMixed ==
  ASSUME MixedInv, Submit
  PROVE  (ThreadInv /\ ClisInv)' /\ ResultKept
<1>1. ThreadInv' /\ ResultKept
  BY SubmitKeepsThreads DEF MixedInv
<1>2. (CliRowAgrees /\ CliHoldsOnce)'
  BY SubmitKeepsClis DEF MixedInv, ClisInv, CliOnlyInv, ServedInv
<1>3. Apart'
  BY DEF MixedInv, ClisInv, Apart, Holds, CliHolds, Submit, poolVars, cliVars
<1> QED  BY <1>1, <1>2, <1>3 DEF ClisInv

\* When a pool starts, nobody executes anything: its own threads do not run yet, those
\* of another pool would keep the lock, and the operator waited for the CLI processes.
LEMMA StartFindsNobody ==
  ASSUME MixedInv, OrderlyStart, NEW s \in Servers, RequeueAndSpawn(s)
  PROVE  (\A t \in Threads : pc[t] = "off") /\ \A c \in Clis : ~CliHolds(c)
<1>1. \A t \in Threads : pc[t] = "off"
  BY NobodyWhileStarting DEF MixedInv
<1>2. pool[s] = "locked" /\ pool'[s] = "up"
  BY DEF RequeueAndSpawn, MixedInv, ServedInv, DefinitionInv, TypeOK, PoolTypeOK
<1> QED  BY <1>1, <1>2 DEF OrderlyStart

\* A pool that starts takes no run from a CLI process, for none executes.
LEMMA PoolStepKeepsMixed ==
  ASSUME StopJoins, MixedInv, OrderlyStart, NEW s \in Servers, UNCHANGED cliVars,
         PoolStep(s) \/ StartFails(s) \/ RequestStop(s) \/ Crash(s)
  PROVE  (ThreadInv /\ ClisInv)' /\ ResultKept
<1>1. ThreadInv' /\ ResultKept
  BY PoolStepKeepsThreads DEF MixedInv
<1>2. \A c \in Clis : CliHolds(c)' = CliHolds(c) /\ crun'[c] = crun[c]
  BY DEF CliHolds, cliVars
<1>3. CASE RequeueAndSpawn(s)
  <2>1. \A c \in Clis : ~CliHolds(c)
    BY <1>3, StartFindsNobody
  <2> QED  BY <1>1, <1>2, <2>1 DEF ClisInv, CliRowAgrees, CliHoldsOnce, Apart
<1>4. CASE ~RequeueAndSpawn(s)
  <2>1. status' = status /\ \A t \in Threads : Holds(t)' => Holds(t) /\ held'[t] = held[t]
    BY <1>4 DEF PoolStep, AcquireLock, StopReturns, Exit, Crash, StartFails, RequestStop, EndProcess,
       storeVars, Holds, MixedInv, ServedInv, DefinitionInv, TypeOK, PoolTypeOK
  <2> QED
    BY <1>1, <1>2, <2>1 DEF MixedInv, ClisInv, CliRowAgrees, CliHoldsOnce, Apart
<1> QED  BY <1>3, <1>4

\* A thread changes the row of the run it holds or claims, which is no CLI process's.
LEMMA ThreadStepKeepsMixed ==
  ASSUME MixedInv, NEW t \in Threads, UNCHANGED cliVars, ThreadStep(t) \/ ThreadFault(t)
  PROVE  (ThreadInv /\ ClisInv)' /\ ResultKept
<1>1. ThreadInv' /\ ResultKept
  BY ThreadStepKeepsThreads DEF MixedInv
<1>2. \A c \in Clis : CliHolds(c)' = CliHolds(c) /\ crun'[c] = crun[c]
  BY DEF CliHolds, cliVars
<1>t. /\ pc \in [Threads -> ThreadStates] /\ held \in [Threads -> Runs \cup {NoRun}]
      /\ status \in [Runs -> Statuses]
      /\ \A c \in Clis : CliHolds(c) => crun[c] \in Runs /\ status[crun[c]] = "running"
  BY DEF MixedInv, ClisInv, CliRowAgrees, ServedInv, DefinitionInv, TypeOK, PoolTypeOK, StoreTypeOK,
         CliTypeOK, CliHolds
<1>3. CASE \E r \in Runs : Claim(t, r)
  <2>1. PICK r \in Runs : Claim(t, r)
    BY <1>3
  <2>2. status[r] = "pending" /\ status' = [status EXCEPT ![r] = "running"]
    BY <2>1 DEF Claim, ClaimRun, NextPending, Pending, WithStatus
  <2>3. held' = [held EXCEPT ![t] = r] /\ \A u \in Threads \ {t} : Holds(u)' = Holds(u)
    BY <2>1, <1>t DEF Claim, Goto, Holds
  <2>4. \A c \in Clis : CliHolds(c) => crun[c] # r
    BY <1>t, <2>2
  <2>5. Apart'
    BY <1>t, <1>2, <2>3, <2>4 DEF MixedInv, ClisInv, Apart
  <2>6. (CliRowAgrees /\ CliHoldsOnce)'
    BY <1>t, <1>2, <2>2, <2>4 DEF MixedInv, ClisInv, CliRowAgrees, CliHoldsOnce
  <2> QED  BY <1>1, <2>5, <2>6 DEF ClisInv
<1>4. CASE ~(\E r \in Runs : Claim(t, r))
  <2>1. \A u \in Threads : Holds(u)' => Holds(u) /\ held'[u] = held[u]
    BY <1>4, <1>t DEF ThreadStep, ThreadFault, OpenStore, OpenStoreRaises, CheckStopFlag,
       QueueEmpty, Begin, BeginRefused, BeginReplays,
       Complete, RunRaises, MarkFailedInRun, MarkFailedInWorker, MarkFailedRaises, Goto, LetGo, Holds
  <2>2. status' = status \/ (Holds(t) /\ \A r \in Runs \ {held[t]} : status'[r] = status[r])
    BY <1>4, <1>t DEF ThreadStep, ThreadFault, OpenStore, OpenStoreRaises, CheckStopFlag,
       QueueEmpty, Begin, BeginRefused, BeginReplays,
       Complete, RunRaises, MarkFailedInRun, MarkFailedInWorker, MarkFailedRaises, MarkCompleted,
       MarkFailed, MarkEnded, Holds, storeVars
  <2>3. \A c \in Clis : CliHolds(c) => status'[crun[c]] = "running"
    BY <1>t, <2>2 DEF MixedInv, ClisInv, Apart
  <2>4. Apart'
    BY <1>2, <2>1 DEF MixedInv, ClisInv, Apart
  <2> QED
    BY <1>1, <1>2, <2>3, <2>4 DEF MixedInv, ClisInv, CliRowAgrees, CliHoldsOnce
<1> QED  BY <1>3, <1>4

\* A CLI process changes the row of its own run, which no thread holds.
LEMMA CliStepKeepsMixed ==
  ASSUME MixedInv, OrderlyResume, NEW c \in Clis, UNCHANGED poolVars, CliStep(c) \/ CliDies(c)
  PROVE  (ThreadInv /\ ClisInv)' /\ ResultKept
<1>1. (CliRowAgrees /\ CliHoldsOnce)' /\ ResultKept
  BY CliStepKeepsClis DEF MixedInv, ClisInv, CliOnlyInv, ServedInv
<1>2. /\ pc' = pc /\ held' = held /\ pool' = pool
      /\ \A t \in Threads : Holds(t)' = Holds(t)
  BY DEF poolVars, Holds
<1>t. /\ \A t \in Threads : Holds(t) => held[t] \in Runs /\ status[held[t]] # "none"
      /\ status \in [Runs -> Statuses] /\ cpc \in [Clis -> CliStates]
      /\ crun \in [Clis -> Runs \cup {NoRun}]
  BY DEF MixedInv, ServedInv, DefinitionInv, TypeOK, PoolTypeOK, StoreTypeOK, CliTypeOK, ThreadInv,
         HeldRowAgrees, Holds
<1>3. \A d \in Clis : CliHolds(d)' /\ CliHolds(d) => crun'[d] = crun[d]
  BY <1>t DEF CliHolds, CliStep, CliCreates, CliResumes, CliOpens, CliAdmitted, CliTurnedAway,
     CliBinds, CliAcquires, CliLosesRace, CliCompletes, CliRaises, CliMarksFailed, CliDies, CliGoto,
     CliEnds
<1>4. \A d \in Clis : CliHolds(d)' /\ ~CliHolds(d) => crun'[d] = crun[d] /\ ThreadHolders(crun[d]) = {}
  BY <1>t DEF OrderlyResume, CliHolds, CliStep, CliCreates, CliResumes, CliOpens, CliAdmitted,
     CliTurnedAway, CliBinds, CliAcquires, CliLosesRace, CliCompletes, CliRaises, CliMarksFailed,
     CliDies, CliGoto, CliEnds
<1>5. Apart'
  BY <1>2, <1>3, <1>4 DEF MixedInv, ClisInv, Apart, ThreadHolders
<1>6. \A t \in Threads : Holds(t) => status'[held[t]] = status[held[t]]
  <2>1. CASE \E r \in Runs : CliCreates(c, r)
    BY <1>t, <2>1 DEF CliCreates, CreateRun
  <2>2. CASE CliAcquires(c)
    <3>1. ~CliHolds(c) /\ CliHolds(c)'
      BY <1>t, <2>2 DEF CliAcquires, CliGoto, CliHolds
    <3>2. \A t \in Threads : Holds(t) => held[t] # crun[c]
      BY <3>1 DEF OrderlyResume, ThreadHolders
    <3> QED  BY <1>t, <2>2, <3>2 DEF CliAcquires, MarkRunning
  <2>3. CASE CliCompletes(c) \/ CliMarksFailed(c)
    <3>1. \A t \in Threads : Holds(t) => held[t] # crun[c]
      BY <2>3 DEF CliCompletes, CliMarksFailed, CliHolds, MixedInv, ClisInv, Apart
    <3> QED
      BY <1>t, <2>3, <3>1 DEF CliCompletes, CliMarksFailed, MarkCompleted, MarkFailed, MarkEnded
  <2> QED
    BY <2>1, <2>2, <2>3 DEF CliStep, CliResumes, CliAdmitted, CliTurnedAway, CliBinds, BindIdentity,
       CliLosesRace, CliRaises, CliDies, storeVars
<1>7. ThreadInv'
  BY <1>2, <1>6 DEF MixedInv, ServedInv, ThreadInv, ThreadsServed, HeldOnce, HeldRowAgrees, Holds
<1> QED  BY <1>1, <1>5, <1>7 DEF ClisInv

\* Every orderly step keeps it, and every completed row.
LEMMA MixedInvStep ==
  ASSUME StopJoins
  PROVE  MixedInv /\ [Next /\ Orderly]_vars => MixedInv' /\ ResultKept
<1> SUFFICES ASSUME MixedInv, [Next /\ Orderly]_vars PROVE MixedInv' /\ ResultKept
  OBVIOUS
<1>1. DefinitionInv' /\ LockInv'
  BY DefinitionInvStep, LockInvStep DEF MixedInv, ServedInv, DefinitionInv
<1>2. (ThreadInv /\ ClisInv)' /\ ResultKept
  <2>1. CASE UNCHANGED vars
    BY <2>1 DEF MixedInv, ClisInv, ServedInv, ThreadInv, ThreadsServed, HeldOnce, HeldRowAgrees,
       CliRowAgrees, CliHoldsOnce, Apart, Holds, CliHolds, ResultKept, vars, storeVars, poolVars, cliVars
  <2>2. CASE Next /\ Orderly
    BY <2>2, SubmitKeepsMixed, PoolStepKeepsMixed, ThreadStepKeepsMixed, CliStepKeepsMixed
    DEF Orderly, Next, PoolRuns, ThreadRuns, CliRuns, Interruption, Fault
  <2> QED  BY <2>1, <2>2
<1> QED  BY <1>1, <1>2 DEF MixedInv, ServedInv

\* It holds of a new store.
LEMMA MixedInvInit == Init => MixedInv
<1> SUFFICES ASSUME Init PROVE ClisInv
  BY ServedInvInit DEF MixedInv
<1> QED
  BY DEF Init, CliInit, ClisInv, CliRowAgrees, CliHoldsOnce, Apart, CliHolds

\* Servers that join their threads, and any number of CLI processes: under the two
\* rules no run is held twice, by threads, by CLI processes, or by one of each.
THEOREM OrderlyOneExecutor ==
  ASSUME StopJoins
  PROVE  OrderlySpec => []OneExecutor
<1>1. MixedInv => OneExecutor
  BY DEF MixedInv, ClisInv, ServedInv, ThreadInv, HeldOnce, CliHoldsOnce, Apart, OneExecutor,
         Holders, ThreadHolders, CliHolders
<1> QED  BY <1>1, MixedInvInit, MixedInvStep, PTL DEF OrderlySpec, Orderly

\* Under the two rules the row of a run that is being executed, by a thread or by a
\* CLI process, says so.
THEOREM OrderlyExecutingRowIsRunning ==
  ASSUME StopJoins
  PROVE  OrderlySpec => []ExecutingRowIsRunning
<1>1. MixedInv => ExecutingRowIsRunning
  BY DEF MixedInv, ClisInv, ServedInv, ThreadInv, HeldRowAgrees, CliRowAgrees, ExecutingRowIsRunning
<1> QED  BY <1>1, MixedInvInit, MixedInvStep, PTL DEF OrderlySpec, Orderly

\* Under the two rules a completed run keeps its result until it is pruned.
THEOREM OrderlyCompletedIsFinal ==
  ASSUME StopJoins
  PROVE  OrderlySpec => CompletedIsFinal
<1>1. MixedInv /\ [Next /\ Orderly]_vars
        => [\A r \in Runs : status[r] = "completed" => status'[r] \in {"completed", "deleted"}]_vars
  BY MixedInvStep DEF ResultKept
<1> QED
  BY <1>1, MixedInvInit, MixedInvStep, PTL DEF OrderlySpec, Orderly, CompletedIsFinal

\* Under the two rules a server's start takes no run from a thread or CLI process.
THEOREM OrderlyOnlyOrphansRequeued ==
  ASSUME StopJoins
  PROVE  OrderlySpec => OnlyOrphansRequeued
<1> DEFINE Given == \A r \in Runs : status[r] = "running" /\ status'[r] = "pending" => Holders(r) = {}
<1>1. ASSUME MixedInv, [Next /\ Orderly]_vars,
             NEW r \in Runs, status[r] = "running", status'[r] = "pending"
      PROVE  Holders(r) = {}
  <2>1. PICK s \in Servers : RequeueAndSpawn(s)
    BY <1>1, OnlyRequeueReturns DEF MixedInv
  <2>2. Orderly
    <3>1. pool' # pool
      BY <1>1, <2>1 DEF RequeueAndSpawn, MixedInv, ServedInv, DefinitionInv, TypeOK, PoolTypeOK
    <3> QED  BY <1>1, <3>1 DEF vars, poolVars
  <2>3. (\A t \in Threads : pc[t] = "off") /\ \A c \in Clis : ~CliHolds(c)
    BY <1>1, <2>1, <2>2, StartFindsNobody DEF Orderly
  <2> QED  BY <2>3 DEF Holders, ThreadHolders, CliHolders, Holds
<1>2. MixedInv /\ [Next /\ Orderly]_vars => [Given]_vars
  BY <1>1
<1> QED
  BY <1>2, MixedInvInit, MixedInvStep, PTL DEF OrderlySpec, Orderly, OnlyOrphansRequeued

-----------------------------------------------------------------------------
(* Such a store implements the abstract queue.                               *)

\* The executors the refinement gives the queue.
Exec == [r \in Runs |-> {h \in Holders(r) : status[r] = "running"}]

\* The part of them that are threads; a CLI process that holds a run executes it.
Hands(r) == {t \in ThreadHolders(r) : status[r] = "running"}

LEMMA QueueInit == Init => Queue!Init
<1> SUFFICES ASSUME Init PROVE Queue!Init
  OBVIOUS
<1>1. status \in [Runs -> {"none", "running"}]
  BY DEF Init, StoreInit
<1>2. \A r \in Runs : {h \in Holders(r) : status[r] = "running"} = {}
  BY DEF Init, PoolInit, CliInit, Holders, ThreadHolders, CliHolders, Holds, CliHolds
<1> QED  BY <1>1, <1>2 DEF Queue!Init

\* The steps of the queue, in terms of the store's variables.
LEMMA QueueSteps ==
  ASSUME \/ UNCHANGED <<status, Exec>>
         \/ \E r \in Runs :
              /\ status[r] = "none" /\ Prunable \subseteq Terminal
              /\ status' = [x \in Runs |-> IF x = r THEN "pending"
                                           ELSE IF x \in Prunable THEN "deleted" ELSE status[x]]
              /\ Exec' = Exec
         \/ \E r \in Runs :
              status[r] = "none" /\ status' = [status EXCEPT ![r] = "created"] /\ Exec' = Exec
         \/ \E r \in Runs, e \in Threads \cup Clis :
              /\ status[r] \in {"pending", "created", "failed"} /\ \A x \in Runs : e \notin Exec[x]
              /\ status' = [status EXCEPT ![r] = "running"]
              /\ Exec' = [Exec EXCEPT ![r] = {e}]
         \/ \E r \in Runs, outcome \in {"completed", "failed"} :
              /\ Exec[r] # {} /\ status[r] = "running"
              /\ status' = [status EXCEPT ![r] = outcome]
              /\ Exec' = [Exec EXCEPT ![r] = {}]
         \/ \E S \in SUBSET (Threads \cup Clis) :
              status' = status /\ Exec' = [r \in Runs |-> Exec[r] \ S]
         \/ \E S \in SUBSET Runs :
              /\ \A r \in S : status[r] = "running" /\ Exec[r] = {}
              /\ status' = [r \in Runs |-> IF r \in S THEN "pending" ELSE status[r]]
              /\ Exec' = Exec
  PROVE  [Queue!Next]_(Queue!queueVars)
<1> DEFINE mapped == [r \in Runs |-> {h \in Holders(r) : status[r] = "running"}]
<1>1. mapped = Exec /\ mapped' = Exec'
  BY DEF Exec
<1>2. Terminal = Queue!Ended /\ Prunable \in SUBSET Runs
  BY RowSets DEF Terminal, WithStatus, Queue!Ended
<1> HIDE DEF mapped
<1> USE <1>1, <1>2 DEF Queue!Next, Queue!queueVars
<1>3. CASE UNCHANGED <<status, Exec>>
  BY <1>3 DEF mapped
<1> QED
  BY <1>3 DEF mapped, Queue!Submit, Queue!Create, Queue!Take, Queue!Finish, Queue!Abandon, Queue!Requeue

\* Who executes a run, before and after a step that is no CLI process's.
LEMMA ExecIs ==
  ASSUME MixedInv, MixedInv', UNCHANGED cliVars, NEW r \in Runs
  PROVE  /\ Exec[r]  = Hands(r)  \cup CliHolders(r)
         /\ Exec'[r] = Hands(r)' \cup CliHolders(r)
         /\ CliHolders(r) # {} => status[r] = "running" /\ status'[r] = "running"
         /\ CliHolders(r) \cap Threads = {}
<1>1. \A c \in CliHolders(r) : status[r] = "running" /\ status'[r] = "running"
  BY DEF MixedInv, ClisInv, CliRowAgrees, CliHolders, CliHolds, cliVars
<1>2. CliHolders(r)' = CliHolders(r)
  BY DEF CliHolders, CliHolds, cliVars
<1> QED
  BY <1>1, <1>2, ControlPlaneAssumption DEF Exec, Holders, Hands, CliHolders

\* The threads' part decides what such a step does to the queue.
LEMMA ExecByHands ==
  ASSUME MixedInv, MixedInv', UNCHANGED cliVars,
         NEW S \in SUBSET Threads, \A r \in Runs : Hands(r)' = Hands(r) \ S
  PROVE  /\ Exec' = [r \in Runs |-> Exec[r] \ S]
         /\ S = {} => Exec' = Exec
<1>1. \A r \in Runs : Exec'[r] = Exec[r] \ S
  BY ExecIs
<1>2. Exec = [r \in Runs |-> Exec[r]] /\ Exec' = [r \in Runs |-> Exec'[r]]
  BY DEF Exec
<1>3. Exec' = [r \in Runs |-> Exec[r] \ S]
  BY <1>1, <1>2
<1>4. S = {} => \A r \in Runs : Exec[r] \ S = Exec[r]
  OBVIOUS
<1>5. S = {} => Exec' = Exec
  BY <1>2, <1>3, <1>4
<1> QED  BY <1>3, <1>5

\* Rows and holders as before: nothing happened to the queue.
LEMMA ExecUntouched ==
  ASSUME MixedInv, MixedInv', UNCHANGED cliVars, UNCHANGED <<status, held>>,
         \A t \in Threads : Holds(t)' = Holds(t)
  PROVE  [Queue!Next]_(Queue!queueVars)
<1>1. \A r \in Runs : Hands(r)' = Hands(r) \ {}
  BY DEF Hands, ThreadHolders
<1>2. Exec' = Exec
  BY <1>1, ExecByHands
<1> QED  BY <1>2, QueueSteps

LEMMA SubmitInQueue ==
  ASSUME MixedInv, MixedInv', Submit
  PROVE  [Queue!Next]_(Queue!queueVars)
<1>1. PICK r \in Runs : Submission(r) /\ UNCHANGED <<pc, held>> /\ UNCHANGED cliVars
  BY DEF Submit, poolVars
<1>2. CASE EnqueueRun(r)
  <2>1. status[r] = "none"
    BY <1>2 DEF EnqueueRun, MixedInv, ServedInv, DefinitionInv, StoreInv, SubmittingUnborn
  <2>2. \A x \in Prunable : status[x] \in {"completed", "failed"}
    BY DEF Prunable, Terminal, WithStatus
  <2>3. \A x \in Runs : status'[x] = "running" <=> status[x] = "running"
    BY <1>2, <2>1, <2>2 DEF EnqueueRun
  <2>4. \A x \in Runs : Hands(x)' = Hands(x) \ {}
    BY <1>1, <2>3 DEF Hands, ThreadHolders, Holds
  <2>5. Exec' = Exec
    BY <1>1, <2>4, ExecByHands
  <2>6. Prunable \subseteq Terminal
    BY DEF Prunable
  <2> QED  BY <1>2, <2>1, <2>5, <2>6, QueueSteps DEF EnqueueRun
<1>3. CASE UNCHANGED status
  BY <1>1, <1>3, ExecUntouched DEF Holds
<1> QED  BY <1>1, <1>2, <1>3 DEF Submission, MintRun, RefuseRun

LEMMA PoolStepInQueue ==
  ASSUME OrderlyStart, MixedInv, MixedInv', UNCHANGED cliVars, NEW s \in Servers,
         PoolStep(s) \/ StartFails(s) \/ RequestStop(s) \/ Crash(s)
  PROVE  [Queue!Next]_(Queue!queueVars)
<1>1. CASE RequeueAndSpawn(s)
  <2>1. \A t \in Threads : pc[t] = "off"
    BY <1>1, NobodyWhileStarting DEF MixedInv
  <2>2. \A r \in Runs : Hands(r) = {} /\ CliHolders(r) = {}
    BY <1>1, <2>1, StartFindsNobody DEF Hands, ThreadHolders, CliHolders, Holds
  <2>3. pc' \in [Threads -> {"off", "opening"}]
    BY <1>1, <2>1 DEF RequeueAndSpawn
  <2>4. \A r \in Runs : Hands(r)' = Hands(r) \ {}
    BY <2>2, <2>3 DEF Hands, ThreadHolders, Holds
  <2>5. Exec' = Exec
    BY <2>4, ExecByHands
  <2>6. Orphans \in SUBSET Runs /\ \A r \in Orphans : status[r] = "running" /\ Exec[r] = {}
    BY <2>2, ExecIs DEF Orphans, Running, WithStatus
  <2>7. status' = [r \in Runs |-> IF r \in Orphans THEN "pending" ELSE status[r]]
    BY <1>1 DEF RequeueAndSpawn, RequeueOrphans
  <2> QED  BY <2>5, <2>6, <2>7, QueueSteps
<1>2. CASE AcquireLock(s) \/ StopReturns(s) \/ StartFails(s) \/ RequestStop(s)
  <2>1. UNCHANGED <<status, pc, held>>
    BY <1>2 DEF AcquireLock, StopReturns, StartFails, RequestStop, storeVars
  <2> QED  BY <2>1, ExecUntouched DEF Holds
<1>3. CASE EndProcess(s)
  <2>1. ThreadsOf(s) \in SUBSET Threads /\ status' = status
    BY <1>3 DEF ThreadsOf, EndProcess, storeVars
  <2>2. \A t \in Threads : t \in ThreadsOf(s) => ~Holds(t)'
    BY <1>3 DEF EndProcess, Holds, ThreadsOf
  <2>3. \A t \in Threads : t \notin ThreadsOf(s) => pc'[t] = pc[t] /\ held'[t] = held[t]
    BY <1>3 DEF EndProcess, ThreadsOf
  <2>4. \A r \in Runs : Hands(r)' = Hands(r) \ ThreadsOf(s)
    BY <2>1, <2>2, <2>3 DEF Hands, ThreadHolders, Holds
  <2>5. Exec' = [r \in Runs |-> Exec[r] \ ThreadsOf(s)] /\ ThreadsOf(s) \in SUBSET (Threads \cup Clis)
    BY <2>1, <2>4, ExecByHands
  <2> QED  BY <2>1, <2>5, QueueSteps
<1> QED  BY <1>1, <1>2, <1>3 DEF PoolStep, Exit, Crash

\* The executor's last word on its run.
LEMMA FinishInQueue ==
  ASSUME MixedInv, MixedInv', UNCHANGED cliVars,
         NEW t \in Threads, NEW outcome \in {"completed", "failed"},
         pc[t] \in {"executing", "failing", "marking"}, MarkEnded(held[t], outcome),
         held'[t] \in {held[t], NoRun},
         \A u \in Threads \ {t} : pc'[u] = pc[u] /\ held'[u] = held[u]
  PROVE  [Queue!Next]_(Queue!queueVars)
<1> DEFINE r == held[t]
<1>1. Holds(t) /\ r \in Runs /\ status[r] = "running"
  BY DEF Holds, MixedInv, ServedInv, DefinitionInv, TypeOK, PoolTypeOK, ThreadInv, HeldRowAgrees
<1>2. status' = [status EXCEPT ![r] = outcome]
  BY <1>1 DEF MarkEnded, Rows, WithStatus
<1>3. \A x \in Runs : status'[x] = IF x = r THEN outcome ELSE status[x]
  BY <1>1, <1>2 DEF MixedInv, ServedInv, DefinitionInv, TypeOK, StoreTypeOK
<1>4. \A u \in Threads, x \in Runs \ {r} :
        Holds(u)' /\ held'[u] = x <=> Holds(u) /\ held[u] = x
  BY <1>1, RunStoreAssumption DEF Holds
<1>5. \A x \in Runs : Hands(x)' = IF x = r THEN {} ELSE Hands(x)
  BY <1>1, <1>3, <1>4 DEF Hands, ThreadHolders
<1>6. t \in Hands(r)
  BY <1>1 DEF Hands, ThreadHolders
<1>7. \A x \in Runs : Exec'[x] = IF x = r THEN {} ELSE Exec[x]
  <2>1. CliHolders(r) = {}
    BY <1>1, <1>3, ExecIs
  <2>2. \A x \in Runs : Exec[x] = Hands(x) \cup CliHolders(x) /\ Exec'[x] = Hands(x)' \cup CliHolders(x)
    BY ExecIs
  <2> HIDE DEF r
  <2> QED  BY <1>5, <2>1, <2>2
<1>8. Exec' = [Exec EXCEPT ![r] = {}] /\ Exec[r] # {}
  BY <1>1, <1>6, <1>7, ExecIs DEF Exec
<1> QED  BY <1>1, <1>2, <1>8, QueueSteps

LEMMA ThreadStepInQueue ==
  ASSUME MixedInv, MixedInv', UNCHANGED cliVars,
         NEW t \in Threads, ThreadStep(t) \/ ThreadFault(t)
  PROVE  [Queue!Next]_(Queue!queueVars)
<1>t. /\ pc \in [Threads -> ThreadStates] /\ held \in [Threads -> Runs \cup {NoRun}]
      /\ status \in [Runs -> Statuses]
  BY DEF MixedInv, ServedInv, DefinitionInv, TypeOK, PoolTypeOK, StoreTypeOK
<1>1. ASSUME NEW r \in Runs, Claim(t, r)
      PROVE  [Queue!Next]_(Queue!queueVars)
  <2>1. status[r] = "pending" /\ ~Holds(t) /\ status' = [status EXCEPT ![r] = "running"]
    BY <1>1 DEF Claim, ClaimRun, NextPending, Pending, WithStatus, Holds
  <2>2. /\ \A u \in Threads \ {t} : Holds(u)' = Holds(u) /\ held'[u] = held[u]
        /\ Holds(t)' /\ held'[t] = r
    BY <1>1, <1>t DEF Claim, Goto, Holds
  <2>3. \A u \in Threads : Holds(u) => held[u] # r
    BY <2>1 DEF MixedInv, ServedInv, ThreadInv, HeldRowAgrees, Holds
  <2>4. \A x \in Runs : status'[x] = IF x = r THEN "running" ELSE status[x]
    BY <2>1, <1>t
  <2>5. \A x \in Runs : Hands(x)' = IF x = r THEN {t} ELSE Hands(x)
    BY <2>1, <2>2, <2>3, <2>4 DEF Hands, ThreadHolders
  <2>6. \A x \in Runs : t \notin Exec[x] /\ Exec'[x] = IF x = r THEN {t} ELSE Exec[x]
    BY <2>1, <2>5, ExecIs DEF Hands, ThreadHolders
  <2>7. Exec' = [Exec EXCEPT ![r] = {t}]
    BY <2>6 DEF Exec
  <2> QED  BY <2>1, <2>6, <2>7, QueueSteps
<1>2. CASE OpenStore(t) \/ OpenStoreRaises(t) \/ CheckStopFlag(t) \/ QueueEmpty(t)
           \/ Begin(t) \/ BeginRefused(t) \/ RunRaises(t)
  <2>1. UNCHANGED <<status, held>> /\ \A u \in Threads : Holds(u)' = Holds(u)
    BY <1>2, <1>t DEF OpenStore, OpenStoreRaises, CheckStopFlag, QueueEmpty, Begin,
       BeginRefused, RunRaises, Goto, Holds, storeVars
  <2> QED  BY <2>1, ExecUntouched
<1>3. CASE BeginReplays(t)
  BY <1>3 DEF BeginReplays, MixedInv, ServedInv, ThreadInv, HeldRowAgrees
<1>4. CASE Complete(t) \/ MarkFailedInRun(t) \/ (pc[t] = "marking" /\ MarkFailedInWorker(t))
  BY <1>4, <1>t, FinishInQueue DEF Complete, MarkCompleted, MarkFailedInRun, MarkFailedInWorker,
     MarkFailed, Goto, LetGo
\* Giving up on a run, with its row running or ended.
<1>5. ASSUME pc[t] \in {"marking", "marked"}, LetGo(t), status' = status
      PROVE  [Queue!Next]_(Queue!queueVars)
  <2>1. /\ ~Holds(t)'
        /\ \A u \in Threads \ {t} : Holds(u)' = Holds(u) /\ held'[u] = held[u]
    BY <1>5, <1>t DEF LetGo, Goto, Holds
  <2>2. \A r \in Runs : Hands(r)' = Hands(r) \ {t}
    BY <1>5, <2>1 DEF Hands, ThreadHolders
  <2>3. Exec' = [r \in Runs |-> Exec[r] \ {t}] /\ {t} \in SUBSET (Threads \cup Clis)
    BY <2>2, ExecByHands
  <2> QED  BY <1>5, <2>3, QueueSteps
<1>6. CASE pc[t] = "marked" /\ MarkFailedInWorker(t)
  <2>1. status[held[t]] \in {"failed", "deleted"} /\ held[t] \in Runs
    BY <1>6 DEF MixedInv, ServedInv, DefinitionInv, TypeOK, PoolTypeOK, Holds, ThreadInv, HeldRowAgrees
  <2>2. status' = status
    BY <1>6, <1>t, <2>1 DEF MarkFailedInWorker, MarkFailed, MarkEnded, Rows, WithStatus
  <2> QED  BY <1>5, <1>6, <2>2 DEF MarkFailedInWorker
<1>7. CASE MarkFailedRaises(t)
  <2>1. CASE pc[t] = "failing"
    <3>1. UNCHANGED <<status, held>> /\ \A u \in Threads : Holds(u)' = Holds(u)
      BY <1>7, <1>t, <2>1 DEF MarkFailedRaises, Goto, Holds, storeVars
    <3> QED  BY <3>1, ExecUntouched
  <2>2. CASE pc[t] # "failing"
    BY <1>5, <1>7, <2>2 DEF MarkFailedRaises, storeVars
  <2> QED  BY <2>1, <2>2
<1> QED  BY <1>1, <1>2, <1>3, <1>4, <1>6, <1>7 DEF ThreadStep, ThreadFault, MarkFailedInWorker

\* Who executes a run, before and after a step of a CLI process.
LEMMA ExecIsOfClis ==
  ASSUME MixedInv, MixedInv', UNCHANGED poolVars, NEW r \in Runs
  PROVE  /\ Exec[r]  = Hands(r)  \cup CliHolders(r)
         /\ Exec'[r] = Hands(r)' \cup CliHolders(r)'
         /\ ThreadHolders(r)' = ThreadHolders(r)
         /\ CliHolders(r) # {} => status[r] = "running" /\ ThreadHolders(r) = {}
         /\ CliHolders(r) \cap Threads = {} /\ CliHolders(r)' \cap Threads = {}
<1>1. CliHolders(r) # {} => status[r] = "running" /\ ThreadHolders(r) = {}
  BY DEF MixedInv, ClisInv, CliRowAgrees, Apart, CliHolders, ThreadHolders
<1>2. \A c \in CliHolders(r)' : status'[r] = "running"
  BY DEF MixedInv, ClisInv, CliRowAgrees, CliHolders
<1>3. ThreadHolders(r)' = ThreadHolders(r)
  BY DEF ThreadHolders, Holds, poolVars
<1> QED
  BY <1>1, <1>2, <1>3, ControlPlaneAssumption DEF Exec, Holders, Hands, CliHolders

\* A CLI process's step in terms of who holds which run.
LEMMA ExecByClis ==
  ASSUME MixedInv, MixedInv', UNCHANGED poolVars, NEW S \in SUBSET Clis,
         \A r \in Runs : /\ status'[r] = "running" <=> status[r] = "running"
                         /\ CliHolders(r)' = CliHolders(r) \ S
  PROVE  /\ Exec' = [r \in Runs |-> Exec[r] \ S]
         /\ S = {} => Exec' = Exec
<1>1. ASSUME NEW r \in Runs PROVE Exec'[r] = Exec[r] \ S
  <2>1. Hands(r)' = Hands(r) /\ Hands(r) \ S = Hands(r)
    BY ExecIsOfClis, ControlPlaneAssumption DEF Hands, ThreadHolders
  <2> QED  BY <2>1, ExecIsOfClis
<1>2. Exec = [r \in Runs |-> Exec[r]] /\ Exec' = [r \in Runs |-> Exec'[r]]
  BY DEF Exec
<1>3. Exec' = [r \in Runs |-> Exec[r] \ S]
  BY <1>1, <1>2
<1>4. S = {} => \A r \in Runs : Exec[r] \ S = Exec[r]
  OBVIOUS
<1>5. S = {} => Exec' = Exec
  BY <1>2, <1>3, <1>4
<1> QED  BY <1>3, <1>5

\* A CLI process takes a run past the queue, new or failed, and ends it or leaves it.
LEMMA CliStepInQueue ==
  ASSUME OrderlyResume, MixedInv, MixedInv', UNCHANGED poolVars,
         NEW c \in Clis, CliStep(c) \/ CliDies(c)
  PROVE  [Queue!Next]_(Queue!queueVars)
<1>t. /\ status \in [Runs -> Statuses] /\ cpc \in [Clis -> CliStates]
      /\ crun \in [Clis -> Runs \cup {NoRun}]
      /\ \A d \in Clis : cpc[d] # "idle" => crun[d] \in Runs
      /\ \A d \in Clis : cpc[d] = "bound" => expected[d] \in {"created", "failed"}
  BY DEF MixedInv, ServedInv, DefinitionInv, TypeOK, StoreTypeOK, CliTypeOK
<1>1. ASSUME NEW r \in Runs, CliCreates(c, r)
      PROVE  [Queue!Next]_(Queue!queueVars)
  <2>1. status[r] = "none" /\ status' = [status EXCEPT ![r] = "created"]
    BY <1>1 DEF CliCreates, CreateRun
  <2>2. \A x \in Runs : /\ status'[x] = "running" <=> status[x] = "running"
                        /\ CliHolders(x)' = CliHolders(x) \ {}
    BY <1>1, <1>t, <2>1 DEF CliCreates, CliOpens, CliHolders, CliHolds
  <2>3. Exec' = Exec
    BY <2>2, ExecByClis
  <2> QED  BY <2>1, <2>3, QueueSteps
<1>2. CASE \/ (\E r \in Runs : CliResumes(c, r)) \/ CliAdmitted(c) \/ CliTurnedAway(c)
           \/ CliBinds(c) \/ CliLosesRace(c) \/ CliRaises(c)
  <2>1. status' = status
    BY <1>2 DEF CliResumes, CliAdmitted, CliTurnedAway, CliBinds, BindIdentity, CliLosesRace, CliRaises,
       storeVars
  <2>2. \A x \in Runs : CliHolders(x)' = CliHolders(x) \ {}
    BY <1>2, <1>t DEF CliResumes, CliAdmitted, CliTurnedAway, CliBinds, CliLosesRace, CliRaises,
       CliOpens, CliGoto, CliEnds, CliHolders, CliHolds
  <2>3. Exec' = Exec
    BY <2>1, <2>2, ExecByClis
  <2> QED  BY <2>1, <2>3, QueueSteps
<1>3. CASE CliAcquires(c)
  <2> DEFINE r == crun[c]
  <2>1. /\ r \in Runs /\ status[r] \in {"created", "failed"} /\ ~CliHolds(c) /\ CliHolds(c)'
        /\ status' = [status EXCEPT ![r] = "running"]
        /\ crun' = crun /\ \A d \in Clis \ {c} : CliHolds(d)' = CliHolds(d)
    BY <1>3, <1>t DEF CliAcquires, MarkRunning, CliGoto, CliHolds
  <2>2. ThreadHolders(r) = {}
    BY <2>1 DEF OrderlyResume
  <2>3. \A x \in Runs : CliHolders(x)' = IF x = r THEN CliHolders(x) \cup {c} ELSE CliHolders(x)
    BY <2>1 DEF CliHolders
  <2>4. CliHolders(r) = {}
    BY <2>1, ExecIsOfClis
  <2>5. \A x \in Runs : status'[x] = IF x = r THEN "running" ELSE status[x]
    BY <2>1, <1>t
  <2>6. \A x \in Runs : Hands(x)' = Hands(x) /\ Hands(r) = {}
    BY <2>2, <2>5, ExecIsOfClis DEF Hands
  <2>7. \A x \in Runs : c \notin CliHolders(x) /\ c \notin Hands(x)
    BY <2>1, ControlPlaneAssumption DEF CliHolders, Hands, ThreadHolders
  <2>8. \A x \in Runs : c \notin Exec[x] /\ Exec'[x] = IF x = r THEN {c} ELSE Exec[x]
    <3>1. \A x \in Runs : /\ Exec[x] = Hands(x) \cup CliHolders(x)
                          /\ Exec'[x] = Hands(x)' \cup CliHolders(x)'
      BY ExecIsOfClis
    <3> HIDE DEF r
    <3> QED  BY <2>3, <2>4, <2>6, <2>7, <3>1
  <2>9. Exec' = [Exec EXCEPT ![r] = {c}]
    BY <2>8 DEF Exec
  <2> QED  BY <2>1, <2>8, <2>9, QueueSteps
<1>4. ASSUME NEW outcome \in {"completed", "failed"}, CliHolds(c), MarkEnded(crun[c], outcome),
             CliEnds(c)
      PROVE  [Queue!Next]_(Queue!queueVars)
  <2> DEFINE r == crun[c]
  <2>1. r \in Runs /\ c \in CliHolders(r)
    BY <1>4, <1>t DEF CliHolds, CliHolders
  <2>2. status[r] = "running" /\ ThreadHolders(r) = {}
    BY <2>1, ExecIsOfClis
  <2>3. status' = [status EXCEPT ![r] = outcome]
    BY <1>4, <2>1, <2>2 DEF MarkEnded, Rows, WithStatus
  <2>4. \A x \in Runs : status'[x] = IF x = r THEN outcome ELSE status[x]
    BY <2>1, <2>3, <1>t
  <2>5. \A d \in Clis \ {c} : CliHolds(d)' = CliHolds(d) /\ crun'[d] = crun[d]
    BY <1>4, <1>t DEF CliEnds, CliHolds
  <2>6. ~CliHolds(c)'
    BY <1>4, <1>t DEF CliEnds, CliHolds
  <2>7. CliHolders(r) = {c}
    BY <2>1 DEF MixedInv, ClisInv, CliHoldsOnce, CliHolders
  <2>8. \A x \in Runs : CliHolders(x)' = IF x = r THEN {} ELSE CliHolders(x)
    BY <2>1, <2>5, <2>6, <2>7 DEF CliHolders
  <2>9. \A x \in Runs : Hands(x)' = Hands(x)
    BY <2>2, <2>4, ExecIsOfClis DEF Hands
  <2>10. \A x \in Runs : Exec'[x] = IF x = r THEN {} ELSE Exec[x]
    BY <2>2, <2>8, <2>9, ExecIsOfClis DEF Hands
  <2>11. Exec' = [Exec EXCEPT ![r] = {}] /\ Exec[r] # {}
    <3>1. c \in Exec[r]
      BY <2>1, ExecIsOfClis
    <3>2. Exec = [x \in Runs |-> Exec[x]] /\ Exec' = [x \in Runs |-> Exec'[x]]
      BY DEF Exec
    <3> HIDE DEF r
    <3> QED  BY <2>1, <2>10, <3>1, <3>2
  <2> QED  BY <2>1, <2>2, <2>3, <2>11, QueueSteps
<1>5. CASE CliDies(c)
  <2>1. status' = status /\ {c} \in SUBSET (Threads \cup Clis)
    BY <1>5 DEF CliDies, storeVars
  <2>2. \A x \in Runs : CliHolders(x)' = CliHolders(x) \ {c}
    BY <1>5, <1>t DEF CliDies, CliEnds, CliHolders, CliHolds
  <2>3. Exec' = [r \in Runs |-> Exec[r] \ {c}]
    BY <2>1, <2>2, ExecByClis
  <2> QED  BY <2>1, <2>3, QueueSteps
<1>6. CASE CliCompletes(c) \/ CliMarksFailed(c)
  BY <1>4, <1>6 DEF CliCompletes, CliMarksFailed, MarkCompleted, MarkFailed, CliHolds
<1> QED  BY <1>1, <1>2, <1>3, <1>5, <1>6 DEF CliStep

\* Servers and CLI processes, under the two rules, implement the abstract queue: for any
\* number of them and of runs, every claim, resume, restart, crash, store fault and
\* double mark is a step of the queue or changes nothing in it.
THEOREM OrderlyImplementsRunQueue ==
  ASSUME StopJoins
  PROVE  OrderlySpec => ImplementsRunQueue
<1>1. MixedInv /\ MixedInv' /\ [Next /\ Orderly]_vars => [Queue!Next]_(Queue!queueVars)
  <2> SUFFICES ASSUME MixedInv, MixedInv', [Next /\ Orderly]_vars
               PROVE  [Queue!Next]_(Queue!queueVars)
    OBVIOUS
  <2>1. CASE UNCHANGED vars
    BY <2>1, ExecUntouched DEF vars, storeVars, poolVars, cliVars, Holds
  <2>2. CASE Next /\ Orderly
    BY <2>2, SubmitInQueue, PoolStepInQueue, ThreadStepInQueue, CliStepInQueue
    DEF Orderly, Next, PoolRuns, ThreadRuns, CliRuns, Interruption, Fault
  <2> QED  BY <2>1, <2>2
<1> QED
  BY <1>1, QueueInit, MixedInvInit, MixedInvStep, PTL
  DEF OrderlySpec, Orderly, ImplementsRunQueue, Queue!Spec

\* A store that only worker pools serve needs no rules: it implements the queue as it is.
THEOREM ServedImplementsRunQueue ==
  ASSUME Served
  PROVE  Spec => ImplementsRunQueue
<1>1. [Next]_vars => [Next /\ OrderlyStart /\ OrderlyResume]_vars
  BY DEF Served, OrderlyStart, OrderlyResume
<1>2. Spec => OrderlySpec
  BY <1>1, PTL DEF Spec, OrderlySpec
<1> QED  BY <1>2, OrderlyImplementsRunQueue DEF Served
=============================================================================
