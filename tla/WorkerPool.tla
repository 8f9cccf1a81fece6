----------------------------- MODULE WorkerPool -----------------------------
(***************************************************************************)
(* The control plane's worker pools (src/threadlang/control.py).  A server *)
(* is a process that builds one WorkerPool: it takes the store's flock,    *)
(* requeues orphans, starts its threads, and on stop() joins them with a   *)
(* timeout before it lets the flock go.  A thread claims the oldest        *)
(* pending run and executes it through run_durable.                        *)
(***************************************************************************)
EXTENDS RunStore

CONSTANTS Servers,   \* server processes that may be started on the store
          Workers,   \* thread slots of one pool (n_workers)
          NoServer,  \* nobody holds the flock
          StopJoins  \* TRUE: no thread outlives stop()'s join timeout

ASSUME WorkerPoolAssumption ==
  /\ NoServer \notin Servers /\ IsFiniteSet(Workers)
  /\ StopJoins \in BOOLEAN

VARIABLES lock, \* holder of <store>.worker.lock
          pool, \* pool[s]: progress of s through start() and stop()
          pc,   \* pc[t]: where thread t is
          held  \* held[t]: the run thread t claimed

poolVars == <<lock, pool, pc, held>>

Threads == Servers \X Workers

\* "down": no process, or start() not called; "locked": flock held, threads not
\* started; "stopping": stop flag set; "released": stop() returned, process alive.
PoolStates == {"down", "locked", "up", "stopping", "released"}

\* "off": not started, or ended; "opening": opening its own RunStore; "top": at
\* `while not self._stop.is_set()`; "claim": about to claim; "claimed": before
\* run_durable's checks; "failing": at run_durable's mark_failed; "marking" and
\* "marked": at process_one's mark_failed, with nothing recorded yet or after
\* run_durable's.
ThreadStates ==
  {"off", "opening", "top", "claim", "claimed", "executing", "failing", "marking",
   "marked"}

Holds(t) == pc[t] \in {"claimed", "executing", "failing", "marking", "marked"}

PoolTypeOK ==
  /\ lock \in Servers \cup {NoServer}
  /\ pool \in [Servers -> PoolStates]
  /\ pc \in [Threads -> ThreadStates]
  /\ held \in [Threads -> Runs \cup {NoRun}]
  /\ \A t \in Threads : Holds(t) => held[t] \in Runs

PoolInit ==
  /\ lock = NoServer
  /\ pool = [s \in Servers |-> "down"]
  /\ pc = [t \in Threads |-> "off"]
  /\ held = [t \in Threads |-> NoRun]

ThreadsOf(s) == {t \in Threads : t[1] = s}

-----------------------------------------------------------------------------
(* The pool's life. *)

\* Mutant: no flock.
AcquireNothing(s) ==
  /\ pool[s] = "down"
  /\ lock' = s
  /\ pool' = [pool EXCEPT ![s] = "locked"]
  /\ UNCHANGED <<pc, held, storeVars>>

\* flock(LOCK_EX | LOCK_NB); a second pool's start() raises instead.
AcquireLock(s) ==
  /\ pool[s] = "down" /\ lock = NoServer
  /\ lock' = s
  /\ pool' = [pool EXCEPT ![s] = "locked"]
  /\ UNCHANGED <<pc, held, storeVars>>

\* Mutant: start() without requeue_orphans.
SpawnOnly(s) ==
  /\ pool[s] = "locked"
  /\ pool' = [pool EXCEPT ![s] = "up"]
  /\ pc' = [t \in Threads |-> IF t[1] = s THEN "opening" ELSE pc[t]]
  /\ UNCHANGED <<lock, held, storeVars>>

\* start() after the lock: requeue_orphans, then the threads.
RequeueAndSpawn(s) ==
  /\ pool[s] = "locked"
  /\ RequeueOrphans
  /\ pool' = [pool EXCEPT ![s] = "up"]
  /\ pc' = [t \in Threads |-> IF t[1] = s THEN "opening" ELSE pc[t]]
  /\ UNCHANGED <<lock, held>>

\* requeue_orphans raises: start() releases the lock and fails.
StartFails(s) ==
  /\ pool[s] = "locked"
  /\ lock' = NoServer
  /\ pool' = [pool EXCEPT ![s] = "down"]
  /\ UNCHANGED <<pc, held, storeVars>>

\* stop(): self._stop.set(); it is never cleared again.
RequestStop(s) ==
  /\ pool[s] = "up"
  /\ pool' = [pool EXCEPT ![s] = "stopping"]
  /\ UNCHANGED <<lock, pc, held, storeVars>>

\* The joins have returned, in time or not, and the lock is released.
StopReturns(s) ==
  /\ pool[s] = "stopping"
  /\ StopJoins => \A t \in ThreadsOf(s) : pc[t] = "off"
  /\ lock' = NoServer
  /\ pool' = [pool EXCEPT ![s] = "released"]
  /\ UNCHANGED <<pc, held, storeVars>>

\* The process goes, with its daemon threads and its flock.
EndProcess(s) ==
  /\ lock' = IF lock = s THEN NoServer ELSE lock
  /\ pool' = [pool EXCEPT ![s] = "down"]
  /\ pc' = [t \in Threads |-> IF t[1] = s THEN "off" ELSE pc[t]]
  /\ held' = [t \in Threads |-> IF t[1] = s THEN NoRun ELSE held[t]]
  /\ UNCHANGED storeVars

Exit(s)  == pool[s] = "released" /\ EndProcess(s)
Crash(s) == pool[s] # "down" /\ EndProcess(s)

-----------------------------------------------------------------------------
(* One thread: _loop around process_one around run_durable(claimed=True). *)

Goto(t, place) == pc' = [pc EXCEPT ![t] = place]

\* The first thing _loop does, outside the try of its iterations.
OpenStore(t) ==
  /\ pc[t] = "opening"
  /\ Goto(t, "top")
  /\ UNCHANGED <<lock, pool, held, storeVars>>

\* RunStore(...) raises: the thread ends for good, and its pool goes on without it.
OpenStoreRaises(t) ==
  /\ pc[t] = "opening"
  /\ Goto(t, "off")
  /\ UNCHANGED <<lock, pool, held, storeVars>>

CheckStopFlag(t) ==
  /\ pc[t] = "top"
  /\ Goto(t, IF pool[t[1]] = "up" THEN "claim" ELSE "off")
  /\ UNCHANGED <<lock, pool, held, storeVars>>

Claim(t, r) ==
  /\ pc[t] = "claim"
  /\ ClaimRun(r)
  /\ Goto(t, "claimed")
  /\ held' = [held EXCEPT ![t] = r]
  /\ UNCHANGED <<lock, pool>>

QueueEmpty(t) ==
  /\ pc[t] = "claim" /\ Pending = {}
  /\ Goto(t, "top")
  /\ UNCHANGED <<lock, pool, held, storeVars>>

\* run_durable reads the row again and runs it only if it is still `running`.
Begin(t) ==
  /\ pc[t] = "claimed" /\ status[held[t]] = "running"
  /\ Goto(t, "executing")
  /\ UNCHANGED <<lock, pool, held, storeVars>>

\* Unusable definition or undurable tool (found before the status is looked at),
\* or the run is no longer running.
BeginRefused(t) ==
  /\ pc[t] = "claimed"
  /\ Goto(t, "marking")
  /\ UNCHANGED <<lock, pool, held, storeVars>>

\* The thread lets its run go and loops.
LetGo(t) ==
  /\ Goto(t, "top")
  /\ held' = [held EXCEPT ![t] = NoRun]
  /\ UNCHANGED <<lock, pool>>

\* A completed run is answered from the store.
BeginReplays(t) ==
  /\ pc[t] = "claimed" /\ status[held[t]] = "completed"
  /\ LetGo(t)
  /\ UNCHANGED storeVars

\* Mutant: something after mark_completed, still inside the try, raises.
CompleteThenRaise(t) ==
  /\ pc[t] = "executing"
  /\ MarkCompleted(held[t])
  /\ Goto(t, "failing")
  /\ UNCHANGED <<lock, pool, held>>

Complete(t) ==
  /\ pc[t] = "executing"
  /\ MarkCompleted(held[t])
  /\ LetGo(t)

\* run_program or mark_completed raises.
RunRaises(t) ==
  /\ pc[t] = "executing"
  /\ Goto(t, "failing")
  /\ UNCHANGED <<lock, pool, held, storeVars>>

\* Mutant: the run id is gone when process_one wants to mark it.
MarkFailedAndForget(t) ==
  /\ pc[t] = "failing"
  /\ MarkFailed(held[t])
  /\ Goto(t, "marked")
  /\ held' = [held EXCEPT ![t] = NoRun]
  /\ UNCHANGED <<lock, pool>>

MarkFailedInRun(t) ==
  /\ pc[t] = "failing"
  /\ MarkFailed(held[t])
  /\ Goto(t, "marked")
  /\ UNCHANGED <<lock, pool, held>>

\* process_one marks the run failed a second time.
MarkFailedInWorker(t) ==
  /\ pc[t] \in {"marking", "marked"}
  /\ MarkFailed(held[t])
  /\ LetGo(t)

\* A mark_failed that raises: process_one still tries its own; when that one
\* raises too, _loop swallows the error and the thread goes on.
MarkFailedRaises(t) ==
  /\ \/ pc[t] = "failing" /\ Goto(t, "marking") /\ UNCHANGED <<lock, pool, held>>
     \/ pc[t] \in {"marking", "marked"} /\ LetGo(t)
  /\ UNCHANGED storeVars

\* A store call of a thread that raises outside run_durable's try.
ThreadFault(t) == MarkFailedRaises(t) \/ OpenStoreRaises(t)

PoolStep(s) == AcquireLock(s) \/ RequeueAndSpawn(s) \/ StopReturns(s) \/ Exit(s)

ThreadStep(t) ==
  \/ OpenStore(t) \/ CheckStopFlag(t) \/ (\E r \in Runs : Claim(t, r)) \/ QueueEmpty(t)
  \/ Begin(t) \/ BeginRefused(t) \/ BeginReplays(t)
  \/ Complete(t) \/ RunRaises(t) \/ MarkFailedInRun(t) \/ MarkFailedInWorker(t)
=============================================================================
