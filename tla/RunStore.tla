------------------------------ MODULE RunStore ------------------------------
(***************************************************************************)
(* The `runs` table of the SQLite store (src/threadlang/store.py) and the  *)
(* statements and transactions that change it.  Every operator below is    *)
(* one autocommitted statement or one BEGIN IMMEDIATE transaction, hence   *)
(* one atomic step; the callers (worker pools, CLI processes, submitters)  *)
(* decide when a step is taken.                                            *)
(*                                                                         *)
(* A row is abstracted to its status and to whether it carries a workflow  *)
(* definition (source text or canonical IR).  Timestamps are compared only *)
(* through ORDER BY, so each is kept as the set of runs it is later than.  *)
(***************************************************************************)
EXTENDS Naturals, FiniteSets

CONSTANTS Runs,        \* run ids (uuid4: never minted twice)
          Legacy,      \* rows an older release left `running` without a definition
          MaxPending,  \* max_pending: admission limit
          MaxRetained, \* max_retained: terminal rows kept at admission
          NoRun        \* "no run": not an id

ASSUME RunStoreAssumption ==
  /\ IsFiniteSet(Runs)
  /\ Legacy \subseteq Runs
  /\ MaxPending \in Nat \ {0}
  /\ MaxRetained \in Nat
  /\ NoRun \notin Runs

VARIABLES status,        \* the row's status; "none" before INSERT, "deleted" once pruned
          bound,         \* the row has source or definition_json
          submitting,    \* ids minted by an _enqueue_definition call still before BEGIN
          createdBefore, \* createdBefore[r]: runs whose created_at is earlier than r's
          endedBefore    \* endedBefore[r]: ended runs whose updated_at is earlier than r's

storeVars == <<status, bound, submitting, createdBefore, endedBefore>>

Statuses == {"none", "created", "pending", "running", "completed", "failed", "deleted"}

WithStatus(S) == {r \in Runs : status[r] \in S}
Rows     == Runs \ WithStatus({"none", "deleted"})
Pending  == WithStatus({"pending"})
Running  == WithStatus({"running"})
Terminal == WithStatus({"completed", "failed"})

StoreTypeOK ==
  /\ status \in [Runs -> Statuses]
  /\ bound \in [Runs -> BOOLEAN]
  /\ submitting \subseteq Runs
  /\ createdBefore \in [Runs -> SUBSET Runs]
  /\ endedBefore \in [Runs -> SUBSET Runs]

StoreInit ==
  /\ status = [r \in Runs |-> IF r \in Legacy THEN "running" ELSE "none"]
  /\ bound = [r \in Runs |-> FALSE]
  /\ submitting = {}
  /\ createdBefore = [r \in Runs |-> {}]
  /\ endedBefore = [r \in Runs |-> {}]

-----------------------------------------------------------------------------
(* Timestamp orders. *)

\* The order with the runs of S taken out of it.
Forget(order, S) == [x \in Runs |-> IF x \in S THEN {} ELSE order[x] \ S]

\* The order in which r has just been stamped, after the runs of S.
Latest(order, r, S) == [Forget(order, {r}) EXCEPT ![r] = S \ {r}]

-----------------------------------------------------------------------------
(* Submission: _enqueue_definition takes the id and the timestamp first and  *)
(* opens its transaction afterwards.                                         *)

\* Mutant: ids are the table's (MAX + 1, as for events and journal rows), and a pruned
\* run's may be given out again.
MintRunFromTable(r) ==
  /\ status[r] \in {"none", "deleted"} /\ r \notin submitting
  /\ submitting' = submitting \cup {r}
  /\ createdBefore' = Latest(createdBefore, r, Rows \cup submitting)
  /\ UNCHANGED <<status, bound, endedBefore>>

\* uuid4: an id that no run has or had.
MintRun(r) ==
  /\ status[r] = "none" /\ r \notin submitting
  /\ submitting' = submitting \cup {r}
  /\ createdBefore' = Latest(createdBefore, r, Rows \cup submitting)
  /\ UNCHANGED <<status, bound, endedBefore>>

\* Mutants: the OFFSET keeps one row more; every row that is not queued is cleaned up.
PrunableLate ==
  {r \in Terminal : Cardinality({s \in Terminal : r \in endedBefore[s]}) > MaxRetained}
PrunableActive ==
  {r \in Terminal \cup Running :
     Cardinality({s \in Terminal : r \in endedBefore[s]}) >= MaxRetained}

\* SELECT id ... WHERE status IN ('completed', 'failed')
\*   ORDER BY updated_at DESC LIMIT -1 OFFSET max_retained
Prunable ==
  {r \in Terminal : Cardinality({s \in Terminal : r \in endedBefore[s]}) >= MaxRetained}

\* Mutant: `pending > max_pending` in place of `>=`.
EnqueueRunLate(r) ==
  /\ r \in submitting
  /\ Cardinality(Pending) <= MaxPending
  /\ status' = [x \in Runs |-> IF x = r THEN "pending"
                               ELSE IF x \in Prunable THEN "deleted" ELSE status[x]]
  /\ bound' = [bound EXCEPT ![r] = TRUE]
  /\ submitting' = submitting \ {r}
  /\ createdBefore' = Forget(createdBefore, Prunable)
  /\ endedBefore' = Forget(endedBefore, Prunable)

EnqueueRun(r) ==
  /\ r \in submitting
  /\ Cardinality(Pending) < MaxPending
  /\ status' = [x \in Runs |-> IF x = r THEN "pending"
                               ELSE IF x \in Prunable THEN "deleted" ELSE status[x]]
  /\ bound' = [bound EXCEPT ![r] = TRUE]
  /\ submitting' = submitting \ {r}
  /\ createdBefore' = Forget(createdBefore, Prunable)
  /\ endedBefore' = Forget(endedBefore, Prunable)

\* RunStoreCapacityError: the transaction rolls back, the caller gets HTTP 429.
RefuseRun(r) ==
  /\ r \in submitting
  /\ Cardinality(Pending) >= MaxPending
  /\ submitting' = submitting \ {r}
  /\ UNCHANGED <<status, bound, createdBefore, endedBefore>>

\* create_run as the CLI calls it: no definition yet.
CreateRun(r) ==
  /\ status[r] = "none" /\ r \notin submitting
  /\ status' = [status EXCEPT ![r] = "created"]
  /\ createdBefore' = Latest(createdBefore, r, Rows \cup submitting)
  /\ UNCHANGED <<bound, submitting, endedBefore>>

-----------------------------------------------------------------------------
(* Ownership. *)

\* The row claim_next_pending selects: ORDER BY created_at, id LIMIT 1.
NextPending == {r \in Pending : createdBefore[r] \cap Pending = {}}

ClaimRun(r) ==
  /\ r \in NextPending
  /\ status' = [status EXCEPT ![r] = "running"]
  /\ UNCHANGED <<bound, submitting, createdBefore, endedBefore>>

\* Mutant: no `AND (source IS NOT NULL OR definition_json IS NOT NULL)`.
AllRunning == Running

Orphans == {r \in Running : bound[r]}

RequeueOrphans ==
  /\ status' = [r \in Runs |-> IF r \in Orphans THEN "pending" ELSE status[r]]
  /\ UNCHANGED <<bound, submitting, createdBefore, endedBefore>>

\* bind_run_identity: COALESCE keeps what is there; a deleted row is not updated.
BindIdentity(r) ==
  /\ bound' = [bound EXCEPT ![r] = bound[r] \/ r \in Rows]
  /\ UNCHANGED <<status, submitting, createdBefore, endedBefore>>

\* Mutant: no `AND status = ?`; there has to be a row all the same.
MarkRunningBlindly(r, expected) ==
  /\ r \in Rows
  /\ status' = [status EXCEPT ![r] = "running"]
  /\ endedBefore' = Forget(endedBefore, {r})
  /\ UNCHANGED <<bound, submitting, createdBefore>>

\* mark_running: the compare-and-swap succeeds only from the expected status.
MarkRunning(r, expected) ==
  /\ status[r] = expected
  /\ status' = [status EXCEPT ![r] = "running"]
  /\ endedBefore' = Forget(endedBefore, {r})
  /\ UNCHANGED <<bound, submitting, createdBefore>>

\* mark_completed and mark_failed: UPDATE ... WHERE id = ?, whatever the status.
MarkEnded(r, outcome) ==
  /\ IF r \in Rows
     THEN /\ status' = [status EXCEPT ![r] = outcome]
          /\ endedBefore' = Latest(endedBefore, r, Terminal)
     ELSE UNCHANGED <<status, endedBefore>>
  /\ UNCHANGED <<bound, submitting, createdBefore>>

MarkCompleted(r) == MarkEnded(r, "completed")
MarkFailed(r)    == MarkEnded(r, "failed")
=============================================================================
