----------------------------- MODULE CliRunner -----------------------------
(***************************************************************************)
(* `threadlang ... --store` processes (src/threadlang/cli.py, _run) and    *)
(* the part of run_durable (src/threadlang/store.py) they go through:      *)
(* read the row, bind its identity, take the run with a compare-and-swap,  *)
(* execute, record the outcome.  A CLI process takes no worker lock.       *)
(***************************************************************************)
EXTENDS RunStore

CONSTANT Clis \* CLI processes that may run at the same time

VARIABLES cpc,      \* cpc[c]: where process c is
          crun,     \* crun[c]: the run it was given or created
          expected  \* expected[c]: the status it read before the compare-and-swap

cliVars == <<cpc, crun, expected>>

\* "opened": before get_run in run_durable; "checked": before
\* bind_run_identity; "bound": before mark_running.
CliStates == {"idle", "opened", "checked", "bound", "executing", "failing"}

CliTypeOK ==
  /\ cpc \in [Clis -> CliStates]
  /\ crun \in [Clis -> Runs \cup {NoRun}]
  /\ expected \in [Clis -> {"none", "created", "failed"}]
  /\ \A c \in Clis : cpc[c] # "idle" => crun[c] \in Runs
  /\ \A c \in Clis : cpc[c] \in {"checked", "bound"} => expected[c] # "none"

CliInit ==
  /\ cpc = [c \in Clis |-> "idle"]
  /\ crun = [c \in Clis |-> NoRun]
  /\ expected = [c \in Clis |-> "none"]

-----------------------------------------------------------------------------
CliGoto(c, place) == cpc' = [cpc EXCEPT ![c] = place] /\ UNCHANGED <<crun, expected>>

\* The process ends; what it wrote stays.
CliEnds(c) ==
  /\ cpc' = [cpc EXCEPT ![c] = "idle"]
  /\ crun' = [crun EXCEPT ![c] = NoRun]
  /\ expected' = [expected EXCEPT ![c] = "none"]

CliOpens(c, r) ==
  /\ cpc[c] = "idle"
  /\ cpc' = [cpc EXCEPT ![c] = "opened"]
  /\ crun' = [crun EXCEPT ![c] = r]
  /\ UNCHANGED expected

CliCreates(c, r) == CliOpens(c, r) /\ CreateRun(r)

CliResumes(c, r) == r \in Rows /\ CliOpens(c, r) /\ UNCHANGED storeVars

\* Mutant: any row may be resumed.
ResumableWhenever(r) == r \in Rows

\* A run without an identity that is not fresh cannot prove its program.
Resumable(r) == status[r] = "created" \/ (status[r] = "failed" /\ bound[r])

CliAdmitted(c) ==
  /\ cpc[c] = "opened" /\ Resumable(crun[c])
  /\ cpc' = [cpc EXCEPT ![c] = "checked"]
  /\ expected' = [expected EXCEPT ![c] = status[crun[c]]]
  /\ UNCHANGED <<crun, storeVars>>

\* Refused, or answered from the store when the run is completed; a changed
\* program or changed inputs are refused whatever the status.
CliTurnedAway(c) ==
  /\ cpc[c] = "opened"
  /\ CliEnds(c)
  /\ UNCHANGED storeVars

\* Mutant: no bind_run_identity before mark_running.
CliSkipsBinding(c) ==
  /\ cpc[c] = "checked"
  /\ CliGoto(c, "bound")
  /\ UNCHANGED storeVars

CliBinds(c) ==
  /\ cpc[c] = "checked"
  /\ BindIdentity(crun[c])
  /\ CliGoto(c, "bound")

CliAcquires(c) ==
  /\ cpc[c] = "bound"
  /\ MarkRunning(crun[c], expected[c])
  /\ CliGoto(c, "executing")

CliLosesRace(c) ==
  /\ cpc[c] = "bound" /\ status[crun[c]] # expected[c]
  /\ CliEnds(c)
  /\ UNCHANGED storeVars

CliCompletes(c) ==
  /\ cpc[c] = "executing"
  /\ MarkCompleted(crun[c])
  /\ CliEnds(c)

CliRaises(c) ==
  /\ cpc[c] = "executing"
  /\ CliGoto(c, "failing")
  /\ UNCHANGED storeVars

CliMarksFailed(c) ==
  /\ cpc[c] = "failing"
  /\ MarkFailed(crun[c])
  /\ CliEnds(c)

\* SIGKILL, power loss, Ctrl-C (not an Exception), or mark_failed raising.
CliDies(c) ==
  /\ cpc[c] # "idle"
  /\ CliEnds(c)
  /\ UNCHANGED storeVars

CliStep(c) ==
  \/ (\E r \in Runs : CliCreates(c, r) \/ CliResumes(c, r))
  \/ CliAdmitted(c) \/ CliTurnedAway(c) \/ CliBinds(c)
  \/ CliAcquires(c) \/ CliLosesRace(c)
  \/ CliCompletes(c) \/ CliRaises(c) \/ CliMarksFailed(c)
=============================================================================
