------------------------------- MODULE BatchTask -------------------------------
(***************************************************************************)
(* The life of native batch tasks in the Overlord (ferrodruid-overlord,    *)
(* submit_task and what it spawns): the detached tail that executes and    *)
(* retries, the publish fence that shutdown_task and the dead tail's guard *)
(* wait on, the finalizer they share, the durable task row and its bounded *)
(* persist retry, and the reconciliation after a restart.                  *)
(*                                                                         *)
(* `running_tasks` and the batch_tails registry are always taken together  *)
(* and in that order, with no await under them: what happens under them is *)
(* one step.  Everything between two awaits of a tail is one step.  An     *)
(* aborted tail may still take steps until the abort lands.  Interval      *)
(* locks, and tasks that wait for one, are not part of this module.        *)
(***************************************************************************)
EXTENDS BatchPublish

CONSTANTS
    MaxShutdowns  \* bound: shutdown requests

ASSUME ShutdownAssumption == MaxShutdowns \in Nat

VARIABLES
    mem,          \* mem[t]: running_tasks, the status a client polls
    row,          \* row[t]: the durable druid_tasks row
    tails,        \* registry.tails: tasks with an abort handle
    fences,       \* registry.publish_fences: tasks with a fence
    flushes,      \* terminal rows still to be persisted
    tail,         \* tail[t]: where the tail is
    record,       \* record[t]: the tail's local TaskRecord state
    aborted,      \* tails whose abort has been requested
    finalizers,   \* finalizers[t]: those holding a clone of the fence
    orphans,      \* guards that dropped without a fence (D3 recovery)
    shutdowns,    \* shutdown requests so far (bound only)
    crashes       \* restarts so far (bound only)

statusVars == <<mem, row>>
registryVars == <<tails, fences, flushes>>
tailVars == <<tail, record, aborted>>
finalVars == <<finalizers, orphans>>
boundVars == <<shutdowns, crashes>>
vars == <<publishVars, statusVars, registryVars, tailVars, finalVars, boundVars>>

Terminal == {"SUCCESS", "FAILED"}
Status == {"absent", "RUNNING"} \cup Terminal

\* The types of the Overlord's tables, and who may hold the datasource publish
\* lock: it is taken by BeginSection and released only by the wrapper.
TypeOK ==
    /\ PublishTypeOK
    /\ mem \in [Task -> Status] /\ row \in [Task -> Status]
    /\ tails \subseteq Task /\ fences \subseteq Task /\ flushes \subseteq Task
    /\ tail \in [Task -> {"none", "run", "await", "persist", "store"}]
    /\ record \in [Task -> Status]
    /\ aborted \subseteq Task
    /\ finalizers \in [Task -> Nat]
    /\ orphans \subseteq Task
    /\ shutdowns \in 0 .. MaxShutdowns
    /\ crashes \in 0 .. MaxCrashes
    \* The publish lock is held by exactly the sections that have not returned.
    /\ \A t \in Task : holder = t <=> phase[t] \in Live \cup {"dropped"}
    /\ \A t \in Task : tail[t] = "await" => phase[t] # "idle"

Init ==
    /\ PublishInit
    /\ mem = [t \in Task |-> "absent"] /\ row = [t \in Task |-> "absent"]
    /\ tails = {} /\ fences = {} /\ flushes = {}
    /\ tail = [t \in Task |-> "none"]
    /\ record = [t \in Task |-> "absent"]
    /\ aborted = {}
    /\ finalizers = [t \in Task |-> 0]
    /\ orphans = {}
    /\ shutdowns = 0
    /\ crashes = 0

-------------------------------------------------------------------------------
(***************************************************************************)
(* submit_task: the RUNNING row is durable before the task and its tail    *)
(* become visible together.                                                *)
(***************************************************************************)
SubmitTask(t) ==
    /\ row[t] = "absent"
    /\ row' = [row EXCEPT ![t] = "RUNNING"]
    /\ mem' = [mem EXCEPT ![t] = "RUNNING"]
    /\ tails' = tails \cup {t}
    /\ tail' = [tail EXCEPT ![t] = "run"]
    /\ attempt' = [attempt EXCEPT ![t] = 1]
    /\ UNCHANGED <<storeVars, sectionVars, faults, fences, flushes, record, aborted,
                   finalVars, boundVars>>

\* RetryPolicy::can_retry
can_retry(t) == attempt[t] < MaxAttempts

\* run_with_retry after an error that may be retried.
RetryOrFail(t) ==
    IF can_retry(t)
    THEN /\ attempt' = [attempt EXCEPT ![t] = @ + 1]
         /\ tail' = [tail EXCEPT ![t] = "run"]
         /\ UNCHANGED record
    ELSE /\ tail' = [tail EXCEPT ![t] = "persist"]
         /\ record' = [record EXCEPT ![t] = "FAILED"]
         /\ UNCHANGED attempt

EndRun(t, state) ==
    /\ tail' = [tail EXCEPT ![t] = "persist"]
    /\ record' = [record EXCEPT ![t] = state]
    /\ UNCHANGED attempt

\* The attempt fails before it publishes: input, parsing, planning.
AttemptFails(t) ==
    /\ tail[t] = "run"
    /\ Fault
    /\ RetryOrFail(t)
    /\ UNCHANGED <<storeVars, sectionVars, statusVars, registryVars, aborted,
                   finalVars, boundVars>>

(***************************************************************************)
(* The fence is registered under the registry mutex, and only while the    *)
(* tail's own entry is there: a shutdown that found no fence has removed   *)
(* it, and the publication is then refused.                                *)
(***************************************************************************)
\* Mutant: the registry is not looked at again before publishing.
MayPublish_Always(t) == TRUE

MayPublish(t) == t \in tails

Publish(t) ==
    /\ tail[t] = "run" /\ MayPublish(t)
    /\ BeginSection(t)
    /\ fences' = fences \cup {t}
    /\ tail' = [tail EXCEPT ![t] = "await"]
    /\ UNCHANGED <<attempt, faults, statusVars, tails, flushes, record, aborted,
                   finalVars, boundVars>>

RefusePublish(t) ==
    /\ tail[t] = "run" /\ ~MayPublish(t) /\ holder = NoTask
    /\ EndRun(t, "FAILED")
    /\ UNCHANGED <<storeVars, sectionVars, faults, statusVars, registryVars, aborted,
                   finalVars, boundVars>>

\* The tail's await of the wrapper task returns.
TailResumes(t) ==
    /\ tail[t] = "await" /\ phase[t] = "done"
    /\ \/ outcome[t] = "committed" /\ EndRun(t, "SUCCESS")
       \/ outcome[t] = "stop" /\ EndRun(t, "FAILED")
       \/ outcome[t] = "retry" /\ RetryOrFail(t)
    /\ UNCHANGED <<storeVars, sectionVars, faults, statusVars, registryVars, aborted,
                   finalVars, boundVars>>

(***************************************************************************)
(* finalize_batch_terminal: the truth and the fence's retirement are one   *)
(* step; the durable row follows.                                          *)
(***************************************************************************)
FinalState(t, committed, executed) ==
    IF committed THEN "SUCCESS"
    ELSE IF mem[t] \in Terminal THEN mem[t] ELSE executed

\* Mutant: the fence stays registered.
finalize_KeepsFence(t, committed, executed) ==
    /\ mem' = [mem EXCEPT ![t] = IF @ = "absent" THEN @
                                 ELSE FinalState(t, committed, executed)]
    /\ UNCHANGED fences
    /\ flushes' = flushes \cup {t}

finalize_batch_terminal(t, committed, executed) ==
    /\ mem' = [mem EXCEPT ![t] = IF @ = "absent" THEN @
                                 ELSE FinalState(t, committed, executed)]
    /\ fences' = fences \ {t}
    /\ flushes' = flushes \cup {t}

\* run_batch_tail_body: persist_and_store writes the row first ...
PersistRow(t) ==
    /\ tail[t] = "persist"
    /\ row' = [row EXCEPT ![t] = record[t]]
    /\ tail' = [tail EXCEPT ![t] = "store"]
    /\ UNCHANGED <<publishVars, mem, registryVars, record, aborted, finalVars, boundVars>>

\* ... then the table; the fence goes, and the guard drops with nothing to do.
StoreRecord(t) ==
    /\ tail[t] = "store"
    /\ mem' = [mem EXCEPT ![t] = record[t]]
    /\ fences' = fences \ {t}
    /\ tails' = tails \ {t}
    /\ tail' = [tail EXCEPT ![t] = "none"]
    /\ UNCHANGED <<publishVars, row, flushes, record, aborted, finalVars, boundVars>>

\* The persist failed or timed out, before or after the row landed.
PersistFails(t) ==
    /\ tail[t] \in {"persist", "store"}
    /\ Fault
    /\ finalize_batch_terminal(t, record[t] = "SUCCESS", record[t])
    /\ tails' = tails \ {t}
    /\ tail' = [tail EXCEPT ![t] = "none"]
    /\ UNCHANGED <<storeVars, sectionVars, attempt, row, record, aborted, finalVars,
                   boundVars>>

\* Mutant: the fence is removed with the tail.
DropTailGuard_Fence(t) ==
    /\ tails' = tails \ {t}
    /\ fences' = fences \ {t}
    /\ IF t \in fences
       THEN finalizers' = [finalizers EXCEPT ![t] = @ + 1] /\ UNCHANGED orphans
       ELSE orphans' = orphans \cup {t} /\ UNCHANGED finalizers

(***************************************************************************)
(* BatchTailGuard::drop when the tail dies, by an abort or a panic: a      *)
(* recovery finalizer with the fence, or one without.                      *)
(***************************************************************************)
DropTailGuard(t) ==
    /\ tails' = tails \ {t}
    /\ UNCHANGED fences
    /\ IF t \in fences
       THEN finalizers' = [finalizers EXCEPT ![t] = @ + 1] /\ UNCHANGED orphans
       ELSE orphans' = orphans \cup {t} /\ UNCHANGED finalizers

TailDies(t) ==
    /\ tail[t] # "none"
    /\ \/ t \in aborted /\ UNCHANGED faults
       \/ Fault
    /\ tail' = [tail EXCEPT ![t] = "none"]
    /\ DropTailGuard(t)
    /\ UNCHANGED <<storeVars, sectionVars, attempt, statusVars, flushes, record,
                   aborted, boundVars>>

\* Mutant: a tail that died before it had a fence is forgotten.
RecoverOrphan_Forgets(t) ==
    /\ t \in orphans
    /\ orphans' = orphans \ {t}
    /\ UNCHANGED <<publishVars, mem, fences, flushes, row, tails, tailVars, finalizers,
                   boundVars>>

\* The guard's recovery without a fence (D3).
RecoverOrphan(t) ==
    /\ t \in orphans
    /\ orphans' = orphans \ {t}
    /\ IF mem[t] \in Terminal THEN UNCHANGED <<mem, fences, flushes>>
       ELSE finalize_batch_terminal(t, FALSE, "FAILED")
    /\ UNCHANGED <<publishVars, row, tails, tailVars, finalizers, boundVars>>

(***************************************************************************)
(* shutdown_task (and a manual FAILED), phase 1: reap the tail's entry and *)
(* look for a fence.  With one, a finalizer waits for the verdict; without *)
(* one the task is FAILED at once and persisted.  A terminal task is only  *)
(* persisted again.                                                        *)
(***************************************************************************)
ShutdownTask(t) ==
    /\ mem[t] # "absent" /\ shutdowns < MaxShutdowns
    /\ shutdowns' = shutdowns + 1
    /\ IF mem[t] \in Terminal
       THEN flushes' = flushes \cup {t}
            /\ UNCHANGED <<mem, tails, aborted, finalizers>>
       ELSE /\ tails' = tails \ {t}
            /\ aborted' = IF t \in tails THEN aborted \cup {t} ELSE aborted
            /\ IF t \in fences
               THEN finalizers' = [finalizers EXCEPT ![t] = @ + 1]
                    /\ UNCHANGED <<mem, flushes>>
               ELSE mem' = [mem EXCEPT ![t] = "FAILED"]
                    /\ flushes' = flushes \cup {t} /\ UNCHANGED finalizers
    /\ UNCHANGED <<publishVars, row, fences, tail, record, orphans, crashes>>

\* await_registered_fence_verdict: a verdict, or a fence closed without one.
FenceVerdict(t, committed) ==
    IF Resolved(t) THEN committed = (fence[t] = "Committed")
    ELSE phase[t] \in {"dropped", "done"} /\ ResolveVerdict(t, committed)

Finalize(t) ==
    /\ finalizers[t] > 0
    /\ \E committed \in BOOLEAN :
          /\ \/ FenceVerdict(t, committed) /\ UNCHANGED <<blind, faults>>
             \/ phase[t] \in {"dropped", "done"} /\ ResolveBlindly(t, committed)
          /\ finalize_batch_terminal(t, committed, "FAILED")
    /\ finalizers' = [finalizers EXCEPT ![t] = @ - 1]
    /\ UNCHANGED <<storeVars, holder, phase, victims, op, opOk, fence, outcome, attempt,
                   row, tails, tailVars, orphans, boundVars>>

\* persist_terminal_row / persist_existing: the row follows the table.
FlushRow(t) ==
    /\ t \in flushes
    /\ flushes' = flushes \ {t}
    /\ row' = [row EXCEPT ![t] = IF mem[t] = "absent" THEN @ ELSE mem[t]]
    /\ UNCHANGED <<publishVars, mem, tails, fences, tailVars, finalVars, boundVars>>

\* The bounded retry is exhausted: the row stays as it is.
FlushGivesUp(t) ==
    /\ t \in flushes
    /\ Fault
    /\ flushes' = flushes \ {t}
    /\ UNCHANGED <<storeVars, sectionVars, attempt, statusVars, tails, fences, tailVars,
                   finalVars, boundVars>>

\* Mutant: a segment that a later replace retired does not prove the commit.
reconcile_UsedOnly ==
    row' = [t \in Task |-> IF row[t] # "RUNNING" THEN row[t]
                           ELSE IF \E s \in used : s[1] = t THEN "SUCCESS"
                           ELSE "FAILED"]

(***************************************************************************)
(* A crash, and the bootstrap of the next process: stale RUNNING rows get  *)
(* their verdict from the durable segment rows, then the used segments are *)
(* loaded.                                                                 *)
(***************************************************************************)
reconcile_stale_running_batch_tasks ==
    row' = [t \in Task |-> IF row[t] # "RUNNING" THEN row[t]
                           ELSE IF durable_batch_commit_for_task(t) THEN "SUCCESS"
                           ELSE "FAILED"]

CrashRestart ==
    /\ crashes < MaxCrashes
    /\ crashes' = crashes + 1
    /\ CrashStores
    /\ reconcile_stale_running_batch_tasks
    /\ mem' = [t \in Task |-> "absent"]
    /\ tails' = {} /\ fences' = {} /\ flushes' = {}
    /\ tail' = [t \in Task |-> "none"]
    /\ record' = [t \in Task |-> "absent"]
    /\ aborted' = {}
    /\ finalizers' = [t \in Task |-> 0]
    /\ orphans' = {}
    /\ UNCHANGED <<attempt, shutdowns>>

Publication(t) ==
    SectionStep(t) /\ UNCHANGED <<statusVars, registryVars, tailVars, finalVars, boundVars>>

TailStep(t) ==
    \/ AttemptFails(t) \/ Publish(t) \/ RefusePublish(t) \/ TailResumes(t)
    \/ PersistRow(t) \/ StoreRecord(t) \/ PersistFails(t) \/ TailDies(t)

Next ==
    \/ \E t \in Task :
          \/ SubmitTask(t) \/ TailStep(t) \/ Publication(t)
          \/ ShutdownTask(t) \/ Finalize(t) \/ RecoverOrphan(t)
          \/ FlushRow(t) \/ FlushGivesUp(t)
    \/ CrashRestart

(***************************************************************************)
(* Every spawned task is polled, so each takes its next step.  The upload  *)
(* of a slow task may hang: only the deadline is certain there.  Faults,   *)
(* shutdowns, crashes and submissions are never owed.                      *)
(***************************************************************************)
SectionProgress(t) ==
    \/ t \notin Slow /\ Upload(t)
    \/ CommitLands(t) \/ RollbackLands(t)
    \/ SwapSegments(t) \/ CommitFailed(t) \/ RolledBack(t) \/ RollbackFailed(t)
    \/ Cleanup(t) \/ Deadline(t) \/ WrapperResolves(t)

TailProgress(t) ==
    Publish(t) \/ RefusePublish(t) \/ TailResumes(t) \/ PersistRow(t) \/ StoreRecord(t)

Fairness ==
    \A t \in Task :
       /\ WF_vars(SectionProgress(t) /\ UNCHANGED <<statusVars, registryVars, tailVars,
                                                    finalVars, boundVars>>)
       /\ WF_vars(TailProgress(t))
       /\ WF_vars(Finalize(t)) /\ WF_vars(RecoverOrphan(t)) /\ WF_vars(FlushRow(t))

Spec == Init /\ [][Next]_vars
FairSpec == Spec /\ Fairness

-------------------------------------------------------------------------------
\* What a client polls: the table, or after a restart the durable row.
Polled(t) == IF mem[t] = "absent" THEN row[t] ELSE mem[t]

MayStillCommit(t) == phase[t] = "upload" \/ op[t] = "commit"

(***************************************************************************)
(* A client that reads FAILED may resubmit an append: no durable row of    *)
(* the task exists and none can appear, in this process or after a         *)
(* restart.  Whatever shutdown, deadline, panic, failed persist or crash   *)
(* races the publication (the documented blind verdicts excepted).         *)
(***************************************************************************)
FailedAppendIsAbsent ==
    \A t \in AppendTask \ blind :
       "FAILED" \in {Polled(t), row[t]} =>
          ~durable_batch_commit_for_task(t) /\ ~MayStillCommit(t)

(***************************************************************************)
(* A client that reads SUCCESS never resubmits: the data is durable, under *)
(* a row that no rollback in flight will delete.                           *)
(***************************************************************************)
SuccessIsDurable ==
    \A t \in Task \ blind :
       "SUCCESS" \in {Polled(t), row[t]} =>
          durable_batch_commit_for_task(t) /\ op[t] # "rollback"

(***************************************************************************)
(* The retries of one append never leave two used rows: attempts after a   *)
(* retained row are suppressed, and earlier ones were rolled back.         *)
(***************************************************************************)
AppendedOnce ==
    \A t \in AppendTask : Cardinality({s \in used : s[1] = t}) <= 1

(***************************************************************************)
(* The registry's documented invariant: no fence found means the table     *)
(* already tells the truth, so a publication of a task without a fence is *)
(* neither under way nor has a store operation in flight (it may still be  *)
(* deleting its blob).                                                     *)
(***************************************************************************)
NoFenceNoPublication ==
    \A t \in Task \ blind :
       t \notin fences => phase[t] \notin Live \ {"cleanup"} /\ op[t] = "none"

(***************************************************************************)
(* A polled terminal status is final, across finalizers and restarts.      *)
(***************************************************************************)
VerdictIsFinal ==
    [][\A t \in AppendTask \ blind' :
          Polled(t) \in Terminal => Polled(t)' = Polled(t)]_vars

(***************************************************************************)
(* Every accepted task gets a terminal status although its tail may be     *)
(* aborted or panic, its upload hang and its persist fail.                 *)
(***************************************************************************)
TaskTerminates == \A t \in Task : mem[t] = "RUNNING" ~> mem[t] # "RUNNING"

\* Nothing leaks: an abort handle or a publish fence put in the registry is
\* removed again, whichever of the tail, a shutdown's finalizer or the guard's
\* recovery ends the task.
RegistryDrains ==
    \A t \in Task : t \in tails \cup fences ~> t \notin tails \cup fences

===============================================================================
