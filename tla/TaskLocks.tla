------------------------------- MODULE TaskLocks -------------------------------
(***************************************************************************)
(* The interval locks of batch tasks (ferrodruid-overlord): submit_task    *)
(* acquires one before the task exists, a blocked submission becomes a     *)
(* WAITING task owned by a live waiter, a higher priority preempts, and    *)
(* every way a task can end has to give its lock back: its own exit, a     *)
(* shutdown, the guards dropped by a cancelled request or an aborted task, *)
(* and the reap of a restart.                                              *)
(*                                                                         *)
(* All tasks write one datasource: locks of two datasources never meet.    *)
(* What lies between two awaits is one step; an aborted task may go on     *)
(* until the abort lands.  The execution and the shielded publication are  *)
(* BatchTask's and only their beginning and end are here; SUCCESS and      *)
(* FAILED are both ENDED.                                                  *)
(***************************************************************************)
EXTENDS Naturals, FiniteSets

CONSTANTS
    Task,
    NoTask,
    Interval,       \* Interval[t]: the half-open interval its spec locks
    Priority,       \* Priority[t]: the priority of its spec
    MaxIncidents    \* bound: cancellations, shutdowns, store errors, restarts

ASSUME LocksAssumption ==
    /\ NoTask \notin Task
    /\ Interval \in [Task -> [start : Nat, end : Nat]]
    /\ \A t \in Task : Interval[t].start < Interval[t].end
    /\ Priority \in [Task -> Nat]
    /\ MaxIncidents \in Nat

VARIABLES
    held,         \* druid_tasklocks: tasks with a lock that is not revoked
    revoked,      \* druid_tasklocks: tasks with a revoked lock
    registered,   \* the datasource is in the durable lock registry
    row,          \* row[t]: the durable druid_tasks row
    late,         \* lock inserts of dropped futures that may still land
    booted,       \* bootstrap is over, requests are served
    gate,         \* task_lock_reconcile_gate: an acquisition has begun
    mutex,        \* lock_acquire_locks of the datasource
    mem,          \* mem[t]: running_tasks
    stage,        \* stage[t]: the await where t's future is
    waiter,       \* tasks whose future is run_lock_waiter
    plan,         \* plan[t]: locks an acquisition has still to revoke
    armed,        \* tasks whose SubmitLockGuard is armed
    tails,        \* registry.tails: tasks with an abort handle
    fences,       \* registry.publish_fences
    publishing,   \* tasks whose shielded publication is in flight
    aborted,      \* tasks whose abort was requested
    jobs,         \* detached clean-ups that have still to run
    incidents,    \* incidents so far (bound only)
    leaked        \* history: locks whose release is known to be lost

storeVars == <<held, revoked, registered, row, late>>
taskVars == <<mem, stage, waiter, plan, armed>>
tailVars == <<tails, fences, publishing, aborted>>
vars == <<storeVars, booted, gate, mutex, taskVars, tailVars, jobs, incidents, leaked>>

Open == {"WAITING", "RUNNING"}

\* Stages inside try_acquire_lock, and those that also hold its mutex.
Acquiring == {"lock", "revoke", "insert", "stamp"}
Critical == {"revoke", "insert", "stamp"}

\* Stages from the grant to the task's own release.
Working == {"row", "flip", "flipmem", "run", "await"}

Init ==
    /\ held = {} /\ revoked = {} /\ registered = FALSE /\ late = {}
    /\ row = [t \in Task |-> "absent"]
    /\ booted = FALSE /\ gate = FALSE /\ mutex = NoTask
    /\ mem = [t \in Task |-> "absent"]
    /\ stage = [t \in Task |-> "idle"]
    /\ waiter = {} /\ plan = [t \in Task |-> {}] /\ armed = {}
    /\ tails = {} /\ fences = {} /\ publishing = {} /\ aborted = {}
    /\ jobs = {} /\ incidents = 0 /\ leaked = {}

Incident == incidents < MaxIncidents /\ incidents' = incidents + 1

Goto(t, s) == stage' = [stage EXCEPT ![t] = s]

(***************************************************************************)
(* The decision.                                                           *)
(***************************************************************************)
overlaps(a, b) == a.start < b.end /\ b.start < a.end

\* TaskLock::conflicts_with; a spec's lock is always EXCLUSIVE.
Conflicting(t) == {u \in held \ {t} : overlaps(Interval[t], Interval[u])}

Blocked(t) == \E u \in Conflicting(t) : Priority[u] >= Priority[t]

(***************************************************************************)
(* try_acquire_lock, for a submission or for a waiter.                     *)
(***************************************************************************)
\* Mutant: the read, the decision and the insert are not serialized.
AcquireFree_Always == TRUE

AcquireFree == mutex = NoTask

Submit(t) ==
    /\ booted /\ stage[t] = "idle"
    /\ Goto(t, "lock")
    /\ gate' = TRUE
    /\ UNCHANGED <<storeVars, booted, mutex, mem, waiter, plan, armed, tailVars,
                   jobs, incidents, leaked>>

Granting(t) ==
    /\ stage[t] = "lock" /\ AcquireFree /\ ~Blocked(t)
    /\ mutex' = t
    /\ plan' = [plan EXCEPT ![t] = Conflicting(t)]
    /\ Goto(t, "revoke")
    /\ UNCHANGED <<storeVars, booted, gate, mem, waiter, armed, tailVars,
                   jobs, incidents, leaked>>

\* Ok(false): the submission queues as WAITING, a waiter sleeps.
Refused(t) ==
    /\ stage[t] = "lock" /\ AcquireFree /\ Blocked(t)
    /\ Goto(t, IF t \in waiter THEN "sleep" ELSE "wrow")
    /\ UNCHANGED <<storeVars, booted, gate, mutex, mem, waiter, plan, armed, tailVars,
                   jobs, incidents, leaked>>

RevokeLock(t) ==
    /\ stage[t] = "revoke"
    /\ IF plan[t] = {}
       THEN Goto(t, "insert") /\ UNCHANGED <<held, revoked, plan>>
       ELSE \E u \in plan[t] :
              /\ held' = held \ {u}
              /\ revoked' = revoked \cup ({u} \cap held)
              /\ plan' = [plan EXCEPT ![t] = @ \ {u}]
              /\ UNCHANGED stage
    /\ UNCHANGED <<registered, row, late, booted, gate, mutex, mem, waiter, armed, tailVars,
                   jobs, incidents, leaked>>

InsertLock(t) ==
    /\ stage[t] = "insert"
    /\ held' = held \cup {t}
    /\ Goto(t, "stamp")
    /\ UNCHANGED <<revoked, registered, row, late, booted, gate, mutex, mem, waiter, plan,
                   armed, tailVars, jobs, incidents, leaked>>

\* Mutant: the waiter does not arm a guard for the lock it was granted.
ArmGuard_SubmitOnly(t) == armed' = IF t \in waiter THEN armed ELSE armed \cup {t}

ArmGuard(t) == armed' = armed \cup {t}

\* The registry stamp is best effort; then the grant returns and the guard is
\* armed without an await in between.
StampRegistry(t, ok) ==
    /\ stage[t] = "stamp"
    /\ IF ok THEN UNCHANGED incidents ELSE Incident
    /\ registered' = (registered \/ ok)
    /\ mutex' = NoTask
    /\ ArmGuard(t)
    /\ Goto(t, IF t \in waiter THEN "flip" ELSE "row")
    /\ UNCHANGED <<held, revoked, row, late, booted, gate, mem, waiter, plan, tailVars,
                   jobs, leaked>>

\* Mutant: the acquisition mutex is not released on an error or a drop.
Unlocked_Kept(t) == mutex

Unlocked(t) == IF mutex = t THEN NoTask ELSE mutex

\* A store error inside the acquisition; a failed insert may have landed.  A
\* submission returns it and nobody is left to release what landed.
AcquireFails(t, landed) ==
    /\ stage[t] \in {"lock", "revoke", "insert"}
    /\ stage[t] = "lock" => AcquireFree
    /\ landed => stage[t] = "insert"
    /\ Incident
    /\ held' = IF landed THEN held \cup {t} ELSE held
    /\ leaked' = IF landed /\ t \notin waiter THEN leaked \cup {t} ELSE leaked
    /\ mutex' = Unlocked(t)
    /\ plan' = [plan EXCEPT ![t] = {}]
    /\ Goto(t, IF t \in waiter THEN "sleep" ELSE "dead")
    /\ UNCHANGED <<revoked, registered, row, late, booted, gate, mem, waiter, armed, tailVars,
                   jobs>>

(***************************************************************************)
(* The rest of submit_task and spawn_lock_waiter: the row, then the record *)
(* and the spawned task together.                                          *)
(***************************************************************************)
PersistRow(t) ==
    /\ stage[t] \in {"row", "wrow"}
    /\ LET status == IF stage[t] = "row" THEN "RUNNING" ELSE "WAITING"
       IN  row' = [row EXCEPT ![t] = status] /\ mem' = [mem EXCEPT ![t] = status]
    /\ tails' = tails \cup {t}
    /\ waiter' = IF stage[t] = "wrow" THEN waiter \cup {t} ELSE waiter
    /\ Goto(t, IF stage[t] = "row" THEN "run" ELSE "lock")
    /\ UNCHANGED <<held, revoked, registered, late, booted, gate, mutex, plan, armed,
                   fences, publishing, aborted, jobs, incidents, leaked>>

\* The drop of SubmitLockGuard.
GuardJobs(t) == IF t \in armed THEN {<<"release", t>>} ELSE {}

\* The store refused the row: the guard goes with the error.
PersistRowFails(t) ==
    /\ stage[t] \in {"row", "wrow"}
    /\ Incident
    /\ jobs' = jobs \cup GuardJobs(t)
    /\ armed' = armed \ {t}
    /\ Goto(t, "dead")
    /\ UNCHANGED <<storeVars, booted, gate, mutex, mem, waiter, plan, tailVars, leaked>>

(***************************************************************************)
(* A future is dropped at its await.  A lock insert under way lands now,   *)
(* later or never.                                                         *)
(***************************************************************************)
\* The windows in which a lock row has nobody to release it: the grant has not
\* returned, so no guard is armed, and no shutdown has its scan ahead.
Unguarded(t) ==
    /\ stage[t] \in Acquiring \cup {"sleep", "final", "close"}
    /\ \A kind \in {"close", "verdict"} : <<kind, t>> \notin jobs

DropFuture(t, fate) ==
    /\ fate # "never" => stage[t] = "insert"
    /\ held' = IF fate = "now" THEN held \cup {t} ELSE held
    /\ late' = IF fate = "later" THEN late \cup {t} ELSE late
    /\ leaked' = IF fate = "later" \/ (Unguarded(t) /\ t \in held' \cup revoked)
                 THEN leaked \cup {t} ELSE leaked
    /\ mutex' = Unlocked(t)
    /\ plan' = [plan EXCEPT ![t] = {}]
    /\ armed' = armed \ {t}
    /\ Goto(t, "dead")

Fate == {"now", "later", "never"}

\* The client of a submission disconnects.  SubmitRowGuard waits for the row's
\* insert, which cannot be cancelled, and makes the row FAILED.
Cancel(t, fate) ==
    /\ t \notin waiter /\ stage[t] \in Acquiring \cup {"row", "wrow"}
    /\ Incident
    /\ DropFuture(t, fate)
    /\ jobs' = jobs \cup GuardJobs(t)
                 \cup (IF stage[t] \in {"row", "wrow"} THEN {<<"fail", t>>} ELSE {})
    /\ UNCHANGED <<revoked, registered, row, booted, gate, mem, waiter, tailVars>>

LateLock(t) ==
    /\ t \in late
    /\ held' = held \cup {t} /\ late' = late \ {t}
    /\ UNCHANGED <<revoked, registered, row, booted, gate, mutex, taskVars, tailVars,
                   jobs, incidents, leaked>>

(***************************************************************************)
(* run_lock_waiter around the acquisition, and the tail it becomes.        *)
(***************************************************************************)
RetryLock(t) ==
    /\ stage[t] = "sleep"
    /\ Goto(t, "lock")
    /\ UNCHANGED <<storeVars, booted, gate, mutex, mem, waiter, plan, armed, tailVars,
                   jobs, incidents, leaked>>

\* Mutant: a waiter has no deadline.
Expire_Never(t) == FALSE

\* The lock-wait deadline: finalize_batch_terminal.
Expire(t) ==
    /\ stage[t] = "sleep"
    /\ Goto(t, "final")
    /\ UNCHANGED <<storeVars, booted, gate, mutex, mem, waiter, plan, armed, tailVars,
                   jobs, incidents, leaked>>

\* persist_and_store of the RUNNING record, row first; it may fail or time out.
FlipRow(t) ==
    /\ stage[t] = "flip"
    /\ row' = [row EXCEPT ![t] = "RUNNING"]
    /\ Goto(t, "flipmem")
    /\ UNCHANGED <<held, revoked, registered, late, booted, gate, mutex, mem, waiter, plan,
                   armed, tailVars, jobs, incidents, leaked>>

FlipMem(t) ==
    /\ stage[t] = "flipmem"
    /\ mem' = [mem EXCEPT ![t] = "RUNNING"]
    /\ Goto(t, "run")
    /\ UNCHANGED <<storeVars, booted, gate, mutex, waiter, plan, armed, tailVars,
                   jobs, incidents, leaked>>

FlipFails(t, landed) ==
    /\ stage[t] = "flip"
    /\ Incident
    /\ row' = IF landed THEN [row EXCEPT ![t] = "RUNNING"] ELSE row
    /\ Goto(t, "final")
    /\ UNCHANGED <<held, revoked, registered, late, booted, gate, mutex, mem, waiter, plan,
                   armed, tailVars, jobs, leaked>>

\* The attempt publishes if its registry entry is there, and is refused if not.
Publish(t) ==
    /\ stage[t] = "run" /\ t \in tails
    /\ fences' = fences \cup {t}
    /\ publishing' = publishing \cup {t}
    /\ Goto(t, "await")
    /\ UNCHANGED <<storeVars, booted, gate, mutex, mem, waiter, plan, armed, tails, aborted,
                   jobs, incidents, leaked>>

\* The attempt ends without a publication.
RunEnds(t) ==
    /\ stage[t] = "run"
    /\ Goto(t, "release")
    /\ UNCHANGED <<storeVars, booted, gate, mutex, mem, waiter, plan, armed, tailVars,
                   jobs, incidents, leaked>>

\* Mutant: a publication that hangs has no deadline.
PublishEnds_Never(t) == FALSE

PublishEnds(t) ==
    /\ t \in publishing
    /\ publishing' = publishing \ {t}
    /\ UNCHANGED <<storeVars, booted, gate, mutex, taskVars, tails, fences, aborted,
                   jobs, incidents, leaked>>

\* The tail sees the end of its publication; a failed attempt may be retried.
AwaitEnds(t, retry) ==
    /\ stage[t] = "await" /\ t \notin publishing
    /\ IF retry THEN Incident ELSE UNCHANGED incidents
    /\ Goto(t, IF retry THEN "run" ELSE "release")
    /\ UNCHANGED <<storeVars, booted, gate, mutex, mem, waiter, plan, armed, tailVars,
                   jobs, leaked>>

(***************************************************************************)
(* Ends.  release_task_locks deletes by task; an error is only logged.     *)
(***************************************************************************)
release_task_locks(t, ok) ==
    IF ok
    THEN /\ held' = held \ {t} /\ revoked' = revoked \ {t}
         /\ UNCHANGED <<leaked, incidents>>
    ELSE /\ t \in held \cup revoked /\ Incident
         /\ leaked' = leaked \cup {t}
         /\ UNCHANGED <<held, revoked>>

Ended(t) == mem' = IF mem[t] \in Open THEN [mem EXCEPT ![t] = "ENDED"] ELSE mem

\* run_with_retry's terminal arms.
TailReleases(t, ok) ==
    /\ stage[t] = "release"
    /\ release_task_locks(t, ok)
    /\ Goto(t, "persist")
    /\ UNCHANGED <<registered, row, late, booted, gate, mutex, mem, waiter, plan, armed,
                   tailVars, jobs>>

\* The future returns: its guard is disarmed and BatchTailGuard deregisters it.
Return(t) ==
    /\ Goto(t, "done")
    /\ armed' = armed \ {t}
    /\ tails' = tails \ {t}

\* The terminal persist, row and record; its failure goes to the finalizer.
TailPersists(t) ==
    /\ stage[t] = "persist"
    /\ row' = [row EXCEPT ![t] = "ENDED"]
    /\ mem' = [mem EXCEPT ![t] = "ENDED"]
    /\ fences' = fences \ {t}
    /\ Return(t)
    /\ UNCHANGED <<held, revoked, registered, late, booted, gate, mutex, waiter, plan,
                   publishing, aborted, jobs, incidents, leaked>>

TailPersistFails(t) ==
    /\ stage[t] = "persist"
    /\ Incident
    /\ Goto(t, "final")
    /\ UNCHANGED <<storeVars, booted, gate, mutex, mem, waiter, plan, armed, tailVars,
                   jobs, leaked>>

\* finalize_batch_terminal from the task's own future: record and fence in one
\* step, then the locks, then the row.
Finalize(t) ==
    /\ stage[t] = "final"
    /\ Ended(t)
    /\ fences' = fences \ {t}
    /\ Goto(t, "close")
    /\ UNCHANGED <<storeVars, booted, gate, mutex, waiter, plan, armed, tails, publishing,
                   aborted, jobs, incidents, leaked>>

Close(t, ok) ==
    /\ stage[t] = "close"
    /\ release_task_locks(t, ok)
    /\ row' = [row EXCEPT ![t] = "ENDED"]
    /\ Return(t)
    /\ UNCHANGED <<registered, late, booted, gate, mutex, mem, waiter, plan, fences,
                   publishing, aborted, jobs>>

(***************************************************************************)
(* abort_tail_and_finalize, the abort, and the detached clean-ups.         *)
(***************************************************************************)
ShutdownTask(t) ==
    /\ mem[t] # "absent"
    /\ Incident
    /\ IF t \in fences THEN UNCHANGED mem ELSE Ended(t)
    /\ IF mem[t] \in Open
       THEN tails' = tails \ {t} /\ aborted' = aborted \cup {t}
       ELSE UNCHANGED <<tails, aborted>>
    /\ jobs' = jobs \cup {<<IF mem[t] \in Open /\ t \in fences THEN "verdict" ELSE "close", t>>}
    /\ UNCHANGED <<storeVars, booted, gate, mutex, stage, waiter, plan, armed, fences,
                   publishing, leaked>>

\* The future is dropped, with SubmitLockGuard and BatchTailGuard.
AbortLands(t, fate) ==
    /\ t \in aborted /\ stage[t] \notin {"done", "dead"}
    /\ DropFuture(t, fate)
    /\ tails' = tails \ {t}
    /\ jobs' = jobs \cup GuardJobs(t)
                 \cup {<<IF t \in fences THEN "verdict" ELSE "recover", t>>}
    /\ UNCHANGED <<revoked, registered, row, booted, gate, mem, waiter, fences, publishing,
                   aborted, incidents>>

\* await_registered_fence_verdict, then finalize_batch_terminal.
Verdict(t) ==
    /\ <<"verdict", t>> \in jobs /\ t \notin publishing
    /\ Ended(t)
    /\ fences' = fences \ {t}
    /\ jobs' = (jobs \ {<<"verdict", t>>}) \cup {<<"close", t>>}
    /\ UNCHANGED <<storeVars, booted, gate, mutex, stage, waiter, plan, armed, tails,
                   publishing, aborted, incidents, leaked>>

\* Mutant: a task that died without a fence is not looked at again.
Recover_None(t) ==
    /\ <<"recover", t>> \in jobs
    /\ jobs' = jobs \ {<<"recover", t>>}
    /\ UNCHANGED <<storeVars, booted, gate, mutex, taskVars, tailVars, incidents, leaked>>

\* A task that died without a fence and is still open is made FAILED.
Recover(t) ==
    /\ <<"recover", t>> \in jobs
    /\ Ended(t)
    /\ jobs' = (jobs \ {<<"recover", t>>})
                 \cup (IF mem[t] \in Open THEN {<<"close", t>>} ELSE {})
    /\ UNCHANGED <<storeVars, booted, gate, mutex, stage, waiter, plan, armed, tailVars,
                   incidents, leaked>>

CloseJob(t, ok) ==
    /\ <<"close", t>> \in jobs
    /\ release_task_locks(t, ok)
    /\ jobs' = (jobs \ {<<"close", t>>}) \cup {<<"persist", t>>}
    /\ UNCHANGED <<registered, row, late, booted, gate, mutex, taskVars, tailVars>>

\* The current state of the record is written, whatever it has become.
PersistJob(t) ==
    /\ <<"persist", t>> \in jobs
    /\ row' = [row EXCEPT ![t] = mem[t]]
    /\ jobs' = jobs \ {<<"persist", t>>}
    /\ UNCHANGED <<held, revoked, registered, late, booted, gate, mutex, taskVars, tailVars,
                   incidents, leaked>>

ReleaseJob(t, ok) ==
    /\ <<"release", t>> \in jobs
    /\ release_task_locks(t, ok)
    /\ jobs' = jobs \ {<<"release", t>>}
    /\ UNCHANGED <<registered, row, late, booted, gate, mutex, taskVars, tailVars>>

FailJob(t) ==
    /\ <<"fail", t>> \in jobs
    /\ row' = [row EXCEPT ![t] = "ENDED"]
    /\ jobs' = jobs \ {<<"fail", t>>}
    /\ UNCHANGED <<held, revoked, registered, late, booted, gate, mutex, taskVars, tailVars,
                   incidents, leaked>>

(***************************************************************************)
(* Restart.                                                                *)
(***************************************************************************)
Crash ==
    /\ Incident
    /\ booted' = FALSE /\ gate' = FALSE /\ mutex' = NoTask
    /\ mem' = [t \in Task |-> "absent"]
    /\ stage' = [t \in Task |-> IF stage[t] = "idle" THEN "idle" ELSE "dead"]
    /\ waiter' = {} /\ plan' = [t \in Task |-> {}] /\ armed' = {}
    /\ tails' = {} /\ fences' = {} /\ publishing' = {} /\ aborted' = {} /\ jobs' = {}
    /\ UNCHANGED <<storeVars, leaked>>

\* The datasource can be enumerated: a task row or the registry names it.
Known == registered \/ \E t \in Task : row[t] # "absent"

Live == {t \in Task : mem[t] \in Open}

\* Mutant: the reap runs whenever it is called.
MayReap_Always == TRUE

MayReap == ~gate

\* reconcile_orphaned_task_locks: lock rows, revoked ones too, of tasks that do
\* not live in this process.
Reap ==
    /\ held' = IF MayReap /\ Known THEN held \cap Live ELSE held
    /\ revoked' = IF MayReap /\ Known THEN revoked \cap Live ELSE revoked

\* bootstrap_reload_segments: the reap, then the stale rows and their locks;
\* either may fail and bootstrap goes on.
Bootstrap(reapOk, rowsOk) ==
    LET stale == {t \in Task : row[t] \in Open}
        gone == IF reapOk /\ Known THEN Task ELSE IF rowsOk THEN stale ELSE {}
    IN  /\ ~booted
        /\ booted' = TRUE
        /\ IF reapOk /\ rowsOk THEN UNCHANGED incidents ELSE Incident
        /\ held' = held \ gone /\ revoked' = revoked \ gone
        /\ row' = IF rowsOk THEN [t \in Task |-> IF t \in stale THEN "ENDED" ELSE row[t]]
                  ELSE row
        /\ leaked' = (held \cup revoked \cup late) \ (gone \ late)
        /\ UNCHANGED <<registered, late, gate, mutex, taskVars, tailVars, jobs>>

\* The reap called again while requests are served.
ReapAgain ==
    /\ booted
    /\ Reap
    /\ UNCHANGED <<registered, row, late, booted, gate, mutex, taskVars, tailVars,
                   jobs, incidents, leaked>>

-------------------------------------------------------------------------------
AcquireStep(t) ==
    \/ Granting(t) \/ Refused(t) \/ RevokeLock(t) \/ InsertLock(t)
    \/ \E ok \in BOOLEAN : StampRegistry(t, ok)

TaskStep(t) ==
    \/ PersistRow(t) \/ RetryLock(t) \/ FlipRow(t) \/ FlipMem(t)
    \/ Publish(t) \/ RunEnds(t) \/ AwaitEnds(t, FALSE)
    \/ TailPersists(t) \/ Finalize(t)
    \/ \E ok \in BOOLEAN : TailReleases(t, ok) \/ Close(t, ok)

JobStep(t) ==
    \/ Verdict(t) \/ Recover(t) \/ PersistJob(t) \/ FailJob(t)
    \/ \E ok \in BOOLEAN : CloseJob(t, ok) \/ ReleaseJob(t, ok)

FaultStep(t) ==
    \/ \E landed \in BOOLEAN : AcquireFails(t, landed) \/ FlipFails(t, landed)
    \/ PersistRowFails(t) \/ TailPersistFails(t) \/ AwaitEnds(t, TRUE)
    \/ \E fate \in Fate : Cancel(t, fate)
    \/ ShutdownTask(t)

Next ==
    \/ \E t \in Task : Submit(t) \/ AcquireStep(t) \/ TaskStep(t) \/ JobStep(t) \/ FaultStep(t)
    \/ \E t \in Task : Expire(t) \/ PublishEnds(t) \/ LateLock(t)
    \/ \E t \in Task, fate \in Fate : AbortLands(t, fate)
    \/ Crash \/ ReapAgain
    \/ \E reapOk, rowsOk \in BOOLEAN : Bootstrap(reapOk, rowsOk)

\* Futures and detached tasks are polled until they end; a publication ends or
\* meets its deadline; a waiter that keeps retrying meets its own.
Fairness ==
    /\ \A t \in Task : /\ WF_vars(AcquireStep(t)) /\ WF_vars(TaskStep(t))
                       /\ WF_vars(JobStep(t)) /\ WF_vars(PublishEnds(t))
                       /\ WF_vars(\E fate \in Fate : AbortLands(t, fate))
                       /\ SF_vars(Expire(t))
    /\ WF_vars(\E reapOk, rowsOk \in BOOLEAN : Bootstrap(reapOk, rowsOk))

Spec == Init /\ [][Next]_vars
FairSpec == Spec /\ Fairness

(***************************************************************************)
(* Properties.                                                             *)
(***************************************************************************)
\* Types, and the acquisition mutex is held exactly by the future between the
\* read and the grant.
LocksTypeOK ==
    /\ held \subseteq Task /\ revoked \subseteq Task /\ late \subseteq Task
    /\ row \in [Task -> {"absent", "WAITING", "RUNNING", "ENDED"}]
    /\ mem \in [Task -> {"absent", "WAITING", "RUNNING", "ENDED"}]
    /\ \A t \in Task : mutex = t <=> stage[t] \in Critical
    /\ \A t \in Task : plan[t] # {} => stage[t] = "revoke"
    /\ jobs \subseteq {"release", "close", "verdict", "recover", "persist", "fail"} \X Task
    /\ incidents \in 0 .. MaxIncidents

Granted(t) == stage[t] \in Working /\ t \notin aborted

\* Two tasks with overlapping intervals never work at the same time, unless one
\* was preempted (try_acquire_lock: the decision sees every concurrent grant).
LockExclusion ==
    \A t, u \in Task :
        Granted(t) /\ Granted(u) /\ t # u /\ overlaps(Interval[t], Interval[u]) =>
            t \in revoked \/ u \in revoked

\* No clean-up of another task, no reap and no guard takes the lock of a task
\* that is at work: it is held, or marked as revoked.
WorkerKeepsItsLock == \A t \in Task : Granted(t) => t \in held \cup revoked

\* A lock row always has someone who will delete it (a future that is on its way
\* to its release, an armed guard or a detached clean-up), except for the locks
\* of the windows in which the code loses track of them.
LockHasOwner ==
    booted =>
        \A t \in held \cup revoked :
            \/ t \in leaked
            \/ stage[t] \in Acquiring \cup Working \cup {"sleep", "release", "final", "close"}
            \/ \E kind \in {"release", "close", "verdict"} : <<kind, t>> \in jobs

\* An accepted task that waits for its lock stops waiting, also behind a lock
\* that nobody will release (the lock-wait deadline).
WaitingEnds == \A t \in Task : mem[t] = "WAITING" ~> mem[t] # "WAITING"

\* A shutdown is final in memory: a waiter that still flips its record to
\* RUNNING before the abort lands does not bring the task back to life.
ShutdownIsFinal == \A t \in Task : t \in aborted ~> [](mem[t] \notin Open)

\* Every lock row is eventually deleted, or is one that the code lost track of.
LocksDrain == \A t \in Task : t \in held ~> (t \notin held \/ t \in leaked)
=============================================================================
