----------------------------- MODULE BatchPublish -----------------------------
(***************************************************************************)
(* The shielded publication section of a native batch task                 *)
(* (ferrodruid-overlord, publish_critical_section_body): upload the        *)
(* segment to deep storage, commit one metadata transaction (victims ->    *)
(* unused, new row -> used), swap the Historical's query-visible segments, *)
(* and compensate when a later phase fails.                                *)
(*                                                                         *)
(* One datasource with deep storage configured, and one interval that all  *)
(* tasks write: the victims of a replace are every used row.  A segment is *)
(* named by the task and the attempt that built it; allocate_segment_id    *)
(* never reuses a name.                                                    *)
(*                                                                         *)
(* The metadata transactions run as tracked operations in tasks of their   *)
(* own: `op` is the one in flight, and it goes on when the section is      *)
(* dropped at the publish deadline.  The next-state relation is that of    *)
(* module BatchTask, which starts sections and reads their outcome.        *)
(***************************************************************************)
EXTENDS Naturals, FiniteSets

CONSTANTS
    Task,         \* batch tasks of the datasource
    AppendTask,   \* those submitted with appendToExisting: true
    Slow,         \* those whose store or upload may outlive the deadline
    NoTask,       \* the publish lock is free
    MaxAttempts,  \* RetryPolicy.max_attempts
    MaxFaults,    \* bound: failures of the environment
    MaxCrashes    \* bound: process restarts

ASSUME TaskAssumption == AppendTask \subseteq Task /\ Slow \subseteq Task
ASSUME NoTaskAssumption == NoTask \notin Task
ASSUME LimitAssumption == /\ MaxAttempts \in Nat \ {0}
                          /\ MaxFaults \in Nat /\ MaxCrashes \in Nat

VARIABLES
    used, unused,  \* durable druid_segments rows, by their used flag
    blobs,         \* deep storage
    loaded,        \* segments the Historical serves
    holder,        \* owner of the datasource publish lock
    attempt,       \* attempt[t]: the attempt a task is on
    phase,         \* phase[t]: where its section is
    victims,       \* victims[t]: the rows its section retires
    op, opOk,      \* op[t]: tracked store operation; opOk[t]: its last result
    fence,         \* fence[t]: the FenceState of its publish fence
    outcome,       \* outcome[t]: what the wrapper task returned
    blind,         \* history: verdicts formed without the store's answer
    faults         \* faults so far (bound only)

storeVars == <<used, unused, blobs, loaded>>
sectionVars == <<holder, phase, victims, op, opOk, fence, outcome, blind>>
publishVars == <<storeVars, sectionVars, attempt, faults>>

Seg == Task \X (1 .. MaxAttempts)
SegOf(t) == <<t, attempt[t]>>

(***************************************************************************)
(* "dropped": the deadline dropped the section; the wrapper still holds    *)
(* the lock.  "done": the wrapper returned and released the lock.          *)
(***************************************************************************)
Phase == {"idle", "upload", "commit", "rollback", "cleanup", "dropped", "done"}
Live == {"upload", "commit", "rollback", "cleanup"}
FenceState == {"InFlight", "DurableAppendCommitted", "Committed", "NotCommitted"}

\* "retry" may be retried; "stop" is an error with retry_suppressed.
Outcome == {"none", "committed", "retry", "stop"}

PublishTypeOK ==
    /\ used \subseteq Seg /\ unused \subseteq Seg
    /\ blobs \subseteq Seg /\ loaded \subseteq Seg
    /\ holder \in Task \cup {NoTask}
    /\ attempt \in [Task -> 0 .. MaxAttempts]
    /\ phase \in [Task -> Phase]
    /\ victims \in [Task -> SUBSET Seg]
    /\ op \in [Task -> {"none", "commit", "rollback"}]
    /\ opOk \in [Task -> BOOLEAN]
    /\ fence \in [Task -> FenceState]
    /\ outcome \in [Task -> Outcome]
    /\ blind \subseteq Task
    /\ faults \in 0 .. MaxFaults

\* The process-local part of a section, as it is after a (re)start.
NoSection ==
    /\ holder' = NoTask
    /\ phase' = [t \in Task |-> "idle"]
    /\ victims' = [t \in Task |-> {}]
    /\ op' = [t \in Task |-> "none"]
    /\ opOk' = [t \in Task |-> FALSE]
    /\ fence' = [t \in Task |-> "InFlight"]
    /\ outcome' = [t \in Task |-> "none"]

PublishInit ==
    /\ used = {} /\ unused = {} /\ blobs = {} /\ loaded = {}
    /\ holder = NoTask
    /\ attempt = [t \in Task |-> 0]
    /\ phase = [t \in Task |-> "idle"]
    /\ victims = [t \in Task |-> {}]
    /\ op = [t \in Task |-> "none"]
    /\ opOk = [t \in Task |-> FALSE]
    /\ fence = [t \in Task |-> "InFlight"]
    /\ outcome = [t \in Task |-> "none"]
    /\ blind = {}
    /\ faults = 0

-------------------------------------------------------------------------------
Fault == faults < MaxFaults /\ faults' = faults + 1

(***************************************************************************)
(* execute_index_parallel under the publish lock: plan the victims from    *)
(* the used rows, create the fence, spawn the wrapper that owns the lock.  *)
(***************************************************************************)
plan_replace_victims(t) == IF t \in AppendTask THEN {} ELSE used

BeginSection(t) ==
    /\ holder = NoTask
    /\ holder' = t
    /\ victims' = [victims EXCEPT ![t] = plan_replace_victims(t)]
    /\ fence' = [fence EXCEPT ![t] = "InFlight"]
    /\ phase' = [phase EXCEPT ![t] = "upload"]
    /\ outcome' = [outcome EXCEPT ![t] = "none"]
    /\ UNCHANGED <<op, opOk, blind, storeVars>>

\* Mutant: the wrapper returns without releasing the lock.
Return_KeepsLock(t, result) ==
    /\ phase' = [phase EXCEPT ![t] = "done"]
    /\ outcome' = [outcome EXCEPT ![t] = result]
    /\ UNCHANGED holder

\* The wrapper returns: the lock guard drops, the tail's await is ready.
Return(t, result) ==
    /\ phase' = [phase EXCEPT ![t] = "done"]
    /\ outcome' = [outcome EXCEPT ![t] = result]
    /\ holder' = IF holder = t THEN NoTask ELSE holder

SetFence(t, state) == fence' = [fence EXCEPT ![t] = state]

\* Phase P, and the spawn of the Phase-M transaction behind it.
Upload(t) ==
    /\ phase[t] = "upload"
    /\ blobs' = blobs \cup {SegOf(t)}
    /\ phase' = [phase EXCEPT ![t] = "commit"]
    /\ op' = [op EXCEPT ![t] = "commit"]
    /\ UNCHANGED <<used, unused, loaded, holder, victims, opOk, fence, outcome,
                   blind, attempt, faults>>

UploadFails(t) ==
    /\ phase[t] = "upload"
    /\ Fault
    /\ SetFence(t, "NotCommitted")
    /\ Return(t, "retry")
    /\ UNCHANGED <<storeVars, victims, op, opOk, blind, attempt>>

OpEnds(t, ok) ==
    /\ op' = [op EXCEPT ![t] = "none"]
    /\ opOk' = [opOk EXCEPT ![t] = ok]

\* MetadataStore::replace_segments_txn: all of it, or none of it.
replace_segments_txn(t) ==
    /\ used' = (used \ victims[t]) \cup {SegOf(t)}
    /\ unused' = unused \cup (victims[t] \cap used)

\* MetadataStore::rollback_replace_txn: delete the row, restore the victims.
rollback_replace_txn(t) ==
    /\ used' = (used \ {SegOf(t)}) \cup victims[t]
    /\ unused' = unused \ (victims[t] \cup {SegOf(t)})

CommitLands(t) ==
    /\ op[t] = "commit"
    /\ replace_segments_txn(t)
    /\ OpEnds(t, TRUE)
    /\ UNCHANGED <<blobs, loaded, holder, phase, victims, fence, outcome, blind,
                   attempt, faults>>

RollbackLands(t) ==
    /\ op[t] = "rollback"
    /\ rollback_replace_txn(t)
    /\ OpEnds(t, TRUE)
    /\ UNCHANGED <<blobs, loaded, holder, phase, victims, fence, outcome, blind,
                   attempt, faults>>

OpFails(t) ==
    /\ op[t] # "none"
    /\ Fault
    /\ OpEnds(t, FALSE)
    /\ UNCHANGED <<storeVars, holder, phase, victims, fence, outcome, blind,
                   attempt>>

(***************************************************************************)
(* The section resumes after the commit.  Sending the provisional fence    *)
(* state, the swap and the final verdict have no await between them.       *)
(***************************************************************************)
Committed(t) == phase[t] = "commit" /\ op[t] = "none" /\ opOk[t]

SwapSegments(t) ==
    /\ Committed(t)
    /\ loaded' = (loaded \ victims[t]) \cup {SegOf(t)}
    /\ SetFence(t, "Committed")
    /\ Return(t, "committed")
    /\ UNCHANGED <<used, unused, blobs, victims, op, opOk, blind, attempt, faults>>

SwapFails(t) ==
    /\ Committed(t)
    /\ Fault
    /\ phase' = [phase EXCEPT ![t] = "rollback"]
    /\ op' = [op EXCEPT ![t] = "rollback"]
    /\ IF t \in AppendTask THEN SetFence(t, "DurableAppendCommitted")
                       ELSE UNCHANGED fence
    /\ UNCHANGED <<storeVars, holder, victims, opOk, outcome, blind, attempt>>

CommitFailed(t) ==
    /\ phase[t] = "commit" /\ op[t] = "none" /\ ~opOk[t]
    /\ phase' = [phase EXCEPT ![t] = "cleanup"]
    /\ UNCHANGED <<storeVars, holder, victims, op, opOk, fence, outcome, blind,
                   attempt, faults>>

\* The rollback undid the commit: the verdict precedes the blob's deletion.
RolledBack(t) ==
    /\ phase[t] = "rollback" /\ op[t] = "none" /\ opOk[t]
    /\ SetFence(t, "NotCommitted")
    /\ phase' = [phase EXCEPT ![t] = "cleanup"]
    /\ UNCHANGED <<storeVars, holder, victims, op, opOk, outcome, blind, attempt,
                   faults>>

\* Mutant: the victims stay loaded although their rows are unused.
DropVictims_Kept(t) == loaded' = loaded

\* Mutant: the blob is deleted although its row could not be rolled back.
RollbackFailed_Deletes(t) ==
    /\ phase[t] = "rollback" /\ op[t] = "none" /\ ~opOk[t]
    /\ loaded' = loaded \ victims[t]
    /\ SetFence(t, "NotCommitted") /\ phase' = [phase EXCEPT ![t] = "cleanup"]
    /\ UNCHANGED <<used, unused, blobs, holder, victims, op, opOk, outcome, blind,
                   attempt, faults>>

\* Mutant: a retained append is retried like a replace.
RollbackFailed_Retries(t) ==
    /\ phase[t] = "rollback" /\ op[t] = "none" /\ ~opOk[t]
    /\ loaded' = loaded \ victims[t]
    /\ SetFence(t, "NotCommitted") /\ Return(t, "retry")
    /\ UNCHANGED <<used, unused, blobs, victims, op, opOk, blind, attempt, faults>>

(***************************************************************************)
(* The rollback failed too.  A replace drops its victims from the          *)
(* Historical, to match the committed metadata, and may be retried; an     *)
(* append keeps its durable row and counts as committed.                   *)
(***************************************************************************)
DropVictims(t) == loaded' = loaded \ victims[t]

RollbackFailed(t) ==
    /\ phase[t] = "rollback" /\ op[t] = "none" /\ ~opOk[t]
    /\ DropVictims(t)
    /\ IF t \in AppendTask THEN SetFence(t, "Committed") /\ Return(t, "committed")
                       ELSE SetFence(t, "NotCommitted") /\ Return(t, "retry")
    /\ UNCHANGED <<used, unused, blobs, victims, op, opOk, blind, attempt, faults>>

\* cleanup_orphan_blob is best effort: a blob may stay behind.
cleanup_orphan_blob(t) == blobs' \in {blobs, blobs \ {SegOf(t)}}

Cleanup(t) ==
    /\ phase[t] = "cleanup"
    /\ cleanup_orphan_blob(t)
    /\ SetFence(t, "NotCommitted")
    /\ Return(t, "retry")
    /\ UNCHANGED <<used, unused, loaded, victims, op, opOk, blind, attempt, faults>>

-------------------------------------------------------------------------------
(***************************************************************************)
(* The publish deadline drops the section at an await that is not ready.   *)
(* What it was awaiting may have had its effect; a tracked operation runs  *)
(* on.                                                                     *)
(***************************************************************************)
Deadline(t) ==
    /\ t \in Slow /\ phase[t] \in Live
    /\ phase[t] \in {"commit", "rollback"} => op[t] # "none"
    /\ phase' = [phase EXCEPT ![t] = "dropped"]
    /\ CASE phase[t] = "upload"  -> blobs' \in {blobs, blobs \cup {SegOf(t)}}
         [] phase[t] = "cleanup" -> cleanup_orphan_blob(t)
         [] OTHER                -> UNCHANGED blobs
    /\ UNCHANGED <<used, unused, loaded, holder, victims, op, opOk, fence, outcome,
                   blind, attempt, faults>>

Resolved(t) == fence[t] \in {"Committed", "NotCommitted"}

durable_batch_commit_for_task(t) == \E s \in used \cup unused : s[1] = t

fence_last_state_committed(t) ==
    fence[t] \in {"DurableAppendCommitted", "Committed"}

(***************************************************************************)
(* resolve_interrupted_publish_verdict, in full: the section's own verdict *)
(* if it had one; else, the tracked operation having resolved, what the    *)
(* durable rows say of an append, and "not committed" of a replace.        *)
(***************************************************************************)
\* Mutant: the verdict is read while a tracked operation is still landing.
OpResolved_Ignored(t) == TRUE

OpResolved(t) == op[t] = "none"

ResolveVerdict(t, committed) ==
    IF Resolved(t) THEN committed = (fence[t] = "Committed")
    ELSE /\ OpResolved(t)
         /\ committed = (t \in AppendTask /\ durable_batch_commit_for_task(t))

\* The documented residuals: the operation outlives the bounded wait, or the
\* store does not answer and the fence's last state stands in for it.
ResolveBlindly(t, committed) ==
    /\ ~Resolved(t) /\ t \in AppendTask
    /\ Fault
    /\ blind' = blind \cup {t}
    /\ \/ committed = fence_last_state_committed(t)
       \/ op[t] # "none" /\ committed = durable_batch_commit_for_task(t)

\* The wrapper task after a drop: the lock is held until the verdict is known.
WrapperResolves(t) ==
    /\ phase[t] = "dropped"
    /\ \E committed \in BOOLEAN :
          /\ \/ ResolveVerdict(t, committed) /\ UNCHANGED <<blind, faults>>
             \/ ResolveBlindly(t, committed)
          /\ Return(t, IF committed THEN "committed" ELSE "stop")
    /\ UNCHANGED <<storeVars, victims, op, opOk, fence, attempt>>

-------------------------------------------------------------------------------
(***************************************************************************)
(* A crash loses the process-local state, transactions in flight included  *)
(* (one that lands just before the crash is its own step).                 *)
(* bootstrap_reload_segments loads every used row, and refuses to serve    *)
(* when the blob of one is missing.                                        *)
(***************************************************************************)
CrashStores ==
    /\ loaded' = IF used \subseteq blobs THEN used ELSE {}
    /\ NoSection
    /\ UNCHANGED <<used, unused, blobs, blind, faults>>

SectionStep(t) ==
    \/ Upload(t) \/ UploadFails(t)
    \/ CommitLands(t) \/ RollbackLands(t) \/ OpFails(t)
    \/ SwapSegments(t) \/ SwapFails(t) \/ CommitFailed(t)
    \/ RolledBack(t) \/ RollbackFailed(t) \/ Cleanup(t)
    \/ Deadline(t) \/ WrapperResolves(t)

-------------------------------------------------------------------------------
(***************************************************************************)
(* Every used row has its blob, so that a restart at any moment can reload *)
(* all that was committed: the upload precedes the commit, and a blob is   *)
(* deleted only once no row can name it, now or after a rollback.          *)
(***************************************************************************)
UsedRowHasBlob == used \subseteq blobs

(***************************************************************************)
(* While nobody publishes, the Historical serves only rows that are used:  *)
(* a replaced segment is never served next to its replacement.             *)
(***************************************************************************)
ServedIsUsed == holder = NoTask => loaded \subseteq used

(***************************************************************************)
(* What FenceState's documentation says of a replace publication that dies *)
(* after its commit: failing closed is safe, because "a replace            *)
(* resubmission re-plans its victims from used rows and is idempotent for  *)
(* the interval".  Then at most one replacement of the interval is served. *)
(***************************************************************************)
ReplaceIsIdempotent ==
    holder = NoTask => Cardinality({s \in loaded : s[1] \notin AppendTask}) <= 1

===============================================================================
