--------------------------- MODULE BatchVerdictProofs ---------------------------
(***************************************************************************)
(* What a client may conclude from the status of a batch task: proofs that *)
(* extend BatchTaskProofs to the verdict, the fence and the Historical.    *)
(*                                                                         *)
(* The status is written in three places (the table, the durable row and   *)
(* the tail's local record) by up to four actors, long after the store     *)
(* operation that decides it.  VerdictInv ties all three to the store.  It *)
(* needs what a fence and an outcome prove (FenceInv), that the rows of an *)
(* append are those of its current attempt (OnceInv), and that a task      *)
(* without a fence has not published (EntryInv).  A rollback of another    *)
(* task can bring back a row that was its victim, so "no row" is always    *)
(* "no trace": neither a row nor a victim of anyone.                       *)
(***************************************************************************)
EXTENDS BatchTaskProofs, FiniteSetTheorems

\* No row of t exists, and no rollback can restore one.
NoTrace(t) ==
    \A a \in 1 .. MaxAttempts :
       <<t, a>> \notin used \cup unused /\ \A u \in Task : <<t, a>> \notin victims[u]

\* The step in which t's own commit lands.
Landing(t) == op[t] = "commit" /\ op'[t] = "none" /\ opOk'[t]

\* The row of t's segment is there, put by the section under way.
RowIn(t) ==
    \/ phase[t] = "commit" /\ op[t] = "none" /\ opOk[t]
    \/ phase[t] = "rollback" /\ (op[t] = "rollback" \/ ~opOk[t])

OnceInv ==
    \A t \in Task :
       /\ t \in AppendTask => victims[t] = {}
       /\ phase[t] \in Live \cup {"dropped"} =>
             outcome[t] = "none" /\ \A u \in Task : SegOf(t) \notin victims[u]
       /\ RowIn(t) => SegOf(t) \in used \cup unused
       /\ t \in AppendTask /\ ~NoTrace(t) =>
             tail[t] # "run" /\ outcome[t] # "retry" /\ ~NoRow(t)
       /\ t \in AppendTask =>
             \A a \in 1 .. MaxAttempts :
                a # attempt[t] => /\ <<t, a>> \notin used \cup unused
                                  /\ \A u \in Task : <<t, a>> \notin victims[u]
       /\ t \in AppendTask \ blind =>
             \A a \in 1 .. MaxAttempts, u \in Task :
                <<t, a>> \in victims[u] => <<t, a>> \in used \cup unused

EntryInv ==
    \A t \in Task :
       /\ row[t] = "absent" =>
             /\ mem[t] = "absent" /\ record[t] = "absent"
             /\ t \notin orphans /\ finalizers[t] = 0
       /\ mem[t] = "absent" => tail[t] = "none"
       /\ finalizers[t] > 0 => t \notin tails
       /\ t \in orphans => tail[t] = "none" /\ t \notin fences
       /\ tail[t] \in {"persist", "store"} => phase[t] \in {"idle", "done"}
       /\ mem[t] = "RUNNING" /\ t \notin fences =>
             phase[t] = "idle" /\ (t \in AppendTask => NoTrace(t))

FenceInv ==
    /\ NoFenceNoPublication
    /\ \A t \in Task :
          /\ Resolved(t) => op[t] = "none" /\ phase[t] \in {"cleanup", "dropped", "done"}
          /\ fence[t] = "NotCommitted" /\ t \in AppendTask => NoTrace(t)
          /\ fence[t] = "Committed" =>
                phase[t] = "done" /\ durable_batch_commit_for_task(t)
          /\ phase[t] = "done" /\ t \notin blind =>
                /\ op[t] = "none"
                /\ outcome[t] = "stop" /\ t \in AppendTask => NoTrace(t)
                /\ outcome[t] = "committed" => durable_batch_commit_for_task(t)

\* t will not begin another section.
Closed(t) == t \notin tails \/ tail[t] \in {"none", "persist", "store"}

Hopeless(t) == NoTrace(t) /\ ~MayStillCommit(t) /\ Closed(t)
Settled(t) ==
    durable_batch_commit_for_task(t) /\ op[t] = "none" /\ phase[t] \notin Live /\ Closed(t)

VerdictInv ==
    \A t \in Task \ blind :
       /\ "FAILED" \in {mem[t], row[t], record[t]} /\ t \in AppendTask => Hopeless(t)
       /\ "SUCCESS" \in {mem[t], row[t], record[t]} => Settled(t)

\* A segment is loaded only by the swap that ends its section, or by bootstrap.
LoadInv ==
    /\ \A t \in Task : phase[t] \in Live \cup {"dropped"} \/ op[t] # "none" =>
          SegOf(t) \notin loaded
    /\ \A t \in Task, a \in 1 .. MaxAttempts : <<t, a>> \in loaded => Past(t, a)

\* No replace is dropped, so its store operations end under the publish lock.
LockInv ==
    /\ blind \subseteq AppendTask
    /\ \A t \in Task \ AppendTask : phase[t] # "dropped" /\ (op[t] # "none" => holder = t)

UsedInv == \A t \in Task : RowIn(t) => SegOf(t) \in used

\* The segments the Historical still serves although their rows are retired:
\* victims of a replace whose swap, or its compensation, is due.
RetireInv == \A s \in loaded \ used : \E t \in Task : RowIn(t) /\ s \in victims[t]

ServeInv == LoadInv /\ LockInv /\ UsedInv /\ RetireInv

Inv2 == Inv /\ OnceInv /\ EntryInv /\ FenceInv /\ VerdictInv

-------------------------------------------------------------------------------
\* Only a commit of its own leaves the first trace of a task.
LEMMA NoTraceKept ==
    ASSUME Inv2, [Next]_vars, NEW x \in Task, NoTrace(x), ~Landing(x)
    PROVE  NoTrace(x)'
<1> USE TaskAssumption, NoTaskAssumption, LimitAssumption, ShutdownAssumption
<1> USE DEF Inv2, Inv, TypeOK, PublishTypeOK, Seg, SegOf, NoTrace, Landing,
    vars, publishVars, storeVars, sectionVars, statusVars, registryVars,
    tailVars, finalVars, boundVars, NoTailStep
<1>1. ASSUME NEW t \in Task, SubmitTask(t) PROVE NoTrace(x)'
  BY <1>1 DEF SubmitTask
<1>2. ASSUME NEW t \in Task, AttemptFails(t) PROVE NoTrace(x)'
  BY <1>2 DEF AttemptFails, Fault, RetryOrFail, can_retry
<1>3. ASSUME NEW t \in Task, Publish(t) PROVE NoTrace(x)'
  BY <1>3 DEF Publish, MayPublish, BeginSection, plan_replace_victims
<1>4. ASSUME NEW t \in Task, RefusePublish(t) PROVE NoTrace(x)'
  BY <1>4 DEF RefusePublish, MayPublish, EndRun
<1>5. ASSUME NEW t \in Task, TailResumes(t) PROVE NoTrace(x)'
  BY <1>5 DEF TailResumes, EndRun, RetryOrFail, can_retry
<1>6. ASSUME NEW t \in Task, PersistRow(t) PROVE NoTrace(x)'
  BY <1>6 DEF PersistRow
<1>7. ASSUME NEW t \in Task, StoreRecord(t) PROVE NoTrace(x)'
  BY <1>7 DEF StoreRecord
<1>8. ASSUME NEW t \in Task, PersistFails(t) PROVE NoTrace(x)'
  BY <1>8 DEF PersistFails, Fault, finalize_batch_terminal, FinalState
<1>9. ASSUME NEW t \in Task, TailDies(t) PROVE NoTrace(x)'
  BY <1>9 DEF TailDies, Fault, DropTailGuard
<1>10. ASSUME NEW t \in Task, ShutdownTask(t) PROVE NoTrace(x)'
  BY <1>10 DEF ShutdownTask
<1>11. ASSUME NEW t \in Task, Finalize(t) PROVE NoTrace(x)'
  BY <1>11 DEF Finalize, FenceVerdict, ResolveVerdict, OpResolved,
      ResolveBlindly, Fault, finalize_batch_terminal, FinalState
<1>12. ASSUME NEW t \in Task, RecoverOrphan(t) PROVE NoTrace(x)'
  BY <1>12 DEF RecoverOrphan, finalize_batch_terminal, FinalState
<1>13. ASSUME NEW t \in Task, FlushRow(t) PROVE NoTrace(x)'
  BY <1>13 DEF FlushRow
<1>14. ASSUME NEW t \in Task, FlushGivesUp(t) PROVE NoTrace(x)'
  BY <1>14 DEF FlushGivesUp, Fault
<1>15. ASSUME NEW t \in Task, Upload(t), NoTailStep PROVE NoTrace(x)'
  BY <1>15 DEF Upload
<1>16. ASSUME NEW t \in Task, UploadFails(t), NoTailStep PROVE NoTrace(x)'
  BY <1>16 DEF UploadFails, Fault, SetFence, Return
<1>17. ASSUME NEW t \in Task, CommitLands(t), NoTailStep PROVE NoTrace(x)'
  BY <1>17 DEF CommitLands, replace_segments_txn, OpEnds
<1>18. ASSUME NEW t \in Task, RollbackLands(t), NoTailStep PROVE NoTrace(x)'
  BY <1>18 DEF RollbackLands, rollback_replace_txn, OpEnds
<1>19. ASSUME NEW t \in Task, OpFails(t), NoTailStep PROVE NoTrace(x)'
  BY <1>19 DEF OpFails, Fault, OpEnds
<1>20. ASSUME NEW t \in Task, SwapSegments(t), NoTailStep PROVE NoTrace(x)'
  BY <1>20 DEF SwapSegments, Committed, SetFence, Return
<1>21. ASSUME NEW t \in Task, SwapFails(t), NoTailStep PROVE NoTrace(x)'
  BY <1>21 DEF SwapFails, Committed, Fault, SetFence
<1>22. ASSUME NEW t \in Task, CommitFailed(t), NoTailStep PROVE NoTrace(x)'
  BY <1>22 DEF CommitFailed
<1>23. ASSUME NEW t \in Task, RolledBack(t), NoTailStep PROVE NoTrace(x)'
  BY <1>23 DEF RolledBack, SetFence
<1>24. ASSUME NEW t \in Task, RollbackFailed(t), NoTailStep PROVE NoTrace(x)'
  BY <1>24 DEF RollbackFailed, DropVictims, SetFence, Return
<1>25. ASSUME NEW t \in Task, Cleanup(t), NoTailStep PROVE NoTrace(x)'
  BY <1>25 DEF Cleanup, cleanup_orphan_blob, SetFence, Return
<1>26. ASSUME NEW t \in Task, Deadline(t), NoTailStep PROVE NoTrace(x)'
  BY <1>26 DEF Deadline, cleanup_orphan_blob
<1>27. ASSUME NEW t \in Task, WrapperResolves(t), NoTailStep PROVE NoTrace(x)'
  BY <1>27 DEF WrapperResolves, Return, ResolveVerdict, OpResolved,
      ResolveBlindly, Fault
<1>28. ASSUME CrashRestart PROVE NoTrace(x)'
  BY <1>28 DEF CrashRestart, CrashStores, NoSection,
      reconcile_stale_running_batch_tasks
<1>29. CASE UNCHANGED vars
  BY <1>29
<1> HIDE DEF Inv2, Inv, TypeOK, PublishTypeOK, Seg, SegOf, NoTrace, Landing
<1> QED
  BY <1>1, <1>2, <1>3, <1>4, <1>5, <1>6, <1>7, <1>8, <1>9, <1>10, <1>11,
      <1>12, <1>13, <1>14, <1>15, <1>16, <1>17, <1>18, <1>19, <1>20, <1>21,
      <1>22, <1>23, <1>24, <1>25, <1>26, <1>27, <1>28, <1>29 DEF Next,
      TailStep, Publication, SectionStep

\* Only a rollback of its own deletes the row of a task.
LEMMA RowKept ==
    ASSUME Inv2, [Next]_vars, NEW x \in Task,
        durable_batch_commit_for_task(x), op[x] # "rollback"
    PROVE  durable_batch_commit_for_task(x)'
<1> USE TaskAssumption, NoTaskAssumption, LimitAssumption, ShutdownAssumption
<1> USE DEF Inv2, Inv, TypeOK, PublishTypeOK, Seg, SegOf,
    durable_batch_commit_for_task, vars, publishVars, storeVars, sectionVars,
    statusVars, registryVars, tailVars, finalVars, boundVars, NoTailStep
<1>1. ASSUME NEW t \in Task, SubmitTask(t) PROVE
    durable_batch_commit_for_task(x)'
  BY <1>1 DEF SubmitTask
<1>2. ASSUME NEW t \in Task, AttemptFails(t) PROVE
    durable_batch_commit_for_task(x)'
  BY <1>2 DEF AttemptFails, Fault, RetryOrFail, can_retry
<1>3. ASSUME NEW t \in Task, Publish(t) PROVE
    durable_batch_commit_for_task(x)'
  BY <1>3 DEF Publish, MayPublish, BeginSection, plan_replace_victims
<1>4. ASSUME NEW t \in Task, RefusePublish(t) PROVE
    durable_batch_commit_for_task(x)'
  BY <1>4 DEF RefusePublish, MayPublish, EndRun
<1>5. ASSUME NEW t \in Task, TailResumes(t) PROVE
    durable_batch_commit_for_task(x)'
  BY <1>5 DEF TailResumes, EndRun, RetryOrFail, can_retry
<1>6. ASSUME NEW t \in Task, PersistRow(t) PROVE
    durable_batch_commit_for_task(x)'
  BY <1>6 DEF PersistRow
<1>7. ASSUME NEW t \in Task, StoreRecord(t) PROVE
    durable_batch_commit_for_task(x)'
  BY <1>7 DEF StoreRecord
<1>8. ASSUME NEW t \in Task, PersistFails(t) PROVE
    durable_batch_commit_for_task(x)'
  BY <1>8 DEF PersistFails, Fault, finalize_batch_terminal, FinalState
<1>9. ASSUME NEW t \in Task, TailDies(t) PROVE
    durable_batch_commit_for_task(x)'
  BY <1>9 DEF TailDies, Fault, DropTailGuard
<1>10. ASSUME NEW t \in Task, ShutdownTask(t) PROVE
    durable_batch_commit_for_task(x)'
  BY <1>10 DEF ShutdownTask
<1>11. ASSUME NEW t \in Task, Finalize(t) PROVE
    durable_batch_commit_for_task(x)'
  BY <1>11 DEF Finalize, FenceVerdict, ResolveVerdict, OpResolved,
      ResolveBlindly, Fault, finalize_batch_terminal, FinalState
<1>12. ASSUME NEW t \in Task, RecoverOrphan(t) PROVE
    durable_batch_commit_for_task(x)'
  BY <1>12 DEF RecoverOrphan, finalize_batch_terminal, FinalState
<1>13. ASSUME NEW t \in Task, FlushRow(t) PROVE
    durable_batch_commit_for_task(x)'
  BY <1>13 DEF FlushRow
<1>14. ASSUME NEW t \in Task, FlushGivesUp(t) PROVE
    durable_batch_commit_for_task(x)'
  BY <1>14 DEF FlushGivesUp, Fault
<1>15. ASSUME NEW t \in Task, Upload(t), NoTailStep PROVE
    durable_batch_commit_for_task(x)'
  BY <1>15 DEF Upload
<1>16. ASSUME NEW t \in Task, UploadFails(t), NoTailStep PROVE
    durable_batch_commit_for_task(x)'
  BY <1>16 DEF UploadFails, Fault, SetFence, Return
<1>17. ASSUME NEW t \in Task, CommitLands(t), NoTailStep PROVE
    durable_batch_commit_for_task(x)'
  BY <1>17 DEF CommitLands, replace_segments_txn, OpEnds
<1>18. ASSUME NEW t \in Task, RollbackLands(t), NoTailStep PROVE
    durable_batch_commit_for_task(x)'
  BY <1>18 DEF RollbackLands, rollback_replace_txn, OpEnds
<1>19. ASSUME NEW t \in Task, OpFails(t), NoTailStep PROVE
    durable_batch_commit_for_task(x)'
  BY <1>19 DEF OpFails, Fault, OpEnds
<1>20. ASSUME NEW t \in Task, SwapSegments(t), NoTailStep PROVE
    durable_batch_commit_for_task(x)'
  BY <1>20 DEF SwapSegments, Committed, SetFence, Return
<1>21. ASSUME NEW t \in Task, SwapFails(t), NoTailStep PROVE
    durable_batch_commit_for_task(x)'
  BY <1>21 DEF SwapFails, Committed, Fault, SetFence
<1>22. ASSUME NEW t \in Task, CommitFailed(t), NoTailStep PROVE
    durable_batch_commit_for_task(x)'
  BY <1>22 DEF CommitFailed
<1>23. ASSUME NEW t \in Task, RolledBack(t), NoTailStep PROVE
    durable_batch_commit_for_task(x)'
  BY <1>23 DEF RolledBack, SetFence
<1>24. ASSUME NEW t \in Task, RollbackFailed(t), NoTailStep PROVE
    durable_batch_commit_for_task(x)'
  BY <1>24 DEF RollbackFailed, DropVictims, SetFence, Return
<1>25. ASSUME NEW t \in Task, Cleanup(t), NoTailStep PROVE
    durable_batch_commit_for_task(x)'
  BY <1>25 DEF Cleanup, cleanup_orphan_blob, SetFence, Return
<1>26. ASSUME NEW t \in Task, Deadline(t), NoTailStep PROVE
    durable_batch_commit_for_task(x)'
  BY <1>26 DEF Deadline, cleanup_orphan_blob
<1>27. ASSUME NEW t \in Task, WrapperResolves(t), NoTailStep PROVE
    durable_batch_commit_for_task(x)'
  BY <1>27 DEF WrapperResolves, Return, ResolveVerdict, OpResolved,
      ResolveBlindly, Fault
<1>28. ASSUME CrashRestart PROVE durable_batch_commit_for_task(x)'
  BY <1>28 DEF CrashRestart, CrashStores, NoSection,
      reconcile_stale_running_batch_tasks
<1>29. CASE UNCHANGED vars
  BY <1>29
<1> HIDE DEF Inv2, Inv, TypeOK, PublishTypeOK, Seg, SegOf,
    durable_batch_commit_for_task
<1> QED
  BY <1>1, <1>2, <1>3, <1>4, <1>5, <1>6, <1>7, <1>8, <1>9, <1>10, <1>11,
      <1>12, <1>13, <1>14, <1>15, <1>16, <1>17, <1>18, <1>19, <1>20, <1>21,
      <1>22, <1>23, <1>24, <1>25, <1>26, <1>27, <1>28, <1>29 DEF Next,
      TailStep, Publication, SectionStep

\* When no row of an append can exist: before its first attempt, between two
\* attempts, and while its section has not committed or has compensated.
LEMMA NoTraceFacts ==
    ASSUME Inv2, NEW t \in AppendTask,
           tail[t] = "run" \/ outcome[t] = "retry" \/ NoRow(t) \/ row[t] = "absent"
    PROVE  NoTrace(t)
<1>1. t \in Task
  BY TaskAssumption
<1>2. CASE row[t] = "absent"
  <2>1. attempt[t] = 0
    BY <1>1, <1>2 DEF Inv2, Inv, LifeInv
  <2>2. \A a \in 1 .. MaxAttempts : a # attempt[t]
    BY <2>1, LimitAssumption
  <2> QED
    BY <1>1, <2>2 DEF Inv2, OnceInv, NoTrace
<1> QED
  BY <1>1, <1>2 DEF Inv2, OnceInv

\* While no verdict about it was blind, an append without a row has no trace.
LEMMA NoRowNoTrace ==
    ASSUME Inv2, NEW t \in AppendTask \ blind, ~durable_batch_commit_for_task(t)
    PROVE  NoTrace(t)
<1>1. t \in Task
  BY TaskAssumption
<1>2. \A a \in 1 .. MaxAttempts : <<t, a>> \notin used \cup unused
  BY DEF durable_batch_commit_for_task
<1> QED
  BY <1>1, <1>2 DEF Inv2, OnceInv, NoTrace

\* The rows of an append are those of its current attempt, and a section's row
\* is nobody's victim before the section ends.
LEMMA OnceStep ==
    ASSUME Inv2, [Next]_vars
    PROVE  OnceInv'
<1> USE TaskAssumption, NoTaskAssumption, LimitAssumption, ShutdownAssumption
<1>a. \A x \in Task : NoTrace(x) /\ ~Landing(x) => NoTrace(x)'
  BY NoTraceKept
<1>b. \A x \in Task : durable_batch_commit_for_task(x) /\ op[x] # "rollback" =>
                         durable_batch_commit_for_task(x)'
  BY RowKept
<1> USE DEF Inv2, Landing, OnceInv, FreshInv, Past, NoRow, RowIn, Inv, TypeOK,
    PublishTypeOK, LifeInv, Terminal, Status, Phase, Live, FenceState,
    Outcome, Seg, SegOf, vars, publishVars, storeVars, sectionVars,
    statusVars, registryVars, tailVars, finalVars, boundVars, NoTailStep
<1>1. ASSUME NEW t \in Task, SubmitTask(t) PROVE OnceInv'
  <2>1. phase[t] \in {"idle", "done"} /\ (t \in AppendTask => NoTrace(t))
    BY <1>1, NoTraceFacts DEF SubmitTask
  <2>2. UNCHANGED <<used, unused, victims, phase, op, opOk, outcome, blind>>
    BY <1>1 DEF SubmitTask
  <2>3. t \in AppendTask => NoTrace(t)'
    BY <1>a, <2>1, <2>2
  <2>4. \A x \in Task : x # t => attempt'[x] = attempt[x] /\ tail'[x] = tail[x]
    BY <1>1 DEF SubmitTask
  <2>5. t \in AppendTask =>
           \A a \in 1 .. MaxAttempts : /\ <<t, a>> \notin used' \cup unused'
                                       /\ \A u \in Task : <<t, a>> \notin victims'[u]
    BY <2>3 DEF NoTrace
  <2>6. \A x \in Task : NoTrace(x) => NoTrace(x)'
    BY <1>a, <2>2
  <2>7. OnceInv
    OBVIOUS
  <2> HIDE DEF Inv2, Inv, TypeOK, PublishTypeOK, LifeInv, FreshInv
  <2> QED
    BY <2>1, <2>2, <2>3, <2>4, <2>5, <2>6, <2>7
<1>2. ASSUME NEW t \in Task, AttemptFails(t) PROVE OnceInv'
  <2>1. phase[t] \in {"idle", "done"} /\ (t \in AppendTask => NoTrace(t))
    BY <1>2, NoTraceFacts DEF AttemptFails
  <2>2. UNCHANGED <<used, unused, victims, phase, op, opOk, outcome, blind>>
    BY <1>2 DEF AttemptFails, Fault, RetryOrFail
  <2>3. t \in AppendTask => NoTrace(t)'
    BY <1>a, <2>1, <2>2
  <2>4. \A x \in Task : x # t => attempt'[x] = attempt[x] /\ tail'[x] = tail[x]
    BY <1>2 DEF AttemptFails, Fault, RetryOrFail
  <2>5. t \in AppendTask =>
           \A a \in 1 .. MaxAttempts : /\ <<t, a>> \notin used' \cup unused'
                                       /\ \A u \in Task : <<t, a>> \notin victims'[u]
    BY <2>3 DEF NoTrace
  <2>6. \A x \in Task : NoTrace(x) => NoTrace(x)'
    BY <1>a, <2>2
  <2>7. OnceInv
    OBVIOUS
  <2> HIDE DEF Inv2, Inv, TypeOK, PublishTypeOK, LifeInv, FreshInv
  <2> QED
    BY <2>1, <2>2, <2>3, <2>4, <2>5, <2>6, <2>7
<1>3. ASSUME NEW t \in Task, Publish(t) PROVE OnceInv'
  BY <1>3, <1>a DEF Publish, MayPublish, BeginSection, plan_replace_victims
<1>4. ASSUME NEW t \in Task, RefusePublish(t) PROVE OnceInv'
  BY <1>4, <1>a DEF RefusePublish, MayPublish, EndRun
<1>5. ASSUME NEW t \in Task, TailResumes(t) PROVE OnceInv'
  <2>a. CASE outcome[t] = "retry"
    <3>1. phase[t] \in {"idle", "done"} /\ (t \in AppendTask => NoTrace(t))
      BY <1>5, <2>a, NoTraceFacts DEF TailResumes
    <3>2. UNCHANGED <<used, unused, victims, phase, op, opOk, outcome, blind>>
      BY <1>5, <2>a DEF TailResumes, EndRun, RetryOrFail
    <3>3. t \in AppendTask => NoTrace(t)'
      BY <1>a, <3>1, <3>2
    <3>4. \A x \in Task : x # t => attempt'[x] = attempt[x] /\ tail'[x] = tail[x]
      BY <1>5, <2>a DEF TailResumes, EndRun, RetryOrFail
    <3>5. t \in AppendTask =>
             \A a \in 1 .. MaxAttempts : /\ <<t, a>> \notin used' \cup unused'
                                         /\ \A u \in Task : <<t, a>> \notin victims'[u]
      BY <3>3 DEF NoTrace
    <3>6. \A x \in Task : NoTrace(x) => NoTrace(x)'
      BY <1>a, <3>2
    <3>7. OnceInv
      OBVIOUS
    <3> HIDE DEF Inv2, Inv, TypeOK, PublishTypeOK, LifeInv, FreshInv
    <3> QED
      BY <3>1, <3>2, <3>3, <3>4, <3>5, <3>6, <3>7
  <2>b. CASE outcome[t] # "retry"
    BY <1>5, <1>a, <2>b DEF TailResumes, EndRun
  <2> QED
    BY <2>a, <2>b
<1>6. ASSUME NEW t \in Task, PersistRow(t) PROVE OnceInv'
  BY <1>6, <1>a DEF PersistRow
<1>7. ASSUME NEW t \in Task, StoreRecord(t) PROVE OnceInv'
  BY <1>7, <1>a DEF StoreRecord
<1>8. ASSUME NEW t \in Task, PersistFails(t) PROVE OnceInv'
  BY <1>8, <1>a DEF PersistFails, Fault, finalize_batch_terminal, FinalState
<1>9. ASSUME NEW t \in Task, TailDies(t) PROVE OnceInv'
  BY <1>9, <1>a DEF TailDies, Fault, DropTailGuard
<1>10. ASSUME NEW t \in Task, ShutdownTask(t) PROVE OnceInv'
  BY <1>10, <1>a DEF ShutdownTask
<1>11. ASSUME NEW t \in Task, Finalize(t) PROVE OnceInv'
  BY <1>11, <1>a DEF Finalize, FenceVerdict, ResolveVerdict, OpResolved,
      ResolveBlindly, Fault, finalize_batch_terminal, FinalState
<1>12. ASSUME NEW t \in Task, RecoverOrphan(t) PROVE OnceInv'
  BY <1>12, <1>a DEF RecoverOrphan, finalize_batch_terminal, FinalState
<1>13. ASSUME NEW t \in Task, FlushRow(t) PROVE OnceInv'
  BY <1>13, <1>a DEF FlushRow
<1>14. ASSUME NEW t \in Task, FlushGivesUp(t) PROVE OnceInv'
  BY <1>14, <1>a DEF FlushGivesUp, Fault
<1>15. ASSUME NEW t \in Task, Upload(t), NoTailStep PROVE OnceInv'
  BY <1>15, <1>a DEF Upload
<1>16. ASSUME NEW t \in Task, UploadFails(t), NoTailStep PROVE OnceInv'
  BY <1>16, <1>a DEF UploadFails, Fault, SetFence, Return
<1>17. ASSUME NEW t \in Task, CommitLands(t), NoTailStep PROVE OnceInv'
  BY <1>17, <1>a DEF CommitLands, replace_segments_txn, OpEnds
<1>18. ASSUME NEW t \in Task, RollbackLands(t), NoTailStep PROVE OnceInv'
  <2>1. op[t] = "rollback" /\ phase[t] \in {"rollback", "dropped", "done"}
    BY <1>18 DEF RollbackLands
  <2>2. UNCHANGED <<victims, phase, outcome, attempt, tail, blind>>
    BY <1>18 DEF RollbackLands
  <2>3. /\ used' = (used \ {SegOf(t)}) \cup victims[t]
        /\ unused' = unused \ (victims[t] \cup {SegOf(t)})
        /\ op' = [op EXCEPT ![t] = "none"] /\ opOk' = [opOk EXCEPT ![t] = TRUE]
    BY <1>18 DEF RollbackLands, rollback_replace_txn, OpEnds
  <2>4. t \notin blind => phase[t] # "done"
    BY <2>1 DEF FenceInv
  <2>5. \A x \in Task : x # t => SegOf(x) # SegOf(t)
    OBVIOUS
  <2>6. \A x \in Task : NoTrace(x) => NoTrace(x)'
    BY <1>a, <2>1, <2>3
  <2>7. ASSUME t \in AppendTask, NoRow(t)' PROVE NoTrace(t)'
    <3>1. phase[t] = "rollback" /\ victims[t] = {}
      BY <2>1, <2>2, <2>3, <2>7
    <3> QED
      BY <2>2, <2>3, <2>7, <3>1 DEF NoTrace
  <2>8. \A x \in Task : /\ x \in AppendTask => victims'[x] = {}
                        /\ phase'[x] \in Live \cup {"dropped"} =>
                              /\ outcome'[x] = "none"
                              /\ \A u \in Task : <<x, attempt'[x]>> \notin victims'[u]
    BY <2>2
  <2>9. \A x \in Task : RowIn(x)' => <<x, attempt'[x]>> \in used' \cup unused'
    <3> SUFFICES ASSUME NEW x \in Task, RowIn(x)' PROVE SegOf(x) \in used' \cup unused'
      BY <2>2
    <3>1. x # t /\ RowIn(x)
      BY <2>1, <2>2, <2>3
    <3> QED
      BY <3>1, <2>3, <2>5
  <2>10. \A x \in AppendTask : ~NoTrace(x)' =>
            tail'[x] # "run" /\ outcome'[x] # "retry" /\ ~NoRow(x)'
    <3> SUFFICES ASSUME NEW x \in AppendTask, ~NoTrace(x)'
                 PROVE  tail[x] # "run" /\ outcome[x] # "retry" /\ ~NoRow(x)'
      BY <2>2
    <3>1. ~NoTrace(x)
      BY <2>6
    <3>2. tail[x] # "run" /\ outcome[x] # "retry" /\ ~NoRow(x)
      BY <3>1, NoTraceFacts
    <3>3. CASE x = t
      BY <2>7, <3>2, <3>3
    <3>4. CASE x # t
      BY <2>2, <2>3, <3>2, <3>4
    <3> QED
      BY <3>3, <3>4
  <2>11. \A x \in AppendTask, a \in 1 .. MaxAttempts :
            a # attempt'[x] => /\ <<x, a>> \notin used' \cup unused'
                               /\ \A u \in Task : <<x, a>> \notin victims'[u]
    BY <2>2, <2>3
  <2>12. \A x \in AppendTask \ blind, a \in 1 .. MaxAttempts, u \in Task :
            <<x, a>> \in victims'[u] => <<x, a>> \in used' \cup unused'
    <3> SUFFICES ASSUME NEW x \in AppendTask \ blind, NEW a \in 1 .. MaxAttempts, NEW u \in Task,
                        <<x, a>> \in victims[u]
                 PROVE  <<x, a>> \in used' \cup unused'
      BY <2>2
    <3>1. <<x, a>> \in used \cup unused /\ a = attempt[x]
      BY TaskAssumption
    <3>2. <<x, a>> # SegOf(t)
      BY <2>1, <2>4, <3>1
    <3> QED
      BY <2>3, <3>1, <3>2
  <2> QED
    BY <2>2, <2>8, <2>9, <2>10, <2>11, <2>12
<1>19. ASSUME NEW t \in Task, OpFails(t), NoTailStep PROVE OnceInv'
  BY <1>19, <1>a DEF OpFails, Fault, OpEnds
<1>20. ASSUME NEW t \in Task, SwapSegments(t), NoTailStep PROVE OnceInv'
  BY <1>20, <1>a DEF SwapSegments, Committed, SetFence, Return
<1>21. ASSUME NEW t \in Task, SwapFails(t), NoTailStep PROVE OnceInv'
  BY <1>21, <1>a DEF SwapFails, Committed, Fault, SetFence
<1>22. ASSUME NEW t \in Task, CommitFailed(t), NoTailStep PROVE OnceInv'
  BY <1>22, <1>a DEF CommitFailed
<1>23. ASSUME NEW t \in Task, RolledBack(t), NoTailStep PROVE OnceInv'
  BY <1>23, <1>a DEF RolledBack, SetFence
<1>24. ASSUME NEW t \in Task, RollbackFailed(t), NoTailStep PROVE OnceInv'
  BY <1>24, <1>a DEF RollbackFailed, DropVictims, SetFence, Return
<1>25. ASSUME NEW t \in Task, Cleanup(t), NoTailStep PROVE OnceInv'
  BY <1>25, <1>a DEF Cleanup, cleanup_orphan_blob, SetFence, Return
<1>26. ASSUME NEW t \in Task, Deadline(t), NoTailStep PROVE OnceInv'
  BY <1>26, <1>a DEF Deadline, cleanup_orphan_blob
<1>27. ASSUME NEW t \in Task, WrapperResolves(t), NoTailStep PROVE OnceInv'
  BY <1>27, <1>a DEF WrapperResolves, Return, ResolveVerdict, OpResolved,
      ResolveBlindly, Fault
<1>28. ASSUME CrashRestart PROVE OnceInv'
  BY <1>28, <1>a DEF CrashRestart, CrashStores, NoSection,
      reconcile_stale_running_batch_tasks
<1>29. CASE UNCHANGED vars
  BY <1>29, <1>a
<1> HIDE DEF Inv2, Landing, OnceInv, FreshInv, Past, NoRow, RowIn, Inv,
    TypeOK, PublishTypeOK, LifeInv, Terminal, Status, Phase, Live, FenceState,
    Outcome, Seg, SegOf
<1> QED
  BY <1>1, <1>2, <1>3, <1>4, <1>5, <1>6, <1>7, <1>8, <1>9, <1>10, <1>11,
      <1>12, <1>13, <1>14, <1>15, <1>16, <1>17, <1>18, <1>19, <1>20, <1>21,
      <1>22, <1>23, <1>24, <1>25, <1>26, <1>27, <1>28, <1>29 DEF Next,
      TailStep, Publication, SectionStep

\* A task that runs without a fence has not published.
LEMMA EntryStep ==
    ASSUME Inv2, [Next]_vars
    PROVE  EntryInv'
<1> USE TaskAssumption, NoTaskAssumption, LimitAssumption, ShutdownAssumption
<1>a. \A x \in Task : NoTrace(x) /\ ~Landing(x) => NoTrace(x)'
  BY NoTraceKept
<1>b. \A x \in Task : durable_batch_commit_for_task(x) /\ op[x] # "rollback" =>
                         durable_batch_commit_for_task(x)'
  BY RowKept
<1> USE DEF Inv2, Landing, EntryInv, OnceInv, Inv, TypeOK, PublishTypeOK,
    LifeInv, Terminal, Status, Phase, Live, FenceState, Outcome, Seg, SegOf,
    vars, publishVars, storeVars, sectionVars, statusVars, registryVars,
    tailVars, finalVars, boundVars, NoTailStep
<1>1. ASSUME NEW t \in Task, SubmitTask(t) PROVE EntryInv'
  <2>1. t \in AppendTask => NoTrace(t)
    BY <1>1, NoTraceFacts DEF SubmitTask
  <2>2. \A x \in Task : NoTrace(x) => NoTrace(x)'
    BY <1>1, <1>a DEF SubmitTask
  <2> QED
    BY <1>1, <2>1, <2>2 DEF SubmitTask
<1>2. ASSUME NEW t \in Task, AttemptFails(t) PROVE EntryInv'
  BY <1>2, <1>a DEF AttemptFails, Fault, RetryOrFail, can_retry
<1>3. ASSUME NEW t \in Task, Publish(t) PROVE EntryInv'
  BY <1>3, <1>a DEF Publish, MayPublish, BeginSection, plan_replace_victims
<1>4. ASSUME NEW t \in Task, RefusePublish(t) PROVE EntryInv'
  BY <1>4, <1>a DEF RefusePublish, MayPublish, EndRun
<1>5. ASSUME NEW t \in Task, TailResumes(t) PROVE EntryInv'
  BY <1>5, <1>a DEF TailResumes, EndRun, RetryOrFail, can_retry
<1>6. ASSUME NEW t \in Task, PersistRow(t) PROVE EntryInv'
  BY <1>6, <1>a DEF PersistRow
<1>7. ASSUME NEW t \in Task, StoreRecord(t) PROVE EntryInv'
  BY <1>7, <1>a DEF StoreRecord
<1>8. ASSUME NEW t \in Task, PersistFails(t) PROVE EntryInv'
  BY <1>8, <1>a DEF PersistFails, Fault, finalize_batch_terminal, FinalState
<1>9. ASSUME NEW t \in Task, TailDies(t) PROVE EntryInv'
  BY <1>9, <1>a DEF TailDies, Fault, DropTailGuard
<1>10. ASSUME NEW t \in Task, ShutdownTask(t) PROVE EntryInv'
  BY <1>10, <1>a DEF ShutdownTask
<1>11. ASSUME NEW t \in Task, Finalize(t) PROVE EntryInv'
  BY <1>11, <1>a DEF Finalize, FenceVerdict, ResolveVerdict, OpResolved,
      ResolveBlindly, Fault, finalize_batch_terminal, FinalState
<1>12. ASSUME NEW t \in Task, RecoverOrphan(t) PROVE EntryInv'
  BY <1>12, <1>a DEF RecoverOrphan, finalize_batch_terminal, FinalState
<1>13. ASSUME NEW t \in Task, FlushRow(t) PROVE EntryInv'
  BY <1>13, <1>a DEF FlushRow
<1>14. ASSUME NEW t \in Task, FlushGivesUp(t) PROVE EntryInv'
  BY <1>14, <1>a DEF FlushGivesUp, Fault
<1>15. ASSUME NEW t \in Task, Upload(t), NoTailStep PROVE EntryInv'
  BY <1>15, <1>a DEF Upload
<1>16. ASSUME NEW t \in Task, UploadFails(t), NoTailStep PROVE EntryInv'
  BY <1>16, <1>a DEF UploadFails, Fault, SetFence, Return
<1>17. ASSUME NEW t \in Task, CommitLands(t), NoTailStep PROVE EntryInv'
  BY <1>17, <1>a DEF CommitLands, replace_segments_txn, OpEnds
<1>18. ASSUME NEW t \in Task, RollbackLands(t), NoTailStep PROVE EntryInv'
  BY <1>18, <1>a DEF RollbackLands, rollback_replace_txn, OpEnds
<1>19. ASSUME NEW t \in Task, OpFails(t), NoTailStep PROVE EntryInv'
  BY <1>19, <1>a DEF OpFails, Fault, OpEnds
<1>20. ASSUME NEW t \in Task, SwapSegments(t), NoTailStep PROVE EntryInv'
  BY <1>20, <1>a DEF SwapSegments, Committed, SetFence, Return
<1>21. ASSUME NEW t \in Task, SwapFails(t), NoTailStep PROVE EntryInv'
  BY <1>21, <1>a DEF SwapFails, Committed, Fault, SetFence
<1>22. ASSUME NEW t \in Task, CommitFailed(t), NoTailStep PROVE EntryInv'
  BY <1>22, <1>a DEF CommitFailed
<1>23. ASSUME NEW t \in Task, RolledBack(t), NoTailStep PROVE EntryInv'
  BY <1>23, <1>a DEF RolledBack, SetFence
<1>24. ASSUME NEW t \in Task, RollbackFailed(t), NoTailStep PROVE EntryInv'
  BY <1>24, <1>a DEF RollbackFailed, DropVictims, SetFence, Return
<1>25. ASSUME NEW t \in Task, Cleanup(t), NoTailStep PROVE EntryInv'
  BY <1>25, <1>a DEF Cleanup, cleanup_orphan_blob, SetFence, Return
<1>26. ASSUME NEW t \in Task, Deadline(t), NoTailStep PROVE EntryInv'
  BY <1>26, <1>a DEF Deadline, cleanup_orphan_blob
<1>27. ASSUME NEW t \in Task, WrapperResolves(t), NoTailStep PROVE EntryInv'
  BY <1>27, <1>a DEF WrapperResolves, Return, ResolveVerdict, OpResolved,
      ResolveBlindly, Fault
<1>28. ASSUME CrashRestart PROVE EntryInv'
  BY <1>28, <1>a DEF CrashRestart, CrashStores, NoSection,
      reconcile_stale_running_batch_tasks
<1>29. CASE UNCHANGED vars
  BY <1>29, <1>a
<1> HIDE DEF Inv2, Landing, EntryInv, OnceInv, Inv, TypeOK, PublishTypeOK,
    LifeInv, Terminal, Status, Phase, Live, FenceState, Outcome, Seg, SegOf
<1> QED
  BY <1>1, <1>2, <1>3, <1>4, <1>5, <1>6, <1>7, <1>8, <1>9, <1>10, <1>11,
      <1>12, <1>13, <1>14, <1>15, <1>16, <1>17, <1>18, <1>19, <1>20, <1>21,
      <1>22, <1>23, <1>24, <1>25, <1>26, <1>27, <1>28, <1>29 DEF Next,
      TailStep, Publication, SectionStep

\* What the fence and the outcome of a section say of the store is true.
LEMMA FenceStep ==
    ASSUME Inv2, [Next]_vars
    PROVE  FenceInv'
<1> USE TaskAssumption, NoTaskAssumption, LimitAssumption, ShutdownAssumption
<1>a. \A x \in Task : NoTrace(x) /\ ~Landing(x) => NoTrace(x)'
  BY NoTraceKept
<1>b. \A x \in Task : durable_batch_commit_for_task(x) /\ op[x] # "rollback" =>
                         durable_batch_commit_for_task(x)'
  BY RowKept
<1> USE DEF Inv2, Landing, EntryInv, FenceInv, OnceInv, NoFenceNoPublication,
    Resolved, RowIn, NoRow, Inv, TypeOK, PublishTypeOK, LifeInv, Terminal,
    Status, Phase, Live, FenceState, Outcome, Seg, SegOf, vars, publishVars,
    storeVars, sectionVars, statusVars, registryVars, tailVars, finalVars,
    boundVars, NoTailStep
<1>1. ASSUME NEW t \in Task, SubmitTask(t) PROVE FenceInv'
  BY <1>1, <1>a, <1>b DEF SubmitTask
<1>2. ASSUME NEW t \in Task, AttemptFails(t) PROVE FenceInv'
  BY <1>2, <1>a, <1>b DEF AttemptFails, Fault, RetryOrFail, can_retry
<1>3. ASSUME NEW t \in Task, Publish(t) PROVE FenceInv'
  BY <1>3, <1>a, <1>b DEF Publish, MayPublish, BeginSection,
      plan_replace_victims
<1>4. ASSUME NEW t \in Task, RefusePublish(t) PROVE FenceInv'
  BY <1>4, <1>a, <1>b DEF RefusePublish, MayPublish, EndRun
<1>5. ASSUME NEW t \in Task, TailResumes(t) PROVE FenceInv'
  BY <1>5, <1>a, <1>b DEF TailResumes, EndRun, RetryOrFail, can_retry
<1>6. ASSUME NEW t \in Task, PersistRow(t) PROVE FenceInv'
  BY <1>6, <1>a, <1>b DEF PersistRow
<1>7. ASSUME NEW t \in Task, StoreRecord(t) PROVE FenceInv'
  BY <1>7, <1>a, <1>b DEF StoreRecord
<1>8. ASSUME NEW t \in Task, PersistFails(t) PROVE FenceInv'
  BY <1>8, <1>a, <1>b DEF PersistFails, Fault, finalize_batch_terminal,
      FinalState
<1>9. ASSUME NEW t \in Task, TailDies(t) PROVE FenceInv'
  BY <1>9, <1>a, <1>b DEF TailDies, Fault, DropTailGuard
<1>10. ASSUME NEW t \in Task, ShutdownTask(t) PROVE FenceInv'
  BY <1>10, <1>a, <1>b DEF ShutdownTask
<1>11. ASSUME NEW t \in Task, Finalize(t) PROVE FenceInv'
  BY <1>11, <1>a, <1>b DEF Finalize, FenceVerdict, ResolveVerdict, OpResolved,
      ResolveBlindly, Fault, finalize_batch_terminal, FinalState
<1>12. ASSUME NEW t \in Task, RecoverOrphan(t) PROVE FenceInv'
  BY <1>12, <1>a, <1>b DEF RecoverOrphan, finalize_batch_terminal, FinalState
<1>13. ASSUME NEW t \in Task, FlushRow(t) PROVE FenceInv'
  BY <1>13, <1>a, <1>b DEF FlushRow
<1>14. ASSUME NEW t \in Task, FlushGivesUp(t) PROVE FenceInv'
  BY <1>14, <1>a, <1>b DEF FlushGivesUp, Fault
<1>15. ASSUME NEW t \in Task, Upload(t), NoTailStep PROVE FenceInv'
  BY <1>15, <1>a, <1>b DEF Upload
<1>16. ASSUME NEW t \in Task, UploadFails(t), NoTailStep PROVE FenceInv'
  <2>1. t \in AppendTask => NoTrace(t)
    BY <1>16, NoTraceFacts DEF UploadFails
  <2> QED
    BY <1>16, <1>a, <1>b, <2>1 DEF UploadFails, Fault, SetFence, Return
<1>17. ASSUME NEW t \in Task, CommitLands(t), NoTailStep PROVE FenceInv'
  BY <1>17, <1>a, <1>b DEF CommitLands, replace_segments_txn, OpEnds
<1>18. ASSUME NEW t \in Task, RollbackLands(t), NoTailStep PROVE FenceInv'
  BY <1>18, <1>a, <1>b DEF RollbackLands, rollback_replace_txn, OpEnds
<1>19. ASSUME NEW t \in Task, OpFails(t), NoTailStep PROVE FenceInv'
  BY <1>19, <1>a, <1>b DEF OpFails, Fault, OpEnds
<1>20. ASSUME NEW t \in Task, SwapSegments(t), NoTailStep PROVE FenceInv'
  <2>1. SegOf(t) \in used \cup unused
    BY <1>20 DEF SwapSegments, Committed
  <2>2. durable_batch_commit_for_task(t)
    BY <2>1 DEF durable_batch_commit_for_task
  <2> QED
    BY <1>20, <1>a, <1>b, <2>2 DEF SwapSegments, Committed, SetFence, Return
<1>21. ASSUME NEW t \in Task, SwapFails(t), NoTailStep PROVE FenceInv'
  BY <1>21, <1>a, <1>b DEF SwapFails, Committed, Fault, SetFence
<1>22. ASSUME NEW t \in Task, CommitFailed(t), NoTailStep PROVE FenceInv'
  BY <1>22, <1>a, <1>b DEF CommitFailed
<1>23. ASSUME NEW t \in Task, RolledBack(t), NoTailStep PROVE FenceInv'
  <2>1. t \in AppendTask => NoTrace(t)
    BY <1>23, NoTraceFacts DEF RolledBack
  <2> QED
    BY <1>23, <1>a, <1>b, <2>1 DEF RolledBack, SetFence
<1>24. ASSUME NEW t \in Task, RollbackFailed(t), NoTailStep PROVE FenceInv'
  <2>1. SegOf(t) \in used \cup unused
    BY <1>24 DEF RollbackFailed
  <2>2. durable_batch_commit_for_task(t)
    BY <2>1 DEF durable_batch_commit_for_task
  <2>3. CASE t \in AppendTask
    BY <1>24, <1>a, <1>b, <2>2, <2>3 DEF RollbackFailed, SetFence, Return
  <2>4. CASE t \notin AppendTask
    BY <1>24, <1>a, <1>b, <2>4 DEF RollbackFailed, SetFence, Return
  <2> QED
    BY <2>3, <2>4
<1>25. ASSUME NEW t \in Task, Cleanup(t), NoTailStep PROVE FenceInv'
  <2>1. t \in AppendTask => NoTrace(t)
    BY <1>25, NoTraceFacts DEF Cleanup
  <2> QED
    BY <1>25, <1>a, <1>b, <2>1 DEF Cleanup, SetFence, Return
<1>26. ASSUME NEW t \in Task, Deadline(t), NoTailStep PROVE FenceInv'
  BY <1>26, <1>a, <1>b DEF Deadline, cleanup_orphan_blob
<1>27. ASSUME NEW t \in Task, WrapperResolves(t), NoTailStep PROVE FenceInv'
  <2>1. PICK committed \in BOOLEAN :
           /\ \/ ResolveVerdict(t, committed) /\ UNCHANGED <<blind, faults>>
              \/ ResolveBlindly(t, committed)
           /\ Return(t, IF committed THEN "committed" ELSE "stop")
    BY <1>27 DEF WrapperResolves
  <2>2. CASE ResolveVerdict(t, committed) /\ UNCHANGED <<blind, faults>>
    <3>1. op[t] = "none"
      BY <2>2 DEF ResolveVerdict, OpResolved
    <3>2. committed => durable_batch_commit_for_task(t)
      BY <2>2 DEF ResolveVerdict
    <3>3. ~committed /\ t \in AppendTask /\ t \notin blind => NoTrace(t)
      BY <2>2, NoRowNoTrace DEF ResolveVerdict
    <3> QED
      BY <1>27, <1>a, <1>b, <2>1, <2>2, <3>1, <3>2, <3>3 DEF WrapperResolves, Return
  <2>3. CASE ResolveBlindly(t, committed)
    BY <1>27, <1>a, <1>b, <2>1, <2>3 DEF WrapperResolves, Return, ResolveBlindly
  <2> QED
    BY <2>1, <2>2, <2>3
<1>28. ASSUME CrashRestart PROVE FenceInv'
  BY <1>28, <1>a, <1>b DEF CrashRestart, CrashStores, NoSection,
      reconcile_stale_running_batch_tasks
<1>29. CASE UNCHANGED vars
  BY <1>29, <1>a, <1>b
<1> HIDE DEF Inv2, Landing, EntryInv, FenceInv, OnceInv, NoFenceNoPublication,
    Resolved, RowIn, NoRow, Inv, TypeOK, PublishTypeOK, LifeInv, Terminal,
    Status, Phase, Live, FenceState, Outcome, Seg, SegOf
<1> QED
  BY <1>1, <1>2, <1>3, <1>4, <1>5, <1>6, <1>7, <1>8, <1>9, <1>10, <1>11,
      <1>12, <1>13, <1>14, <1>15, <1>16, <1>17, <1>18, <1>19, <1>20, <1>21,
      <1>22, <1>23, <1>24, <1>25, <1>26, <1>27, <1>28, <1>29 DEF Next,
      TailStep, Publication, SectionStep

\* A status in the table, the row or the record is true of the store.
LEMMA VerdictStep ==
    ASSUME Inv2, [Next]_vars
    PROVE  VerdictInv'
<1> USE TaskAssumption, NoTaskAssumption, LimitAssumption, ShutdownAssumption
<1>a. \A x \in Task : NoTrace(x) /\ ~Landing(x) => NoTrace(x)'
  BY NoTraceKept
<1>b. \A x \in Task : durable_batch_commit_for_task(x) /\ op[x] # "rollback" =>
                         durable_batch_commit_for_task(x)'
  BY RowKept
<1> USE DEF Inv2, Landing, EntryInv, FenceInv, OnceInv, VerdictInv,
    NoFenceNoPublication, Hopeless, Settled, Closed, MayStillCommit, Resolved,
    Inv, TypeOK, PublishTypeOK, LifeInv, Terminal, Status, Phase, Live,
    FenceState, Outcome, Seg, SegOf, vars, publishVars, storeVars,
    sectionVars, statusVars, registryVars, tailVars, finalVars, boundVars,
    NoTailStep
<1>1. ASSUME NEW t \in Task, SubmitTask(t) PROVE VerdictInv'
  BY <1>1, <1>a, <1>b DEF SubmitTask
<1>2. ASSUME NEW t \in Task, AttemptFails(t) PROVE VerdictInv'
  <2>1. t \in AppendTask => NoTrace(t)
    BY <1>2, NoTraceFacts DEF AttemptFails
  <2> QED
    BY <1>2, <1>a, <1>b, <2>1 DEF AttemptFails, Fault, RetryOrFail
<1>3. ASSUME NEW t \in Task, Publish(t) PROVE VerdictInv'
  BY <1>3, <1>a, <1>b DEF Publish, MayPublish, BeginSection,
      plan_replace_victims
<1>4. ASSUME NEW t \in Task, RefusePublish(t) PROVE VerdictInv'
  <2>1. t \in AppendTask => NoTrace(t)
    BY <1>4, NoTraceFacts DEF RefusePublish
  <2> QED
    BY <1>4, <1>a, <1>b, <2>1 DEF RefusePublish, EndRun
<1>5. ASSUME NEW t \in Task, TailResumes(t) PROVE VerdictInv'
  <2>1. CASE outcome[t] = "committed" /\ EndRun(t, "SUCCESS")
    BY <1>5, <1>a, <1>b, <2>1 DEF TailResumes, EndRun
  <2>2. CASE outcome[t] = "stop" /\ EndRun(t, "FAILED")
    BY <1>5, <1>a, <1>b, <2>2 DEF TailResumes, EndRun
  <2>3. CASE outcome[t] = "retry" /\ RetryOrFail(t)
    <3>1. t \in AppendTask => NoTrace(t)
      BY <2>3, NoTraceFacts
    <3> QED
      BY <1>5, <1>a, <1>b, <2>3, <3>1 DEF TailResumes, RetryOrFail
  <2> QED
    BY <1>5, <2>1, <2>2, <2>3 DEF TailResumes
<1>6. ASSUME NEW t \in Task, PersistRow(t) PROVE VerdictInv'
  BY <1>6, <1>a, <1>b DEF PersistRow
<1>7. ASSUME NEW t \in Task, StoreRecord(t) PROVE VerdictInv'
  BY <1>7, <1>a, <1>b DEF StoreRecord
<1>8. ASSUME NEW t \in Task, PersistFails(t) PROVE VerdictInv'
  BY <1>8, <1>a, <1>b DEF PersistFails, Fault, finalize_batch_terminal,
      FinalState
<1>9. ASSUME NEW t \in Task, TailDies(t) PROVE VerdictInv'
  BY <1>9, <1>a, <1>b DEF TailDies, Fault, DropTailGuard
<1>10. ASSUME NEW t \in Task, ShutdownTask(t) PROVE VerdictInv'
  BY <1>10, <1>a, <1>b DEF ShutdownTask
<1>11. ASSUME NEW t \in Task, Finalize(t) PROVE VerdictInv'
  <2>1. PICK committed \in BOOLEAN :
           /\ \/ FenceVerdict(t, committed) /\ UNCHANGED <<blind, faults>>
              \/ phase[t] \in {"dropped", "done"} /\ ResolveBlindly(t, committed)
           /\ finalize_batch_terminal(t, committed, "FAILED")
    BY <1>11 DEF Finalize
  <2>2. t \notin tails
    BY <1>11 DEF Finalize
  <2>3. CASE FenceVerdict(t, committed) /\ UNCHANGED <<blind, faults>>
    <3>1. op[t] = "none" /\ phase[t] \in {"cleanup", "dropped", "done"}
      BY <2>3 DEF FenceVerdict, ResolveVerdict, OpResolved
    <3>2. committed => durable_batch_commit_for_task(t) /\ phase[t] \in {"dropped", "done"}
      BY <2>3 DEF FenceVerdict, ResolveVerdict
    <3>3. ~committed /\ t \in AppendTask /\ t \notin blind => NoTrace(t)
      BY <2>3, NoRowNoTrace DEF FenceVerdict, ResolveVerdict
    <3> QED
      BY <1>11, <1>a, <1>b, <2>1, <2>2, <2>3, <3>1, <3>2, <3>3
         DEF Finalize, finalize_batch_terminal, FinalState
  <2>4. CASE ResolveBlindly(t, committed)
    BY <1>11, <1>a, <1>b, <2>1, <2>4 DEF Finalize, ResolveBlindly, finalize_batch_terminal
  <2> QED
    BY <2>1, <2>3, <2>4
<1>12. ASSUME NEW t \in Task, RecoverOrphan(t) PROVE VerdictInv'
  BY <1>12, <1>a, <1>b DEF RecoverOrphan, finalize_batch_terminal, FinalState
<1>13. ASSUME NEW t \in Task, FlushRow(t) PROVE VerdictInv'
  BY <1>13, <1>a, <1>b DEF FlushRow
<1>14. ASSUME NEW t \in Task, FlushGivesUp(t) PROVE VerdictInv'
  BY <1>14, <1>a, <1>b DEF FlushGivesUp, Fault
<1>15. ASSUME NEW t \in Task, Upload(t), NoTailStep PROVE VerdictInv'
  BY <1>15, <1>a, <1>b DEF Upload
<1>16. ASSUME NEW t \in Task, UploadFails(t), NoTailStep PROVE VerdictInv'
  BY <1>16, <1>a, <1>b DEF UploadFails, Fault, SetFence, Return
<1>17. ASSUME NEW t \in Task, CommitLands(t), NoTailStep PROVE VerdictInv'
  BY <1>17, <1>a, <1>b DEF CommitLands, replace_segments_txn, OpEnds
<1>18. ASSUME NEW t \in Task, RollbackLands(t), NoTailStep PROVE VerdictInv'
  BY <1>18, <1>a, <1>b DEF RollbackLands, rollback_replace_txn, OpEnds
<1>19. ASSUME NEW t \in Task, OpFails(t), NoTailStep PROVE VerdictInv'
  BY <1>19, <1>a, <1>b DEF OpFails, Fault, OpEnds
<1>20. ASSUME NEW t \in Task, SwapSegments(t), NoTailStep PROVE VerdictInv'
  BY <1>20, <1>a, <1>b DEF SwapSegments, Committed, SetFence, Return
<1>21. ASSUME NEW t \in Task, SwapFails(t), NoTailStep PROVE VerdictInv'
  BY <1>21, <1>a, <1>b DEF SwapFails, Committed, Fault, SetFence
<1>22. ASSUME NEW t \in Task, CommitFailed(t), NoTailStep PROVE VerdictInv'
  BY <1>22, <1>a, <1>b DEF CommitFailed
<1>23. ASSUME NEW t \in Task, RolledBack(t), NoTailStep PROVE VerdictInv'
  BY <1>23, <1>a, <1>b DEF RolledBack, SetFence
<1>24. ASSUME NEW t \in Task, RollbackFailed(t), NoTailStep PROVE VerdictInv'
  BY <1>24, <1>a, <1>b DEF RollbackFailed, DropVictims, SetFence, Return
<1>25. ASSUME NEW t \in Task, Cleanup(t), NoTailStep PROVE VerdictInv'
  BY <1>25, <1>a, <1>b DEF Cleanup, cleanup_orphan_blob, SetFence, Return
<1>26. ASSUME NEW t \in Task, Deadline(t), NoTailStep PROVE VerdictInv'
  BY <1>26, <1>a, <1>b DEF Deadline, cleanup_orphan_blob
<1>27. ASSUME NEW t \in Task, WrapperResolves(t), NoTailStep PROVE VerdictInv'
  BY <1>27, <1>a, <1>b DEF WrapperResolves, Return, ResolveVerdict,
      OpResolved, ResolveBlindly, Fault
<1>28. ASSUME CrashRestart PROVE VerdictInv'
  <2>1. \A x \in Task : ~Landing(x) /\ Closed(x)' /\ op'[x] = "none" /\ phase'[x] = "idle"
    BY <1>28 DEF CrashRestart, CrashStores, NoSection
  <2>2. \A x \in Task : durable_batch_commit_for_task(x) <=> durable_batch_commit_for_task(x)'
    BY <1>28 DEF CrashRestart, CrashStores, durable_batch_commit_for_task
  <2>3. \A x \in Task : ~durable_batch_commit_for_task(x) => NoTrace(x)'
    BY <1>28 DEF CrashRestart, CrashStores, NoSection, durable_batch_commit_for_task, NoTrace
  <2>4. \A x \in Task :
           /\ mem'[x] = "absent" /\ record'[x] = "absent"
           /\ row'[x] = IF row[x] # "RUNNING" THEN row[x]
                        ELSE IF durable_batch_commit_for_task(x) THEN "SUCCESS" ELSE "FAILED"
    BY <1>28 DEF CrashRestart, reconcile_stale_running_batch_tasks
  <2>5. blind' = blind /\ \A x \in Task : NoTrace(x) => NoTrace(x)'
    BY <1>28, <1>a, <2>1 DEF CrashRestart, CrashStores
  <2> QED
    BY <2>1, <2>2, <2>3, <2>4, <2>5
<1>29. CASE UNCHANGED vars
  BY <1>29, <1>a, <1>b
<1> HIDE DEF Inv2, Landing, EntryInv, FenceInv, OnceInv, VerdictInv,
    NoFenceNoPublication, Hopeless, Settled, Closed, MayStillCommit, Resolved,
    Inv, TypeOK, PublishTypeOK, LifeInv, Terminal, Status, Phase, Live,
    FenceState, Outcome, Seg, SegOf
<1> QED
  BY <1>1, <1>2, <1>3, <1>4, <1>5, <1>6, <1>7, <1>8, <1>9, <1>10, <1>11,
      <1>12, <1>13, <1>14, <1>15, <1>16, <1>17, <1>18, <1>19, <1>20, <1>21,
      <1>22, <1>23, <1>24, <1>25, <1>26, <1>27, <1>28, <1>29 DEF Next,
      TailStep, Publication, SectionStep

\* A task without a trace has no durable row.
LEMMA NoTraceNoRow ==
    ASSUME Inv2, NEW t \in Task, NoTrace(t)
    PROVE  ~durable_batch_commit_for_task(t)
  BY DEF Inv2, Inv, TypeOK, PublishTypeOK, Seg, NoTrace, durable_batch_commit_for_task

\* The same of the state after a step.
LEMMA NoTraceNoRowNext ==
    ASSUME Inv2', NEW t \in Task, NoTrace(t)'
    PROVE  ~durable_batch_commit_for_task(t)'
  BY DEF Inv2, Inv, TypeOK, PublishTypeOK, Seg, NoTrace, durable_batch_commit_for_task

\* A blind verdict stays on record.
LEMMA BlindGrows ==
    ASSUME Inv2, [Next]_vars
    PROVE  blind \subseteq blind'
<1> USE TaskAssumption, NoTaskAssumption, LimitAssumption, ShutdownAssumption
<1> USE DEF vars, publishVars, storeVars, sectionVars, statusVars,
    registryVars, tailVars, finalVars, boundVars, NoTailStep
<1>1. ASSUME NEW t \in Task, SubmitTask(t) PROVE blind \subseteq blind'
  BY <1>1 DEF SubmitTask
<1>2. ASSUME NEW t \in Task, AttemptFails(t) PROVE blind \subseteq blind'
  BY <1>2 DEF AttemptFails, Fault, RetryOrFail, can_retry
<1>3. ASSUME NEW t \in Task, Publish(t) PROVE blind \subseteq blind'
  BY <1>3 DEF Publish, MayPublish, BeginSection, plan_replace_victims
<1>4. ASSUME NEW t \in Task, RefusePublish(t) PROVE blind \subseteq blind'
  BY <1>4 DEF RefusePublish, MayPublish, EndRun
<1>5. ASSUME NEW t \in Task, TailResumes(t) PROVE blind \subseteq blind'
  BY <1>5 DEF TailResumes, EndRun, RetryOrFail, can_retry
<1>6. ASSUME NEW t \in Task, PersistRow(t) PROVE blind \subseteq blind'
  BY <1>6 DEF PersistRow
<1>7. ASSUME NEW t \in Task, StoreRecord(t) PROVE blind \subseteq blind'
  BY <1>7 DEF StoreRecord
<1>8. ASSUME NEW t \in Task, PersistFails(t) PROVE blind \subseteq blind'
  BY <1>8 DEF PersistFails, Fault, finalize_batch_terminal, FinalState
<1>9. ASSUME NEW t \in Task, TailDies(t) PROVE blind \subseteq blind'
  BY <1>9 DEF TailDies, Fault, DropTailGuard
<1>10. ASSUME NEW t \in Task, ShutdownTask(t) PROVE blind \subseteq blind'
  BY <1>10 DEF ShutdownTask
<1>11. ASSUME NEW t \in Task, Finalize(t) PROVE blind \subseteq blind'
  BY <1>11 DEF Finalize, FenceVerdict, ResolveVerdict, OpResolved,
      ResolveBlindly, Fault, finalize_batch_terminal, FinalState
<1>12. ASSUME NEW t \in Task, RecoverOrphan(t) PROVE blind \subseteq blind'
  BY <1>12 DEF RecoverOrphan, finalize_batch_terminal, FinalState
<1>13. ASSUME NEW t \in Task, FlushRow(t) PROVE blind \subseteq blind'
  BY <1>13 DEF FlushRow
<1>14. ASSUME NEW t \in Task, FlushGivesUp(t) PROVE blind \subseteq blind'
  BY <1>14 DEF FlushGivesUp, Fault
<1>15. ASSUME NEW t \in Task, Upload(t), NoTailStep PROVE blind \subseteq
    blind'
  BY <1>15 DEF Upload
<1>16. ASSUME NEW t \in Task, UploadFails(t), NoTailStep PROVE blind \subseteq
    blind'
  BY <1>16 DEF UploadFails, Fault, SetFence, Return
<1>17. ASSUME NEW t \in Task, CommitLands(t), NoTailStep PROVE blind \subseteq
    blind'
  BY <1>17 DEF CommitLands, replace_segments_txn, OpEnds
<1>18. ASSUME NEW t \in Task, RollbackLands(t), NoTailStep PROVE blind
    \subseteq blind'
  BY <1>18 DEF RollbackLands, rollback_replace_txn, OpEnds
<1>19. ASSUME NEW t \in Task, OpFails(t), NoTailStep PROVE blind \subseteq
    blind'
  BY <1>19 DEF OpFails, Fault, OpEnds
<1>20. ASSUME NEW t \in Task, SwapSegments(t), NoTailStep PROVE blind
    \subseteq blind'
  BY <1>20 DEF SwapSegments, Committed, SetFence, Return
<1>21. ASSUME NEW t \in Task, SwapFails(t), NoTailStep PROVE blind \subseteq
    blind'
  BY <1>21 DEF SwapFails, Committed, Fault, SetFence
<1>22. ASSUME NEW t \in Task, CommitFailed(t), NoTailStep PROVE blind
    \subseteq blind'
  BY <1>22 DEF CommitFailed
<1>23. ASSUME NEW t \in Task, RolledBack(t), NoTailStep PROVE blind \subseteq
    blind'
  BY <1>23 DEF RolledBack, SetFence
<1>24. ASSUME NEW t \in Task, RollbackFailed(t), NoTailStep PROVE blind
    \subseteq blind'
  BY <1>24 DEF RollbackFailed, DropVictims, SetFence, Return
<1>25. ASSUME NEW t \in Task, Cleanup(t), NoTailStep PROVE blind \subseteq
    blind'
  BY <1>25 DEF Cleanup, cleanup_orphan_blob, SetFence, Return
<1>26. ASSUME NEW t \in Task, Deadline(t), NoTailStep PROVE blind \subseteq
    blind'
  BY <1>26 DEF Deadline, cleanup_orphan_blob
<1>27. ASSUME NEW t \in Task, WrapperResolves(t), NoTailStep PROVE blind
    \subseteq blind'
  BY <1>27 DEF WrapperResolves, Return, ResolveVerdict, OpResolved,
      ResolveBlindly, Fault
<1>28. ASSUME CrashRestart PROVE blind \subseteq blind'
  BY <1>28 DEF CrashRestart, CrashStores, NoSection,
      reconcile_stale_running_batch_tasks
<1>29. CASE UNCHANGED vars
  BY <1>29
<1> QED
  BY <1>1, <1>2, <1>3, <1>4, <1>5, <1>6, <1>7, <1>8, <1>9, <1>10, <1>11,
      <1>12, <1>13, <1>14, <1>15, <1>16, <1>17, <1>18, <1>19, <1>20, <1>21,
      <1>22, <1>23, <1>24, <1>25, <1>26, <1>27, <1>28, <1>29 DEF Next,
      TailStep, Publication, SectionStep

\* A polled terminal status does not become RUNNING or absent again.
LEMMA TerminalKept ==
    ASSUME Inv2, [Next]_vars, NEW x \in Task, Polled(x) \in Terminal
    PROVE  Polled(x)' \in Terminal
<1> USE TaskAssumption, NoTaskAssumption, LimitAssumption, ShutdownAssumption
<1> USE DEF Inv2, EntryInv, Polled, Inv, TypeOK, PublishTypeOK, LifeInv,
    Terminal, Status, Phase, Live, FenceState, Outcome, Seg, SegOf, vars,
    publishVars, storeVars, sectionVars, statusVars, registryVars, tailVars,
    finalVars, boundVars, NoTailStep
<1>1. ASSUME NEW t \in Task, SubmitTask(t) PROVE Polled(x)' \in Terminal
  BY <1>1 DEF SubmitTask
<1>2. ASSUME NEW t \in Task, AttemptFails(t) PROVE Polled(x)' \in Terminal
  BY <1>2 DEF AttemptFails, Fault, RetryOrFail, can_retry
<1>3. ASSUME NEW t \in Task, Publish(t) PROVE Polled(x)' \in Terminal
  BY <1>3 DEF Publish, MayPublish, BeginSection, plan_replace_victims
<1>4. ASSUME NEW t \in Task, RefusePublish(t) PROVE Polled(x)' \in Terminal
  BY <1>4 DEF RefusePublish, MayPublish, EndRun
<1>5. ASSUME NEW t \in Task, TailResumes(t) PROVE Polled(x)' \in Terminal
  BY <1>5 DEF TailResumes, EndRun, RetryOrFail, can_retry
<1>6. ASSUME NEW t \in Task, PersistRow(t) PROVE Polled(x)' \in Terminal
  BY <1>6 DEF PersistRow
<1>7. ASSUME NEW t \in Task, StoreRecord(t) PROVE Polled(x)' \in Terminal
  BY <1>7 DEF StoreRecord
<1>8. ASSUME NEW t \in Task, PersistFails(t) PROVE Polled(x)' \in Terminal
  BY <1>8 DEF PersistFails, Fault, finalize_batch_terminal, FinalState
<1>9. ASSUME NEW t \in Task, TailDies(t) PROVE Polled(x)' \in Terminal
  BY <1>9 DEF TailDies, Fault, DropTailGuard
<1>10. ASSUME NEW t \in Task, ShutdownTask(t) PROVE Polled(x)' \in Terminal
  BY <1>10 DEF ShutdownTask
<1>11. ASSUME NEW t \in Task, Finalize(t) PROVE Polled(x)' \in Terminal
  BY <1>11 DEF Finalize, FenceVerdict, ResolveVerdict, OpResolved,
      ResolveBlindly, Fault, finalize_batch_terminal, FinalState
<1>12. ASSUME NEW t \in Task, RecoverOrphan(t) PROVE Polled(x)' \in Terminal
  BY <1>12 DEF RecoverOrphan, finalize_batch_terminal, FinalState
<1>13. ASSUME NEW t \in Task, FlushRow(t) PROVE Polled(x)' \in Terminal
  BY <1>13 DEF FlushRow
<1>14. ASSUME NEW t \in Task, FlushGivesUp(t) PROVE Polled(x)' \in Terminal
  BY <1>14 DEF FlushGivesUp, Fault
<1>15. ASSUME NEW t \in Task, Upload(t), NoTailStep PROVE Polled(x)' \in
    Terminal
  BY <1>15 DEF Upload
<1>16. ASSUME NEW t \in Task, UploadFails(t), NoTailStep PROVE Polled(x)' \in
    Terminal
  BY <1>16 DEF UploadFails, Fault, SetFence, Return
<1>17. ASSUME NEW t \in Task, CommitLands(t), NoTailStep PROVE Polled(x)' \in
    Terminal
  BY <1>17 DEF CommitLands, replace_segments_txn, OpEnds
<1>18. ASSUME NEW t \in Task, RollbackLands(t), NoTailStep PROVE Polled(x)'
    \in Terminal
  BY <1>18 DEF RollbackLands, rollback_replace_txn, OpEnds
<1>19. ASSUME NEW t \in Task, OpFails(t), NoTailStep PROVE Polled(x)' \in
    Terminal
  BY <1>19 DEF OpFails, Fault, OpEnds
<1>20. ASSUME NEW t \in Task, SwapSegments(t), NoTailStep PROVE Polled(x)' \in
    Terminal
  BY <1>20 DEF SwapSegments, Committed, SetFence, Return
<1>21. ASSUME NEW t \in Task, SwapFails(t), NoTailStep PROVE Polled(x)' \in
    Terminal
  BY <1>21 DEF SwapFails, Committed, Fault, SetFence
<1>22. ASSUME NEW t \in Task, CommitFailed(t), NoTailStep PROVE Polled(x)' \in
    Terminal
  BY <1>22 DEF CommitFailed
<1>23. ASSUME NEW t \in Task, RolledBack(t), NoTailStep PROVE Polled(x)' \in
    Terminal
  BY <1>23 DEF RolledBack, SetFence
<1>24. ASSUME NEW t \in Task, RollbackFailed(t), NoTailStep PROVE Polled(x)'
    \in Terminal
  BY <1>24 DEF RollbackFailed, DropVictims, SetFence, Return
<1>25. ASSUME NEW t \in Task, Cleanup(t), NoTailStep PROVE Polled(x)' \in
    Terminal
  BY <1>25 DEF Cleanup, cleanup_orphan_blob, SetFence, Return
<1>26. ASSUME NEW t \in Task, Deadline(t), NoTailStep PROVE Polled(x)' \in
    Terminal
  BY <1>26 DEF Deadline, cleanup_orphan_blob
<1>27. ASSUME NEW t \in Task, WrapperResolves(t), NoTailStep PROVE Polled(x)'
    \in Terminal
  BY <1>27 DEF WrapperResolves, Return, ResolveVerdict, OpResolved,
      ResolveBlindly, Fault
<1>28. ASSUME CrashRestart PROVE Polled(x)' \in Terminal
  BY <1>28 DEF CrashRestart, CrashStores, NoSection,
      reconcile_stale_running_batch_tasks
<1>29. CASE UNCHANGED vars
  BY <1>29
<1> HIDE DEF Inv2, EntryInv, Polled, Inv, TypeOK, PublishTypeOK, LifeInv,
    Terminal, Status, Phase, Live, FenceState, Outcome, Seg, SegOf
<1> QED
  BY <1>1, <1>2, <1>3, <1>4, <1>5, <1>6, <1>7, <1>8, <1>9, <1>10, <1>11,
      <1>12, <1>13, <1>14, <1>15, <1>16, <1>17, <1>18, <1>19, <1>20, <1>21,
      <1>22, <1>23, <1>24, <1>25, <1>26, <1>27, <1>28, <1>29 DEF Next,
      TailStep, Publication, SectionStep
-------------------------------------------------------------------------------
\* The extended invariant holds before anything is submitted.
LEMMA Inv2Init == Init => Inv2
<1> SUFFICES ASSUME Init PROVE Inv2
  OBVIOUS
<1>1. \A t \in Task : NoTrace(t)
  BY DEF Init, PublishInit, NoTrace
<1>2. OnceInv
  BY <1>1 DEF Init, PublishInit, OnceInv, RowIn, Live, NoTrace
<1>3. EntryInv
  BY <1>1 DEF Init, PublishInit, EntryInv
<1>4. FenceInv
  BY DEF Init, PublishInit, FenceInv, NoFenceNoPublication, Resolved, Live
<1>5. VerdictInv
  BY DEF Init, VerdictInv
<1> QED
  BY InvInit, <1>2, <1>3, <1>4, <1>5 DEF Inv2

\* The extended invariant is inductive.
LEMMA Inv2Step == Inv2 /\ [Next]_vars => Inv2'
  BY InvStep, OnceStep, EntryStep, FenceStep, VerdictStep DEF Inv2

\* In every reachable state the table, the durable row and the tail's record
\* agree with what the publication left, or may still leave, in the store.
THEOREM Inv2Holds == Spec => []Inv2
  BY Inv2Init, Inv2Step, PTL DEF Spec

\* The registry's documented invariant: without a fence in publish_fences, no
\* publication is under way and no store operation is in flight.
THEOREM FenceCoversPublication == Spec => []NoFenceNoPublication
<1>1. Inv2 => NoFenceNoPublication
  BY DEF Inv2, FenceInv
<1> QED
  BY <1>1, Inv2Holds, PTL

\* However often an append is retried after a lost upload, a failed commit or a
\* rolled back swap, at most one used row of it exists.
THEOREM AppendsOnce == Spec => []AppendedOnce
<1>1. ASSUME Inv2 PROVE AppendedOnce
  <2> SUFFICES ASSUME NEW t \in AppendTask
               PROVE  Cardinality({s \in used : s[1] = t}) <= 1
    BY DEF AppendedOnce
  <2> DEFINE rows == {s \in used : s[1] = t}
  <2>1. t \in Task
    BY TaskAssumption
  <2>2. rows \subseteq {SegOf(t)}
    <3> SUFFICES ASSUME NEW s \in used, s[1] = t PROVE s = SegOf(t)
      OBVIOUS
    <3>1. PICK a \in 1 .. MaxAttempts : s = <<t, a>>
      BY <1>1 DEF Inv2, Inv, TypeOK, PublishTypeOK, Seg
    <3>2. a = attempt[t]
      BY <1>1, <2>1, <3>1 DEF Inv2, OnceInv
    <3> QED
      BY <3>1, <3>2 DEF SegOf
  <2>3. rows = {} \/ rows = {SegOf(t)}
    BY <2>2
  <2>4. Cardinality(rows) \in {0, 1}
    BY <2>3, FS_EmptySet, FS_Singleton
  <2> QED
    BY <2>4
<1> QED
  BY <1>1, Inv2Holds, PTL

\* A client that reads FAILED may resubmit an append: no row of it exists and
\* none can appear, whatever shutdown, deadline, panic, failed persist or crash
\* raced the publication (the documented blind verdicts excepted).
THEOREM FailedAppendsAbsent == Spec => []FailedAppendIsAbsent
<1>1. ASSUME Inv2 PROVE FailedAppendIsAbsent
  <2> SUFFICES ASSUME NEW t \in AppendTask \ blind, "FAILED" \in {Polled(t), row[t]}
               PROVE  ~durable_batch_commit_for_task(t) /\ ~MayStillCommit(t)
    BY DEF FailedAppendIsAbsent
  <2>1. t \in Task \ blind
    BY TaskAssumption
  <2>2. Hopeless(t)
    BY <1>1, <2>1 DEF Inv2, VerdictInv, Polled
  <2> QED
    BY <1>1, <2>1, <2>2, NoTraceNoRow DEF Hopeless
<1> QED
  BY <1>1, Inv2Holds, PTL

\* A client that reads SUCCESS never resubmits: the data is durable, under a
\* row that no rollback in flight will delete.
THEOREM SuccessesDurable == Spec => []SuccessIsDurable
<1>1. Inv2 => SuccessIsDurable
  BY DEF Inv2, VerdictInv, Settled, SuccessIsDurable, Polled
<1> QED
  BY <1>1, Inv2Holds, PTL

\* What VerdictIsFinal says of one step.
FinalStep ==
    \A t \in AppendTask \ blind' : Polled(t) \in Terminal => Polled(t)' = Polled(t)

\* A verdict of an append is final: a step that turned it over would have to
\* make its row appear or disappear.
LEMMA FinalHolds == Inv2 /\ Inv2' /\ [Next]_vars => FinalStep
<1> SUFFICES ASSUME Inv2, Inv2', [Next]_vars, NEW t \in AppendTask, t \notin blind',
                    Polled(t) \in Terminal
             PROVE  Polled(t)' = Polled(t)
  BY DEF FinalStep
<1>1. t \in Task /\ t \notin blind
  BY TaskAssumption, BlindGrows
<1>2. Polled(t)' \in Terminal
  BY <1>1, TerminalKept
<1>3. CASE Polled(t) = "FAILED" /\ Polled(t)' = "SUCCESS"
  <2>1. Hopeless(t) /\ Settled(t)'
    BY <1>1, <1>3 DEF Inv2, VerdictInv, Polled
  <2>2. NoTrace(t)'
    BY <1>1, <2>1, NoTraceKept DEF Hopeless, MayStillCommit, Landing
  <2> QED
    BY <1>1, <2>1, <2>2, NoTraceNoRowNext DEF Settled
<1>4. CASE Polled(t) = "SUCCESS" /\ Polled(t)' = "FAILED"
  <2>1. Settled(t) /\ Hopeless(t)'
    BY <1>1, <1>4 DEF Inv2, VerdictInv, Polled
  <2>2. durable_batch_commit_for_task(t)'
    BY <1>1, <2>1, RowKept DEF Settled
  <2> QED
    BY <1>1, <2>1, <2>2, NoTraceNoRowNext DEF Hopeless
<1> QED
  BY <1>2, <1>3, <1>4 DEF Terminal

\* A polled terminal status never changes, across finalizers, late tails,
\* persists that fail and restarts.
THEOREM VerdictsAreFinal == Spec => VerdictIsFinal
<1>1. Inv2 /\ Inv2' /\ [Next]_vars => [FinalStep]_vars
  BY FinalHolds
<1> QED
  BY <1>1, Inv2Holds, PTL DEF Spec, VerdictIsFinal, FinalStep

-------------------------------------------------------------------------------
\* The Historical gets a segment when its section ends, not before.
LEMMA LoadStep ==
    ASSUME Inv2, ServeInv, Slow \subseteq AppendTask, [Next]_vars
    PROVE  LoadInv'
<1> USE TaskAssumption, NoTaskAssumption, LimitAssumption, ShutdownAssumption
<1> USE DEF Inv2, ServeInv, LoadInv, FreshInv, Past, Inv, TypeOK,
    PublishTypeOK, LifeInv, Terminal, Status, Phase, Live, FenceState,
    Outcome, Seg, SegOf, vars, publishVars, storeVars, sectionVars,
    statusVars, registryVars, tailVars, finalVars, boundVars, NoTailStep
<1>1. ASSUME NEW t \in Task, SubmitTask(t) PROVE LoadInv'
  BY <1>1 DEF SubmitTask
<1>2. ASSUME NEW t \in Task, AttemptFails(t) PROVE LoadInv'
  BY <1>2 DEF AttemptFails, Fault, RetryOrFail, can_retry
<1>3. ASSUME NEW t \in Task, Publish(t) PROVE LoadInv'
  BY <1>3 DEF Publish, MayPublish, BeginSection, plan_replace_victims
<1>4. ASSUME NEW t \in Task, RefusePublish(t) PROVE LoadInv'
  BY <1>4 DEF RefusePublish, MayPublish, EndRun
<1>5. ASSUME NEW t \in Task, TailResumes(t) PROVE LoadInv'
  BY <1>5 DEF TailResumes, EndRun, RetryOrFail, can_retry
<1>6. ASSUME NEW t \in Task, PersistRow(t) PROVE LoadInv'
  BY <1>6 DEF PersistRow
<1>7. ASSUME NEW t \in Task, StoreRecord(t) PROVE LoadInv'
  BY <1>7 DEF StoreRecord
<1>8. ASSUME NEW t \in Task, PersistFails(t) PROVE LoadInv'
  BY <1>8 DEF PersistFails, Fault, finalize_batch_terminal, FinalState
<1>9. ASSUME NEW t \in Task, TailDies(t) PROVE LoadInv'
  BY <1>9 DEF TailDies, Fault, DropTailGuard
<1>10. ASSUME NEW t \in Task, ShutdownTask(t) PROVE LoadInv'
  BY <1>10 DEF ShutdownTask
<1>11. ASSUME NEW t \in Task, Finalize(t) PROVE LoadInv'
  BY <1>11 DEF Finalize, FenceVerdict, ResolveVerdict, OpResolved,
      ResolveBlindly, Fault, finalize_batch_terminal, FinalState
<1>12. ASSUME NEW t \in Task, RecoverOrphan(t) PROVE LoadInv'
  BY <1>12 DEF RecoverOrphan, finalize_batch_terminal, FinalState
<1>13. ASSUME NEW t \in Task, FlushRow(t) PROVE LoadInv'
  BY <1>13 DEF FlushRow
<1>14. ASSUME NEW t \in Task, FlushGivesUp(t) PROVE LoadInv'
  BY <1>14 DEF FlushGivesUp, Fault
<1>15. ASSUME NEW t \in Task, Upload(t), NoTailStep PROVE LoadInv'
  BY <1>15 DEF Upload
<1>16. ASSUME NEW t \in Task, UploadFails(t), NoTailStep PROVE LoadInv'
  BY <1>16 DEF UploadFails, Fault, SetFence, Return
<1>17. ASSUME NEW t \in Task, CommitLands(t), NoTailStep PROVE LoadInv'
  BY <1>17 DEF CommitLands, replace_segments_txn, OpEnds
<1>18. ASSUME NEW t \in Task, RollbackLands(t), NoTailStep PROVE LoadInv'
  BY <1>18 DEF RollbackLands, rollback_replace_txn, OpEnds
<1>19. ASSUME NEW t \in Task, OpFails(t), NoTailStep PROVE LoadInv'
  BY <1>19 DEF OpFails, Fault, OpEnds
<1>20. ASSUME NEW t \in Task, SwapSegments(t), NoTailStep PROVE LoadInv'
  <2>1. phase[t] = "commit" /\ op[t] = "none" /\ tail[t] # "run"
    BY <1>20 DEF SwapSegments, Committed
  <2>2. /\ loaded' \subseteq loaded \cup {SegOf(t)}
        /\ phase' = [phase EXCEPT ![t] = "done"]
        /\ UNCHANGED <<op, attempt, tail>>
    BY <1>20 DEF SwapSegments, Return
  <2>3. \A x \in Task : x # t => SegOf(x) # SegOf(t)
    OBVIOUS
  <2>4. \A x \in Task : phase'[x] \in Live \cup {"dropped"} \/ op'[x] # "none" =>
           <<x, attempt'[x]>> \notin loaded'
    BY <2>1, <2>2, <2>3
  <2>5. Past(t, attempt[t])
    BY <2>1
  <2>6. \A x \in Task, a \in 1 .. MaxAttempts : <<x, a>> \in loaded' => Past(x, a)
    BY <2>2, <2>5
  <2> QED
    BY <2>2, <2>4, <2>6
<1>21. ASSUME NEW t \in Task, SwapFails(t), NoTailStep PROVE LoadInv'
  BY <1>21 DEF SwapFails, Committed, Fault, SetFence
<1>22. ASSUME NEW t \in Task, CommitFailed(t), NoTailStep PROVE LoadInv'
  BY <1>22 DEF CommitFailed
<1>23. ASSUME NEW t \in Task, RolledBack(t), NoTailStep PROVE LoadInv'
  BY <1>23 DEF RolledBack, SetFence
<1>24. ASSUME NEW t \in Task, RollbackFailed(t), NoTailStep PROVE LoadInv'
  BY <1>24 DEF RollbackFailed, DropVictims, SetFence, Return
<1>25. ASSUME NEW t \in Task, Cleanup(t), NoTailStep PROVE LoadInv'
  BY <1>25 DEF Cleanup, cleanup_orphan_blob, SetFence, Return
<1>26. ASSUME NEW t \in Task, Deadline(t), NoTailStep PROVE LoadInv'
  BY <1>26 DEF Deadline, cleanup_orphan_blob
<1>27. ASSUME NEW t \in Task, WrapperResolves(t), NoTailStep PROVE LoadInv'
  BY <1>27 DEF WrapperResolves, Return, ResolveVerdict, OpResolved,
      ResolveBlindly, Fault
<1>28. ASSUME CrashRestart PROVE LoadInv'
  BY <1>28 DEF CrashRestart, CrashStores, NoSection,
      reconcile_stale_running_batch_tasks
<1>29. CASE UNCHANGED vars
  BY <1>29
<1> HIDE DEF Inv2, ServeInv, LoadInv, FreshInv, Past, Inv, TypeOK,
    PublishTypeOK, LifeInv, Terminal, Status, Phase, Live, FenceState,
    Outcome, Seg, SegOf
<1> QED
  BY <1>1, <1>2, <1>3, <1>4, <1>5, <1>6, <1>7, <1>8, <1>9, <1>10, <1>11,
      <1>12, <1>13, <1>14, <1>15, <1>16, <1>17, <1>18, <1>19, <1>20, <1>21,
      <1>22, <1>23, <1>24, <1>25, <1>26, <1>27, <1>28, <1>29 DEF Next,
      TailStep, Publication, SectionStep

\* A replace holds the publish lock until its last store operation has ended.
LEMMA LockStep ==
    ASSUME Inv2, ServeInv, Slow \subseteq AppendTask, [Next]_vars
    PROVE  LockInv'
<1> USE TaskAssumption, NoTaskAssumption, LimitAssumption, ShutdownAssumption
<1> USE DEF Inv2, ServeInv, LockInv, FenceInv, Resolved, Inv, TypeOK,
    PublishTypeOK, LifeInv, Terminal, Status, Phase, Live, FenceState,
    Outcome, Seg, SegOf, vars, publishVars, storeVars, sectionVars,
    statusVars, registryVars, tailVars, finalVars, boundVars, NoTailStep
<1>1. ASSUME NEW t \in Task, SubmitTask(t) PROVE LockInv'
  BY <1>1 DEF SubmitTask
<1>2. ASSUME NEW t \in Task, AttemptFails(t) PROVE LockInv'
  BY <1>2 DEF AttemptFails, Fault, RetryOrFail, can_retry
<1>3. ASSUME NEW t \in Task, Publish(t) PROVE LockInv'
  BY <1>3 DEF Publish, MayPublish, BeginSection, plan_replace_victims
<1>4. ASSUME NEW t \in Task, RefusePublish(t) PROVE LockInv'
  BY <1>4 DEF RefusePublish, MayPublish, EndRun
<1>5. ASSUME NEW t \in Task, TailResumes(t) PROVE LockInv'
  BY <1>5 DEF TailResumes, EndRun, RetryOrFail, can_retry
<1>6. ASSUME NEW t \in Task, PersistRow(t) PROVE LockInv'
  BY <1>6 DEF PersistRow
<1>7. ASSUME NEW t \in Task, StoreRecord(t) PROVE LockInv'
  BY <1>7 DEF StoreRecord
<1>8. ASSUME NEW t \in Task, PersistFails(t) PROVE LockInv'
  BY <1>8 DEF PersistFails, Fault, finalize_batch_terminal, FinalState
<1>9. ASSUME NEW t \in Task, TailDies(t) PROVE LockInv'
  BY <1>9 DEF TailDies, Fault, DropTailGuard
<1>10. ASSUME NEW t \in Task, ShutdownTask(t) PROVE LockInv'
  BY <1>10 DEF ShutdownTask
<1>11. ASSUME NEW t \in Task, Finalize(t) PROVE LockInv'
  BY <1>11 DEF Finalize, FenceVerdict, ResolveVerdict, OpResolved,
      ResolveBlindly, Fault, finalize_batch_terminal, FinalState
<1>12. ASSUME NEW t \in Task, RecoverOrphan(t) PROVE LockInv'
  BY <1>12 DEF RecoverOrphan, finalize_batch_terminal, FinalState
<1>13. ASSUME NEW t \in Task, FlushRow(t) PROVE LockInv'
  BY <1>13 DEF FlushRow
<1>14. ASSUME NEW t \in Task, FlushGivesUp(t) PROVE LockInv'
  BY <1>14 DEF FlushGivesUp, Fault
<1>15. ASSUME NEW t \in Task, Upload(t), NoTailStep PROVE LockInv'
  BY <1>15 DEF Upload
<1>16. ASSUME NEW t \in Task, UploadFails(t), NoTailStep PROVE LockInv'
  BY <1>16 DEF UploadFails, Fault, SetFence, Return
<1>17. ASSUME NEW t \in Task, CommitLands(t), NoTailStep PROVE LockInv'
  BY <1>17 DEF CommitLands, replace_segments_txn, OpEnds
<1>18. ASSUME NEW t \in Task, RollbackLands(t), NoTailStep PROVE LockInv'
  BY <1>18 DEF RollbackLands, rollback_replace_txn, OpEnds
<1>19. ASSUME NEW t \in Task, OpFails(t), NoTailStep PROVE LockInv'
  BY <1>19 DEF OpFails, Fault, OpEnds
<1>20. ASSUME NEW t \in Task, SwapSegments(t), NoTailStep PROVE LockInv'
  BY <1>20 DEF SwapSegments, Committed, SetFence, Return
<1>21. ASSUME NEW t \in Task, SwapFails(t), NoTailStep PROVE LockInv'
  BY <1>21 DEF SwapFails, Committed, Fault, SetFence
<1>22. ASSUME NEW t \in Task, CommitFailed(t), NoTailStep PROVE LockInv'
  BY <1>22 DEF CommitFailed
<1>23. ASSUME NEW t \in Task, RolledBack(t), NoTailStep PROVE LockInv'
  BY <1>23 DEF RolledBack, SetFence
<1>24. ASSUME NEW t \in Task, RollbackFailed(t), NoTailStep PROVE LockInv'
  BY <1>24 DEF RollbackFailed, DropVictims, SetFence, Return
<1>25. ASSUME NEW t \in Task, Cleanup(t), NoTailStep PROVE LockInv'
  BY <1>25 DEF Cleanup, cleanup_orphan_blob, SetFence, Return
<1>26. ASSUME NEW t \in Task, Deadline(t), NoTailStep PROVE LockInv'
  BY <1>26 DEF Deadline, cleanup_orphan_blob
<1>27. ASSUME NEW t \in Task, WrapperResolves(t), NoTailStep PROVE LockInv'
  BY <1>27 DEF WrapperResolves, Return, ResolveVerdict, OpResolved,
      ResolveBlindly, Fault
<1>28. ASSUME CrashRestart PROVE LockInv'
  BY <1>28 DEF CrashRestart, CrashStores, NoSection,
      reconcile_stale_running_batch_tasks
<1>29. CASE UNCHANGED vars
  BY <1>29
<1> HIDE DEF Inv2, ServeInv, LockInv, FenceInv, Resolved, Inv, TypeOK,
    PublishTypeOK, LifeInv, Terminal, Status, Phase, Live, FenceState,
    Outcome, Seg, SegOf
<1> QED
  BY <1>1, <1>2, <1>3, <1>4, <1>5, <1>6, <1>7, <1>8, <1>9, <1>10, <1>11,
      <1>12, <1>13, <1>14, <1>15, <1>16, <1>17, <1>18, <1>19, <1>20, <1>21,
      <1>22, <1>23, <1>24, <1>25, <1>26, <1>27, <1>28, <1>29 DEF Next,
      TailStep, Publication, SectionStep

\* A committed row stays used until its section ends.
LEMMA UsedStep ==
    ASSUME Inv2, ServeInv, Slow \subseteq AppendTask, [Next]_vars
    PROVE  UsedInv'
<1> USE TaskAssumption, NoTaskAssumption, LimitAssumption, ShutdownAssumption
<1> USE DEF Inv2, ServeInv, UsedInv, LockInv, OnceInv, RowIn, Inv, TypeOK,
    PublishTypeOK, LifeInv, Terminal, Status, Phase, Live, FenceState,
    Outcome, Seg, SegOf, vars, publishVars, storeVars, sectionVars,
    statusVars, registryVars, tailVars, finalVars, boundVars, NoTailStep
<1>1. ASSUME NEW t \in Task, SubmitTask(t) PROVE UsedInv'
  BY <1>1 DEF SubmitTask
<1>2. ASSUME NEW t \in Task, AttemptFails(t) PROVE UsedInv'
  BY <1>2 DEF AttemptFails, Fault, RetryOrFail, can_retry
<1>3. ASSUME NEW t \in Task, Publish(t) PROVE UsedInv'
  BY <1>3 DEF Publish, MayPublish, BeginSection, plan_replace_victims
<1>4. ASSUME NEW t \in Task, RefusePublish(t) PROVE UsedInv'
  BY <1>4 DEF RefusePublish, MayPublish, EndRun
<1>5. ASSUME NEW t \in Task, TailResumes(t) PROVE UsedInv'
  BY <1>5 DEF TailResumes, EndRun, RetryOrFail, can_retry
<1>6. ASSUME NEW t \in Task, PersistRow(t) PROVE UsedInv'
  BY <1>6 DEF PersistRow
<1>7. ASSUME NEW t \in Task, StoreRecord(t) PROVE UsedInv'
  BY <1>7 DEF StoreRecord
<1>8. ASSUME NEW t \in Task, PersistFails(t) PROVE UsedInv'
  BY <1>8 DEF PersistFails, Fault, finalize_batch_terminal, FinalState
<1>9. ASSUME NEW t \in Task, TailDies(t) PROVE UsedInv'
  BY <1>9 DEF TailDies, Fault, DropTailGuard
<1>10. ASSUME NEW t \in Task, ShutdownTask(t) PROVE UsedInv'
  BY <1>10 DEF ShutdownTask
<1>11. ASSUME NEW t \in Task, Finalize(t) PROVE UsedInv'
  BY <1>11 DEF Finalize, FenceVerdict, ResolveVerdict, OpResolved,
      ResolveBlindly, Fault, finalize_batch_terminal, FinalState
<1>12. ASSUME NEW t \in Task, RecoverOrphan(t) PROVE UsedInv'
  BY <1>12 DEF RecoverOrphan, finalize_batch_terminal, FinalState
<1>13. ASSUME NEW t \in Task, FlushRow(t) PROVE UsedInv'
  BY <1>13 DEF FlushRow
<1>14. ASSUME NEW t \in Task, FlushGivesUp(t) PROVE UsedInv'
  BY <1>14 DEF FlushGivesUp, Fault
<1>15. ASSUME NEW t \in Task, Upload(t), NoTailStep PROVE UsedInv'
  BY <1>15 DEF Upload
<1>16. ASSUME NEW t \in Task, UploadFails(t), NoTailStep PROVE UsedInv'
  BY <1>16 DEF UploadFails, Fault, SetFence, Return
<1>17. ASSUME NEW t \in Task, CommitLands(t), NoTailStep PROVE UsedInv'
  BY <1>17 DEF CommitLands, replace_segments_txn, OpEnds
<1>18. ASSUME NEW t \in Task, RollbackLands(t), NoTailStep PROVE UsedInv'
  BY <1>18 DEF RollbackLands, rollback_replace_txn, OpEnds
<1>19. ASSUME NEW t \in Task, OpFails(t), NoTailStep PROVE UsedInv'
  BY <1>19 DEF OpFails, Fault, OpEnds
<1>20. ASSUME NEW t \in Task, SwapSegments(t), NoTailStep PROVE UsedInv'
  BY <1>20 DEF SwapSegments, Committed, SetFence, Return
<1>21. ASSUME NEW t \in Task, SwapFails(t), NoTailStep PROVE UsedInv'
  BY <1>21 DEF SwapFails, Committed, Fault, SetFence
<1>22. ASSUME NEW t \in Task, CommitFailed(t), NoTailStep PROVE UsedInv'
  BY <1>22 DEF CommitFailed
<1>23. ASSUME NEW t \in Task, RolledBack(t), NoTailStep PROVE UsedInv'
  BY <1>23 DEF RolledBack, SetFence
<1>24. ASSUME NEW t \in Task, RollbackFailed(t), NoTailStep PROVE UsedInv'
  BY <1>24 DEF RollbackFailed, DropVictims, SetFence, Return
<1>25. ASSUME NEW t \in Task, Cleanup(t), NoTailStep PROVE UsedInv'
  BY <1>25 DEF Cleanup, cleanup_orphan_blob, SetFence, Return
<1>26. ASSUME NEW t \in Task, Deadline(t), NoTailStep PROVE UsedInv'
  BY <1>26 DEF Deadline, cleanup_orphan_blob
<1>27. ASSUME NEW t \in Task, WrapperResolves(t), NoTailStep PROVE UsedInv'
  BY <1>27 DEF WrapperResolves, Return, ResolveVerdict, OpResolved,
      ResolveBlindly, Fault
<1>28. ASSUME CrashRestart PROVE UsedInv'
  BY <1>28 DEF CrashRestart, CrashStores, NoSection,
      reconcile_stale_running_batch_tasks
<1>29. CASE UNCHANGED vars
  BY <1>29
<1> HIDE DEF Inv2, ServeInv, UsedInv, LockInv, OnceInv, RowIn, Inv, TypeOK,
    PublishTypeOK, LifeInv, Terminal, Status, Phase, Live, FenceState,
    Outcome, Seg, SegOf
<1> QED
  BY <1>1, <1>2, <1>3, <1>4, <1>5, <1>6, <1>7, <1>8, <1>9, <1>10, <1>11,
      <1>12, <1>13, <1>14, <1>15, <1>16, <1>17, <1>18, <1>19, <1>20, <1>21,
      <1>22, <1>23, <1>24, <1>25, <1>26, <1>27, <1>28, <1>29 DEF Next,
      TailStep, Publication, SectionStep

\* A retired segment is served only until the swap or its compensation.
LEMMA RetireStep ==
    ASSUME Inv2, ServeInv, Slow \subseteq AppendTask, [Next]_vars
    PROVE  RetireInv'
<1> USE TaskAssumption, NoTaskAssumption, LimitAssumption, ShutdownAssumption
<1> USE DEF Inv2, ServeInv, RetireInv, UsedInv, LockInv, LoadInv, OnceInv,
    RowIn, Inv, TypeOK, PublishTypeOK, LifeInv, Terminal, Status, Phase, Live,
    FenceState, Outcome, Seg, SegOf, vars, publishVars, storeVars,
    sectionVars, statusVars, registryVars, tailVars, finalVars, boundVars,
    NoTailStep
<1>1. ASSUME NEW t \in Task, SubmitTask(t) PROVE RetireInv'
  BY <1>1 DEF SubmitTask
<1>2. ASSUME NEW t \in Task, AttemptFails(t) PROVE RetireInv'
  BY <1>2 DEF AttemptFails, Fault, RetryOrFail, can_retry
<1>3. ASSUME NEW t \in Task, Publish(t) PROVE RetireInv'
  BY <1>3 DEF Publish, MayPublish, BeginSection, plan_replace_victims
<1>4. ASSUME NEW t \in Task, RefusePublish(t) PROVE RetireInv'
  BY <1>4 DEF RefusePublish, MayPublish, EndRun
<1>5. ASSUME NEW t \in Task, TailResumes(t) PROVE RetireInv'
  BY <1>5 DEF TailResumes, EndRun, RetryOrFail, can_retry
<1>6. ASSUME NEW t \in Task, PersistRow(t) PROVE RetireInv'
  BY <1>6 DEF PersistRow
<1>7. ASSUME NEW t \in Task, StoreRecord(t) PROVE RetireInv'
  BY <1>7 DEF StoreRecord
<1>8. ASSUME NEW t \in Task, PersistFails(t) PROVE RetireInv'
  BY <1>8 DEF PersistFails, Fault, finalize_batch_terminal, FinalState
<1>9. ASSUME NEW t \in Task, TailDies(t) PROVE RetireInv'
  BY <1>9 DEF TailDies, Fault, DropTailGuard
<1>10. ASSUME NEW t \in Task, ShutdownTask(t) PROVE RetireInv'
  BY <1>10 DEF ShutdownTask
<1>11. ASSUME NEW t \in Task, Finalize(t) PROVE RetireInv'
  BY <1>11 DEF Finalize, FenceVerdict, ResolveVerdict, OpResolved,
      ResolveBlindly, Fault, finalize_batch_terminal, FinalState
<1>12. ASSUME NEW t \in Task, RecoverOrphan(t) PROVE RetireInv'
  BY <1>12 DEF RecoverOrphan, finalize_batch_terminal, FinalState
<1>13. ASSUME NEW t \in Task, FlushRow(t) PROVE RetireInv'
  BY <1>13 DEF FlushRow
<1>14. ASSUME NEW t \in Task, FlushGivesUp(t) PROVE RetireInv'
  BY <1>14 DEF FlushGivesUp, Fault
<1>15. ASSUME NEW t \in Task, Upload(t), NoTailStep PROVE RetireInv'
  BY <1>15 DEF Upload
<1>16. ASSUME NEW t \in Task, UploadFails(t), NoTailStep PROVE RetireInv'
  BY <1>16 DEF UploadFails, Fault, SetFence, Return
<1>17. ASSUME NEW t \in Task, CommitLands(t), NoTailStep PROVE RetireInv'
  <2>1. /\ used' = (used \ victims[t]) \cup {SegOf(t)}
        /\ op' = [op EXCEPT ![t] = "none"] /\ opOk' = [opOk EXCEPT ![t] = TRUE]
        /\ UNCHANGED <<loaded, phase, victims>>
    BY <1>17 DEF CommitLands, replace_segments_txn, OpEnds
  <2>2. op[t] = "commit" /\ ~RowIn(t)
    BY <1>17 DEF CommitLands
  <2> SUFFICES ASSUME NEW s \in loaded, s \notin used'
               PROVE  \E x \in Task : RowIn(x)' /\ s \in victims[x]
    BY <2>1
  <2>3. CASE s \notin used
    <3>1. PICK x \in Task : RowIn(x) /\ s \in victims[x]
      BY <2>3
    <3>2. RowIn(x)'
      BY <2>1, <2>2, <3>1
    <3> QED
      BY <3>1, <3>2
  <2>4. CASE s \in used
    <3>1. s \in victims[t] /\ t \notin AppendTask
      BY <2>1, <2>4
    <3>2. holder = t
      BY <2>2, <3>1
    <3>3. phase[t] = "commit"
      BY <2>2, <3>1, <3>2
    <3> QED
      BY <2>1, <3>1, <3>3
  <2> QED
    BY <2>3, <2>4
<1>18. ASSUME NEW t \in Task, RollbackLands(t), NoTailStep PROVE RetireInv'
  BY <1>18 DEF RollbackLands, rollback_replace_txn, OpEnds
<1>19. ASSUME NEW t \in Task, OpFails(t), NoTailStep PROVE RetireInv'
  BY <1>19 DEF OpFails, Fault, OpEnds
<1>20. ASSUME NEW t \in Task, SwapSegments(t), NoTailStep PROVE RetireInv'
  BY <1>20 DEF SwapSegments, Committed, SetFence, Return
<1>21. ASSUME NEW t \in Task, SwapFails(t), NoTailStep PROVE RetireInv'
  BY <1>21 DEF SwapFails, Committed, Fault, SetFence
<1>22. ASSUME NEW t \in Task, CommitFailed(t), NoTailStep PROVE RetireInv'
  BY <1>22 DEF CommitFailed
<1>23. ASSUME NEW t \in Task, RolledBack(t), NoTailStep PROVE RetireInv'
  BY <1>23 DEF RolledBack, SetFence
<1>24. ASSUME NEW t \in Task, RollbackFailed(t), NoTailStep PROVE RetireInv'
  BY <1>24 DEF RollbackFailed, DropVictims, SetFence, Return
<1>25. ASSUME NEW t \in Task, Cleanup(t), NoTailStep PROVE RetireInv'
  BY <1>25 DEF Cleanup, cleanup_orphan_blob, SetFence, Return
<1>26. ASSUME NEW t \in Task, Deadline(t), NoTailStep PROVE RetireInv'
  BY <1>26 DEF Deadline, cleanup_orphan_blob
<1>27. ASSUME NEW t \in Task, WrapperResolves(t), NoTailStep PROVE RetireInv'
  BY <1>27 DEF WrapperResolves, Return, ResolveVerdict, OpResolved,
      ResolveBlindly, Fault
<1>28. ASSUME CrashRestart PROVE RetireInv'
  BY <1>28 DEF CrashRestart, CrashStores, NoSection,
      reconcile_stale_running_batch_tasks
<1>29. CASE UNCHANGED vars
  BY <1>29
<1> HIDE DEF Inv2, ServeInv, RetireInv, UsedInv, LockInv, LoadInv, OnceInv,
    RowIn, Inv, TypeOK, PublishTypeOK, LifeInv, Terminal, Status, Phase, Live,
    FenceState, Outcome, Seg, SegOf
<1> QED
  BY <1>1, <1>2, <1>3, <1>4, <1>5, <1>6, <1>7, <1>8, <1>9, <1>10, <1>11,
      <1>12, <1>13, <1>14, <1>15, <1>16, <1>17, <1>18, <1>19, <1>20, <1>21,
      <1>22, <1>23, <1>24, <1>25, <1>26, <1>27, <1>28, <1>29 DEF Next,
      TailStep, Publication, SectionStep

\* While nobody publishes, the Historical serves only used rows, provided that
\* no replace runs into its publish deadline (one that does may be dropped
\* between its commit and its swap: the run on replaces shows what follows).
THEOREM ServedAreUsed ==
    ASSUME Slow \subseteq AppendTask
    PROVE  Spec => []ServedIsUsed
<1>1. Init => ServeInv
  BY DEF Init, PublishInit, ServeInv, LoadInv, LockInv, UsedInv, RetireInv, RowIn, Live
<1>2. Inv2 /\ ServeInv /\ [Next]_vars => ServeInv'
  BY LoadStep, LockStep, UsedStep, RetireStep DEF ServeInv
<1>3. ASSUME Inv2, ServeInv PROVE ServedIsUsed
  <2> SUFFICES ASSUME holder = NoTask PROVE loaded \subseteq used
    BY DEF ServedIsUsed
  <2>1. \A t \in Task : phase[t] \notin Live
    BY <1>3, NoTaskAssumption DEF Inv2, Inv, TypeOK
  <2>2. \A t \in Task : ~RowIn(t)
    BY <2>1 DEF RowIn, Live
  <2> QED
    BY <1>3, <2>2 DEF ServeInv, RetireInv
<1> QED
  BY <1>1, <1>2, <1>3, Inv2Holds, PTL DEF Spec
===============================================================================
