---------------------------- MODULE BatchTaskProofs ----------------------------
(***************************************************************************)
(* Proofs about BatchTask, for every set of tasks, every choice of append  *)
(* and slow tasks and every value of the bounds.                           *)
(*                                                                         *)
(* UsedRowHasBlob is not inductive: a rollback in flight puts its victims  *)
(* back, and a cleanup deletes a blob while other tasks have transactions  *)
(* in flight.  BlobInv adds what keeps the two apart: the blobs a live     *)
(* section may still commit to or restore exist, the segment of a live     *)
(* section is nobody's victim, and it is not used until its commit lands.  *)
(* That needs segment names to be fresh (FreshInv), which needs the order  *)
(* in which a task goes through its tail and its section (LifeInv).        *)
(***************************************************************************)
EXTENDS BatchTask, TLAPS

LifeInv ==
    \A t \in Task :
       /\ row[t] = "absent" => /\ attempt[t] = 0 /\ phase[t] = "idle"
                               /\ op[t] = "none" /\ tail[t] = "none"
       /\ tail[t] = "run" => phase[t] \in {"idle", "done"} /\ op[t] = "none"
       /\ tail[t] # "none" => attempt[t] # 0
       /\ phase[t] # "idle" => attempt[t] # 0
       /\ phase[t] \in {"idle", "upload", "cleanup"} => op[t] = "none"
       /\ phase[t] = "commit" => op[t] # "rollback"
       /\ phase[t] = "rollback" => op[t] # "commit"
       /\ phase[t] = "done" => outcome[t] # "none"
       /\ phase[t] = "done" /\ outcome[t] = "retry" => op[t] = "none"
       /\ tail[t] \in {"persist", "store"} => record[t] \in Terminal

\* The attempts of t whose names may be in use: none that t has yet to make.
Past(t, a) == a <= attempt[t] /\ (tail[t] = "run" => a < attempt[t])

FreshInv ==
    \A t \in Task, a \in 1 .. MaxAttempts :
       /\ <<t, a>> \in used => Past(t, a)
       /\ \A u \in Task : <<t, a>> \in victims[u] => Past(t, a)

\* u may still turn its victims into used rows again.
MayRestore(u) == phase[u] \in Live \/ op[u] = "rollback"

\* The row of t's segment is not there yet, or not any more.
NoRow(t) ==
    \/ phase[t] \in {"upload", "cleanup"}
    \/ phase[t] = "commit" /\ (op[t] = "commit" \/ ~opOk[t])
    \/ phase[t] = "rollback" /\ op[t] = "none" /\ opOk[t]

BlobInv ==
    /\ UsedRowHasBlob
    /\ \A t \in Task :
          /\ phase[t] \in {"commit", "rollback"} \/ op[t] # "none" => SegOf(t) \in blobs
          /\ MayRestore(t) => victims[t] \subseteq blobs
          /\ NoRow(t) => SegOf(t) \notin used
          /\ phase[t] \in Live =>
                \A u \in Task : MayRestore(u) => SegOf(t) \notin victims[u]

Inv == TypeOK /\ LifeInv /\ FreshInv /\ BlobInv

-------------------------------------------------------------------------------
\* A step of a publication leaves the tails and the registry alone.
NoTailStep == UNCHANGED <<statusVars, registryVars, tailVars, finalVars, boundVars>>

\* Every action keeps every variable within its type, and the publish lock
\* with the section that owns it.
LEMMA TypeStep ==
    ASSUME Inv, [Next]_vars
    PROVE  TypeOK'
<1> USE TaskAssumption, NoTaskAssumption, LimitAssumption, ShutdownAssumption
<1> USE DEF Inv, TypeOK, PublishTypeOK, LifeInv, Terminal, Status, Phase,
    Live, FenceState, Outcome, Seg, SegOf, vars, publishVars, storeVars,
    sectionVars, statusVars, registryVars, tailVars, finalVars, boundVars,
    NoTailStep
<1>1. ASSUME NEW t \in Task, SubmitTask(t) PROVE TypeOK'
  BY <1>1 DEF SubmitTask
<1>2. ASSUME NEW t \in Task, AttemptFails(t) PROVE TypeOK'
  BY <1>2 DEF AttemptFails, Fault, RetryOrFail, can_retry
<1>3. ASSUME NEW t \in Task, Publish(t) PROVE TypeOK'
  BY <1>3 DEF Publish, BeginSection, plan_replace_victims
<1>4. ASSUME NEW t \in Task, RefusePublish(t) PROVE TypeOK'
  BY <1>4 DEF RefusePublish, EndRun
<1>5. ASSUME NEW t \in Task, TailResumes(t) PROVE TypeOK'
  BY <1>5 DEF TailResumes, EndRun, RetryOrFail, can_retry
<1>6. ASSUME NEW t \in Task, PersistRow(t) PROVE TypeOK'
  BY <1>6 DEF PersistRow
<1>7. ASSUME NEW t \in Task, StoreRecord(t) PROVE TypeOK'
  BY <1>7 DEF StoreRecord
<1>8. ASSUME NEW t \in Task, PersistFails(t) PROVE TypeOK'
  BY <1>8 DEF PersistFails, Fault, finalize_batch_terminal, FinalState
<1>9. ASSUME NEW t \in Task, TailDies(t) PROVE TypeOK'
  BY <1>9 DEF TailDies, Fault, DropTailGuard
<1>10. ASSUME NEW t \in Task, ShutdownTask(t) PROVE TypeOK'
  BY <1>10 DEF ShutdownTask
<1>11. ASSUME NEW t \in Task, Finalize(t) PROVE TypeOK'
  BY <1>11 DEF Finalize, ResolveBlindly, Fault, finalize_batch_terminal,
      FinalState
<1>12. ASSUME NEW t \in Task, RecoverOrphan(t) PROVE TypeOK'
  BY <1>12 DEF RecoverOrphan, finalize_batch_terminal, FinalState
<1>13. ASSUME NEW t \in Task, FlushRow(t) PROVE TypeOK'
  BY <1>13 DEF FlushRow
<1>14. ASSUME NEW t \in Task, FlushGivesUp(t) PROVE TypeOK'
  BY <1>14 DEF FlushGivesUp, Fault
<1>15. ASSUME NEW t \in Task, Upload(t), NoTailStep PROVE TypeOK'
  BY <1>15 DEF Upload
<1>16. ASSUME NEW t \in Task, UploadFails(t), NoTailStep PROVE TypeOK'
  BY <1>16 DEF UploadFails, Fault, SetFence, Return
<1>17. ASSUME NEW t \in Task, CommitLands(t), NoTailStep PROVE TypeOK'
  BY <1>17 DEF CommitLands, replace_segments_txn, OpEnds
<1>18. ASSUME NEW t \in Task, RollbackLands(t), NoTailStep PROVE TypeOK'
  BY <1>18 DEF RollbackLands, rollback_replace_txn, OpEnds
<1>19. ASSUME NEW t \in Task, OpFails(t), NoTailStep PROVE TypeOK'
  BY <1>19 DEF OpFails, Fault, OpEnds
<1>20. ASSUME NEW t \in Task, SwapSegments(t), NoTailStep PROVE TypeOK'
  BY <1>20 DEF SwapSegments, Committed, SetFence, Return
<1>21. ASSUME NEW t \in Task, SwapFails(t), NoTailStep PROVE TypeOK'
  BY <1>21 DEF SwapFails, Committed, Fault, SetFence
<1>22. ASSUME NEW t \in Task, CommitFailed(t), NoTailStep PROVE TypeOK'
  BY <1>22 DEF CommitFailed
<1>23. ASSUME NEW t \in Task, RolledBack(t), NoTailStep PROVE TypeOK'
  BY <1>23 DEF RolledBack, SetFence
<1>24. ASSUME NEW t \in Task, RollbackFailed(t), NoTailStep PROVE TypeOK'
  BY <1>24 DEF RollbackFailed, DropVictims, SetFence, Return
<1>25. ASSUME NEW t \in Task, Cleanup(t), NoTailStep PROVE TypeOK'
  BY <1>25 DEF Cleanup, cleanup_orphan_blob, SetFence, Return
<1>26. ASSUME NEW t \in Task, Deadline(t), NoTailStep PROVE TypeOK'
  BY <1>26 DEF Deadline, cleanup_orphan_blob
<1>27. ASSUME NEW t \in Task, WrapperResolves(t), NoTailStep PROVE TypeOK'
  BY <1>27 DEF WrapperResolves, Return, ResolveBlindly, Fault
<1>28. ASSUME CrashRestart PROVE TypeOK'
  BY <1>28 DEF CrashRestart, CrashStores, NoSection,
      reconcile_stale_running_batch_tasks
<1>29. CASE UNCHANGED vars
  BY <1>29
<1> QED
  BY <1>1, <1>2, <1>3, <1>4, <1>5, <1>6, <1>7, <1>8, <1>9, <1>10, <1>11,
      <1>12, <1>13, <1>14, <1>15, <1>16, <1>17, <1>18, <1>19, <1>20, <1>21,
      <1>22, <1>23, <1>24, <1>25, <1>26, <1>27, <1>28, <1>29 DEF Next, TailStep, Publication, SectionStep

\* Tails, sections and store operations keep their order.
LEMMA LifeStep ==
    ASSUME Inv, [Next]_vars
    PROVE  LifeInv'
<1> USE TaskAssumption, NoTaskAssumption, LimitAssumption, ShutdownAssumption
<1> USE DEF Inv, TypeOK, PublishTypeOK, LifeInv, Terminal, Status, Phase,
    Live, Outcome, vars, publishVars, storeVars, sectionVars, statusVars,
    registryVars, tailVars, finalVars, boundVars, NoTailStep
<1>1. ASSUME NEW t \in Task, SubmitTask(t) PROVE LifeInv'
  BY <1>1 DEF SubmitTask
<1>2. ASSUME NEW t \in Task, AttemptFails(t) PROVE LifeInv'
  BY <1>2 DEF AttemptFails, Fault, RetryOrFail, can_retry
<1>3. ASSUME NEW t \in Task, Publish(t) PROVE LifeInv'
  BY <1>3 DEF Publish, BeginSection, plan_replace_victims
<1>4. ASSUME NEW t \in Task, RefusePublish(t) PROVE LifeInv'
  BY <1>4 DEF RefusePublish, EndRun
<1>5. ASSUME NEW t \in Task, TailResumes(t) PROVE LifeInv'
  BY <1>5 DEF TailResumes, EndRun, RetryOrFail, can_retry
<1>6. ASSUME NEW t \in Task, PersistRow(t) PROVE LifeInv'
  BY <1>6 DEF PersistRow
<1>7. ASSUME NEW t \in Task, StoreRecord(t) PROVE LifeInv'
  BY <1>7 DEF StoreRecord
<1>8. ASSUME NEW t \in Task, PersistFails(t) PROVE LifeInv'
  BY <1>8 DEF PersistFails, Fault, finalize_batch_terminal, FinalState
<1>9. ASSUME NEW t \in Task, TailDies(t) PROVE LifeInv'
  BY <1>9 DEF TailDies, Fault, DropTailGuard
<1>10. ASSUME NEW t \in Task, ShutdownTask(t) PROVE LifeInv'
  BY <1>10 DEF ShutdownTask
<1>11. ASSUME NEW t \in Task, Finalize(t) PROVE LifeInv'
  BY <1>11 DEF Finalize, ResolveBlindly, Fault, finalize_batch_terminal,
      FinalState
<1>12. ASSUME NEW t \in Task, RecoverOrphan(t) PROVE LifeInv'
  BY <1>12 DEF RecoverOrphan, finalize_batch_terminal, FinalState
<1>13. ASSUME NEW t \in Task, FlushRow(t) PROVE LifeInv'
  BY <1>13 DEF FlushRow
<1>14. ASSUME NEW t \in Task, FlushGivesUp(t) PROVE LifeInv'
  BY <1>14 DEF FlushGivesUp, Fault
<1>15. ASSUME NEW t \in Task, Upload(t), NoTailStep PROVE LifeInv'
  BY <1>15 DEF Upload
<1>16. ASSUME NEW t \in Task, UploadFails(t), NoTailStep PROVE LifeInv'
  BY <1>16 DEF UploadFails, Fault, SetFence, Return
<1>17. ASSUME NEW t \in Task, CommitLands(t), NoTailStep PROVE LifeInv'
  BY <1>17 DEF CommitLands, replace_segments_txn, OpEnds
<1>18. ASSUME NEW t \in Task, RollbackLands(t), NoTailStep PROVE LifeInv'
  BY <1>18 DEF RollbackLands, rollback_replace_txn, OpEnds
<1>19. ASSUME NEW t \in Task, OpFails(t), NoTailStep PROVE LifeInv'
  BY <1>19 DEF OpFails, Fault, OpEnds
<1>20. ASSUME NEW t \in Task, SwapSegments(t), NoTailStep PROVE LifeInv'
  BY <1>20 DEF SwapSegments, Committed, SetFence, Return
<1>21. ASSUME NEW t \in Task, SwapFails(t), NoTailStep PROVE LifeInv'
  BY <1>21 DEF SwapFails, Committed, Fault, SetFence
<1>22. ASSUME NEW t \in Task, CommitFailed(t), NoTailStep PROVE LifeInv'
  BY <1>22 DEF CommitFailed
<1>23. ASSUME NEW t \in Task, RolledBack(t), NoTailStep PROVE LifeInv'
  BY <1>23 DEF RolledBack, SetFence
<1>24. ASSUME NEW t \in Task, RollbackFailed(t), NoTailStep PROVE LifeInv'
  BY <1>24 DEF RollbackFailed, DropVictims, SetFence, Return
<1>25. ASSUME NEW t \in Task, Cleanup(t), NoTailStep PROVE LifeInv'
  BY <1>25 DEF Cleanup, cleanup_orphan_blob, SetFence, Return
<1>26. ASSUME NEW t \in Task, Deadline(t), NoTailStep PROVE LifeInv'
  BY <1>26 DEF Deadline, cleanup_orphan_blob
<1>27. ASSUME NEW t \in Task, WrapperResolves(t), NoTailStep PROVE LifeInv'
  BY <1>27 DEF WrapperResolves, Return, ResolveBlindly, Fault
<1>28. ASSUME CrashRestart PROVE LifeInv'
  BY <1>28 DEF CrashRestart, CrashStores, NoSection,
      reconcile_stale_running_batch_tasks
<1>29. CASE UNCHANGED vars
  BY <1>29
<1> QED
  BY <1>1, <1>2, <1>3, <1>4, <1>5, <1>6, <1>7, <1>8, <1>9, <1>10, <1>11,
      <1>12, <1>13, <1>14, <1>15, <1>16, <1>17, <1>18, <1>19, <1>20, <1>21,
      <1>22, <1>23, <1>24, <1>25, <1>26, <1>27, <1>28, <1>29 DEF Next, TailStep, Publication, SectionStep

\* A segment name in use belongs to an attempt already made.
LEMMA FreshStep ==
    ASSUME Inv, [Next]_vars
    PROVE  FreshInv'
<1> USE TaskAssumption, NoTaskAssumption, LimitAssumption, ShutdownAssumption
<1> USE DEF Inv, TypeOK, PublishTypeOK, LifeInv, FreshInv, Past, Seg, SegOf,
    Phase, Live, vars, publishVars, storeVars, sectionVars, statusVars,
    registryVars, tailVars, finalVars, boundVars, NoTailStep
<1>1. ASSUME NEW t \in Task, SubmitTask(t) PROVE FreshInv'
  <2> SUFFICES ASSUME NEW x \in Task, NEW a \in 1 .. MaxAttempts
               PROVE  /\ (<<x, a>> \in used => Past(x, a))'
                      /\ \A u \in Task : (<<x, a>> \in victims[u] => Past(x, a))'
    OBVIOUS
  <2>1. /\ <<x, a>> \in used => Past(x, a)
        /\ \A u \in Task : <<x, a>> \in victims[u] => Past(x, a)
    OBVIOUS
  <2>2. attempt[t] \in Nat /\ attempt[x] \in Nat /\ a \in Nat \ {0}
    OBVIOUS
  <2>3. CASE x = t
    BY <1>1, <2>1, <2>2, <2>3 DEF SubmitTask
  <2>4. CASE x # t
    BY <1>1, <2>1, <2>2, <2>4 DEF SubmitTask
  <2> QED
    BY <2>3, <2>4
<1>2. ASSUME NEW t \in Task, AttemptFails(t) PROVE FreshInv'
  <2> SUFFICES ASSUME NEW x \in Task, NEW a \in 1 .. MaxAttempts
               PROVE  /\ (<<x, a>> \in used => Past(x, a))'
                      /\ \A u \in Task : (<<x, a>> \in victims[u] => Past(x, a))'
    OBVIOUS
  <2>1. /\ <<x, a>> \in used => Past(x, a)
        /\ \A u \in Task : <<x, a>> \in victims[u] => Past(x, a)
    OBVIOUS
  <2>2. attempt[t] \in Nat /\ attempt[x] \in Nat /\ a \in Nat \ {0}
    OBVIOUS
  <2>3. CASE x = t
    BY <1>2, <2>1, <2>2, <2>3 DEF AttemptFails, Fault, RetryOrFail, can_retry
  <2>4. CASE x # t
    BY <1>2, <2>1, <2>2, <2>4 DEF AttemptFails, Fault, RetryOrFail, can_retry
  <2> QED
    BY <2>3, <2>4
<1>3. ASSUME NEW t \in Task, Publish(t) PROVE FreshInv'
  BY <1>3 DEF Publish, BeginSection, plan_replace_victims
<1>4. ASSUME NEW t \in Task, RefusePublish(t) PROVE FreshInv'
  BY <1>4 DEF RefusePublish, EndRun
<1>5. ASSUME NEW t \in Task, TailResumes(t) PROVE FreshInv'
  <2> SUFFICES ASSUME NEW x \in Task, NEW a \in 1 .. MaxAttempts
               PROVE  /\ (<<x, a>> \in used => Past(x, a))'
                      /\ \A u \in Task : (<<x, a>> \in victims[u] => Past(x, a))'
    OBVIOUS
  <2>1. /\ <<x, a>> \in used => Past(x, a)
        /\ \A u \in Task : <<x, a>> \in victims[u] => Past(x, a)
    OBVIOUS
  <2>2. attempt[t] \in Nat /\ attempt[x] \in Nat /\ a \in Nat \ {0}
    OBVIOUS
  <2>3. CASE outcome[t] = "retry" /\ RetryOrFail(t)
    BY <1>5, <2>1, <2>2, <2>3 DEF TailResumes, RetryOrFail, can_retry
  <2>4. CASE EndRun(t, "SUCCESS") \/ EndRun(t, "FAILED")
    BY <1>5, <2>1, <2>2, <2>4 DEF TailResumes, EndRun
  <2> QED
    BY <1>5, <2>3, <2>4 DEF TailResumes
<1>6. ASSUME NEW t \in Task, PersistRow(t) PROVE FreshInv'
  BY <1>6 DEF PersistRow
<1>7. ASSUME NEW t \in Task, StoreRecord(t) PROVE FreshInv'
  BY <1>7 DEF StoreRecord
<1>8. ASSUME NEW t \in Task, PersistFails(t) PROVE FreshInv'
  BY <1>8 DEF PersistFails, Fault, finalize_batch_terminal, FinalState
<1>9. ASSUME NEW t \in Task, TailDies(t) PROVE FreshInv'
  BY <1>9 DEF TailDies, Fault, DropTailGuard
<1>10. ASSUME NEW t \in Task, ShutdownTask(t) PROVE FreshInv'
  BY <1>10 DEF ShutdownTask
<1>11. ASSUME NEW t \in Task, Finalize(t) PROVE FreshInv'
  BY <1>11 DEF Finalize, ResolveBlindly, Fault, finalize_batch_terminal,
      FinalState
<1>12. ASSUME NEW t \in Task, RecoverOrphan(t) PROVE FreshInv'
  BY <1>12 DEF RecoverOrphan, finalize_batch_terminal, FinalState
<1>13. ASSUME NEW t \in Task, FlushRow(t) PROVE FreshInv'
  BY <1>13 DEF FlushRow
<1>14. ASSUME NEW t \in Task, FlushGivesUp(t) PROVE FreshInv'
  BY <1>14 DEF FlushGivesUp, Fault
<1>15. ASSUME NEW t \in Task, Upload(t), NoTailStep PROVE FreshInv'
  BY <1>15 DEF Upload
<1>16. ASSUME NEW t \in Task, UploadFails(t), NoTailStep PROVE FreshInv'
  BY <1>16 DEF UploadFails, Fault, SetFence, Return
<1>17. ASSUME NEW t \in Task, CommitLands(t), NoTailStep PROVE FreshInv'
  <2> SUFFICES ASSUME NEW x \in Task, NEW a \in 1 .. MaxAttempts
               PROVE  /\ (<<x, a>> \in used => Past(x, a))'
                      /\ \A u \in Task : (<<x, a>> \in victims[u] => Past(x, a))'
    OBVIOUS
  <2>1. /\ <<x, a>> \in used => Past(x, a)
        /\ \A u \in Task : <<x, a>> \in victims[u] => Past(x, a)
    OBVIOUS
  <2>2. attempt[t] \in Nat /\ attempt[x] \in Nat /\ a \in Nat \ {0}
    OBVIOUS
  <2>3. CASE x = t
    BY <1>17, <2>1, <2>2, <2>3 DEF CommitLands, replace_segments_txn, OpEnds
  <2>4. CASE x # t
    BY <1>17, <2>1, <2>2, <2>4 DEF CommitLands, replace_segments_txn, OpEnds
  <2> QED
    BY <2>3, <2>4
<1>18. ASSUME NEW t \in Task, RollbackLands(t), NoTailStep PROVE FreshInv'
  BY <1>18 DEF RollbackLands, rollback_replace_txn, OpEnds
<1>19. ASSUME NEW t \in Task, OpFails(t), NoTailStep PROVE FreshInv'
  BY <1>19 DEF OpFails, Fault, OpEnds
<1>20. ASSUME NEW t \in Task, SwapSegments(t), NoTailStep PROVE FreshInv'
  BY <1>20 DEF SwapSegments, Committed, SetFence, Return
<1>21. ASSUME NEW t \in Task, SwapFails(t), NoTailStep PROVE FreshInv'
  BY <1>21 DEF SwapFails, Committed, Fault, SetFence
<1>22. ASSUME NEW t \in Task, CommitFailed(t), NoTailStep PROVE FreshInv'
  BY <1>22 DEF CommitFailed
<1>23. ASSUME NEW t \in Task, RolledBack(t), NoTailStep PROVE FreshInv'
  BY <1>23 DEF RolledBack, SetFence
<1>24. ASSUME NEW t \in Task, RollbackFailed(t), NoTailStep PROVE FreshInv'
  BY <1>24 DEF RollbackFailed, DropVictims, SetFence, Return
<1>25. ASSUME NEW t \in Task, Cleanup(t), NoTailStep PROVE FreshInv'
  BY <1>25 DEF Cleanup, cleanup_orphan_blob, SetFence, Return
<1>26. ASSUME NEW t \in Task, Deadline(t), NoTailStep PROVE FreshInv'
  BY <1>26 DEF Deadline, cleanup_orphan_blob
<1>27. ASSUME NEW t \in Task, WrapperResolves(t), NoTailStep PROVE FreshInv'
  BY <1>27 DEF WrapperResolves, Return, ResolveBlindly, Fault
<1>28. ASSUME CrashRestart PROVE FreshInv'
  BY <1>28 DEF CrashRestart, CrashStores, NoSection,
      reconcile_stale_running_batch_tasks
<1>29. CASE UNCHANGED vars
  BY <1>29
<1> QED
  BY <1>1, <1>2, <1>3, <1>4, <1>5, <1>6, <1>7, <1>8, <1>9, <1>10, <1>11,
      <1>12, <1>13, <1>14, <1>15, <1>16, <1>17, <1>18, <1>19, <1>20, <1>21,
      <1>22, <1>23, <1>24, <1>25, <1>26, <1>27, <1>28, <1>29 DEF Next, TailStep, Publication, SectionStep

\* No step deletes a blob that a row names or may name again.
LEMMA BlobStep ==
    ASSUME Inv, [Next]_vars
    PROVE  BlobInv'
<1> USE TaskAssumption, NoTaskAssumption, LimitAssumption, ShutdownAssumption
<1> USE DEF Inv, TypeOK, PublishTypeOK, LifeInv, FreshInv, Past, BlobInv,
    UsedRowHasBlob, MayRestore, NoRow, Seg, SegOf, Phase, Live, vars,
    publishVars, storeVars, sectionVars, statusVars, registryVars, tailVars,
    finalVars, boundVars, NoTailStep
<1>1. ASSUME NEW t \in Task, SubmitTask(t) PROVE BlobInv'
  BY <1>1 DEF SubmitTask
<1>2. ASSUME NEW t \in Task, AttemptFails(t) PROVE BlobInv'
  BY <1>2 DEF AttemptFails, Fault, RetryOrFail, can_retry
<1>3. ASSUME NEW t \in Task, Publish(t) PROVE BlobInv'
  BY <1>3 DEF Publish, BeginSection, plan_replace_victims
<1>4. ASSUME NEW t \in Task, RefusePublish(t) PROVE BlobInv'
  BY <1>4 DEF RefusePublish, EndRun
<1>5. ASSUME NEW t \in Task, TailResumes(t) PROVE BlobInv'
  BY <1>5 DEF TailResumes, EndRun, RetryOrFail, can_retry
<1>6. ASSUME NEW t \in Task, PersistRow(t) PROVE BlobInv'
  BY <1>6 DEF PersistRow
<1>7. ASSUME NEW t \in Task, StoreRecord(t) PROVE BlobInv'
  BY <1>7 DEF StoreRecord
<1>8. ASSUME NEW t \in Task, PersistFails(t) PROVE BlobInv'
  BY <1>8 DEF PersistFails, Fault, finalize_batch_terminal, FinalState
<1>9. ASSUME NEW t \in Task, TailDies(t) PROVE BlobInv'
  BY <1>9 DEF TailDies, Fault, DropTailGuard
<1>10. ASSUME NEW t \in Task, ShutdownTask(t) PROVE BlobInv'
  BY <1>10 DEF ShutdownTask
<1>11. ASSUME NEW t \in Task, Finalize(t) PROVE BlobInv'
  BY <1>11 DEF Finalize, ResolveBlindly, Fault, finalize_batch_terminal,
      FinalState
<1>12. ASSUME NEW t \in Task, RecoverOrphan(t) PROVE BlobInv'
  BY <1>12 DEF RecoverOrphan, finalize_batch_terminal, FinalState
<1>13. ASSUME NEW t \in Task, FlushRow(t) PROVE BlobInv'
  BY <1>13 DEF FlushRow
<1>14. ASSUME NEW t \in Task, FlushGivesUp(t) PROVE BlobInv'
  BY <1>14 DEF FlushGivesUp, Fault
<1>15. ASSUME NEW t \in Task, Upload(t), NoTailStep PROVE BlobInv'
  BY <1>15 DEF Upload
<1>16. ASSUME NEW t \in Task, UploadFails(t), NoTailStep PROVE BlobInv'
  BY <1>16 DEF UploadFails, Fault, SetFence, Return
<1>17. ASSUME NEW t \in Task, CommitLands(t), NoTailStep PROVE BlobInv'
  BY <1>17 DEF CommitLands, replace_segments_txn, OpEnds
<1>18. ASSUME NEW t \in Task, RollbackLands(t), NoTailStep PROVE BlobInv'
  BY <1>18 DEF RollbackLands, rollback_replace_txn, OpEnds
<1>19. ASSUME NEW t \in Task, OpFails(t), NoTailStep PROVE BlobInv'
  BY <1>19 DEF OpFails, Fault, OpEnds
<1>20. ASSUME NEW t \in Task, SwapSegments(t), NoTailStep PROVE BlobInv'
  BY <1>20 DEF SwapSegments, Committed, SetFence, Return
<1>21. ASSUME NEW t \in Task, SwapFails(t), NoTailStep PROVE BlobInv'
  BY <1>21 DEF SwapFails, Committed, Fault, SetFence
<1>22. ASSUME NEW t \in Task, CommitFailed(t), NoTailStep PROVE BlobInv'
  BY <1>22 DEF CommitFailed
<1>23. ASSUME NEW t \in Task, RolledBack(t), NoTailStep PROVE BlobInv'
  BY <1>23 DEF RolledBack, SetFence
<1>24. ASSUME NEW t \in Task, RollbackFailed(t), NoTailStep PROVE BlobInv'
  BY <1>24 DEF RollbackFailed, DropVictims, SetFence, Return
<1>25. ASSUME NEW t \in Task, Cleanup(t), NoTailStep PROVE BlobInv'
  BY <1>25 DEF Cleanup, cleanup_orphan_blob, SetFence, Return
<1>26. ASSUME NEW t \in Task, Deadline(t), NoTailStep PROVE BlobInv'
  BY <1>26 DEF Deadline, cleanup_orphan_blob
<1>27. ASSUME NEW t \in Task, WrapperResolves(t), NoTailStep PROVE BlobInv'
  BY <1>27 DEF WrapperResolves, Return, ResolveBlindly, Fault
<1>28. ASSUME CrashRestart PROVE BlobInv'
  BY <1>28 DEF CrashRestart, CrashStores, NoSection,
      reconcile_stale_running_batch_tasks
<1>29. CASE UNCHANGED vars
  BY <1>29
<1> QED
  BY <1>1, <1>2, <1>3, <1>4, <1>5, <1>6, <1>7, <1>8, <1>9, <1>10, <1>11,
      <1>12, <1>13, <1>14, <1>15, <1>16, <1>17, <1>18, <1>19, <1>20, <1>21,
      <1>22, <1>23, <1>24, <1>25, <1>26, <1>27, <1>28, <1>29 DEF Next, TailStep, Publication, SectionStep

-------------------------------------------------------------------------------
\* A freshly started Overlord, nothing submitted and nothing stored, is in Inv.
LEMMA InvInit == Init => Inv
  BY TaskAssumption, NoTaskAssumption, LimitAssumption, ShutdownAssumption
     DEF Init, PublishInit, Inv, TypeOK, PublishTypeOK, LifeInv, FreshInv, BlobInv,
         UsedRowHasBlob, MayRestore, NoRow, Terminal, Status, Phase, Live, FenceState,
         Outcome, Seg, SegOf

\* Inv is inductive: no step of a tail, a publication, a finalizer or a crash
\* leaves it.
LEMMA InvStep == Inv /\ [Next]_vars => Inv'
  BY TypeStep, LifeStep, FreshStep, BlobStep DEF Inv

\* Inv holds in every reachable state of the batch-task specification.
THEOREM InvHolds == Spec => []Inv
  BY InvInit, InvStep, PTL DEF Spec

\* Type correctness of the Overlord's batch tables and stores, the publish
\* lock included: it is held by exactly one section, the live or dropped one.
THEOREM BatchTypeCorrect == Spec => []TypeOK
<1>1. Inv => TypeOK
  BY DEF Inv
<1> QED
  BY <1>1, InvHolds, PTL

\* Whatever fails, times out, is retried, shut down or crashes, for any number
\* of tasks and attempts, every used segment row has its blob in deep storage:
\* bootstrap_reload_segments never finds a committed segment missing.
THEOREM UsedRowsHaveBlobs == Spec => []UsedRowHasBlob
<1>1. Inv => UsedRowHasBlob
  BY DEF Inv, BlobInv
<1> QED
  BY <1>1, InvHolds, PTL
===============================================================================
