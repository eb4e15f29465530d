---------------------------- MODULE TaskLocksProofs ----------------------------
(***************************************************************************)
(* Proofs about TaskLocks, for every set of tasks, every interval and      *)
(* priority and every bound on the incidents.                              *)
(*                                                                         *)
(* LockExclusion is not inductive: the decision of try_acquire_lock and    *)
(* its insert are several awaits apart.  PlanInv carries the decision over *)
(* that distance: until the insert, every worker whose interval overlaps   *)
(* is revoked, or in the plan still to be revoked.  That needs a worker to *)
(* keep its lock row (KeepInv), hence no clean-up, no reap and no shutdown *)
(* of a task at work (EndInv, QuietInv); a lock row has an owner because a *)
(* worker's guard is armed (GuardInv) and a submission has no row before   *)
(* its first grant (PreInv).                                               *)
(***************************************************************************)
EXTENDS TaskLocks, TLAPS

Stage == Acquiring \cup Working \cup
    {"idle", "wrow", "sleep", "release", "persist", "final", "close", "done", "dead"}

TypeInv ==
    /\ LocksTypeOK
    /\ stage \in [Task -> Stage] /\ plan \in [Task -> SUBSET Task]
    /\ mutex \in Task \cup {NoTask}
    /\ armed \subseteq Task /\ aborted \subseteq Task
    /\ booted \in BOOLEAN /\ gate \in BOOLEAN

\* Nothing runs before bootstrap is over or before the first acquisition.
QuietInv == ~booted \/ ~gate => \A t \in Task : stage[t] \in {"idle", "dead"}

\* The future of t will not work any more, or an abort is on its way to it.
Ending(t) == t \in aborted \/ stage[t] \in {"close", "done", "dead"}

\* Clean-ups, and an ended record, exist for tasks that are ending.
EndInv ==
    \A t \in Task :
       /\ mem[t] = "ENDED" => Ending(t)
       /\ \A kind \in {"release", "close", "verdict", "recover"} :
             <<kind, t>> \in jobs => Ending(t)

\* From the insert of its lock to its release, unless it is aborted.
AtWork(t) == stage[t] \in Working \cup {"stamp"} /\ t \notin aborted

KeepInv == \A t \in Task : AtWork(t) => t \in held \cup revoked

PlanInv ==
    \A t, u \in Task :
       t # u /\ AtWork(u) /\ overlaps(Interval[t], Interval[u]) =>
          /\ AtWork(t) => t \in revoked \/ u \in revoked
          /\ stage[t] = "insert" => u \in revoked
          /\ stage[t] = "revoke" => u \in revoked \cup plan[t]

GuardInv == \A t \in Task : stage[t] \in Working \cup {"release"} => t \in armed

PreInv ==
    \A t \in Task :
       /\ \/ stage[t] = "idle"
          \/ stage[t] \in {"lock", "revoke", "insert", "wrow"} /\ t \notin waiter
          => t \notin held \cup revoked
       /\ stage[t] = "sleep" => t \in waiter
       /\ t \in late => stage[t] = "dead"

OwnerInv == LockHasOwner /\ (booted => late \subseteq leaked)

LocksInv ==
    /\ TypeInv /\ QuietInv /\ EndInv /\ KeepInv
    /\ PlanInv /\ GuardInv /\ PreInv /\ OwnerInv

-------------------------------------------------------------------------------
\* Every variable keeps its type, and the acquisition mutex stays with the
\* future that is between the decision and the grant.
LEMMA TypeStep ==
    ASSUME LocksInv, [Next]_vars
    PROVE  TypeInv'
<1> USE LocksAssumption
<1> USE DEF LocksInv, TypeInv, LocksTypeOK, AcquireFree, Open, Stage,
    Acquiring, Critical, Working, vars, storeVars, taskVars, tailVars, Goto
<1>1. ASSUME NEW t \in Task, Submit(t) PROVE TypeInv'
  BY <1>1 DEF Submit
<1>2. ASSUME NEW t \in Task, Granting(t) PROVE TypeInv'
  BY <1>2 DEF Granting, Conflicting, AcquireFree
<1>3. ASSUME NEW t \in Task, Refused(t) PROVE TypeInv'
  BY <1>3 DEF Refused
<1>4. ASSUME NEW t \in Task, RevokeLock(t) PROVE TypeInv'
  <2>1. CASE plan[t] = {}
    BY <1>4, <2>1 DEF RevokeLock
  <2>2. CASE plan[t] # {}
    <3>1. PICK u \in plan[t] :
              /\ held' = held \ {u}
              /\ revoked' = revoked \cup ({u} \cap held)
              /\ plan' = [plan EXCEPT ![t] = @ \ {u}]
              /\ UNCHANGED stage
      BY <1>4, <2>2 DEF RevokeLock
    <3>2. plan' \in [Task -> SUBSET Task] /\ \A x \in Task : plan'[x] # {} => plan[x] # {}
      BY <3>1
    <3> QED
      BY <1>4, <3>1, <3>2 DEF RevokeLock
  <2> QED
    BY <2>1, <2>2
<1>5. ASSUME NEW t \in Task, InsertLock(t) PROVE TypeInv'
  BY <1>5 DEF InsertLock
<1>6. ASSUME NEW t \in Task, NEW ok \in BOOLEAN, StampRegistry(t, ok) PROVE
    TypeInv'
  BY <1>6 DEF StampRegistry, ArmGuard, Incident
<1>7. ASSUME NEW t \in Task, NEW landed \in BOOLEAN, AcquireFails(t, landed)
    PROVE TypeInv'
  BY <1>7 DEF AcquireFails, Incident, Unlocked
<1>8. ASSUME NEW t \in Task, PersistRow(t) PROVE TypeInv'
  BY <1>8 DEF PersistRow
<1>9. ASSUME NEW t \in Task, PersistRowFails(t) PROVE TypeInv'
  BY <1>9 DEF PersistRowFails, Incident, GuardJobs
<1>10. ASSUME NEW t \in Task, NEW fate \in Fate, Cancel(t, fate) PROVE
    TypeInv'
  BY <1>10 DEF Cancel, Incident, GuardJobs, DropFuture, Unlocked, Unguarded,
      Fate
<1>11. ASSUME NEW t \in Task, LateLock(t) PROVE TypeInv'
  BY <1>11 DEF LateLock
<1>12. ASSUME NEW t \in Task, RetryLock(t) PROVE TypeInv'
  BY <1>12 DEF RetryLock
<1>13. ASSUME NEW t \in Task, Expire(t) PROVE TypeInv'
  BY <1>13 DEF Expire
<1>14. ASSUME NEW t \in Task, FlipRow(t) PROVE TypeInv'
  BY <1>14 DEF FlipRow
<1>15. ASSUME NEW t \in Task, FlipMem(t) PROVE TypeInv'
  BY <1>15 DEF FlipMem
<1>16. ASSUME NEW t \in Task, NEW landed \in BOOLEAN, FlipFails(t, landed)
    PROVE TypeInv'
  BY <1>16 DEF FlipFails, Incident
<1>17. ASSUME NEW t \in Task, Publish(t) PROVE TypeInv'
  BY <1>17 DEF Publish
<1>18. ASSUME NEW t \in Task, RunEnds(t) PROVE TypeInv'
  BY <1>18 DEF RunEnds
<1>19. ASSUME NEW t \in Task, PublishEnds(t) PROVE TypeInv'
  BY <1>19 DEF PublishEnds
<1>20. ASSUME NEW t \in Task, NEW retry \in BOOLEAN, AwaitEnds(t, retry) PROVE
    TypeInv'
  BY <1>20 DEF AwaitEnds, Incident
<1>21. ASSUME NEW t \in Task, NEW ok \in BOOLEAN, TailReleases(t, ok) PROVE
    TypeInv'
  BY <1>21 DEF TailReleases, release_task_locks, Incident
<1>22. ASSUME NEW t \in Task, TailPersists(t) PROVE TypeInv'
  BY <1>22 DEF TailPersists, Return
<1>23. ASSUME NEW t \in Task, TailPersistFails(t) PROVE TypeInv'
  BY <1>23 DEF TailPersistFails, Incident
<1>24. ASSUME NEW t \in Task, Finalize(t) PROVE TypeInv'
  BY <1>24 DEF Finalize, Ended
<1>25. ASSUME NEW t \in Task, NEW ok \in BOOLEAN, Close(t, ok) PROVE TypeInv'
  BY <1>25 DEF Close, Return, release_task_locks, Incident
<1>26. ASSUME NEW t \in Task, ShutdownTask(t) PROVE TypeInv'
  BY <1>26 DEF ShutdownTask, Ended, Incident
<1>27. ASSUME NEW t \in Task, NEW fate \in Fate, AbortLands(t, fate) PROVE
    TypeInv'
  BY <1>27 DEF AbortLands, GuardJobs, DropFuture, Unlocked, Unguarded, Fate
<1>28. ASSUME NEW t \in Task, Verdict(t) PROVE TypeInv'
  BY <1>28 DEF Verdict, Ended
<1>29. ASSUME NEW t \in Task, Recover(t) PROVE TypeInv'
  BY <1>29 DEF Recover, Ended
<1>30. ASSUME NEW t \in Task, NEW ok \in BOOLEAN, CloseJob(t, ok) PROVE
    TypeInv'
  BY <1>30 DEF CloseJob, release_task_locks, Incident
<1>31. ASSUME NEW t \in Task, PersistJob(t) PROVE TypeInv'
  BY <1>31 DEF PersistJob
<1>32. ASSUME NEW t \in Task, NEW ok \in BOOLEAN, ReleaseJob(t, ok) PROVE
    TypeInv'
  BY <1>32 DEF ReleaseJob, release_task_locks, Incident
<1>33. ASSUME NEW t \in Task, FailJob(t) PROVE TypeInv'
  BY <1>33 DEF FailJob
<1>34. ASSUME Crash PROVE TypeInv'
  <2>1. \A x \in Task : mutex' = x <=> stage'[x] \in Critical
    BY <1>34 DEF Crash
  <2>2. \A x \in Task : plan'[x] = {}
    BY <1>34 DEF Crash
  <2>3. incidents' \in 0 .. MaxIncidents
    BY <1>34 DEF Crash, Incident
  <2> QED
    BY <1>34, <2>1, <2>2, <2>3 DEF Crash
<1>35. ASSUME NEW reapOk \in BOOLEAN, NEW rowsOk \in BOOLEAN,
    Bootstrap(reapOk, rowsOk) PROVE TypeInv'
  BY <1>35 DEF Bootstrap, Incident
<1>36. ASSUME ReapAgain PROVE TypeInv'
  BY <1>36 DEF ReapAgain, Reap, MayReap
<1>37. CASE UNCHANGED vars
  BY <1>37
<1> HIDE DEF LocksInv, TypeInv, LocksTypeOK, AcquireFree, Open, Stage,
    Acquiring, Critical, Working, Goto
<1> QED
  BY <1>1, <1>2, <1>3, <1>4, <1>5, <1>6, <1>7, <1>8, <1>9, <1>10, <1>11,
      <1>12, <1>13, <1>14, <1>15, <1>16, <1>17, <1>18, <1>19, <1>20, <1>21,
      <1>22, <1>23, <1>24, <1>25, <1>26, <1>27, <1>28, <1>29, <1>30, <1>31,
      <1>32, <1>33, <1>34, <1>35, <1>36, <1>37 DEF Next, AcquireStep,
      TaskStep, JobStep, FaultStep

\* Futures exist only after bootstrap and after the gate was set.
LEMMA QuietStep ==
    ASSUME LocksInv, [Next]_vars
    PROVE  QuietInv'
<1> USE LocksAssumption
<1> USE DEF LocksInv, TypeInv, QuietInv, Stage, Acquiring, Critical, Working,
    vars, storeVars, taskVars, tailVars, Goto
<1>1. ASSUME NEW t \in Task, Submit(t) PROVE QuietInv'
  BY <1>1 DEF Submit
<1>2. ASSUME NEW t \in Task, Granting(t) PROVE QuietInv'
  BY <1>2 DEF Granting, Conflicting, AcquireFree
<1>3. ASSUME NEW t \in Task, Refused(t) PROVE QuietInv'
  BY <1>3 DEF Refused
<1>4. ASSUME NEW t \in Task, RevokeLock(t) PROVE QuietInv'
  BY <1>4 DEF RevokeLock
<1>5. ASSUME NEW t \in Task, InsertLock(t) PROVE QuietInv'
  BY <1>5 DEF InsertLock
<1>6. ASSUME NEW t \in Task, NEW ok \in BOOLEAN, StampRegistry(t, ok) PROVE
    QuietInv'
  BY <1>6 DEF StampRegistry, ArmGuard, Incident
<1>7. ASSUME NEW t \in Task, NEW landed \in BOOLEAN, AcquireFails(t, landed)
    PROVE QuietInv'
  BY <1>7 DEF AcquireFails, Incident, Unlocked
<1>8. ASSUME NEW t \in Task, PersistRow(t) PROVE QuietInv'
  BY <1>8 DEF PersistRow
<1>9. ASSUME NEW t \in Task, PersistRowFails(t) PROVE QuietInv'
  BY <1>9 DEF PersistRowFails, Incident, GuardJobs
<1>10. ASSUME NEW t \in Task, NEW fate \in Fate, Cancel(t, fate) PROVE
    QuietInv'
  BY <1>10 DEF Cancel, Incident, GuardJobs, DropFuture, Unlocked, Unguarded,
      Fate
<1>11. ASSUME NEW t \in Task, LateLock(t) PROVE QuietInv'
  BY <1>11 DEF LateLock
<1>12. ASSUME NEW t \in Task, RetryLock(t) PROVE QuietInv'
  BY <1>12 DEF RetryLock
<1>13. ASSUME NEW t \in Task, Expire(t) PROVE QuietInv'
  BY <1>13 DEF Expire
<1>14. ASSUME NEW t \in Task, FlipRow(t) PROVE QuietInv'
  BY <1>14 DEF FlipRow
<1>15. ASSUME NEW t \in Task, FlipMem(t) PROVE QuietInv'
  BY <1>15 DEF FlipMem
<1>16. ASSUME NEW t \in Task, NEW landed \in BOOLEAN, FlipFails(t, landed)
    PROVE QuietInv'
  BY <1>16 DEF FlipFails, Incident
<1>17. ASSUME NEW t \in Task, Publish(t) PROVE QuietInv'
  BY <1>17 DEF Publish
<1>18. ASSUME NEW t \in Task, RunEnds(t) PROVE QuietInv'
  BY <1>18 DEF RunEnds
<1>19. ASSUME NEW t \in Task, PublishEnds(t) PROVE QuietInv'
  BY <1>19 DEF PublishEnds
<1>20. ASSUME NEW t \in Task, NEW retry \in BOOLEAN, AwaitEnds(t, retry) PROVE
    QuietInv'
  BY <1>20 DEF AwaitEnds, Incident
<1>21. ASSUME NEW t \in Task, NEW ok \in BOOLEAN, TailReleases(t, ok) PROVE
    QuietInv'
  BY <1>21 DEF TailReleases, release_task_locks, Incident
<1>22. ASSUME NEW t \in Task, TailPersists(t) PROVE QuietInv'
  BY <1>22 DEF TailPersists, Return
<1>23. ASSUME NEW t \in Task, TailPersistFails(t) PROVE QuietInv'
  BY <1>23 DEF TailPersistFails, Incident
<1>24. ASSUME NEW t \in Task, Finalize(t) PROVE QuietInv'
  BY <1>24 DEF Finalize, Ended
<1>25. ASSUME NEW t \in Task, NEW ok \in BOOLEAN, Close(t, ok) PROVE QuietInv'
  BY <1>25 DEF Close, Return, release_task_locks, Incident
<1>26. ASSUME NEW t \in Task, ShutdownTask(t) PROVE QuietInv'
  BY <1>26 DEF ShutdownTask, Ended, Incident
<1>27. ASSUME NEW t \in Task, NEW fate \in Fate, AbortLands(t, fate) PROVE
    QuietInv'
  BY <1>27 DEF AbortLands, GuardJobs, DropFuture, Unlocked, Unguarded, Fate
<1>28. ASSUME NEW t \in Task, Verdict(t) PROVE QuietInv'
  BY <1>28 DEF Verdict, Ended
<1>29. ASSUME NEW t \in Task, Recover(t) PROVE QuietInv'
  BY <1>29 DEF Recover, Ended
<1>30. ASSUME NEW t \in Task, NEW ok \in BOOLEAN, CloseJob(t, ok) PROVE
    QuietInv'
  BY <1>30 DEF CloseJob, release_task_locks, Incident
<1>31. ASSUME NEW t \in Task, PersistJob(t) PROVE QuietInv'
  BY <1>31 DEF PersistJob
<1>32. ASSUME NEW t \in Task, NEW ok \in BOOLEAN, ReleaseJob(t, ok) PROVE
    QuietInv'
  BY <1>32 DEF ReleaseJob, release_task_locks, Incident
<1>33. ASSUME NEW t \in Task, FailJob(t) PROVE QuietInv'
  BY <1>33 DEF FailJob
<1>34. ASSUME Crash PROVE QuietInv'
  BY <1>34 DEF Crash, Incident
<1>35. ASSUME NEW reapOk \in BOOLEAN, NEW rowsOk \in BOOLEAN,
    Bootstrap(reapOk, rowsOk) PROVE QuietInv'
  BY <1>35 DEF Bootstrap, Incident
<1>36. ASSUME ReapAgain PROVE QuietInv'
  BY <1>36 DEF ReapAgain, Reap, MayReap
<1>37. CASE UNCHANGED vars
  BY <1>37
<1> HIDE DEF LocksInv, TypeInv, QuietInv, Stage, Acquiring, Critical, Working,
    Goto
<1> QED
  BY <1>1, <1>2, <1>3, <1>4, <1>5, <1>6, <1>7, <1>8, <1>9, <1>10, <1>11,
      <1>12, <1>13, <1>14, <1>15, <1>16, <1>17, <1>18, <1>19, <1>20, <1>21,
      <1>22, <1>23, <1>24, <1>25, <1>26, <1>27, <1>28, <1>29, <1>30, <1>31,
      <1>32, <1>33, <1>34, <1>35, <1>36, <1>37 DEF Next, AcquireStep,
      TaskStep, JobStep, FaultStep

\* A clean-up is only spawned for a task that is ending, and an ending task
\* does not come back.
LEMMA EndStep ==
    ASSUME LocksInv, [Next]_vars
    PROVE  EndInv'
<1> USE LocksAssumption
<1> USE DEF LocksInv, TypeInv, LocksTypeOK, QuietInv, EndInv, Ending, Open,
    Stage, Acquiring, Critical, Working, vars, storeVars, taskVars, tailVars,
    Goto
<1>1. ASSUME NEW t \in Task, Submit(t) PROVE EndInv'
  BY <1>1 DEF Submit
<1>2. ASSUME NEW t \in Task, Granting(t) PROVE EndInv'
  BY <1>2 DEF Granting, Conflicting, AcquireFree
<1>3. ASSUME NEW t \in Task, Refused(t) PROVE EndInv'
  BY <1>3 DEF Refused
<1>4. ASSUME NEW t \in Task, RevokeLock(t) PROVE EndInv'
  BY <1>4 DEF RevokeLock
<1>5. ASSUME NEW t \in Task, InsertLock(t) PROVE EndInv'
  BY <1>5 DEF InsertLock
<1>6. ASSUME NEW t \in Task, NEW ok \in BOOLEAN, StampRegistry(t, ok) PROVE
    EndInv'
  BY <1>6 DEF StampRegistry, ArmGuard, Incident
<1>7. ASSUME NEW t \in Task, NEW landed \in BOOLEAN, AcquireFails(t, landed)
    PROVE EndInv'
  BY <1>7 DEF AcquireFails, Incident, Unlocked
<1>8. ASSUME NEW t \in Task, PersistRow(t) PROVE EndInv'
  BY <1>8 DEF PersistRow
<1>9. ASSUME NEW t \in Task, PersistRowFails(t) PROVE EndInv'
  BY <1>9 DEF PersistRowFails, Incident, GuardJobs
<1>10. ASSUME NEW t \in Task, NEW fate \in Fate, Cancel(t, fate) PROVE EndInv'
  BY <1>10 DEF Cancel, Incident, GuardJobs, DropFuture, Unlocked, Unguarded,
      Fate
<1>11. ASSUME NEW t \in Task, LateLock(t) PROVE EndInv'
  BY <1>11 DEF LateLock
<1>12. ASSUME NEW t \in Task, RetryLock(t) PROVE EndInv'
  BY <1>12 DEF RetryLock
<1>13. ASSUME NEW t \in Task, Expire(t) PROVE EndInv'
  BY <1>13 DEF Expire
<1>14. ASSUME NEW t \in Task, FlipRow(t) PROVE EndInv'
  BY <1>14 DEF FlipRow
<1>15. ASSUME NEW t \in Task, FlipMem(t) PROVE EndInv'
  BY <1>15 DEF FlipMem
<1>16. ASSUME NEW t \in Task, NEW landed \in BOOLEAN, FlipFails(t, landed)
    PROVE EndInv'
  BY <1>16 DEF FlipFails, Incident
<1>17. ASSUME NEW t \in Task, Publish(t) PROVE EndInv'
  BY <1>17 DEF Publish
<1>18. ASSUME NEW t \in Task, RunEnds(t) PROVE EndInv'
  BY <1>18 DEF RunEnds
<1>19. ASSUME NEW t \in Task, PublishEnds(t) PROVE EndInv'
  BY <1>19 DEF PublishEnds
<1>20. ASSUME NEW t \in Task, NEW retry \in BOOLEAN, AwaitEnds(t, retry) PROVE
    EndInv'
  BY <1>20 DEF AwaitEnds, Incident
<1>21. ASSUME NEW t \in Task, NEW ok \in BOOLEAN, TailReleases(t, ok) PROVE
    EndInv'
  BY <1>21 DEF TailReleases, release_task_locks, Incident
<1>22. ASSUME NEW t \in Task, TailPersists(t) PROVE EndInv'
  BY <1>22 DEF TailPersists, Return
<1>23. ASSUME NEW t \in Task, TailPersistFails(t) PROVE EndInv'
  BY <1>23 DEF TailPersistFails, Incident
<1>24. ASSUME NEW t \in Task, Finalize(t) PROVE EndInv'
  BY <1>24 DEF Finalize, Ended
<1>25. ASSUME NEW t \in Task, NEW ok \in BOOLEAN, Close(t, ok) PROVE EndInv'
  BY <1>25 DEF Close, Return, release_task_locks, Incident
<1>26. ASSUME NEW t \in Task, ShutdownTask(t) PROVE EndInv'
  BY <1>26 DEF ShutdownTask, Ended, Incident
<1>27. ASSUME NEW t \in Task, NEW fate \in Fate, AbortLands(t, fate) PROVE
    EndInv'
  BY <1>27 DEF AbortLands, GuardJobs, DropFuture, Unlocked, Unguarded, Fate
<1>28. ASSUME NEW t \in Task, Verdict(t) PROVE EndInv'
  BY <1>28 DEF Verdict, Ended
<1>29. ASSUME NEW t \in Task, Recover(t) PROVE EndInv'
  BY <1>29 DEF Recover, Ended
<1>30. ASSUME NEW t \in Task, NEW ok \in BOOLEAN, CloseJob(t, ok) PROVE
    EndInv'
  BY <1>30 DEF CloseJob, release_task_locks, Incident
<1>31. ASSUME NEW t \in Task, PersistJob(t) PROVE EndInv'
  BY <1>31 DEF PersistJob
<1>32. ASSUME NEW t \in Task, NEW ok \in BOOLEAN, ReleaseJob(t, ok) PROVE
    EndInv'
  BY <1>32 DEF ReleaseJob, release_task_locks, Incident
<1>33. ASSUME NEW t \in Task, FailJob(t) PROVE EndInv'
  BY <1>33 DEF FailJob
<1>34. ASSUME Crash PROVE EndInv'
  BY <1>34 DEF Crash, Incident
<1>35. ASSUME NEW reapOk \in BOOLEAN, NEW rowsOk \in BOOLEAN,
    Bootstrap(reapOk, rowsOk) PROVE EndInv'
  BY <1>35 DEF Bootstrap, Incident
<1>36. ASSUME ReapAgain PROVE EndInv'
  BY <1>36 DEF ReapAgain, Reap, MayReap
<1>37. CASE UNCHANGED vars
  BY <1>37
<1> HIDE DEF LocksInv, TypeInv, LocksTypeOK, QuietInv, EndInv, Ending, Open,
    Stage, Acquiring, Critical, Working, Goto
<1> QED
  BY <1>1, <1>2, <1>3, <1>4, <1>5, <1>6, <1>7, <1>8, <1>9, <1>10, <1>11,
      <1>12, <1>13, <1>14, <1>15, <1>16, <1>17, <1>18, <1>19, <1>20, <1>21,
      <1>22, <1>23, <1>24, <1>25, <1>26, <1>27, <1>28, <1>29, <1>30, <1>31,
      <1>32, <1>33, <1>34, <1>35, <1>36, <1>37 DEF Next, AcquireStep,
      TaskStep, JobStep, FaultStep

\* No step takes the lock row of a task at work.
LEMMA KeepStep ==
    ASSUME LocksInv, [Next]_vars
    PROVE  KeepInv'
<1> USE LocksAssumption
<1> USE DEF LocksInv, TypeInv, QuietInv, EndInv, KeepInv, Ending, AtWork,
    Stage, Acquiring, Critical, Working, vars, storeVars, taskVars, tailVars,
    Goto
<1>1. ASSUME NEW t \in Task, Submit(t) PROVE KeepInv'
  BY <1>1 DEF Submit
<1>2. ASSUME NEW t \in Task, Granting(t) PROVE KeepInv'
  BY <1>2 DEF Granting, Conflicting, AcquireFree
<1>3. ASSUME NEW t \in Task, Refused(t) PROVE KeepInv'
  BY <1>3 DEF Refused
<1>4. ASSUME NEW t \in Task, RevokeLock(t) PROVE KeepInv'
  BY <1>4 DEF RevokeLock
<1>5. ASSUME NEW t \in Task, InsertLock(t) PROVE KeepInv'
  BY <1>5 DEF InsertLock
<1>6. ASSUME NEW t \in Task, NEW ok \in BOOLEAN, StampRegistry(t, ok) PROVE
    KeepInv'
  BY <1>6 DEF StampRegistry, ArmGuard, Incident
<1>7. ASSUME NEW t \in Task, NEW landed \in BOOLEAN, AcquireFails(t, landed)
    PROVE KeepInv'
  BY <1>7 DEF AcquireFails, Incident, Unlocked
<1>8. ASSUME NEW t \in Task, PersistRow(t) PROVE KeepInv'
  BY <1>8 DEF PersistRow
<1>9. ASSUME NEW t \in Task, PersistRowFails(t) PROVE KeepInv'
  BY <1>9 DEF PersistRowFails, Incident, GuardJobs
<1>10. ASSUME NEW t \in Task, NEW fate \in Fate, Cancel(t, fate) PROVE
    KeepInv'
  BY <1>10 DEF Cancel, Incident, GuardJobs, DropFuture, Unlocked, Unguarded,
      Fate
<1>11. ASSUME NEW t \in Task, LateLock(t) PROVE KeepInv'
  BY <1>11 DEF LateLock
<1>12. ASSUME NEW t \in Task, RetryLock(t) PROVE KeepInv'
  BY <1>12 DEF RetryLock
<1>13. ASSUME NEW t \in Task, Expire(t) PROVE KeepInv'
  BY <1>13 DEF Expire
<1>14. ASSUME NEW t \in Task, FlipRow(t) PROVE KeepInv'
  BY <1>14 DEF FlipRow
<1>15. ASSUME NEW t \in Task, FlipMem(t) PROVE KeepInv'
  BY <1>15 DEF FlipMem
<1>16. ASSUME NEW t \in Task, NEW landed \in BOOLEAN, FlipFails(t, landed)
    PROVE KeepInv'
  BY <1>16 DEF FlipFails, Incident
<1>17. ASSUME NEW t \in Task, Publish(t) PROVE KeepInv'
  BY <1>17 DEF Publish
<1>18. ASSUME NEW t \in Task, RunEnds(t) PROVE KeepInv'
  BY <1>18 DEF RunEnds
<1>19. ASSUME NEW t \in Task, PublishEnds(t) PROVE KeepInv'
  BY <1>19 DEF PublishEnds
<1>20. ASSUME NEW t \in Task, NEW retry \in BOOLEAN, AwaitEnds(t, retry) PROVE
    KeepInv'
  BY <1>20 DEF AwaitEnds, Incident
<1>21. ASSUME NEW t \in Task, NEW ok \in BOOLEAN, TailReleases(t, ok) PROVE
    KeepInv'
  BY <1>21 DEF TailReleases, release_task_locks, Incident
<1>22. ASSUME NEW t \in Task, TailPersists(t) PROVE KeepInv'
  BY <1>22 DEF TailPersists, Return
<1>23. ASSUME NEW t \in Task, TailPersistFails(t) PROVE KeepInv'
  BY <1>23 DEF TailPersistFails, Incident
<1>24. ASSUME NEW t \in Task, Finalize(t) PROVE KeepInv'
  BY <1>24 DEF Finalize, Ended
<1>25. ASSUME NEW t \in Task, NEW ok \in BOOLEAN, Close(t, ok) PROVE KeepInv'
  BY <1>25 DEF Close, Return, release_task_locks, Incident
<1>26. ASSUME NEW t \in Task, ShutdownTask(t) PROVE KeepInv'
  BY <1>26 DEF ShutdownTask, Ended, Incident
<1>27. ASSUME NEW t \in Task, NEW fate \in Fate, AbortLands(t, fate) PROVE
    KeepInv'
  BY <1>27 DEF AbortLands, GuardJobs, DropFuture, Unlocked, Unguarded, Fate
<1>28. ASSUME NEW t \in Task, Verdict(t) PROVE KeepInv'
  BY <1>28 DEF Verdict, Ended
<1>29. ASSUME NEW t \in Task, Recover(t) PROVE KeepInv'
  BY <1>29 DEF Recover, Ended
<1>30. ASSUME NEW t \in Task, NEW ok \in BOOLEAN, CloseJob(t, ok) PROVE
    KeepInv'
  BY <1>30 DEF CloseJob, release_task_locks, Incident
<1>31. ASSUME NEW t \in Task, PersistJob(t) PROVE KeepInv'
  BY <1>31 DEF PersistJob
<1>32. ASSUME NEW t \in Task, NEW ok \in BOOLEAN, ReleaseJob(t, ok) PROVE
    KeepInv'
  BY <1>32 DEF ReleaseJob, release_task_locks, Incident
<1>33. ASSUME NEW t \in Task, FailJob(t) PROVE KeepInv'
  BY <1>33 DEF FailJob
<1>34. ASSUME Crash PROVE KeepInv'
  BY <1>34 DEF Crash, Incident
<1>35. ASSUME NEW reapOk \in BOOLEAN, NEW rowsOk \in BOOLEAN,
    Bootstrap(reapOk, rowsOk) PROVE KeepInv'
  BY <1>35 DEF Bootstrap, Incident
<1>36. ASSUME ReapAgain PROVE KeepInv'
  BY <1>36 DEF ReapAgain, Reap, MayReap
<1>37. CASE UNCHANGED vars
  BY <1>37
<1> HIDE DEF LocksInv, TypeInv, QuietInv, EndInv, KeepInv, Ending, AtWork,
    Stage, Acquiring, Critical, Working, Goto
<1> QED
  BY <1>1, <1>2, <1>3, <1>4, <1>5, <1>6, <1>7, <1>8, <1>9, <1>10, <1>11,
      <1>12, <1>13, <1>14, <1>15, <1>16, <1>17, <1>18, <1>19, <1>20, <1>21,
      <1>22, <1>23, <1>24, <1>25, <1>26, <1>27, <1>28, <1>29, <1>30, <1>31,
      <1>32, <1>33, <1>34, <1>35, <1>36, <1>37 DEF Next, AcquireStep,
      TaskStep, JobStep, FaultStep

\* The decision stays true up to the insert.
LEMMA PlanStep ==
    ASSUME LocksInv, [Next]_vars
    PROVE  PlanInv'
<1> USE LocksAssumption
<1> USE DEF LocksInv, TypeInv, LocksTypeOK, QuietInv, EndInv, KeepInv,
    PlanInv, Ending, AtWork, AcquireFree, Stage, Acquiring, Critical, Working,
    vars, storeVars, taskVars, tailVars, Goto
<1>1. ASSUME NEW t \in Task, Submit(t) PROVE PlanInv'
  BY <1>1 DEF Submit
<1>2. ASSUME NEW t \in Task, Granting(t) PROVE PlanInv'
  BY <1>2 DEF Granting, Conflicting, AcquireFree
<1>3. ASSUME NEW t \in Task, Refused(t) PROVE PlanInv'
  BY <1>3 DEF Refused
<1>4. ASSUME NEW t \in Task, RevokeLock(t) PROVE PlanInv'
  BY <1>4 DEF RevokeLock
<1>5. ASSUME NEW t \in Task, InsertLock(t) PROVE PlanInv'
  <2>1. UNCHANGED <<revoked, aborted, plan>> /\ stage' = [stage EXCEPT ![t] = "stamp"]
    BY <1>5 DEF InsertLock
  <2>2. stage[t] = "insert" /\ mutex = t
    BY <1>5 DEF InsertLock
  <2>3. \A x \in Task : x # t => stage[x] \notin Critical
    BY <2>2
  <2>4. \A x, y \in Task : overlaps(Interval[x], Interval[y]) => overlaps(Interval[y], Interval[x])
    BY DEF overlaps
  <2> SUFFICES ASSUME NEW x \in Task, NEW y \in Task, x # y, AtWork(y)',
                      overlaps(Interval[x], Interval[y])
               PROVE  /\ AtWork(x)' => x \in revoked \/ y \in revoked
                      /\ stage'[x] = "insert" => y \in revoked
                      /\ stage'[x] = "revoke" => y \in revoked \cup plan[x]
    BY <2>1
  <2>5. CASE x = t
    BY <2>1, <2>2, <2>5
  <2>6. CASE y = t
    BY <2>1, <2>2, <2>3, <2>4, <2>6
  <2>7. CASE x # t /\ y # t
    BY <2>1, <2>7
  <2> QED
    BY <2>5, <2>6, <2>7
<1>6. ASSUME NEW t \in Task, NEW ok \in BOOLEAN, StampRegistry(t, ok) PROVE
    PlanInv'
  BY <1>6 DEF StampRegistry, ArmGuard, Incident
<1>7. ASSUME NEW t \in Task, NEW landed \in BOOLEAN, AcquireFails(t, landed)
    PROVE PlanInv'
  BY <1>7 DEF AcquireFails, Incident, Unlocked
<1>8. ASSUME NEW t \in Task, PersistRow(t) PROVE PlanInv'
  BY <1>8 DEF PersistRow
<1>9. ASSUME NEW t \in Task, PersistRowFails(t) PROVE PlanInv'
  BY <1>9 DEF PersistRowFails, Incident, GuardJobs
<1>10. ASSUME NEW t \in Task, NEW fate \in Fate, Cancel(t, fate) PROVE
    PlanInv'
  BY <1>10 DEF Cancel, Incident, GuardJobs, DropFuture, Unlocked, Unguarded,
      Fate
<1>11. ASSUME NEW t \in Task, LateLock(t) PROVE PlanInv'
  BY <1>11 DEF LateLock
<1>12. ASSUME NEW t \in Task, RetryLock(t) PROVE PlanInv'
  BY <1>12 DEF RetryLock
<1>13. ASSUME NEW t \in Task, Expire(t) PROVE PlanInv'
  BY <1>13 DEF Expire
<1>14. ASSUME NEW t \in Task, FlipRow(t) PROVE PlanInv'
  BY <1>14 DEF FlipRow
<1>15. ASSUME NEW t \in Task, FlipMem(t) PROVE PlanInv'
  BY <1>15 DEF FlipMem
<1>16. ASSUME NEW t \in Task, NEW landed \in BOOLEAN, FlipFails(t, landed)
    PROVE PlanInv'
  BY <1>16 DEF FlipFails, Incident
<1>17. ASSUME NEW t \in Task, Publish(t) PROVE PlanInv'
  BY <1>17 DEF Publish
<1>18. ASSUME NEW t \in Task, RunEnds(t) PROVE PlanInv'
  BY <1>18 DEF RunEnds
<1>19. ASSUME NEW t \in Task, PublishEnds(t) PROVE PlanInv'
  BY <1>19 DEF PublishEnds
<1>20. ASSUME NEW t \in Task, NEW retry \in BOOLEAN, AwaitEnds(t, retry) PROVE
    PlanInv'
  BY <1>20 DEF AwaitEnds, Incident
<1>21. ASSUME NEW t \in Task, NEW ok \in BOOLEAN, TailReleases(t, ok) PROVE
    PlanInv'
  BY <1>21 DEF TailReleases, release_task_locks, Incident
<1>22. ASSUME NEW t \in Task, TailPersists(t) PROVE PlanInv'
  BY <1>22 DEF TailPersists, Return
<1>23. ASSUME NEW t \in Task, TailPersistFails(t) PROVE PlanInv'
  BY <1>23 DEF TailPersistFails, Incident
<1>24. ASSUME NEW t \in Task, Finalize(t) PROVE PlanInv'
  BY <1>24 DEF Finalize, Ended
<1>25. ASSUME NEW t \in Task, NEW ok \in BOOLEAN, Close(t, ok) PROVE PlanInv'
  BY <1>25 DEF Close, Return, release_task_locks, Incident
<1>26. ASSUME NEW t \in Task, ShutdownTask(t) PROVE PlanInv'
  BY <1>26 DEF ShutdownTask, Ended, Incident
<1>27. ASSUME NEW t \in Task, NEW fate \in Fate, AbortLands(t, fate) PROVE
    PlanInv'
  BY <1>27 DEF AbortLands, GuardJobs, DropFuture, Unlocked, Unguarded, Fate
<1>28. ASSUME NEW t \in Task, Verdict(t) PROVE PlanInv'
  BY <1>28 DEF Verdict, Ended
<1>29. ASSUME NEW t \in Task, Recover(t) PROVE PlanInv'
  BY <1>29 DEF Recover, Ended
<1>30. ASSUME NEW t \in Task, NEW ok \in BOOLEAN, CloseJob(t, ok) PROVE
    PlanInv'
  <2>1. ~AtWork(t)
    BY <1>30 DEF CloseJob
  <2>2. \A x \in Task : x # t => (x \in revoked' <=> x \in revoked)
    BY <1>30 DEF CloseJob, release_task_locks
  <2>3. UNCHANGED <<stage, aborted, plan>>
    BY <1>30 DEF CloseJob
  <2> QED
    BY <2>1, <2>2, <2>3
<1>31. ASSUME NEW t \in Task, PersistJob(t) PROVE PlanInv'
  BY <1>31 DEF PersistJob
<1>32. ASSUME NEW t \in Task, NEW ok \in BOOLEAN, ReleaseJob(t, ok) PROVE
    PlanInv'
  <2>1. ~AtWork(t)
    BY <1>32 DEF ReleaseJob
  <2>2. \A x \in Task : x # t => (x \in revoked' <=> x \in revoked)
    BY <1>32 DEF ReleaseJob, release_task_locks
  <2>3. UNCHANGED <<stage, aborted, plan>>
    BY <1>32 DEF ReleaseJob
  <2> QED
    BY <2>1, <2>2, <2>3
<1>33. ASSUME NEW t \in Task, FailJob(t) PROVE PlanInv'
  BY <1>33 DEF FailJob
<1>34. ASSUME Crash PROVE PlanInv'
  BY <1>34 DEF Crash, Incident
<1>35. ASSUME NEW reapOk \in BOOLEAN, NEW rowsOk \in BOOLEAN,
    Bootstrap(reapOk, rowsOk) PROVE PlanInv'
  BY <1>35 DEF Bootstrap, Incident
<1>36. ASSUME ReapAgain PROVE PlanInv'
  BY <1>36 DEF ReapAgain, Reap, MayReap
<1>37. CASE UNCHANGED vars
  BY <1>37
<1> HIDE DEF LocksInv, TypeInv, LocksTypeOK, QuietInv, EndInv, KeepInv,
    PlanInv, Ending, AtWork, AcquireFree, Stage, Acquiring, Critical, Working,
    Goto
<1> QED
  BY <1>1, <1>2, <1>3, <1>4, <1>5, <1>6, <1>7, <1>8, <1>9, <1>10, <1>11,
      <1>12, <1>13, <1>14, <1>15, <1>16, <1>17, <1>18, <1>19, <1>20, <1>21,
      <1>22, <1>23, <1>24, <1>25, <1>26, <1>27, <1>28, <1>29, <1>30, <1>31,
      <1>32, <1>33, <1>34, <1>35, <1>36, <1>37 DEF Next, AcquireStep,
      TaskStep, JobStep, FaultStep

\* A worker's guard is armed.
LEMMA GuardStep ==
    ASSUME LocksInv, [Next]_vars
    PROVE  GuardInv'
<1> USE LocksAssumption
<1> USE DEF LocksInv, TypeInv, QuietInv, GuardInv, Stage, Acquiring, Critical,
    Working, vars, storeVars, taskVars, tailVars, Goto
<1>1. ASSUME NEW t \in Task, Submit(t) PROVE GuardInv'
  BY <1>1 DEF Submit
<1>2. ASSUME NEW t \in Task, Granting(t) PROVE GuardInv'
  BY <1>2 DEF Granting, Conflicting, AcquireFree
<1>3. ASSUME NEW t \in Task, Refused(t) PROVE GuardInv'
  BY <1>3 DEF Refused
<1>4. ASSUME NEW t \in Task, RevokeLock(t) PROVE GuardInv'
  BY <1>4 DEF RevokeLock
<1>5. ASSUME NEW t \in Task, InsertLock(t) PROVE GuardInv'
  BY <1>5 DEF InsertLock
<1>6. ASSUME NEW t \in Task, NEW ok \in BOOLEAN, StampRegistry(t, ok) PROVE
    GuardInv'
  BY <1>6 DEF StampRegistry, ArmGuard, Incident
<1>7. ASSUME NEW t \in Task, NEW landed \in BOOLEAN, AcquireFails(t, landed)
    PROVE GuardInv'
  BY <1>7 DEF AcquireFails, Incident, Unlocked
<1>8. ASSUME NEW t \in Task, PersistRow(t) PROVE GuardInv'
  BY <1>8 DEF PersistRow
<1>9. ASSUME NEW t \in Task, PersistRowFails(t) PROVE GuardInv'
  BY <1>9 DEF PersistRowFails, Incident, GuardJobs
<1>10. ASSUME NEW t \in Task, NEW fate \in Fate, Cancel(t, fate) PROVE
    GuardInv'
  BY <1>10 DEF Cancel, Incident, GuardJobs, DropFuture, Unlocked, Unguarded,
      Fate
<1>11. ASSUME NEW t \in Task, LateLock(t) PROVE GuardInv'
  BY <1>11 DEF LateLock
<1>12. ASSUME NEW t \in Task, RetryLock(t) PROVE GuardInv'
  BY <1>12 DEF RetryLock
<1>13. ASSUME NEW t \in Task, Expire(t) PROVE GuardInv'
  BY <1>13 DEF Expire
<1>14. ASSUME NEW t \in Task, FlipRow(t) PROVE GuardInv'
  BY <1>14 DEF FlipRow
<1>15. ASSUME NEW t \in Task, FlipMem(t) PROVE GuardInv'
  BY <1>15 DEF FlipMem
<1>16. ASSUME NEW t \in Task, NEW landed \in BOOLEAN, FlipFails(t, landed)
    PROVE GuardInv'
  BY <1>16 DEF FlipFails, Incident
<1>17. ASSUME NEW t \in Task, Publish(t) PROVE GuardInv'
  BY <1>17 DEF Publish
<1>18. ASSUME NEW t \in Task, RunEnds(t) PROVE GuardInv'
  BY <1>18 DEF RunEnds
<1>19. ASSUME NEW t \in Task, PublishEnds(t) PROVE GuardInv'
  BY <1>19 DEF PublishEnds
<1>20. ASSUME NEW t \in Task, NEW retry \in BOOLEAN, AwaitEnds(t, retry) PROVE
    GuardInv'
  BY <1>20 DEF AwaitEnds, Incident
<1>21. ASSUME NEW t \in Task, NEW ok \in BOOLEAN, TailReleases(t, ok) PROVE
    GuardInv'
  BY <1>21 DEF TailReleases, release_task_locks, Incident
<1>22. ASSUME NEW t \in Task, TailPersists(t) PROVE GuardInv'
  BY <1>22 DEF TailPersists, Return
<1>23. ASSUME NEW t \in Task, TailPersistFails(t) PROVE GuardInv'
  BY <1>23 DEF TailPersistFails, Incident
<1>24. ASSUME NEW t \in Task, Finalize(t) PROVE GuardInv'
  BY <1>24 DEF Finalize, Ended
<1>25. ASSUME NEW t \in Task, NEW ok \in BOOLEAN, Close(t, ok) PROVE GuardInv'
  BY <1>25 DEF Close, Return, release_task_locks, Incident
<1>26. ASSUME NEW t \in Task, ShutdownTask(t) PROVE GuardInv'
  BY <1>26 DEF ShutdownTask, Ended, Incident
<1>27. ASSUME NEW t \in Task, NEW fate \in Fate, AbortLands(t, fate) PROVE
    GuardInv'
  BY <1>27 DEF AbortLands, GuardJobs, DropFuture, Unlocked, Unguarded, Fate
<1>28. ASSUME NEW t \in Task, Verdict(t) PROVE GuardInv'
  BY <1>28 DEF Verdict, Ended
<1>29. ASSUME NEW t \in Task, Recover(t) PROVE GuardInv'
  BY <1>29 DEF Recover, Ended
<1>30. ASSUME NEW t \in Task, NEW ok \in BOOLEAN, CloseJob(t, ok) PROVE
    GuardInv'
  BY <1>30 DEF CloseJob, release_task_locks, Incident
<1>31. ASSUME NEW t \in Task, PersistJob(t) PROVE GuardInv'
  BY <1>31 DEF PersistJob
<1>32. ASSUME NEW t \in Task, NEW ok \in BOOLEAN, ReleaseJob(t, ok) PROVE
    GuardInv'
  BY <1>32 DEF ReleaseJob, release_task_locks, Incident
<1>33. ASSUME NEW t \in Task, FailJob(t) PROVE GuardInv'
  BY <1>33 DEF FailJob
<1>34. ASSUME Crash PROVE GuardInv'
  BY <1>34 DEF Crash, Incident
<1>35. ASSUME NEW reapOk \in BOOLEAN, NEW rowsOk \in BOOLEAN,
    Bootstrap(reapOk, rowsOk) PROVE GuardInv'
  BY <1>35 DEF Bootstrap, Incident
<1>36. ASSUME ReapAgain PROVE GuardInv'
  BY <1>36 DEF ReapAgain, Reap, MayReap
<1>37. CASE UNCHANGED vars
  BY <1>37
<1> HIDE DEF LocksInv, TypeInv, QuietInv, GuardInv, Stage, Acquiring,
    Critical, Working, Goto
<1> QED
  BY <1>1, <1>2, <1>3, <1>4, <1>5, <1>6, <1>7, <1>8, <1>9, <1>10, <1>11,
      <1>12, <1>13, <1>14, <1>15, <1>16, <1>17, <1>18, <1>19, <1>20, <1>21,
      <1>22, <1>23, <1>24, <1>25, <1>26, <1>27, <1>28, <1>29, <1>30, <1>31,
      <1>32, <1>33, <1>34, <1>35, <1>36, <1>37 DEF Next, AcquireStep,
      TaskStep, JobStep, FaultStep

\* A submission has no lock row before its first grant.
LEMMA PreStep ==
    ASSUME LocksInv, [Next]_vars
    PROVE  PreInv'
<1> USE LocksAssumption
<1> USE DEF LocksInv, TypeInv, LocksTypeOK, QuietInv, PreInv, Stage,
    Acquiring, Critical, Working, vars, storeVars, taskVars, tailVars, Goto
<1>1. ASSUME NEW t \in Task, Submit(t) PROVE PreInv'
  BY <1>1 DEF Submit
<1>2. ASSUME NEW t \in Task, Granting(t) PROVE PreInv'
  BY <1>2 DEF Granting, Conflicting, AcquireFree
<1>3. ASSUME NEW t \in Task, Refused(t) PROVE PreInv'
  BY <1>3 DEF Refused
<1>4. ASSUME NEW t \in Task, RevokeLock(t) PROVE PreInv'
  BY <1>4 DEF RevokeLock
<1>5. ASSUME NEW t \in Task, InsertLock(t) PROVE PreInv'
  BY <1>5 DEF InsertLock
<1>6. ASSUME NEW t \in Task, NEW ok \in BOOLEAN, StampRegistry(t, ok) PROVE
    PreInv'
  BY <1>6 DEF StampRegistry, ArmGuard, Incident
<1>7. ASSUME NEW t \in Task, NEW landed \in BOOLEAN, AcquireFails(t, landed)
    PROVE PreInv'
  BY <1>7 DEF AcquireFails, Incident, Unlocked
<1>8. ASSUME NEW t \in Task, PersistRow(t) PROVE PreInv'
  BY <1>8 DEF PersistRow
<1>9. ASSUME NEW t \in Task, PersistRowFails(t) PROVE PreInv'
  BY <1>9 DEF PersistRowFails, Incident, GuardJobs
<1>10. ASSUME NEW t \in Task, NEW fate \in Fate, Cancel(t, fate) PROVE PreInv'
  BY <1>10 DEF Cancel, Incident, GuardJobs, DropFuture, Unlocked, Unguarded,
      Fate
<1>11. ASSUME NEW t \in Task, LateLock(t) PROVE PreInv'
  BY <1>11 DEF LateLock
<1>12. ASSUME NEW t \in Task, RetryLock(t) PROVE PreInv'
  BY <1>12 DEF RetryLock
<1>13. ASSUME NEW t \in Task, Expire(t) PROVE PreInv'
  BY <1>13 DEF Expire
<1>14. ASSUME NEW t \in Task, FlipRow(t) PROVE PreInv'
  BY <1>14 DEF FlipRow
<1>15. ASSUME NEW t \in Task, FlipMem(t) PROVE PreInv'
  BY <1>15 DEF FlipMem
<1>16. ASSUME NEW t \in Task, NEW landed \in BOOLEAN, FlipFails(t, landed)
    PROVE PreInv'
  BY <1>16 DEF FlipFails, Incident
<1>17. ASSUME NEW t \in Task, Publish(t) PROVE PreInv'
  BY <1>17 DEF Publish
<1>18. ASSUME NEW t \in Task, RunEnds(t) PROVE PreInv'
  BY <1>18 DEF RunEnds
<1>19. ASSUME NEW t \in Task, PublishEnds(t) PROVE PreInv'
  BY <1>19 DEF PublishEnds
<1>20. ASSUME NEW t \in Task, NEW retry \in BOOLEAN, AwaitEnds(t, retry) PROVE
    PreInv'
  BY <1>20 DEF AwaitEnds, Incident
<1>21. ASSUME NEW t \in Task, NEW ok \in BOOLEAN, TailReleases(t, ok) PROVE
    PreInv'
  BY <1>21 DEF TailReleases, release_task_locks, Incident
<1>22. ASSUME NEW t \in Task, TailPersists(t) PROVE PreInv'
  BY <1>22 DEF TailPersists, Return
<1>23. ASSUME NEW t \in Task, TailPersistFails(t) PROVE PreInv'
  BY <1>23 DEF TailPersistFails, Incident
<1>24. ASSUME NEW t \in Task, Finalize(t) PROVE PreInv'
  BY <1>24 DEF Finalize, Ended
<1>25. ASSUME NEW t \in Task, NEW ok \in BOOLEAN, Close(t, ok) PROVE PreInv'
  BY <1>25 DEF Close, Return, release_task_locks, Incident
<1>26. ASSUME NEW t \in Task, ShutdownTask(t) PROVE PreInv'
  BY <1>26 DEF ShutdownTask, Ended, Incident
<1>27. ASSUME NEW t \in Task, NEW fate \in Fate, AbortLands(t, fate) PROVE
    PreInv'
  BY <1>27 DEF AbortLands, GuardJobs, DropFuture, Unlocked, Unguarded, Fate
<1>28. ASSUME NEW t \in Task, Verdict(t) PROVE PreInv'
  BY <1>28 DEF Verdict, Ended
<1>29. ASSUME NEW t \in Task, Recover(t) PROVE PreInv'
  BY <1>29 DEF Recover, Ended
<1>30. ASSUME NEW t \in Task, NEW ok \in BOOLEAN, CloseJob(t, ok) PROVE
    PreInv'
  BY <1>30 DEF CloseJob, release_task_locks, Incident
<1>31. ASSUME NEW t \in Task, PersistJob(t) PROVE PreInv'
  BY <1>31 DEF PersistJob
<1>32. ASSUME NEW t \in Task, NEW ok \in BOOLEAN, ReleaseJob(t, ok) PROVE
    PreInv'
  BY <1>32 DEF ReleaseJob, release_task_locks, Incident
<1>33. ASSUME NEW t \in Task, FailJob(t) PROVE PreInv'
  BY <1>33 DEF FailJob
<1>34. ASSUME Crash PROVE PreInv'
  BY <1>34 DEF Crash, Incident
<1>35. ASSUME NEW reapOk \in BOOLEAN, NEW rowsOk \in BOOLEAN,
    Bootstrap(reapOk, rowsOk) PROVE PreInv'
  BY <1>35 DEF Bootstrap, Incident
<1>36. ASSUME ReapAgain PROVE PreInv'
  BY <1>36 DEF ReapAgain, Reap, MayReap
<1>37. CASE UNCHANGED vars
  BY <1>37
<1> HIDE DEF LocksInv, TypeInv, LocksTypeOK, QuietInv, PreInv, Stage,
    Acquiring, Critical, Working, Goto
<1> QED
  BY <1>1, <1>2, <1>3, <1>4, <1>5, <1>6, <1>7, <1>8, <1>9, <1>10, <1>11,
      <1>12, <1>13, <1>14, <1>15, <1>16, <1>17, <1>18, <1>19, <1>20, <1>21,
      <1>22, <1>23, <1>24, <1>25, <1>26, <1>27, <1>28, <1>29, <1>30, <1>31,
      <1>32, <1>33, <1>34, <1>35, <1>36, <1>37 DEF Next, AcquireStep,
      TaskStep, JobStep, FaultStep

\* A lock row keeps an owner, or is recorded as lost.
LEMMA OwnerStep ==
    ASSUME LocksInv, [Next]_vars
    PROVE  OwnerInv'
<1> USE LocksAssumption
<1> USE DEF LocksInv, TypeInv, LocksTypeOK, QuietInv, GuardInv, PreInv,
    OwnerInv, LockHasOwner, Stage, Acquiring, Critical, Working, vars,
    storeVars, taskVars, tailVars, Goto
<1>1. ASSUME NEW t \in Task, Submit(t) PROVE OwnerInv'
  BY <1>1 DEF Submit
<1>2. ASSUME NEW t \in Task, Granting(t) PROVE OwnerInv'
  BY <1>2 DEF Granting, Conflicting, AcquireFree
<1>3. ASSUME NEW t \in Task, Refused(t) PROVE OwnerInv'
  BY <1>3 DEF Refused
<1>4. ASSUME NEW t \in Task, RevokeLock(t) PROVE OwnerInv'
  BY <1>4 DEF RevokeLock
<1>5. ASSUME NEW t \in Task, InsertLock(t) PROVE OwnerInv'
  BY <1>5 DEF InsertLock
<1>6. ASSUME NEW t \in Task, NEW ok \in BOOLEAN, StampRegistry(t, ok) PROVE
    OwnerInv'
  BY <1>6 DEF StampRegistry, ArmGuard, Incident
<1>7. ASSUME NEW t \in Task, NEW landed \in BOOLEAN, AcquireFails(t, landed)
    PROVE OwnerInv'
  BY <1>7 DEF AcquireFails, Incident, Unlocked
<1>8. ASSUME NEW t \in Task, PersistRow(t) PROVE OwnerInv'
  BY <1>8 DEF PersistRow
<1>9. ASSUME NEW t \in Task, PersistRowFails(t) PROVE OwnerInv'
  BY <1>9 DEF PersistRowFails, Incident, GuardJobs
<1>10. ASSUME NEW t \in Task, NEW fate \in Fate, Cancel(t, fate) PROVE
    OwnerInv'
  <2>1. UNCHANGED booted /\ leaked \subseteq leaked' /\ late' \subseteq late \cup {t}
    BY <1>10 DEF Cancel, DropFuture
  <2>2. t \in late' => t \in late \/ t \in leaked'
    BY <1>10 DEF Cancel, DropFuture
  <2>3. \A x \in Task : x # t => /\ x \in held' \cup revoked' => x \in held \cup revoked
                               /\ stage'[x] = stage[x]
    BY <1>10 DEF Cancel, DropFuture
  <2>4. jobs \subseteq jobs' /\ (t \in armed => <<"release", t>> \in jobs')
    BY <1>10 DEF Cancel, GuardJobs
  <2>5. ASSUME booted, t \in held' \cup revoked', t \notin leaked'
        PROVE  \E kind \in {"release", "close", "verdict"} : <<kind, t>> \in jobs'
    <3>1. ~Unguarded(t)
      BY <1>10, <2>5 DEF Cancel, DropFuture
    <3>2. CASE stage[t] \in Acquiring \cup {"sleep", "final", "close"}
      BY <3>1, <3>2, <2>4 DEF Unguarded
    <3>3. CASE stage[t] \in Working \cup {"release"}
      BY <3>3, <2>4
    <3>4. CASE stage[t] \notin Acquiring \cup Working \cup {"sleep", "release", "final", "close"}
      <4>1. t \in held \cup revoked /\ t \notin leaked
        BY <1>10, <2>1, <2>5, <3>4 DEF Cancel, DropFuture, Fate
      <4> QED
        BY <4>1, <2>4, <2>5, <3>4
    <3> QED
      BY <3>2, <3>3, <3>4
  <2>6. booted' => late' \subseteq leaked'
    BY <2>1, <2>2
  <2>7. LockHasOwner'
    <3> SUFFICES ASSUME booted', NEW x \in held' \cup revoked', x \notin leaked',
                        ~ \E kind \in {"release", "close", "verdict"} : <<kind, x>> \in jobs'
                 PROVE  stage'[x] \in Acquiring \cup Working \cup
                                        {"sleep", "release", "final", "close"}
      OBVIOUS
    <3>1. x \in Task /\ x # t
      BY <1>10, <2>1, <2>5 DEF Cancel, DropFuture
    <3> QED
      BY <3>1, <2>1, <2>3, <2>4
  <2> QED
    BY <2>6, <2>7
<1>11. ASSUME NEW t \in Task, LateLock(t) PROVE OwnerInv'
  BY <1>11 DEF LateLock
<1>12. ASSUME NEW t \in Task, RetryLock(t) PROVE OwnerInv'
  BY <1>12 DEF RetryLock
<1>13. ASSUME NEW t \in Task, Expire(t) PROVE OwnerInv'
  BY <1>13 DEF Expire
<1>14. ASSUME NEW t \in Task, FlipRow(t) PROVE OwnerInv'
  BY <1>14 DEF FlipRow
<1>15. ASSUME NEW t \in Task, FlipMem(t) PROVE OwnerInv'
  BY <1>15 DEF FlipMem
<1>16. ASSUME NEW t \in Task, NEW landed \in BOOLEAN, FlipFails(t, landed)
    PROVE OwnerInv'
  BY <1>16 DEF FlipFails, Incident
<1>17. ASSUME NEW t \in Task, Publish(t) PROVE OwnerInv'
  BY <1>17 DEF Publish
<1>18. ASSUME NEW t \in Task, RunEnds(t) PROVE OwnerInv'
  BY <1>18 DEF RunEnds
<1>19. ASSUME NEW t \in Task, PublishEnds(t) PROVE OwnerInv'
  BY <1>19 DEF PublishEnds
<1>20. ASSUME NEW t \in Task, NEW retry \in BOOLEAN, AwaitEnds(t, retry) PROVE
    OwnerInv'
  BY <1>20 DEF AwaitEnds, Incident
<1>21. ASSUME NEW t \in Task, NEW ok \in BOOLEAN, TailReleases(t, ok) PROVE
    OwnerInv'
  BY <1>21 DEF TailReleases, release_task_locks, Incident
<1>22. ASSUME NEW t \in Task, TailPersists(t) PROVE OwnerInv'
  BY <1>22 DEF TailPersists, Return
<1>23. ASSUME NEW t \in Task, TailPersistFails(t) PROVE OwnerInv'
  BY <1>23 DEF TailPersistFails, Incident
<1>24. ASSUME NEW t \in Task, Finalize(t) PROVE OwnerInv'
  BY <1>24 DEF Finalize, Ended
<1>25. ASSUME NEW t \in Task, NEW ok \in BOOLEAN, Close(t, ok) PROVE OwnerInv'
  BY <1>25 DEF Close, Return, release_task_locks, Incident
<1>26. ASSUME NEW t \in Task, ShutdownTask(t) PROVE OwnerInv'
  BY <1>26 DEF ShutdownTask, Ended, Incident
<1>27. ASSUME NEW t \in Task, NEW fate \in Fate, AbortLands(t, fate) PROVE
    OwnerInv'
  <2>1. UNCHANGED booted /\ leaked \subseteq leaked' /\ late' \subseteq late \cup {t}
    BY <1>27 DEF AbortLands, DropFuture
  <2>2. t \in late' => t \in late \/ t \in leaked'
    BY <1>27 DEF AbortLands, DropFuture
  <2>3. \A x \in Task : x # t => /\ x \in held' \cup revoked' => x \in held \cup revoked
                               /\ stage'[x] = stage[x]
    BY <1>27 DEF AbortLands, DropFuture
  <2>4. jobs \subseteq jobs' /\ (t \in armed => <<"release", t>> \in jobs')
    BY <1>27 DEF AbortLands, GuardJobs
  <2>5. ASSUME booted, t \in held' \cup revoked', t \notin leaked'
        PROVE  \E kind \in {"release", "close", "verdict"} : <<kind, t>> \in jobs'
    <3>1. ~Unguarded(t)
      BY <1>27, <2>5 DEF AbortLands, DropFuture
    <3>2. CASE stage[t] \in Acquiring \cup {"sleep", "final", "close"}
      BY <3>1, <3>2, <2>4 DEF Unguarded
    <3>3. CASE stage[t] \in Working \cup {"release"}
      BY <3>3, <2>4
    <3>4. CASE stage[t] \notin Acquiring \cup Working \cup {"sleep", "release", "final", "close"}
      <4>1. t \in held \cup revoked /\ t \notin leaked
        BY <1>27, <2>1, <2>5, <3>4 DEF AbortLands, DropFuture, Fate
      <4> QED
        BY <4>1, <2>4, <2>5, <3>4
    <3> QED
      BY <3>2, <3>3, <3>4
  <2>6. booted' => late' \subseteq leaked'
    BY <2>1, <2>2
  <2>7. LockHasOwner'
    <3> SUFFICES ASSUME booted', NEW x \in held' \cup revoked', x \notin leaked',
                        ~ \E kind \in {"release", "close", "verdict"} : <<kind, x>> \in jobs'
                 PROVE  stage'[x] \in Acquiring \cup Working \cup
                                        {"sleep", "release", "final", "close"}
      OBVIOUS
    <3>1. x \in Task /\ x # t
      BY <1>27, <2>1, <2>5 DEF AbortLands, DropFuture
    <3> QED
      BY <3>1, <2>1, <2>3, <2>4
  <2> QED
    BY <2>6, <2>7
<1>28. ASSUME NEW t \in Task, Verdict(t) PROVE OwnerInv'
  BY <1>28 DEF Verdict, Ended
<1>29. ASSUME NEW t \in Task, Recover(t) PROVE OwnerInv'
  BY <1>29 DEF Recover, Ended
<1>30. ASSUME NEW t \in Task, NEW ok \in BOOLEAN, CloseJob(t, ok) PROVE
    OwnerInv'
  BY <1>30 DEF CloseJob, release_task_locks, Incident
<1>31. ASSUME NEW t \in Task, PersistJob(t) PROVE OwnerInv'
  BY <1>31 DEF PersistJob
<1>32. ASSUME NEW t \in Task, NEW ok \in BOOLEAN, ReleaseJob(t, ok) PROVE
    OwnerInv'
  BY <1>32 DEF ReleaseJob, release_task_locks, Incident
<1>33. ASSUME NEW t \in Task, FailJob(t) PROVE OwnerInv'
  BY <1>33 DEF FailJob
<1>34. ASSUME Crash PROVE OwnerInv'
  BY <1>34 DEF Crash, Incident
<1>35. ASSUME NEW reapOk \in BOOLEAN, NEW rowsOk \in BOOLEAN,
    Bootstrap(reapOk, rowsOk) PROVE OwnerInv'
  BY <1>35 DEF Bootstrap, Incident
<1>36. ASSUME ReapAgain PROVE OwnerInv'
  BY <1>36 DEF ReapAgain, Reap, MayReap
<1>37. CASE UNCHANGED vars
  BY <1>37
<1> HIDE DEF LocksInv, TypeInv, LocksTypeOK, QuietInv, GuardInv, PreInv,
    OwnerInv, LockHasOwner, Stage, Acquiring, Critical, Working, Goto
<1> QED
  BY <1>1, <1>2, <1>3, <1>4, <1>5, <1>6, <1>7, <1>8, <1>9, <1>10, <1>11,
      <1>12, <1>13, <1>14, <1>15, <1>16, <1>17, <1>18, <1>19, <1>20, <1>21,
      <1>22, <1>23, <1>24, <1>25, <1>26, <1>27, <1>28, <1>29, <1>30, <1>31,
      <1>32, <1>33, <1>34, <1>35, <1>36, <1>37 DEF Next, AcquireStep,
      TaskStep, JobStep, FaultStep
\* The initial state satisfies the invariant.
LEMMA LocksInit == Init => LocksInv
<1> SUFFICES ASSUME Init PROVE LocksInv
  OBVIOUS
<1>1. TypeInv
  <2>1. \A t \in Task : mutex # t /\ stage[t] = "idle" /\ plan[t] = {}
    BY LocksAssumption DEF Init
  <2>2. incidents \in 0 .. MaxIncidents
    BY LocksAssumption DEF Init
  <2> QED
    BY <2>1, <2>2 DEF Init, TypeInv, LocksTypeOK, Stage, Critical
<1>2. QuietInv /\ EndInv /\ KeepInv /\ PlanInv /\ GuardInv
  BY DEF Init, QuietInv, EndInv, KeepInv, PlanInv, GuardInv, AtWork, Working
<1>3. PreInv /\ OwnerInv
  BY DEF Init, PreInv, OwnerInv, LockHasOwner
<1> QED
  BY <1>1, <1>2, <1>3 DEF LocksInv

\* Every step of submissions, waiters, tails, clean-ups, shutdowns and restarts
\* preserves the inductive invariant of the interval locks.
THEOREM LocksInvHolds == Spec => []LocksInv
<1>1. LocksInv /\ [Next]_vars => LocksInv'
  BY TypeStep, QuietStep, EndStep, KeepStep, PlanStep, GuardStep, PreStep,
      OwnerStep DEF LocksInv
<1> QED
  BY <1>1, LocksInit, PTL DEF Spec

\* Types, and the acquisition mutex (lock_acquire_locks) is held exactly by the
\* future between try_acquire_lock's read and its grant.
THEOREM LocksTyped == Spec => []LocksTypeOK
<1>1. LocksInv => LocksTypeOK
  BY DEF LocksInv, TypeInv
<1> QED
  BY <1>1, LocksInvHolds, PTL

\* No clean-up, reap, guard or shutdown of another task takes the lock row of a
\* task that is at work: it is held, or marked as revoked.
THEOREM WorkersKeepTheirLocks == Spec => []WorkerKeepsItsLock
<1>1. LocksInv => WorkerKeepsItsLock
  BY DEF LocksInv, KeepInv, AtWork, WorkerKeepsItsLock, Granted
<1> QED
  BY <1>1, LocksInvHolds, PTL

\* Two tasks with overlapping intervals never work at the same time unless one
\* was preempted, for any number of concurrent submissions and any priorities
\* (try_acquire_lock, revoke, insert, registry stamp as separate awaits).
THEOREM LocksExclude == Spec => []LockExclusion
<1>1. LocksInv => LockExclusion
  BY DEF LocksInv, PlanInv, AtWork, LockExclusion, Granted
<1> QED
  BY <1>1, LocksInvHolds, PTL

\* A lock row has someone who will delete it, except in the windows in which
\* the code loses track of it (the grant has not returned, a failed release, a
\* late insert, a reap that cannot see the datasource).
THEOREM LocksHaveOwners == Spec => []LockHasOwner
<1>1. LocksInv => LockHasOwner
  BY DEF LocksInv, OwnerInv
<1> QED
  BY <1>1, LocksInvHolds, PTL
=============================================================================
