---------------------------- MODULE MCTaskLocks ----------------------------
(* Two tasks with overlapping intervals; c has the higher priority: it        *)
(* preempts a, and a waits for it.                                            *)
EXTENDS TaskLocks

CONSTANTS a, c

Intervals == [t \in Task |-> IF t = a THEN [start |-> 0, end |-> 2]
                                      ELSE [start |-> 1, end |-> 3]]
Priorities == [t \in Task |-> IF t = c THEN 1 ELSE 0]
=============================================================================
