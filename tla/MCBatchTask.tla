----------------------------- MODULE MCBatchTask -----------------------------
(* Small instances of BatchTask: one append task whose stores may be slow,   *)
(* and replace tasks of the same interval.                                   *)
EXTENDS BatchTask
==============================================================================
