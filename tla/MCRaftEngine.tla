---------------------------- MODULE MCRaftEngine ----------------------------
(***************************************************************************)
(* Model checking of RaftEngine.  Where both n1 and n2 are candidates      *)
(* they are interchangeable.                                               *)
(***************************************************************************)
EXTENDS RaftEngine, TLC

CONSTANTS n1, n2

\* Pre-vote rounds are not used by RaftEngine.
MCMaxRound == [n \in Node |-> 0]

Symmetry == Permutations({n1, n2})
=============================================================================
