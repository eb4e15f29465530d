--------------------------- MODULE MCRaftElection ---------------------------
(***************************************************************************)
(* Model checking of RaftElection on three members.                        *)
(***************************************************************************)
EXTENDS RaftElection

CONSTANTS n1, n2, n3

\* Two members run the current build, the third one that echoes no round id.
MCNode == {n1, n2, n3}
MCLegacy == {n3}

\* n1 may time out twice, n2 once, n3 only votes: two rival candidates, one of
\* them with a stale round behind it.
MCMaxRound == [n \in MCNode |-> CASE n = n1 -> 2 [] n = n2 -> 1 [] n = n3 -> 0]
=============================================================================
