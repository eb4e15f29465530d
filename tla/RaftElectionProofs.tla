------------------------- MODULE RaftElectionProofs -------------------------
(***************************************************************************)
(* Proofs about RaftElection, for every set of members, every choice of    *)
(* legacy members and every value of the bounds.                           *)
(*                                                                         *)
(* The election theorem rests on VoteInv: a vote on the wire pins the      *)
(* voter's latch for as long as the voter stays in that term.  With        *)
(* messages never removed, "u voted for c at t" is a fact about msgs that  *)
(* stays true, so two winners of a term would need two majorities that     *)
(* share a voter, and that voter's two votes are for the same candidate.   *)
(***************************************************************************)
EXTENDS RaftElection, FiniteSetTheorems, TLAPS

-----------------------------------------------------------------------------
(* Majorities.                                                             *)

LEMMA MajorityGrows ==
    ASSUME NEW S, NEW T, T \subseteq Node, S \subseteq T, IsMajority(S)
    PROVE  IsMajority(T)
<1>1. IsFiniteSet(T) /\ IsFiniteSet(S)
  BY NodeAssumption, FS_Subset
<1>2. Cardinality(S) <= Cardinality(T)
  BY <1>1, FS_Subset
<1>3. Cardinality(S) \in Nat /\ Cardinality(T) \in Nat /\ Cardinality(Node) \in Nat
  BY <1>1, NodeAssumption, FS_CardinalityType
<1> QED
  BY <1>2, <1>3 DEF IsMajority

LEMMA MajoritiesMeet ==
    ASSUME NEW S, NEW T, S \subseteq Node, T \subseteq Node,
           IsMajority(S), IsMajority(T)
    PROVE  \E u \in Node : u \in S /\ u \in T
<1>1. Cardinality(S) \in Nat /\ Cardinality(T) \in Nat /\ Cardinality(Node) \in Nat
  BY NodeAssumption, FS_Subset, FS_CardinalityType
<1>2. Cardinality(S) + Cardinality(T) > Cardinality(Node)
  BY <1>1 DEF IsMajority
<1>3. S \cap T # {}
  BY <1>2, NodeAssumption, FS_MajoritiesIntersect
<1> QED
  BY <1>3

\* A node without peers is a majority.
LEMMA LoneMajority ==
    ASSUME NEW n \in Node, Peers(n) = {}
    PROVE  IsMajority({n})
<1>1. Node = {n}
  BY DEF Peers
<1>2. Cardinality({n}) = 1
  BY FS_Singleton
<1> QED
  BY <1>1, <1>2 DEF IsMajority

-----------------------------------------------------------------------------
(* Type correctness.                                                       *)

\* Every handler keeps every field of the engine, and every frame on the
\* wire, within its type.
LEMMA TypeStep == TypeOK /\ [Next]_electionVars => TypeOK'
<1> SUFFICES ASSUME TypeOK, [Next]_electionVars PROVE TypeOK'
  OBVIOUS
<1> USE DEF TypeOK, termVars, voteVars, preVoteVars
<1>1. CASE UNCHANGED electionVars
  BY <1>1 DEF electionVars
<1>2. ASSUME NEW n \in Node, TimerExpires(n) PROVE TypeOK'
  BY <1>2 DEF TimerExpires
<1>3. ASSUME NEW n \in Node, TickStartPreVote(n) PROVE TypeOK'
  <2>1. RequestPreVote(n, current_term[n] + 1, pre_vote_round_id[n] + 1) \in Message
    BY DEF RequestPreVote, Message
  <2> QED
    BY <1>3, <2>1 DEF TickStartPreVote, ResetTimer
<1>4. ASSUME NEW n \in Node, TickArmElection(n) PROVE TypeOK'
  <2>1. VoteRequest(n, current_term[n] + 1) \in Message
    BY DEF VoteRequest, Message
  <2> QED
    BY <1>4, <2>1 DEF TickArmElection, ArmElection, ResetTimer, Role
<1>5. ASSUME NEW n \in Node, TickLeader(n) PROVE TypeOK'
  <2>1. Heartbeat(n, current_term[n]) \in Message
    BY DEF Heartbeat, Message
  <2> QED
    BY <1>5, <2>1 DEF TickLeader
<1>6. ASSUME NEW n \in Node, NEW m \in msgs, ReceivePreVoteRequest(n, m) PROVE TypeOK'
  <2>1. m.from \in Node /\ m.term \in Nat /\ m.round \in Nat
    BY <1>6 DEF ReceivePreVoteRequest, Message
  <2>2. RequestPreVoteResponse(n, m.from, m.term,
                               IF n \in Legacy THEN 0 ELSE m.round) \in Message
    BY <2>1 DEF RequestPreVoteResponse, Message
  <2> QED
    BY <1>6, <2>2 DEF ReceivePreVoteRequest
<1>7. ASSUME NEW n \in Node, NEW m \in msgs, ReceivePreVoteResponse(n, m) PROVE TypeOK'
  <2>1. m.from \in Node
    BY <1>7 DEF ReceivePreVoteResponse, Message
  <2> QED
    BY <1>7, <2>1 DEF ReceivePreVoteResponse
<1>8. ASSUME NEW n \in Node, NEW m \in msgs, ReceiveVoteRequest(n, m) PROVE TypeOK'
  <2>1. m.from \in Node /\ m.term \in Nat
    BY <1>8 DEF ReceiveVoteRequest, Message
  <2>2. VoteResponse(n, m.from, m.term) \in Message
    BY <2>1 DEF VoteResponse, Message
  <2> QED
    BY <1>8, <2>1, <2>2 DEF ReceiveVoteRequest, Latch, Role
<1>9. ASSUME NEW n \in Node, NEW m \in msgs, ReceiveVoteResponse(n, m) PROVE TypeOK'
  <2>1. m.from \in Node /\ m.term \in Nat
    BY <1>9 DEF ReceiveVoteResponse, Message
  <2> QED
    BY <1>9, <2>1 DEF ReceiveVoteResponse, Role
<1>10. ASSUME NEW n \in Node, NEW m \in msgs, ReceiveHeartbeat(n, m) PROVE TypeOK'
  <2>1. m.term \in Nat
    BY <1>10 DEF ReceiveHeartbeat, Message
  <2> QED
    BY <1>10, <2>1 DEF ReceiveHeartbeat, Latch, ResetTimer, Role
<1> QED
  BY <1>1, <1>2, <1>3, <1>4, <1>5, <1>6, <1>7, <1>8, <1>9, <1>10 DEF Next, Receive

\* The state of every member and every frame stays well typed.
THEOREM TypeCorrect == Spec => []TypeOK
<1>1. Init => TypeOK
  BY DEF Init, TypeOK, Role
<1> QED
  BY <1>1, TypeStep, PTL DEF Spec

-----------------------------------------------------------------------------
(* The vote latch.                                                         *)

\* What VoteLatch says of one step.
LatchStep ==
    \A n \in Node :
        /\ current_term'[n] >= current_term[n]
        /\ current_term'[n] = current_term[n] /\ voted_for[n] # NoNode
              => voted_for'[n] = voted_for[n]

\* Only ArmElection, ReceiveVoteRequest and ReceiveHeartbeat touch the term
\* or the vote; the first leaves the term it voted in, the others go through
\* Latch, which clears nothing within a term.
LEMMA LatchHolds == TypeOK /\ [Next]_electionVars => LatchStep
<1> SUFFICES ASSUME TypeOK, [Next]_electionVars PROVE LatchStep
  OBVIOUS
<1> USE DEF TypeOK, LatchStep, termVars
<1>1. CASE UNCHANGED <<current_term, voted_for>>
  BY <1>1
<1>2. ASSUME NEW n \in Node, TickArmElection(n) PROVE LatchStep
  BY <1>2 DEF TickArmElection, ArmElection
<1>3. ASSUME NEW n \in Node, NEW m \in msgs, ReceiveVoteRequest(n, m) PROVE LatchStep
  <2>1. m.term \in Nat
    BY <1>3 DEF ReceiveVoteRequest, Message
  <2> QED
    BY <1>3, <2>1 DEF ReceiveVoteRequest, Latch
<1>4. ASSUME NEW n \in Node, NEW m \in msgs, ReceiveHeartbeat(n, m) PROVE LatchStep
  <2>1. m.term \in Nat
    BY <1>4 DEF ReceiveHeartbeat, Message
  <2> QED
    BY <1>4, <2>1 DEF ReceiveHeartbeat, Latch
<1> QED
  BY <1>1, <1>2, <1>3, <1>4
     DEF Next, Receive, electionVars, TimerExpires, TickStartPreVote, TickLeader,
         ReceivePreVoteRequest, ReceivePreVoteResponse, ReceiveVoteResponse

\* A member's term never regresses and its vote within a term is write-once.
THEOREM VoteLatchHolds == Spec => VoteLatch
<1>1. TypeOK /\ [Next]_electionVars => [LatchStep]_electionVars
  BY LatchHolds
<1> QED
  BY <1>1, TypeCorrect, PTL DEF Spec, VoteLatch, LatchStep

-----------------------------------------------------------------------------
(* Election safety.                                                        *)

\* A vote given at t pins the voter's latch while it stays in t.
VoteInv ==
    \A u, c \in Node : \A t \in Nat :
        Voted(u, c, t) => /\ current_term[u] >= t
                          /\ current_term[u] = t => voted_for[u] = c

VoteUnique ==
    \A u, c, d \in Node : \A t \in Nat :
        Voted(u, c, t) /\ Voted(u, d, t) => c = d

\* Every counted vote was given, at the term of the active election.
TallyInv ==
    \A n \in Node : \A u \in votes_received[n] : Voted(u, n, election_term[n])

\* Every promotion is backed by a majority of given votes.
Voters(c, t) == {u \in Node : Voted(u, c, t)}

WonInv == \A p \in won : IsMajority(Voters(p[2], p[1]))

ElectionInv == TypeOK /\ VoteInv /\ VoteUnique /\ TallyInv /\ WonInv

\* Frames are never removed, so votes are not either.
LEMMA VotesStay ==
    ASSUME [Next]_electionVars
    PROVE  msgs \subseteq msgs'
<1>1. ASSUME NEW n \in Node,
             \/ TimerExpires(n) \/ TickStartPreVote(n) \/ TickLeader(n)
      PROVE  msgs \subseteq msgs'
  BY <1>1 DEF TimerExpires, TickStartPreVote, TickLeader
<1>2. ASSUME NEW n \in Node, TickArmElection(n) PROVE msgs \subseteq msgs'
  BY <1>2 DEF TickArmElection, ArmElection
<1>3. ASSUME NEW n \in Node, NEW m \in msgs, Receive(n, m) PROVE msgs \subseteq msgs'
  BY <1>3 DEF Receive, ReceivePreVoteRequest, ReceivePreVoteResponse,
              ReceiveVoteRequest, ReceiveVoteResponse, ReceiveHeartbeat
<1> QED
  BY <1>1, <1>2, <1>3 DEF Next, electionVars

\* Frames of the other kinds are no votes.
LEMMA NoNewVote ==
    ASSUME NEW x, x.type \notin {"VoteRequest", "VoteResponse"},
           msgs' \subseteq msgs \cup {x},
           NEW u, NEW c, NEW t, Voted(u, c, t)'
    PROVE  Voted(u, c, t)
<1>1. VoteRequest(c, t).type = "VoteRequest" /\ VoteResponse(u, c, t).type = "VoteResponse"
  BY DEF VoteRequest, VoteResponse
<1> QED
  BY <1>1 DEF Voted, VoteRequest, VoteResponse

\* The votes a step adds: the self-vote of a candidate, or one grant.
LEMMA NewVotes ==
    ASSUME TypeOK, [Next]_electionVars,
           NEW u \in Node, NEW c \in Node, NEW t \in Nat,
           Voted(u, c, t)', ~Voted(u, c, t)
    PROVE  /\ current_term'[u] = t
           /\ voted_for'[u] = c
           /\ \A d \in Node : VoteInv /\ Voted(u, d, t) => c = d
<1> USE DEF TypeOK
<1>1. CASE msgs' = msgs
  BY <1>1 DEF Voted
<1>2. ASSUME NEW n \in Node, TickStartPreVote(n) PROVE FALSE
  BY <1>2, NoNewVote DEF TickStartPreVote, RequestPreVote
<1>3. ASSUME NEW n \in Node, TickLeader(n) PROVE FALSE
  BY <1>3, NoNewVote DEF TickLeader, Heartbeat
<1>4. ASSUME NEW n \in Node, NEW m \in msgs, ReceivePreVoteRequest(n, m) PROVE FALSE
  BY <1>4, NoNewVote DEF ReceivePreVoteRequest, RequestPreVoteResponse
<1>5. ASSUME NEW n \in Node, TickArmElection(n)
      PROVE  u = n /\ c = n /\ t = current_term[n] + 1
  BY <1>5 DEF TickArmElection, ArmElection, Voted, VoteRequest, VoteResponse
<1>6. ASSUME NEW n \in Node, NEW m \in msgs, ReceiveVoteRequest(n, m), msgs' # msgs
      PROVE  u = n /\ c = m.from /\ t = m.term
  BY <1>6 DEF ReceiveVoteRequest, Voted, VoteRequest, VoteResponse
<1>7. CASE \E n \in Node : TickArmElection(n)
  <2>1. PICK n \in Node : TickArmElection(n)
    BY <1>7
  <2>2. u = n /\ c = n /\ t = current_term[n] + 1
    BY <1>5, <2>1
  <2>3. current_term'[u] = t /\ voted_for'[u] = c
    BY <2>1, <2>2 DEF TickArmElection, ArmElection
  <2>4. ASSUME NEW d \in Node, VoteInv, Voted(u, d, t) PROVE FALSE
    <3>1. current_term[u] >= t
      BY <2>4 DEF VoteInv
    <3> QED
      BY <2>2, <3>1
  <2> QED
    BY <2>3, <2>4
<1>8. CASE msgs' # msgs /\ \E n \in Node : \E m \in msgs : ReceiveVoteRequest(n, m)
  <2>1. PICK n \in Node, m \in msgs : ReceiveVoteRequest(n, m)
    BY <1>8
  <2>2. u = n /\ c = m.from /\ t = m.term
    BY <1>6, <1>8, <2>1
  <2>3. Latch(n, m.term) \in {NoNode, m.from}
    BY <1>8, <2>1 DEF ReceiveVoteRequest
  <2>4. current_term'[u] = t /\ voted_for'[u] = c
    BY <2>1, <2>2, <2>3 DEF ReceiveVoteRequest
  <2>5. ASSUME NEW d \in Node, VoteInv, Voted(u, d, t) PROVE c = d
    <3>1. current_term[u] >= t /\ (current_term[u] = t => voted_for[u] = d)
      BY <2>5 DEF VoteInv
    <3>2. t >= current_term[u]
      BY <2>1, <2>2 DEF ReceiveVoteRequest
    <3>3. voted_for[u] = d /\ ~(t > current_term[u])
      BY <3>1, <3>2
    <3> QED
      BY <2>2, <2>3, <3>3, NoNodeAssumption DEF Latch
  <2> QED
    BY <2>4, <2>5
<1> QED
  BY <1>1, <1>2, <1>3, <1>4, <1>7, <1>8
     DEF Next, Receive, electionVars, termVars, voteVars, preVoteVars, TimerExpires,
         ReceivePreVoteResponse, ReceiveVoteResponse, ReceiveHeartbeat

\* ElectionInv is inductive.
LEMMA ElectionInvStep == ElectionInv /\ [Next]_electionVars => ElectionInv'
<1> SUFFICES ASSUME ElectionInv, [Next]_electionVars PROVE ElectionInv'
  OBVIOUS
<1> USE DEF ElectionInv
<1>1. TypeOK'
  BY TypeStep
<1>2. ASSUME NEW u, NEW c, NEW t, Voted(u, c, t) PROVE Voted(u, c, t)'
  BY <1>2, VotesStay DEF Voted, VoteRequest, VoteResponse
<1>3. VoteInv'
  <2> SUFFICES ASSUME NEW u \in Node, NEW c \in Node, NEW t \in Nat, Voted(u, c, t)'
               PROVE  /\ current_term'[u] >= t
                      /\ current_term'[u] = t => voted_for'[u] = c
    BY DEF VoteInv
  <2>1. CASE Voted(u, c, t)
    <3>1. current_term[u] >= t /\ (current_term[u] = t => voted_for[u] = c)
      BY <2>1 DEF VoteInv
    <3>2. /\ current_term'[u] >= current_term[u]
          /\ current_term'[u] = current_term[u] /\ voted_for[u] # NoNode
                => voted_for'[u] = voted_for[u]
      BY LatchHolds DEF LatchStep
    <3>3. current_term[u] \in Nat /\ current_term'[u] \in Nat /\ c # NoNode
      BY <1>1, NoNodeAssumption DEF TypeOK
    <3> QED
      BY <3>1, <3>2, <3>3
  <2>2. CASE ~Voted(u, c, t)
    BY <2>2, NewVotes
  <2> QED
    BY <2>1, <2>2
<1>4. VoteUnique'
  <2> SUFFICES ASSUME NEW u \in Node, NEW c \in Node, NEW d \in Node, NEW t \in Nat,
                      Voted(u, c, t)', Voted(u, d, t)'
               PROVE  c = d
    BY DEF VoteUnique
  <2>1. CASE Voted(u, c, t) /\ Voted(u, d, t)
    BY <2>1 DEF VoteUnique
  <2>2. CASE ~Voted(u, c, t) /\ Voted(u, d, t)
    BY <2>2, NewVotes
  <2>3. CASE Voted(u, c, t) /\ ~Voted(u, d, t)
    BY <2>3, NewVotes
  <2>4. CASE ~Voted(u, c, t) /\ ~Voted(u, d, t)
    <3>1. voted_for'[u] = c
      BY <2>4, NewVotes
    <3>2. voted_for'[u] = d
      BY <2>4, NewVotes
    <3> QED
      BY <3>1, <3>2
  <2> QED
    BY <2>1, <2>2, <2>3, <2>4
<1>5. TallyInv'
  <2> SUFFICES ASSUME NEW n \in Node, NEW u \in votes_received'[n]
               PROVE  Voted(u, n, election_term[n])'
    BY DEF TallyInv
  <2>1. CASE u \in votes_received[n] /\ election_term'[n] = election_term[n]
    BY <2>1, <1>2 DEF TallyInv
  <2>2. ASSUME NEW k \in Node, TickArmElection(k), k = n
        PROVE  Voted(u, n, election_term[n])'
    BY <2>2 DEF TypeOK, TickArmElection, ArmElection, Voted
  <2>3. ASSUME NEW k \in Node, NEW m \in msgs, ReceiveVoteResponse(k, m), k = n,
               u \notin votes_received[n]
        PROVE  Voted(u, n, election_term[n])'
    <3>1. u = m.from /\ m.to = n /\ m.term = election_term'[n]
      BY <2>3 DEF TypeOK, ReceiveVoteResponse, CountsVote
    <3>2. m = VoteResponse(m.from, m.to, m.term)
      BY <2>3 DEF TypeOK, Message, ReceiveVoteResponse, VoteResponse
    <3>3. VoteResponse(u, n, election_term'[n]) \in msgs'
      BY <3>1, <3>2, VotesStay
    <3> QED
      BY <3>3 DEF Voted, VoteResponse
  <2>4. CASE UNCHANGED <<votes_received, election_term>>
    BY <2>1, <2>4
  <2>5. ASSUME NEW k \in Node, TickArmElection(k), k # n
        PROVE  u \in votes_received[n] /\ election_term'[n] = election_term[n]
    BY <2>5 DEF TypeOK, TickArmElection, ArmElection
  <2>6. ASSUME NEW k \in Node, NEW m \in msgs, ReceiveVoteResponse(k, m)
        PROVE  /\ election_term'[n] = election_term[n]
               /\ k # n => u \in votes_received[n]
    BY <2>6 DEF TypeOK, ReceiveVoteResponse
  <2> QED
    BY <2>1, <2>2, <2>3, <2>4, <2>5, <2>6
       DEF Next, Receive, electionVars, voteVars, TimerExpires, TickStartPreVote,
           TickLeader, ReceivePreVoteRequest, ReceivePreVoteResponse,
           ReceiveVoteRequest, ReceiveHeartbeat
<1>6. WonInv'
  <2> SUFFICES ASSUME NEW p \in won'
               PROVE  IsMajority(Voters(p[2], p[1])')
    BY DEF WonInv
  <2>1. CASE p \in won
    <3>1. IsMajority(Voters(p[2], p[1]))
      BY <2>1 DEF WonInv
    <3>2. Voters(p[2], p[1]) \subseteq Voters(p[2], p[1])'
      BY <1>2 DEF Voters
    <3>3. Voters(p[2], p[1])' \subseteq Node
      BY DEF Voters
    <3> QED
      BY <3>1, <3>2, <3>3, MajorityGrows
  <2>2. ASSUME NEW n \in Node, TickArmElection(n), p \notin won
        PROVE  IsMajority(Voters(p[2], p[1])')
    <3>1. Peers(n) = {} /\ p = <<current_term[n] + 1, n>>
      BY <2>2 DEF TickArmElection, ArmElection
    <3>2. Voted(n, p[2], p[1])'
      BY <2>2, <3>1 DEF TickArmElection, ArmElection, Voted
    <3>3. {n} \subseteq Voters(p[2], p[1])' /\ Voters(p[2], p[1])' \subseteq Node
      BY <3>2 DEF Voters
    <3> QED
      BY <3>1, <3>3, LoneMajority, MajorityGrows
  <2>3. ASSUME NEW n \in Node, NEW m \in msgs, ReceiveVoteResponse(n, m), p \notin won
        PROVE  IsMajority(Voters(p[2], p[1])')
    <3>1. /\ p = <<m.term, n>>
          /\ m.term = election_term'[n]
          /\ IsMajority(votes_received'[n])
      BY <2>3 DEF TypeOK, ReceiveVoteResponse, CountsVote
    <3>2. \A u \in votes_received'[n] : Voted(u, p[2], p[1])'
      BY <1>5, <3>1 DEF TallyInv
    <3>3. /\ votes_received'[n] \subseteq Voters(p[2], p[1])'
          /\ Voters(p[2], p[1])' \subseteq Node
      BY <1>1, <3>2 DEF TypeOK, Voters
    <3> QED
      BY <3>1, <3>3, MajorityGrows
  <2> QED
    BY <2>1, <2>2, <2>3
       DEF Next, Receive, electionVars, voteVars, TimerExpires, TickStartPreVote,
           TickLeader, ReceivePreVoteRequest, ReceivePreVoteResponse,
           ReceiveVoteRequest, ReceiveHeartbeat
<1> QED
  BY <1>1, <1>3, <1>4, <1>5, <1>6

\* Two winners of one term share a voter, who voted once.
LEMMA ElectionInvIsSafe == ElectionInv => ElectionSafety
<1> SUFFICES ASSUME ElectionInv, NEW p \in won, NEW q \in won, p[1] = q[1]
             PROVE  p = q
  BY DEF ElectionSafety
<1>1. p \in Nat \X Node /\ q \in Nat \X Node
  BY DEF ElectionInv, TypeOK
<1>2. PICK u \in Node : u \in Voters(p[2], p[1]) /\ u \in Voters(q[2], q[1])
  <2>1. IsMajority(Voters(p[2], p[1])) /\ IsMajority(Voters(q[2], q[1]))
    BY DEF ElectionInv, WonInv
  <2>2. Voters(p[2], p[1]) \subseteq Node /\ Voters(q[2], q[1]) \subseteq Node
    BY DEF Voters
  <2> QED
    BY <2>1, <2>2, MajoritiesMeet
<1>3. p[2] = q[2]
  BY <1>1, <1>2 DEF ElectionInv, VoteUnique, Voters
<1> QED
  BY <1>1, <1>3

\* At most one member is promoted in a term, for any number of members and
\* any loss, duplication or reordering of frames.
THEOREM ElectionIsSafe == Spec => []ElectionSafety
<1>1. Init => ElectionInv
  <2>1. Init => TypeOK
    BY DEF Init, TypeOK, Role
  <2>2. Init => \A u, c, t : ~Voted(u, c, t)
    BY DEF Init, Voted
  <2>3. Init => TallyInv /\ WonInv
    BY DEF Init, TallyInv, WonInv
  <2> QED
    BY <2>1, <2>2, <2>3 DEF ElectionInv, VoteInv, VoteUnique
<1> QED
  BY <1>1, ElectionInvStep, ElectionInvIsSafe, PTL DEF Spec

-----------------------------------------------------------------------------
(* Pre-votes.                                                              *)

\* Round ids start at 1, so only a legacy voter answers with 0.
RoundInv ==
    /\ \A m \in msgs : m.type = "RequestPreVote" => m.round >= 1
    /\ \A m \in msgs :
          m.type = "RequestPreVoteResponse" /\ m.round = 0 => m.from \in Legacy

\* The round in flight was announced under the current generation.
InFlightInv ==
    \A n \in Node : pre_vote_in_flight[n] # 0 =>
        RequestPreVote(n, pre_vote_in_flight[n], pre_vote_round_id[n]) \in msgs

\* A term on a heartbeat was opened by some candidate's request.
HeartbeatInv ==
    \A m \in msgs : m.type = "Heartbeat" /\ m.term > 0 =>
        \E c \in Node : VoteRequest(c, m.term) \in msgs

PreVoteInv ==
    /\ TypeOK
    /\ RoundInv
    /\ InFlightInv
    /\ HeartbeatInv
    /\ PreVotesBelongToRound
    /\ TermBackedByPreVotes

\* Grants stay granted.
LEMMA GrantsStay ==
    ASSUME [Next]_electionVars, NEW v, NEW c, NEW r, GrantedInRound(v, c, r)
    PROVE  GrantedInRound(v, c, r)'
BY VotesStay DEF GrantedInRound, RequestPreVote

LEMMA RoundStep == PreVoteInv /\ [Next]_electionVars => RoundInv'
<1> SUFFICES ASSUME PreVoteInv, [Next]_electionVars PROVE RoundInv'
  OBVIOUS
<1> USE DEF PreVoteInv, RoundInv, TypeOK
<1>1. CASE msgs' = msgs
  BY <1>1
<1>2. ASSUME NEW n \in Node, TickStartPreVote(n) PROVE RoundInv'
  BY <1>2 DEF TickStartPreVote, RequestPreVote
<1>3. ASSUME NEW n \in Node, TickArmElection(n) PROVE RoundInv'
  BY <1>3 DEF TickArmElection, ArmElection, VoteRequest
<1>4. ASSUME NEW n \in Node, TickLeader(n) PROVE RoundInv'
  BY <1>4 DEF TickLeader, Heartbeat
<1>5. ASSUME NEW n \in Node, NEW m \in msgs, ReceivePreVoteRequest(n, m) PROVE RoundInv'
  BY <1>5 DEF ReceivePreVoteRequest, RequestPreVoteResponse
<1>6. ASSUME NEW n \in Node, NEW m \in msgs, ReceiveVoteRequest(n, m) PROVE RoundInv'
  BY <1>6 DEF ReceiveVoteRequest, VoteResponse
<1> QED
  BY <1>1, <1>2, <1>3, <1>4, <1>5, <1>6
     DEF Next, Receive, electionVars, TimerExpires,
         ReceivePreVoteResponse, ReceiveVoteResponse, ReceiveHeartbeat

LEMMA InFlightStep == PreVoteInv /\ [Next]_electionVars => InFlightInv'
<1> SUFFICES ASSUME PreVoteInv, [Next]_electionVars, NEW n \in Node,
                    pre_vote_in_flight'[n] # 0
             PROVE  RequestPreVote(n, pre_vote_in_flight'[n], pre_vote_round_id'[n])
                        \in msgs'
  BY DEF InFlightInv, RequestPreVote
<1>1. CASE pre_vote_in_flight'[n] = pre_vote_in_flight[n]
           /\ pre_vote_round_id'[n] = pre_vote_round_id[n]
  BY <1>1, VotesStay DEF PreVoteInv, InFlightInv
<1>2. ASSUME NEW k \in Node, TickStartPreVote(k), k = n
      PROVE  RequestPreVote(n, pre_vote_in_flight'[n], pre_vote_round_id'[n]) \in msgs'
  BY <1>2 DEF TickStartPreVote, PreVoteInv, TypeOK
<1>3. ASSUME NEW k \in Node, TickStartPreVote(k), k # n
      PROVE  pre_vote_in_flight'[n] = pre_vote_in_flight[n]
             /\ pre_vote_round_id'[n] = pre_vote_round_id[n]
  BY <1>3 DEF TickStartPreVote, PreVoteInv, TypeOK
<1>4. ASSUME NEW k \in Node, TickArmElection(k) \/ TickLeader(k)
      PROVE  pre_vote_in_flight'[n] = pre_vote_in_flight[n]
             /\ pre_vote_round_id'[n] = pre_vote_round_id[n]
  BY <1>4 DEF TickArmElection, TickLeader, PreVoteInv, TypeOK
<1>5. CASE UNCHANGED <<pre_vote_in_flight, pre_vote_round_id>>
  BY <1>1, <1>5
<1> QED
  BY <1>1, <1>2, <1>3, <1>4, <1>5
     DEF Next, Receive, electionVars, preVoteVars, TimerExpires,
         ReceivePreVoteRequest, ReceivePreVoteResponse, ReceiveVoteRequest,
         ReceiveVoteResponse, ReceiveHeartbeat

LEMMA BelongStep == PreVoteInv /\ [Next]_electionVars => PreVotesBelongToRound'
<1> SUFFICES ASSUME PreVoteInv, [Next]_electionVars,
                    NEW n \in Node, NEW v \in pre_votes_received'[n] \ {n}
             PROVE  GrantedInRound(v, n, pre_vote_round_id[n])'
  BY DEF PreVotesBelongToRound
<1>1. CASE v \in pre_votes_received[n] /\ pre_vote_round_id'[n] = pre_vote_round_id[n]
  <2>1. GrantedInRound(v, n, pre_vote_round_id[n])
    BY <1>1 DEF PreVoteInv, PreVotesBelongToRound
  <2> QED
    BY <1>1, <2>1, VotesStay DEF GrantedInRound, RequestPreVote
<1>2. ASSUME NEW k \in Node, TickStartPreVote(k)
      PROVE  v \in pre_votes_received[n] /\ pre_vote_round_id'[n] = pre_vote_round_id[n]
  BY <1>2 DEF TickStartPreVote, PreVoteInv, TypeOK
<1>3. ASSUME NEW k \in Node, NEW m \in msgs, ReceivePreVoteResponse(k, m),
             v \notin pre_votes_received[n]
      PROVE  GrantedInRound(v, n, pre_vote_round_id[n])'
  <2>1. /\ k = n /\ v = m.from /\ m.to = n
        /\ m.type = "RequestPreVoteResponse"
        /\ pre_vote_round_id' = pre_vote_round_id
        /\ msgs' = msgs
        /\ AcceptRound(n, m)
    BY <1>3 DEF ReceivePreVoteResponse, PreVoteInv, TypeOK
  <2>2. CASE m.round = pre_vote_round_id[n]
    BY <2>1, <2>2 DEF GrantedInRound
  <2>3. CASE m.round = 0 /\ pre_vote_in_flight[n] # 0 /\ pre_vote_in_flight[n] = m.term
    <3>1. RequestPreVote(n, m.term, pre_vote_round_id[n]) \in msgs
      BY <2>3 DEF PreVoteInv, InFlightInv
    <3>2. v \in Legacy
      BY <2>1, <2>3 DEF PreVoteInv, RoundInv
    <3> QED
      BY <2>1, <2>3, <3>1, <3>2 DEF GrantedInRound, RequestPreVote
  <2> QED
    BY <2>1, <2>2, <2>3 DEF AcceptRound
<1>4. ASSUME NEW k \in Node, NEW m \in msgs, ReceivePreVoteResponse(k, m)
      PROVE  pre_vote_round_id' = pre_vote_round_id
  BY <1>4 DEF ReceivePreVoteResponse
<1>5. CASE UNCHANGED <<pre_votes_received, pre_vote_round_id>>
  BY <1>1, <1>5
<1> QED
  BY <1>1, <1>2, <1>3, <1>4, <1>5
     DEF Next, Receive, electionVars, preVoteVars, TimerExpires, TickArmElection,
         TickLeader, ReceivePreVoteRequest, ReceiveVoteRequest,
         ReceiveVoteResponse, ReceiveHeartbeat

LEMMA HeartbeatStep == PreVoteInv /\ [Next]_electionVars => HeartbeatInv'
<1> SUFFICES ASSUME PreVoteInv, [Next]_electionVars, NEW m \in msgs',
                    m.type = "Heartbeat", m.term > 0
             PROVE  \E c \in Node : VoteRequest(c, m.term) \in msgs'
  BY DEF HeartbeatInv, VoteRequest
<1>1. CASE m \in msgs
  BY <1>1, VotesStay DEF PreVoteInv, HeartbeatInv
<1>2. CASE m \notin msgs
  <2>1. ASSUME NEW n \in Node, TickLeader(n)
        PROVE  m.term = current_term[n]
    BY <1>2, <2>1 DEF TickLeader, Heartbeat
  <2>2. ASSUME NEW n \in Node, TickLeader(n)
        PROVE  \E c \in Node : VoteRequest(c, m.term) \in msgs'
    BY <2>1, <2>2, VotesStay DEF PreVoteInv, TermBackedByPreVotes
  <2>3. ASSUME NEW n \in Node, TickStartPreVote(n) PROVE FALSE
    BY <1>2, <2>3 DEF TickStartPreVote, RequestPreVote
  <2>4. ASSUME NEW n \in Node, TickArmElection(n) PROVE FALSE
    BY <1>2, <2>4 DEF TickArmElection, ArmElection, VoteRequest
  <2>5. ASSUME NEW n \in Node, NEW k \in msgs, ReceivePreVoteRequest(n, k) PROVE FALSE
    BY <1>2, <2>5 DEF ReceivePreVoteRequest, RequestPreVoteResponse
  <2>6. ASSUME NEW n \in Node, NEW k \in msgs, ReceiveVoteRequest(n, k) PROVE FALSE
    BY <1>2, <2>6 DEF ReceiveVoteRequest, VoteResponse
  <2> QED
    BY <1>2, <2>2, <2>3, <2>4, <2>5, <2>6
       DEF Next, Receive, electionVars, TimerExpires,
           ReceivePreVoteResponse, ReceiveVoteResponse, ReceiveHeartbeat
<1> QED
  BY <1>1, <1>2

\* The voters on c's side in round r.
Backers(c, r) == {c} \cup {v \in Node : GrantedInRound(v, c, r)}

\* A step raises a term only to that of a request already on the wire.
LEMMA TermsOpened ==
    ASSUME PreVoteInv, [Next]_electionVars, NEW n \in Node, current_term'[n] > 0
    PROVE  \E c \in Node : VoteRequest(c, current_term'[n]) \in msgs'
<1>1. CASE current_term'[n] = current_term[n]
  BY <1>1, VotesStay DEF PreVoteInv, TermBackedByPreVotes
<1>2. ASSUME NEW k \in Node, TickArmElection(k), current_term'[n] # current_term[n]
      PROVE  VoteRequest(n, current_term'[n]) \in msgs'
  BY <1>2 DEF TickArmElection, ArmElection, PreVoteInv, TypeOK
<1>3. ASSUME NEW k \in Node, NEW m \in msgs, ReceiveVoteRequest(k, m),
             current_term'[n] # current_term[n]
      PROVE  \E c \in Node : VoteRequest(c, current_term'[n]) \in msgs'
  <2>1. current_term'[n] = m.term /\ m.from \in Node
    BY <1>3 DEF ReceiveVoteRequest, Peers, PreVoteInv, TypeOK
  <2>2. m = VoteRequest(m.from, m.term)
    BY <1>3 DEF ReceiveVoteRequest, PreVoteInv, TypeOK, Message, VoteRequest
  <2>3. VoteRequest(m.from, m.term) \in msgs'
    BY <2>2, VotesStay
  <2> QED
    BY <2>1, <2>3
<1>4. ASSUME NEW k \in Node, NEW m \in msgs, ReceiveHeartbeat(k, m),
             current_term'[n] # current_term[n]
      PROVE  \E c \in Node : VoteRequest(c, current_term'[n]) \in msgs'
  <2>1. current_term'[n] = m.term /\ m.type = "Heartbeat" /\ msgs' = msgs
    BY <1>4 DEF ReceiveHeartbeat, PreVoteInv, TypeOK
  <2> QED
    BY <2>1 DEF PreVoteInv, HeartbeatInv
<1> QED
  BY <1>1, <1>2, <1>3, <1>4
     DEF Next, Receive, electionVars, termVars, TimerExpires, TickStartPreVote,
         TickLeader, ReceivePreVoteRequest, ReceivePreVoteResponse,
         ReceiveVoteResponse

\* A request that a step adds comes from a candidate whose round was won.
LEMMA RequestsBacked ==
    ASSUME PreVoteInv, [Next]_electionVars, NEW c \in Node, NEW t,
           VoteRequest(c, t) \in msgs', VoteRequest(c, t) \notin msgs
    PROVE  /\ pre_vote_round_id'[c] = pre_vote_round_id[c]
           /\ IsMajority(Backers(c, pre_vote_round_id[c]))
<1>1. ASSUME NEW n \in Node, TickArmElection(n)
      PROVE  /\ pre_vote_round_id'[c] = pre_vote_round_id[c]
             /\ IsMajority(Backers(c, pre_vote_round_id[c]))
  <2>1. n = c
    BY <1>1 DEF TickArmElection, ArmElection, VoteRequest
  <2>2. Backers(c, pre_vote_round_id[c]) \subseteq Node
    BY DEF Backers
  <2>3. CASE Peers(c) = {}
    <3>1. IsMajority({c}) /\ {c} \subseteq Backers(c, pre_vote_round_id[c])
      BY <2>3, LoneMajority DEF Backers
    <3> QED
      BY <1>1, <2>2, <3>1, MajorityGrows DEF TickArmElection
  <2>4. CASE Peers(c) # {}
    <3>1. IsMajority(pre_votes_received[c])
      BY <1>1, <2>1, <2>4 DEF TickArmElection, PreVoteMajority
    <3>2. pre_votes_received[c] \subseteq Backers(c, pre_vote_round_id[c])
      BY DEF PreVoteInv, TypeOK, PreVotesBelongToRound, Backers
    <3> QED
      BY <1>1, <2>2, <3>1, <3>2, MajorityGrows DEF TickArmElection
  <2> QED
    BY <2>3, <2>4
<1>2. ASSUME NEW n \in Node, TickStartPreVote(n) PROVE FALSE
  BY <1>2 DEF TickStartPreVote, RequestPreVote, VoteRequest
<1>3. ASSUME NEW n \in Node, TickLeader(n) PROVE FALSE
  BY <1>3 DEF TickLeader, Heartbeat, VoteRequest
<1>4. ASSUME NEW n \in Node, NEW m \in msgs, ReceivePreVoteRequest(n, m) PROVE FALSE
  BY <1>4 DEF ReceivePreVoteRequest, RequestPreVoteResponse, VoteRequest
<1>5. ASSUME NEW n \in Node, NEW m \in msgs, ReceiveVoteRequest(n, m) PROVE FALSE
  BY <1>5 DEF ReceiveVoteRequest, VoteResponse, VoteRequest
<1> QED
  BY <1>1, <1>2, <1>3, <1>4, <1>5
     DEF Next, Receive, electionVars, TimerExpires,
         ReceivePreVoteResponse, ReceiveVoteResponse, ReceiveHeartbeat

LEMMA RoundsGrow ==
    ASSUME TypeOK, [Next]_electionVars, NEW c \in Node
    PROVE  /\ pre_vote_round_id[c] \in Nat /\ pre_vote_round_id'[c] \in Nat
           /\ pre_vote_round_id[c] <= pre_vote_round_id'[c]
<1>1. ASSUME NEW n \in Node, TickStartPreVote(n)
      PROVE  pre_vote_round_id[c] <= pre_vote_round_id'[c]
  BY <1>1 DEF TickStartPreVote, TypeOK
<1>2. CASE pre_vote_round_id' = pre_vote_round_id
  BY <1>2 DEF TypeOK
<1>3. pre_vote_round_id[c] <= pre_vote_round_id'[c]
  BY <1>1, <1>2
     DEF Next, Receive, electionVars, preVoteVars, TimerExpires, TickArmElection,
         TickLeader, ReceivePreVoteRequest, ReceivePreVoteResponse,
         ReceiveVoteRequest, ReceiveVoteResponse, ReceiveHeartbeat
<1> QED
  BY <1>3, TypeStep DEF TypeOK

LEMMA BackedStep == PreVoteInv /\ [Next]_electionVars => TermBackedByPreVotes'
<1> SUFFICES ASSUME PreVoteInv, [Next]_electionVars PROVE TermBackedByPreVotes'
  OBVIOUS
<1>1. ASSUME NEW c \in Node, NEW r, IsMajority(Backers(c, r))
      PROVE  IsMajority(Backers(c, r)')
  <2>1. Backers(c, r) \subseteq Backers(c, r)'
    BY GrantsStay DEF Backers
  <2>2. Backers(c, r)' \subseteq Node
    BY DEF Backers
  <2> QED
    BY <1>1, <2>1, <2>2, MajorityGrows
<1>2. ASSUME NEW c \in Node, NEW t \in 1..MaxTerm, VoteRequest(c, t) \in msgs'
      PROVE  \E r \in 0..pre_vote_round_id'[c] : IsMajority(Backers(c, r)')
  <2>1. CASE VoteRequest(c, t) \in msgs
    <3>1. PICK r \in 0..pre_vote_round_id[c] : IsMajority(Backers(c, r))
      BY <2>1 DEF PreVoteInv, TermBackedByPreVotes, Backers
    <3>2. r \in 0..pre_vote_round_id'[c]
      BY RoundsGrow DEF PreVoteInv
    <3> QED
      BY <1>1, <3>1, <3>2
  <2>2. CASE VoteRequest(c, t) \notin msgs
    <3>1. IsMajority(Backers(c, pre_vote_round_id[c]))
      BY <1>2, <2>2, RequestsBacked
    <3>2. pre_vote_round_id[c] \in 0..pre_vote_round_id'[c]
      BY RoundsGrow DEF PreVoteInv
    <3> QED
      BY <1>1, <3>1, <3>2
  <2> QED
    BY <2>1, <2>2
<1>3. \A n \in Node : current_term'[n] > 0 =>
          \E c \in Node : VoteRequest(c, current_term'[n]) \in msgs'
  BY TermsOpened
<1> QED
  BY <1>2, <1>3 DEF TermBackedByPreVotes, Backers, VoteRequest

\* PreVoteInv is inductive.
LEMMA PreVoteStep == PreVoteInv /\ [Next]_electionVars => PreVoteInv'
BY TypeStep, RoundStep, InFlightStep, HeartbeatStep, BelongStep, BackedStep
   DEF PreVoteInv

LEMMA PreVoteInit == Init => PreVoteInv
<1>1. Init => TypeOK
  BY DEF Init, TypeOK, Role
<1>2. Init => RoundInv /\ InFlightInv /\ HeartbeatInv
  BY DEF Init, RoundInv, InFlightInv, HeartbeatInv
<1>3. Init => PreVotesBelongToRound /\ TermBackedByPreVotes
  BY DEF Init, PreVotesBelongToRound, TermBackedByPreVotes
<1> QED
  BY <1>1, <1>2, <1>3 DEF PreVoteInv

\* No grant of an earlier pre-vote round is ever in a tally.
THEOREM PreVotesAreFresh == Spec => []PreVotesBelongToRound
<1>1. PreVoteInv => PreVotesBelongToRound
  BY DEF PreVoteInv
<1> QED
  BY <1>1, PreVoteInit, PreVoteStep, PTL DEF Spec

\* Every term was opened by a candidate that won a pre-vote round first.
THEOREM TermsAreBacked == Spec => []TermBackedByPreVotes
<1>1. PreVoteInv => TermBackedByPreVotes
  BY DEF PreVoteInv
<1> QED
  BY <1>1, PreVoteInit, PreVoteStep, PTL DEF Spec
=============================================================================
