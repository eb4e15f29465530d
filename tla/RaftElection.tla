---------------------------- MODULE RaftElection ----------------------------
(***************************************************************************)
(* Leader election of the replication engine                               *)
(* (crates/ferrodruid-cluster/src/replication.rs, driven over the wire by  *)
(* crates/ferrodruid-cluster/src/transport.rs): the pre-vote round, the    *)
(* real vote, promotion and the heartbeat, each handler one action.        *)
(*                                                                         *)
(* The network is the set msgs of every frame ever sent.  A frame is never *)
(* removed, so it may be delivered late, twice, out of order or not at     *)
(* all.  The transport resends a frame up to three times, reconnecting in  *)
(* between, and has no nonce, so all four happen.  A denied vote or        *)
(* pre-vote is not in msgs: its receiver drops it without reading it.      *)
(*                                                                         *)
(* Wall-clock timers are abstracted to one bit, timer_expired.  The mTLS   *)
(* startup grace only re-arms a timer, which here may stay unexpired as    *)
(* long as it likes, so it adds no behaviour and has no state.             *)
(***************************************************************************)
EXTENDS Integers, FiniteSets

CONSTANTS
    Node,        \* the configured members: a node's peers are all the others
    Legacy,      \* members still running a build that echoes round_id = 0
    NoNode,      \* the value of voted_for before a vote (None)
    MaxTerm,     \* bound: no node arms an election beyond this term
    MaxRound     \* bound: MaxRound[n] pre-vote rounds at most for node n

ASSUME NodeAssumption == IsFiniteSet(Node) /\ Legacy \subseteq Node
ASSUME NoNodeAssumption == NoNode \notin Node
ASSUME BoundAssumption == MaxTerm \in Nat /\ MaxRound \in [Node -> Nat]

VARIABLES
    current_term,        \* current_term[n]
    role,                \* role[n]
    voted_for,           \* voted_for[n], NoNode when empty
    election_term,       \* term of n's active election, 0 when there is none
    votes_received,      \* voters counted at election_term[n]
    pre_vote_round_id,   \* generation of n's pre-vote rounds
    pre_votes_received,  \* voters counted in the current generation
    pre_vote_in_flight,  \* proposed term of the round in flight, 0 when none
    timer_expired,       \* ElectionTimer::is_expired
    msgs,                \* every frame sent so far
    won                  \* history: <<term, node>> for every promotion

termVars == <<current_term, role, voted_for>>
voteVars == <<election_term, votes_received, won>>
preVoteVars == <<pre_vote_round_id, pre_votes_received, pre_vote_in_flight>>
electionVars == <<termVars, voteVars, preVoteVars, timer_expired, msgs>>

Peers(n) == Node \ {n}

\* `total / 2 + 1` voters of `peers.len() + 1`.
IsMajority(S) == Cardinality(S) >= Cardinality(Node) \div 2 + 1

VoteRequest(c, t) == [type |-> "VoteRequest", from |-> c, term |-> t]
VoteResponse(v, c, t) ==
    [type |-> "VoteResponse", from |-> v, to |-> c, term |-> t]
Heartbeat(l, t) == [type |-> "Heartbeat", from |-> l, term |-> t]
\* Mutant: the request goes out without its round id.
RequestPreVote_NoRound(c, t, r) ==
    [type |-> "RequestPreVote", from |-> c, term |-> t]

RequestPreVote(c, t, r) ==
    [type |-> "RequestPreVote", from |-> c, term |-> t, round |-> r]
RequestPreVoteResponse(v, c, t, r) ==
    [type |-> "RequestPreVoteResponse", from |-> v, to |-> c,
     term |-> t, round |-> r]

Message ==
    [type : {"VoteRequest", "Heartbeat"}, from : Node, term : Nat]
        \cup [type : {"VoteResponse"}, from : Node, to : Node, term : Nat]
        \cup [type : {"RequestPreVote"}, from : Node, term : Nat, round : Nat]
        \cup [type : {"RequestPreVoteResponse"}, from : Node, to : Node,
              term : Nat, round : Nat]

Role == {"Follower", "Candidate", "Leader"}

\* The types of the engine's fields and of the frames on the wire.
TypeOK ==
    /\ current_term \in [Node -> Nat]
    /\ role \in [Node -> Role]
    /\ voted_for \in [Node -> Node \cup {NoNode}]
    /\ election_term \in [Node -> Nat]
    /\ votes_received \in [Node -> SUBSET Node]
    /\ pre_vote_round_id \in [Node -> Nat]
    /\ pre_votes_received \in [Node -> SUBSET Node]
    /\ pre_vote_in_flight \in [Node -> Nat]
    /\ timer_expired \in [Node -> BOOLEAN]
    /\ msgs \subseteq Message
    /\ won \subseteq Nat \X Node

Init ==
    /\ current_term = [n \in Node |-> 0]
    /\ role = [n \in Node |-> "Follower"]
    /\ voted_for = [n \in Node |-> NoNode]
    /\ election_term = [n \in Node |-> 0]
    /\ votes_received = [n \in Node |-> {}]
    /\ pre_vote_round_id = [n \in Node |-> 0]
    /\ pre_votes_received = [n \in Node |-> {}]
    /\ pre_vote_in_flight = [n \in Node |-> 0]
    /\ timer_expired = [n \in Node |-> FALSE]
    /\ msgs = {}
    /\ won = {}

(***************************************************************************)
(* The scheduler: tick() and the passing of time.                          *)
(***************************************************************************)

\* The deadline of n's election timer passes.  Nothing re-arms the timer of a
\* leader, so a leader's expires too.
TimerExpires(n) ==
    /\ ~timer_expired[n]
    /\ timer_expired' = [timer_expired EXCEPT ![n] = TRUE]
    /\ UNCHANGED <<termVars, voteVars, preVoteVars, msgs>>

ResetTimer(n) == timer_expired' = [timer_expired EXCEPT ![n] = FALSE]

\* Mutant: a round in flight counts as won before the majority answered.
PreVoteMajority_NoTally(n) == pre_vote_in_flight[n] # 0

\* pre_vote_majority_reached for the round in flight.
PreVoteMajority(n) ==
    pre_vote_in_flight[n] # 0 /\ IsMajority(pre_votes_received[n])

\* tick(), phase 2: the timer fired, so (re)start a pre-vote round.
TickStartPreVote(n) ==
    /\ role[n] # "Leader"
    /\ Peers(n) # {}
    /\ ~PreVoteMajority(n)
    /\ timer_expired[n]
    /\ pre_vote_round_id[n] < MaxRound[n]
    /\ pre_vote_round_id' =
           [pre_vote_round_id EXCEPT ![n] = pre_vote_round_id[n] + 1]
    /\ pre_votes_received' = [pre_votes_received EXCEPT ![n] = {n}]
    /\ pre_vote_in_flight' =
           [pre_vote_in_flight EXCEPT ![n] = current_term[n] + 1]
    /\ msgs' = msgs \cup
           {RequestPreVote(n, current_term[n] + 1, pre_vote_round_id[n] + 1)}
    /\ ResetTimer(n)
    /\ UNCHANGED <<termVars, voteVars>>

\* arm_election: bump the term, become candidate, vote for oneself.  A node
\* without peers is its own majority and leads at once.  The VoteRequest the
\* transport broadcasts goes to Peers(n) and doubles as the record of the
\* self-vote.
ArmElection(n) ==
    LET t == current_term[n] + 1 IN
    /\ t <= MaxTerm
    /\ current_term' = [current_term EXCEPT ![n] = t]
    /\ role' = [role EXCEPT ![n] = IF Peers(n) = {} THEN "Leader"
                                                    ELSE "Candidate"]
    /\ voted_for' = [voted_for EXCEPT ![n] = n]
    /\ votes_received' = [votes_received EXCEPT ![n] = {n}]
    /\ election_term' = [election_term EXCEPT ![n] = t]
    /\ won' = IF Peers(n) = {} THEN won \cup {<<t, n>>} ELSE won
    /\ msgs' = msgs \cup {VoteRequest(n, t)}

\* tick(), phase 1 (or phase 2 of a node without peers): arm the election.
TickArmElection(n) ==
    /\ role[n] # "Leader"
    /\ IF Peers(n) = {} THEN timer_expired[n] ELSE PreVoteMajority(n)
    /\ ArmElection(n)
    /\ pre_vote_in_flight' = [pre_vote_in_flight EXCEPT ![n] = 0]
    /\ ResetTimer(n)
    /\ UNCHANGED <<pre_vote_round_id, pre_votes_received>>

\* tick() of a leader: forget a stale pre-vote round, broadcast a heartbeat.
TickLeader(n) ==
    /\ role[n] = "Leader"
    /\ pre_vote_in_flight' = [pre_vote_in_flight EXCEPT ![n] = 0]
    /\ msgs' = msgs \cup {Heartbeat(n, current_term[n])}
    /\ UNCHANGED <<termVars, voteVars, pre_vote_round_id,
                   pre_votes_received, timer_expired>>

(***************************************************************************)
(* Message handlers.                                                       *)
(***************************************************************************)

\* receive_pre_vote_request, when it grants.  It reads the voter's timer and
\* its own round in flight, never its role, and changes no consensus state.
\* A legacy voter answers without the round id.
ReceivePreVoteRequest(v, m) ==
    /\ m.type = "RequestPreVote"
    /\ m.from \in Peers(v)
    /\ m.term > current_term[v]
    /\ \/ timer_expired[v]
       \/ pre_vote_in_flight[v] # 0 /\ pre_vote_in_flight[v] <= m.term
    /\ msgs' = msgs \cup
           {RequestPreVoteResponse(v, m.from, m.term,
                                   IF v \in Legacy THEN 0 ELSE m.round)}
    /\ UNCHANGED <<termVars, voteVars, preVoteVars, timer_expired>>

\* Mutant: an answer without a round id is taken for any round.
AcceptRound_Any(n, m) == m.round \in {0, pre_vote_round_id[n]}

\* The round gate of record_pre_vote: this generation, or an answer without
\* a round id to a request for the proposed term in flight.
AcceptRound(n, m) ==
    \/ m.round = pre_vote_round_id[n]
    \/ /\ m.round = 0
       /\ pre_vote_in_flight[n] # 0
       /\ pre_vote_in_flight[n] = m.term

\* receive_pre_vote_response / record_pre_vote, when the grant counts.
ReceivePreVoteResponse(n, m) ==
    /\ m.type = "RequestPreVoteResponse"
    /\ m.to = n
    /\ AcceptRound(n, m)
    /\ pre_votes_received' =
           [pre_votes_received EXCEPT ![n] = pre_votes_received[n] \cup {m.from}]
    /\ UNCHANGED <<termVars, voteVars, pre_vote_round_id,
                   pre_vote_in_flight, timer_expired, msgs>>

\* Mutant: the vote is cleared on a request for the current term as well.
Latch_SameTerm(v, t) == IF t >= current_term[v] THEN NoNode ELSE voted_for[v]

\* voted_for as receive_vote_request's match reads it: a higher term clears it.
Latch(v, t) == IF t > current_term[v] THEN NoNode ELSE voted_for[v]

\* receive_vote_request: a stale term changes nothing; a higher one is
\* adopted, demotes the node and clears its vote; then the latch decides.
ReceiveVoteRequest(v, m) ==
    LET granted == Latch(v, m.term) \in {NoNode, m.from} IN
    /\ m.type = "VoteRequest"
    /\ m.from \in Peers(v)
    /\ m.term >= current_term[v]
    /\ current_term' = [current_term EXCEPT ![v] = m.term]
    /\ role' = [role EXCEPT ![v] = IF m.term > current_term[v]
                                   THEN "Follower" ELSE role[v]]
    /\ voted_for' = [voted_for EXCEPT ![v] = IF granted THEN m.from
                                             ELSE Latch(v, m.term)]
    /\ msgs' = IF granted THEN msgs \cup {VoteResponse(v, m.from, m.term)}
                          ELSE msgs
    /\ UNCHANGED <<voteVars, preVoteVars, timer_expired>>

\* record_vote's gate: the vote belongs to the active election, which is
\* still the current term.
CountsVote(n, m) == m.term = election_term[n] /\ m.term = current_term[n]

\* receive_vote_response, record_vote and, for a newly counted vote,
\* try_promote_to_leader, as the transport's reader calls them.
ReceiveVoteResponse(n, m) ==
    LET votes == votes_received[n] \cup {m.from}
        promoted == role[n] = "Candidate" /\ IsMajority(votes) IN
    /\ m.type = "VoteResponse"
    /\ m.to = n
    /\ CountsVote(n, m)
    /\ m.from \notin votes_received[n]
    /\ votes_received' = [votes_received EXCEPT ![n] = votes]
    /\ role' = [role EXCEPT ![n] = IF promoted THEN "Leader" ELSE role[n]]
    /\ won' = IF promoted THEN won \cup {<<m.term, n>>} ELSE won
    /\ UNCHANGED <<current_term, voted_for, election_term, preVoteVars,
                   timer_expired, msgs>>

\* receive_heartbeat: a stale one is ignored, any other makes n a follower of
\* that term.  Neither the active election nor a pre-vote round in flight is
\* cancelled.
ReceiveHeartbeat(n, m) ==
    /\ m.type = "Heartbeat"
    /\ m.from \in Peers(n)
    /\ m.term >= current_term[n]
    /\ voted_for' = [voted_for EXCEPT ![n] = Latch(n, m.term)]
    /\ current_term' = [current_term EXCEPT ![n] = m.term]
    /\ role' = [role EXCEPT ![n] = "Follower"]
    /\ ResetTimer(n)
    /\ UNCHANGED <<voteVars, preVoteVars, msgs>>

Receive(n, m) ==
    \/ ReceivePreVoteRequest(n, m)
    \/ ReceivePreVoteResponse(n, m)
    \/ ReceiveVoteRequest(n, m)
    \/ ReceiveVoteResponse(n, m)
    \/ ReceiveHeartbeat(n, m)

Next ==
    \E n \in Node :
        \/ TimerExpires(n)
        \/ TickStartPreVote(n)
        \/ TickArmElection(n)
        \/ TickLeader(n)
        \/ \E m \in msgs : Receive(n, m)

Spec == Init /\ [][Next]_electionVars

(***************************************************************************)
(* Properties.                                                             *)
(***************************************************************************)

\* u gave its vote at term t to c: by answering c's request, or to itself by
\* arming an election.
Voted(u, c, t) ==
    \/ u = c /\ VoteRequest(c, t) \in msgs
    \/ VoteResponse(u, c, t) \in msgs

\* At most one node is ever promoted in a term, over the whole history and
\* not only among the leaders of one moment: the dup_leader_terms = 0 check
\* of the chaos harness, against duplicated and reordered frames.
ElectionSafety == \A p, q \in won : p[1] = q[1] => p = q

\* receive_vote_request's latch: a node's term never goes back, and while it
\* stays in a term the vote it has given there is never changed or cleared,
\* whichever handlers interleave.
VoteLatch ==
    [][\A n \in Node :
          /\ current_term'[n] >= current_term[n]
          /\ current_term'[n] = current_term[n] /\ voted_for[n] # NoNode
                => voted_for'[n] = voted_for[n]]_electionVars

\* v granted a pre-vote that belongs to round r of candidate c: it echoed r,
\* or it is a legacy voter and answered a request for the term r proposed.
GrantedInRound(v, c, r) ==
    \E m \in msgs :
        /\ m.type = "RequestPreVoteResponse"
        /\ m.from = v
        /\ m.to = c
        /\ \/ m.round = r
           \/ /\ m.round = 0
              /\ v \in Legacy
              /\ RequestPreVote(c, m.term, r) \in msgs

\* record_pre_vote's stale-round guard: a delayed grant of an earlier round
\* is never in the tally of the round in flight.
PreVotesBelongToRound ==
    \A n \in Node : \A v \in pre_votes_received[n] \ {n} :
        GrantedInRound(v, n, pre_vote_round_id[n])

\* "No real term bump without majority": every term a node is in was opened
\* by a candidate to whom, in one of its rounds, a majority had granted a
\* pre-vote.
TermBackedByPreVotes ==
    /\ \A n \in Node : current_term[n] > 0 =>
           \E c \in Node : VoteRequest(c, current_term[n]) \in msgs
    /\ \A c \in Node : \A t \in 1..MaxTerm : VoteRequest(c, t) \in msgs =>
           \E r \in 0..pre_vote_round_id[c] :
               IsMajority({c} \cup {v \in Node : GrantedInRound(v, c, r)})

\* receive_pre_vote_request's comment: no pre-vote is harvested from a peer
\* that currently recognises a healthy leader.  A leader recognises one:
\* itself.
LeaderGrantsNoPreVote ==
    [][\A m \in msgs' \ msgs :
          m.type = "RequestPreVoteResponse" => role[m.from] # "Leader"]_electionVars
=============================================================================
