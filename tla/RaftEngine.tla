----------------------------- MODULE RaftEngine -----------------------------
(***************************************************************************)
(* The whole replication engine of crates/ferrodruid-cluster: the election *)
(* handlers of RaftElection composed with the log (submit, ReplicateCommand,*)
(* ReplicateAck, the replay scan), snapshot transfer (SnapshotRequest,     *)
(* Join, SnapshotResponse) and the persistent state of persist.rs with a   *)
(* crash and restart of a node.                                            *)
(*                                                                         *)
(* Pre-vote only delays arm_election, so here a node that does not lead    *)
(* may arm an election at any time.  The cluster state machine is          *)
(* abstracted to the sequence of commands applied to it: its apply is      *)
(* deterministic, so equal sequences are equal states.                     *)
(*                                                                         *)
(* Log frames travel in the set wire, which like msgs never forgets.       *)
(***************************************************************************)
EXTENDS RaftElection, Sequences

CONSTANTS
    Command,       \* state-machine commands
    NoSnapshot,    \* the value of snapshot.json when there is none
    Candidates,    \* bound: the members that may arm an election
    MaxIndex,      \* bound: entries a leader may submit
    MaxSnapshots,  \* bound: snapshots sent, and snapshots installed
    MaxCrashes     \* bound: crashes in a behaviour

ASSUME EngineBoundAssumption ==
    /\ Candidates \subseteq Node
    /\ MaxIndex \in Nat /\ MaxSnapshots \in Nat /\ MaxCrashes \in Nat
\* None is not a snapshot.
ASSUME NoSnapshotAssumption ==
    NoSnapshot \notin [last_index : Nat, term : Nat, state : Seq(Command)]

VARIABLES
    last_index,     \* last_index[n]
    log_terms,      \* log_terms[n][i]: the term n stored for index i
    command_log,    \* command_log[n]: the entries n can replay to others
    applied,        \* applied[n]: the commands n's state machine has applied
    next_index,     \* next_index[n][f], kept by a leader
    match_index,    \* match_index[n][f], kept by a leader
    pending_acks,   \* pending_acks[n]: index -> followers that acked it
    waiting,        \* waiting[n]: <<index, term>> of every submit parked on n
    acked,          \* history: every MajorityAck returned to a caller
    wire,           \* every log or snapshot frame sent so far
    disk,           \* disk[n]: meta.json, snapshot.json and log.jsonl
    installs,       \* snapshots installed so far
    crashes         \* crashes so far

logVars == <<last_index, log_terms, command_log, applied>>
leaderVars == <<next_index, match_index, pending_acks, waiting, acked>>
faultVars == <<installs, crashes>>
engineVars == <<electionVars, logVars, leaderVars, wire, disk, faultVars>>

Index == 1..MaxIndex

ReplicateCommand(l, f, t, i, c) ==
    [type |-> "ReplicateCommand", from |-> l, to |-> f, term |-> t,
     index |-> i, command |-> c]
\* A ReplicateAck carries no term; `for` is not on the wire, it records for
\* the properties which entry the follower acknowledged.
ReplicateAck(f, l, i, ok, hint, t) ==
    [type |-> "ReplicateAck", from |-> f, to |-> l, index |-> i,
     success |-> ok, hint |-> hint, for |-> t]
SnapshotResponse(l, f, i, t, s) ==
    [type |-> "SnapshotResponse", from |-> l, to |-> f, last_index |-> i,
     term |-> t, snapshot |-> s]

\* PersistedMeta::default(), no snapshot, an empty journal.  meta.voted_for is
\* left out: no caller ever writes it, so it stays None.
EmptyDisk == [term |-> 0, last_index |-> 0, snapshot |-> NoSnapshot, journal |-> <<>>]

\* The map of ack tallies: empty, with a tally opened, with one removed.
NoAcks == [i \in {} |-> {}]
OpenAcks(p, i) == [j \in DOMAIN p \cup {i} |-> IF j \in DOMAIN p THEN p[j] ELSE {}]
CloseAcks(p, i) == [j \in DOMAIN p \ {i} |-> p[j]]

EngineInit ==
    /\ Init
    /\ last_index = [n \in Node |-> 0]
    /\ log_terms = [n \in Node |-> <<>>]
    /\ command_log = [n \in Node |-> <<>>]
    /\ applied = [n \in Node |-> <<>>]
    /\ next_index = [n \in Node |-> [f \in Node |-> 1]]
    /\ match_index = [n \in Node |-> [f \in Node |-> 0]]
    /\ pending_acks = [n \in Node |-> NoAcks]
    /\ waiting = [n \in Node |-> {}]
    /\ acked = {}
    /\ wire = {}
    /\ disk = [n \in Node |-> EmptyDisk]
    /\ installs = 0
    /\ crashes = 0

(***************************************************************************)
(* Elections, as in RaftElection, without the pre-vote round.              *)
(***************************************************************************)

\* reset_replication_state, run by a promotion.
ResetReplicationState(n) ==
    /\ next_index' = [next_index EXCEPT ![n] = [f \in Node |-> last_index[n] + 1]]
    /\ match_index' = [match_index EXCEPT ![n] = [f \in Node |-> 0]]

Arm(n) ==
    /\ role[n] # "Leader"
    /\ n \in Candidates
    /\ ArmElection(n)
    /\ UNCHANGED <<preVoteVars, timer_expired, logVars, leaderVars, wire, disk, faultVars>>

LeaderHeartbeat(n) ==
    TickLeader(n) /\ UNCHANGED <<logVars, leaderVars, wire, disk, faultVars>>

\* A vote response that promotes n also resets its view of the followers.
DeliverVoteResponse(n, m) ==
    /\ ReceiveVoteResponse(n, m)
    /\ IF role'[n] = "Leader" /\ role[n] # "Leader"
       THEN ResetReplicationState(n)
       ELSE UNCHANGED <<next_index, match_index>>
    /\ UNCHANGED <<logVars, pending_acks, waiting, acked, wire, disk, faultVars>>

DeliverElectionFrame(n, m) ==
    /\ ReceiveVoteRequest(n, m) \/ ReceiveHeartbeat(n, m)
    /\ UNCHANGED <<logVars, leaderVars, wire, disk, faultVars>>

(***************************************************************************)
(* The log.                                                                *)
(***************************************************************************)

\* append_log_entry: the journal line, then meta.
Journalled(d, i, t, c) ==
    [d EXCEPT !.journal = Append(d.journal, [index |-> i, term |-> t, command |-> c])]

\* Mutant: meta is rolled forward but the journal line is not flushed.
AppendLogEntry_MetaOnly(d, i, t, c) ==
    [d EXCEPT !.term = IF t > d.term THEN t ELSE d.term, !.last_index = i]

AppendLogEntry(d, i, t, c) ==
    [Journalled(d, i, t, c) EXCEPT !.term = IF t > d.term THEN t ELSE d.term,
                                   !.last_index = i]

\* Append one entry to n's memory and disk and apply it.
AppendEntry(n, i, t, c) ==
    /\ disk' = [disk EXCEPT ![n] = AppendLogEntry(disk[n], i, t, c)]
    /\ last_index' = [last_index EXCEPT ![n] = i]
    /\ command_log' = [command_log EXCEPT ![n] = Append(command_log[n],
                                                   [index |-> i, command |-> c])]
    /\ log_terms' = [log_terms EXCEPT ![n] = Append(log_terms[n], t)]
    /\ applied' = [applied EXCEPT ![n] = Append(applied[n], c)]

\* submit_with_majority_ack up to its wait: append, apply, open the tally for
\* the index, send to every peer.
Submit(n, c) ==
    LET i == last_index[n] + 1 IN
    /\ role[n] = "Leader"
    /\ i \in Index
    /\ AppendEntry(n, i, current_term[n], c)
    /\ pending_acks' = [pending_acks EXCEPT ![n] = OpenAcks(pending_acks[n], i)]
    /\ waiting' = [waiting EXCEPT ![n] = waiting[n] \cup {<<i, current_term[n]>>}]
    /\ wire' = wire \cup {ReplicateCommand(n, f, current_term[n], i, c) : f \in Peers(n)}
    /\ UNCHANGED <<electionVars, next_index, match_index, acked, faultVars>>

\* The tally a parked submit reads, the leader's own copy included.
AckMajority(n, i) ==
    IsMajority({n} \cup (IF i \in DOMAIN pending_acks[n] THEN pending_acks[n][i] ELSE {}))

\* The submit w = <<index, term>> returns: its tally goes with it.
EndSubmit(n, w) ==
    /\ waiting' = [waiting EXCEPT ![n] = waiting[n] \ {w}]
    /\ pending_acks' = [pending_acks EXCEPT ![n] = CloseAcks(pending_acks[n], w[1])]
    /\ UNCHANGED <<electionVars, logVars, next_index, match_index, wire, disk, faultVars>>

\* The wait ends with a majority.  Neither the role nor the term is read again.
SubmitAcked(n, w) ==
    /\ AckMajority(n, w[1])
    /\ acked' = acked \cup {[index |-> w[1], term |-> w[2]]}
    /\ EndSubmit(n, w)

\* ... or with the deadline: the entry stays in the log, applied.
SubmitTimeout(n, w) ==
    /\ ~AckMajority(n, w[1])
    /\ EndSubmit(n, w)
    /\ UNCHANGED acked

\* Mutant: an entry the follower already has is accepted whatever its term.
ReplayMatches_AnyTerm(f, m) == TRUE

\* receive_command's check of an entry it already has.
ReplayMatches(f, m) ==
    m.index <= Len(log_terms[f]) => log_terms[f][m.index] \in {m.term, 0}

Contiguous(f, m) == m.index = last_index[f] + 1

\* process_replicate_command: receive_command, then an ack with last_index as
\* the hint.  A higher term is adopted even when the entry is refused; role
\* and voted_for are left alone.
ReceiveCommand(f, m) ==
    LET stale == m.term < current_term[f]
        appends == ~stale /\ Contiguous(f, m)
        ok == appends \/ (~stale /\ m.index <= last_index[f] /\ ReplayMatches(f, m))
        hint == IF appends THEN m.index ELSE last_index[f]
    IN
    /\ m.type = "ReplicateCommand"
    /\ m.to = f
    /\ current_term' = [current_term EXCEPT ![f] = IF stale THEN current_term[f]
                                                   ELSE m.term]
    /\ IF appends THEN AppendEntry(f, m.index, m.term, m.command)
                  ELSE UNCHANGED <<logVars, disk>>
    /\ wire' = wire \cup {ReplicateAck(f, m.from, m.index, ok, hint, m.term)}
    /\ IF appends THEN ResetTimer(f) ELSE UNCHANGED timer_expired
    /\ UNCHANGED <<role, voted_for, voteVars, preVoteVars, msgs, leaderVars, faultVars>>

\* receive_replicate_ack of a success.
ReceiveAck(n, m) ==
    /\ m.type = "ReplicateAck"
    /\ m.to = n
    /\ m.success
    /\ pending_acks' = [pending_acks EXCEPT ![n] =
           [i \in DOMAIN @ |-> IF i = m.index THEN @[i] \cup {m.from} ELSE @[i]]]
    /\ match_index' = [match_index EXCEPT ![n][m.from] = IF m.index > @ THEN m.index ELSE @]
    /\ next_index' = [next_index EXCEPT ![n][m.from] =
                            IF m.index + 1 > @ THEN m.index + 1 ELSE @]
    /\ UNCHANGED <<electionVars, logVars, waiting, acked, wire, disk, faultVars>>

\* Mutant: the hint itself is taken for the next index.
BackOff_Hint(entry, hint) == IF hint < entry THEN hint ELSE entry - 1

\* next_index after a refusal: back to the hint, or one step back.
BackOff(entry, hint) ==
    IF hint + 1 < entry THEN hint + 1 ELSE IF entry > 1 THEN entry - 1 ELSE 1

\* receive_replicate_ack of a refusal.
ReceiveNack(n, m) ==
    /\ m.type = "ReplicateAck"
    /\ m.to = n
    /\ ~m.success
    /\ next_index' = [next_index EXCEPT ![n][m.from] = BackOff(@, m.hint)]
    /\ UNCHANGED <<electionVars, logVars, match_index, pending_acks, waiting,
                   acked, wire, disk, faultVars>>

\* build_replay_batch: every log entry from next_index on, under the term it
\* was stored with.
ReplayBatch(n, f) ==
    {ReplicateCommand(n, f, log_terms[n][e.index], e.index, e.command) :
        e \in {command_log[n][k] : k \in {k \in DOMAIN command_log[n] :
                   /\ command_log[n][k].index >= next_index[n][f]
                   /\ command_log[n][k].index \in DOMAIN log_terms[n]}}}

\* One replay scan of the leader's tick loop (build_replay_actions).
Replay(n) ==
    /\ role[n] = "Leader"
    /\ wire' = wire \cup UNION {IF next_index[n][f] <= last_index[n]
                                THEN ReplayBatch(n, f) ELSE {} : f \in Peers(n)}
    /\ UNCHANGED <<electionVars, logVars, leaderVars, disk, faultVars>>

(***************************************************************************)
(* Snapshots.                                                              *)
(***************************************************************************)

Snapshots == {m \in wire : m.type = "SnapshotResponse"}

\* handle_snapshot_request and handle_join on the leader.
SendSnapshot(n, f) ==
    /\ role[n] = "Leader"
    /\ f \in Peers(n)
    /\ Cardinality(Snapshots) < MaxSnapshots
    /\ wire' = wire \cup
           {SnapshotResponse(n, f, last_index[n], current_term[n], applied[n])}
    /\ UNCHANGED <<electionVars, logVars, leaderVars, disk, faultVars>>

\* Mutant: the snapshot is installed but log_terms keeps its old length.
FilledTerms_Kept(n, m) == log_terms[n]

\* log_terms after an install: the snapshot's term for every index.
FilledTerms(n, m) == [i \in 1..m.last_index |-> m.term]

\* The entries of a journal above a cutoff, one per index and the first of
\* them, in index order: load_log_entries.
LoadLogEntries(journal, cutoff) ==
    LET live == {k \in DOMAIN journal :
                    /\ journal[k].index > cutoff
                    /\ \A j \in 1..(k - 1) : journal[j].index # journal[k].index}
    IN  CHOOSE s \in [1..Cardinality(live) -> {journal[k] : k \in live}] :
            \A i, j \in DOMAIN s : i < j => s[i].index < s[j].index

\* install_snapshot: snapshot.json, the compacted journal, then meta.
InstallSnapshot(d, m) ==
    [term |-> IF m.term > d.term THEN m.term ELSE d.term,
     last_index |-> IF m.last_index > d.last_index THEN m.last_index ELSE d.last_index,
     snapshot |-> [last_index |-> m.last_index, term |-> m.term, state |-> m.snapshot],
     journal |-> LoadLogEntries(d.journal, m.last_index)]

\* handle_snapshot_response / restore_snapshot: the state machine, last_index
\* and the term become the snapshot's, even when they are lower.
ReceiveSnapshot(n, m) ==
    /\ m.type = "SnapshotResponse"
    /\ m.to = n
    /\ installs < MaxSnapshots
    /\ installs' = installs + 1
    /\ applied' = [applied EXCEPT ![n] = m.snapshot]
    /\ last_index' = [last_index EXCEPT ![n] = m.last_index]
    /\ current_term' = [current_term EXCEPT ![n] = m.term]
    /\ log_terms' = [log_terms EXCEPT ![n] = FilledTerms(n, m)]
    /\ disk' = [disk EXCEPT ![n] = InstallSnapshot(disk[n], m)]
    /\ ResetTimer(n)
    /\ UNCHANGED <<role, voted_for, voteVars, preVoteVars, msgs, command_log,
                   leaderVars, wire, crashes>>

(***************************************************************************)
(* Crash and restart.                                                      *)
(***************************************************************************)

\* Mutant: replay starts after meta.last_index instead of the snapshot's.
Cutoff_Meta(d) == d.last_index

\* The index load_log_entries starts after: the snapshot's.
Cutoff(d) == IF d.snapshot = NoSnapshot THEN 0 ELSE d.snapshot.last_index

\* The commands the state machine is rebuilt from: the snapshot, then replay.
ReplayedState(d) ==
    LET entries == LoadLogEntries(d.journal, Cutoff(d)) IN
    (IF d.snapshot = NoSnapshot THEN <<>> ELSE d.snapshot.state)
        \o [i \in DOMAIN entries |-> entries[i].command]

ReplayedTerms(d) ==
    LET entries == LoadLogEntries(d.journal, Cutoff(d)) IN
    (IF d.snapshot = NoSnapshot THEN <<>>
     ELSE [i \in 1..d.snapshot.last_index |-> d.snapshot.term])
        \o [i \in DOMAIN entries |-> entries[i].term]

ReplayedIndex(d) ==
    LET entries == LoadLogEntries(d.journal, Cutoff(d))
        last == IF entries = <<>> THEN Cutoff(d) ELSE entries[Len(entries)].index
    IN  IF d.last_index > last THEN d.last_index ELSE last

\* A fresh engine and attach_persistent_state on the directory d: everything
\* volatile is gone, and so is the vote.
Restart(n, d) ==
    /\ crashes < MaxCrashes
    /\ crashes' = crashes + 1
    /\ disk' = [disk EXCEPT ![n] = d]
    /\ applied' = [applied EXCEPT ![n] = ReplayedState(d)]
    /\ log_terms' = [log_terms EXCEPT ![n] = ReplayedTerms(d)]
    /\ last_index' = [last_index EXCEPT ![n] = ReplayedIndex(d)]
    /\ command_log' = [command_log EXCEPT ![n] =
           LET entries == LoadLogEntries(d.journal, Cutoff(d)) IN
           [i \in DOMAIN entries |->
               [index |-> entries[i].index, command |-> entries[i].command]]]
    /\ current_term' = [current_term EXCEPT ![n] = d.term]
    /\ voted_for' = [voted_for EXCEPT ![n] = NoNode]
    /\ role' = [role EXCEPT ![n] = "Follower"]
    /\ election_term' = [election_term EXCEPT ![n] = 0]
    /\ votes_received' = [votes_received EXCEPT ![n] = {}]
    /\ next_index' = [next_index EXCEPT ![n] = [f \in Node |-> 1]]
    /\ match_index' = [match_index EXCEPT ![n] = [f \in Node |-> 0]]
    /\ pending_acks' = [pending_acks EXCEPT ![n] = NoAcks]
    /\ waiting' = [waiting EXCEPT ![n] = {}]
    /\ UNCHANGED <<won, preVoteVars, timer_expired, msgs, acked, wire, installs>>

\* A crash between two operations.
CrashRestart(n) == Restart(n, disk[n])

\* A crash inside append_log_entry, after the journal line, before meta.
CrashInAppend(n, m) ==
    /\ m.type = "ReplicateCommand"
    /\ m.to = n
    /\ m.term >= current_term[n]
    /\ Contiguous(n, m)
    /\ Restart(n, Journalled(disk[n], m.index, m.term, m.command))

LogStep(n) ==
    \/ \E c \in Command : Submit(n, c)
    \/ \E w \in waiting[n] : SubmitAcked(n, w) \/ SubmitTimeout(n, w)
    \/ Replay(n)
    \/ \E m \in wire : ReceiveCommand(n, m) \/ ReceiveAck(n, m) \/ ReceiveNack(n, m)

ElectionStep(n) ==
    \/ Arm(n)
    \/ LeaderHeartbeat(n)
    \/ \E m \in msgs : DeliverElectionFrame(n, m) \/ DeliverVoteResponse(n, m)

SnapshotStep(n) ==
    \/ \E f \in Node : SendSnapshot(n, f)
    \/ \E m \in wire : ReceiveSnapshot(n, m)

CrashStep(n) ==
    \/ CrashRestart(n)
    \/ \E m \in wire : CrashInAppend(n, m)

EngineNext ==
    \E n \in Node : ElectionStep(n) \/ LogStep(n) \/ SnapshotStep(n) \/ CrashStep(n)

EngineSpec == EngineInit /\ [][EngineNext]_engineVars

(***************************************************************************)
(* Properties.                                                             *)
(***************************************************************************)

\* The types of the log, of the leader's view of its followers (next_index stays
\* within 1..last_index + 1 whatever nacks arrive) and of the ack tallies.
EngineTypeOK ==
    /\ TypeOK
    /\ last_index \in [Node -> 0..MaxIndex]
    /\ \A n \in Node :
          /\ log_terms[n] \in Seq(0..MaxTerm)
          /\ command_log[n] \in Seq([index : Index, command : Command])
          /\ applied[n] \in Seq(Command)
    /\ next_index \in [Node -> [Node -> 1..(MaxIndex + 1)]]
    /\ match_index \in [Node -> [Node -> 0..MaxIndex]]
    /\ \A n \in Node : /\ DOMAIN pending_acks[n] \subseteq Index
                      /\ \A i \in DOMAIN pending_acks[n] : pending_acks[n][i] \subseteq Node
    /\ waiting \in [Node -> SUBSET (Index \X (1..MaxTerm))]
    /\ acked \subseteq [index : Index, term : 1..MaxTerm]

\* restore_snapshot's invariant log_terms.len() == last_index, and its twin for
\* the state machine: a node has applied exactly one command per index of its
\* log, through duplicated frames, gaps, snapshots and crashes.  After a second
\* install, of an older snapshot, meta keeps the higher last_index and a restart
\* breaks it, so that case is left out.
LogShape ==
    crashes = 0 \/ installs <= 1 =>
        \A n \in Node :
            Len(log_terms[n]) = last_index[n] /\ Len(applied[n]) = last_index[n]

\* n stores, at index i, an entry of term t.
Stores(n, i, t) == i \in DOMAIN log_terms[n] /\ log_terms[n][i] = t

\* No snapshot has been installed on n.
SnapshotFree(n) == disk[n].snapshot = NoSnapshot

\* "Never a previously-acknowledged entry": an entry a follower acknowledged is
\* in its log from then on, across crashes, as long as no snapshot replaced
\* that log.
AckedEntryDurable ==
    \A m \in wire :
        m.type = "ReplicateAck" /\ m.success /\ SnapshotFree(m.from)
            => Stores(m.from, m.index, m.for)

\* A MajorityAck is true: although an ack carries no term, the entry the caller
\* was told about is stored by a majority, whatever elections, stale acks and
\* crashes came between.
MajorityAckHolds ==
    \A a \in acked :
        (\A n \in Node : SnapshotFree(n))
            => IsMajority({n \in Node : Stores(n, a.index, a.term)})

\* match_index never claims more than the follower has: the entry at
\* match_index is the leader's own, of the same term.
MatchIndexHonest ==
    \A n \in Node : \A f \in Peers(n) :
        LET k == match_index[n][f] IN
        k > 0 /\ SnapshotFree(n) /\ SnapshotFree(f)
            => k \in DOMAIN log_terms[n] /\ Stores(f, k, log_terms[n][k])

\* A restart rebuilds the state the node had, as long as it never installed a
\* snapshot.
RestartRestoresLog ==
    \A n \in Node : SnapshotFree(n) =>
        /\ ReplayedState(disk[n]) = applied[n]
        /\ ReplayedTerms(disk[n]) = log_terms[n]

\* Log traffic raises terms without clearing votes, and still no term has two
\* election winners, up to the first crash or snapshot (both lose votes).
WinnersUnique == crashes = 0 /\ Snapshots = {} => ElectionSafety

\* The chaos harness's consensus bar: at most one leader per term.
OneLeaderPerTerm ==
    \A a, b \in Node :
        role[a] = "Leader" /\ role[b] = "Leader" /\ current_term[a] = current_term[b]
            => a = b

\* persist.rs: "a restart reconstructs the state machine bit-for-bit".
RestartBitForBit == \A n \in Node : ReplayedState(disk[n]) = applied[n]
=============================================================================
