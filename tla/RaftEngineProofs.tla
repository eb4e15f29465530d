-------------------------- MODULE RaftEngineProofs --------------------------
(***************************************************************************)
(* Proofs about RaftEngine, for every set of members, every set of         *)
(* commands and every value of the bounds: the log and what is said about  *)
(* it (acks, match indices, majority acks), the files a restart reads, and *)
(* elections while log traffic raises terms.                               *)
(*                                                                         *)
(* Everything about the log of a node that never installed a snapshot      *)
(* rests on one fact: that log only grows, across crashes as well          *)
(* (LogsGrow).  A crash keeps it because the journal then holds exactly    *)
(* the entries of memory, in order (JournalInv), and load_log_entries      *)
(* returns such a journal unchanged (LoadWhole).  So an entry that was     *)
(* sent, acknowledged or counted is still where it was, and an ack, which  *)
(* carries no term, can only be about the one entry both ends store.       *)
(***************************************************************************)
EXTENDS RaftEngine, RaftElectionProofs, SequenceTheorems, WellFoundedInduction

-----------------------------------------------------------------------------
(* The inductive invariant.                                                *)

\* A log entry is only ever created by a leader, whose term is at least 1.
Term == 1..MaxTerm

Entry == [index : Index, term : Term, command : Command]
SnapshotFile == [last_index : 0..MaxIndex, term : Term, state : Seq(Command)]
Disk == [term : 0..MaxTerm, last_index : 0..MaxIndex,
         snapshot : SnapshotFile \cup {NoSnapshot}, journal : Seq(Entry)]
Frame ==
    [type : {"ReplicateCommand"}, from : Node, to : Node, term : Term,
     index : Index, command : Command]
        \cup [type : {"ReplicateAck"}, from : Node, to : Node, index : Index,
              success : BOOLEAN, hint : 0..MaxIndex, for : Term]
        \cup [type : {"SnapshotResponse"}, from : Node, to : Node,
              last_index : 0..MaxIndex, term : Term, snapshot : Seq(Command)]
Tally == UNION {[D -> SUBSET Node] : D \in SUBSET Index}

ElectionTyped ==
    /\ TypeOK
    /\ current_term \in [Node -> 0..MaxTerm]
    /\ \A m \in msgs : m.term <= MaxTerm
    /\ \A n \in Node : role[n] # "Follower" => current_term[n] >= 1

LogTyped ==
    /\ last_index \in [Node -> 0..MaxIndex]
    /\ log_terms \in [Node -> Seq(Term)]
    /\ command_log \in [Node -> Seq([index : Index, command : Command])]
    /\ applied \in [Node -> Seq(Command)]
    /\ disk \in [Node -> Disk]

LeaderTyped ==
    /\ next_index \in [Node -> [Node -> 1..(MaxIndex + 1)]]
    /\ match_index \in [Node -> [Node -> 0..MaxIndex]]
    /\ pending_acks \in [Node -> Tally]
    /\ waiting \in [Node -> SUBSET (Index \X Term)]
    /\ acked \subseteq [index : Index, term : Term]

WireTyped == wire \subseteq Frame /\ installs \in Nat /\ crashes \in Nat

Typed == ElectionTyped /\ LogTyped /\ LeaderTyped /\ WireTyped

\* The journal j holds the entries 1..i, one line each, in order.
Whole(j, i) == Len(j) = i /\ \A k \in 1..i : j[k].index = k

\* A node without a snapshot has in its journal what it has in memory.  Only
\* meta may lag behind, after a crash between the journal line and meta.
Mirrors(n) ==
    /\ Whole(disk[n].journal, last_index[n])
    /\ Len(log_terms[n]) = last_index[n]
    /\ Len(applied[n]) = last_index[n]
    /\ disk[n].last_index <= last_index[n]
    /\ \A k \in 1..last_index[n] :
          /\ disk[n].journal[k].term = log_terms[n][k]
          /\ disk[n].journal[k].command = applied[n][k]

JournalInv == \A n \in Node : SnapshotFree(n) => Mirrors(n)

\* A command on the wire is in its sender's log, and a success on the wire is
\* about an entry that both ends store.
FrameInv ==
    \A m \in wire :
        /\ m.type = "ReplicateCommand" /\ SnapshotFree(m.from)
              => Stores(m.from, m.index, m.term)
        /\ m.type = "ReplicateAck" /\ m.success
              => /\ SnapshotFree(m.from) => Stores(m.from, m.index, m.for)
                 /\ SnapshotFree(m.to) => Stores(m.to, m.index, m.for)

\* n and f store the same entry at i.
Shared(n, f, i) == \E t \in Term : Stores(n, i, t) /\ Stores(f, i, t)

\* What a leader counts for a follower, the follower shares with it.
CountInv ==
    \A n, f \in Node : SnapshotFree(n) /\ SnapshotFree(f) =>
        /\ match_index[n][f] > 0 => Shared(n, f, match_index[n][f])
        /\ \A i \in DOMAIN pending_acks[n] : f \in pending_acks[n][i] => Shared(n, f, i)

\* A parked submit's entry is in the log of the node it is parked on.
WaitInv ==
    \A n \in Node : \A w \in waiting[n] : SnapshotFree(n) => Stores(n, w[1], w[2])

\* The indices the journal j holds above c are c + 1 up to x.
Spans(j, c, x) ==
    \A i \in Index : i > c => ((\E k \in DOMAIN j : j[k].index = i) <=> i <= x)

\* After one install the journal still continues the snapshot without a gap,
\* at least up to where memory and meta are.
SnapshotDisk(n) ==
    LET c == Cutoff(disk[n]) IN
    /\ c <= last_index[n]
    /\ Len(disk[n].snapshot.state) = c
    /\ \E x \in 0..MaxIndex : /\ last_index[n] <= x
                              /\ disk[n].last_index <= x
                              /\ Spans(disk[n].journal, c, x)

InstallInv ==
    /\ installs = 0 => \A n \in Node : SnapshotFree(n)
    /\ installs <= 1 => \A n \in Node : ~SnapshotFree(n) => SnapshotDisk(n)

\* One command and one term per index, in memory and in every snapshot sent.
ShapeInv ==
    crashes = 0 \/ installs <= 1 =>
        /\ \A n \in Node :
              Len(log_terms[n]) = last_index[n] /\ Len(applied[n]) = last_index[n]
        /\ \A m \in Snapshots : Len(m.snapshot) = m.last_index

\* Up to the first crash or snapshot, votes are as in RaftElection.
BallotInv ==
    crashes = 0 /\ Snapshots = {} => VoteInv /\ VoteUnique /\ TallyInv /\ WonInv

EngineInv ==
    /\ Typed
    /\ JournalInv
    /\ FrameInv
    /\ CountInv
    /\ WaitInv
    /\ MajorityAckHolds
    /\ InstallInv
    /\ ShapeInv
    /\ BallotInv

-----------------------------------------------------------------------------
(* load_log_entries.                                                       *)

\* A set of numbers has a least one.
LEMMA LeastNat ==
    ASSUME NEW T, T \subseteq Nat, T # {}
    PROVE  \E x \in T : \A y \in T : x <= y
<1> DEFINE R == OpToRel(<, Nat)
<1>1. IsWellFoundedOn(R, Nat)
  BY NatLessThanWellFounded
<1>2. PICK x \in T : \A y \in T : ~ (<<y, x>> \in R)
  <2> HIDE DEF R
  <2> QED
    BY <1>1, WFMin
<1>3. \A y \in Nat : y < x => <<y, x>> \in R
  BY DEF OpToRel
<1>4. \A y \in T : ~(y < x)
  BY <1>2, <1>3
<1> QED
  BY <1>4

\* The lines of the journal j that load_log_entries keeps.
Live(j, c) ==
    {k \in DOMAIN j : /\ j[k].index > c
                      /\ \A i \in 1..(k - 1) : j[i].index # j[k].index}

\* s lists the lines L of j in index order.
Lists(s, j, L) ==
    /\ s \in [1..Cardinality(L) -> {j[k] : k \in L}]
    /\ \A a, b \in DOMAIN s : a < b => s[a].index < s[b].index

LEMMA LiveLines ==
    ASSUME NEW j \in Seq(Entry), NEW c \in Nat
    PROVE  /\ IsFiniteSet(Live(j, c))
           /\ Live(j, c) \subseteq DOMAIN j
           /\ \A k, l \in Live(j, c) : j[k].index = j[l].index => k = l
<1>1. DOMAIN j = 1..Len(j) /\ Len(j) \in Nat
  BY LenProperties
<1>2. IsFiniteSet(1..Len(j))
  BY <1>1, FS_Interval
<1>3. Live(j, c) \subseteq 1..Len(j)
  BY <1>1 DEF Live
<1>4. IsFiniteSet(Live(j, c))
  BY <1>2, <1>3, FS_Subset
<1>5. ASSUME NEW k \in Live(j, c), NEW l \in Live(j, c), j[k].index = j[l].index
      PROVE  k = l
  <2>1. k \in 1..Len(j) /\ l \in 1..Len(j)
    BY <1>3
  <2>2. ~(k \in 1..(l - 1)) /\ ~(l \in 1..(k - 1))
    BY <1>5 DEF Live
  <2> QED
    BY <1>1, <2>1, <2>2
<1> QED
  BY <1>1, <1>3, <1>4, <1>5

\* The lines can be listed: the listing the CHOOSE looks for exists.  If not,
\* take a least set of lines that cannot be listed, list the others first and
\* the line with the highest index last.
LEMMA ListingExists ==
    ASSUME NEW j \in Seq(Entry), NEW c \in Nat
    PROVE  \E s : Lists(s, j, Live(j, c))
<1> DEFINE V == Live(j, c)
           Bad == {z \in Nat : \E L \in SUBSET V :
                                  Cardinality(L) = z /\ ~\E s : Lists(s, j, L)}
<1>1. /\ IsFiniteSet(V)
      /\ V \subseteq DOMAIN j
      /\ \A k, l \in V : j[k].index = j[l].index => k = l
  BY LiveLines
<1>2. \A k \in V : j[k] \in Entry /\ j[k].index \in 1..MaxIndex
  <2> TAKE k \in V
  <2>1. k \in 1..Len(j)
    BY <1>1, LenProperties
  <2>2. j[k] \in Entry
    BY <2>1, ElementOfSeq
  <2> QED
    BY <2>2 DEF Entry, Index
<1>3. \A L \in SUBSET V : IsFiniteSet(L) /\ Cardinality(L) \in Nat
  BY <1>1, FS_Subset, FS_CardinalityType
<1> HIDE DEF V
<1>4. Bad = {}
  <2> SUFFICES ASSUME Bad # {} PROVE FALSE
    OBVIOUS
  <2>1. PICK z \in Bad : \A y \in Bad : z <= y
    BY LeastNat
  <2>2. PICK L \in SUBSET V : Cardinality(L) = z /\ ~\E s : Lists(s, j, L)
    BY <2>1
  <2>3. z \in Nat
    BY <2>1
  <2>4. CASE L = {}
    <3>1. z = 0
      BY <2>2, <2>4, FS_EmptySet
    <3>2. Lists([i \in 1..0 |-> 0], j, L)
      BY <2>2, <2>4, <3>1 DEF Lists
    <3> QED
      BY <2>2, <3>2
  <2>5. CASE L # {}
    <3> DEFINE Gaps == {MaxIndex - j[k].index : k \in L}
    <3>1. Gaps \subseteq Nat /\ Gaps # {}
      BY <1>2, <2>5, EngineBoundAssumption
    <3>2. PICK g \in Gaps : \A h \in Gaps : g <= h
      BY <3>1, LeastNat
    <3>3. PICK k \in L : g = MaxIndex - j[k].index
      BY <3>2
    <3>4. \A l \in L \ {k} : j[l].index < j[k].index
      <4> TAKE l \in L \ {k}
      <4>1. g <= MaxIndex - j[l].index
        BY <3>2
      <4>2. j[l].index # j[k].index
        BY <1>1
      <4>3. j[l].index \in 1..MaxIndex /\ j[k].index \in 1..MaxIndex
        BY <1>2
      <4> QED
        BY <3>3, <4>1, <4>2, <4>3, EngineBoundAssumption
    <3>5. Cardinality(L \ {k}) = z - 1 /\ z - 1 \in Nat
      <4>1. IsFiniteSet(L) /\ k \in L /\ Cardinality(L \ {k}) \in Nat
        BY <1>3, <3>3
      <4>2. Cardinality(L \ {k}) = Cardinality(L) - 1
        BY <4>1, FS_RemoveElement
      <4> QED
        BY <2>2, <4>1, <4>2
    <3>6. z - 1 \notin Bad
      BY <2>1, <2>3
    <3>7. PICK s : Lists(s, j, L \ {k})
      BY <3>5, <3>6
    <3> DEFINE r == [i \in 1..z |-> IF i = z THEN j[k] ELSE s[i]]
    <3>8. /\ s \in [1..(z - 1) -> {j[l] : l \in L \ {k}}]
          /\ \A a, b \in 1..(z - 1) : a < b => s[a].index < s[b].index
      BY <3>5, <3>7 DEF Lists
    <3>9. \A i \in 1..(z - 1) : s[i] \in {j[l] : l \in L \ {k}} /\ s[i].index < j[k].index
      BY <3>4, <3>8
    <3>10. r \in [1..z -> {j[l] : l \in L}]
      BY <2>3, <3>3, <3>9
    <3>11. ASSUME NEW a \in 1..z, NEW b \in 1..z, a < b
           PROVE  r[a].index < r[b].index
      BY <2>3, <3>8, <3>9, <3>11
    <3>12. Lists(r, j, L)
      <4> HIDE DEF r
      <4> QED
        BY <2>2, <3>10, <3>11 DEF Lists
    <3> QED
      BY <2>2, <3>12
  <2> QED
    BY <2>4, <2>5
<1>5. V \in SUBSET V /\ Cardinality(V) \in Nat
  BY <1>3
<1>6. \E s : Lists(s, j, V)
  BY <1>4, <1>5
<1> QED
  BY <1>6 DEF V

LEMMA LoadLists ==
    ASSUME NEW j \in Seq(Entry), NEW c \in Nat
    PROVE  Lists(LoadLogEntries(j, c), j, Live(j, c))
<1> DEFINE S == [1..Cardinality(Live(j, c)) -> {j[k] : k \in Live(j, c)}]
           P(s) == \A a, b \in DOMAIN s : a < b => s[a].index < s[b].index
<1>1. \E s \in S : P(s)
  BY ListingExists DEF Lists
<1>2. LoadLogEntries(j, c) = CHOOSE s \in S : P(s)
  BY DEF LoadLogEntries, Live
<1>3. LoadLogEntries(j, c) \in S /\ P(LoadLogEntries(j, c))
  <2> HIDE DEF S, P
  <2> QED
    BY <1>1, <1>2
<1> QED
  BY <1>3 DEF Lists

\* What is loaded is a sequence of lines of the journal above the cutoff.
LEMMA LoadTyped ==
    ASSUME NEW j \in Seq(Entry), NEW c \in Nat
    PROVE  /\ LoadLogEntries(j, c) \in Seq(Entry)
           /\ Len(LoadLogEntries(j, c)) = Cardinality(Live(j, c))
           /\ \A i \in 1..Len(LoadLogEntries(j, c)) :
                 \E k \in Live(j, c) : LoadLogEntries(j, c)[i] = j[k]
<1> DEFINE s == LoadLogEntries(j, c)
           N == Cardinality(Live(j, c))
<1>1. Lists(s, j, Live(j, c))
  BY LoadLists
<1>2. N \in Nat
  BY LiveLines, FS_CardinalityType
<1>3. \A k \in Live(j, c) : j[k] \in Entry
  BY LiveLines, LenProperties
<1> HIDE DEF s, N
<1>4. s \in [1..N -> {j[k] : k \in Live(j, c)}]
  BY <1>1 DEF Lists, N
<1>5. s \in [1..N -> Entry]
  BY <1>3, <1>4
<1>6. s \in Seq(Entry) /\ Len(s) = N
  BY <1>2, <1>5
<1> QED
  BY <1>4, <1>6 DEF s, N

\* N increasing numbers between c + 1 and c + N are c + 1, ..., c + N.
LEMMA Squeeze ==
    ASSUME NEW N \in Nat, NEW c \in Nat, NEW f \in [1..N -> (c + 1)..(c + N)],
           \A a, b \in 1..N : a < b => f[a] < f[b]
    PROVE  \A i \in 1..N : f[i] = c + i
<1> DEFINE Low == {i \in 1..N : f[i] < c + i}
           High == {h \in 0..N : N - h \in 1..N /\ f[N - h] > c + (N - h)}
<1>1. Low = {}
  <2> SUFFICES ASSUME Low # {} PROVE FALSE
    OBVIOUS
  <2>1. Low \subseteq Nat
    OBVIOUS
  <2>2. PICK i \in Low : \A h \in Low : i <= h
    BY <2>1, LeastNat
  <2>3. i \in 1..N /\ f[i] < c + i /\ f[i] \in (c + 1)..(c + N)
    BY <2>2
  <2>4. i - 1 \in 1..N
    BY <2>3
  <2>5. i - 1 \notin Low
    BY <2>2, <2>3
  <2>6. f[i - 1] >= c + (i - 1) /\ f[i - 1] < f[i] /\ f[i - 1] \in (c + 1)..(c + N)
    BY <2>3, <2>4, <2>5
  <2> QED
    BY <2>3, <2>6
<1>2. High = {}
  <2> SUFFICES ASSUME High # {} PROVE FALSE
    OBVIOUS
  <2>1. High \subseteq Nat
    OBVIOUS
  <2>2. PICK h \in High : \A g \in High : h <= g
    BY <2>1, LeastNat
  <2>3. /\ h \in 0..N
        /\ N - h \in 1..N
        /\ f[N - h] > c + (N - h)
        /\ f[N - h] \in (c + 1)..(c + N)
    BY <2>2
  <2>4. h - 1 \in 0..N /\ N - (h - 1) \in 1..N
    BY <2>3
  <2>5. h - 1 \notin High
    <3>1. ~(h <= h - 1)
      BY <2>3
    <3> HIDE DEF High
    <3> QED
      BY <2>2, <3>1
  <2>6. /\ f[N - (h - 1)] <= c + (N - (h - 1))
        /\ f[N - h] < f[N - (h - 1)]
        /\ f[N - (h - 1)] \in (c + 1)..(c + N)
    BY <2>3, <2>4, <2>5
  <2> QED
    BY <2>3, <2>6
<1>3. ASSUME NEW i \in 1..N PROVE f[i] = c + i
  <2>1. i \notin Low
    BY <1>1
  <2>2. N - i \notin High
    BY <1>2
  <2>3. N - i \in 0..N /\ N - (N - i) = i
    OBVIOUS
  <2>4. f[i] \in (c + 1)..(c + N)
    OBVIOUS
  <2>5. f[i] >= c + i
    BY <2>1, <2>4
  <2>6. f[i] <= c + i
    BY <2>2, <2>3, <2>4
  <2> QED
    BY <2>4, <2>5, <2>6
<1> QED
  BY <1>3

\* A journal without a gap above the cutoff is loaded without a gap.
LEMMA LoadSpans ==
    ASSUME NEW j \in Seq(Entry), NEW c \in Nat, NEW x \in 0..MaxIndex, c <= x,
           Spans(j, c, x)
    PROVE  /\ LoadLogEntries(j, c) \in Seq(Entry)
           /\ Len(LoadLogEntries(j, c)) = x - c
           /\ \A i \in 1..(x - c) : LoadLogEntries(j, c)[i].index = c + i
<1> DEFINE V == Live(j, c)
           s == LoadLogEntries(j, c)
           F == [k \in V |-> j[k].index]
           N == x - c
<1> USE EngineBoundAssumption
<1>0. DOMAIN j = 1..Len(j) /\ Len(j) \in Nat
  BY LenProperties
<1>1. \A k \in DOMAIN j : j[k] \in Entry /\ j[k].index \in 1..MaxIndex
  <2> TAKE k \in DOMAIN j
  <2>1. j[k] \in Entry
    BY <1>0, ElementOfSeq
  <2> QED
    BY <2>1 DEF Entry, Index
<1>2. \A k \in V : k \in DOMAIN j /\ j[k].index \in (c + 1)..x
  <2> TAKE k \in V
  <2>1. k \in DOMAIN j /\ j[k].index > c
    BY DEF Live
  <2>2. j[k].index \in 1..MaxIndex /\ j[k].index \in Index
    BY <1>1, <2>1 DEF Index
  <2>3. j[k].index <= x
    BY <2>1, <2>2 DEF Spans
  <2> QED
    BY <2>1, <2>2, <2>3
<1>3. \A i \in (c + 1)..x : \E k \in V : j[k].index = i
  <2> TAKE i \in (c + 1)..x
  <2> DEFINE K == {k \in DOMAIN j : j[k].index = i}
  <2>1. i \in Index /\ i > c /\ i <= x
    BY DEF Index
  <2>2. K # {} /\ K \subseteq Nat
    BY <1>0, <2>1 DEF Spans
  <2>3. PICK k \in K : \A l \in K : k <= l
    BY <2>2, LeastNat
  <2>4. \A l \in 1..(k - 1) : l \notin K /\ l \in DOMAIN j
    BY <1>0, <2>3
  <2>5. k \in V
    BY <2>1, <2>3, <2>4 DEF Live
  <2> QED
    BY <2>3, <2>5
<1>4. \A k, l \in V : j[k].index = j[l].index => k = l
  BY LiveLines
<1>5. IsFiniteSet(V)
  BY LiveLines
<1> HIDE DEF V
<1>6. F \in Bijection(V, (c + 1)..x)
  <2>1. F \in [V -> (c + 1)..x]
    BY <1>2
  <2>2. \A k, l \in V : F[k] = F[l] => k = l
    BY <1>4
  <2>3. \A i \in (c + 1)..x : \E k \in V : F[k] = i
    BY <1>3
  <2> HIDE DEF F
  <2> QED
    BY <2>1, <2>2, <2>3 DEF Bijection, Injection, Surjection, IsInjective
<1>7. Cardinality((c + 1)..x) = Cardinality(V)
  BY <1>5, <1>6, FS_Bijection DEF ExistsBijection
<1>8. Cardinality((c + 1)..x) = N /\ N \in Nat
  <2>1. c + 1 \in Int /\ x \in Int /\ N \in Nat
    OBVIOUS
  <2>2. Cardinality((c + 1)..x) = IF c + 1 > x THEN 0 ELSE x - (c + 1) + 1
    BY <2>1, FS_Interval
  <2> QED
    BY <2>1, <2>2
<1>9. s \in Seq(Entry) /\ Len(s) = N
  BY <1>7, <1>8, LoadTyped DEF V
<1>10. Lists(s, j, V)
  BY LoadLists DEF V
<1> HIDE DEF s
<1> DEFINE f == [i \in 1..N |-> s[i].index]
<1>11. s \in [1..N -> {j[k] : k \in V}] /\ \A a, b \in 1..N : a < b => s[a].index < s[b].index
  BY <1>7, <1>8, <1>10 DEF Lists
<1>12. \A i \in 1..N : s[i].index \in (c + 1)..x
  BY <1>2, <1>11
<1>13. x = c + N
  BY <1>8
<1>14. f \in [1..N -> (c + 1)..(c + N)]
  BY <1>12, <1>13
<1>15. \A a, b \in 1..N : a < b => f[a] < f[b]
  BY <1>11
<1>16. \A i \in 1..N : f[i] = c + i
  <2> HIDE DEF f
  <2> QED
    BY <1>8, <1>14, <1>15, Squeeze
<1> QED
  BY <1>9, <1>16 DEF s

\* A journal that holds its entries in order is loaded as it is.
LEMMA LoadWhole ==
    ASSUME NEW j \in Seq(Entry), NEW i \in 0..MaxIndex, Whole(j, i)
    PROVE  LoadLogEntries(j, 0) = j
<1> USE EngineBoundAssumption
<1>0. DOMAIN j = 1..i /\ Len(j) = i
  BY LenProperties DEF Whole
<1>1. Spans(j, 0, i)
  BY <1>0 DEF Spans, Whole, Index
<1> DEFINE s == LoadLogEntries(j, 0)
<1>2. s \in Seq(Entry) /\ Len(s) = i /\ \A k \in 1..i : s[k].index = k
  <2>1. 0 \in Nat /\ 0 <= i /\ i - 0 = i /\ \A k \in 1..i : 0 + k = k
    OBVIOUS
  <2> QED
    BY <1>1, <2>1, LoadSpans
<1>3. \A k \in 1..i : s[k] = j[k]
  <2> TAKE k \in 1..i
  <2>1. PICK l \in Live(j, 0) : s[k] = j[l]
    BY <1>2, LoadTyped
  <2>2. l \in 1..i
    BY <1>0, <2>1 DEF Live
  <2>3. j[l].index = l
    BY <2>2 DEF Whole
  <2> QED
    BY <1>2, <2>1, <2>3
<1> QED
  <2> HIDE DEF s
  <2>1. s = j
    BY <1>0, <1>2, <1>3, SeqEqual
  <2> QED
    BY <2>1 DEF s

-----------------------------------------------------------------------------
(* attach_persistent_state: what a restart rebuilds from a directory.      *)

\* Projecting the loaded entries.
LEMMA LoadedColumns ==
    ASSUME NEW s \in Seq(Entry)
    PROVE  /\ [i \in DOMAIN s |-> s[i].command] \in Seq(Command)
           /\ Len([i \in DOMAIN s |-> s[i].command]) = Len(s)
           /\ [i \in DOMAIN s |-> s[i].term] \in Seq(Term)
           /\ Len([i \in DOMAIN s |-> s[i].term]) = Len(s)
           /\ [i \in DOMAIN s |-> [index |-> s[i].index, command |-> s[i].command]]
                 \in Seq([index : Index, command : Command])
<1>1. DOMAIN s = 1..Len(s) /\ Len(s) \in Nat
  BY LenProperties
<1>2. \A i \in 1..Len(s) : s[i].index \in Index /\ s[i].term \in Term /\ s[i].command \in Command
  <2> TAKE i \in 1..Len(s)
  <2>1. s[i] \in Entry
    BY ElementOfSeq
  <2> QED
    BY <2>1 DEF Entry
<1>3. /\ [i \in DOMAIN s |-> s[i].command] \in [1..Len(s) -> Command]
      /\ [i \in DOMAIN s |-> s[i].term] \in [1..Len(s) -> Term]
      /\ [i \in DOMAIN s |-> [index |-> s[i].index, command |-> s[i].command]]
            \in [1..Len(s) -> [index : Index, command : Command]]
  BY <1>1, <1>2
<1> QED
  BY <1>1, <1>3

LEMMA CutoffTyped ==
    ASSUME NEW d \in Disk
    PROVE  /\ Cutoff(d) \in 0..MaxIndex
           /\ Cutoff(d) \in Nat
           /\ d.snapshot # NoSnapshot => d.snapshot \in SnapshotFile
<1>1. d.snapshot # NoSnapshot => d.snapshot \in SnapshotFile
  BY DEF Disk
<1> QED
  BY <1>1, EngineBoundAssumption DEF Cutoff, SnapshotFile

\* The snapshot's share of what is rebuilt.
LEMMA SnapshotPart ==
    ASSUME NEW d \in Disk
    PROVE  /\ (IF d.snapshot = NoSnapshot THEN <<>> ELSE d.snapshot.state) \in Seq(Command)
           /\ (IF d.snapshot = NoSnapshot THEN <<>>
               ELSE [i \in 1..d.snapshot.last_index |-> d.snapshot.term]) \in Seq(Term)
           /\ Len(IF d.snapshot = NoSnapshot THEN <<>>
                  ELSE [i \in 1..d.snapshot.last_index |-> d.snapshot.term]) = Cutoff(d)
<1>1. CASE d.snapshot = NoSnapshot
  BY <1>1, EmptySeq DEF Cutoff
<1>2. CASE d.snapshot # NoSnapshot
  <2>1. d.snapshot \in SnapshotFile
    BY <1>2, CutoffTyped
  <2>2. /\ d.snapshot.last_index \in Nat
        /\ d.snapshot.term \in Term
        /\ d.snapshot.state \in Seq(Command)
    BY <2>1, EngineBoundAssumption DEF SnapshotFile
  <2>3. [i \in 1..d.snapshot.last_index |-> d.snapshot.term]
           \in [1..d.snapshot.last_index -> Term]
    BY <2>2
  <2> QED
    BY <1>2, <2>2, <2>3 DEF Cutoff
<1> QED
  BY <1>1, <1>2

\* A restart rebuilds well-typed state from any directory.
LEMMA ReplayTyped ==
    ASSUME NEW d \in Disk
    PROVE  /\ LoadLogEntries(d.journal, Cutoff(d)) \in Seq(Entry)
           /\ ReplayedState(d) \in Seq(Command)
           /\ ReplayedTerms(d) \in Seq(Term)
           /\ Len(ReplayedTerms(d)) = Cutoff(d) + Len(LoadLogEntries(d.journal, Cutoff(d)))
           /\ ReplayedIndex(d) \in 0..MaxIndex
<1> DEFINE s == LoadLogEntries(d.journal, Cutoff(d))
<1>1. d.journal \in Seq(Entry) /\ d.last_index \in 0..MaxIndex
  BY DEF Disk
<1>2. s \in Seq(Entry)
  BY <1>1, CutoffTyped, LoadTyped
<1> HIDE DEF s
<1>3. /\ [i \in DOMAIN s |-> s[i].command] \in Seq(Command)
      /\ [i \in DOMAIN s |-> s[i].term] \in Seq(Term)
      /\ Len([i \in DOMAIN s |-> s[i].term]) = Len(s)
  BY <1>2, LoadedColumns
<1>4. ReplayedState(d) \in Seq(Command)
  BY <1>3, SnapshotPart, ConcatProperties DEF ReplayedState, s
<1>5. ReplayedTerms(d) \in Seq(Term) /\ Len(ReplayedTerms(d)) = Cutoff(d) + Len(s)
  <2> DEFINE p == IF d.snapshot = NoSnapshot THEN <<>>
                  ELSE [i \in 1..d.snapshot.last_index |-> d.snapshot.term]
             q == [i \in DOMAIN s |-> s[i].term]
  <2>1. ReplayedTerms(d) = p \o q
    BY DEF ReplayedTerms, s
  <2>2. p \in Seq(Term) /\ Len(p) = Cutoff(d)
    BY SnapshotPart
  <2>3. q \in Seq(Term) /\ Len(q) = Len(s)
    BY <1>3
  <2> HIDE DEF p, q
  <2>4. p \o q \in Seq(Term) /\ Len(p \o q) = Len(p) + Len(q)
    BY <2>2, <2>3, ConcatProperties
  <2> QED
    BY <2>1, <2>2, <2>3, <2>4
<1>6. s # <<>> => s[Len(s)].index \in 0..MaxIndex
  <2> SUFFICES ASSUME s # <<>> PROVE s[Len(s)].index \in 0..MaxIndex
    OBVIOUS
  <2>1. Len(s) \in 1..Len(s)
    BY <1>2, EmptySeq
  <2>2. s[Len(s)] \in Entry
    BY <1>2, <2>1, ElementOfSeq
  <2> QED
    BY <2>2, EngineBoundAssumption DEF Entry, Index
<1>7. ReplayedIndex(d) \in 0..MaxIndex
  BY <1>1, <1>6, CutoffTyped DEF ReplayedIndex, s
<1> QED
  BY <1>2, <1>4, <1>5, <1>7 DEF s

\* From a snapshot and a journal that continues it up to x, a restart rebuilds
\* one term and one command for every index up to x.
LEMMA ReplaySpans ==
    ASSUME NEW d \in Disk, NEW x \in 0..MaxIndex, Cutoff(d) <= x, d.last_index <= x,
           d.snapshot # NoSnapshot => Len(d.snapshot.state) = Cutoff(d),
           Spans(d.journal, Cutoff(d), x)
    PROVE  ReplayedIndex(d) = x /\ Len(ReplayedTerms(d)) = x /\ Len(ReplayedState(d)) = x
<1> DEFINE s == LoadLogEntries(d.journal, Cutoff(d))
           c == Cutoff(d)
<1>1. d.journal \in Seq(Entry) /\ d.last_index \in 0..MaxIndex /\ c \in 0..MaxIndex /\ c \in Nat
  BY CutoffTyped DEF Disk
<1>2. s \in Seq(Entry) /\ Len(s) = x - c /\ \A i \in 1..(x - c) : s[i].index = c + i
  BY <1>1, LoadSpans
<1>3. Len(ReplayedTerms(d)) = c + Len(s)
  BY ReplayTyped
<1> HIDE DEF s
<1>4. Len([i \in DOMAIN s |-> s[i].command]) = Len(s)
      /\ [i \in DOMAIN s |-> s[i].command] \in Seq(Command)
  BY <1>2, LoadedColumns
<1> DEFINE p == IF d.snapshot = NoSnapshot THEN <<>> ELSE d.snapshot.state
<1>5. p \in Seq(Command) /\ Len(p) = c
  BY SnapshotPart, EmptySeq DEF Cutoff
<1>6. Len(ReplayedState(d)) = c + Len(s)
  <2> DEFINE q == [i \in DOMAIN s |-> s[i].command]
  <2>1. ReplayedState(d) = p \o q
    BY DEF ReplayedState, s
  <2>2. q \in Seq(Command) /\ Len(q) = Len(s)
    BY <1>4
  <2> HIDE DEF p, q
  <2>3. Len(p \o q) = Len(p) + Len(q)
    BY <1>5, <2>2, ConcatProperties
  <2> QED
    BY <1>5, <2>1, <2>2, <2>3
<1>7. ReplayedIndex(d) = x
  <2> DEFINE last == IF s = <<>> THEN c ELSE s[Len(s)].index
  <2>1. last = x
    <3>1. CASE s = <<>>
      BY <1>1, <1>2, <3>1, EmptySeq
    <3>2. CASE s # <<>>
      <4>1. Len(s) \in Nat \ {0}
        BY <1>2, <3>2, EmptySeq
      <4>2. s[Len(s)].index = c + Len(s)
        BY <1>1, <1>2, <4>1
      <4> QED
        BY <1>1, <1>2, <3>2, <4>2
    <3> QED
      BY <3>1, <3>2
  <2>2. ReplayedIndex(d) = IF d.last_index > last THEN d.last_index ELSE last
    BY DEF ReplayedIndex, s
  <2> HIDE DEF last
  <2> QED
    BY <1>1, <2>1, <2>2
<1> QED
  BY <1>1, <1>2, <1>3, <1>6, <1>7

\* Without a snapshot and with a whole journal a restart rebuilds its columns.
LEMMA ReplayWhole ==
    ASSUME NEW d \in Disk, NEW x \in 0..MaxIndex, d.snapshot = NoSnapshot,
           d.last_index <= x, Whole(d.journal, x)
    PROVE  /\ ReplayedIndex(d) = x
           /\ Len(ReplayedTerms(d)) = x
           /\ Len(ReplayedState(d)) = x
           /\ \A k \in 1..x : /\ ReplayedTerms(d)[k] = d.journal[k].term
                              /\ ReplayedState(d)[k] = d.journal[k].command
<1>1. d.journal \in Seq(Entry) /\ Cutoff(d) = 0 /\ x \in Nat
  BY EngineBoundAssumption DEF Disk, Cutoff
<1>2. LoadLogEntries(d.journal, 0) = d.journal
  BY <1>1, LoadWhole
<1>3. DOMAIN d.journal = 1..x
  BY <1>1, LenProperties DEF Whole
<1>4. Spans(d.journal, 0, x)
  BY <1>3 DEF Spans, Whole, Index
<1>5. ReplayedIndex(d) = x /\ Len(ReplayedTerms(d)) = x /\ Len(ReplayedState(d)) = x
  BY <1>1, <1>4, ReplaySpans
<1>6. /\ [i \in DOMAIN d.journal |-> d.journal[i].command] \in Seq(Command)
      /\ [i \in DOMAIN d.journal |-> d.journal[i].term] \in Seq(Term)
  BY <1>1, LoadedColumns
<1>7. ReplayedState(d) = [i \in DOMAIN d.journal |-> d.journal[i].command]
  <2>1. ReplayedState(d) = <<>> \o [i \in DOMAIN d.journal |-> d.journal[i].command]
    BY <1>1, <1>2 DEF ReplayedState
  <2> QED
    BY <1>6, <2>1, ConcatEmptySeq
<1>8. ReplayedTerms(d) = [i \in DOMAIN d.journal |-> d.journal[i].term]
  <2>1. ReplayedTerms(d) = <<>> \o [i \in DOMAIN d.journal |-> d.journal[i].term]
    BY <1>1, <1>2 DEF ReplayedTerms
  <2> QED
    BY <1>6, <2>1, ConcatEmptySeq
<1> QED
  BY <1>3, <1>5, <1>7, <1>8

-----------------------------------------------------------------------------
(* What a step does to one member's log.                                   *)

\* The directory d a crashed n comes back with: its own, or its own with the
\* line of an append that was cut off before meta.
Reopens(n, d) ==
    /\ d.term = disk[n].term
    /\ d.last_index = disk[n].last_index
    /\ d.snapshot = disk[n].snapshot
    /\ \/ d.journal = disk[n].journal
       \/ \E e \in Entry : /\ e.index = last_index[n] + 1
                           /\ d.journal = Append(disk[n].journal, e)

LogSame(n) ==
    /\ last_index'[n] = last_index[n]
    /\ log_terms'[n] = log_terms[n]
    /\ command_log'[n] = command_log[n]
    /\ applied'[n] = applied[n]
    /\ disk'[n] = disk[n]

LogAppends(n, e) ==
    /\ e.index = last_index[n] + 1
    /\ last_index'[n] = e.index
    /\ log_terms'[n] = Append(log_terms[n], e.term)
    /\ command_log'[n] = Append(command_log[n], [index |-> e.index, command |-> e.command])
    /\ applied'[n] = Append(applied[n], e.command)
    /\ disk'[n] = AppendLogEntry(disk[n], e.index, e.term, e.command)

LogInstalls(n, m) ==
    /\ m.type = "SnapshotResponse"
    /\ installs' = installs + 1
    /\ wire' = wire
    /\ last_index'[n] = m.last_index
    /\ log_terms'[n] = FilledTerms(n, m)
    /\ command_log'[n] = command_log[n]
    /\ applied'[n] = m.snapshot
    /\ disk'[n] = InstallSnapshot(disk[n], m)

LogRestarts(n, d) ==
    /\ Reopens(n, d)
    /\ crashes' = crashes + 1
    /\ last_index'[n] = ReplayedIndex(d)
    /\ log_terms'[n] = ReplayedTerms(d)
    /\ applied'[n] = ReplayedState(d)
    /\ command_log'[n] =
           LET entries == LoadLogEntries(d.journal, Cutoff(d)) IN
           [i \in DOMAIN entries |->
               [index |-> entries[i].index, command |-> entries[i].command]]
    /\ disk'[n] = d

LogEffect(n) ==
    \/ LogSame(n)
    \/ \E e \in Entry : LogAppends(n, e)
    \/ \E m \in wire : LogInstalls(n, m)
    \/ \E d \in Disk : LogRestarts(n, d)

\* The line Journalled and AppendLogEntry write.
LEMMA DiskWrites ==
    ASSUME NEW d \in Disk, NEW e \in Entry
    PROVE  /\ Journalled(d, e.index, e.term, e.command) \in Disk
           /\ Journalled(d, e.index, e.term, e.command).term = d.term
           /\ Journalled(d, e.index, e.term, e.command).last_index = d.last_index
           /\ Journalled(d, e.index, e.term, e.command).snapshot = d.snapshot
           /\ Journalled(d, e.index, e.term, e.command).journal = Append(d.journal, e)
           /\ AppendLogEntry(d, e.index, e.term, e.command) \in Disk
           /\ AppendLogEntry(d, e.index, e.term, e.command).last_index = e.index
           /\ AppendLogEntry(d, e.index, e.term, e.command).snapshot = d.snapshot
           /\ AppendLogEntry(d, e.index, e.term, e.command).journal = Append(d.journal, e)
<1> DEFINE j == Journalled(d, e.index, e.term, e.command)
           a == AppendLogEntry(d, e.index, e.term, e.command)
<1>1. e = [index |-> e.index, term |-> e.term, command |-> e.command]
      /\ e.index \in Index /\ e.term \in Term
  BY DEF Entry
<1>2. d.journal \in Seq(Entry)
  BY DEF Disk
<1>3. Append(d.journal, e) \in Seq(Entry)
  BY <1>2, AppendProperties
<1>4. e.index \in 0..MaxIndex /\ e.term \in 0..MaxTerm
  BY <1>1 DEF Index, Term
<1>5. /\ j = [d EXCEPT !.journal = Append(d.journal, e)]
      /\ a = [[d EXCEPT !.journal = Append(d.journal, e)]
                EXCEPT !.term = IF e.term > d.term THEN e.term ELSE d.term,
                       !.last_index = e.index]
  BY <1>1 DEF Journalled, AppendLogEntry
<1> HIDE DEF j, a
<1>6. j \in Disk /\ a \in Disk
  BY <1>3, <1>4, <1>5 DEF Disk
<1>7. /\ j.journal = Append(d.journal, e)
      /\ j.term = d.term
      /\ j.last_index = d.last_index
      /\ j.snapshot = d.snapshot
      /\ a.journal = Append(d.journal, e)
      /\ a.last_index = e.index
      /\ a.snapshot = d.snapshot
  BY <1>5 DEF Disk
<1> QED
  BY <1>6, <1>7 DEF j, a

\* A ReplicateCommand on the wire carries an entry.
LEMMA CommandFrame ==
    ASSUME WireTyped, NEW m \in wire, m.type = "ReplicateCommand"
    PROVE  /\ m.from \in Node /\ m.to \in Node
           /\ m.term \in Term /\ m.index \in Index /\ m.command \in Command
BY DEF WireTyped, Frame

LEMMA SnapshotFrame ==
    ASSUME WireTyped, NEW m \in wire, m.type = "SnapshotResponse"
    PROVE  /\ m.from \in Node /\ m.to \in Node
           /\ m.term \in Term /\ m.last_index \in 0..MaxIndex /\ m.snapshot \in Seq(Command)
BY DEF WireTyped, Frame

LEMMA CrashDisk ==
    ASSUME Typed, NEW n \in Node, CrashStep(n)
    PROVE  \E d \in Disk : Restart(n, d) /\ Reopens(n, d)
<1>1. disk[n] \in Disk
  BY DEF Typed, LogTyped
<1>2. CASE CrashRestart(n)
  BY <1>1, <1>2 DEF CrashRestart, Reopens
<1>3. ASSUME NEW m \in wire, CrashInAppend(n, m)
      PROVE  \E d \in Disk : Restart(n, d) /\ Reopens(n, d)
  <2> DEFINE d == Journalled(disk[n], m.index, m.term, m.command)
             e == [index |-> m.index, term |-> m.term, command |-> m.command]
  <2>1. m.term \in Term /\ m.index \in Index /\ m.command \in Command
    BY <1>3, CommandFrame DEF CrashInAppend, Typed
  <2>2. /\ e \in Entry
        /\ e.index = m.index /\ e.term = m.term /\ e.command = m.command
    BY <2>1 DEF Entry
  <2>3. e.index = last_index[n] + 1
    BY <1>3, <2>2 DEF CrashInAppend, Contiguous
  <2>4. Restart(n, d)
    BY <1>3 DEF CrashInAppend
  <2> HIDE DEF e
  <2>5. d = Journalled(disk[n], e.index, e.term, e.command)
    BY <2>2
  <2> HIDE DEF d
  <2>6. /\ d \in Disk
        /\ d.term = disk[n].term
        /\ d.last_index = disk[n].last_index
        /\ d.snapshot = disk[n].snapshot
        /\ d.journal = Append(disk[n].journal, e)
    BY <1>1, <2>2, <2>5, DiskWrites
  <2> QED
    BY <2>2, <2>3, <2>4, <2>6 DEF Reopens
<1> QED
  BY <1>2, <1>3 DEF CrashStep

\* The steps that do not touch any log.
LEMMA QuietSteps ==
    ASSUME NEW k \in Node,
           \/ ElectionStep(k)
           \/ \E w \in waiting[k] : SubmitAcked(k, w) \/ SubmitTimeout(k, w)
           \/ Replay(k)
           \/ \E m \in wire : ReceiveAck(k, m) \/ ReceiveNack(k, m)
           \/ \E f \in Node : SendSnapshot(k, f)
    PROVE  UNCHANGED <<last_index, log_terms, command_log, applied, disk, installs, crashes>>
<1> USE DEF logVars, faultVars
<1>1. ElectionStep(k) => UNCHANGED <<logVars, disk, faultVars>>
  BY DEF ElectionStep, Arm, LeaderHeartbeat, DeliverVoteResponse, DeliverElectionFrame
<1>2. ASSUME NEW w \in waiting[k], SubmitAcked(k, w) \/ SubmitTimeout(k, w)
      PROVE  UNCHANGED <<logVars, disk, faultVars>>
  BY <1>2 DEF SubmitAcked, SubmitTimeout, EndSubmit
<1>3. Replay(k) => UNCHANGED <<logVars, disk, faultVars>>
  BY DEF Replay
<1>4. ASSUME NEW m \in wire, ReceiveAck(k, m) \/ ReceiveNack(k, m)
      PROVE  UNCHANGED <<logVars, disk, faultVars>>
  BY <1>4 DEF ReceiveAck, ReceiveNack
<1>5. ASSUME NEW f \in Node, SendSnapshot(k, f) PROVE UNCHANGED <<logVars, disk, faultVars>>
  BY <1>5 DEF SendSnapshot
<1> QED
  BY <1>1, <1>2, <1>3, <1>4, <1>5

\* The shape of the log's variables: functions on Node.
LogFunctions ==
    /\ last_index' = [n \in Node |-> last_index'[n]]
    /\ log_terms' = [n \in Node |-> log_terms'[n]]
    /\ command_log' = [n \in Node |-> command_log'[n]]
    /\ applied' = [n \in Node |-> applied'[n]]
    /\ disk' = [n \in Node |-> disk'[n]]

LEMMA LogEffects ==
    ASSUME Typed, [EngineNext]_engineVars
    PROVE  LogFunctions /\ \A n \in Node : LogEffect(n)
<1> USE DEF LogFunctions
<1>0. /\ last_index = [n \in Node |-> last_index[n]]
      /\ log_terms = [n \in Node |-> log_terms[n]]
      /\ command_log = [n \in Node |-> command_log[n]]
      /\ applied = [n \in Node |-> applied[n]]
      /\ disk = [n \in Node |-> disk[n]]
  BY DEF Typed, LogTyped
<1>1. CASE UNCHANGED <<last_index, log_terms, command_log, applied, disk>>
  BY <1>0, <1>1 DEF LogEffect, LogSame
<1>2. ASSUME NEW k \in Node, NEW i \in Index, NEW t \in Term, NEW c \in Command,
             i = last_index[k] + 1, AppendEntry(k, i, t, c)
      PROVE  LogFunctions /\ \A n \in Node : LogEffect(n)
  <2> DEFINE e == [index |-> i, term |-> t, command |-> c]
  <2>1. e \in Entry
    BY DEF Entry
  <2>2. LogFunctions
    BY <1>0, <1>2 DEF AppendEntry
  <2>3. \A n \in Node \ {k} : LogSame(n)
    BY <1>0, <1>2 DEF AppendEntry, LogSame
  <2>4. LogAppends(k, e)
    BY <1>0, <1>2 DEF AppendEntry, LogAppends
  <2> HIDE DEF e
  <2> QED
    BY <2>1, <2>2, <2>3, <2>4 DEF LogEffect
<1>3. ASSUME NEW k \in Node, NEW c \in Command, Submit(k, c)
      PROVE  LogFunctions /\ \A n \in Node : LogEffect(n)
  <2>1. current_term[k] \in Term
    BY <1>3, BoundAssumption DEF Submit, Typed, ElectionTyped, Term
  <2> QED
    BY <1>2, <1>3, <2>1 DEF Submit
<1>4. ASSUME NEW k \in Node, NEW m \in wire, ReceiveCommand(k, m)
      PROVE  LogFunctions /\ \A n \in Node : LogEffect(n)
  <2>1. m.term \in Term /\ m.index \in Index /\ m.command \in Command
    BY <1>4, CommandFrame DEF ReceiveCommand, Typed
  <2>2. CASE UNCHANGED <<logVars, disk>>
    BY <1>1, <2>2 DEF logVars
  <2>3. CASE m.index = last_index[k] + 1 /\ AppendEntry(k, m.index, m.term, m.command)
    BY <1>2, <2>1, <2>3
  <2> QED
    BY <1>4, <2>2, <2>3 DEF ReceiveCommand, Contiguous
<1>5. ASSUME NEW k \in Node, NEW m \in wire, ReceiveSnapshot(k, m)
      PROVE  LogFunctions /\ \A n \in Node : LogEffect(n)
  <2>2. LogFunctions
    BY <1>0, <1>5 DEF ReceiveSnapshot
  <2>3. \A n \in Node \ {k} : LogSame(n)
    BY <1>0, <1>5 DEF ReceiveSnapshot, LogSame
  <2>4. LogInstalls(k, m)
    BY <1>0, <1>5 DEF ReceiveSnapshot, LogInstalls
  <2> QED
    BY <2>2, <2>3, <2>4 DEF LogEffect
<1>6. ASSUME NEW k \in Node, CrashStep(k)
      PROVE  LogFunctions /\ \A n \in Node : LogEffect(n)
  <2>1. PICK d \in Disk : Restart(k, d) /\ Reopens(k, d)
    BY <1>6, CrashDisk
  <2>2. LogFunctions
    BY <1>0, <2>1 DEF Restart
  <2>3. \A n \in Node \ {k} : LogSame(n)
    BY <1>0, <2>1 DEF Restart, LogSame
  <2>4. LogRestarts(k, d)
    BY <1>0, <2>1 DEF Restart, LogRestarts
  <2> QED
    BY <2>1, <2>2, <2>3, <2>4 DEF LogEffect
<1> HIDE DEF LogFunctions
<1>7. CASE UNCHANGED engineVars
  BY <1>1, <1>7 DEF engineVars, logVars
<1> QED
  BY <1>1, <1>3, <1>4, <1>5, <1>6, <1>7, QuietSteps
     DEF EngineNext, LogStep, SnapshotStep

-----------------------------------------------------------------------------
(* Types.                                                                  *)

\* The files an install leaves behind.
LEMMA InstalledDisk ==
    ASSUME WireTyped, NEW d \in Disk, NEW m \in wire, m.type = "SnapshotResponse"
    PROVE  /\ InstallSnapshot(d, m) \in Disk
           /\ InstallSnapshot(d, m).snapshot # NoSnapshot
           /\ InstallSnapshot(d, m).snapshot.state = m.snapshot
           /\ Cutoff(InstallSnapshot(d, m)) = m.last_index
           /\ InstallSnapshot(d, m).journal = LoadLogEntries(d.journal, m.last_index)
<1> DEFINE s == [last_index |-> m.last_index, term |-> m.term, state |-> m.snapshot]
<1> USE BoundAssumption, EngineBoundAssumption
<1>1. m.term \in Term /\ m.last_index \in 0..MaxIndex /\ m.snapshot \in Seq(Command)
  BY SnapshotFrame
<1>2. s \in SnapshotFile
  BY <1>1 DEF SnapshotFile
<1>3. s # NoSnapshot
  <2>1. s \in [last_index : Nat, term : Nat, state : Seq(Command)]
    BY <1>1 DEF Term
  <2> QED
    BY <2>1, NoSnapshotAssumption
<1>4. /\ InstallSnapshot(d, m).snapshot = s
      /\ InstallSnapshot(d, m).journal = LoadLogEntries(d.journal, m.last_index)
  BY DEF InstallSnapshot
<1>5. s.state = m.snapshot /\ s.last_index = m.last_index
  OBVIOUS
<1>6. d.journal \in Seq(Entry) /\ d.term \in 0..MaxTerm /\ d.last_index \in 0..MaxIndex
  BY DEF Disk
<1>7. LoadLogEntries(d.journal, m.last_index) \in Seq(Entry)
  BY <1>1, <1>6, LoadTyped
<1> HIDE DEF s
<1>8. Cutoff(InstallSnapshot(d, m)) = m.last_index
  BY <1>3, <1>4, <1>5 DEF Cutoff
<1>9. InstallSnapshot(d, m) \in Disk
  <2>1. m.term \in 0..MaxTerm
    BY <1>1 DEF Term
  <2>2. (IF m.term > d.term THEN m.term ELSE d.term) \in 0..MaxTerm
    BY <1>6, <2>1
  <2>3. (IF m.last_index > d.last_index THEN m.last_index ELSE d.last_index) \in 0..MaxIndex
    BY <1>1, <1>6
  <2> QED
    BY <1>2, <1>7, <2>2, <2>3 DEF InstallSnapshot, Disk, s
<1> QED
  BY <1>3, <1>4, <1>5, <1>8, <1>9

LEMMA LogTypedStep ==
    ASSUME Typed, [EngineNext]_engineVars
    PROVE  LogTyped'
<1> DEFINE Line == [index : Index, command : Command]
<1>0. ASSUME NEW n \in Node
      PROVE  /\ last_index[n] \in 0..MaxIndex
             /\ log_terms[n] \in Seq(Term)
             /\ command_log[n] \in Seq(Line)
             /\ applied[n] \in Seq(Command)
             /\ disk[n] \in Disk
  BY DEF Typed, LogTyped
<1>1. ASSUME NEW n \in Node
      PROVE  /\ last_index'[n] \in 0..MaxIndex
             /\ log_terms'[n] \in Seq(Term)
             /\ command_log'[n] \in Seq(Line)
             /\ applied'[n] \in Seq(Command)
             /\ disk'[n] \in Disk
  <2>1. CASE LogSame(n)
    BY <1>0, <2>1 DEF LogSame
  <2>2. ASSUME NEW e \in Entry, LogAppends(n, e)
        PROVE  /\ last_index'[n] \in 0..MaxIndex
               /\ log_terms'[n] \in Seq(Term)
               /\ command_log'[n] \in Seq(Line)
               /\ applied'[n] \in Seq(Command)
               /\ disk'[n] \in Disk
    <3>1. e.index \in Index /\ e.term \in Term /\ e.command \in Command
      BY DEF Entry
    <3>2. last_index'[n] \in 0..MaxIndex
      BY <2>2, <3>1 DEF LogAppends, Index
    <3>3. log_terms'[n] \in Seq(Term) /\ applied'[n] \in Seq(Command)
      BY <1>0, <2>2, <3>1, AppendProperties DEF LogAppends
    <3>4. command_log'[n] \in Seq(Line)
      <4>1. [index |-> e.index, command |-> e.command] \in Line
        BY <3>1
      <4> HIDE DEF Line
      <4> QED
        BY <1>0, <2>2, <4>1, AppendProperties DEF LogAppends
    <3>5. disk'[n] \in Disk
      <4>1. disk[n] \in Disk
        BY <1>0
      <4> QED
        BY <2>2, <4>1, DiskWrites DEF LogAppends
    <3> QED
      BY <3>2, <3>3, <3>4, <3>5
  <2>3. ASSUME NEW m \in wire, LogInstalls(n, m)
        PROVE  /\ last_index'[n] \in 0..MaxIndex
               /\ log_terms'[n] \in Seq(Term)
               /\ command_log'[n] \in Seq(Line)
               /\ applied'[n] \in Seq(Command)
               /\ disk'[n] \in Disk
    <3>1. /\ m.type = "SnapshotResponse"
          /\ m.term \in Term /\ m.last_index \in 0..MaxIndex /\ m.snapshot \in Seq(Command)
      BY <2>3, SnapshotFrame DEF LogInstalls, Typed
    <3>2. FilledTerms(n, m) \in [1..m.last_index -> Term] /\ m.last_index \in Nat
      BY <3>1, EngineBoundAssumption DEF FilledTerms
    <3>3. FilledTerms(n, m) \in Seq(Term)
      BY <3>2
    <3>4. InstallSnapshot(disk[n], m) \in Disk
      BY <1>0, <3>1, InstalledDisk DEF Typed
    <3> QED
      BY <1>0, <2>3, <3>1, <3>3, <3>4 DEF LogInstalls
  <2>4. ASSUME NEW d \in Disk, LogRestarts(n, d)
        PROVE  /\ last_index'[n] \in 0..MaxIndex
               /\ log_terms'[n] \in Seq(Term)
               /\ command_log'[n] \in Seq(Line)
               /\ applied'[n] \in Seq(Command)
               /\ disk'[n] \in Disk
    <3>1. /\ LoadLogEntries(d.journal, Cutoff(d)) \in Seq(Entry)
          /\ ReplayedState(d) \in Seq(Command)
          /\ ReplayedTerms(d) \in Seq(Term)
          /\ ReplayedIndex(d) \in 0..MaxIndex
      BY ReplayTyped
    <3>2. command_log'[n] \in Seq(Line)
      BY <2>4, <3>1, LoadedColumns DEF LogRestarts
    <3> QED
      BY <2>4, <3>1, <3>2 DEF LogRestarts
  <2> HIDE DEF Line
  <2> QED
    BY <2>1, <2>2, <2>3, <2>4, LogEffects DEF LogEffect
<1> HIDE DEF Line
<1>2. LogFunctions
  BY LogEffects
<1>3. /\ last_index' \in [Node -> 0..MaxIndex]
      /\ log_terms' \in [Node -> Seq(Term)]
      /\ command_log' \in [Node -> Seq(Line)]
      /\ applied' \in [Node -> Seq(Command)]
      /\ disk' \in [Node -> Disk]
  BY <1>1, <1>2 DEF LogFunctions
<1> QED
  BY <1>3 DEF LogTyped, Line

\* The steps that do not touch the election state.
LEMMA StillElection ==
    ASSUME NEW k \in Node,
           \/ \E c \in Command : Submit(k, c)
           \/ \E w \in waiting[k] : SubmitAcked(k, w) \/ SubmitTimeout(k, w)
           \/ Replay(k)
           \/ \E m \in wire : ReceiveAck(k, m) \/ ReceiveNack(k, m)
           \/ \E f \in Node : SendSnapshot(k, f)
    PROVE  UNCHANGED electionVars
<1>1. ASSUME NEW c \in Command, Submit(k, c) PROVE UNCHANGED electionVars
  BY <1>1 DEF Submit
<1>2. ASSUME NEW w \in waiting[k], SubmitAcked(k, w) \/ SubmitTimeout(k, w)
      PROVE  UNCHANGED electionVars
  BY <1>2 DEF SubmitAcked, SubmitTimeout, EndSubmit
<1>3. Replay(k) => UNCHANGED electionVars
  BY DEF Replay
<1>4. ASSUME NEW m \in wire, ReceiveAck(k, m) \/ ReceiveNack(k, m)
      PROVE  UNCHANGED electionVars
  BY <1>4 DEF ReceiveAck, ReceiveNack
<1>5. ASSUME NEW f \in Node, SendSnapshot(k, f) PROVE UNCHANGED electionVars
  BY <1>5 DEF SendSnapshot
<1> QED
  BY <1>1, <1>2, <1>3, <1>4, <1>5

\* The steps of RaftElection that the engine takes as they are.
Handles(k) ==
    \/ TickLeader(k)
    \/ \E m \in msgs :
          ReceiveVoteRequest(k, m) \/ ReceiveHeartbeat(k, m) \/ ReceiveVoteResponse(k, m)

\* To the election state a step is one of those, an election armed without a
\* pre-vote, a command or a snapshot that brings its term, or a restart.
LEMMA ElectionEffect ==
    ASSUME Typed, [EngineNext]_engineVars
    PROVE  \/ UNCHANGED electionVars
           \/ \E k \in Node : Handles(k)
           \/ \E k \in Node : Arm(k)
           \/ \E k \in Node : \E m \in wire : ReceiveCommand(k, m) \/ ReceiveSnapshot(k, m)
           \/ \E k \in Node : \E d \in Disk : Restart(k, d)
<1>1. ASSUME NEW k \in Node, LeaderHeartbeat(k) PROVE Handles(k)
  BY <1>1 DEF LeaderHeartbeat, Handles
<1>2. ASSUME NEW k \in Node, NEW m \in msgs,
             DeliverElectionFrame(k, m) \/ DeliverVoteResponse(k, m)
      PROVE  Handles(k)
  BY <1>2 DEF DeliverElectionFrame, DeliverVoteResponse, Handles
<1>3. CASE UNCHANGED engineVars
  BY <1>3 DEF engineVars
<1> QED
  BY <1>1, <1>2, <1>3, StillElection, CrashDisk
     DEF EngineNext, ElectionStep, LogStep, SnapshotStep

LEMMA HandlesIsNext ==
    ASSUME NEW k \in Node, Handles(k)
    PROVE  Next
BY DEF Handles, Next, Receive

\* All that a command does to the election state is to raise the term.
LEMMA CommandRaisesTerm ==
    ASSUME Typed, NEW k \in Node, NEW m \in wire, ReceiveCommand(k, m)
    PROVE  /\ m.term \in Term
           /\ current_term' = [current_term EXCEPT ![k] = IF m.term < current_term[k]
                                                          THEN current_term[k] ELSE m.term]
           /\ timer_expired' \in [Node -> BOOLEAN]
           /\ UNCHANGED <<role, voted_for, election_term, votes_received, won, msgs,
                          pre_vote_round_id, pre_votes_received, pre_vote_in_flight>>
<1>1. m.term \in Term
  BY CommandFrame DEF ReceiveCommand, Typed
<1>2. timer_expired' \in [Node -> BOOLEAN]
  <2>1. timer_expired \in [Node -> BOOLEAN]
    BY DEF Typed, ElectionTyped, TypeOK
  <2>2. ResetTimer(k) \/ UNCHANGED timer_expired
    BY DEF ReceiveCommand
  <2> QED
    BY <2>1, <2>2 DEF ResetTimer
<1> QED
  BY <1>1, <1>2 DEF ReceiveCommand, voteVars, preVoteVars

LEMMA ElectionTypedStep ==
    ASSUME Typed, [EngineNext]_engineVars
    PROVE  ElectionTyped'
<1> USE BoundAssumption
<1>0. ElectionTyped /\ WireTyped
  BY DEF Typed
<1> USE DEF ElectionTyped
<1>1. CASE UNCHANGED electionVars
  <2>1. UNCHANGED <<current_term, role, voted_for, election_term, votes_received, won,
                    pre_vote_round_id, pre_votes_received, pre_vote_in_flight,
                    timer_expired, msgs>>
    BY <1>1 DEF electionVars, termVars, voteVars, preVoteVars
  <2> QED
    BY <1>0, <2>1 DEF TypeOK
<1>2. ASSUME NEW k \in Node, Handles(k) PROVE ElectionTyped'
  <2>1. TypeOK'
    BY <1>0, <1>2, HandlesIsNext, TypeStep
  <2>2. role \in [Node -> Role]
    BY <1>0 DEF TypeOK
  <2>3. CASE TickLeader(k)
    <3>1. Heartbeat(k, current_term[k]).term = current_term[k]
      BY DEF Heartbeat
    <3> QED
      BY <1>0, <2>1, <2>3, <3>1 DEF TickLeader, termVars
  <2>4. ASSUME NEW m \in msgs, ReceiveVoteRequest(k, m) PROVE ElectionTyped'
    <3>1. m.term \in Nat /\ m.term <= MaxTerm
      BY <1>0, <2>4 DEF ReceiveVoteRequest, TypeOK, Message
    <3>2. VoteResponse(k, m.from, m.term).term = m.term
      BY DEF VoteResponse
    <3>3. current_term' \in [Node -> 0..MaxTerm]
      BY <1>0, <2>4, <3>1 DEF ReceiveVoteRequest
    <3>4. \A x \in msgs' : x.term <= MaxTerm
      BY <1>0, <2>4, <3>1, <3>2 DEF ReceiveVoteRequest
    <3>5. \A n \in Node : role'[n] # "Follower" => current_term'[n] >= 1
      BY <1>0, <2>2, <2>4, <3>1 DEF ReceiveVoteRequest
    <3> QED
      BY <2>1, <3>3, <3>4, <3>5
  <2>5. ASSUME NEW m \in msgs, ReceiveHeartbeat(k, m) PROVE ElectionTyped'
    <3>1. m.term \in Nat /\ m.term <= MaxTerm
      BY <1>0, <2>5 DEF ReceiveHeartbeat, TypeOK, Message
    <3> QED
      BY <1>0, <2>1, <2>2, <2>5, <3>1 DEF ReceiveHeartbeat
  <2>6. ASSUME NEW m \in msgs, ReceiveVoteResponse(k, m) PROVE ElectionTyped'
    BY <1>0, <2>1, <2>2, <2>6 DEF ReceiveVoteResponse
  <2> QED
    BY <1>2, <2>3, <2>4, <2>5, <2>6 DEF Handles
<1>3. ASSUME NEW k \in Node, Arm(k) PROVE ElectionTyped'
  <2>1. VoteRequest(k, current_term[k] + 1) \in Message
        /\ VoteRequest(k, current_term[k] + 1).term = current_term[k] + 1
    BY <1>0 DEF VoteRequest, Message, TypeOK
  <2> QED
    BY <1>0, <1>3, <2>1 DEF Arm, ArmElection, TypeOK, Role, preVoteVars
<1>4. ASSUME NEW k \in Node, NEW m \in wire, ReceiveCommand(k, m) PROVE ElectionTyped'
  BY <1>0, <1>4, CommandRaisesTerm DEF TypeOK, Term
<1>5. ASSUME NEW k \in Node, NEW m \in wire, ReceiveSnapshot(k, m) PROVE ElectionTyped'
  <2>1. m.term \in Term
    BY <1>0, <1>5, SnapshotFrame DEF ReceiveSnapshot
  <2> QED
    BY <1>0, <1>5, <2>1
       DEF ReceiveSnapshot, TypeOK, Term, ResetTimer, voteVars, preVoteVars
<1>6. ASSUME NEW k \in Node, NEW d \in Disk, Restart(k, d) PROVE ElectionTyped'
  <2>1. d.term \in 0..MaxTerm
    BY DEF Disk
  <2> QED
    BY <1>0, <1>6, <2>1 DEF Restart, TypeOK, Role, preVoteVars
<1> HIDE DEF ElectionTyped
<1> QED
  BY <1>1, <1>2, <1>3, <1>4, <1>5, <1>6, ElectionEffect

\* The operations on a map of tallies.
LEMMA TallyOps ==
    ASSUME NEW p \in Tally, NEW i \in Index, NEW f \in Node
    PROVE  /\ DOMAIN p \subseteq Index
           /\ \A j \in DOMAIN p : p[j] \subseteq Node
           /\ NoAcks \in Tally
           /\ OpenAcks(p, i) \in Tally
           /\ CloseAcks(p, i) \in Tally
           /\ [j \in DOMAIN p |-> IF j = i THEN p[j] \cup {f} ELSE p[j]] \in Tally
<1>1. ASSUME NEW D \in SUBSET Index, NEW q \in [D -> SUBSET Node] PROVE q \in Tally
  BY DEF Tally
<1>2. p \in [DOMAIN p -> SUBSET Node] /\ DOMAIN p \in SUBSET Index
  BY DEF Tally
<1>3. NoAcks \in [{} -> SUBSET Node]
  BY DEF NoAcks
<1>4. OpenAcks(p, i) \in [DOMAIN p \cup {i} -> SUBSET Node]
  BY <1>2 DEF OpenAcks
<1>5. CloseAcks(p, i) \in [DOMAIN p \ {i} -> SUBSET Node]
  BY <1>2 DEF CloseAcks
<1>6. [j \in DOMAIN p |-> IF j = i THEN p[j] \cup {f} ELSE p[j]] \in [DOMAIN p -> SUBSET Node]
  BY <1>2
<1> QED
  BY <1>1, <1>2, <1>3, <1>4, <1>5, <1>6

\* A ReplicateAck on the wire.
LEMMA AckFrame ==
    ASSUME WireTyped, NEW m \in wire, m.type = "ReplicateAck"
    PROVE  /\ m.from \in Node /\ m.to \in Node /\ m.index \in Index
           /\ m.success \in BOOLEAN /\ m.hint \in 0..MaxIndex /\ m.for \in Term
BY DEF WireTyped, Frame

\* A refusal never moves the next index out of range.
LEMMA BackOffTyped ==
    ASSUME NEW e \in 1..(MaxIndex + 1), NEW h \in 0..MaxIndex
    PROVE  BackOff(e, h) \in 1..(MaxIndex + 1)
BY EngineBoundAssumption DEF BackOff

LEMMA LeaderTypedStep ==
    ASSUME Typed, [EngineNext]_engineVars
    PROVE  LeaderTyped'
<1> USE EngineBoundAssumption
<1>0. LeaderTyped /\ WireTyped /\ last_index \in [Node -> 0..MaxIndex]
  BY DEF Typed, LogTyped
<1> USE DEF LeaderTyped
<1>1. CASE UNCHANGED leaderVars
  BY <1>0, <1>1 DEF leaderVars
<1>2. ASSUME NEW k \in Node, NEW m \in msgs, DeliverVoteResponse(k, m) PROVE LeaderTyped'
  <2>1. [f \in Node |-> last_index[k] + 1] \in [Node -> 1..(MaxIndex + 1)]
    BY <1>0
  <2>2. [f \in Node |-> 0] \in [Node -> 0..MaxIndex]
    OBVIOUS
  <2>3. UNCHANGED <<pending_acks, waiting, acked>>
    BY <1>2 DEF DeliverVoteResponse
  <2>4. ResetReplicationState(k) \/ UNCHANGED <<next_index, match_index>>
    BY <1>2 DEF DeliverVoteResponse
  <2> QED
    BY <1>0, <2>1, <2>2, <2>3, <2>4 DEF ResetReplicationState
<1>3. ASSUME NEW k \in Node, NEW c \in Command, Submit(k, c) PROVE LeaderTyped'
  <2>1. current_term[k] \in Term
    BY <1>3, BoundAssumption DEF Submit, Typed, ElectionTyped, Term
  <2>2. last_index[k] + 1 \in Index
    BY <1>3 DEF Submit
  <2>3. OpenAcks(pending_acks[k], last_index[k] + 1) \in Tally
    BY <1>0, <2>2, TallyOps
  <2>4. waiting' \in [Node -> SUBSET (Index \X Term)]
    BY <1>0, <1>3, <2>1, <2>2 DEF Submit
  <2>5. pending_acks' \in [Node -> Tally]
    BY <1>0, <1>3, <2>3 DEF Submit
  <2> QED
    BY <1>0, <1>3, <2>4, <2>5 DEF Submit
<1>4. ASSUME NEW k \in Node, NEW w \in waiting[k], EndSubmit(k, w)
      PROVE  /\ waiting' \in [Node -> SUBSET (Index \X Term)]
             /\ pending_acks' \in [Node -> Tally]
             /\ UNCHANGED <<next_index, match_index>>
             /\ w[1] \in Index /\ w[2] \in Term
  <2>1. w[1] \in Index /\ w[2] \in Term
    BY <1>0
  <2>2. CloseAcks(pending_acks[k], w[1]) \in Tally
    BY <1>0, <2>1, TallyOps
  <2> QED
    BY <1>0, <1>4, <2>1, <2>2 DEF EndSubmit
<1>5. ASSUME NEW k \in Node, NEW w \in waiting[k], SubmitAcked(k, w) \/ SubmitTimeout(k, w)
      PROVE  LeaderTyped'
  <2>1. EndSubmit(k, w)
    BY <1>5 DEF SubmitAcked, SubmitTimeout
  <2>2. /\ waiting' \in [Node -> SUBSET (Index \X Term)]
        /\ pending_acks' \in [Node -> Tally]
        /\ UNCHANGED <<next_index, match_index>>
        /\ w[1] \in Index /\ w[2] \in Term
    BY <1>4, <2>1
  <2>3. acked' \subseteq [index : Index, term : Term]
    BY <1>0, <1>5, <2>2 DEF SubmitAcked, SubmitTimeout
  <2> QED
    BY <1>0, <2>2, <2>3
<1>6. ASSUME NEW k \in Node, NEW m \in wire, ReceiveAck(k, m) PROVE LeaderTyped'
  <2>1. m.from \in Node /\ m.index \in Index
    BY <1>0, <1>6, AckFrame DEF ReceiveAck
  <2>2. [i \in DOMAIN pending_acks[k] |->
            IF i = m.index THEN pending_acks[k][i] \cup {m.from} ELSE pending_acks[k][i]]
           \in Tally
    BY <1>0, <2>1, TallyOps
  <2>3. pending_acks' \in [Node -> Tally]
    BY <1>0, <1>6, <2>2 DEF ReceiveAck
  <2>4. m.index \in 0..MaxIndex /\ m.index + 1 \in 1..(MaxIndex + 1)
    BY <2>1 DEF Index
  <2>5. match_index' \in [Node -> [Node -> 0..MaxIndex]]
    BY <1>0, <1>6, <2>1, <2>4 DEF ReceiveAck
  <2>6. next_index' \in [Node -> [Node -> 1..(MaxIndex + 1)]]
    BY <1>0, <1>6, <2>1, <2>4 DEF ReceiveAck
  <2> QED
    BY <1>0, <1>6, <2>3, <2>5, <2>6 DEF ReceiveAck
<1>7. ASSUME NEW k \in Node, NEW m \in wire, ReceiveNack(k, m) PROVE LeaderTyped'
  <2>1. m.from \in Node /\ m.hint \in 0..MaxIndex
    BY <1>0, <1>7, AckFrame DEF ReceiveNack
  <2>2. BackOff(next_index[k][m.from], m.hint) \in 1..(MaxIndex + 1)
    BY <1>0, <2>1, BackOffTyped
  <2> QED
    BY <1>0, <1>7, <2>1, <2>2 DEF ReceiveNack
<1>8. ASSUME NEW k \in Node, NEW d \in Disk, Restart(k, d) PROVE LeaderTyped'
  <2>1. NoAcks \in Tally
    <3>1. NoAcks \in [{} -> SUBSET Node]
      BY DEF NoAcks
    <3> QED
      BY <3>1 DEF Tally
  <2>2. [f \in Node |-> 1] \in [Node -> 1..(MaxIndex + 1)]
        /\ [f \in Node |-> 0] \in [Node -> 0..MaxIndex]
    OBVIOUS
  <2> QED
    BY <1>0, <1>8, <2>1, <2>2 DEF Restart
<1> HIDE DEF LeaderTyped
<1>9. ASSUME NEW k \in Node, Arm(k) \/ LeaderHeartbeat(k) PROVE LeaderTyped'
  BY <1>1, <1>9 DEF Arm, LeaderHeartbeat
<1>10. ASSUME NEW k \in Node, NEW m \in msgs, DeliverElectionFrame(k, m) PROVE LeaderTyped'
  BY <1>1, <1>10 DEF DeliverElectionFrame
<1>11. ASSUME NEW k \in Node, Replay(k) \/ \E f \in Node : SendSnapshot(k, f)
       PROVE  LeaderTyped'
  BY <1>1, <1>11 DEF Replay, SendSnapshot
<1>12. ASSUME NEW k \in Node, NEW m \in wire, ReceiveCommand(k, m) \/ ReceiveSnapshot(k, m)
       PROVE  LeaderTyped'
  BY <1>1, <1>12 DEF ReceiveCommand, ReceiveSnapshot
<1>13. ASSUME NEW k \in Node, CrashStep(k) PROVE LeaderTyped'
  BY <1>8, <1>13, CrashDisk
<1>14. CASE UNCHANGED engineVars
  BY <1>1, <1>14 DEF engineVars
<1> QED
  BY <1>2, <1>3, <1>5, <1>6, <1>7, <1>9, <1>10, <1>11, <1>12, <1>13, <1>14
     DEF EngineNext, ElectionStep, LogStep, SnapshotStep

\* receive_command's verdict.
Accepts(k, m) ==
    /\ ~(m.term < current_term[k])
    /\ Contiguous(k, m) \/ (m.index <= last_index[k] /\ ReplayMatches(k, m))

\* The log frames a step sends.
LEMMA NewFrames ==
    ASSUME [EngineNext]_engineVars, NEW x \in wire' \ wire
    PROVE  \/ \E k \in Node, f \in Node, c \in Command :
                 /\ Submit(k, c)
                 /\ x = ReplicateCommand(k, f, current_term[k], last_index[k] + 1, c)
           \/ \E k \in Node, f \in Node : \E e \in DOMAIN command_log[k] :
                 /\ Replay(k)
                 /\ command_log[k][e].index \in DOMAIN log_terms[k]
                 /\ x = ReplicateCommand(k, f, log_terms[k][command_log[k][e].index],
                                         command_log[k][e].index, command_log[k][e].command)
           \/ \E k \in Node, m \in wire : \E ok, hint :
                 /\ ReceiveCommand(k, m)
                 /\ ok = Accepts(k, m)
                 /\ hint \in {m.index, last_index[k]}
                 /\ x = ReplicateAck(k, m.from, m.index, ok, hint, m.term)
           \/ \E k \in Node, f \in Node :
                 /\ SendSnapshot(k, f)
                 /\ x = SnapshotResponse(k, f, last_index[k], current_term[k], applied[k])
<1>1. CASE wire' = wire
  BY <1>1
<1>2. ASSUME NEW k \in Node, NEW c \in Command, Submit(k, c)
      PROVE  \E f \in Node :
                x = ReplicateCommand(k, f, current_term[k], last_index[k] + 1, c)
  BY <1>2 DEF Submit, Peers
<1>3. ASSUME NEW k \in Node, Replay(k)
      PROVE  \E f \in Node : \E e \in DOMAIN command_log[k] :
                 /\ command_log[k][e].index \in DOMAIN log_terms[k]
                 /\ x = ReplicateCommand(k, f, log_terms[k][command_log[k][e].index],
                                         command_log[k][e].index, command_log[k][e].command)
  <2>1. PICK f \in Node : x \in ReplayBatch(k, f)
    BY <1>3 DEF Replay, Peers
  <2> QED
    BY <2>1 DEF ReplayBatch
<1>4. ASSUME NEW k \in Node, NEW m \in wire, ReceiveCommand(k, m)
      PROVE  \E ok, hint :
                 /\ ok = Accepts(k, m)
                 /\ hint \in {m.index, last_index[k]}
                 /\ x = ReplicateAck(k, m.from, m.index, ok, hint, m.term)
  BY <1>4 DEF ReceiveCommand, Accepts
<1>5. ASSUME NEW k \in Node, NEW f \in Node, SendSnapshot(k, f)
      PROVE  x = SnapshotResponse(k, f, last_index[k], current_term[k], applied[k])
  BY <1>5 DEF SendSnapshot
<1>6. ASSUME NEW k \in Node, ElectionStep(k) PROVE wire' = wire
  BY <1>6 DEF ElectionStep, Arm, LeaderHeartbeat, DeliverElectionFrame, DeliverVoteResponse
<1>7. ASSUME NEW k \in Node, NEW w \in waiting[k], SubmitAcked(k, w) \/ SubmitTimeout(k, w)
      PROVE  wire' = wire
  BY <1>7 DEF SubmitAcked, SubmitTimeout, EndSubmit
<1>8. ASSUME NEW k \in Node, NEW m \in wire,
             ReceiveAck(k, m) \/ ReceiveNack(k, m) \/ ReceiveSnapshot(k, m)
      PROVE  wire' = wire
  BY <1>8 DEF ReceiveAck, ReceiveNack, ReceiveSnapshot
<1>9. ASSUME NEW k \in Node, CrashStep(k) PROVE wire' = wire
  BY <1>9 DEF CrashStep, CrashRestart, CrashInAppend, Restart
<1>10. CASE UNCHANGED engineVars
  BY <1>1, <1>10 DEF engineVars
<1> QED
  BY <1>1, <1>2, <1>3, <1>4, <1>5, <1>6, <1>7, <1>8, <1>9, <1>10
     DEF EngineNext, LogStep, SnapshotStep

LEMMA WireTypedStep ==
    ASSUME Typed, [EngineNext]_engineVars
    PROVE  WireTyped'
<1>0. WireTyped /\ LogTyped /\ ElectionTyped
  BY DEF Typed
<1> USE BoundAssumption, EngineBoundAssumption
<1>1. ASSUME NEW x \in wire' \ wire PROVE x \in Frame
  <2>1. ASSUME NEW k \in Node, NEW f \in Node, NEW c \in Command, Submit(k, c),
               x = ReplicateCommand(k, f, current_term[k], last_index[k] + 1, c)
        PROVE  x \in Frame
    <3>1. current_term[k] \in Term /\ last_index[k] + 1 \in Index
      BY <1>0, <2>1 DEF Submit, ElectionTyped, Term
    <3> QED
      BY <2>1, <3>1 DEF ReplicateCommand, Frame
  <2>2. ASSUME NEW k \in Node, NEW f \in Node, NEW e \in DOMAIN command_log[k],
               command_log[k][e].index \in DOMAIN log_terms[k],
               x = ReplicateCommand(k, f, log_terms[k][command_log[k][e].index],
                                    command_log[k][e].index, command_log[k][e].command)
        PROVE  x \in Frame
    <3>1. command_log[k] \in Seq([index : Index, command : Command]) /\ log_terms[k] \in Seq(Term)
      BY <1>0 DEF LogTyped
    <3>2. command_log[k][e].index \in Index /\ command_log[k][e].command \in Command
      <4>1. command_log[k][e] \in [index : Index, command : Command]
        <5>1. e \in 1..Len(command_log[k])
          BY <3>1, LenProperties
        <5> QED
          BY <3>1, <5>1, ElementOfSeq
      <4> QED
        BY <4>1
    <3>3. log_terms[k][command_log[k][e].index] \in Term
      BY <2>2, <3>1, LenProperties
    <3> QED
      BY <2>2, <3>2, <3>3 DEF ReplicateCommand, Frame
  <2>3. ASSUME NEW k \in Node, NEW m \in wire, ReceiveCommand(k, m), NEW ok, NEW hint,
               ok = Accepts(k, m), hint \in {m.index, last_index[k]},
               x = ReplicateAck(k, m.from, m.index, ok, hint, m.term)
        PROVE  x \in Frame
    <3>1. m.from \in Node /\ m.index \in Index /\ m.term \in Term
      BY <1>0, <2>3, CommandFrame DEF ReceiveCommand
    <3>2. ok \in BOOLEAN
      BY <2>3 DEF Accepts
    <3>3. hint \in 0..MaxIndex
      BY <1>0, <2>3, <3>1 DEF LogTyped, Index
    <3> QED
      BY <2>3, <3>1, <3>2, <3>3 DEF ReplicateAck, Frame
  <2>4. ASSUME NEW k \in Node, NEW f \in Node, SendSnapshot(k, f),
               x = SnapshotResponse(k, f, last_index[k], current_term[k], applied[k])
        PROVE  x \in Frame
    <3>1. current_term[k] \in Term
      BY <1>0, <2>4 DEF SendSnapshot, ElectionTyped, Term
    <3>2. last_index[k] \in 0..MaxIndex /\ applied[k] \in Seq(Command)
      BY <1>0 DEF LogTyped
    <3> QED
      BY <2>4, <3>1, <3>2 DEF SnapshotResponse, Frame
  <2> QED
    BY <2>1, <2>2, <2>3, <2>4, NewFrames
<1>2. installs' \in Nat /\ crashes' \in Nat
  <2>1. ASSUME NEW k \in Node, CrashStep(k) PROVE installs' \in Nat /\ crashes' \in Nat
    BY <1>0, <2>1 DEF CrashStep, CrashRestart, CrashInAppend, Restart, WireTyped
  <2>2. ASSUME NEW k \in Node, NEW c \in Command, Submit(k, c)
        PROVE  installs' \in Nat /\ crashes' \in Nat
    BY <1>0, <2>2 DEF Submit, faultVars, WireTyped
  <2>3. ASSUME NEW k \in Node, NEW m \in wire, ReceiveCommand(k, m) \/ ReceiveSnapshot(k, m)
        PROVE  installs' \in Nat /\ crashes' \in Nat
    BY <1>0, <2>3 DEF ReceiveCommand, ReceiveSnapshot, faultVars, WireTyped
  <2>4. CASE UNCHANGED engineVars
    BY <1>0, <2>4 DEF engineVars, faultVars, WireTyped
  <2>5. UNCHANGED <<installs, crashes>> => installs' \in Nat /\ crashes' \in Nat
    BY <1>0 DEF WireTyped
  <2> QED
    BY <2>1, <2>2, <2>3, <2>4, <2>5, QuietSteps DEF EngineNext, LogStep, SnapshotStep
<1> QED
  BY <1>0, <1>1, <1>2 DEF WireTyped

-----------------------------------------------------------------------------
(* The log of a node without a snapshot only grows.                        *)

\* Appending the next line keeps a journal whole.
LEMMA WholeAppend ==
    ASSUME NEW j \in Seq(Entry), NEW i \in Nat, Whole(j, i), NEW e \in Entry, e.index = i + 1
    PROVE  /\ Whole(Append(j, e), i + 1)
           /\ \A k \in 1..i : Append(j, e)[k] = j[k]
           /\ Append(j, e)[i + 1] = e
<1>1. /\ Len(Append(j, e)) = Len(j) + 1
      /\ \A k \in 1..Len(j) : Append(j, e)[k] = j[k]
      /\ Append(j, e)[Len(j) + 1] = e
  BY AppendProperties
<1>2. Len(j) = i /\ \A k \in 1..i : j[k].index = k
  BY DEF Whole
<1>3. \A k \in 1..(i + 1) : Append(j, e)[k].index = k
  BY <1>1, <1>2
<1> QED
  BY <1>1, <1>2, <1>3 DEF Whole

Grows(n) ==
    /\ Len(log_terms[n]) <= Len(log_terms'[n])
    /\ \A k \in 1..Len(log_terms[n]) : log_terms'[n][k] = log_terms[n][k]

LEMMA LogsGrow ==
    ASSUME Typed, JournalInv, [EngineNext]_engineVars, NEW n \in Node, SnapshotFree(n)'
    PROVE  SnapshotFree(n) /\ Mirrors(n)' /\ Grows(n)
<1>0. /\ last_index[n] \in 0..MaxIndex /\ last_index[n] \in Nat
      /\ log_terms[n] \in Seq(Term) /\ applied[n] \in Seq(Command)
      /\ disk[n] \in Disk /\ disk[n].journal \in Seq(Entry)
  BY EngineBoundAssumption DEF Typed, LogTyped, Disk
<1>1. SnapshotFree(n) => Mirrors(n)
  BY DEF JournalInv
<1>2. CASE LogSame(n)
  <2>1. SnapshotFree(n)
    BY <1>2 DEF LogSame, SnapshotFree
  <2> QED
    BY <1>0, <1>1, <1>2, <2>1, LenProperties DEF LogSame, Mirrors, Grows
<1>3. ASSUME NEW e \in Entry, LogAppends(n, e)
      PROVE  SnapshotFree(n) /\ Mirrors(n)' /\ Grows(n)
  <2> DEFINE i == last_index[n]
  <2>1. /\ disk'[n].snapshot = disk[n].snapshot
        /\ disk'[n].journal = Append(disk[n].journal, e)
        /\ disk'[n].last_index = i + 1
        /\ last_index'[n] = i + 1 /\ e.index = i + 1
    <3> DEFINE a == AppendLogEntry(disk[n], e.index, e.term, e.command)
    <3>1. /\ a.snapshot = disk[n].snapshot
          /\ a.journal = Append(disk[n].journal, e)
          /\ a.last_index = e.index
      BY <1>0, DiskWrites
    <3>2. disk'[n] = a /\ e.index = i + 1 /\ last_index'[n] = e.index
      BY <1>3 DEF LogAppends
    <3> HIDE DEF a
    <3> QED
      BY <3>1, <3>2
  <2>2. SnapshotFree(n) /\ Mirrors(n)
    BY <1>1, <2>1 DEF SnapshotFree
  <2>3. e.term \in Term /\ e.command \in Command
    BY DEF Entry
  <2>4. /\ Whole(disk'[n].journal, i + 1)
        /\ \A k \in 1..i : disk'[n].journal[k] = disk[n].journal[k]
        /\ disk'[n].journal[i + 1] = e
    <3> DEFINE j == disk[n].journal
    <3>1. j \in Seq(Entry) /\ i \in Nat /\ Whole(j, i) /\ e.index = i + 1
      BY <1>0, <2>1, <2>2 DEF Mirrors
    <3>2. disk'[n].journal = Append(j, e)
      BY <2>1
    <3> HIDE DEF i, j
    <3>3. /\ Whole(Append(j, e), i + 1)
          /\ \A k \in 1..i : Append(j, e)[k] = j[k]
          /\ Append(j, e)[i + 1] = e
      BY <3>1, WholeAppend
    <3> QED
      BY <3>2, <3>3 DEF j
  <2>5. /\ Len(log_terms'[n]) = i + 1
        /\ \A k \in 1..i : log_terms'[n][k] = log_terms[n][k]
        /\ log_terms'[n][i + 1] = e.term
    BY <1>0, <1>3, <2>2, <2>3, AppendProperties DEF LogAppends, Mirrors
  <2>6. /\ Len(applied'[n]) = i + 1
        /\ \A k \in 1..i : applied'[n][k] = applied[n][k]
        /\ applied'[n][i + 1] = e.command
    BY <1>0, <1>3, <2>2, <2>3, AppendProperties DEF LogAppends, Mirrors
  <2>7. ASSUME NEW k \in 1..(i + 1)
        PROVE  /\ disk'[n].journal[k].term = log_terms'[n][k]
               /\ disk'[n].journal[k].command = applied'[n][k]
    <3>1. CASE k = i + 1
      BY <2>4, <2>5, <2>6, <3>1
    <3>2. CASE k # i + 1
      <4>1. k \in 1..i
        BY <1>0, <3>2
      <4> QED
        BY <2>2, <2>4, <2>5, <2>6, <4>1 DEF Mirrors
    <3> QED
      BY <3>1, <3>2
  <2>8. Mirrors(n)'
    <3>1. \A k \in 1..last_index'[n] : /\ disk'[n].journal[k].term = log_terms'[n][k]
                                       /\ disk'[n].journal[k].command = applied'[n][k]
      BY <2>1, <2>7
    <3>2. disk'[n].last_index <= last_index'[n]
      BY <1>0, <2>1
    <3>3. Whole(disk'[n].journal, last_index'[n])
      BY <2>1, <2>4
    <3>4. Len(log_terms'[n]) = last_index'[n] /\ Len(applied'[n]) = last_index'[n]
      BY <2>1, <2>5, <2>6
    <3> QED
      BY <3>1, <3>2, <3>3, <3>4 DEF Mirrors
  <2>9. Grows(n)
    BY <1>0, <2>2, <2>5 DEF Grows, Mirrors
  <2> QED
    BY <2>2, <2>8, <2>9
<1>4. ASSUME NEW m \in wire, LogInstalls(n, m) PROVE FALSE
  BY <1>0, <1>4, InstalledDisk DEF LogInstalls, SnapshotFree, Typed
<1>5. ASSUME NEW d \in Disk, LogRestarts(n, d)
      PROVE  SnapshotFree(n) /\ Mirrors(n)' /\ Grows(n)
  <2> DEFINE i == last_index[n]
  <2>1. disk'[n] = d /\ d.snapshot = NoSnapshot /\ d.last_index = disk[n].last_index
    BY <1>5 DEF LogRestarts, Reopens, SnapshotFree
  <2>2. SnapshotFree(n) /\ Mirrors(n)
    BY <1>1, <1>5, <2>1 DEF SnapshotFree, LogRestarts, Reopens
  <2>3. PICK x \in i..MaxIndex :
           /\ Whole(d.journal, x)
           /\ \A k \in 1..i : d.journal[k] = disk[n].journal[k]
    <3>1. CASE d.journal = disk[n].journal
      BY <1>0, <2>2, <3>1 DEF Mirrors
    <3>2. ASSUME NEW e \in Entry, e.index = last_index[n] + 1,
                 d.journal = Append(disk[n].journal, e)
          PROVE  \E x \in i..MaxIndex :
                     /\ Whole(d.journal, x)
                     /\ \A k \in 1..i : d.journal[k] = disk[n].journal[k]
      <4>1. i + 1 \in i..MaxIndex
        BY <1>0, <3>2 DEF Entry, Index
      <4>2. Whole(disk[n].journal, i)
        BY <2>2 DEF Mirrors
      <4>3. /\ Whole(d.journal, i + 1)
            /\ \A k \in 1..i : d.journal[k] = disk[n].journal[k]
        <5> DEFINE j == disk[n].journal
        <5>1. j \in Seq(Entry) /\ i \in Nat /\ Whole(j, i) /\ e.index = i + 1
          BY <1>0, <3>2, <4>2
        <5>2. d.journal = Append(j, e)
          BY <3>2
        <5> HIDE DEF i, j
        <5>3. Whole(Append(j, e), i + 1) /\ \A k \in 1..i : Append(j, e)[k] = j[k]
          BY <5>1, WholeAppend
        <5> QED
          BY <5>2, <5>3 DEF j
      <4> QED
        BY <4>1, <4>3
    <3> QED
      BY <1>5, <3>1, <3>2 DEF LogRestarts, Reopens
  <2>4. x \in 0..MaxIndex /\ d.last_index <= x
    BY <1>0, <2>1, <2>2 DEF Mirrors, Disk
  <2>5. /\ ReplayedIndex(d) = x
        /\ Len(ReplayedTerms(d)) = x
        /\ Len(ReplayedState(d)) = x
        /\ \A k \in 1..x : /\ ReplayedTerms(d)[k] = d.journal[k].term
                           /\ ReplayedState(d)[k] = d.journal[k].command
    BY <2>1, <2>3, <2>4, ReplayWhole
  <2>6. last_index'[n] = x /\ log_terms'[n] = ReplayedTerms(d) /\ applied'[n] = ReplayedState(d)
    BY <1>5, <2>5 DEF LogRestarts
  <2>7. Mirrors(n)'
    BY <2>1, <2>3, <2>4, <2>5, <2>6 DEF Mirrors
  <2>8. Grows(n)
    BY <1>0, <2>2, <2>3, <2>4, <2>5, <2>6 DEF Grows, Mirrors
  <2> QED
    BY <2>2, <2>7, <2>8
<1> QED
  BY <1>2, <1>3, <1>4, <1>5, LogEffects DEF LogEffect

\* Stores, after the step.
StoresNext(n, i, t) == i \in DOMAIN log_terms'[n] /\ log_terms'[n][i] = t

\* So what a node stores it stores from then on.
LEMMA StoresStay ==
    ASSUME Typed, JournalInv, [EngineNext]_engineVars, NEW n \in Node, SnapshotFree(n)',
           NEW i, NEW t, Stores(n, i, t)
    PROVE  SnapshotFree(n) /\ StoresNext(n, i, t)
<1>1. SnapshotFree(n) /\ Grows(n)
  BY LogsGrow
<1>2. log_terms[n] \in Seq(Term) /\ log_terms'[n] \in Seq(Term)
  BY LogTypedStep DEF Typed, LogTyped
<1>3. /\ DOMAIN log_terms[n] = 1..Len(log_terms[n]) /\ Len(log_terms[n]) \in Nat
      /\ DOMAIN log_terms'[n] = 1..Len(log_terms'[n]) /\ Len(log_terms'[n]) \in Nat
  BY <1>2, LenProperties
<1> QED
  BY <1>1, <1>3 DEF Grows, Stores, StoresNext

-----------------------------------------------------------------------------
(* Frames, counts and verdicts.                                            *)

\* An appended entry is stored.
LEMMA AppendStores ==
    ASSUME Typed, JournalInv, [EngineNext]_engineVars, NEW n \in Node, SnapshotFree(n)',
           NEW i, NEW t \in Term, NEW c, i = last_index[n] + 1, AppendEntry(n, i, t, c)
    PROVE  StoresNext(n, i, t)
<1>1. SnapshotFree(n) /\ Mirrors(n)
  BY LogsGrow DEF JournalInv
<1>2. log_terms[n] \in Seq(Term) /\ Len(log_terms[n]) = last_index[n]
  BY <1>1 DEF Typed, LogTyped, Mirrors
<1>3. log_terms'[n] = Append(log_terms[n], t)
  BY DEF AppendEntry, Typed, LogTyped
<1>4. /\ Append(log_terms[n], t) \in Seq(Term)
      /\ Len(Append(log_terms[n], t)) = i
      /\ Append(log_terms[n], t)[i] = t
  BY <1>2, AppendProperties
<1>5. DOMAIN log_terms'[n] = 1..i /\ log_terms'[n][i] = t
  BY <1>3, <1>4, LenProperties
<1>6. i \in 1..i
  <2>1. last_index[n] \in Nat
    BY EngineBoundAssumption DEF Typed, LogTyped
  <2> QED
    BY <2>1
<1> QED
  BY <1>5, <1>6 DEF StoresNext

LEMMA FrameStep ==
    ASSUME EngineInv, [EngineNext]_engineVars
    PROVE  FrameInv'
<1>0. Typed /\ JournalInv /\ FrameInv /\ WireTyped /\ LogTyped /\ ElectionTyped
  BY DEF EngineInv, Typed
<1>a. ASSUME NEW n \in Node, SnapshotFree(n)', NEW i, NEW t, SnapshotFree(n) => Stores(n, i, t)
      PROVE  StoresNext(n, i, t)
  BY <1>0, <1>a, LogsGrow, StoresStay
<1> DEFINE P(m) ==
        /\ m.type = "ReplicateCommand" /\ SnapshotFree(m.from)'
              => StoresNext(m.from, m.index, m.term)
        /\ m.type = "ReplicateAck" /\ m.success
              => /\ SnapshotFree(m.from)' => StoresNext(m.from, m.index, m.for)
                 /\ SnapshotFree(m.to)' => StoresNext(m.to, m.index, m.for)
<1>1. ASSUME NEW m \in wire PROVE P(m)
  <2>1. CASE m.type = "ReplicateCommand"
    <3>1. m.from \in Node /\ (SnapshotFree(m.from) => Stores(m.from, m.index, m.term))
      BY <1>0, <2>1, CommandFrame DEF FrameInv
    <3> QED
      BY <1>a, <2>1, <3>1
  <2>2. CASE m.type = "ReplicateAck" /\ m.success
    <3>1. /\ m.from \in Node /\ (SnapshotFree(m.from) => Stores(m.from, m.index, m.for))
          /\ m.to \in Node /\ (SnapshotFree(m.to) => Stores(m.to, m.index, m.for))
      BY <1>0, <2>2, AckFrame DEF FrameInv
    <3>2. SnapshotFree(m.from)' => StoresNext(m.from, m.index, m.for)
      BY <1>a, <3>1
    <3>3. SnapshotFree(m.to)' => StoresNext(m.to, m.index, m.for)
      BY <1>a, <3>1
    <3> QED
      BY <2>2, <3>2, <3>3
  <2> QED
    BY <2>1, <2>2
<1>2. ASSUME NEW x \in wire' \ wire PROVE P(x)
  <2>1. ASSUME NEW k \in Node, NEW f \in Node, NEW c \in Command, Submit(k, c),
               x = ReplicateCommand(k, f, current_term[k], last_index[k] + 1, c)
        PROVE  P(x)
    <3>1. /\ x.type = "ReplicateCommand" /\ x.from = k
          /\ x.index = last_index[k] + 1 /\ x.term = current_term[k]
      BY <2>1 DEF ReplicateCommand
    <3>2. current_term[k] \in Term
      BY <1>0, <2>1, BoundAssumption DEF Submit, ElectionTyped, Term
    <3>3. AppendEntry(k, last_index[k] + 1, current_term[k], c)
      BY <2>1 DEF Submit
    <3>4. SnapshotFree(k)' => StoresNext(k, last_index[k] + 1, current_term[k])
      BY <1>0, <3>2, <3>3, AppendStores
    <3> QED
      BY <3>1, <3>4
  <2>2. ASSUME NEW k \in Node, NEW f \in Node, NEW e \in DOMAIN command_log[k], Replay(k),
               command_log[k][e].index \in DOMAIN log_terms[k],
               x = ReplicateCommand(k, f, log_terms[k][command_log[k][e].index],
                                    command_log[k][e].index, command_log[k][e].command)
        PROVE  P(x)
    <3> DEFINE i == command_log[k][e].index
               t == log_terms[k][i]
    <3>1. x.type = "ReplicateCommand" /\ x.from = k /\ x.index = i /\ x.term = t
      BY <2>2 DEF ReplicateCommand
    <3>2. Stores(k, i, t)
      BY <2>2 DEF Stores
    <3> HIDE DEF i, t
    <3>3. SnapshotFree(k)' => StoresNext(k, i, t)
      BY <1>a, <3>2
    <3> QED
      BY <3>1, <3>3
  <2>3. ASSUME NEW k \in Node, NEW m \in wire, NEW ok, NEW hint, ReceiveCommand(k, m),
               ok = Accepts(k, m),
               x = ReplicateAck(k, m.from, m.index, ok, hint, m.term)
        PROVE  P(x)
    <3>1. /\ x.type = "ReplicateAck" /\ x.from = k /\ x.to = m.from
          /\ x.index = m.index /\ x.for = m.term /\ x.success = ok
      BY <2>3 DEF ReplicateAck
    <3>2. /\ m.type = "ReplicateCommand"
          /\ m.from \in Node /\ m.index \in Index /\ m.term \in Term
      BY <1>0, <2>3, CommandFrame DEF ReceiveCommand
    <3>3. SnapshotFree(m.from)' => StoresNext(m.from, m.index, m.term)
      BY <1>0, <1>a, <3>2 DEF FrameInv
    <3>4. ASSUME Accepts(k, m), SnapshotFree(k)' PROVE StoresNext(k, m.index, m.term)
      <4>1. CASE Contiguous(k, m)
        <5>1. AppendEntry(k, m.index, m.term, m.command)
          BY <2>3, <3>4, <4>1 DEF ReceiveCommand, Accepts
        <5>2. m.index = last_index[k] + 1
          BY <4>1 DEF Contiguous
        <5> QED
          BY <1>0, <3>2, <3>4, <5>1, <5>2, AppendStores
      <4>2. CASE ~Contiguous(k, m)
        <5>1. SnapshotFree(k) /\ Mirrors(k)
          BY <1>0, <3>4, LogsGrow DEF JournalInv
        <5>2. m.index <= last_index[k] /\ ReplayMatches(k, m)
          BY <3>4, <4>2 DEF Accepts
        <5>3. /\ log_terms[k] \in Seq(Term)
              /\ Len(log_terms[k]) = last_index[k] /\ last_index[k] \in Nat
          BY <1>0, <5>1, EngineBoundAssumption DEF LogTyped, Mirrors
        <5>4. m.index \in 1..Len(log_terms[k])
          BY <3>2, <5>2, <5>3 DEF Index
        <5>5. log_terms[k][m.index] \in Term /\ m.index \in DOMAIN log_terms[k]
          BY <5>3, <5>4, LenProperties
        <5>6. log_terms[k][m.index] \in {m.term, 0}
          BY <5>2, <5>3, <5>4 DEF ReplayMatches
        <5>7. log_terms[k][m.index] = m.term
          BY <5>5, <5>6, BoundAssumption DEF Term
        <5>8. Stores(k, m.index, m.term)
          BY <5>5, <5>7 DEF Stores
        <5> QED
          BY <1>a, <3>4, <5>8
      <4> QED
        BY <4>1, <4>2
    <3> QED
      BY <2>3, <3>1, <3>3, <3>4
  <2>4. ASSUME NEW k \in Node, NEW f \in Node,
               x = SnapshotResponse(k, f, last_index[k], current_term[k], applied[k])
        PROVE  P(x)
    BY <2>4 DEF SnapshotResponse
  <2> HIDE DEF P
  <2> QED
    BY <2>1, <2>2, <2>3, <2>4, NewFrames
<1>3. \A m \in wire' : P(m)
  <2> HIDE DEF P
  <2> QED
    BY <1>1, <1>2
<1> QED
  BY <1>3 DEF FrameInv, Stores, StoresNext

\* m tells n that f has the entry i.
Acks(m, n, f, i) ==
    /\ m.type = "ReplicateAck" /\ m.success
    /\ m.to = n /\ m.from = f /\ m.index = i

\* What n counts for f changes by an ack of f or is reset.
CountEffect(n, f) ==
    /\ \/ match_index'[n][f] \in {match_index[n][f], 0}
       \/ \E m \in wire : Acks(m, n, f, match_index'[n][f])
    /\ \A i \in DOMAIN pending_acks'[n] : f \in pending_acks'[n][i] =>
          \/ i \in DOMAIN pending_acks[n] /\ f \in pending_acks[n][i]
          \/ \E m \in wire : Acks(m, n, f, i)

LEMMA CountEffects ==
    ASSUME Typed, [EngineNext]_engineVars, NEW n \in Node, NEW f \in Node
    PROVE  CountEffect(n, f)
<1>0. LeaderTyped /\ WireTyped
  BY DEF Typed
<1>1. CASE UNCHANGED <<match_index, pending_acks>>
  BY <1>1 DEF CountEffect
<1>2. ASSUME NEW k \in Node, NEW m \in msgs, DeliverVoteResponse(k, m) PROVE CountEffect(n, f)
  <2>1. pending_acks' = pending_acks
    BY <1>2 DEF DeliverVoteResponse
  <2>2. ResetReplicationState(k) \/ match_index' = match_index
    BY <1>2 DEF DeliverVoteResponse
  <2>3. match_index'[n][f] \in {match_index[n][f], 0}
    BY <1>0, <2>2 DEF ResetReplicationState, LeaderTyped
  <2> QED
    BY <2>1, <2>3 DEF CountEffect
<1>3. ASSUME NEW k \in Node, NEW c \in Command, Submit(k, c) PROVE CountEffect(n, f)
  BY <1>0, <1>3 DEF Submit, OpenAcks, LeaderTyped, CountEffect
<1>4. ASSUME NEW k \in Node, NEW w \in waiting[k], SubmitAcked(k, w) \/ SubmitTimeout(k, w)
      PROVE  CountEffect(n, f)
  <2>1. /\ pending_acks' = [pending_acks EXCEPT ![k] = CloseAcks(pending_acks[k], w[1])]
        /\ UNCHANGED match_index
    BY <1>4 DEF SubmitAcked, SubmitTimeout, EndSubmit
  <2> QED
    BY <1>0, <2>1 DEF CloseAcks, LeaderTyped, CountEffect
<1>5. ASSUME NEW k \in Node, NEW m \in wire, ReceiveAck(k, m) PROVE CountEffect(n, f)
  <2>1. m.from \in Node /\ m.type = "ReplicateAck" /\ m.success /\ m.to = k
    BY <1>0, <1>5, AckFrame DEF ReceiveAck
  <2>2. \/ match_index'[n][f] = match_index[n][f]
        \/ n = k /\ f = m.from /\ match_index'[n][f] = m.index
    BY <1>0, <1>5, <2>1 DEF ReceiveAck, LeaderTyped
  <2>3. ASSUME NEW i \in DOMAIN pending_acks'[n], f \in pending_acks'[n][i]
        PROVE  \/ i \in DOMAIN pending_acks[n] /\ f \in pending_acks[n][i]
               \/ n = k /\ f = m.from /\ i = m.index
    BY <1>0, <1>5, <2>3 DEF ReceiveAck, LeaderTyped
  <2> QED
    BY <2>1, <2>2, <2>3 DEF CountEffect, Acks
<1>6. ASSUME NEW k \in Node, NEW d \in Disk, Restart(k, d) PROVE CountEffect(n, f)
  BY <1>0, <1>6 DEF Restart, NoAcks, LeaderTyped, CountEffect
<1>7. ASSUME NEW k \in Node, Arm(k) \/ LeaderHeartbeat(k) \/ Replay(k)
      PROVE  UNCHANGED <<match_index, pending_acks>>
  BY <1>7 DEF Arm, LeaderHeartbeat, Replay, leaderVars
<1>8. ASSUME NEW k \in Node, NEW m \in msgs, DeliverElectionFrame(k, m)
      PROVE  UNCHANGED <<match_index, pending_acks>>
  BY <1>8 DEF DeliverElectionFrame, leaderVars
<1>9. ASSUME NEW k \in Node, NEW m \in wire,
             ReceiveCommand(k, m) \/ ReceiveNack(k, m) \/ ReceiveSnapshot(k, m)
      PROVE  UNCHANGED <<match_index, pending_acks>>
  BY <1>9 DEF ReceiveCommand, ReceiveNack, ReceiveSnapshot, leaderVars
<1>10. ASSUME NEW k \in Node, NEW g \in Node, SendSnapshot(k, g)
       PROVE  UNCHANGED <<match_index, pending_acks>>
  BY <1>10 DEF SendSnapshot, leaderVars
<1>11. CASE UNCHANGED engineVars
  BY <1>1, <1>11 DEF engineVars, leaderVars
<1>12. ASSUME NEW k \in Node, CrashStep(k) PROVE CountEffect(n, f)
  BY <1>6, <1>12, CrashDisk
<1> QED
  BY <1>1, <1>2, <1>3, <1>4, <1>5, <1>7, <1>8, <1>9, <1>10, <1>11, <1>12
     DEF EngineNext, ElectionStep, LogStep, SnapshotStep

LEMMA CountStep ==
    ASSUME EngineInv, [EngineNext]_engineVars
    PROVE  CountInv'
<1>0. Typed /\ JournalInv /\ FrameInv /\ CountInv /\ WireTyped /\ LeaderTyped
  BY DEF EngineInv, Typed
<1> SUFFICES ASSUME NEW n \in Node, NEW f \in Node, SnapshotFree(n)', SnapshotFree(f)'
             PROVE  /\ match_index'[n][f] > 0 => Shared(n, f, match_index[n][f])'
                    /\ \A i \in DOMAIN pending_acks'[n] :
                          f \in pending_acks'[n][i] => Shared(n, f, i)'
  BY DEF CountInv
<1>1. SnapshotFree(n) /\ SnapshotFree(f)
  BY <1>0, LogsGrow
<1>2. ASSUME NEW i, NEW t \in Term, Stores(n, i, t), Stores(f, i, t)
      PROVE  \E u \in Term : StoresNext(n, i, u) /\ StoresNext(f, i, u)
  BY <1>0, <1>2, StoresStay
<1>3. ASSUME NEW m \in wire, NEW i, Acks(m, n, f, i)
      PROVE  \E u \in Term : StoresNext(n, i, u) /\ StoresNext(f, i, u)
  <2>1. m.for \in Term
    BY <1>0, <1>3, AckFrame DEF Acks
  <2>2. Stores(n, i, m.for) /\ Stores(f, i, m.for)
    BY <1>0, <1>1, <1>3 DEF FrameInv, Acks
  <2> QED
    BY <1>2, <2>1, <2>2
<1>4. CountEffect(n, f)
  BY <1>0, CountEffects
<1>5. ASSUME match_index'[n][f] > 0
      PROVE  \E u \in Term :
                StoresNext(n, match_index'[n][f], u) /\ StoresNext(f, match_index'[n][f], u)
  <2>1. CASE match_index'[n][f] = match_index[n][f]
    <3>1. Shared(n, f, match_index[n][f])
      BY <1>0, <1>1, <1>5, <2>1 DEF CountInv
    <3> QED
      BY <1>2, <2>1, <3>1 DEF Shared
  <2>2. CASE \E m \in wire : Acks(m, n, f, match_index'[n][f])
    BY <1>3, <2>2
  <2> QED
    BY <1>4, <1>5, <2>1, <2>2 DEF CountEffect
<1>6. ASSUME NEW i \in DOMAIN pending_acks'[n], f \in pending_acks'[n][i]
      PROVE  \E u \in Term : StoresNext(n, i, u) /\ StoresNext(f, i, u)
  <2>1. CASE i \in DOMAIN pending_acks[n] /\ f \in pending_acks[n][i]
    BY <1>0, <1>1, <1>2, <2>1 DEF CountInv, Shared
  <2>2. CASE \E m \in wire : Acks(m, n, f, i)
    BY <1>3, <2>2
  <2> QED
    BY <1>4, <1>6, <2>1, <2>2 DEF CountEffect
<1> QED
  BY <1>5, <1>6 DEF Shared, Stores, StoresNext

\* The submits parked and the verdicts returned change by these steps only.
LEMMA WaitEffect ==
    ASSUME [EngineNext]_engineVars
    PROVE  \/ UNCHANGED <<waiting, acked>>
           \/ \E k \in Node : \E c \in Command : Submit(k, c)
           \/ \E k \in Node : \E w \in waiting[k] : SubmitAcked(k, w) \/ SubmitTimeout(k, w)
           \/ \E k \in Node : \E d : Restart(k, d)
<1>1. ASSUME NEW k \in Node, ElectionStep(k) PROVE UNCHANGED <<waiting, acked>>
  BY <1>1 DEF ElectionStep, Arm, LeaderHeartbeat, DeliverElectionFrame,
              DeliverVoteResponse, leaderVars
<1>2. ASSUME NEW k \in Node, Replay(k) PROVE UNCHANGED <<waiting, acked>>
  BY <1>2 DEF Replay, leaderVars
<1>3. ASSUME NEW k \in Node, NEW m \in wire,
             ReceiveCommand(k, m) \/ ReceiveAck(k, m) \/ ReceiveNack(k, m)
      PROVE  UNCHANGED <<waiting, acked>>
  BY <1>3 DEF ReceiveCommand, ReceiveAck, ReceiveNack, leaderVars
<1>4. ASSUME NEW k \in Node, SnapshotStep(k) PROVE UNCHANGED <<waiting, acked>>
  BY <1>4 DEF SnapshotStep, SendSnapshot, ReceiveSnapshot, leaderVars
<1>5. ASSUME NEW k \in Node, CrashStep(k) PROVE \E d : Restart(k, d)
  BY <1>5 DEF CrashStep, CrashRestart, CrashInAppend
<1>6. CASE UNCHANGED engineVars
  BY <1>6 DEF engineVars, leaderVars
<1> QED
  BY <1>1, <1>2, <1>3, <1>4, <1>5, <1>6 DEF EngineNext, LogStep

LEMMA WaitStep ==
    ASSUME EngineInv, [EngineNext]_engineVars
    PROVE  WaitInv'
<1>0. Typed /\ JournalInv /\ WaitInv /\ ElectionTyped /\ LeaderTyped
  BY DEF EngineInv, Typed
<1> SUFFICES ASSUME NEW n \in Node, NEW w \in waiting'[n], SnapshotFree(n)'
             PROVE  StoresNext(n, w[1], w[2])
  BY DEF WaitInv, Stores, StoresNext
<1>1. CASE w \in waiting[n]
  <2>1. SnapshotFree(n)
    BY <1>0, LogsGrow
  <2>2. Stores(n, w[1], w[2])
    BY <1>0, <1>1, <2>1 DEF WaitInv
  <2> QED
    BY <1>0, <2>2, StoresStay
<1>2. ASSUME NEW k \in Node, NEW c \in Command, Submit(k, c), w \notin waiting[n]
      PROVE  StoresNext(n, w[1], w[2])
  <2>1. k = n /\ w = <<last_index[n] + 1, current_term[n]>>
    BY <1>0, <1>2 DEF Submit, LeaderTyped
  <2>2. current_term[n] \in Term
    BY <1>0, <1>2, <2>1, BoundAssumption DEF Submit, ElectionTyped, Term
  <2>3. AppendEntry(n, last_index[n] + 1, current_term[n], c)
    BY <1>2, <2>1 DEF Submit
  <2>4. StoresNext(n, last_index[n] + 1, current_term[n])
    BY <1>0, <2>2, <2>3, AppendStores
  <2> QED
    BY <2>1, <2>4
<1>3. ASSUME NEW k \in Node, NEW v \in waiting[k], SubmitAcked(k, v) \/ SubmitTimeout(k, v)
      PROVE  w \in waiting[n]
  BY <1>0, <1>3 DEF SubmitAcked, SubmitTimeout, EndSubmit, LeaderTyped
<1>4. ASSUME NEW k \in Node, NEW d, Restart(k, d) PROVE w \in waiting[n]
  BY <1>0, <1>4 DEF Restart, LeaderTyped
<1> QED
  BY <1>1, <1>2, <1>3, <1>4, WaitEffect

LEMMA VerdictStep ==
    ASSUME EngineInv, [EngineNext]_engineVars
    PROVE  MajorityAckHolds'
<1>0. Typed /\ JournalInv /\ CountInv /\ WaitInv /\ MajorityAckHolds /\ LeaderTyped
  BY DEF EngineInv, Typed
<1> SUFFICES ASSUME NEW a \in acked', \A n \in Node : SnapshotFree(n)'
             PROVE  IsMajority({n \in Node : StoresNext(n, a.index, a.term)})
  BY DEF MajorityAckHolds, Stores, StoresNext
<1> DEFINE Now == {n \in Node : Stores(n, a.index, a.term)}
           After == {n \in Node : StoresNext(n, a.index, a.term)}
<1>1. \A n \in Node : SnapshotFree(n)
  BY <1>0, LogsGrow
<1>2. Now \subseteq After /\ After \subseteq Node
  BY <1>0, StoresStay
<1>3. SUFFICES IsMajority(Now)
  BY <1>2, <1>3, MajorityGrows
<1>4. CASE a \in acked
  BY <1>0, <1>1, <1>4 DEF MajorityAckHolds
<1>5. ASSUME NEW k \in Node, NEW w \in waiting[k], SubmitAcked(k, w), a \notin acked
      PROVE  IsMajority(Now)
  <2>1. a.index = w[1] /\ a.term = w[2]
    BY <1>5 DEF SubmitAcked
  <2>2. Stores(k, w[1], w[2])
    BY <1>0, <1>1 DEF WaitInv
  <2> DEFINE S == {k} \cup (IF w[1] \in DOMAIN pending_acks[k]
                            THEN pending_acks[k][w[1]] ELSE {})
  <2>3. IsMajority(S)
    BY <1>5 DEF SubmitAcked, AckMajority
  <2>4. ASSUME NEW f \in S PROVE f \in Now
    <3>1. CASE f = k
      BY <2>1, <2>2, <3>1
    <3>2. CASE w[1] \in DOMAIN pending_acks[k] /\ f \in pending_acks[k][w[1]]
      <4>1. f \in Node
        <5>1. pending_acks[k] \in Tally /\ w[1] \in Index
          BY <1>0 DEF LeaderTyped
        <5> QED
          BY <3>2, <5>1, TallyOps
      <4>2. PICK t \in Term : Stores(k, w[1], t) /\ Stores(f, w[1], t)
        BY <1>0, <1>1, <3>2, <4>1 DEF CountInv, Shared
      <4>3. t = w[2]
        BY <2>2, <4>2 DEF Stores
      <4> QED
        BY <2>1, <4>1, <4>2, <4>3
    <3> QED
      BY <3>1, <3>2
  <2> HIDE DEF S, Now
  <2>5. S \subseteq Now
    BY <2>4
  <2>6. Now \subseteq Node
    BY DEF Now
  <2> QED
    BY <2>3, <2>5, <2>6, MajorityGrows
<1>6. ASSUME NEW k \in Node, NEW c \in Command, Submit(k, c) PROVE acked' = acked
  BY <1>6 DEF Submit
<1>7. ASSUME NEW k \in Node, NEW w \in waiting[k], SubmitTimeout(k, w) PROVE acked' = acked
  BY <1>7 DEF SubmitTimeout
<1>8. ASSUME NEW k \in Node, NEW d, Restart(k, d) PROVE acked' = acked
  BY <1>8 DEF Restart
<1> HIDE DEF Now
<1> QED
  BY <1>4, <1>5, <1>6, <1>7, <1>8, WaitEffect

-----------------------------------------------------------------------------
(* One command per index, through one install and any crashes.             *)

LEMMA SpansAppend ==
    ASSUME NEW j \in Seq(Entry), NEW c \in Nat, NEW x \in 0..MaxIndex, Spans(j, c, x),
           c <= x, NEW e \in Entry, c < e.index, e.index <= x + 1
    PROVE  /\ (IF e.index > x THEN e.index ELSE x) \in x..MaxIndex
           /\ Spans(Append(j, e), c, IF e.index > x THEN e.index ELSE x)
<1> DEFINE y == IF e.index > x THEN e.index ELSE x
           a == Append(j, e)
<1>0. e.index \in 1..MaxIndex
  BY DEF Entry, Index
<1>1. y \in x..MaxIndex
  BY <1>0, EngineBoundAssumption
<1>2. /\ a \in Seq(Entry)
      /\ Len(a) = Len(j) + 1
      /\ \A k \in 1..Len(j) : a[k] = j[k]
      /\ a[Len(j) + 1] = e
  BY AppendProperties
<1>3. DOMAIN j = 1..Len(j) /\ Len(j) \in Nat
  BY LenProperties
<1> HIDE DEF a
<1>4. DOMAIN a = 1..(Len(j) + 1)
  BY <1>2, LenProperties
<1>5. ASSUME NEW i \in Index, i > c
      PROVE  (\E k \in DOMAIN a : a[k].index = i) <=> i <= y
  <2>1. (\E k \in DOMAIN a : a[k].index = i) <=> (\E k \in DOMAIN j : j[k].index = i) \/ e.index = i
    BY <1>2, <1>3, <1>4
  <2>2. (\E k \in DOMAIN j : j[k].index = i) <=> i <= x
    BY <1>5 DEF Spans
  <2>3. i <= y <=> (i <= x \/ e.index = i)
    BY <1>0, <1>5 DEF Index
  <2> QED
    BY <2>1, <2>2, <2>3
<1>6. Spans(a, c, y)
  BY <1>5 DEF Spans
<1> QED
  BY <1>1, <1>6 DEF a

LEMMA SpansLoad ==
    ASSUME NEW j \in Seq(Entry), NEW c \in Nat, NEW x \in 0..MaxIndex, Spans(j, c, x), c <= x
    PROVE  Spans(LoadLogEntries(j, c), c, x)
<1> DEFINE s == LoadLogEntries(j, c)
<1>1. s \in Seq(Entry) /\ Len(s) = x - c /\ \A i \in 1..(x - c) : s[i].index = c + i
  BY LoadSpans
<1> HIDE DEF s
<1>2. DOMAIN s = 1..(x - c)
  BY <1>1, LenProperties
<1>3. ASSUME NEW i \in Index, i > c
      PROVE  (\E k \in DOMAIN s : s[k].index = i) <=> i <= x
  <2>1. i \in Nat /\ x \in Nat
    BY EngineBoundAssumption DEF Index
  <2>2. ASSUME i <= x PROVE \E k \in DOMAIN s : s[k].index = i
    <3>1. i - c \in 1..(x - c) /\ c + (i - c) = i
      BY <1>3, <2>1, <2>2
    <3> QED
      BY <1>1, <1>2, <3>1
  <2>3. ASSUME NEW k \in DOMAIN s, s[k].index = i PROVE i <= x
    BY <1>1, <1>2, <2>1, <2>3
  <2> QED
    BY <2>2, <2>3
<1> QED
  BY <1>3 DEF Spans, s

\* Faults are counted.
LEMMA FaultsGrow ==
    ASSUME Typed, [EngineNext]_engineVars
    PROVE  installs' >= installs /\ crashes' >= crashes
<1>0. installs \in Nat /\ crashes \in Nat
  BY DEF Typed, WireTyped
<1> SUFFICES /\ installs' \in {installs, installs + 1}
             /\ crashes' \in {crashes, crashes + 1}
  BY <1>0
<1>1. ASSUME NEW k \in Node, CrashStep(k)
      PROVE  installs' = installs /\ crashes' = crashes + 1
  BY <1>1 DEF CrashStep, CrashRestart, CrashInAppend, Restart
<1>2. ASSUME NEW k \in Node, NEW c \in Command, Submit(k, c)
      PROVE  installs' = installs /\ crashes' = crashes
  BY <1>2 DEF Submit, faultVars
<1>3. ASSUME NEW k \in Node, NEW m \in wire, ReceiveCommand(k, m)
      PROVE  installs' = installs /\ crashes' = crashes
  BY <1>3 DEF ReceiveCommand, faultVars
<1>4. ASSUME NEW k \in Node, NEW m \in wire, ReceiveSnapshot(k, m)
      PROVE  installs' = installs + 1 /\ crashes' = crashes
  BY <1>4 DEF ReceiveSnapshot
<1>5. CASE UNCHANGED engineVars
  BY <1>5 DEF engineVars, faultVars
<1> QED
  BY <1>1, <1>2, <1>3, <1>4, <1>5, QuietSteps DEF EngineNext, LogStep, SnapshotStep

\* Only an install brings a snapshot, and nothing removes one.
LEMMA SnapshotEffect ==
    ASSUME Typed, NEW n \in Node
    PROVE  /\ LogSame(n) => disk'[n].snapshot = disk[n].snapshot
           /\ \A e \in Entry : LogAppends(n, e) =>
                 /\ disk'[n].snapshot = disk[n].snapshot
                 /\ disk'[n].journal = Append(disk[n].journal, e)
                 /\ disk'[n].last_index = e.index
           /\ \A d \in Disk : LogRestarts(n, d) => disk'[n].snapshot = disk[n].snapshot
<1>0. disk[n] \in Disk
  BY DEF Typed, LogTyped
<1>1. ASSUME NEW e \in Entry, LogAppends(n, e)
      PROVE  /\ disk'[n].snapshot = disk[n].snapshot
             /\ disk'[n].journal = Append(disk[n].journal, e)
             /\ disk'[n].last_index = e.index
  <2> DEFINE a == AppendLogEntry(disk[n], e.index, e.term, e.command)
  <2>1. /\ a.snapshot = disk[n].snapshot
        /\ a.journal = Append(disk[n].journal, e)
        /\ a.last_index = e.index
    BY <1>0, DiskWrites
  <2>2. disk'[n] = a
    BY <1>1 DEF LogAppends
  <2> HIDE DEF a
  <2> QED
    BY <2>1, <2>2
<1> QED
  BY <1>1 DEF LogSame, LogRestarts, Reopens

\* A directory that continues its snapshot still does so after a crash.
LEMMA ReopenedSpans ==
    ASSUME Typed, NEW n \in Node, ~SnapshotFree(n), SnapshotDisk(n),
           NEW d \in Disk, Reopens(n, d)
    PROVE  /\ d.snapshot # NoSnapshot
           /\ Len(d.snapshot.state) = Cutoff(d)
           /\ \E y \in 0..MaxIndex : /\ Cutoff(d) <= y
                                     /\ d.last_index <= y
                                     /\ Spans(d.journal, Cutoff(d), y)
<1> DEFINE c == Cutoff(disk[n])
           j == disk[n].journal
<1>0. /\ disk[n] \in Disk /\ j \in Seq(Entry) /\ last_index[n] \in 0..MaxIndex
      /\ d.last_index \in 0..MaxIndex /\ MaxIndex \in Nat
  BY EngineBoundAssumption DEF Typed, LogTyped, Disk
<1>1. d.snapshot = disk[n].snapshot /\ d.last_index = disk[n].last_index /\ Cutoff(d) = c
  BY DEF Reopens, Cutoff
<1>2. c \in Nat /\ c \in 0..MaxIndex
  BY <1>0, CutoffTyped
<1> HIDE DEF c
<1>3. d.snapshot # NoSnapshot /\ Len(d.snapshot.state) = c /\ c <= last_index[n]
  BY <1>1 DEF SnapshotDisk, SnapshotFree, c
<1>4. PICK x \in 0..MaxIndex : last_index[n] <= x /\ d.last_index <= x /\ Spans(j, c, x)
  BY <1>1 DEF SnapshotDisk, c
<1>5. c <= x
  BY <1>0, <1>2, <1>3, <1>4
<1>6. CASE d.journal = j
  BY <1>1, <1>3, <1>4, <1>5, <1>6
<1>7. ASSUME NEW e \in Entry, e.index = last_index[n] + 1, d.journal = Append(j, e)
      PROVE  \E y \in 0..MaxIndex : c <= y /\ d.last_index <= y /\ Spans(d.journal, c, y)
  <2> DEFINE y == IF e.index > x THEN e.index ELSE x
  <2>1. c < e.index /\ e.index <= x + 1
    BY <1>0, <1>2, <1>3, <1>4, <1>7
  <2> HIDE DEF j
  <2>2. y \in x..MaxIndex /\ Spans(Append(j, e), c, y)
    BY <1>0, <1>2, <1>4, <1>5, <2>1, SpansAppend
  <2> HIDE DEF y
  <2>3. y \in 0..MaxIndex /\ c <= y /\ d.last_index <= y
    BY <1>0, <1>2, <1>4, <1>5, <2>2
  <2> QED
    BY <1>7, <2>2, <2>3
<1>8. d.journal = j \/ \E e \in Entry : e.index = last_index[n] + 1 /\ d.journal = Append(j, e)
  BY DEF Reopens
<1> HIDE DEF j
<1> QED
  BY <1>1, <1>3, <1>6, <1>7, <1>8

LEMMA InstallStep ==
    ASSUME EngineInv, [EngineNext]_engineVars
    PROVE  InstallInv'
<1>0. Typed /\ JournalInv /\ InstallInv /\ ShapeInv /\ WireTyped
  BY DEF EngineInv, Typed
<1>a. installs \in Nat /\ installs' >= installs /\ installs' \in Nat
  BY <1>0, FaultsGrow, WireTypedStep DEF WireTyped
<1>1. ASSUME installs' = 0, NEW n \in Node PROVE SnapshotFree(n)'
  <2>1. installs = 0
    BY <1>a, <1>1
  <2>2. SnapshotFree(n)
    BY <1>0, <2>1 DEF InstallInv
  <2>3. ASSUME NEW m \in wire, LogInstalls(n, m) PROVE FALSE
    BY <1>1, <2>1, <2>3 DEF LogInstalls
  <2> QED
    BY <1>0, <2>2, <2>3, LogEffects, SnapshotEffect DEF LogEffect, SnapshotFree
<1>2. ASSUME installs' <= 1, NEW n \in Node, ~SnapshotFree(n)' PROVE SnapshotDisk(n)'
  <2>0. /\ last_index[n] \in 0..MaxIndex /\ disk[n] \in Disk /\ MaxIndex \in Nat
        /\ disk[n].journal \in Seq(Entry) /\ disk[n].last_index \in 0..MaxIndex
    BY <1>0, EngineBoundAssumption DEF Typed, LogTyped, Disk
  <2>1. ~SnapshotFree(n) => SnapshotDisk(n)
    BY <1>0, <1>a, <1>2 DEF InstallInv
  <2>2. CASE LogSame(n)
    <3>1. ~SnapshotFree(n)
      BY <1>2, <2>2 DEF SnapshotFree, LogSame
    <3> QED
      BY <2>1, <2>2, <3>1 DEF LogSame, SnapshotDisk
  <2>3. ASSUME NEW e \in Entry, LogAppends(n, e) PROVE SnapshotDisk(n)'
    <3>1. /\ disk'[n].snapshot = disk[n].snapshot
          /\ disk'[n].journal = Append(disk[n].journal, e)
          /\ disk'[n].last_index = e.index
      BY <1>0, <2>3, SnapshotEffect
    <3>2. last_index'[n] = e.index /\ e.index = last_index[n] + 1
      BY <2>3 DEF LogAppends
    <3>3. ~SnapshotFree(n) /\ Cutoff(disk'[n]) = Cutoff(disk[n])
      BY <1>2, <3>1 DEF SnapshotFree, Cutoff
    <3> DEFINE c == Cutoff(disk[n])
               j == disk[n].journal
    <3>4. c \in Nat
      BY <2>0, CutoffTyped
    <3>5. c <= last_index[n] /\ Len(disk'[n].snapshot.state) = c
      BY <2>1, <3>1, <3>3 DEF SnapshotDisk
    <3>6. PICK x \in 0..MaxIndex : last_index[n] <= x /\ Spans(j, c, x)
      BY <2>1, <3>3 DEF SnapshotDisk
    <3> HIDE DEF c, j
    <3>7. c <= x /\ c < e.index /\ e.index <= x + 1
      BY <2>0, <3>2, <3>4, <3>5, <3>6
    <3> DEFINE y == IF e.index > x THEN e.index ELSE x
    <3>8. y \in x..MaxIndex /\ Spans(Append(j, e), c, y)
      BY <2>0, <3>4, <3>6, <3>7, SpansAppend DEF j
    <3>9. y \in 0..MaxIndex /\ e.index <= y /\ c <= e.index
      BY <2>0, <3>2, <3>4, <3>6, <3>7, <3>8
    <3> HIDE DEF y
    <3>10. Spans(disk'[n].journal, c, y) /\ last_index'[n] <= y /\ disk'[n].last_index <= y
      BY <3>1, <3>2, <3>8, <3>9 DEF j
    <3>11. Cutoff(disk'[n]) = c /\ c <= last_index'[n]
      BY <3>2, <3>3, <3>9 DEF c
    <3> QED
      BY <3>5, <3>9, <3>10, <3>11 DEF SnapshotDisk
  <2>4. ASSUME NEW m \in wire, LogInstalls(n, m) PROVE SnapshotDisk(n)'
    <3>1. installs = 0 /\ m.type = "SnapshotResponse"
      BY <1>a, <1>2, <2>4 DEF LogInstalls
    <3>2. SnapshotFree(n) /\ Mirrors(n)
      BY <1>0, <3>1 DEF InstallInv, JournalInv
    <3>3. m.last_index \in 0..MaxIndex /\ Len(m.snapshot) = m.last_index
      BY <1>0, <3>1, SnapshotFrame DEF ShapeInv, Snapshots
    <3> DEFINE c == m.last_index
               i == last_index[n]
               y == IF i > c THEN i ELSE c
               j == disk[n].journal
    <3>4. /\ disk'[n].snapshot.state = m.snapshot
          /\ Cutoff(disk'[n]) = c
          /\ disk'[n].journal = LoadLogEntries(j, c)
      BY <1>0, <2>0, <2>4, <3>1, InstalledDisk DEF LogInstalls
    <3>5. disk'[n].last_index = IF c > disk[n].last_index THEN c ELSE disk[n].last_index
      BY <2>4 DEF LogInstalls, InstallSnapshot
    <3>6. last_index'[n] = c
      BY <2>4 DEF LogInstalls
    <3>7. y \in 0..MaxIndex /\ c <= y /\ i <= y /\ c \in Nat
      BY <2>0, <3>3
    <3>8. disk[n].last_index <= i
      BY <3>2 DEF Mirrors
    <3>9. disk'[n].last_index <= y
      BY <2>0, <3>3, <3>5, <3>7, <3>8
    <3>10. Spans(j, c, y)
      <4>1. DOMAIN j = 1..i /\ \A k \in 1..i : j[k].index = k
        BY <2>0, <3>2, LenProperties DEF Mirrors, Whole
      <4>2. ASSUME NEW a \in Index, a > c
            PROVE  (\E k \in DOMAIN j : j[k].index = a) <=> a <= y
        <5>1. a \in 1..MaxIndex
          BY DEF Index
        <5>2. a <= y <=> a \in 1..i
          BY <2>0, <3>3, <4>2, <5>1
        <5> HIDE DEF y, i, j
        <5> QED
          BY <4>1, <5>2
      <4> HIDE DEF y, j
      <4> QED
        BY <4>2 DEF Spans
    <3>11. Spans(disk'[n].journal, c, y)
      <4> HIDE DEF y, j
      <4>1. Spans(LoadLogEntries(j, c), c, y)
        BY <2>0, <3>7, <3>10, SpansLoad DEF j
      <4> QED
        BY <3>4, <4>1
    <3> HIDE DEF y
    <3> QED
      BY <3>3, <3>4, <3>6, <3>7, <3>9, <3>11 DEF SnapshotDisk
  <2>5. ASSUME NEW d \in Disk, LogRestarts(n, d) PROVE SnapshotDisk(n)'
    <3>1. Reopens(n, d) /\ disk'[n] = d /\ last_index'[n] = ReplayedIndex(d)
      BY <2>5 DEF LogRestarts
    <3>2. ~SnapshotFree(n) /\ SnapshotDisk(n)
      BY <1>0, <1>2, <2>1, <2>5, SnapshotEffect DEF SnapshotFree
    <3>3. Len(d.snapshot.state) = Cutoff(d)
      BY <1>0, <3>1, <3>2, ReopenedSpans
    <3>4. PICK y \in 0..MaxIndex : /\ Cutoff(d) <= y
                                   /\ d.last_index <= y
                                   /\ Spans(d.journal, Cutoff(d), y)
      BY <1>0, <3>1, <3>2, ReopenedSpans
    <3>5. ReplayedIndex(d) = y
      BY <3>3, <3>4, ReplaySpans
    <3> QED
      BY <3>1, <3>3, <3>4, <3>5 DEF SnapshotDisk
  <2> QED
    BY <1>0, <2>2, <2>3, <2>4, <2>5, LogEffects DEF LogEffect
<1> QED
  BY <1>1, <1>2 DEF InstallInv

LEMMA ShapeStep ==
    ASSUME EngineInv, [EngineNext]_engineVars
    PROVE  ShapeInv'
<1>0. Typed /\ JournalInv /\ InstallInv /\ ShapeInv /\ WireTyped
  BY DEF EngineInv, Typed
<1>a. /\ installs \in Nat /\ installs' >= installs /\ installs' \in Nat
      /\ crashes \in Nat /\ crashes' >= crashes /\ crashes' \in Nat
  BY <1>0, FaultsGrow, WireTypedStep DEF WireTyped
<1> SUFFICES ASSUME crashes' = 0 \/ installs' <= 1
             PROVE  /\ \A n \in Node : /\ Len(log_terms'[n]) = last_index'[n]
                                       /\ Len(applied'[n]) = last_index'[n]
                    /\ \A m \in Snapshots' : Len(m.snapshot) = m.last_index
  BY DEF ShapeInv
<1>b. crashes = 0 \/ installs <= 1
  BY <1>a
<1>c. /\ \A n \in Node : /\ Len(log_terms[n]) = last_index[n]
                         /\ Len(applied[n]) = last_index[n]
      /\ \A m \in Snapshots : Len(m.snapshot) = m.last_index
  BY <1>0, <1>b DEF ShapeInv
<1>1. ASSUME NEW n \in Node
      PROVE  Len(log_terms'[n]) = last_index'[n] /\ Len(applied'[n]) = last_index'[n]
  <2>0. log_terms[n] \in Seq(Term) /\ applied[n] \in Seq(Command)
    BY <1>0 DEF Typed, LogTyped
  <2>1. CASE LogSame(n)
    BY <1>c, <2>1 DEF LogSame
  <2>2. ASSUME NEW e \in Entry, LogAppends(n, e)
        PROVE  Len(log_terms'[n]) = last_index'[n] /\ Len(applied'[n]) = last_index'[n]
    <3>1. e.term \in Term /\ e.command \in Command
      BY DEF Entry
    <3>2. /\ Len(Append(log_terms[n], e.term)) = Len(log_terms[n]) + 1
          /\ Len(Append(applied[n], e.command)) = Len(applied[n]) + 1
      BY <2>0, <3>1, AppendProperties
    <3> QED
      BY <1>c, <2>2, <3>2 DEF LogAppends
  <2>3. ASSUME NEW m \in wire, LogInstalls(n, m)
        PROVE  Len(log_terms'[n]) = last_index'[n] /\ Len(applied'[n]) = last_index'[n]
    <3>1. m \in Snapshots /\ m.last_index \in Nat
      BY <1>0, <2>3, SnapshotFrame, EngineBoundAssumption DEF LogInstalls, Snapshots
    <3>2. Len(FilledTerms(n, m)) = m.last_index
      BY <3>1 DEF FilledTerms
    <3> QED
      BY <1>c, <2>3, <3>1, <3>2 DEF LogInstalls
  <2>4. ASSUME NEW d \in Disk, LogRestarts(n, d)
        PROVE  Len(log_terms'[n]) = last_index'[n] /\ Len(applied'[n]) = last_index'[n]
    <3>1. installs <= 1
      BY <1>a, <2>4 DEF LogRestarts
    <3>2. CASE SnapshotFree(n)
      <4>1. SnapshotFree(n)'
        BY <1>0, <2>4, <3>2, SnapshotEffect DEF SnapshotFree
      <4> QED
        BY <1>0, <4>1, LogsGrow DEF Mirrors
    <3>3. CASE ~SnapshotFree(n)
      <4>1. SnapshotDisk(n) /\ Reopens(n, d)
        BY <1>0, <2>4, <3>1, <3>3 DEF InstallInv, LogRestarts
      <4>2. Len(d.snapshot.state) = Cutoff(d)
        BY <1>0, <3>3, <4>1, ReopenedSpans
      <4>3. PICK y \in 0..MaxIndex : /\ Cutoff(d) <= y
                                     /\ d.last_index <= y
                                     /\ Spans(d.journal, Cutoff(d), y)
        BY <1>0, <3>3, <4>1, ReopenedSpans
      <4>4. ReplayedIndex(d) = y /\ Len(ReplayedTerms(d)) = y /\ Len(ReplayedState(d)) = y
        BY <4>2, <4>3, ReplaySpans
      <4> QED
        BY <2>4, <4>4 DEF LogRestarts
    <3> QED
      BY <3>2, <3>3
  <2> QED
    BY <1>0, <2>1, <2>2, <2>3, <2>4, LogEffects DEF LogEffect
<1>2. ASSUME NEW x \in Snapshots' PROVE Len(x.snapshot) = x.last_index
  <2>1. x \in wire' /\ x.type = "SnapshotResponse"
    BY DEF Snapshots
  <2>2. CASE x \in wire
    BY <1>c, <2>1, <2>2 DEF Snapshots
  <2>3. ASSUME NEW k \in Node, NEW f \in Node,
               x = SnapshotResponse(k, f, last_index[k], current_term[k], applied[k])
        PROVE  Len(x.snapshot) = x.last_index
    BY <1>c, <2>3 DEF SnapshotResponse
  <2> QED
    BY <2>1, <2>2, <2>3, NewFrames DEF ReplicateCommand, ReplicateAck
<1> QED
  BY <1>1, <1>2

-----------------------------------------------------------------------------
(* Elections under log traffic.                                            *)

\* Arming an election opens a term the node has never voted in.
LEMMA ArmBallots ==
    ASSUME TypeOK, VoteInv, VoteUnique, TallyInv, WonInv, NEW k \in Node, Arm(k)
    PROVE  VoteInv' /\ VoteUnique' /\ TallyInv' /\ WonInv'
<1> DEFINE T == current_term[k] + 1
<1>0. /\ current_term' = [current_term EXCEPT ![k] = T]
      /\ voted_for' = [voted_for EXCEPT ![k] = k]
      /\ votes_received' = [votes_received EXCEPT ![k] = {k}]
      /\ election_term' = [election_term EXCEPT ![k] = T]
      /\ won' = IF Peers(k) = {} THEN won \cup {<<T, k>>} ELSE won
      /\ msgs' = msgs \cup {VoteRequest(k, T)}
  BY DEF Arm, ArmElection
<1>a. /\ current_term \in [Node -> Nat] /\ voted_for \in [Node -> Node \cup {NoNode}]
      /\ votes_received \in [Node -> SUBSET Node] /\ election_term \in [Node -> Nat]
      /\ T \in Nat
  BY DEF TypeOK
<1>1. ASSUME NEW u, NEW c, NEW t, Voted(u, c, t) PROVE Voted(u, c, t)'
  BY <1>0, <1>1 DEF Voted, VoteRequest, VoteResponse
<1>2. ASSUME NEW u, NEW c, NEW t, Voted(u, c, t)', ~Voted(u, c, t)
      PROVE  u = k /\ c = k /\ t = T
  BY <1>0, <1>2 DEF Voted, VoteRequest, VoteResponse
<1>4. VoteRequest(k, T) \in msgs'
  BY <1>0
<1>5. \A d \in Node : ~Voted(k, d, T)
  <2> SUFFICES ASSUME NEW d \in Node, Voted(k, d, T) PROVE FALSE
    OBVIOUS
  <2>1. current_term[k] >= T
    BY <1>a DEF VoteInv
  <2> QED
    BY <1>a, <2>1
<1> HIDE DEF T
<1>6. VoteInv'
  <2> SUFFICES ASSUME NEW u \in Node, NEW c \in Node, NEW t \in Nat, Voted(u, c, t)'
               PROVE  /\ current_term'[u] >= t
                      /\ current_term'[u] = t => voted_for'[u] = c
    BY DEF VoteInv
  <2>1. CASE Voted(u, c, t)
    <3>1. current_term[u] >= t /\ (current_term[u] = t => voted_for[u] = c)
      BY <2>1 DEF VoteInv
    <3> QED
      BY <1>0, <1>a, <3>1 DEF T
  <2>2. CASE ~Voted(u, c, t)
    <3>1. u = k /\ c = k /\ t = T
      BY <1>2, <2>2
    <3> QED
      BY <1>0, <1>a, <3>1
  <2> QED
    BY <2>1, <2>2
<1>7. VoteUnique'
  <2> SUFFICES ASSUME NEW u \in Node, NEW c \in Node, NEW d \in Node, NEW t \in Nat,
                      Voted(u, c, t)', Voted(u, d, t)'
               PROVE  c = d
    BY DEF VoteUnique
  <2> QED
    BY <1>2, <1>5 DEF VoteUnique
<1>8. ASSUME NEW u, NEW c, NEW t, u = c, VoteRequest(c, t) \in msgs' PROVE Voted(u, c, t)'
  BY <1>8 DEF Voted, VoteRequest
<1>9. TallyInv'
  <2> SUFFICES ASSUME NEW n \in Node, NEW u \in votes_received'[n]
               PROVE  Voted(u, n, election_term[n])'
    BY DEF TallyInv
  <2>1. CASE n = k
    <3>1. u = n /\ election_term'[n] = T
      BY <1>0, <1>a, <2>1
    <3> QED
      BY <1>4, <2>1, <3>1 DEF Voted
  <2>2. CASE n # k
    <3>1. u \in votes_received[n] /\ election_term'[n] = election_term[n]
      BY <1>0, <1>a, <2>2
    <3>2. Voted(u, n, election_term[n])
      BY <3>1 DEF TallyInv
    <3> QED
      BY <1>0, <3>1, <3>2 DEF Voted
  <2> QED
    BY <2>1, <2>2
<1>10. WonInv'
  <2> SUFFICES ASSUME NEW p \in won'
               PROVE  IsMajority(Voters(p[2], p[1])')
    BY DEF WonInv
  <2>1. CASE p \in won
    <3>1. IsMajority(Voters(p[2], p[1]))
      BY <2>1 DEF WonInv
    <3>2. Voters(p[2], p[1]) \subseteq Voters(p[2], p[1])'
      BY <1>1 DEF Voters
    <3>3. Voters(p[2], p[1])' \subseteq Node
      BY DEF Voters
    <3> QED
      BY <3>1, <3>2, <3>3, MajorityGrows
  <2>2. CASE p \notin won
    <3>1. Peers(k) = {} /\ p = <<T, k>>
      BY <1>0, <2>2
    <3>2. Voted(k, p[2], p[1])'
      BY <1>4, <1>8, <3>1
    <3>3. {k} \subseteq Voters(p[2], p[1])' /\ Voters(p[2], p[1])' \subseteq Node
      BY <3>2 DEF Voters
    <3> QED
      BY <3>1, <3>3, LoneMajority, MajorityGrows
  <2> QED
    BY <2>1, <2>2
<1> QED
  BY <1>6, <1>7, <1>9, <1>10

\* Wire frames stay.
LEMMA FramesStay ==
    ASSUME [EngineNext]_engineVars
    PROVE  wire \subseteq wire'
<1>1. ASSUME NEW k \in Node, ElectionStep(k) PROVE wire \subseteq wire'
  BY <1>1 DEF ElectionStep, Arm, LeaderHeartbeat, DeliverElectionFrame, DeliverVoteResponse
<1>2. ASSUME NEW k \in Node, LogStep(k) PROVE wire \subseteq wire'
  BY <1>2 DEF LogStep, Submit, SubmitAcked, SubmitTimeout, EndSubmit, Replay,
              ReceiveCommand, ReceiveAck, ReceiveNack
<1>3. ASSUME NEW k \in Node, SnapshotStep(k) \/ CrashStep(k) PROVE wire \subseteq wire'
  BY <1>3 DEF SnapshotStep, SendSnapshot, ReceiveSnapshot, CrashStep, CrashRestart,
              CrashInAppend, Restart
<1>4. CASE UNCHANGED engineVars
  BY <1>4 DEF engineVars
<1> QED
  BY <1>1, <1>2, <1>3, <1>4 DEF EngineNext

\* A command raises the term and leaves the vote of the old one behind: the
\* vote is stale in the new term, but no vote of the new term contradicts it.
LEMMA BallotStep ==
    ASSUME EngineInv, [EngineNext]_engineVars
    PROVE  BallotInv'
<1>0. Typed /\ BallotInv /\ ElectionTyped /\ WireTyped /\ TypeOK
  BY DEF EngineInv, Typed, ElectionTyped
<1> SUFFICES ASSUME crashes' = 0, Snapshots' = {}
             PROVE  VoteInv' /\ VoteUnique' /\ TallyInv' /\ WonInv'
  BY DEF BallotInv
<1>1. crashes \in Nat /\ crashes' >= crashes
  BY <1>0, FaultsGrow DEF WireTyped
<1>2. crashes = 0 /\ Snapshots = {}
  BY <1>1, FramesStay DEF Snapshots
<1>3. VoteInv /\ VoteUnique /\ TallyInv /\ WonInv
  BY <1>0, <1>2 DEF BallotInv
<1>4. [Next]_electionVars => VoteInv' /\ VoteUnique' /\ TallyInv' /\ WonInv'
  BY <1>0, <1>3, ElectionInvStep DEF ElectionInv
<1>5. ASSUME NEW k \in Node, Arm(k) PROVE VoteInv' /\ VoteUnique' /\ TallyInv' /\ WonInv'
  BY <1>0, <1>3, <1>5, ArmBallots
<1>6. ASSUME NEW k \in Node, NEW m \in wire, ReceiveCommand(k, m)
      PROVE  VoteInv' /\ VoteUnique' /\ TallyInv' /\ WonInv'
  <2>1. /\ m.term \in Term
        /\ current_term' = [current_term EXCEPT ![k] = IF m.term < current_term[k]
                                                       THEN current_term[k] ELSE m.term]
        /\ UNCHANGED <<voted_for, election_term, votes_received, won, msgs>>
    BY <1>0, <1>6, CommandRaisesTerm
  <2>2. \A u, c, t : Voted(u, c, t)' <=> Voted(u, c, t)
    BY <2>1 DEF Voted, VoteRequest, VoteResponse
  <2>3. VoteInv'
    <3> SUFFICES ASSUME NEW u \in Node, NEW c \in Node, NEW t \in Nat, Voted(u, c, t)
                 PROVE  /\ current_term'[u] >= t
                        /\ current_term'[u] = t => voted_for'[u] = c
      BY <2>2 DEF VoteInv
    <3>1. current_term[u] >= t /\ (current_term[u] = t => voted_for[u] = c)
      BY <1>3 DEF VoteInv
    <3>2. current_term \in [Node -> Nat] /\ m.term \in Nat
      BY <1>0, <2>1, BoundAssumption DEF TypeOK, Term
    <3> QED
      BY <2>1, <3>1, <3>2
  <2>4. VoteUnique'
    BY <1>3, <2>2 DEF VoteUnique
  <2>5. TallyInv'
    BY <1>3, <2>1 DEF TallyInv, Voted
  <2>6. WonInv'
    <3>1. \A p \in won : Voters(p[2], p[1])' = Voters(p[2], p[1])
      BY <2>2 DEF Voters
    <3> QED
      BY <1>3, <2>1, <3>1 DEF WonInv
  <2> QED
    BY <2>3, <2>4, <2>5, <2>6
<1>7. ASSUME NEW k \in Node, NEW m \in wire, ReceiveSnapshot(k, m) PROVE FALSE
  BY <1>2, <1>7 DEF ReceiveSnapshot, Snapshots
<1>8. ASSUME NEW k \in Node, NEW d \in Disk, Restart(k, d) PROVE FALSE
  BY <1>1, <1>8 DEF Restart
<1> QED
  BY <1>0, <1>4, <1>5, <1>6, <1>7, <1>8, ElectionEffect, HandlesIsNext

-----------------------------------------------------------------------------
(* The theorems.                                                           *)

LEMMA EngineInitInv == EngineInit => EngineInv
<1> SUFFICES ASSUME EngineInit PROVE EngineInv
  OBVIOUS
<1> USE BoundAssumption, EngineBoundAssumption DEF EngineInit
<1>1. ElectionTyped
  BY DEF Init, ElectionTyped, TypeOK, Role
<1>2. LogTyped
  <2>1. EmptyDisk \in Disk
    BY DEF EmptyDisk, Disk
  <2> QED
    BY <2>1 DEF LogTyped
<1>3. LeaderTyped
  <2>1. NoAcks \in Tally
    <3>1. NoAcks \in [{} -> SUBSET Node]
      BY DEF NoAcks
    <3> QED
      BY <3>1 DEF Tally
  <2>2. [f \in Node |-> 1] \in [Node -> 1..(MaxIndex + 1)]
        /\ [f \in Node |-> 0] \in [Node -> 0..MaxIndex]
    OBVIOUS
  <2> QED
    BY <2>1, <2>2 DEF LeaderTyped
<1>4. WireTyped
  BY DEF WireTyped
<1>5. JournalInv /\ InstallInv
  <2>1. \A n \in Node : disk[n] = EmptyDisk
    OBVIOUS
  <2>2. \A n \in Node : SnapshotFree(n)
    BY <2>1 DEF SnapshotFree, EmptyDisk
  <2>3. \A n \in Node : Mirrors(n)
    BY <2>1 DEF Mirrors, EmptyDisk, Whole
  <2> QED
    BY <2>2, <2>3 DEF JournalInv, InstallInv
<1>6. FrameInv
  BY DEF FrameInv
<1>7. CountInv
  BY DEF CountInv, NoAcks
<1>8. WaitInv /\ MajorityAckHolds
  BY DEF WaitInv, MajorityAckHolds
<1>9. ShapeInv
  BY DEF ShapeInv, Snapshots
<1>10. BallotInv
  BY DEF Init, BallotInv, VoteInv, VoteUnique, TallyInv, WonInv, Voted
<1> QED
  BY <1>1, <1>2, <1>3, <1>4, <1>5, <1>6, <1>7, <1>8, <1>9, <1>10 DEF EngineInv, Typed

\* The strengthened invariant of the engine.
THEOREM EngineInvHolds == EngineSpec => []EngineInv
<1>1. EngineInv /\ [EngineNext]_engineVars => EngineInv'
  <2> SUFFICES ASSUME EngineInv, [EngineNext]_engineVars PROVE EngineInv'
    OBVIOUS
  <2>1. Typed'
    BY ElectionTypedStep, LogTypedStep, LeaderTypedStep, WireTypedStep DEF EngineInv, Typed
  <2>2. JournalInv'
    BY LogsGrow DEF EngineInv, JournalInv
  <2> QED
    BY <2>1, <2>2, FrameStep, CountStep, WaitStep, VerdictStep, InstallStep, ShapeStep,
       BallotStep DEF EngineInv
<1> QED
  BY <1>1, EngineInitInv, PTL DEF EngineSpec

\* The engine's state stays well typed through log traffic, snapshots and
\* crashes; a follower's next index stays within 1..MaxIndex + 1.
THEOREM EngineTyped == EngineSpec => []EngineTypeOK
<1>1. EngineInv => EngineTypeOK
  <2> SUFFICES ASSUME EngineInv PROVE EngineTypeOK
    OBVIOUS
  <2>0. ElectionTyped /\ LogTyped /\ LeaderTyped
    BY DEF EngineInv, Typed
  <2>1. Term \subseteq 0..MaxTerm /\ Term = 1..MaxTerm
    BY BoundAssumption DEF Term
  <2>2. ASSUME NEW n \in Node
        PROVE  /\ log_terms[n] \in Seq(0..MaxTerm)
               /\ command_log[n] \in Seq([index : Index, command : Command])
               /\ applied[n] \in Seq(Command)
               /\ DOMAIN pending_acks[n] \subseteq Index
               /\ \A i \in DOMAIN pending_acks[n] : pending_acks[n][i] \subseteq Node
    <3>1. log_terms[n] \in Seq(Term) /\ pending_acks[n] \in Tally
      BY <2>0 DEF LogTyped, LeaderTyped
    <3>2. log_terms[n] \in Seq(0..MaxTerm)
      BY <2>1, <3>1, SeqMonotonic
    <3>3. /\ DOMAIN pending_acks[n] \subseteq Index
          /\ \A i \in DOMAIN pending_acks[n] : pending_acks[n][i] \subseteq Node
      BY <3>1 DEF Tally
    <3> QED
      BY <2>0, <3>2, <3>3 DEF LogTyped
  <2> QED
    BY <2>0, <2>1, <2>2 DEF ElectionTyped, LogTyped, LeaderTyped, EngineTypeOK
<1> QED
  BY <1>1, EngineInvHolds, PTL

\* restore_snapshot's log_terms.len() == last_index, and the same for the state
\* machine, through duplicated frames, gaps, one install and any crashes.
THEOREM LogsKeepShape == EngineSpec => []LogShape
<1>1. EngineInv => LogShape
  BY DEF EngineInv, ShapeInv, LogShape
<1> QED
  BY <1>1, EngineInvHolds, PTL

\* An entry a follower acknowledged stays in its log, across crashes, as long
\* as no snapshot replaced that log.
THEOREM AckedEntriesDurable == EngineSpec => []AckedEntryDurable
<1>1. EngineInv => AckedEntryDurable
  BY DEF EngineInv, FrameInv, AckedEntryDurable
<1> QED
  BY <1>1, EngineInvHolds, PTL

\* A restart of a node that never installed a snapshot rebuilds the terms and
\* the state machine it had.
THEOREM RestartsRestore == EngineSpec => []RestartRestoresLog
<1>1. EngineInv => RestartRestoresLog
  <2> SUFFICES ASSUME EngineInv, NEW n \in Node, SnapshotFree(n)
               PROVE  /\ ReplayedState(disk[n]) = applied[n]
                      /\ ReplayedTerms(disk[n]) = log_terms[n]
    BY DEF RestartRestoresLog
  <2> DEFINE d == disk[n]
             x == last_index[n]
  <2>1. /\ d \in Disk /\ x \in 0..MaxIndex
        /\ log_terms[n] \in Seq(Term) /\ applied[n] \in Seq(Command)
    BY DEF EngineInv, Typed, LogTyped
  <2>2. Mirrors(n)
    BY DEF EngineInv, JournalInv
  <2>3. d.snapshot = NoSnapshot /\ d.last_index <= x /\ Whole(d.journal, x)
    BY <2>2 DEF SnapshotFree, Mirrors
  <2>4. /\ Len(ReplayedTerms(d)) = x
        /\ Len(ReplayedState(d)) = x
        /\ \A k \in 1..x : /\ ReplayedTerms(d)[k] = d.journal[k].term
                           /\ ReplayedState(d)[k] = d.journal[k].command
    BY <2>1, <2>3, ReplayWhole
  <2>5. ReplayedTerms(d) \in Seq(Term) /\ ReplayedState(d) \in Seq(Command)
    BY <2>1, ReplayTyped
  <2>6. /\ Len(log_terms[n]) = x /\ Len(applied[n]) = x
        /\ \A k \in 1..x : ReplayedTerms(d)[k] = log_terms[n][k]
                           /\ ReplayedState(d)[k] = applied[n][k]
    BY <2>2, <2>4 DEF Mirrors
  <2>7. ReplayedTerms(d) = log_terms[n]
    BY <2>1, <2>4, <2>5, <2>6, SeqEqual
  <2>8. ReplayedState(d) = applied[n]
    BY <2>1, <2>4, <2>5, <2>6, SeqEqual
  <2> QED
    BY <2>7, <2>8
<1> QED
  BY <1>1, EngineInvHolds, PTL

\* match_index never claims an entry the follower does not share with the leader.
THEOREM MatchIndicesHonest == EngineSpec => []MatchIndexHonest
<1>1. EngineInv => MatchIndexHonest
  <2> SUFFICES ASSUME EngineInv, NEW n \in Node, NEW f \in Peers(n), match_index[n][f] > 0,
                      SnapshotFree(n), SnapshotFree(f)
               PROVE  /\ match_index[n][f] \in DOMAIN log_terms[n]
                      /\ Stores(f, match_index[n][f], log_terms[n][match_index[n][f]])
    BY DEF MatchIndexHonest
  <2>1. f \in Node
    BY DEF Peers
  <2>2. Shared(n, f, match_index[n][f])
    BY <2>1 DEF EngineInv, CountInv
  <2> QED
    BY <2>2 DEF Shared, Stores
<1> QED
  BY <1>1, EngineInvHolds, PTL

\* An entry a caller was told a majority has is stored by a majority, although
\* acks carry no term, as long as no snapshot was installed.
THEOREM MajorityAcksHold == EngineSpec => []MajorityAckHolds
<1>1. EngineInv => MajorityAckHolds
  BY DEF EngineInv
<1> QED
  BY <1>1, EngineInvHolds, PTL

\* No term has two winners up to the first crash or snapshot, although log
\* traffic raises terms without clearing votes.
THEOREM WinnersAreUnique == EngineSpec => []WinnersUnique
<1>1. EngineInv => WinnersUnique
  BY ElectionInvIsSafe
     DEF EngineInv, Typed, ElectionTyped, BallotInv, ElectionInv, WinnersUnique
<1> QED
  BY <1>1, EngineInvHolds, PTL
=============================================================================
