------------------------------ MODULE KafkaProofs ------------------------------
(***************************************************************************)
(* Proofs about KafkaIngest for any partitions, records, batch sizes and   *)
(* numbers of incidents.  Everything the loop remembers about a partition  *)
(* (committed offset, durable next, spans, stamps, frontier, gate targets, *)
(* position) is an offset below which nothing is lost; the invariant says  *)
(* so of each of them, with the records in the buffer and in the batch     *)
(* that is being published where the code may still drop those.            *)
(***************************************************************************)
EXTENDS KafkaIngest, FiniteSetTheorems, SequenceTheorems, WellFoundedInduction, TLAPS

(***************************************************************************)
(* Types.                                                                  *)
(***************************************************************************)
Gate == [kind : {"active", "target", "seek", "restore"}, at : Int]

Consumer ==
    [assigned : BOOLEAN, muted : BOOLEAN, pos : Nat, gate : Gate, tainted : BOOLEAN,
     paused : BOOLEAN, recFloor : BOOLEAN, reset : BOOLEAN, resetFloor : BOOLEAN,
     fr : Entry, next : Offset, span : Span, notice : SUBSET {"revoked", "assigned"},
     epoch : Nat, astray : BOOLEAN]

Log == [low : Nat, recs : Seq(1 .. MaxRecords), born : 0 .. MaxRecords, epoch : Nat, cut : Nat]

Row == [recs : Seq(Record), cid : BOOLEAN, tid : Nat, span : [Partition -> Span],
        blob : BOOLEAN, visible : BOOLEAN]

LogOK(l) ==
    l \in Log /\ l.low <= Len(l.recs) /\ Len(l.recs) <= l.born /\ l.cut <= l.born

BrokerTyped ==
    /\ log \in [Partition -> Log]
    /\ \A p \in Partition : LogOK(log[p])
    /\ topic \in Nat
    /\ committed \in [Partition -> Offset]
    /\ sent \in [Partition -> Offset]

HistoryTyped ==
    /\ accepted \subseteq Record /\ excused \subseteq Record /\ gap \subseteq Record
    /\ shadow \subseteq Record /\ degraded \in BOOLEAN
    /\ incidents \in 0 .. MaxIncidents

SessionTyped ==
    /\ rows \in Seq(Row)
    /\ sess \in [phase : {"down", "join", "up", "stopped"}, cid : BOOLEAN, tid : Nat,
                 recreated : BOOLEAN, failed : BOOLEAN]
    /\ buf \in Seq(Record) /\ Len(buf) < MaxRowsPerSegment
    /\ pub \in [phase : {"none", "persist", "swap", "rollback"}, batch : Seq(Record),
                spans : [Partition -> Span], final : BOOLEAN]

ConsTyped ==
    /\ cons \in [Partition -> Consumer]
    /\ \A p \in Partition : cons[p].muted => cons[p].assigned

Typed == BrokerTyped /\ HistoryTyped /\ SessionTyped /\ ConsTyped

\* Outside a session nothing is buffered, published or assigned; a span
\* has a durable next; during a publication the buffer and the spans are empty
\* and the new row is the last.
Quiet(c) == c.next = NoOffset /\ c.span = NoSpan /\ c.notice = {} /\ ~c.assigned

ShapeInv ==
    /\ \A p \in Partition : cons[p].next = NoOffset => cons[p].span = NoSpan
    /\ sess.phase # "up" => buf = <<>> /\ pub = NoPub /\ \A p \in Partition : Quiet(cons[p])
    /\ pub.phase = "none" => pub = NoPub
    /\ pub.phase # "none" => buf = <<>> /\ \A p \in Partition : cons[p].span = NoSpan
    /\ pub.phase \in {"swap", "rollback"} =>
          /\ rows # <<>>
          /\ rows[Len(rows)].recs = pub.batch
          /\ \A p \in Partition : rows[Len(rows)].span[p] \in {pub.spans[p], NoSpan}

(***************************************************************************)
(* Safe: records that are durable, or whose loss is accounted for.  Kept:  *)
(* these, and the ones the loop still has in its hands.                    *)
(***************************************************************************)
Stored == UNION {RowRecords(i) : i \in SettledRows}
Safe == Stored \cup Poison \cup excused \cup gap \cup shadow
Kept == Safe \cup ToSet(buf) \cup ToSet(pub.batch)

\* The highest end the log ever had: offsets below it that are given out again
\* are in `shadow`.
TopOf(l) == IF l.cut > Len(l.recs) THEN l.cut ELSE Len(l.recs)

\* Nothing of partition p below x is lost, given its log l.
UpTo(p, l, x, S) ==
    /\ x <= TopOf(l)
    /\ \A o \in l.low .. (Len(l.recs) - 1) : o < x => <<p, l.recs[o + 1]>> \in S

FrontierOK(p, l, fr, S) ==
    /\ \A o \in fr.loaded : UpTo(p, l, o + 1, S)
    /\ UpTo(p, l, fr.minStart, S) \/ (fr.minStart = Passthrough /\ fr.loaded = {})

\* The next record delivered will be accepted; rec: the topic was recreated.
Through(rec, c) ==
    /\ c.assigned /\ c.gate = Active
    /\ \/ c.notice = {}
       \/ SafeFloor(c) = NoOffset /\ c.fr = NoEntry /\ ~(rec /\ "assigned" \in c.notice)

GateOK(p, l, g, K) ==
    /\ g.kind = "active" => g = Active
    /\ g.kind = "seek" => UpTo(p, l, g.at, K) \/ g.at = Passthrough
    /\ g.kind = "restore" => UpTo(p, l, g.at, K)

ConsOK(p, l, rec, c, S, K) ==
    /\ UpTo(p, l, c.next, S)
    /\ UpTo(p, l, c.span.next, K) /\ c.span.start <= c.span.next
    /\ FrontierOK(p, l, c.fr, S)
    /\ GateOK(p, l, c.gate, K)
    /\ c.assigned => c.pos <= TopOf(l)
    /\ Through(rec, c) => UpTo(p, l, c.pos, K)

\* A consumer record that is well typed and safe.
Good(p, l, rec, c, S, K) ==
    c \in Consumer /\ (c.muted => c.assigned) /\ ConsOK(p, l, rec, c, S, K)

SpanOK(p, l, span, S) == UpTo(p, l, span.next, S) /\ span.start <= span.next

SafeInv ==
    /\ \A p \in Partition :
          /\ UpTo(p, log[p], committed[p], Safe) /\ UpTo(p, log[p], sent[p], Safe)
          /\ Good(p, log[p], sess.recreated, cons[p], Safe, Kept)
          /\ SpanOK(p, log[p], pub.spans[p], Kept)
    /\ \A i \in SettledRows, p \in Partition : SpanOK(p, log[p], rows[i].span[p], Safe)
    /\ \A r \in ToSet(buf) \cup ToSet(pub.batch) : cons[r[1]].next # NoOffset

\* What a session has accepted and not failed on.
CleanInv ==
    sess.phase # "down" /\ ~sess.failed =>
        accepted \subseteq Stored \cup Poison \cup ToSet(buf) \cup ToSet(pub.batch)

KafkaInv == Typed /\ ShapeInv /\ SafeInv /\ CleanInv

------------------------------------------------------------------------------
(* The operators of KafkaResume.                                           *)

\* A set of numbers has a least one.
LEMMA LeastNat ==
    ASSUME NEW T, T \subseteq Nat, T # {}
    PROVE  \E x \in T : \A y \in T : x <= y
<1> DEFINE R == OpToRel(<, Nat)
<1>1. IsWellFoundedOn(R, Nat)
  BY NatLessThanWellFounded
<1>2. PICK x \in T : \A y \in T : ~ (<<y, x>> \in R)
  <2> HIDE DEF R
  <2> QED
    BY <1>1, WFMin
<1>3. \A y \in Nat : y < x => <<y, x>> \in R
  BY DEF OpToRel
<1>4. \A y \in T : ~(y < x)
  BY <1>2, <1>3
<1> QED
  BY <1>4

LEMMA MinOf ==
    ASSUME NEW T, T \subseteq Int, T # {}, NEW b \in Int, \A y \in T : b <= y
    PROVE  Min(T) \in T /\ \A y \in T : Min(T) <= y
<1> DEFINE N == {y - b : y \in T}
<1>1. N \subseteq Nat /\ N # {}
  <2>1. \A y \in T : y - b \in Nat
    OBVIOUS
  <2> QED
    BY <2>1
<1>2. PICK n \in N : \A m \in N : n <= m
  <2> HIDE DEF N
  <2> QED
    BY <1>1, LeastNat
<1>3. PICK x \in T : n = x - b
  OBVIOUS
<1>4. \A y \in T : x <= y
  <2> TAKE y \in T
  <2>1. n <= y - b
    BY <1>2
  <2> QED
    BY <1>3, <2>1
<1> QED
  BY <1>4 DEF Min

LEMMA MaxOf ==
    ASSUME NEW T, T \subseteq Int, T # {}, NEW b \in Int, \A y \in T : y <= b
    PROVE  Max(T) \in T /\ \A y \in T : y <= Max(T)
<1> DEFINE N == {b - y : y \in T}
<1>1. N \subseteq Nat /\ N # {}
  <2>1. \A y \in T : b - y \in Nat
    OBVIOUS
  <2> QED
    BY <2>1
<1>2. PICK n \in N : \A m \in N : n <= m
  <2> HIDE DEF N
  <2> QED
    BY <1>1, LeastNat
<1>3. PICK x \in T : n = b - x
  OBVIOUS
<1>4. \A y \in T : x >= y
  <2> TAKE y \in T
  <2>1. n <= b - y
    BY <1>2
  <2> QED
    BY <1>3, <2>1
<1>5. \E z \in T : \A y \in T : z >= y
  BY <1>4
<1>6. Max(T) \in T /\ \A y \in T : Max(T) >= y
  BY <1>5 DEF Max
<1>7. Max(T) \in Int
  BY <1>6
<1> QED
  BY <1>6, <1>7

LEMMA MaxOfTwo ==
    ASSUME NEW a \in Int, NEW b \in Int
    PROVE  Max({a, b}) = IF a >= b THEN a ELSE b
<1> DEFINE c == IF a >= b THEN a ELSE b
<1>1. c \in {a, b} /\ \A y \in {a, b} : y <= c
  OBVIOUS
<1>2. Max({a, b}) \in {a, b} /\ \A y \in {a, b} : y <= Max({a, b})
  BY <1>1, MaxOf
<1> QED
  BY <1>1, <1>2

\* advance_contiguous skips loaded offsets only, and all that are contiguous.
LEMMA Advance ==
    ASSUME NEW point \in Int, NEW loaded, loaded \subseteq Int,
           NEW b \in Int, \A o \in loaded : o <= b
    PROVE  LET r == advance_contiguous(point, loaded)
           IN  /\ r \in Int /\ point <= r /\ r \notin loaded
               /\ \A o \in point .. (r - 1) : o \in loaded
<1> DEFINE m == Max(loaded \cup {point})
           T == (point .. m + 1) \ loaded
           bb == IF b >= point THEN b ELSE point
<1>1. m \in loaded \cup {point} /\ \A y \in loaded \cup {point} : y <= m
  <2>1. bb \in Int /\ loaded \cup {point} \subseteq Int /\ loaded \cup {point} # {}
        /\ \A y \in loaded \cup {point} : y <= bb
    OBVIOUS
  <2> HIDE DEF bb
  <2> QED
    BY <2>1, MaxOf
<1>2. m \in Int /\ point <= m
  BY <1>1
<1>3. m + 1 \in T
  <2>1. m + 1 \notin loaded
    BY <1>1, <1>2
  <2> HIDE DEF m
  <2> QED
    BY <2>1, <1>2
<1>4. T \subseteq Int /\ T # {} /\ \A y \in T : point <= y
  BY <1>3, <1>2
<1>5. Min(T) \in T /\ \A y \in T : Min(T) <= y
  <2> HIDE DEF T
  <2> QED
    BY <1>4, MinOf
<1>6. advance_contiguous(point, loaded) = Min(T)
  BY DEF advance_contiguous
<1>7. \A o \in point .. (Min(T) - 1) : o \in loaded
  <2> DEFINE r == Min(T)
  <2>1. r \in point .. m + 1
    BY <1>5
  <2> HIDE DEF r, m
  <2> SUFFICES ASSUME NEW o \in point .. (r - 1), o \notin loaded PROVE FALSE
    BY DEF r
  <2>2. o \in T
    BY <2>1, <1>2
  <2>3. r <= o
    BY <2>2, <1>5 DEF r
  <2> QED
    BY <2>1, <2>3, <1>2
<1>8. Min(T) \in Int /\ point <= Min(T) /\ Min(T) \notin loaded
  BY <1>4, <1>5
<1> QED
  BY <1>6, <1>7, <1>8

LEMMA Clamp ==
    ASSUME NEW target \in Int, NEW low \in Int, NEW high \in Int, low <= high
    PROVE  /\ clamp_resume_target(target, low, high) \in low .. high
           /\ clamp_resume_target(target, low, high) \in {target, low}
BY DEF clamp_resume_target

\* A resolved seek target is in the retained log: it is the target asked for,
\* the low watermark, or the end of a run of loaded offsets.
LEMMA SeekTargets ==
    ASSUME NEW recFloor \in BOOLEAN, NEW resetFloor \in BOOLEAN, NEW fr \in Entry,
           NEW target \in Int, NEW low \in Nat, NEW high \in Nat, low <= high
    PROVE  LET t == resolve_seek_target(recFloor, fr, resetFloor, target, low, high)
           IN  /\ t \in low .. high
               /\ t = target \/ t = low \/ t - 1 \in fr.loaded
               /\ recFloor => t = low \/ t - 1 \in fr.loaded
               /\ ~recFloor /\ resetFloor => t = low
<1>1. fr.loaded \subseteq Int /\ \A o \in fr.loaded : o <= MaxRecords
  BY KafkaAssumption DEF Entry, Offset, NoOffset
<1> DEFINE a == advance_contiguous(low, fr.loaded)
<1>2. a \in Int /\ low <= a /\ (a # low => a - 1 \in fr.loaded)
  <2>1. a \in Int /\ low <= a /\ \A o \in low .. (a - 1) : o \in fr.loaded
    BY <1>1, Advance, KafkaAssumption
  <2> HIDE DEF a
  <2> QED
    BY <2>1
<1>3. recreated_resume_target(low, high, fr) = clamp_resume_target(a, low, high)
  BY DEF recreated_resume_target
<1> HIDE DEF a
<1>4. clamp_resume_target(a, low, high) \in low .. high
      /\ clamp_resume_target(a, low, high) \in {a, low}
  BY <1>2, Clamp
<1>5. clamp_resume_target(target, low, high) \in low .. high
      /\ clamp_resume_target(target, low, high) \in {target, low}
  BY Clamp
<1> QED
  BY <1>2, <1>3, <1>4, <1>5 DEF resolve_seek_target

------------------------------------------------------------------------------
(* Safe offsets.                                                           *)

LEMMA Constants ==
    /\ NoOffset = -1 /\ NoOffset \in Int
    /\ MaxRecords \in Nat /\ Passthrough \in Nat /\ Passthrough > MaxRecords
    /\ Offset = -1 .. MaxRecords /\ NoOffset \in Offset /\ Offset \subseteq Int
    /\ \A o \in Offset : -1 <= o /\ o <= MaxRecords
BY KafkaAssumption, PassthroughAssumption DEF NoOffset, Offset

LEMMA LogBounds ==
    ASSUME NEW l, LogOK(l)
    PROVE  /\ l.low \in Nat /\ Len(l.recs) \in Nat /\ TopOf(l) \in Nat /\ l.epoch \in Nat
           /\ l.low <= Len(l.recs) /\ Len(l.recs) <= TopOf(l) /\ TopOf(l) <= MaxRecords
<1>1. /\ Len(l.recs) \in Nat /\ l.low \in Nat /\ l.cut \in Nat /\ l.born \in 0 .. MaxRecords
      /\ l.epoch \in Nat
  BY DEF Log, LogOK
<1> QED
  BY <1>1, Constants DEF TopOf, LogOK

LEMMA UpToLow ==
    ASSUME NEW l, LogOK(l), NEW p, NEW x \in Int, x <= l.low, NEW S
    PROVE  UpTo(p, l, x, S)
BY LogBounds DEF UpTo

LEMMA UpToLess ==
    ASSUME NEW l, LogOK(l), NEW p, NEW x \in Int, NEW y \in Int, y <= x, NEW S,
           UpTo(p, l, x, S)
    PROVE  UpTo(p, l, y, S)
BY LogBounds DEF UpTo

LEMMA UpToWeaken ==
    ASSUME NEW p, NEW l, NEW x, NEW S, NEW T, UpTo(p, l, x, S),
           \A r \in S : r[1] = p => r \in T
    PROVE  UpTo(p, l, x, T)
BY DEF UpTo

LEMMA GoodWeaken ==
    ASSUME NEW p, NEW l, NEW rec, NEW c, NEW S, NEW K, NEW T, NEW L, Good(p, l, rec, c, S, K),
           \A r \in S : r[1] = p => r \in T,
           \A r \in K : r[1] = p => r \in L
    PROVE  Good(p, l, rec, c, T, L)
<1>1. \A x : UpTo(p, l, x, S) => UpTo(p, l, x, T)
  BY UpToWeaken
<1>2. \A x : UpTo(p, l, x, K) => UpTo(p, l, x, L)
  BY UpToWeaken
<1> QED
  BY <1>1, <1>2 DEF Good, ConsOK, FrontierOK, GateOK

\* The end of a run of loaded offsets is as safe as its start.
LEMMA UpToAdvance ==
    ASSUME NEW l, LogOK(l), NEW p, NEW fr \in Entry, NEW S, FrontierOK(p, l, fr, S),
           NEW x \in Int, UpTo(p, l, x, S)
    PROVE  /\ advance_contiguous(x, fr.loaded) \in Int
           /\ UpTo(p, l, advance_contiguous(x, fr.loaded), S)
<1> DEFINE a == advance_contiguous(x, fr.loaded)
<1>1. fr.loaded \subseteq Int /\ \A o \in fr.loaded : o <= MaxRecords
  BY Constants DEF Entry
<1>2. a \in Int /\ x <= a /\ \A o \in x .. (a - 1) : o \in fr.loaded
  BY <1>1, Advance, Constants
<1> HIDE DEF a
<1>3. CASE a = x
  BY <1>2, <1>3 DEF a
<1>4. CASE a # x
  <2>1. a - 1 \in fr.loaded
    BY <1>2, <1>4
  <2>2. UpTo(p, l, (a - 1) + 1, S)
    BY <2>1 DEF FrontierOK
  <2>3. (a - 1) + 1 = a
    BY <1>2
  <2> QED
    BY <1>2, <2>2, <2>3 DEF a
<1> QED
  BY <1>3, <1>4

------------------------------------------------------------------------------
(* The gate.                                                               *)

LEMMA FloorOf ==
    ASSUME NEW c \in Consumer
    PROVE  /\ SafeFloor(c) = IF c.next >= c.span.next THEN c.next ELSE c.span.next
           /\ SafeFloor(c) \in Offset
           /\ SafeFloor(c) = NoOffset <=> c.next = NoOffset /\ c.span.next = NoOffset
<1>1. c.next \in Offset /\ c.span.next \in Offset
  BY DEF Consumer, Span
<1>2. c.next \in Int /\ c.span.next \in Int
  BY <1>1, Constants
<1> QED
  BY <1>1, <1>2, MaxOfTwo, Constants DEF SafeFloor

LEMMA SynthesizedOK ==
    ASSUME NEW l, LogOK(l), NEW p, NEW fr \in Entry, NEW rec \in BOOLEAN, NEW S,
           FrontierOK(p, l, fr, S)
    PROVE  /\ synthesize_recreated(fr, rec) \in Entry
           /\ FrontierOK(p, l, synthesize_recreated(fr, rec), S)
           /\ synthesize_recreated(fr, rec) = NoEntry <=> fr = NoEntry /\ ~rec
<1>1. CASE rec /\ fr = NoEntry
  <2> DEFINE e == [minStart |-> 0, loaded |-> {}, recreated |-> TRUE]
  <2>1. synthesize_recreated(fr, rec) = e
    BY <1>1 DEF synthesize_recreated
  <2>2. e \in Entry /\ e # NoEntry
    BY Constants DEF Entry, NoEntry
  <2>3. UpTo(p, l, e.minStart, S)
    BY UpToLow, LogBounds
  <2>4. FrontierOK(p, l, e, S)
    BY <2>3 DEF FrontierOK
  <2> HIDE DEF e
  <2> QED
    BY <1>1, <2>1, <2>2, <2>4
<1>2. CASE ~(rec /\ fr = NoEntry)
  BY <1>2 DEF synthesize_recreated
<1> QED
  BY <1>1, <1>2

\* drain_rebalance_and_rearm leaves a partition safe, and lets a record through
\* only where the rebalance had nothing to protect.
LEMMA DrainedGood ==
    ASSUME NEW l, LogOK(l), NEW rec \in BOOLEAN, rec = sess.recreated, NEW p, NEW c,
           NEW S, NEW K, S \subseteq K, Good(p, l, rec, c, S, K)
    PROVE  /\ Good(p, l, rec, Drained(c), S, K)
           /\ Drained(c).notice = {}
           /\ Drained(c).next = c.next /\ Drained(c).span = c.span
           /\ Drained(c).assigned = c.assigned /\ Drained(c).muted = c.muted
           /\ Drained(c).pos = c.pos
<1>0. c \in Consumer /\ ConsOK(p, l, rec, c, S, K) /\ (c.muted => c.assigned)
  BY DEF Good
<1>1. CASE c.notice = {}
  BY <1>1 DEF Drained
<1>2. CASE c.notice # {}
  <2> DEFINE f == synthesize_recreated(c.fr, rec /\ "assigned" \in c.notice)
             d == [c EXCEPT !.notice = {}, !.fr = f,
                            !.paused = @ /\ "revoked" \notin c.notice]
             g == IF SafeFloor(d) # NoOffset THEN NeedsRestore(SafeFloor(d))
                  ELSE IF d.fr # NoEntry THEN NeedsTarget ELSE d.gate
  <2>1. c.fr \in Entry /\ FrontierOK(p, l, c.fr, S)
    BY <1>0 DEF Consumer, ConsOK
  <2>2. f \in Entry /\ FrontierOK(p, l, f, S)
        /\ (f = NoEntry <=> c.fr = NoEntry /\ ~(rec /\ "assigned" \in c.notice))
    BY <2>1, SynthesizedOK
  <2> HIDE DEF f
  <2>3. d \in Consumer
    BY <1>0, <2>2 DEF Consumer
  <2>4. /\ d.notice = {} /\ d.fr = f /\ d.next = c.next /\ d.span = c.span /\ d.gate = c.gate
        /\ d.assigned = c.assigned /\ d.muted = c.muted /\ d.pos = c.pos
    BY <1>0 DEF Consumer
  <2>5. Drained(c) = [d EXCEPT !.gate = g]
    <3>1. Drained(c) = IF SafeFloor(d) # NoOffset
                       THEN [d EXCEPT !.gate = NeedsRestore(SafeFloor(d))]
                       ELSE IF d.fr # NoEntry THEN [d EXCEPT !.gate = NeedsTarget]
                       ELSE d
      BY <1>2 DEF Drained, f
    <3>2. d = [d EXCEPT !.gate = d.gate]
      <4> HIDE DEF d
      <4> QED
        BY <2>3 DEF Consumer
    <3> HIDE DEF d
    <3> QED
      BY <3>1, <3>2
  <2> HIDE DEF d
  <2>6. SafeFloor(d) \in Offset /\ SafeFloor(d) \in {c.next, c.span.next}
        /\ (SafeFloor(d) = NoOffset <=> SafeFloor(c) = NoOffset)
    BY <2>3, <2>4, <1>0, FloorOf
  <2>7. g \in Gate
    BY <2>3, <2>6, Constants DEF Gate, NeedsRestore, NeedsTarget, Consumer
  <2>8. GateOK(p, l, g, K)
    <3>1. \A x : UpTo(p, l, x, S) => UpTo(p, l, x, K)
      BY UpToWeaken
    <3>2. UpTo(p, l, SafeFloor(d), K)
      BY <2>6, <3>1, <1>0 DEF ConsOK
    <3>3. GateOK(p, l, c.gate, K)
      BY <1>0 DEF ConsOK
    <3> QED
      BY <3>2, <3>3, <2>4 DEF GateOK, NeedsRestore, NeedsTarget
  <2>9. g = Active => c.gate = Active /\ SafeFloor(c) = NoOffset /\ c.fr = NoEntry
                      /\ ~(rec /\ "assigned" \in c.notice)
    BY <2>2, <2>4, <2>6 DEF NeedsRestore, NeedsTarget, Active
  <2> HIDE DEF g
  <2> DEFINE e == [d EXCEPT !.gate = g]
  <2>10. e \in Consumer
    BY <2>3, <2>7 DEF Consumer
  <2>11. /\ e.gate = g /\ e.notice = {} /\ e.fr = f /\ e.next = c.next /\ e.span = c.span
         /\ e.assigned = c.assigned /\ e.muted = c.muted /\ e.pos = c.pos
    BY <2>3, <2>4 DEF Consumer
  <2> HIDE DEF e
  <2>12. Through(rec, e) => Through(rec, c)
    BY <2>9, <2>11 DEF Through
  <2>13. ConsOK(p, l, rec, e, S, K)
    BY <1>0, <2>2, <2>8, <2>11, <2>12 DEF ConsOK
  <2> QED
    BY <1>0, <2>5, <2>10, <2>11, <2>13 DEF Good, e
<1> QED
  BY <1>1, <1>2

\* A pending partition is given a target: the gate asks for a seek to an offset
\* below which nothing is lost, or to Passthrough, which is above every log.
LEMMA WithTargetGood ==
    ASSUME NEW l, LogOK(l), NEW rec, NEW p, NEW c, NEW S, NEW K, S \subseteq K,
           Good(p, l, rec, c, S, K), Pending(c), NEW com \in Offset, UpTo(p, l, com, S)
    PROVE  LET a == WithTarget(c, com)
           IN  /\ Good(p, l, rec, a, S, K) /\ a.gate.kind = "seek"
               /\ a.next = c.next /\ a.span = c.span /\ a.fr = c.fr /\ a.pos = c.pos
               /\ a.assigned = c.assigned /\ a.notice = c.notice
               /\ a.recFloor = WithTarget(c, NoOffset).recFloor
               /\ a.tainted = c.tainted
<1>0. c \in Consumer /\ ConsOK(p, l, rec, c, S, K) /\ (c.muted => c.assigned)
  BY DEF Good
<1>1. \A x : UpTo(p, l, x, S) => UpTo(p, l, x, K)
  BY UpToWeaken
<1>2. c.gate \in Gate /\ c.fr \in Entry /\ FrontierOK(p, l, c.fr, S) /\ GateOK(p, l, c.gate, K)
  BY <1>0 DEF Consumer, ConsOK
<1>3. c.gate.kind \in {"target", "seek", "restore"}
  BY <1>2 DEF Gate, GateOK, Pending
<1> DEFINE Facts(a, rf) ==
      /\ Good(p, l, rec, a, S, K) /\ a.gate.kind = "seek"
      /\ a.next = c.next /\ a.span = c.span /\ a.fr = c.fr /\ a.pos = c.pos
      /\ a.assigned = c.assigned /\ a.notice = c.notice
      /\ a.recFloor = rf /\ a.tainted = c.tainted
<1>4. ASSUME NEW t \in Int, UpTo(p, l, t, K) \/ t = Passthrough,
             NEW rf \in BOOLEAN, NEW rs \in BOOLEAN
      PROVE  Facts([c EXCEPT !.gate = NeedsSeek(t), !.recFloor = rf, !.resetFloor = rs], rf)
  <2> DEFINE a == [c EXCEPT !.gate = NeedsSeek(t), !.recFloor = rf, !.resetFloor = rs]
  <2>1. NeedsSeek(t) \in Gate /\ NeedsSeek(t) # Active /\ NeedsSeek(t).kind = "seek"
        /\ NeedsSeek(t).at = t
    BY <1>4 DEF Gate, NeedsSeek, Active
  <2>2. a \in Consumer
    BY <1>0, <1>4, <2>1 DEF Consumer
  <2>3. /\ a.gate = NeedsSeek(t) /\ a.next = c.next /\ a.span = c.span /\ a.fr = c.fr
        /\ a.pos = c.pos /\ a.assigned = c.assigned /\ a.notice = c.notice
        /\ a.recFloor = rf /\ a.muted = c.muted /\ a.tainted = c.tainted
    BY <1>0 DEF Consumer
  <2> HIDE DEF a
  <2>4. GateOK(p, l, a.gate, K)
    BY <1>4, <2>1, <2>3 DEF GateOK
  <2>5. ConsOK(p, l, rec, a, S, K)
    BY <1>0, <2>1, <2>3, <2>4 DEF ConsOK, Through
  <2> QED
    BY <1>0, <2>1, <2>2, <2>3, <2>5 DEF Good, a
<1> SUFFICES Facts(WithTarget(c, com), WithTarget(c, NoOffset).recFloor)
  OBVIOUS
<1>5. CASE c.gate.kind = "seek"
  BY <1>0, <1>5 DEF WithTarget, Good
<1> HIDE DEF Facts
<1>6. CASE c.gate.kind = "restore"
  <2> DEFINE t == restore_target(Untrusted(c), com, c.gate.at)
  <2>1. c.gate.at \in Int /\ UpTo(p, l, c.gate.at, K)
    BY <1>2, <1>6 DEF Gate, GateOK
  <2>2. t \in {com, c.gate.at}
    <3>1. Max({com, c.gate.at}) \in {com, c.gate.at}
      BY <2>1, Constants, MaxOfTwo
    <3> QED
      BY <3>1 DEF restore_target
  <2>3. t \in Int /\ UpTo(p, l, t, K)
    BY <2>1, <2>2, <1>1, Constants
  <2>4. WithTarget(c, com) = [c EXCEPT !.gate = NeedsSeek(t)]
    BY <1>6 DEF WithTarget
  <2>5. WithTarget(c, NoOffset).recFloor = c.recFloor
    BY <1>0, <1>6 DEF WithTarget, Consumer
  <2> HIDE DEF t
  <2>6. WithTarget(c, com)
          = [c EXCEPT !.gate = NeedsSeek(t), !.recFloor = c.recFloor, !.resetFloor = c.resetFloor]
    BY <1>0, <2>4 DEF Consumer
  <2>7. c.recFloor \in BOOLEAN /\ c.resetFloor \in BOOLEAN
    BY <1>0 DEF Consumer
  <2> QED
    BY <1>4, <2>3, <2>5, <2>6, <2>7
<1>7. CASE c.gate.kind = "target"
  <2> DEFINE u == IF Untrusted(c) THEN NoOffset ELSE com
             t == resume_offset(u, c.fr)
             rf == c.recFloor \/ c.fr.recreated
             rs == c.resetFloor \/ (~c.fr.recreated /\ c.reset)
  <2>1. u \in Offset /\ UpTo(p, l, u, S)
    <3>1. UpTo(p, l, NoOffset, S)
      BY UpToLow, LogBounds, Constants
    <3> QED
      BY <3>1, Constants
  <2>2. rf \in BOOLEAN /\ rs \in BOOLEAN
    BY <1>0, <1>2 DEF Consumer, Entry
  <2>3. t \in Int /\ (UpTo(p, l, t, S) \/ t = Passthrough)
    <3> DEFINE point == IF c.fr.recreated THEN 0
                        ELSE IF u = NoOffset THEN c.fr.minStart
                        ELSE Min({u, c.fr.minStart})
    <3>1. c.fr.minStart \in Int /\ 0 \in Int /\ u \in Int
      BY <1>2, <2>1, Constants DEF Entry
    <3>2. UpTo(p, l, 0, S)
      BY UpToLow, LogBounds
    <3>3. UpTo(p, l, c.fr.minStart, S) \/ (c.fr.minStart = Passthrough /\ c.fr.loaded = {})
      BY <1>2 DEF FrontierOK
    <3>4. ASSUME u # NoOffset
          PROVE  Min({u, c.fr.minStart}) \in Int /\ UpTo(p, l, Min({u, c.fr.minStart}), S)
      <4> DEFINE M == {u, c.fr.minStart}
      <4>1. M \subseteq Int /\ M # {}
        BY <3>1
      <4>2. \E b \in Int : \A y \in M : b <= y
        <5>1. CASE u <= c.fr.minStart
          BY <5>1, <3>1
        <5>2. CASE ~(u <= c.fr.minStart)
          BY <5>2, <3>1
        <5> QED
          BY <5>1, <5>2
      <4>3. Min(M) \in M /\ \A y \in M : Min(M) <= y
        <5> HIDE DEF M
        <5> QED
          BY <4>1, <4>2, MinOf
      <4>4. Min(M) \in Int /\ Min(M) <= u
        BY <4>1, <4>3
      <4> HIDE DEF u
      <4> QED
        BY <4>4, <2>1, <3>1, UpToLess
    <3>5. point \in Int /\ (UpTo(p, l, point, S) \/ (point = Passthrough /\ c.fr.loaded = {}))
      BY <3>1, <3>2, <3>3, <3>4
    <3>6. t = advance_contiguous(point, c.fr.loaded)
      BY DEF resume_offset
    <3> HIDE DEF point, t, u
    <3>7. CASE UpTo(p, l, point, S)
      BY <3>5, <3>6, <3>7, <1>2, UpToAdvance
    <3>8. CASE point = Passthrough /\ c.fr.loaded = {}
      <4>1. /\ advance_contiguous(point, {}) \in Int
            /\ point <= advance_contiguous(point, {})
            /\ \A o \in point .. (advance_contiguous(point, {}) - 1) : o \in {}
        BY <3>5, Advance
      <4>2. advance_contiguous(point, {}) = point
        BY <4>1, <3>5
      <4> QED
        BY <3>5, <3>6, <3>8, <4>2
    <3> QED
      BY <3>5, <3>7, <3>8
  <2>4. WithTarget(c, com)
          = [c EXCEPT !.gate = NeedsSeek(t), !.recFloor = rf, !.resetFloor = rs]
    BY <1>0, <1>7 DEF WithTarget, Consumer
  <2>5. WithTarget(c, NoOffset).recFloor = rf
    BY <1>0, <1>7 DEF WithTarget, Consumer
  <2> HIDE DEF t, rf, rs
  <2> QED
    BY <1>1, <1>4, <2>2, <2>3, <2>4, <2>5
<1> QED
  BY <1>3, <1>5, <1>6, <1>7

\* A seek lands in the retained log with nothing lost behind it; where it is not
\* the target asked for, nothing behind it needs the buffer either.
LEMMA SeekSafe ==
    ASSUME NEW p, NEW l, l = log[p], LogOK(l), NEW rec, NEW a, NEW S, NEW K, S \subseteq K,
           Good(p, l, rec, a, S, K), a.gate.kind = "seek"
    PROVE  /\ SeekTo(p, a) \in l.low .. Len(l.recs)
           /\ SeekTo(p, a) \in Offset \ {NoOffset}
           /\ UpTo(p, l, SeekTo(p, a), K)
           /\ a.recFloor \/ Floored(a) \/ a.gate.at # SeekTo(p, a) => UpTo(p, l, SeekTo(p, a), S)
<1>0. a \in Consumer /\ ConsOK(p, l, rec, a, S, K)
  BY DEF Good
<1>1. /\ a.recFloor \in BOOLEAN /\ Floored(a) \in BOOLEAN /\ a.fr \in Entry /\ a.gate.at \in Int
      /\ Floored(a) => ~a.recFloor
  BY <1>0 DEF Consumer, Gate, Floored
<1>2. /\ l.low \in Nat /\ Len(l.recs) \in Nat /\ l.low <= Len(l.recs) /\ Len(l.recs) <= TopOf(l)
      /\ TopOf(l) <= MaxRecords /\ TopOf(l) \in Nat
  BY LogBounds
<1> DEFINE t == SeekTo(p, a)
<1>3. /\ t \in l.low .. Len(l.recs)
      /\ t = a.gate.at \/ t = l.low \/ t - 1 \in a.fr.loaded
      /\ a.recFloor => t = l.low \/ t - 1 \in a.fr.loaded
      /\ ~a.recFloor /\ Floored(a) => t = l.low
  <2> DEFINE rf == a.recFloor
             fl == Floored(a)
             fr == a.fr
             at == a.gate.at
             low == l.low
             high == Len(l.recs)
             u == resolve_seek_target(rf, fr, fl, at, low, high)
  <2>1. t = u
    BY DEF SeekTo, High
  <2>2. /\ rf \in BOOLEAN /\ fl \in BOOLEAN /\ fr \in Entry /\ at \in Int
        /\ low \in Nat /\ high \in Nat /\ low <= high
    BY <1>1, <1>2
  <2> HIDE DEF rf, fl, fr, at, low, high, t
  <2>3. /\ u \in low .. high
        /\ u = at \/ u = low \/ u - 1 \in fr.loaded
        /\ rf => u = low \/ u - 1 \in fr.loaded
        /\ ~rf /\ fl => u = low
    BY <2>2, SeekTargets
  <2> HIDE DEF u
  <2> QED
    BY <2>1, <2>3 DEF rf, fl, fr, at, low, high
<1> HIDE DEF t
<1>4. t \in Nat /\ t <= Len(l.recs) /\ t <= MaxRecords
  BY <1>2, <1>3, Constants
<1>5. t = l.low \/ t - 1 \in a.fr.loaded => UpTo(p, l, t, S)
  <2>1. t = l.low => UpTo(p, l, t, S)
    BY <1>2, <1>4, UpToLow
  <2>2. ASSUME t - 1 \in a.fr.loaded PROVE UpTo(p, l, t, S)
    <3>1. UpTo(p, l, (t - 1) + 1, S)
      BY <2>2, <1>0 DEF ConsOK, FrontierOK
    <3>2. (t - 1) + 1 = t
      BY <1>4
    <3> QED
      BY <3>1, <3>2
  <2> QED
    BY <2>1, <2>2
<1>6. UpTo(p, l, t, S) => UpTo(p, l, t, K)
  BY UpToWeaken
<1>7. t = a.gate.at => UpTo(p, l, t, K)
  <2>1. t # Passthrough
    BY <1>4, Constants
  <2> QED
    BY <2>1, <1>0 DEF ConsOK, GateOK
<1> QED
  BY <1>1, <1>3, <1>4, <1>5, <1>6, <1>7, Constants DEF t

\* A gated partition after an attempt.
After(p, c, out, pauseOk) ==
    [Attempt(p, c, out, pauseOk) EXCEPT !.astray = @ \/ Overtaken(p, c),
                                        !.epoch = IF Misplaced(p, c, out) THEN 0 ELSE @]

\* What a failed seek taken for a no-op jumps over is not lost.
JumpKept(p, l, c, out, K) ==
    Misplaced(p, c, out) =>
        \A o \in l.low .. (Len(l.recs) - 1) :
            SeekTo(p, WithTarget(c, committed[p])) <= o /\ o < c.pos => <<p, l.recs[o + 1]>> \in K

LEMMA AttemptGood ==
    ASSUME NEW p, NEW l, l = log[p], LogOK(l), NEW rec, NEW c, NEW S, NEW K, S \subseteq K,
           Good(p, l, rec, c, S, K), Pending(c), committed[p] \in Offset, UpTo(p, l, committed[p], S),
           NEW out \in Outcome, NEW pauseOk \in BOOLEAN, JumpKept(p, l, c, out, K)
    PROVE  /\ Good(p, l, rec, After(p, c, out, pauseOk), S, K)
           /\ c.next # NoOffset => After(p, c, out, pauseOk).next # NoOffset
           /\ c.span = NoSpan => After(p, c, out, pauseOk).span = NoSpan
<1> DEFINE com == committed[p]
           a == WithTarget(c, com)
           w == WithWatermarks(p, a)
           t == SeekTo(p, a)
           rebase == Floored(a) \/ a.gate.at # t
           s == Sought(p, w, t, rebase)
<1>0. c \in Consumer /\ ConsOK(p, l, rec, c, S, K) /\ c.assigned
  BY DEF Good, Pending
<1>1. /\ Good(p, l, rec, a, S, K) /\ a.gate.kind = "seek"
      /\ a.next = c.next /\ a.span = c.span /\ a.fr = c.fr /\ a.pos = c.pos
      /\ a.assigned = c.assigned /\ a.notice = c.notice /\ a.tainted = c.tainted
  BY WithTargetGood
<1>2. /\ t \in l.low .. Len(l.recs) /\ t \in Offset \ {NoOffset} /\ UpTo(p, l, t, K)
      /\ rebase => UpTo(p, l, t, S)
  <2> HIDE DEF a
  <2> QED
    BY <1>1, SeekSafe
<1>3. /\ w \in Consumer /\ w.gate = a.gate /\ w.next = c.next /\ w.span = c.span /\ w.fr = c.fr
      /\ w.pos = c.pos /\ w.assigned = c.assigned /\ w.notice = c.notice /\ w.tainted = c.tainted
  <2> HIDE DEF a
  <2>1. a \in Consumer
    BY <1>1 DEF Good
  <2> DEFINE sh == offset_space_shrank(a.recFloor, Floored(a), a.gate.at, Len(l.recs)) /\ ~a.reset
  <2>3. sh \in BOOLEAN
    BY DEF offset_space_shrank
  <2>4. w = [a EXCEPT !.reset = @ \/ sh, !.resetFloor = @ \/ sh]
    BY DEF WithWatermarks, High
  <2> HIDE DEF sh, w
  <2>5. w \in Consumer
    BY <2>1, <2>3, <2>4 DEF Consumer
  <2>6. /\ w.gate = a.gate /\ w.next = a.next /\ w.span = a.span /\ w.fr = a.fr /\ w.pos = a.pos
        /\ w.assigned = a.assigned /\ w.notice = a.notice /\ w.tainted = a.tainted
    BY <2>1, <2>4 DEF Consumer
  <2> QED
    BY <1>1, <2>5, <2>6
<1>4. a \in Consumer /\ a.gate # Active /\ ConsOK(p, l, rec, a, S, K)
  BY <1>1 DEF Good, Active
<1>5. t \in Nat /\ t <= TopOf(l)
  BY <1>2, LogBounds
<1>6. rebase \in BOOLEAN
  BY <1>4 DEF Floored, Consumer
<1> HIDE DEF rebase
<1>7. /\ s \in Consumer /\ s.pos = t /\ s.gate = NeedsSeek(t)
      /\ s.next = (IF rebase THEN t ELSE c.next) /\ s.span = (IF rebase THEN NoSpan ELSE c.span)
      /\ s.fr = c.fr /\ s.assigned = c.assigned /\ s.notice = c.notice
  <2> HIDE DEF a, w, t
  <2>1. NeedsSeek(t) \in Gate /\ NoSpan \in Span
    BY <1>5, Constants DEF NeedsSeek, Gate, NoSpan, Span
  <2>2. s = [w EXCEPT !.pos = t, !.gate = NeedsSeek(t), !.recFloor = FALSE,
                      !.next = IF rebase THEN t ELSE @, !.span = IF rebase THEN NoSpan ELSE @,
                      !.epoch = IF Floored(w) THEN l.epoch ELSE @]
    BY DEF Sought
  <2>5. l.epoch \in Nat
    BY LogBounds
  <2> HIDE DEF s
  <2>3. s \in Consumer
    BY <1>2, <1>3, <1>5, <2>1, <2>2, <2>5 DEF Consumer
  <2>4. /\ s.pos = t /\ s.gate = NeedsSeek(t) /\ s.fr = w.fr /\ s.assigned = w.assigned
        /\ s.notice = w.notice
        /\ s.next = (IF rebase THEN t ELSE w.next) /\ s.span = (IF rebase THEN NoSpan ELSE w.span)
    BY <1>3, <2>2 DEF Consumer
  <2> QED
    BY <1>3, <2>3, <2>4
\* The three ways an attempt can end.
<1> DEFINE Ends(e) == /\ e \in Consumer /\ e.assigned /\ ConsOK(p, l, rec, e, S, K)
                      /\ c.next # NoOffset => e.next # NoOffset
                      /\ c.span = NoSpan => e.span = NoSpan
           Same(e, f) == /\ e \in Consumer /\ e.next = f.next /\ e.span = f.span /\ e.fr = f.fr
                         /\ e.pos = f.pos /\ e.assigned = f.assigned /\ e.notice = f.notice
<1>8. ASSUME NEW e, NEW f, Ends(f), Same(e, f), e.gate = f.gate
      PROVE  Ends(e)
  <2>1. Through(rec, e) => Through(rec, f)
    BY <1>8, FloorOf DEF Through
  <2> QED
    BY <1>8, <2>1 DEF ConsOK
<1>9. Ends(c)
  BY <1>0
<1>10. Ends(a)
  BY <1>0, <1>1, <1>4
<1>11. Ends(w)
  <2>1. Same(w, a)
    BY <1>1, <1>3
  <2> HIDE DEF a, w, Ends, Same
  <2> QED
    BY <1>3, <1>8, <1>10, <2>1
<1>12. Ends(s)
  <2>1. UpTo(p, l, s.next, S)
    BY <1>0, <1>2, <1>7 DEF ConsOK
  <2>2. UpTo(p, l, s.span.next, K) /\ s.span.start <= s.span.next
    <3>1. NoSpan.next = NoOffset /\ NoSpan.start = NoOffset
      BY DEF NoSpan
    <3>2. UpTo(p, l, NoOffset, K)
      BY UpToLow, LogBounds, Constants
    <3> QED
      BY <1>0, <1>7, <3>1, <3>2, Constants DEF ConsOK
  <2>3. GateOK(p, l, s.gate, K)
    BY <1>2, <1>7 DEF GateOK, NeedsSeek
  <2>4. FrontierOK(p, l, s.fr, S)
    BY <1>0, <1>7 DEF ConsOK
  <2>5. s.pos <= TopOf(l) /\ UpTo(p, l, s.pos, K)
    BY <1>2, <1>5, <1>7
  <2> QED
    BY <1>0, <1>2, <1>7, <2>1, <2>2, <2>3, <2>4, <2>5 DEF ConsOK
<1>13. ASSUME NEW f, Ends(f), UpTo(p, l, f.pos, K)
       PROVE  Ends(Activated(f))
  <2> DEFINE e == Activated(f)
  <2>1. Active \in Gate
    BY Constants DEF Active, Gate
  <2>2. e = [f EXCEPT !.muted = @ /\ ~f.paused, !.paused = FALSE, !.gate = Active,
                      !.tainted = FALSE, !.recFloor = FALSE, !.resetFloor = FALSE]
    BY DEF Activated
  <2>3. f \in Consumer
    BY <1>13
  <2> HIDE DEF e
  <2>4. e \in Consumer
    BY <2>1, <2>2, <2>3 DEF Consumer
  <2>5. /\ e.gate = Active /\ e.next = f.next /\ e.span = f.span /\ e.fr = f.fr
        /\ e.pos = f.pos /\ e.assigned = f.assigned
    BY <2>2, <2>3 DEF Consumer
  <2>6. GateOK(p, l, e.gate, K)
    BY <2>5 DEF GateOK, Active
  <2>7. ConsOK(p, l, rec, f, S, K) /\ UpTo(p, l, f.pos, K)
    BY <1>13
  <2>8. ConsOK(p, l, rec, e, S, K)
    BY <2>5, <2>6, <2>7 DEF ConsOK
  <2> QED
    BY <1>13, <2>4, <2>5, <2>8 DEF e
<1>14. ASSUME NEW f, Ends(f)
       PROVE  Ends(Paused(f, pauseOk))
  <2> DEFINE e == Paused(f, pauseOk)
  <2>1. e = [f EXCEPT !.paused = @ \/ pauseOk, !.muted = @ \/ pauseOk]
    BY DEF Paused
  <2>2. f \in Consumer
    BY <1>14
  <2> HIDE DEF e
  <2>3. e \in Consumer
    BY <2>1, <2>2 DEF Consumer
  <2>4. /\ e.gate = f.gate /\ e.next = f.next /\ e.span = f.span /\ e.fr = f.fr
        /\ e.pos = f.pos /\ e.assigned = f.assigned /\ e.notice = f.notice
    BY <2>1, <2>2 DEF Consumer
  <2>5. Same(e, f)
    BY <2>3, <2>4
  <2> HIDE DEF Ends, Same
  <2> QED
    BY <1>8, <1>14, <2>4, <2>5 DEF e
<1>15. out = "noseek" /\ may_noop_failed_seek(w, com, t) => UpTo(p, l, w.pos, K)
  <2> SUFFICES ASSUME out = "noseek", may_noop_failed_seek(w, com, t)
               PROVE  UpTo(p, l, c.pos, K)
    BY <1>3
  <2>1. may_noop_failed_seek(c, com, t)
    BY <1>3 DEF may_noop_failed_seek
  <2>2. CASE c.pos = t
    BY <1>2, <2>2
  <2>3. CASE c.pos # t
    <3>1. Misplaced(p, c, out)
      BY <2>1, <2>3 DEF Misplaced
    <3>2. \A o \in l.low .. (Len(l.recs) - 1) : t <= o /\ o < c.pos => <<p, l.recs[o + 1]>> \in K
      BY <3>1 DEF JumpKept
    <3>3. c.pos <= TopOf(l) /\ c.pos \in Nat
      BY <1>0 DEF ConsOK, Consumer
    <3>4. l.low .. (Len(l.recs) - 1) \subseteq Int
      BY LogBounds
    <3> HIDE DEF t
    <3> QED
      BY <1>2, <1>5, <3>2, <3>3, <3>4 DEF UpTo
  <2> QED
    BY <2>2, <2>3
<1>16. Ends(Attempt(p, c, out, pauseOk))
  <2> DEFINE q == Attempt(p, c, out, pauseOk)
  <2>1. q = CASE out = "nocommit" -> Paused(c, pauseOk)
              [] out = "nowatermark" -> Paused(a, pauseOk)
              [] out = "noseek" -> IF may_noop_failed_seek(w, com, t) THEN Activated(w)
                                   ELSE Paused(w, pauseOk)
              [] out = "noseekfetch" -> Paused(w, pauseOk)
              [] out = "noresume" -> s
              [] out = "ok" -> Activated(s)
    BY DEF Attempt, rebase
  <2>2. UpTo(p, l, s.pos, K)
    BY <1>2, <1>7
  <2> HIDE DEF a, w, t, s, com, q, Ends
  <2>3. CASE out = "nocommit"
    BY <2>1, <2>3, <1>9, <1>14 DEF q
  <2>4. CASE out = "nowatermark"
    BY <2>1, <2>4, <1>10, <1>14 DEF q
  <2>5. CASE out = "noseek"
    BY <2>1, <2>5, <1>11, <1>13, <1>14, <1>15 DEF q
  <2>6. CASE out = "noseekfetch"
    BY <2>1, <2>6, <1>11, <1>14 DEF q
  <2>7. CASE out = "noresume"
    BY <2>1, <2>7, <1>12 DEF q
  <2>8. CASE out = "ok"
    BY <2>1, <2>8, <2>2, <1>12, <1>13 DEF q
  <2> QED
    BY <2>3, <2>4, <2>5, <2>6, <2>7, <2>8 DEF Outcome
<1> DEFINE q == Attempt(p, c, out, pauseOk)
           b == Overtaken(p, c)
           m == Misplaced(p, c, out)
           e == [q EXCEPT !.astray = @ \/ b, !.epoch = IF m THEN 0 ELSE @]
<1>17. q \in Consumer
  BY <1>16
<1>22. b \in BOOLEAN
  BY DEF Overtaken
<1> HIDE DEF q, b, m
<1>18. e \in Consumer
  BY <1>17, <1>22 DEF Consumer
<1>19. /\ e.gate = q.gate /\ e.next = q.next /\ e.span = q.span /\ e.fr = q.fr
       /\ e.pos = q.pos /\ e.assigned = q.assigned /\ e.notice = q.notice
  BY <1>17 DEF Consumer
<1>20. Same(e, q)
  BY <1>18, <1>19
<1> HIDE DEF e
<1>21. Ends(e)
  <2> HIDE DEF Ends, Same
  <2> QED
    BY <1>8, <1>16, <1>19, <1>20 DEF q
<1> QED
  BY <1>21 DEF Good, e, q, b, m, After

LEMMA RecordTyped ==
    ASSUME BrokerTyped, NEW p \in Partition, NEW o \in Retained(p)
    PROVE  /\ RecordAt(p, o) = <<p, log[p].recs[o + 1]>>
           /\ RecordAt(p, o) \in Record
           /\ o \in log[p].low .. (Len(log[p].recs) - 1)
<1>1. LogOK(log[p])
  BY DEF BrokerTyped
<1>2. o \in Int /\ o + 1 \in 1 .. Len(log[p].recs)
  BY <1>1, LogBounds DEF Retained, High
<1>3. log[p].recs[o + 1] \in 1 .. MaxRecords
  <2> DEFINE q == log[p].recs
  <2>1. q \in Seq(1 .. MaxRecords)
    BY <1>1 DEF LogOK, Log
  <2>2. o + 1 \in 1 .. Len(q)
    BY <1>2
  <2> HIDE DEF q
  <2>3. q[o + 1] \in 1 .. MaxRecords
    BY <2>1, <2>2, ElementOfSeq
  <2> QED
    BY <2>3 DEF q
<1> QED
  BY <1>3 DEF RecordAt, Record, Retained, High

LEMMA IncidentTyped ==
    ASSUME NEW n \in Nat, Incident(n), incidents \in 0 .. MaxIncidents
    PROVE  incidents' \in 0 .. MaxIncidents
BY KafkaAssumption DEF Incident

LEMMA JumpsKept ==
    ASSUME NEW p \in Partition, LogOK(log[p]), committed[p] \in Offset, NEW rec, NEW c, NEW S, NEW T,
           S \subseteq T, Good(p, log[p], rec, c, S, T), Pending(c), UpTo(p, log[p], committed[p], S),
           NEW out, NEW K, \A r \in Accounted : r[1] = p /\ ~c.tainted => r \in K,
           Misplaced(p, c, out) => Jumped(p, c) \subseteq K
    PROVE  JumpKept(p, log[p], c, out, K)
<1> DEFINE t == SeekTo(p, WithTarget(c, committed[p]))
<1> SUFFICES ASSUME Misplaced(p, c, out), NEW o \in log[p].low .. (Len(log[p].recs) - 1),
                    t <= o, o < c.pos
             PROVE  <<p, log[p].recs[o + 1]>> \in K
  BY DEF JumpKept
<1> DEFINE r == <<p, log[p].recs[o + 1]>>
<1>1. o \in Retained(p) /\ r = RecordAt(p, o)
  BY DEF Retained, High, RecordAt
<1>2. ~c.tainted
  BY DEF Misplaced, may_noop_failed_seek
<1>3. CASE r \in Accounted
  <2>1. r[1] = p
    OBVIOUS
  <2> HIDE DEF r
  <2> QED
    BY <1>2, <1>3, <2>1 DEF r
<1>4. CASE r \notin Accounted
  <2>1. t \in Int /\ c.pos \in Int /\ o \in Int
    <3> DEFINE a == WithTarget(c, committed[p])
    <3>1. Good(p, log[p], rec, a, S, T) /\ a.gate.kind = "seek"
      BY WithTargetGood
    <3> HIDE DEF a
    <3>2. SeekTo(p, a) \in Offset
      BY <3>1, SeekSafe
    <3> QED
      BY <3>2, LogBounds, Constants DEF Good, Consumer, a
  <2> HIDE DEF t
  <2>2. o \in Retained(p) \cap t .. (c.pos - 1)
    BY <1>1, <2>1
  <2>3. r \in Jumped(p, c)
    BY <1>1, <1>4, <2>2 DEF Jumped, t
  <2> QED
    BY <2>3
<1> QED
  BY <1>3, <1>4

\* What a pass needs: S and K are what is safe and kept after the step; what was
\* accounted for before it has to be kept.
PassPre(cs, rec, S, K) ==
    /\ S \subseteq K
    /\ \A p \in Partition : /\ Good(p, log[p], rec, cs[p], S, K)
                            /\ UpTo(p, log[p], committed[p], S)
                            /\ UpTo(p, log[p], sent[p], S)
    /\ \A p \in Partition : \A r \in Accounted :
          r[1] = p /\ Pending(cs[p]) /\ ~cs[p].tainted => r \in K

\* try_activate_pending leaves every partition safe.
LEMMA PassGood ==
    ASSUME BrokerTyped, HistoryTyped, NEW cs, NEW S, NEW K, NEW rec, PassPre(cs, rec, S, K),
           NEW cost \in Nat, NEW lost \in SUBSET Record, TryActivatePendingAfter(cost, lost, cs),
           gap' \subseteq S
    PROVE  /\ cons' \in [Partition -> Consumer] /\ sent' \in [Partition -> Offset]
           /\ \A p \in Partition :
                 /\ Good(p, log[p], rec, cons'[p], S, K)
                 /\ UpTo(p, log[p], sent'[p], S)
                 /\ cs[p].next # NoOffset => cons'[p].next # NoOffset
                 /\ cs[p].span = NoSpan => cons'[p].span = NoSpan
           /\ degraded' \in BOOLEAN /\ incidents' \in 0 .. MaxIncidents
           /\ gap' \in SUBSET Record
<1>0. /\ S \subseteq K
      /\ \A p \in Partition : /\ Good(p, log[p], rec, cs[p], S, K)
                              /\ UpTo(p, log[p], committed[p], S)
                              /\ UpTo(p, log[p], sent[p], S)
      /\ \A p \in Partition : \A r \in Accounted :
            r[1] = p /\ Pending(cs[p]) /\ ~cs[p].tainted => r \in K
  BY DEF PassPre
<1> DEFINE pending == {p \in Partition : Pending(cs[p])}
<1>1. PICK out \in [pending -> Outcome], pauseOk \in BOOLEAN :
         LET misplaced == {p \in pending : Misplaced(p, cs[p], out[p])}
         IN  /\ Incident(cost + Cardinality({p \in pending : out[p] # "ok"}))
             /\ cons' = [p \in Partition |->
                           IF p \in pending
                           THEN [Attempt(p, cs[p], out[p], pauseOk) EXCEPT
                                   !.astray = @ \/ Overtaken(p, cs[p]),
                                   !.epoch = IF Misplaced(p, cs[p], out[p]) THEN 0 ELSE @]
                           ELSE cs[p]]
             /\ sent' = [p \in Partition |->
                           IF p \in pending /\ out[p] \in {"ok", "noresume"}
                              /\ WithTarget(cs[p], NoOffset).recFloor
                           THEN SeekTo(p, WithTarget(cs[p], committed[p]))
                           ELSE sent[p]]
             /\ gap' = gap \cup lost \cup UNION {Jumped(p, cs[p]) : p \in misplaced}
             /\ degraded' = (degraded \/ lost # {} \/ misplaced # {} \/ Stranded # {}
                               \/ \E p \in Partition : cons'[p].astray)
  BY DEF TryActivatePendingAfter
<1> DEFINE misplaced == {p \in pending : Misplaced(p, cs[p], out[p])}
<1>2. ASSUME NEW p \in pending
      PROVE  LET e == After(p, cs[p], out[p], pauseOk)
             IN  /\ Good(p, log[p], rec, e, S, K)
                 /\ cs[p].next # NoOffset => e.next # NoOffset
                 /\ cs[p].span = NoSpan => e.span = NoSpan
  <2>1. p \in Partition /\ Pending(cs[p]) /\ out[p] \in Outcome
    OBVIOUS
  <2>3. LogOK(log[p]) /\ committed[p] \in Offset
    BY <2>1 DEF BrokerTyped
  <2>5. Good(p, log[p], rec, cs[p], S, K) /\ UpTo(p, log[p], committed[p], S) /\ S \subseteq K
    BY <1>0, <2>1
  <2>6. JumpKept(p, log[p], cs[p], out[p], K)
    <3>1. Misplaced(p, cs[p], out[p]) => Jumped(p, cs[p]) \subseteq K
      <4>1. Misplaced(p, cs[p], out[p]) => Jumped(p, cs[p]) \subseteq gap'
        BY <1>1
      <4> QED
        BY <1>0, <4>1
    <3>2. \A r \in Accounted : r[1] = p /\ ~cs[p].tainted => r \in K
      BY <1>0, <2>1
    <3> QED
      BY <2>1, <2>3, <2>5, <3>1, <3>2, JumpsKept
  <2> DEFINE c == cs[p]
             l == log[p]
             u == out[p]
  <2>7. /\ l = log[p] /\ LogOK(l) /\ Good(p, l, rec, c, S, K) /\ Pending(c)
        /\ committed[p] \in Offset /\ UpTo(p, l, committed[p], S) /\ u \in Outcome
        /\ JumpKept(p, l, c, u, K) /\ S \subseteq K
    BY <2>1, <2>3, <2>5, <2>6
  <2> HIDE DEF c, l, u
  <2>8. LET e == After(p, c, u, pauseOk)
        IN  /\ Good(p, l, rec, e, S, K)
            /\ c.next # NoOffset => e.next # NoOffset
            /\ c.span = NoSpan => e.span = NoSpan
    BY <2>7, AttemptGood
  <2> QED
    BY <2>8 DEF c, l, u
<1>3. ASSUME NEW p \in Partition
      PROVE  /\ Good(p, log[p], rec, cons'[p], S, K)
             /\ cs[p].next # NoOffset => cons'[p].next # NoOffset
             /\ cs[p].span = NoSpan => cons'[p].span = NoSpan
  <2>1. CASE p \in pending
    <3>1. cons'[p] = After(p, cs[p], out[p], pauseOk)
      BY <1>1, <2>1 DEF After
    <3> QED
      BY <1>2, <2>1, <3>1
  <2>2. CASE p \notin pending
    BY <1>0, <1>1, <2>2
  <2> QED
    BY <2>1, <2>2
<1>4. ASSUME NEW p \in Partition
      PROVE  sent'[p] \in Offset /\ UpTo(p, log[p], sent'[p], S)
  <2> DEFINE a == WithTarget(cs[p], committed[p])
  <2>1. CASE p \in pending /\ out[p] \in {"ok", "noresume"} /\ WithTarget(cs[p], NoOffset).recFloor
    <3>1. sent'[p] = SeekTo(p, a)
      BY <1>1, <2>1
    <3>2. Good(p, log[p], rec, a, S, K) /\ a.gate.kind = "seek" /\ a.recFloor
          /\ LogOK(log[p]) /\ S \subseteq K
      BY <1>0, <2>1, WithTargetGood DEF BrokerTyped
    <3> HIDE DEF a
    <3> QED
      BY <3>1, <3>2, SeekSafe
  <2>2. CASE ~(p \in pending /\ out[p] \in {"ok", "noresume"} /\ WithTarget(cs[p], NoOffset).recFloor)
    BY <1>0, <1>1, <2>2 DEF BrokerTyped
  <2> QED
    BY <2>1, <2>2
<1>5. cons' \in [Partition -> Consumer] /\ sent' \in [Partition -> Offset]
  <2>1. \A p \in Partition : cons'[p] \in Consumer
    BY <1>3 DEF Good
  <2> QED
    BY <1>1, <1>4, <2>1
<1>6. incidents' \in 0 .. MaxIncidents
  <2>1. IsFiniteSet({p \in pending : out[p] # "ok"})
    BY PartitionAssumption, FS_Subset
  <2>2. cost + Cardinality({p \in pending : out[p] # "ok"}) \in Nat
    BY <2>1, FS_CardinalityType
  <2> QED
    BY <1>1, <2>2, IncidentTyped DEF HistoryTyped
<1>7. gap' \in SUBSET Record
  <2>1. \A p \in pending : Jumped(p, cs[p]) \subseteq Record
    BY RecordTyped DEF Jumped
  <2> QED
    BY <1>1, <2>1 DEF HistoryTyped
<1>8. degraded' \in BOOLEAN
  BY <1>1
<1> QED
  BY <1>3, <1>4, <1>5, <1>6, <1>7, <1>8

------------------------------------------------------------------------------
(* Steps.                                                                  *)

\* Whatever was safe or kept below an offset before the step is so after it.
Moves ==
    \A p \in Partition :
        /\ TopOf(log[p]) <= TopOf(log'[p])
        /\ \A x \in Int : /\ UpTo(p, log[p], x, Safe) => UpTo(p, log'[p], x, Safe')
                          /\ UpTo(p, log[p], x, Kept) => UpTo(p, log'[p], x, Kept')

LEMMA GoodMoves ==
    ASSUME Moves, BrokerTyped, BrokerTyped', NEW p \in Partition, NEW rec, NEW c,
           Good(p, log[p], rec, c, Safe, Kept)
    PROVE  Good(p, log'[p], rec, c, Safe', Kept')
<1>1. /\ c \in Consumer /\ (c.muted => c.assigned) /\ ConsOK(p, log[p], rec, c, Safe, Kept)
      /\ c.next \in Int /\ c.span.next \in Int /\ c.pos \in Int /\ c.gate.at \in Int
      /\ c.fr.minStart \in Int /\ c.fr.loaded \subseteq Int
  BY Constants DEF Good, Consumer, Span, Gate, Entry
<1>2. \A x \in Int : /\ UpTo(p, log[p], x, Safe) => UpTo(p, log'[p], x, Safe')
                     /\ UpTo(p, log[p], x, Kept) => UpTo(p, log'[p], x, Kept')
  BY DEF Moves
<1>3. UpTo(p, log'[p], c.next, Safe') /\ UpTo(p, log'[p], c.span.next, Kept')
  BY <1>1, <1>2 DEF ConsOK
<1>4. FrontierOK(p, log'[p], c.fr, Safe')
  <2>1. \A o \in c.fr.loaded : o + 1 \in Int
    BY <1>1
  <2> QED
    BY <1>1, <1>2, <2>1 DEF ConsOK, FrontierOK
<1>5. GateOK(p, log'[p], c.gate, Kept')
  BY <1>1, <1>2 DEF ConsOK, GateOK
<1>6. c.assigned => c.pos <= TopOf(log'[p])
  <2>1. TopOf(log[p]) \in Nat /\ TopOf(log'[p]) \in Nat /\ TopOf(log[p]) <= TopOf(log'[p])
    BY LogBounds DEF BrokerTyped, Moves
  <2> QED
    BY <1>1, <2>1 DEF ConsOK
<1>7. Through(rec, c) => UpTo(p, log'[p], c.pos, Kept')
  BY <1>1, <1>2 DEF ConsOK
<1> QED
  BY <1>1, <1>3, <1>4, <1>5, <1>6, <1>7 DEF Good, ConsOK

\* The same log and no smaller sets.
LEMMA MovesUp ==
    ASSUME log' = log, BrokerTyped, Safe \subseteq Safe', Kept \subseteq Kept'
    PROVE  Moves
<1>1. \A p \in Partition : TopOf(log[p]) <= TopOf(log[p])
  BY LogBounds DEF BrokerTyped
<1> QED
  BY <1>1, UpToWeaken DEF Moves

\* A step that touches neither rows nor the publication.
LEMMA SameStock ==
    ASSUME rows' = rows, pub'.phase \in {"swap", "rollback"} <=> pub.phase \in {"swap", "rollback"}
    PROVE  Stored' = Stored /\ SettledRows' = SettledRows
BY DEF Stored, SettledRows, InStock, RowRecords

\* Steps of the broker that change only its log.
LEMMA LogStep ==
    ASSUME KafkaInv, BrokerTyped', Moves,
           UNCHANGED <<committed, sent, rows, sess, cons, buf, pub>>
    PROVE  SafeInv'
<1>1. BrokerTyped /\ SafeInv /\ SessionTyped
  BY DEF KafkaInv, Typed
<1>2. SettledRows' = SettledRows
  BY SameStock
<1>3. \A p \in Partition : /\ committed[p] \in Int /\ sent[p] \in Int /\ pub.spans[p].next \in Int
                           /\ \A i \in DOMAIN rows : rows[i].span[p].next \in Int
  <2>1. \A i \in DOMAIN rows : rows[i] \in Row
    BY <1>1, ElementOfSeq DEF SessionTyped
  <2> QED
    BY <1>1, <2>1, Constants DEF BrokerTyped, SessionTyped, Row, Span
<1>4. \A p \in Partition : /\ UpTo(p, log'[p], committed[p], Safe')
                           /\ UpTo(p, log'[p], sent[p], Safe')
                           /\ SpanOK(p, log'[p], pub.spans[p], Kept')
  BY <1>1, <1>3 DEF SafeInv, SpanOK, Moves
<1>5. \A p \in Partition : Good(p, log'[p], sess.recreated, cons[p], Safe', Kept')
  BY <1>1, GoodMoves DEF SafeInv
<1>6. \A i \in SettledRows, p \in Partition : SpanOK(p, log'[p], rows[i].span[p], Safe')
  BY <1>1, <1>3 DEF SafeInv, SpanOK, Moves, SettledRows
<1> QED
  BY <1>1, <1>2, <1>4, <1>5, <1>6 DEF SafeInv

LEMMA Unmoved ==
    ASSUME KafkaInv, UNCHANGED <<rows, sess, cons, buf, pub, accepted>>
    PROVE  SessionTyped' /\ ConsTyped' /\ ShapeInv' /\ CleanInv'
<1>1. SessionTyped' /\ ConsTyped'
  BY DEF KafkaInv, Typed, SessionTyped, ConsTyped
<1>2. ShapeInv'
  BY DEF KafkaInv, ShapeInv
<1>3. CleanInv'
  BY SameStock DEF KafkaInv, CleanInv
<1> QED
  BY <1>1, <1>2, <1>3

LEMMA ProducedLog ==
    ASSUME NEW p, NEW l, LogOK(l), l.born < MaxRecords, NEW m,
           m = [l EXCEPT !.born = @ + 1, !.recs = Append(@, l.born + 1)]
    PROVE  /\ LogOK(m) /\ TopOf(l) <= TopOf(m)
           /\ \A x \in Int : \A S, T :
                 /\ S \subseteq T /\ (Len(l.recs) < l.cut => <<p, l.born + 1>> \in T)
                 /\ UpTo(p, l, x, S)
                 => UpTo(p, m, x, T)
<1>1. /\ l.low \in Nat /\ l.recs \in Seq(1 .. MaxRecords) /\ l.born \in 0 .. MaxRecords
      /\ l.epoch \in Nat /\ l.cut \in Nat /\ Len(l.recs) \in Nat
      /\ l.low <= Len(l.recs) /\ Len(l.recs) <= l.born /\ l.cut <= l.born
  BY DEF LogOK, Log
<1>2. /\ m.low = l.low /\ m.recs = Append(l.recs, l.born + 1) /\ m.born = l.born + 1
      /\ m.epoch = l.epoch /\ m.cut = l.cut
  BY DEF LogOK, Log
<1>3. l.born + 1 \in 1 .. MaxRecords /\ l.born + 1 \in 0 .. MaxRecords
  BY <1>1, Constants
<1>4. /\ m.recs \in Seq(1 .. MaxRecords) /\ Len(m.recs) = Len(l.recs) + 1
      /\ m.recs[Len(l.recs) + 1] = l.born + 1
      /\ \A o \in l.low .. (Len(l.recs) - 1) : m.recs[o + 1] = l.recs[o + 1]
  <2> DEFINE r == l.recs
             v == l.born + 1
  <2>1. r \in Seq(1 .. MaxRecords) /\ v \in 1 .. MaxRecords
    BY <1>1, <1>3
  <2> HIDE DEF r, v
  <2>2. /\ Append(r, v) \in Seq(1 .. MaxRecords) /\ Len(Append(r, v)) = Len(r) + 1
        /\ Append(r, v)[Len(r) + 1] = v
        /\ \A k \in 1 .. Len(r) : Append(r, v)[k] = r[k]
    BY <2>1, AppendProperties
  <2>3. \A o \in l.low .. (Len(l.recs) - 1) : o + 1 \in 1 .. Len(r)
    BY <1>1 DEF r
  <2> QED
    BY <1>2, <2>2, <2>3 DEF r, v
<1>5. m \in Log
  <2>1. m = [low |-> m.low, recs |-> m.recs, born |-> m.born, epoch |-> m.epoch, cut |-> m.cut]
    BY DEF LogOK, Log
  <2> QED
    BY <2>1, <1>1, <1>2, <1>3, <1>4 DEF Log
<1>6. LogOK(m)
  BY <1>1, <1>2, <1>4, <1>5 DEF LogOK
<1>7. TopOf(l) <= TopOf(m) /\ TopOf(l) \in Nat /\ TopOf(m) \in Nat
  BY <1>1, <1>2, <1>4 DEF TopOf
<1>8. ASSUME NEW x \in Int, NEW S, NEW T, S \subseteq T,
             Len(l.recs) < l.cut => <<p, l.born + 1>> \in T, UpTo(p, l, x, S)
      PROVE  UpTo(p, m, x, T)
  <2>1. x <= TopOf(l)
    BY <1>8 DEF UpTo
  <2>2. x <= TopOf(m)
    BY <1>7, <2>1
  <2>3. ASSUME NEW o \in m.low .. (Len(m.recs) - 1), o < x
        PROVE  <<p, m.recs[o + 1]>> \in T
    <3>1. CASE o < Len(l.recs)
      <4>1. o \in l.low .. (Len(l.recs) - 1)
        BY <1>1, <1>2, <3>1
      <4> QED
        BY <1>4, <1>8, <2>3, <4>1 DEF UpTo
    <3>2. CASE ~(o < Len(l.recs))
      <4>1. o = Len(l.recs)
        BY <1>1, <1>2, <1>4, <3>2
      <4>2. Len(l.recs) < l.cut
        BY <1>1, <2>1, <2>3, <4>1 DEF TopOf
      <4> QED
        BY <1>4, <1>8, <4>1, <4>2
    <3> QED
      BY <3>1, <3>2
  <2> QED
    BY <2>2, <2>3 DEF UpTo
<1> QED
  BY <1>6, <1>7, <1>8

\* Retention, truncation and recreation: the log keeps a part of its records at
\* their offsets, and its highest end.
LEMMA ShrunkLog ==
    ASSUME NEW p, NEW l, LogOK(l), NEW m, LogOK(m), TopOf(l) <= TopOf(m),
           Len(m.recs) > m.low => l.low <= m.low,
           Len(m.recs) <= Len(l.recs),
           \A k \in 1 .. Len(m.recs) : m.recs[k] = l.recs[k],
           NEW x \in Int, NEW S, UpTo(p, l, x, S)
    PROVE  UpTo(p, m, x, S)
<1>1. /\ l.low \in Nat /\ m.low \in Nat /\ Len(l.recs) \in Nat /\ Len(m.recs) \in Nat
      /\ TopOf(l) \in Nat /\ TopOf(m) \in Nat
  BY LogBounds
<1>2. x <= TopOf(m)
  BY <1>1 DEF UpTo
<1>3. ASSUME NEW o \in m.low .. (Len(m.recs) - 1), o < x
      PROVE  <<p, m.recs[o + 1]>> \in S
  <2>1. o \in l.low .. (Len(l.recs) - 1) /\ o + 1 \in 1 .. Len(m.recs)
    BY <1>1
  <2> QED
    BY <1>3, <2>1 DEF UpTo
<1> QED
  BY <1>2, <1>3 DEF UpTo

LEMMA RetainedLog ==
    ASSUME NEW p, NEW l, LogOK(l), l.low < Len(l.recs), NEW m, m = [l EXCEPT !.low = @ + 1]
    PROVE  /\ LogOK(m) /\ TopOf(l) <= TopOf(m)
           /\ \A x \in Int : \A S : UpTo(p, l, x, S) => UpTo(p, m, x, S)
<1>1. /\ m.low = l.low + 1 /\ m.recs = l.recs /\ m.born = l.born /\ m.epoch = l.epoch
      /\ m.cut = l.cut /\ m \in Log
  BY DEF LogOK, Log
<1>2. LogOK(m)
  <2>1. l.low \in Nat /\ Len(l.recs) \in Nat
    BY LogBounds
  <2> QED
    BY <1>1, <2>1 DEF LogOK
<1>3. TopOf(l) <= TopOf(m)
  BY <1>1, LogBounds DEF TopOf
<1>4. l.low <= m.low /\ Len(m.recs) <= Len(l.recs) /\ \A k \in 1 .. Len(m.recs) : m.recs[k] = l.recs[k]
  BY <1>1, LogBounds
<1> QED
  BY <1>2, <1>3, <1>4, ShrunkLog

LEMMA CutLog ==
    ASSUME NEW p, NEW l, LogOK(l), NEW m, NEW low \in Nat, NEW keep \in Nat,
           keep <= Len(l.recs), low <= keep, low = l.low \/ keep = low,
           m = [l EXCEPT !.low = low, !.recs = SubSeq(l.recs, 1, keep), !.epoch = @ + 1,
                         !.cut = Max({l.cut, Len(l.recs)})]
    PROVE  /\ LogOK(m) /\ TopOf(l) <= TopOf(m)
           /\ \A x \in Int : \A S : UpTo(p, l, x, S) => UpTo(p, m, x, S)
<1>1. /\ l.low \in Nat /\ l.recs \in Seq(1 .. MaxRecords) /\ l.born \in 0 .. MaxRecords
      /\ l.epoch \in Nat /\ l.cut \in Nat /\ Len(l.recs) \in Nat
      /\ l.low <= Len(l.recs) /\ Len(l.recs) <= l.born /\ l.cut <= l.born
  BY DEF LogOK, Log
<1>2. Max({l.cut, Len(l.recs)}) = TopOf(l) /\ TopOf(l) \in Nat /\ TopOf(l) <= l.born
  <2>1. Max({l.cut, Len(l.recs)}) = IF l.cut >= Len(l.recs) THEN l.cut ELSE Len(l.recs)
    BY <1>1, MaxOfTwo
  <2> QED
    BY <2>1, <1>1 DEF TopOf
<1>3. /\ m.low = low /\ m.recs = SubSeq(l.recs, 1, keep) /\ m.born = l.born
      /\ m.epoch = l.epoch + 1 /\ m.cut = TopOf(l)
  BY <1>2 DEF LogOK, Log
<1>4. /\ m.recs \in Seq(1 .. MaxRecords) /\ Len(m.recs) = keep
      /\ \A k \in 1 .. keep : m.recs[k] = l.recs[k]
  <2> DEFINE r == l.recs
  <2>1. r \in Seq(1 .. MaxRecords) /\ keep <= Len(r) /\ Len(r) \in Nat
    BY <1>1
  <2> HIDE DEF r
  <2>2. SubSeq(r, 1, keep) \in Seq(1 .. MaxRecords) /\ Len(SubSeq(r, 1, keep)) = keep
        /\ \A k \in 1 .. keep : SubSeq(r, 1, keep)[k] = r[k]
    <3>1. \A k \in 1 .. keep : r[k] \in 1 .. MaxRecords
      <4>1. \A k \in 1 .. keep : k \in 1 .. Len(r)
        BY <2>1
      <4> QED
        BY <2>1, <4>1, ElementOfSeq
    <3>2. /\ SubSeq(r, 1, keep) \in Seq(1 .. MaxRecords)
          /\ Len(SubSeq(r, 1, keep)) = IF 1 <= keep THEN keep - 1 + 1 ELSE 0
          /\ \A k \in 1 .. keep - 1 + 1 : SubSeq(r, 1, keep)[k] = r[1 + k - 1]
      <4>1. keep \in 1 - 1 .. Len(r) /\ 1 \in 1 .. Len(r) + 1
        BY <2>1
      <4> QED
        BY <2>1, <3>1, <4>1, SubSeqProperties
    <3> QED
      BY <3>2
  <2> QED
    BY <1>3, <2>2 DEF r
<1>5. m \in Log
  <2>1. l \in Log
    BY DEF LogOK
  <2>2. m = [l EXCEPT !.low = m.low, !.recs = m.recs, !.epoch = m.epoch, !.cut = m.cut]
    BY <2>1, <1>3 DEF Log
  <2>3. m.low \in Nat /\ m.recs \in Seq(1 .. MaxRecords) /\ m.epoch \in Nat /\ m.cut \in Nat
    BY <1>1, <1>2, <1>3, <1>4
  <2> QED
    BY <2>1, <2>2, <2>3 DEF Log
<1>6. LogOK(m)
  BY <1>1, <1>2, <1>3, <1>4, <1>5 DEF LogOK
<1>7. TopOf(l) <= TopOf(m)
  BY <1>2, <1>3, <1>4 DEF TopOf
<1>8. /\ Len(m.recs) > m.low => l.low <= m.low
      /\ Len(m.recs) <= Len(l.recs)
      /\ \A k \in 1 .. Len(m.recs) : m.recs[k] = l.recs[k]
  BY <1>1, <1>3, <1>4
<1> QED
  BY <1>6, <1>7, <1>8, ShrunkLog

------------------------------------------------------------------------------
(* The broker.                                                             *)

LEMMA ProduceStep ==
    ASSUME KafkaInv, NEW p \in Partition, Produce(p)
    PROVE  KafkaInv'
<1> DEFINE l == log[p]
           m == [l EXCEPT !.born = @ + 1, !.recs = Append(@, l.born + 1)]
<1>1. BrokerTyped /\ HistoryTyped /\ LogOK(l) /\ l.born < MaxRecords
  BY DEF KafkaInv, Typed, BrokerTyped, Produce
<1>2. log' = [log EXCEPT ![p] = m]
  BY DEF Produce
<1> HIDE DEF m
<1>3. /\ LogOK(m) /\ TopOf(l) <= TopOf(m)
      /\ \A x \in Int : \A S, T :
            /\ S \subseteq T /\ (Len(l.recs) < l.cut => <<p, l.born + 1>> \in T)
            /\ UpTo(p, l, x, S)
            => UpTo(p, m, x, T)
  BY <1>1, ProducedLog DEF m
<1>4. shadow \subseteq shadow' /\ (Len(l.recs) < l.cut => <<p, l.born + 1>> \in shadow')
      /\ shadow' \subseteq shadow \cup {<<p, l.born + 1>>}
  BY DEF Produce, High
<1>5. log' \in [Partition -> Log] /\ log'[p] = m /\ \A q \in Partition : q # p => log'[q] = log[q]
  <2>1. m \in Log
    BY <1>3 DEF LogOK
  <2> QED
    BY <1>1, <1>2, <2>1 DEF BrokerTyped
<1>6. BrokerTyped'
  <2>1. \A q \in Partition : LogOK(log'[q])
    BY <1>1, <1>3, <1>5 DEF BrokerTyped
  <2> QED
    BY <1>1, <1>5, <2>1 DEF BrokerTyped, Produce
<1>7. HistoryTyped'
  <2>1. <<p, l.born + 1>> \in Record
    <3>1. l.born + 1 \in 1 .. MaxRecords
      BY <1>1, Constants DEF LogOK, Log
    <3> QED
      BY <3>1 DEF Record
  <2> QED
    BY <1>1, <1>4, <2>1 DEF HistoryTyped, Produce
<1>8. /\ Safe \subseteq Safe' /\ Kept \subseteq Kept'
      /\ Len(l.recs) < l.cut => <<p, l.born + 1>> \in Safe' /\ <<p, l.born + 1>> \in Kept'
  <2>1. Stored' = Stored
    BY SameStock DEF Produce
  <2> QED
    BY <1>4, <2>1 DEF Safe, Kept, Produce
<1>9. Moves
  <2>1. ASSUME NEW q \in Partition, q # p
        PROVE  /\ TopOf(log[q]) <= TopOf(log'[q])
               /\ \A x : /\ UpTo(q, log[q], x, Safe) => UpTo(q, log'[q], x, Safe')
                         /\ UpTo(q, log[q], x, Kept) => UpTo(q, log'[q], x, Kept')
    <3>1. log'[q] = log[q] /\ TopOf(log[q]) \in Nat
      BY <1>1, <1>5, <2>1, LogBounds DEF BrokerTyped
    <3> QED
      BY <1>8, <3>1, UpToWeaken
  <2>2. /\ TopOf(log[p]) <= TopOf(log'[p])
        /\ \A x \in Int : /\ UpTo(p, log[p], x, Safe) => UpTo(p, log'[p], x, Safe')
                          /\ UpTo(p, log[p], x, Kept) => UpTo(p, log'[p], x, Kept')
    BY <1>3, <1>5, <1>8
  <2> QED
    BY <2>1, <2>2 DEF Moves
<1> QED
  BY <1>6, <1>7, <1>9, LogStep, Unmoved DEF Produce, KafkaInv, Typed

\* A log step that hides records and gives no number out again.
LEMMA ShrinkStep ==
    ASSUME KafkaInv, log' \in [Partition -> Log],
           \A p \in Partition :
               /\ LogOK(log'[p]) /\ TopOf(log[p]) <= TopOf(log'[p])
               /\ \A x \in Int : \A S : UpTo(p, log[p], x, S) => UpTo(p, log'[p], x, S),
           topic' \in Nat, incidents' \in 0 .. MaxIncidents, degraded' \in BOOLEAN,
           UNCHANGED <<committed, sent, rows, sess, cons, buf, pub, accepted, excused, gap, shadow>>
    PROVE  KafkaInv'
<1>1. BrokerTyped' /\ HistoryTyped'
  BY DEF KafkaInv, Typed, BrokerTyped, HistoryTyped
<1>2. Safe' = Safe /\ Kept' = Kept
  BY SameStock DEF Safe, Kept
<1>3. Moves
  BY <1>2 DEF Moves
<1> QED
  BY <1>1, <1>3, LogStep, Unmoved DEF KafkaInv, Typed

LEMMA RetainStep ==
    ASSUME KafkaInv, NEW p \in Partition, Retain(p)
    PROVE  KafkaInv'
<1> DEFINE l == log[p]
           m == [l EXCEPT !.low = @ + 1]
<1>1. BrokerTyped /\ HistoryTyped /\ LogOK(l) /\ l.low < Len(l.recs)
  BY DEF KafkaInv, Typed, BrokerTyped, Retain, High
<1>2. log' = [log EXCEPT ![p] = m]
  BY DEF Retain
<1> HIDE DEF m
<1>3. /\ LogOK(m) /\ TopOf(l) <= TopOf(m)
      /\ \A x \in Int : \A S : UpTo(p, l, x, S) => UpTo(p, m, x, S)
  BY <1>1, RetainedLog DEF m
<1>4. m \in Log
  BY <1>3 DEF LogOK
<1>5. log' \in [Partition -> Log] /\ log'[p] = m /\ \A q \in Partition : q # p => log'[q] = log[q]
  BY <1>1, <1>2, <1>4 DEF BrokerTyped
<1>6. \A q \in Partition :
        /\ LogOK(log'[q]) /\ TopOf(log[q]) <= TopOf(log'[q])
        /\ \A x \in Int : \A S : UpTo(q, log[q], x, S) => UpTo(q, log'[q], x, S)
  <2> TAKE q \in Partition
  <2>1. LogOK(log[q]) /\ TopOf(log[q]) \in Nat
    BY <1>1, LogBounds DEF BrokerTyped
  <2> QED
    BY <1>3, <1>5, <2>1
<1>7. topic' \in Nat /\ incidents' \in 0 .. MaxIncidents /\ degraded' \in BOOLEAN
  <2>1. incidents' \in 0 .. MaxIncidents
    BY <1>1, IncidentTyped DEF HistoryTyped, Retain
  <2> QED
    BY <1>1, <2>1 DEF BrokerTyped, HistoryTyped, Retain
<1> QED
  BY <1>5, <1>6, <1>7, ShrinkStep DEF Retain

LEMMA TruncateStep ==
    ASSUME KafkaInv, NEW p \in Partition, NEW keep, Truncate(p, keep)
    PROVE  KafkaInv'
<1> DEFINE l == log[p]
           m == [l EXCEPT !.low = l.low, !.recs = SubSeq(l.recs, 1, keep), !.epoch = @ + 1,
                          !.cut = Max({l.cut, Len(l.recs)})]
<1>1. BrokerTyped /\ HistoryTyped /\ LogOK(l)
  BY DEF KafkaInv, Typed, BrokerTyped
<1>2. keep \in Nat /\ keep <= Len(l.recs) /\ l.low <= keep /\ l.low \in Nat
  BY <1>1, LogBounds DEF Truncate, Retained, High
<1>3. log' = [log EXCEPT ![p] = m]
  <2>1. log' = [log EXCEPT ![p] = [l EXCEPT !.recs = SubSeq(@, 1, keep), !.epoch = @ + 1,
                                            !.cut = Max({@, Len(l.recs)})]]
    BY DEF Truncate, High
  <2>2. m = [l EXCEPT !.recs = SubSeq(@, 1, keep), !.epoch = @ + 1,
                      !.cut = Max({@, Len(l.recs)})]
    BY <1>1 DEF LogOK, Log
  <2> QED
    BY <2>1, <2>2
<1> HIDE DEF m
<1>4. /\ LogOK(m) /\ TopOf(l) <= TopOf(m)
      /\ \A x \in Int : \A S : UpTo(p, l, x, S) => UpTo(p, m, x, S)
  BY <1>1, <1>2, CutLog DEF m
<1>5. m \in Log
  BY <1>4 DEF LogOK
<1>6. log' \in [Partition -> Log] /\ log'[p] = m /\ \A q \in Partition : q # p => log'[q] = log[q]
  BY <1>1, <1>3, <1>5 DEF BrokerTyped
<1>7. \A q \in Partition :
        /\ LogOK(log'[q]) /\ TopOf(log[q]) <= TopOf(log'[q])
        /\ \A x \in Int : \A S : UpTo(q, log[q], x, S) => UpTo(q, log'[q], x, S)
  <2> TAKE q \in Partition
  <2>1. LogOK(log[q]) /\ TopOf(log[q]) \in Nat
    BY <1>1, LogBounds DEF BrokerTyped
  <2> QED
    BY <1>4, <1>6, <2>1
<1>8. topic' \in Nat /\ incidents' \in 0 .. MaxIncidents /\ degraded' \in BOOLEAN
  <2>1. incidents' \in 0 .. MaxIncidents
    BY <1>1, IncidentTyped DEF HistoryTyped, Truncate
  <2> QED
    BY <1>1, <2>1 DEF BrokerTyped, Truncate
<1> QED
  BY <1>6, <1>7, <1>8, ShrinkStep DEF Truncate

LEMMA RecreateStep ==
    ASSUME KafkaInv, Recreate
    PROVE  KafkaInv'
<1>1. BrokerTyped /\ HistoryTyped
  BY DEF KafkaInv, Typed
<1>2. ASSUME NEW p \in Partition
      PROVE  /\ log'[p] \in Log /\ LogOK(log'[p]) /\ TopOf(log[p]) <= TopOf(log'[p])
             /\ \A x \in Int : \A S : UpTo(p, log[p], x, S) => UpTo(p, log'[p], x, S)
  <2> DEFINE l == log[p]
             m == [l EXCEPT !.low = 0, !.recs = SubSeq(l.recs, 1, 0), !.epoch = @ + 1,
                            !.cut = Max({l.cut, Len(l.recs)})]
  <2>1. LogOK(l) /\ Len(l.recs) \in Nat
    BY <1>1, LogBounds DEF BrokerTyped
  <2>2. SubSeq(l.recs, 1, 0) = <<>>
    <3>1. l.recs \in Seq(1 .. MaxRecords)
      BY <2>1 DEF LogOK, Log
    <3> QED
      BY <3>1
  <2>3. log'[p] = m
    BY <2>2 DEF Recreate, High
  <2> HIDE DEF m
  <2>4. /\ LogOK(m) /\ TopOf(l) <= TopOf(m)
        /\ \A x \in Int : \A S : UpTo(p, l, x, S) => UpTo(p, m, x, S)
    <3> DEFINE z == 0
    <3>1. z \in Nat /\ z <= Len(l.recs) /\ z <= z /\ z = z
      BY <2>1
    <3>2. m = [l EXCEPT !.low = z, !.recs = SubSeq(l.recs, 1, z), !.epoch = @ + 1,
                        !.cut = Max({l.cut, Len(l.recs)})]
      BY DEF m
    <3> HIDE DEF z
    <3> QED
      BY <2>1, <3>1, <3>2, CutLog
  <2> QED
    BY <2>3, <2>4 DEF LogOK
<1>3. log' \in [Partition -> Log]
  BY <1>2 DEF Recreate
<1>4. topic' \in Nat /\ incidents' \in 0 .. MaxIncidents /\ degraded' \in BOOLEAN
  <2>1. incidents' \in 0 .. MaxIncidents
    BY <1>1, IncidentTyped DEF HistoryTyped, Recreate
  <2>2. topic' \in Nat
    <3>1. topic \in Nat /\ topic' = topic + 1
      BY <1>1 DEF BrokerTyped, Recreate
    <3> QED
      BY <3>1
  <2> QED
    BY <2>1, <2>2 DEF Recreate
<1> QED
  BY <1>2, <1>3, <1>4, ShrinkStep DEF Recreate

LEMMA CommitStep ==
    ASSUME KafkaInv, NEW p \in Partition, LandCommit(p) \/ LoseCommit(p)
    PROVE  KafkaInv'
<1>1. BrokerTyped /\ HistoryTyped /\ SafeInv
  BY DEF KafkaInv, Typed
<1>2. /\ committed' \in [Partition -> Offset] /\ sent' \in [Partition -> Offset]
      /\ \A q \in Partition : /\ committed'[q] \in {committed[q], sent[q]}
                              /\ sent'[q] \in {sent[q], NoOffset}
  BY <1>1, Constants DEF BrokerTyped, LandCommit, LoseCommit, brokerVars
<1>3. UNCHANGED <<log, topic, rows, sess, cons, buf, pub, accepted, excused, gap, shadow, degraded>>
  BY DEF LandCommit, LoseCommit, brokerVars, historyVars
<1>4. incidents' \in 0 .. MaxIncidents
  BY <1>1, IncidentTyped DEF HistoryTyped, LandCommit, LoseCommit
<1>5. BrokerTyped' /\ HistoryTyped'
  BY <1>1, <1>2, <1>3, <1>4 DEF BrokerTyped, HistoryTyped
<1>6. Safe' = Safe /\ Kept' = Kept /\ SettledRows' = SettledRows
  BY <1>3, SameStock DEF Safe, Kept
<1>7. ASSUME NEW q \in Partition
      PROVE  UpTo(q, log[q], committed'[q], Safe) /\ UpTo(q, log[q], sent'[q], Safe)
  <2>1. LogOK(log[q]) /\ NoOffset \in Int /\ NoOffset <= log[q].low
    BY <1>1, LogBounds, Constants DEF BrokerTyped
  <2>2. UpTo(q, log[q], NoOffset, Safe)
    BY <2>1, UpToLow
  <2>3. UpTo(q, log[q], committed[q], Safe) /\ UpTo(q, log[q], sent[q], Safe)
    BY <1>1 DEF SafeInv
  <2> QED
    BY <1>2, <2>2, <2>3
<1>8. SafeInv'
  BY <1>1, <1>3, <1>6, <1>7 DEF SafeInv
<1> QED
  BY <1>3, <1>5, <1>8, Unmoved DEF KafkaInv, Typed

LEMMA IdleGood ==
    ASSUME NEW p, NEW l, LogOK(l), NEW rec, NEW S, NEW K, NEW fr \in Entry,
           FrontierOK(p, l, fr, S), NEW g \in {Active, NeedsTarget}, NEW e \in Nat, NEW c,
           c = [IdleCons EXCEPT !.fr = fr, !.epoch = e, !.gate = g]
    PROVE  Good(p, l, rec, c, S, K) /\ Quiet(c)
<1>1. NoOffset \in Int /\ NoOffset <= l.low
  BY LogBounds, Constants
<1>2. UpTo(p, l, NoOffset, S) /\ UpTo(p, l, NoOffset, K)
  BY <1>1, UpToLow
<1>3. g \in Gate /\ GateOK(p, l, g, K)
  BY Constants DEF Gate, GateOK, Active, NeedsTarget
<1>4. NoSpan \in Span
  BY Constants DEF Span, NoSpan
<1>5. /\ c.assigned = FALSE /\ c.muted = FALSE /\ c.fr = fr /\ c.gate = g /\ c.next = NoOffset
      /\ c.span = NoSpan /\ c.notice = {}
  BY DEF IdleCons
<1>6. c \in Consumer
  BY <1>3, <1>4, Constants DEF IdleCons, Consumer
<1>7. NoSpan.next = NoOffset /\ NoSpan.start = NoOffset
  BY DEF NoSpan
<1> QED
  BY <1>1, <1>2, <1>3, <1>5, <1>6, <1>7 DEF Good, ConsOK, Through, Quiet

LEMMA IdleConsGood ==
    ASSUME NEW p, NEW l, LogOK(l), NEW rec, NEW S, NEW K
    PROVE  Good(p, l, rec, IdleCons, S, K) /\ Quiet(IdleCons)
<1>1. NoOffset \in Int /\ NoOffset <= l.low
  BY LogBounds, Constants
<1>2. UpTo(p, l, NoOffset, S)
  BY <1>1, UpToLow
<1>3. NoEntry \in Entry /\ FrontierOK(p, l, NoEntry, S)
  BY <1>2, Constants DEF Entry, NoEntry, FrontierOK
<1>4. IdleCons = [IdleCons EXCEPT !.fr = NoEntry, !.epoch = 0, !.gate = Active]
  <2>1. Active \in Gate /\ NoSpan \in Span
    BY Constants DEF Gate, Active, Span, NoSpan
  <2>2. /\ IdleCons.fr = NoEntry /\ IdleCons.epoch = 0 /\ IdleCons.gate = Active
        /\ IdleCons \in Consumer
    BY <1>3, <2>1, Constants DEF IdleCons, Consumer
  <2> QED
    BY <2>2 DEF Consumer
<1> DEFINE e == 0
<1>5. e \in Nat /\ Active \in {Active, NeedsTarget}
      /\ IdleCons = [IdleCons EXCEPT !.fr = NoEntry, !.epoch = e, !.gate = Active]
  BY <1>4
<1> HIDE DEF e
<1> QED
  BY <1>3, <1>5, IdleGood

\* What a session could publish is kept.
LEMMA AccountedKept ==
    ASSUME KafkaInv
    PROVE  Accounted \subseteq Kept
<1> SUFFICES ASSUME NEW r \in Held PROVE r \in Kept
  BY DEF Accounted, Kept, Safe
<1>1. PICK i \in DOMAIN rows : r \in RowRecords(i)
  BY DEF Held
<1>2. CASE i \in SettledRows
  BY <1>1, <1>2 DEF Stored, Kept, Safe
<1>3. CASE i \notin SettledRows
  <2>1. pub.phase \in {"swap", "rollback"} /\ i = Len(rows)
    BY <1>3 DEF SettledRows, InStock
  <2>2. rows[i].recs = pub.batch
    BY <2>1 DEF KafkaInv, ShapeInv
  <2> QED
    BY <1>1, <2>2 DEF RowRecords, Kept
<1> QED
  BY <1>2, <1>3

\* The client's reset policy puts a position where nothing is lost.
LEMMA PolicyPosition ==
    ASSUME KafkaInv, NEW p \in Partition,
           ~UseEarliest => RetainedRecords(p) \ Accounted \subseteq excused', NEW x,
           x = (IF UseEarliest THEN log[p].low ELSE High(p)),
           Kept \subseteq Kept', excused' \subseteq Kept'
    PROVE  x \in Nat /\ x <= TopOf(log[p]) /\ UpTo(p, log[p], x, Kept')
<1>1. LogOK(log[p])
  BY DEF KafkaInv, Typed, BrokerTyped
<1>2. CASE UseEarliest
  <2>1. x \in Nat /\ x <= TopOf(log[p]) /\ x <= log[p].low
    BY <1>1, <1>2, LogBounds
  <2> QED
    BY <1>1, <2>1, UpToLow
<1>3. CASE ~UseEarliest
  <2>1. x \in Nat /\ x <= TopOf(log[p])
    BY <1>1, <1>3, LogBounds DEF High
  <2>2. ASSUME NEW o \in log[p].low .. (Len(log[p].recs) - 1)
        PROVE  <<p, log[p].recs[o + 1]>> \in Kept'
    <3>1. <<p, log[p].recs[o + 1]>> \in RetainedRecords(p)
      BY DEF RetainedRecords, RecordAt, Retained, High
    <3> QED
      BY <1>3, <3>1, AccountedKept
  <2> QED
    BY <2>1, <2>2 DEF UpTo
<1> QED
  BY <1>2, <1>3 DEF KafkaAssumption

LEMMA RetainedTyped ==
    ASSUME KafkaInv, NEW p \in Partition
    PROVE  RetainedRecords(p) \subseteq Record
BY RecordTyped DEF KafkaInv, Typed, RetainedRecords

LEMMA ResetPositionStep ==
    ASSUME KafkaInv, NEW p \in Partition, ResetPosition(p)
    PROVE  KafkaInv'
<1> DEFINE x == IF UseEarliest THEN log[p].low ELSE High(p)
           c == cons[p]
           e == [c EXCEPT !.pos = x]
<1>1. BrokerTyped /\ HistoryTyped /\ SessionTyped /\ ConsTyped /\ ShapeInv /\ SafeInv /\ CleanInv
  BY DEF KafkaInv, Typed
<1>2. /\ UNCHANGED <<log, topic, committed, sent, rows, sess, buf, pub, incidents,
                     accepted, gap, shadow>>
      /\ cons' = [cons EXCEPT ![p] = e]
      /\ excused \subseteq excused' /\ excused' \subseteq excused \cup RetainedRecords(p)
      /\ degraded' \in BOOLEAN
  BY <1>1 DEF ResetPosition, brokerVars, HistoryTyped
<1>3. c.gate = Active /\ ~UseEarliest => RetainedRecords(p) \ Accounted \subseteq excused'
  BY DEF ResetPosition
<1>4. Safe \subseteq Safe' /\ Kept \subseteq Kept' /\ excused' \subseteq Kept' /\ SettledRows' = SettledRows
  BY <1>2, SameStock DEF Safe, Kept
<1>5. Moves
  BY <1>1, <1>2, <1>4, MovesUp
<1>6. BrokerTyped' /\ HistoryTyped'
  BY <1>1, <1>2, RetainedTyped DEF BrokerTyped, HistoryTyped
<1>7. \A q \in Partition : Good(q, log[q], sess.recreated, cons[q], Safe', Kept')
  <2>1. \A q \in Partition : Good(q, log'[q], sess.recreated, cons[q], Safe', Kept')
    BY <1>1, <1>5, <1>6, GoodMoves DEF SafeInv
  <2> QED
    BY <1>2, <2>1
<1>8. LogOK(log[p]) /\ x \in Nat /\ x <= TopOf(log[p])
  BY <1>1, LogBounds DEF BrokerTyped, High
<1>9. c.gate = Active => UpTo(p, log[p], x, Kept')
  BY <1>3, <1>4, PolicyPosition
<1>10. Good(p, log[p], sess.recreated, c, Safe', Kept') /\ c \in Consumer
  BY <1>7 DEF Good
<1> HIDE DEF x
<1>11. /\ e \in Consumer /\ e.pos = x /\ e.gate = c.gate /\ e.next = c.next /\ e.span = c.span
       /\ e.fr = c.fr /\ e.assigned = c.assigned /\ e.muted = c.muted /\ e.notice = c.notice
  BY <1>8, <1>10 DEF Consumer
<1> HIDE DEF e, c
<1>12. Good(p, log[p], sess.recreated, e, Safe', Kept')
  <2>1. Through(sess.recreated, e) => c.gate = Active
    BY <1>11 DEF Through
  <2> QED
    BY <1>8, <1>9, <1>10, <1>11, <2>1 DEF Good, ConsOK
<1>13. /\ cons' \in [Partition -> Consumer] /\ cons'[p] = e
       /\ \A q \in Partition : q # p => cons'[q] = cons[q]
  BY <1>1, <1>2, <1>11 DEF ConsTyped
<1>14. \A q \in Partition : /\ Good(q, log[q], sess.recreated, cons'[q], Safe', Kept')
                            /\ cons'[q].next = cons[q].next /\ cons'[q].span = cons[q].span
                            /\ cons'[q].assigned = cons[q].assigned
                            /\ cons'[q].notice = cons[q].notice
  BY <1>7, <1>11, <1>12, <1>13 DEF c
<1>15. SessionTyped'
  BY <1>1, <1>2 DEF SessionTyped
<1>16. ConsTyped'
  BY <1>13, <1>14 DEF ConsTyped, Good
<1>17. ShapeInv'
  BY <1>1, <1>2, <1>14 DEF ShapeInv, Quiet
<1>18. CleanInv'
  BY <1>1, <1>2, SameStock DEF CleanInv
<1>19. SafeInv'
  <2>1. \A q \in Partition : /\ UpTo(q, log[q], committed[q], Safe')
                             /\ UpTo(q, log[q], sent[q], Safe')
                             /\ SpanOK(q, log[q], pub.spans[q], Kept')
                             /\ \A i \in SettledRows : SpanOK(q, log[q], rows[i].span[q], Safe')
    BY <1>1, <1>4, UpToWeaken DEF SafeInv, SpanOK
  <2>2. \A r \in ToSet(buf) \cup ToSet(pub.batch) : cons'[r[1]].next # NoOffset
    <3> TAKE r \in ToSet(buf) \cup ToSet(pub.batch)
    <3>1. r \in Record
      BY <1>1 DEF SessionTyped, ToSet
    <3>2. r[1] \in Partition
      BY <3>1 DEF Record
    <3> QED
      BY <1>1, <1>14, <3>2 DEF SafeInv
  <2> QED
    BY <1>2, <1>4, <1>14, <2>1, <2>2 DEF SafeInv
<1> QED
  BY <1>6, <1>15, <1>16, <1>17, <1>18, <1>19 DEF KafkaInv, Typed

------------------------------------------------------------------------------
(* Rows and the process.                                                   *)

LEMMA StillSafe ==
    ASSUME KafkaInv, NEW S, NEW K, Safe \subseteq S, Kept \subseteq K, NEW q \in Partition
    PROVE  /\ UpTo(q, log[q], committed[q], S) /\ UpTo(q, log[q], sent[q], S)
           /\ SpanOK(q, log[q], pub.spans[q], K)
           /\ \A i \in SettledRows : SpanOK(q, log[q], rows[i].span[q], S)
           /\ Good(q, log[q], sess.recreated, cons[q], S, K)
           /\ LogOK(log[q])
<1>1. SafeInv /\ LogOK(log[q])
  BY DEF KafkaInv, Typed, BrokerTyped
<1>2. \A x : (UpTo(q, log[q], x, Safe) => UpTo(q, log[q], x, S))
             /\ (UpTo(q, log[q], x, Kept) => UpTo(q, log[q], x, K))
  BY UpToWeaken
<1>3. Good(q, log[q], sess.recreated, cons[q], S, K)
  BY <1>1, GoodWeaken DEF SafeInv
<1> QED
  BY <1>1, <1>2, <1>3 DEF SafeInv, SpanOK

LEMMA HandsTyped ==
    ASSUME KafkaInv, NEW r \in ToSet(buf) \cup ToSet(pub.batch)
    PROVE  r \in Record /\ r[1] \in Partition /\ cons[r[1]].next # NoOffset
<1>1. r \in Record
  BY DEF KafkaInv, Typed, SessionTyped, ToSet
<1>2. r[1] \in Partition
  BY <1>1 DEF Record
<1> QED
  BY <1>1, <1>2 DEF KafkaInv, SafeInv

\* Only the flags of rows change.
SameRows ==
    /\ rows' \in Seq(Row) /\ Len(rows') = Len(rows)
    /\ \A i \in DOMAIN rows : rows'[i].recs = rows[i].recs /\ rows'[i].span = rows[i].span

\* The flags of the rows apart, nothing about them has changed.
SameStamps ==
    /\ SameRows
    /\ \A i \in DOMAIN rows : /\ rows'[i].cid = rows[i].cid /\ rows'[i].tid = rows[i].tid
                              /\ rows'[i].blob = rows[i].blob

LEMMA RowsDomain ==
    ASSUME KafkaInv
    PROVE  /\ rows \in Seq(Row) /\ Len(rows) \in Nat /\ DOMAIN rows = 1 .. Len(rows)
           /\ \A i \in DOMAIN rows : rows[i] \in Row
<1>1. rows \in Seq(Row)
  BY DEF KafkaInv, Typed, SessionTyped
<1> QED
  BY <1>1, ElementOfSeq

LEMMA SameRowsStock ==
    ASSUME KafkaInv, SameRows,
           pub'.phase \in {"swap", "rollback"} <=> pub.phase \in {"swap", "rollback"}
    PROVE  SettledRows' = SettledRows /\ Stored' = Stored
<1>1. DOMAIN rows' = DOMAIN rows
  BY RowsDomain DEF SameRows
<1>2. SettledRows' = SettledRows
  BY <1>1 DEF SettledRows, InStock, SameRows
<1>3. \A i \in SettledRows : RowRecords(i)' = RowRecords(i)
  BY DEF SettledRows, RowRecords, SameRows
<1> QED
  BY <1>2, <1>3 DEF Stored

\* The publication is over and its row is there.
LEMMA Settles ==
    ASSUME KafkaInv, SameRows, pub'.phase = "none"
    PROVE  /\ SettledRows' = DOMAIN rows /\ Stored \subseteq Stored'
           /\ pub.phase \in {"swap", "rollback"} => ToSet(pub.batch) \subseteq Stored'
           /\ \A S : /\ Safe \subseteq S
                     /\ pub.phase \in {"swap", "rollback"} => ToSet(pub.batch) \subseteq S
                     => \A i \in DOMAIN rows, p \in Partition :
                            SpanOK(p, log[p], rows'[i].span[p], S)
<1>1. DOMAIN rows' = DOMAIN rows
  BY RowsDomain DEF SameRows
<1>2. SettledRows' = DOMAIN rows
  BY <1>1 DEF SettledRows, InStock
<1>3. \A i \in DOMAIN rows : RowRecords(i)' = RowRecords(i)
  BY DEF RowRecords, SameRows
<1>4. Stored' = UNION {RowRecords(i) : i \in DOMAIN rows}
  BY <1>2, <1>3 DEF Stored
<1>5. Stored \subseteq Stored'
  BY <1>4 DEF Stored, SettledRows
<1>6. ASSUME pub.phase \in {"swap", "rollback"}
      PROVE  /\ rows # <<>> /\ rows[Len(rows)].recs = pub.batch /\ Len(rows) \in DOMAIN rows
             /\ ToSet(pub.batch) \subseteq Stored' /\ buf = <<>>
  <2>1. rows # <<>> /\ rows[Len(rows)].recs = pub.batch /\ buf = <<>>
    BY <1>6 DEF KafkaInv, ShapeInv
  <2>2. Len(rows) \in DOMAIN rows
    BY <2>1, RowsDomain
  <2> QED
    BY <1>4, <2>1, <2>2 DEF RowRecords
<1>7. ASSUME NEW S, Safe \subseteq S,
             pub.phase \in {"swap", "rollback"} => ToSet(pub.batch) \subseteq S,
             NEW i \in DOMAIN rows, NEW p \in Partition
      PROVE  SpanOK(p, log[p], rows'[i].span[p], S)
  <2>1. rows'[i].span[p] = rows[i].span[p]
    BY DEF SameRows
  <2>2. CASE i \in SettledRows
    <3>1. Kept \subseteq Kept
      OBVIOUS
    <3> QED
      BY <1>7, <2>1, <2>2, <3>1, StillSafe
  <2>3. CASE i \notin SettledRows
    <3>1. pub.phase \in {"swap", "rollback"} /\ i = Len(rows)
      BY <2>3 DEF SettledRows, InStock
    <3>2. rows[i].span[p] \in {pub.spans[p], NoSpan}
      BY <3>1 DEF KafkaInv, ShapeInv
    <3>3. ToSet(buf) = {}
      BY <1>6, <3>1 DEF ToSet
    <3>4. Kept \subseteq S
      BY <1>7, <3>1, <3>3 DEF Kept
    <3>5. SpanOK(p, log[p], pub.spans[p], S) /\ LogOK(log[p])
      BY <1>7, <3>4, StillSafe
    <3>6. SpanOK(p, log[p], NoSpan, S)
      <4>1. NoOffset \in Int /\ NoOffset <= log[p].low
        BY <3>5, LogBounds, Constants
      <4>2. NoSpan.next = NoOffset /\ NoSpan.start = NoOffset
        BY DEF NoSpan
      <4> QED
        BY <3>5, <4>1, <4>2, UpToLow DEF SpanOK
    <3> QED
      BY <2>1, <3>2, <3>5, <3>6
  <2> QED
    BY <2>2, <2>3
<1> QED
  BY <1>2, <1>5, <1>6, <1>7

LEMMA NoPubTyped ==
    /\ NoPub \in [phase : {"none", "persist", "swap", "rollback"}, batch : Seq(Record),
                  spans : [Partition -> Span], final : BOOLEAN]
    /\ NoPub.phase = "none" /\ NoPub.batch = <<>>
    /\ \A p \in Partition : NoPub.spans[p] = NoSpan
    /\ ToSet(<<>>) = {}
<1>1. NoSpan \in Span
  BY Constants DEF Span, NoSpan
<1>2. ToSet(<<>>) = {}
  BY DEF ToSet
<1> QED
  BY <1>1, <1>2 DEF NoPub

LEMMA NoSpanOK ==
    ASSUME NEW p, NEW l, LogOK(l), NEW S
    PROVE  SpanOK(p, l, NoSpan, S) /\ UpTo(p, l, NoOffset, S)
<1>1. NoOffset \in Int /\ NoOffset <= l.low
  BY LogBounds, Constants
<1>2. NoSpan.next = NoOffset /\ NoSpan.start = NoOffset
  BY DEF NoSpan
<1> QED
  BY <1>1, <1>2, UpToLow DEF SpanOK

\* New flags for the row at i.
LEMMA FlagRow ==
    ASSUME KafkaInv, NEW i \in DOMAIN rows, NEW b \in BOOLEAN, NEW v \in BOOLEAN,
           rows' = [rows EXCEPT ![i] = [rows[i] EXCEPT !.blob = b, !.visible = v]]
    PROVE  SameRows
<1> DEFINE r == [rows[i] EXCEPT !.blob = b, !.visible = v]
<1>1. r \in Row /\ r.recs = rows[i].recs /\ r.span = rows[i].span
  BY RowsDomain DEF Row
<1> HIDE DEF r
<1>2. rows' = [rows EXCEPT ![i] = r]
  BY DEF r
<1>3. /\ rows' \in Seq(Row) /\ Len(rows') = Len(rows)
      /\ \A j \in 1 .. Len(rows) : rows'[j] = IF j = i THEN r ELSE rows[j]
  BY <1>1, <1>2, RowsDomain, ExceptSeq
<1> QED
  BY <1>1, <1>3, RowsDomain DEF SameRows

LEMMA LoseBlobStep ==
    ASSUME KafkaInv, NEW i \in DOMAIN rows, LoseBlob(i)
    PROVE  KafkaInv'
<1>1. BrokerTyped /\ HistoryTyped /\ SessionTyped /\ ConsTyped /\ ShapeInv /\ SafeInv /\ CleanInv
  BY DEF KafkaInv, Typed
<1>2. /\ UNCHANGED <<log, topic, committed, sent, sess, cons, buf, pub, accepted, gap, shadow>>
      /\ sess.phase = "down" /\ degraded' = TRUE
      /\ excused \subseteq excused' /\ excused' \subseteq excused \cup RowRecords(i)
  BY DEF LoseBlob, brokerVars
<1>3. SameRows
  <2> DEFINE ff == FALSE
  <2>1. ff \in BOOLEAN /\ rows' = [rows EXCEPT ![i] = [rows[i] EXCEPT !.blob = ff, !.visible = ff]]
    BY DEF LoseBlob
  <2> HIDE DEF ff
  <2> QED
    BY <2>1, FlagRow
<1>4. incidents' \in 0 .. MaxIncidents
  BY <1>1, IncidentTyped DEF HistoryTyped, LoseBlob
<1>5. RowRecords(i) \subseteq Record
  <2>1. rows[i].recs \in Seq(Record)
    BY RowsDomain DEF Row
  <2> QED
    BY <2>1 DEF RowRecords, ToSet
<1>6. BrokerTyped' /\ HistoryTyped'
  BY <1>1, <1>2, <1>4, <1>5 DEF BrokerTyped, HistoryTyped
<1>7. SettledRows' = SettledRows /\ Stored' = Stored
  BY <1>2, <1>3, SameRowsStock
<1>8. Safe \subseteq Safe' /\ Kept \subseteq Kept'
  BY <1>2, <1>7 DEF Safe, Kept
<1>9. SafeInv'
  <2>1. \A q \in Partition :
           /\ UpTo(q, log[q], committed[q], Safe') /\ UpTo(q, log[q], sent[q], Safe')
           /\ SpanOK(q, log[q], pub.spans[q], Kept')
           /\ \A j \in SettledRows : SpanOK(q, log[q], rows[j].span[q], Safe')
           /\ Good(q, log[q], sess.recreated, cons[q], Safe', Kept')
    BY <1>8, StillSafe
  <2>2. \A j \in SettledRows : rows'[j].span = rows[j].span
    BY <1>3 DEF SameRows, SettledRows
  <2> QED
    BY <1>1, <1>2, <1>7, <2>1, <2>2 DEF SafeInv
<1>10. SessionTyped' /\ ConsTyped'
  BY <1>1, <1>2, <1>3 DEF SessionTyped, ConsTyped, SameRows
<1>11. ShapeInv'
  <2>1. pub.phase \notin {"swap", "rollback"}
    BY <1>1, <1>2, NoPubTyped DEF ShapeInv
  <2> QED
    BY <1>1, <1>2, <2>1 DEF ShapeInv
<1>12. CleanInv'
  BY <1>2 DEF CleanInv
<1> QED
  BY <1>6, <1>9, <1>10, <1>11, <1>12 DEF KafkaInv, Typed

\* A session ends with nothing in its hands: after a clean final drain, a failed
\* one, or a crash.
LEMMA SessionEnds ==
    ASSUME KafkaInv, BrokerTyped', HistoryTyped', UNCHANGED <<log, committed>>, sent' \in [Partition -> Offset],
           \A p \in Partition : UpTo(p, log[p], sent'[p], Safe'),
           rows' \in Seq(Row), Safe \subseteq Safe',
           \A i \in DOMAIN rows', p \in Partition : SpanOK(p, log[p], rows'[i].span[p], Safe'),
           sess' \in [phase : {"down", "stopped"}, cid : BOOLEAN, tid : Nat,
                      recreated : BOOLEAN, failed : BOOLEAN],
           cons' = [p \in Partition |-> IdleCons], buf' = <<>>, pub' = NoPub,
           CleanInv'
    PROVE  KafkaInv'
<1>1. \A p \in Partition : /\ LogOK(log[p]) /\ Quiet(IdleCons)
                           /\ Good(p, log[p], sess'.recreated, IdleCons, Safe', Kept')
                           /\ SpanOK(p, log[p], NoSpan, Kept')
                           /\ UpTo(p, log[p], committed[p], Safe')
  BY IdleConsGood, NoSpanOK, StillSafe DEF KafkaInv, Typed, BrokerTyped
<1>2. SessionTyped'
  <2>1. Len(buf') < MaxRowsPerSegment /\ buf' \in Seq(Record)
    BY KafkaAssumption, EmptySeq
  <2>2. sess' \in [phase : {"down", "join", "up", "stopped"}, cid : BOOLEAN, tid : Nat,
                   recreated : BOOLEAN, failed : BOOLEAN]
    OBVIOUS
  <2> QED
    BY <2>1, <2>2, NoPubTyped DEF SessionTyped
<1>3. ConsTyped'
  BY <1>1 DEF ConsTyped, Good
<1>4. ShapeInv'
  BY <1>1, NoPubTyped DEF ShapeInv, Quiet
<1>5. SafeInv'
  <2>1. SettledRows' \subseteq DOMAIN rows'
    BY DEF SettledRows
  <2>2. ToSet(buf') \cup ToSet(pub'.batch) = {}
    BY NoPubTyped
  <2>3. \A p \in Partition : cons'[p] = IdleCons /\ pub'.spans[p] = NoSpan
    BY NoPubTyped
  <2>4. \A p \in Partition :
          /\ UpTo(p, log'[p], committed'[p], Safe') /\ UpTo(p, log'[p], sent'[p], Safe')
          /\ Good(p, log'[p], sess'.recreated, cons'[p], Safe', Kept')
          /\ SpanOK(p, log'[p], pub'.spans[p], Kept')
    BY <1>1, <2>3
  <2> QED
    BY <2>1, <2>2, <2>4 DEF SafeInv
<1> QED
  BY <1>2, <1>3, <1>4, <1>5 DEF KafkaInv, Typed

\* A bootstrap makes the rows visible whose blob it can read.
LEMMA LoadedRows ==
    ASSUME KafkaInv, Crash
    PROVE  SameStamps
<1>1. rows' = [i \in 1 .. Len(rows) |-> [rows[i] EXCEPT !.visible = rows[i].blob]]
  BY RowsDomain DEF Crash
<1>2. \A i \in DOMAIN rows : /\ [rows[i] EXCEPT !.visible = rows[i].blob] \in Row
                             /\ [rows[i] EXCEPT !.visible = rows[i].blob].recs = rows[i].recs
                             /\ [rows[i] EXCEPT !.visible = rows[i].blob].span = rows[i].span
                             /\ [rows[i] EXCEPT !.visible = rows[i].blob].cid = rows[i].cid
                             /\ [rows[i] EXCEPT !.visible = rows[i].blob].tid = rows[i].tid
                             /\ [rows[i] EXCEPT !.visible = rows[i].blob].blob = rows[i].blob
  BY RowsDomain DEF Row
<1>3. rows' \in [1 .. Len(rows) -> Row]
  BY <1>1, <1>2, RowsDomain
<1>4. rows' \in Seq(Row) /\ Len(rows') = Len(rows)
  <2>1. rows' \in Seq(Row)
    BY <1>3, RowsDomain, SeqDef
  <2>2. DOMAIN rows' = 1 .. Len(rows') /\ Len(rows') \in Nat
    BY <2>1, LenProperties
  <2>3. DOMAIN rows' = 1 .. Len(rows)
    BY <1>3
  <2>4. \A a, b \in Nat : a < b => b \in 1 .. b /\ b \notin 1 .. a
    OBVIOUS
  <2>5. ~(Len(rows') < Len(rows)) /\ ~(Len(rows) < Len(rows'))
    BY <2>2, <2>3, <2>4, RowsDomain
  <2>6. \A a, b \in Nat : ~(a < b) /\ ~(b < a) => a = b
    OBVIOUS
  <2>7. Len(rows) \in Nat
    BY RowsDomain
  <2> QED
    BY <2>1, <2>2, <2>5, <2>6, <2>7
<1> QED
  BY <1>1, <1>2, <1>4, RowsDomain DEF SameRows, SameStamps

LEMMA CrashStep ==
    ASSUME KafkaInv, Crash
    PROVE  KafkaInv'
<1>1. BrokerTyped /\ HistoryTyped /\ SessionTyped
  BY DEF KafkaInv, Typed
<1>2. UNCHANGED <<log, topic, committed, sent, accepted, excused, gap, shadow, degraded>>
  BY DEF Crash, brokerVars, historyVars
<1>3. SameRows
  BY LoadedRows DEF SameStamps
<1>4. pub' = NoPub /\ pub'.phase = "none" /\ buf' = <<>> /\ cons' = [p \in Partition |-> IdleCons]
  BY NoPubTyped DEF Crash
<1>5. /\ Stored \subseteq Stored' /\ DOMAIN rows' = DOMAIN rows
      /\ pub.phase \in {"swap", "rollback"} => ToSet(pub.batch) \subseteq Stored'
  <2>1. DOMAIN rows' = DOMAIN rows
    BY <1>3, RowsDomain DEF SameRows
  <2> QED
    BY <1>3, <1>4, <2>1, Settles
<1>6. Safe \subseteq Safe' /\ Stored' \subseteq Safe'
  BY <1>2, <1>5 DEF Safe
<1>7. \A i \in DOMAIN rows', p \in Partition : SpanOK(p, log[p], rows'[i].span[p], Safe')
  BY <1>3, <1>4, <1>5, <1>6, Settles
<1>8. incidents' \in 0 .. MaxIncidents
  BY <1>1, IncidentTyped DEF HistoryTyped, Crash
<1>9. BrokerTyped' /\ HistoryTyped'
  BY <1>1, <1>2, <1>8 DEF BrokerTyped, HistoryTyped
<1>10. sess' \in [phase : {"down", "stopped"}, cid : BOOLEAN, tid : Nat,
                  recreated : BOOLEAN, failed : BOOLEAN] /\ sess'.phase = "down"
  BY <1>1 DEF Crash, SessionTyped
<1>11. CleanInv'
  BY <1>10 DEF CleanInv
<1>12. \A p \in Partition : UpTo(p, log[p], sent'[p], Safe')
  <2>1. Kept \subseteq Kept
    OBVIOUS
  <2> QED
    BY <1>2, <1>6, <2>1, StillSafe
<1>13. sent' \in [Partition -> Offset] /\ rows' \in Seq(Row)
  BY <1>1, <1>2, <1>3 DEF BrokerTyped, SameRows
<1> QED
  BY <1>2, <1>4, <1>6, <1>7, <1>9, <1>10, <1>11, <1>12, <1>13, SessionEnds

------------------------------------------------------------------------------
(* A session starts.                                                       *)

\* The frontier that the published rows yield names no offset above a loss.
LEMMA FrontierDerived ==
    ASSUME KafkaInv, sess.phase \in {"down", "stopped"}, NEW p \in Partition,
           NEW cid \in BOOLEAN, NEW tid, NEW disagreed \in BOOLEAN
    PROVE  LET fr == derive_resume_frontier(rows, p, cid, tid, disagreed)
           IN  fr \in Entry /\ FrontierOK(p, log[p], fr, Safe)
<1> DEFINE l == log[p]
           live == LiveRows(rows, p, tid)
           Sp(i) == rows[i].span[p]
           ms == MinStart(rows, p, cid, tid)
           ld == LoadedOffsets(rows, p, cid, tid)
           fr == derive_resume_frontier(rows, p, cid, tid, disagreed)
           lf == IF disagreed THEN {} ELSE ld
           rf == (cid /\ live # Naming(rows, p)) \/ TopicRecreated(rows, cid, tid, disagreed)
<1>1. LogOK(l)
  BY DEF KafkaInv, Typed, BrokerTyped
<1>2. live \subseteq DOMAIN rows
  BY DEF LiveRows, Naming
<1>3. \A i \in DOMAIN rows : /\ Sp(i).start \in Offset /\ Sp(i).next \in Offset
                             /\ UpTo(p, l, Sp(i).next, Safe) /\ Sp(i).start <= Sp(i).next
  <2> TAKE i \in DOMAIN rows
  <2>1. pub.phase = "none"
    BY NoPubTyped DEF KafkaInv, ShapeInv
  <2>2. i \in SettledRows
    BY <2>1 DEF SettledRows, InStock
  <2>3. SpanOK(p, l, Sp(i), Safe)
    BY <2>2 DEF KafkaInv, SafeInv
  <2>4. Sp(i) \in Span
    BY RowsDomain DEF Row
  <2> QED
    BY <2>3, <2>4 DEF SpanOK, Span
<1> HIDE DEF Sp, live
<1>4. ms \in Offset \cup {Passthrough} /\ (UpTo(p, l, ms, Safe) \/ (ms = Passthrough /\ ~cid))
  <2>1. CASE live # {}
    <3> DEFINE T == {Sp(i).start : i \in live}
    <3>1. T \subseteq Int /\ T # {} /\ NoOffset \in Int /\ \A y \in T : NoOffset <= y
      BY <1>2, <1>3, <2>1, Constants
    <3>2. Min(T) \in T
      <4> HIDE DEF T
      <4> QED
        BY <3>1, MinOf
    <3>3. PICK i \in live : Min(T) = Sp(i).start
      BY <3>2
    <3>4. ms = Min(T)
      BY <2>1 DEF MinStart, live, Sp
    <3>5. Sp(i).start \in Int /\ Sp(i).next \in Int /\ Sp(i).start \in Offset
      BY <1>2, <1>3, Constants
    <3>6. UpTo(p, l, Sp(i).start, Safe)
      BY <1>1, <1>2, <1>3, <3>5, UpToLess
    <3> HIDE DEF T, ms
    <3> QED
      BY <3>3, <3>4, <3>5, <3>6
  <2>2. CASE live = {} /\ cid
    <3>1. ms = 0
      BY <2>2 DEF MinStart, live
    <3>2. UpTo(p, l, 0, Safe)
      BY <1>1, LogBounds, UpToLow
    <3> QED
      BY <3>1, <3>2, Constants
  <2>3. CASE live = {} /\ ~cid
    <3>1. ms = Passthrough
      BY <2>3 DEF MinStart, live
    <3> QED
      BY <2>3, <3>1
  <2> QED
    BY <2>1, <2>2, <2>3
<1>5. ld \subseteq Offset /\ (~cid => ld = {}) /\ \A o \in ld : UpTo(p, l, o + 1, Safe)
  <2>1. ~cid => ld = {}
    BY DEF LoadedOffsets
  <2>2. ASSUME NEW o \in ld
        PROVE  o \in Offset /\ UpTo(p, l, o + 1, Safe)
    <3>1. PICK i \in live : o \in Covered(Sp(i))
      BY DEF LoadedOffsets, live, Sp
    <3>2. i \in DOMAIN rows
      BY <1>2
    <3>3. Sp(i).start \in Int /\ Sp(i).next \in Int /\ -1 <= Sp(i).start /\ Sp(i).next <= MaxRecords
      BY <1>3, <3>2, Constants
    <3>4. o \in Int /\ -1 <= o /\ o + 1 <= Sp(i).next /\ o + 1 \in Int
      BY <3>1, <3>3 DEF Covered
    <3>5. UpTo(p, l, o + 1, Safe)
      BY <1>1, <1>3, <3>2, <3>3, <3>4, UpToLess
    <3>6. o \in Offset
      BY <3>3, <3>4, Constants
    <3> QED
      BY <3>5, <3>6
  <2> QED
    BY <2>1, <2>2
<1>6. fr = NoEntry \/ fr = [minStart |-> ms, loaded |-> lf, recreated |-> rf]
  <2> DEFINE e == [minStart |-> ms, loaded |-> ld, recreated |-> cid /\ live # Naming(rows, p)]
  <2>1. compute_resume_frontier(rows, p, cid, tid) \in {NoEntry, e}
    BY DEF compute_resume_frontier, live
  <2>2. e.minStart = ms /\ e.loaded = ld /\ e.recreated = (cid /\ live # Naming(rows, p))
    OBVIOUS
  <2> HIDE DEF e
  <2>3. CASE compute_resume_frontier(rows, p, cid, tid) = NoEntry
    BY <2>3 DEF derive_resume_frontier
  <2>4. CASE compute_resume_frontier(rows, p, cid, tid) = e /\ e # NoEntry
    <3>1. fr = [minStart |-> e.minStart,
                loaded |-> IF disagreed THEN {} ELSE e.loaded,
                recreated |-> e.recreated \/ TopicRecreated(rows, cid, tid, disagreed)]
      BY <2>4 DEF derive_resume_frontier
    <3> HIDE DEF fr, ms, ld
    <3> QED
      BY <2>2, <3>1
  <2> QED
    BY <2>1, <2>3, <2>4
<1>7. NoEntry \in Entry /\ FrontierOK(p, l, NoEntry, Safe)
  <2>1. UpTo(p, l, NoOffset, Safe)
    BY <1>1, NoSpanOK
  <2> QED
    BY <2>1, Constants DEF Entry, NoEntry, FrontierOK
<1>8. lf \subseteq Offset /\ (~cid => lf = {}) /\ \A o \in lf : UpTo(p, l, o + 1, Safe)
  BY <1>5
<1>9. rf \in BOOLEAN
  BY DEF TopicRecreated, detect_topic_recreation
<1> HIDE DEF ms, lf, rf
<1> DEFINE f == [minStart |-> ms, loaded |-> lf, recreated |-> rf]
<1>10. f \in Entry
  BY <1>4, <1>8, <1>9 DEF Entry
<1>11. f.minStart = ms /\ f.loaded = lf
  OBVIOUS
<1> HIDE DEF f
<1>12. FrontierOK(p, l, f, Safe)
  BY <1>4, <1>8, <1>11 DEF FrontierOK
<1> HIDE DEF fr
<1> QED
  BY <1>6, <1>7, <1>10, <1>12 DEF f, fr

LEMMA StartStep ==
    ASSUME KafkaInv, NEW cid \in BOOLEAN, NEW probe \in {"agreed", "unresolved", "disagreed"},
           Start(cid, probe)
    PROVE  KafkaInv'
<1> DEFINE tid == IF probe = "agreed" THEN topic ELSE NoTopicId
           disagreed == probe = "disagreed"
           recreated == TopicRecreated(rows, cid, tid, disagreed)
           F(p) == derive_resume_frontier(rows, p, cid, tid, disagreed)
           blame == (IF cid THEN 0 ELSE 1) + (IF probe = "agreed" THEN 0 ELSE 1)
<1>1. BrokerTyped /\ HistoryTyped /\ SessionTyped /\ ConsTyped /\ ShapeInv /\ SafeInv
  BY DEF KafkaInv, Typed
<1>2. sess.phase \in {"down", "stopped"} /\ buf = <<>> /\ pub = NoPub
  BY <1>1 DEF Start, ShapeInv
<1>3. /\ UNCHANGED <<log, topic, committed, rows, buf, pub, excused, gap, shadow>>
      /\ accepted' = {} /\ sent' = [p \in Partition |-> NoOffset]
  BY DEF Start, brokerVars
<1>4. tid \in Nat /\ disagreed \in BOOLEAN /\ recreated \in BOOLEAN
  BY <1>1 DEF BrokerTyped, NoTopicId, TopicRecreated, detect_topic_recreation
<1>5. /\ sess' \in [phase : {"join", "up"}, cid : BOOLEAN, tid : Nat,
                    recreated : BOOLEAN, failed : BOOLEAN]
  <2>1. PICK ph \in {"join", "up"} :
           sess' = [phase |-> ph, cid |-> cid, tid |-> tid, recreated |-> recreated,
                    failed |-> FALSE]
    BY DEF Start
  <2> HIDE DEF tid, recreated
  <2> QED
    BY <1>4, <2>1
<1>6. \A p \in Partition :
         cons'[p] = [IdleCons EXCEPT !.fr = F(p),
                                     !.epoch = IF recreated THEN log[p].epoch ELSE 0,
                                     !.gate = IF F(p) # NoEntry THEN NeedsTarget ELSE Active]
  <2> SUFFICES ASSUME NEW p \in Partition
               PROVE  cons'[p] = [IdleCons EXCEPT !.fr = F(p),
                                     !.epoch = IF recreated THEN log[p].epoch ELSE 0,
                                     !.gate = IF F(p) # NoEntry THEN NeedsTarget ELSE Active]
    OBVIOUS
  <2> QED
    BY DEF Start
<1>7. ASSUME NEW p \in Partition
      PROVE  Good(p, log[p], sess'.recreated, cons'[p], Safe, Kept) /\ Quiet(cons'[p])
  <2> DEFINE e == IF recreated THEN log[p].epoch ELSE 0
             g == IF F(p) # NoEntry THEN NeedsTarget ELSE Active
  <2>1. F(p) \in Entry /\ FrontierOK(p, log[p], F(p), Safe)
    BY <1>2, <1>4, FrontierDerived
  <2>2. LogOK(log[p]) /\ e \in Nat /\ g \in {Active, NeedsTarget}
    BY <1>1, LogBounds DEF BrokerTyped
  <2> DEFINE f == F(p)
             c == cons'[p]
  <2>3. c = [IdleCons EXCEPT !.fr = f, !.epoch = e, !.gate = g]
    BY <1>6
  <2>4. f \in Entry /\ FrontierOK(p, log[p], f, Safe)
    BY <2>1
  <2> HIDE DEF e, g, f, c
  <2>5. Good(p, log[p], sess'.recreated, c, Safe, Kept) /\ Quiet(c)
    BY <2>2, <2>3, <2>4, IdleGood
  <2> QED
    BY <2>5 DEF c
<1>8. incidents' \in 0 .. MaxIncidents /\ degraded' \in BOOLEAN
  <2>1. blame \in Nat /\ Incident(blame)
    <3>1. Incident(blame)
      BY DEF Start
    <3>2. blame \in Nat
      OBVIOUS
    <3> QED
      BY <3>1, <3>2
  <2>2. degraded' \in BOOLEAN
    BY DEF Start
  <2> HIDE DEF blame
  <2> QED
    BY <1>1, <2>1, <2>2, IncidentTyped DEF HistoryTyped
<1>9. Safe' = Safe /\ Kept' = Kept /\ SettledRows' = SettledRows
  BY <1>3, SameStock DEF Safe, Kept
<1>10. BrokerTyped' /\ HistoryTyped'
  <2>1. sent' \in [Partition -> Offset]
    BY <1>3, Constants
  <2> QED
    BY <1>1, <1>3, <1>8, <2>1 DEF BrokerTyped, HistoryTyped
<1>11. SessionTyped'
  BY <1>1, <1>3, <1>5 DEF SessionTyped
<1>12. ConsTyped'
  <2>1. cons' = [p \in Partition |-> cons'[p]]
    BY DEF Start
  <2>2. \A p \in Partition : cons'[p] \in Consumer /\ (cons'[p].muted => cons'[p].assigned)
    BY <1>7 DEF Good
  <2> QED
    BY <2>1, <2>2 DEF ConsTyped
<1>13. ShapeInv'
  BY <1>2, <1>3, <1>7, NoPubTyped DEF ShapeInv, Quiet
<1>14. SafeInv'
  <2>1. ToSet(buf) \cup ToSet(pub.batch) = {}
    BY <1>2, NoPubTyped
  <2>2. \A p \in Partition : /\ sent'[p] = NoOffset /\ UpTo(p, log[p], NoOffset, Safe)
    BY <1>1, <1>3, NoSpanOK DEF BrokerTyped
  <2> QED
    BY <1>1, <1>3, <1>7, <1>9, <2>1, <2>2 DEF SafeInv
<1>15. CleanInv'
  BY <1>3 DEF CleanInv
<1> QED
  BY <1>10, <1>11, <1>12, <1>13, <1>14, <1>15 DEF KafkaInv, Typed

LEMMA JoinTimesOutStep ==
    ASSUME KafkaInv, JoinTimesOut
    PROVE  KafkaInv'
<1>1. BrokerTyped /\ HistoryTyped /\ SessionTyped /\ ConsTyped /\ ShapeInv /\ SafeInv /\ CleanInv
  BY DEF KafkaInv, Typed
<1>2. UNCHANGED <<log, topic, committed, sent, rows, cons, buf, pub, accepted, excused, gap,
                  shadow, degraded>>
  BY DEF JoinTimesOut, brokerVars, historyVars
<1>3. /\ sess' = [sess EXCEPT !.phase = "up"] /\ sess.phase = "join"
      /\ sess'.recreated = sess.recreated /\ sess'.failed = sess.failed /\ sess'.phase = "up"
  BY <1>1 DEF JoinTimesOut, SessionTyped
<1>4. incidents' \in 0 .. MaxIncidents
  BY <1>1, IncidentTyped DEF HistoryTyped, JoinTimesOut
<1>5. BrokerTyped' /\ HistoryTyped' /\ SessionTyped' /\ ConsTyped'
  BY <1>1, <1>2, <1>3, <1>4 DEF BrokerTyped, HistoryTyped, SessionTyped, ConsTyped
<1>6. Safe' = Safe /\ Kept' = Kept /\ SettledRows' = SettledRows /\ Stored' = Stored
  BY <1>2, SameStock DEF Safe, Kept
<1>7. SafeInv'
  BY <1>1, <1>2, <1>3, <1>6 DEF SafeInv
<1>8. ShapeInv'
  BY <1>1, <1>2, <1>3 DEF ShapeInv
<1>9. CleanInv'
  BY <1>1, <1>2, <1>3, <1>6 DEF CleanInv
<1> QED
  BY <1>5, <1>7, <1>8, <1>9 DEF KafkaInv, Typed

LEMMA GapGrows ==
    ASSUME NEW cost, NEW lost, NEW cs, TryActivatePendingAfter(cost, lost, cs)
    PROVE  gap \cup lost \subseteq gap'
BY DEF TryActivatePendingAfter

LEMMA PassGrows ==
    ASSUME NEW cs, TryActivatePending(cs), UNCHANGED <<rows, buf, pub, shadow>>,
           excused \subseteq excused'
    PROVE  /\ Safe \subseteq Safe' /\ Kept \subseteq Kept' /\ Safe' \subseteq Kept'
           /\ Stored' = Stored /\ SettledRows' = SettledRows
           /\ excused' \subseteq Kept' /\ gap' \subseteq Safe'
<1>1. gap \subseteq gap'
  BY GapGrows DEF TryActivatePending
<1>2. Stored' = Stored /\ SettledRows' = SettledRows
  BY SameStock
<1> QED
  BY <1>1, <1>2 DEF Safe, Kept

\* A pass over the gated partitions, with nothing being published.
LEMMA PassStep ==
    ASSUME KafkaInv, NEW cs, TryActivatePending(cs), pub.phase = "none", sess.phase # "down",
           UNCHANGED <<brokerVars, rows, buf, pub, accepted, shadow>>,
           sess' \in [phase : {"up"}, cid : BOOLEAN, tid : Nat, recreated : BOOLEAN, failed : BOOLEAN],
           sess'.recreated = sess.recreated, sess'.failed = sess.failed,
           excused \subseteq excused', excused' \subseteq Record,
           \A p \in Partition : /\ Good(p, log[p], sess.recreated, cs[p], Safe', Kept')
                                /\ cs[p].next = cons[p].next /\ cs[p].span = cons[p].span
    PROVE  KafkaInv'
<1>1. BrokerTyped /\ HistoryTyped /\ SessionTyped /\ ConsTyped /\ ShapeInv /\ SafeInv /\ CleanInv
  BY DEF KafkaInv, Typed
<1>2. /\ Safe \subseteq Safe' /\ Kept \subseteq Kept' /\ Safe' \subseteq Kept'
      /\ Stored' = Stored /\ SettledRows' = SettledRows
      /\ excused' \subseteq Kept' /\ gap' \subseteq Safe'
  BY PassGrows
<1>3. \A p \in Partition :
         /\ UpTo(p, log[p], committed[p], Safe') /\ UpTo(p, log[p], sent[p], Safe')
         /\ SpanOK(p, log[p], pub.spans[p], Kept')
         /\ \A i \in SettledRows : SpanOK(p, log[p], rows[i].span[p], Safe')
  BY <1>2, StillSafe
<1>4. \A r \in Accounted : r \in Kept'
  BY <1>2, AccountedKept
<1>5. /\ cons' \in [Partition -> Consumer] /\ sent' \in [Partition -> Offset]
      /\ \A p \in Partition :
            /\ Good(p, log[p], sess.recreated, cons'[p], Safe', Kept')
            /\ UpTo(p, log[p], sent'[p], Safe')
            /\ cs[p].next # NoOffset => cons'[p].next # NoOffset
            /\ cs[p].span = NoSpan => cons'[p].span = NoSpan
      /\ degraded' \in BOOLEAN /\ incidents' \in 0 .. MaxIncidents
      /\ gap' \in SUBSET Record
  <2> DEFINE cost == 0
             lost == {}
             S == Safe'
             K == Kept'
             rec == sess.recreated
  <2>1. cost \in Nat /\ lost \in SUBSET Record /\ TryActivatePendingAfter(cost, lost, cs)
    BY DEF TryActivatePending
  <2>2. PassPre(cs, rec, S, K) /\ gap' \subseteq S
    BY <1>2, <1>3, <1>4 DEF PassPre
  <2> HIDE DEF cost, lost, S, K, rec
  <2>3. /\ cons' \in [Partition -> Consumer] /\ sent' \in [Partition -> Offset]
        /\ \A p \in Partition :
              /\ Good(p, log[p], rec, cons'[p], S, K)
              /\ UpTo(p, log[p], sent'[p], S)
              /\ cs[p].next # NoOffset => cons'[p].next # NoOffset
              /\ cs[p].span = NoSpan => cons'[p].span = NoSpan
        /\ degraded' \in BOOLEAN /\ incidents' \in 0 .. MaxIncidents
        /\ gap' \in SUBSET Record
    BY <1>1, <2>1, <2>2, PassGood
  <2> QED
    BY <2>3 DEF S, K, rec
<1>6. UNCHANGED <<log, topic, committed>>
  BY DEF brokerVars
<1>7. BrokerTyped' /\ HistoryTyped'
  BY <1>1, <1>5, <1>6 DEF BrokerTyped, HistoryTyped
<1>8. SessionTyped'
  BY <1>1 DEF SessionTyped
<1>9. ConsTyped'
  BY <1>5 DEF ConsTyped, Good
<1>10. ShapeInv'
  BY <1>1, <1>5 DEF ShapeInv
<1>11. CleanInv'
  BY <1>1, <1>2 DEF CleanInv
<1>12. SafeInv'
  <2>1. \A r \in ToSet(buf) \cup ToSet(pub.batch) : cons'[r[1]].next # NoOffset
    BY <1>5, HandsTyped
  <2> QED
    BY <1>2, <1>3, <1>5, <1>6, <2>1 DEF SafeInv
<1> QED
  BY <1>7, <1>8, <1>9, <1>10, <1>11, <1>12 DEF KafkaInv, Typed

LEMMA SeekRetryTickStep ==
    ASSUME KafkaInv, SeekRetryTick
    PROVE  KafkaInv'
<1> DEFINE cs == [p \in Partition |-> Drained(cons[p])]
<1>1. BrokerTyped /\ HistoryTyped /\ SessionTyped
  BY DEF KafkaInv, Typed
<1>2. /\ TryActivatePending(cs) /\ pub.phase = "none" /\ sess.phase = "up"
      /\ UNCHANGED <<brokerVars, rows, sess, buf, pub, accepted, excused, shadow>>
  BY DEF SeekRetryTick, Looping, Running
<1>3. Safe \subseteq Safe' /\ Kept \subseteq Kept' /\ Safe' \subseteq Kept'
  <2> HIDE DEF cs
  <2> QED
    BY <1>2, PassGrows
<1>4. ASSUME NEW p \in Partition
      PROVE  /\ Good(p, log[p], sess.recreated, cs[p], Safe', Kept')
             /\ cs[p].next = cons[p].next /\ cs[p].span = cons[p].span
  <2>1. Good(p, log[p], sess.recreated, cons[p], Safe', Kept') /\ LogOK(log[p])
    BY <1>3, StillSafe
  <2>2. sess.recreated \in BOOLEAN
    BY <1>1 DEF SessionTyped
  <2> DEFINE rec == sess.recreated
             c == cons[p]
             S == Safe'
             K == Kept'
  <2>3. rec \in BOOLEAN /\ rec = sess.recreated /\ S \subseteq K /\ Good(p, log[p], rec, c, S, K)
    BY <1>3, <2>1, <2>2
  <2> HIDE DEF rec, c, S, K
  <2>4. Good(p, log[p], rec, Drained(c), S, K) /\ Drained(c).next = c.next /\ Drained(c).span = c.span
    BY <2>1, <2>3, DrainedGood
  <2> QED
    BY <2>4 DEF rec, c, S, K
<1>5. sess' \in [phase : {"up"}, cid : BOOLEAN, tid : Nat, recreated : BOOLEAN, failed : BOOLEAN]
  BY <1>1, <1>2 DEF SessionTyped
<1>6. excused \subseteq excused' /\ excused' \subseteq Record
  BY <1>1, <1>2 DEF HistoryTyped
<1> HIDE DEF cs
<1> QED
  BY <1>2, <1>4, <1>5, <1>6, PassStep

LEMMA JoinAt ==
    ASSUME KafkaInv, NEW p \in Partition, NEW K, Kept \subseteq K
    PROVE  LET x == JoinPosition(p)
           IN  /\ x \in Nat /\ x <= TopOf(log[p])
               /\ x \in Retained(p) \/ PolicySkips(p) \subseteq K => UpTo(p, log[p], x, K)
<1> DEFINE x == JoinPosition(p)
           l == log[p]
<1>1. LogOK(l) /\ committed[p] \in Offset
  BY DEF KafkaInv, Typed, BrokerTyped
<1>2. /\ l.low \in Nat /\ Len(l.recs) \in Nat /\ l.low <= Len(l.recs)
      /\ Len(l.recs) <= TopOf(l) /\ TopOf(l) \in Nat
  BY <1>1, LogBounds
<1>3. CASE committed[p] # NoOffset
  <2>1. x = committed[p]
    BY <1>3 DEF JoinPosition
  <2>2. UpTo(p, l, committed[p], K)
    <3>1. Safe \subseteq K
      BY DEF Kept
    <3> QED
      BY <3>1, StillSafe
  <2> HIDE DEF x
  <2>3. x \in Nat
    BY <1>1, <1>3, <2>1, Constants
  <2> QED
    BY <2>1, <2>2, <2>3 DEF UpTo, x
<1>4. CASE committed[p] = NoOffset /\ UseEarliest
  <2>1. x = l.low
    BY <1>4 DEF JoinPosition
  <2> QED
    BY <1>1, <1>2, <2>1, UpToLow
<1>5. CASE committed[p] = NoOffset /\ ~UseEarliest
  <2>1. x = Len(l.recs)
    BY <1>5 DEF JoinPosition, High
  <2>2. x \notin Retained(p)
    BY <1>2, <2>1 DEF Retained, High
  <2>3. ASSUME PolicySkips(p) \subseteq K, NEW o \in l.low .. (Len(l.recs) - 1)
        PROVE  <<p, l.recs[o + 1]>> \in K
    <3>1. <<p, l.recs[o + 1]>> \in RetainedRecords(p)
      BY DEF RetainedRecords, RecordAt, Retained, High
    <3>2. RetainedRecords(p) \ Accounted \subseteq K
      BY <1>5, <2>3 DEF PolicySkips
    <3> QED
      BY <3>1, <3>2, AccountedKept
  <2> QED
    BY <1>2, <2>1, <2>2, <2>3 DEF UpTo
<1> QED
  BY <1>3, <1>4, <1>5

LEMMA JoinedGood ==
    ASSUME KafkaInv, sess.phase = "join", NEW p \in Partition, NEW dropped, NEW S, NEW K,
           Safe \subseteq S, Kept \subseteq K, S \subseteq K,
           p \in Ungoverned => PolicySkips(p) \subseteq K
    PROVE  LET c == JoinedCons(p, cons[p].fr, sess.recreated, dropped)
           IN  /\ Good(p, log[p], sess.recreated, c, S, K)
               /\ c.next = cons[p].next /\ c.span = cons[p].span
<1> DEFINE rec == sess.recreated
           b == cons[p]
           l == log[p]
           x == JoinPosition(p)
           drop == p \in dropped /\ x \in Retained(p)
           fr == synthesize_recreated(b.fr, rec)
           y == IF drop THEN x + 1 ELSE x
           g == IF fr # NoEntry THEN NeedsTarget ELSE IF drop THEN NeedsSeek(x) ELSE Active
           c == [b EXCEPT !.assigned = TRUE, !.pos = y, !.tainted = drop, !.fr = fr, !.gate = g]
<1>1. /\ LogOK(l) /\ rec \in BOOLEAN /\ Good(p, l, rec, b, S, K) /\ Quiet(b)
  BY StillSafe DEF KafkaInv, Typed, SessionTyped, ShapeInv
<1>2. b \in Consumer /\ b.fr \in Entry /\ FrontierOK(p, l, b.fr, S)
  BY <1>1 DEF Good, ConsOK, Consumer
<1>3. fr \in Entry /\ FrontierOK(p, l, fr, S) /\ (fr = NoEntry <=> b.fr = NoEntry /\ ~rec)
  BY <1>1, <1>2, SynthesizedOK
<1>4. /\ x \in Nat /\ x <= TopOf(l)
      /\ x \in Retained(p) \/ PolicySkips(p) \subseteq K => UpTo(p, l, x, K)
  BY JoinAt
<1>5. y \in Nat /\ y <= TopOf(l) /\ x \in Int /\ drop \in BOOLEAN
  <2>1. /\ TopOf(l) \in Nat /\ Len(l.recs) \in Nat /\ l.low \in Nat /\ Len(l.recs) <= TopOf(l)
    BY <1>1, LogBounds
  <2>2. x \in Retained(p) => x + 1 <= Len(l.recs)
    BY <1>4, <2>1 DEF Retained, High
  <2> HIDE DEF x, l
  <2> QED
    BY <1>4, <2>1, <2>2
<1>6. g \in Gate /\ GateOK(p, l, g, K)
  <2>1. drop => UpTo(p, l, x, K)
    BY <1>4
  <2> HIDE DEF x, drop, fr
  <2> QED
    BY <1>5, <2>1, Constants DEF Gate, GateOK, NeedsTarget, NeedsSeek, Active
<1>7. g = Active => ~drop /\ fr = NoEntry
  BY DEF NeedsTarget, NeedsSeek, Active
<1>8. SafeFloor(b) = NoOffset
  <2>1. b.next = NoOffset /\ b.span.next = NoOffset
    BY <1>1 DEF Quiet, NoSpan
  <2> QED
    BY <1>2, <2>1, FloorOf
<1>9. g = Active => UpTo(p, l, y, K)
  <2>1. fr = NoEntry => p \in Ungoverned
    BY <1>3, <1>8 DEF Ungoverned
  <2>2. ~drop => y = x
    OBVIOUS
  <2> HIDE DEF x, y, drop, fr, g
  <2> QED
    BY <1>4, <1>7, <2>1, <2>2
<1>10. JoinedCons(p, cons[p].fr, sess.recreated, dropped) = c
  BY DEF JoinedCons
<1> HIDE DEF y, drop, fr, g, b
<1>11. c \in Consumer
  BY <1>2, <1>3, <1>5, <1>6 DEF Consumer
<1>12. /\ c.assigned = TRUE /\ c.pos = y /\ c.fr = fr /\ c.gate = g /\ c.next = b.next
       /\ c.span = b.span /\ c.notice = b.notice
  BY <1>2 DEF Consumer
<1> HIDE DEF c
<1>13. Through(rec, c) => g = Active
  BY <1>12 DEF Through
<1>14. ConsOK(p, l, rec, c, S, K)
  BY <1>1, <1>3, <1>5, <1>6, <1>9, <1>12, <1>13 DEF Good, ConsOK
<1> QED
  BY <1>10, <1>11, <1>12, <1>14 DEF Good, b

LEMMA PolicySkipsTyped ==
    ASSUME KafkaInv
    PROVE  UNION {PolicySkips(p) : p \in Ungoverned} \subseteq Record
<1>1. \A p \in Partition : PolicySkips(p) \subseteq Record
  BY RetainedTyped DEF PolicySkips
<1> QED
  BY <1>1 DEF Ungoverned

LEMMA JoinStep ==
    ASSUME KafkaInv, NEW dropped, Join(dropped)
    PROVE  KafkaInv'
<1> DEFINE cs == [p \in Partition |-> JoinedCons(p, cons[p].fr, sess.recreated, dropped)]
<1>1. BrokerTyped /\ HistoryTyped /\ SessionTyped /\ ShapeInv
  BY DEF KafkaInv, Typed
<1>2. /\ TryActivatePending(cs) /\ sess.phase = "join" /\ sess' = [sess EXCEPT !.phase = "up"]
      /\ UNCHANGED <<brokerVars, rows, buf, pub, accepted, shadow>>
      /\ excused' = excused \cup UNION {PolicySkips(p) : p \in Ungoverned}
  BY DEF Join
<1>3. pub.phase = "none"
  BY <1>1, <1>2, NoPubTyped DEF ShapeInv
<1>4. excused \subseteq excused' /\ excused' \subseteq Record
  BY <1>1, <1>2, PolicySkipsTyped DEF HistoryTyped
<1>5. Safe \subseteq Safe' /\ Kept \subseteq Kept' /\ Safe' \subseteq Kept' /\ excused' \subseteq Kept'
  <2> HIDE DEF cs
  <2> QED
    BY <1>2, <1>4, PassGrows
<1>6. \A p \in Partition :
        /\ Good(p, log[p], sess.recreated, cs[p], Safe', Kept')
        /\ cs[p].next = cons[p].next /\ cs[p].span = cons[p].span
  <2> TAKE p \in Partition
  <2>1. p \in Ungoverned => PolicySkips(p) \subseteq Kept'
    BY <1>2, <1>5
  <2> DEFINE S == Safe'
             K == Kept'
  <2>2. /\ Safe \subseteq S /\ Kept \subseteq K /\ S \subseteq K
        /\ p \in Ungoverned => PolicySkips(p) \subseteq K
    BY <1>5, <2>1
  <2> HIDE DEF S, K
  <2>3. LET c == JoinedCons(p, cons[p].fr, sess.recreated, dropped)
        IN  /\ Good(p, log[p], sess.recreated, c, S, K)
            /\ c.next = cons[p].next /\ c.span = cons[p].span
    BY <1>2, <2>2, JoinedGood
  <2> QED
    BY <2>3 DEF S, K
<1>7. /\ sess' \in [phase : {"up"}, cid : BOOLEAN, tid : Nat, recreated : BOOLEAN, failed : BOOLEAN]
      /\ sess'.recreated = sess.recreated /\ sess'.failed = sess.failed
  BY <1>1, <1>2 DEF SessionTyped
<1> HIDE DEF cs
<1> QED
  BY <1>2, <1>3, <1>4, <1>6, <1>7, PassStep

\* The loop goes on with other consumer records.
LEMMA ConsumerStep ==
    ASSUME KafkaInv, UNCHANGED <<brokerVars, sent, rows, sess, buf, pub, accepted, gap, shadow, degraded>>,
           sess.phase = "up", pub.phase = "none", excused \subseteq excused',
           excused' \subseteq Record, incidents' \in 0 .. MaxIncidents,
           cons' = [p \in Partition |-> cons'[p]],
           \A p \in Partition : /\ Good(p, log[p], sess.recreated, cons'[p], Safe', Kept')
                                /\ cons'[p].next = cons[p].next /\ cons'[p].span = cons[p].span
    PROVE  KafkaInv'
<1>1. BrokerTyped /\ HistoryTyped /\ SessionTyped /\ ConsTyped /\ ShapeInv /\ SafeInv /\ CleanInv
  BY DEF KafkaInv, Typed
<1>2. Stored' = Stored /\ SettledRows' = SettledRows
  BY SameStock
<1>3. Safe \subseteq Safe' /\ Kept \subseteq Kept'
  BY <1>2 DEF Safe, Kept
<1>4. BrokerTyped' /\ HistoryTyped'
  BY <1>1 DEF BrokerTyped, HistoryTyped, brokerVars
<1>5. SessionTyped'
  BY <1>1 DEF SessionTyped
<1>6. ConsTyped'
  <2>1. \A p \in Partition : cons'[p] \in Consumer /\ (cons'[p].muted => cons'[p].assigned)
    BY DEF Good
  <2> QED
    BY <2>1 DEF ConsTyped
<1>7. ShapeInv'
  BY <1>1 DEF ShapeInv
<1>8. CleanInv'
  BY <1>1, <1>2 DEF CleanInv
<1>9. SafeInv'
  <2>1. \A p \in Partition :
           /\ UpTo(p, log[p], committed[p], Safe') /\ UpTo(p, log[p], sent[p], Safe')
           /\ SpanOK(p, log[p], pub.spans[p], Kept')
           /\ \A i \in SettledRows : SpanOK(p, log[p], rows[i].span[p], Safe')
    BY <1>3, StillSafe
  <2>2. \A r \in ToSet(buf) \cup ToSet(pub.batch) : cons'[r[1]].next # NoOffset
    BY HandsTyped
  <2>3. UNCHANGED <<log, committed>>
    BY DEF brokerVars
  <2> QED
    BY <1>2, <2>1, <2>2, <2>3 DEF SafeInv
<1> QED
  BY <1>4, <1>5, <1>6, <1>7, <1>8, <1>9 DEF KafkaInv, Typed

LEMMA RevokeStep ==
    ASSUME KafkaInv, Revoke
    PROVE  KafkaInv'
<1>1. BrokerTyped /\ HistoryTyped
  BY DEF KafkaInv, Typed
<1>2. /\ UNCHANGED <<brokerVars, sent, rows, sess, buf, pub, accepted, excused, gap, shadow, degraded>>
      /\ sess.phase = "up" /\ pub.phase = "none"
      /\ cons' = [p \in Partition |-> cons'[p]]
  BY DEF Revoke, historyVars, Looping, Running
<1>3. excused \subseteq excused' /\ excused' \subseteq Record /\ incidents' \in 0 .. MaxIncidents
  BY <1>1, <1>2, IncidentTyped DEF HistoryTyped, Revoke
<1>4. Safe' = Safe /\ Kept' = Kept
  BY <1>2, SameStock DEF Safe, Kept
<1>5. ASSUME NEW p \in Partition
      PROVE  /\ Good(p, log[p], sess.recreated, cons'[p], Safe', Kept')
             /\ cons'[p].next = cons[p].next /\ cons'[p].span = cons[p].span
  <2> DEFINE b == cons[p]
             n == b.notice \cup {"revoked"}
             c == [b EXCEPT !.assigned = FALSE, !.muted = FALSE, !.notice = n]
  <2>1. Good(p, log[p], sess.recreated, b, Safe, Kept)
    BY DEF KafkaInv, SafeInv
  <2>2. b \in Consumer
    BY <2>1 DEF Good
  <2>3. n \in SUBSET {"revoked", "assigned"}
    BY <2>2 DEF Consumer
  <2>4. cons'[p] = c
    BY DEF Revoke
  <2> HIDE DEF b, n
  <2>5. c \in Consumer
    BY <2>2, <2>3 DEF Consumer
  <2>6. /\ c.assigned = FALSE /\ c.muted = FALSE /\ c.gate = b.gate /\ c.next = b.next
        /\ c.span = b.span /\ c.fr = b.fr
    BY <2>2 DEF Consumer
  <2> HIDE DEF c
  <2>7. Good(p, log[p], sess.recreated, c, Safe, Kept)
    BY <2>1, <2>5, <2>6 DEF Good, ConsOK, Through
  <2> QED
    BY <1>4, <2>4, <2>6, <2>7 DEF b
<1> QED
  BY <1>2, <1>3, <1>5, ConsumerStep

LEMMA AssignStep ==
    ASSUME KafkaInv, Assign
    PROVE  KafkaInv'
<1>1. BrokerTyped /\ HistoryTyped
  BY DEF KafkaInv, Typed
<1>2. /\ UNCHANGED <<brokerVars, sent, rows, sess, buf, pub, incidents, accepted, gap, shadow, degraded>>
      /\ sess.phase = "up" /\ pub.phase = "none"
      /\ cons' = [p \in Partition |-> cons'[p]]
      /\ excused' = excused \cup UNION {PolicySkips(p) : p \in Ungoverned}
  BY DEF Assign, Looping, Running
<1>3. excused \subseteq excused' /\ excused' \subseteq Record /\ incidents' \in 0 .. MaxIncidents
  BY <1>1, <1>2, PolicySkipsTyped DEF HistoryTyped
<1>4. Safe \subseteq Safe' /\ Kept \subseteq Kept' /\ excused' \subseteq Kept'
  BY <1>2, <1>3, SameStock DEF Safe, Kept
<1>5. ASSUME NEW p \in Partition
      PROVE  /\ Good(p, log[p], sess.recreated, cons'[p], Safe', Kept')
             /\ cons'[p].next = cons[p].next /\ cons'[p].span = cons[p].span
  <2> DEFINE b == cons[p]
             x == JoinPosition(p)
             n == b.notice \cup {"assigned"}
             c == [b EXCEPT !.assigned = TRUE, !.pos = x, !.notice = n]
             rec == sess.recreated
  <2>1. Good(p, log[p], rec, b, Safe', Kept')
    BY <1>4, StillSafe
  <2>2. b \in Consumer
    BY <2>1 DEF Good
  <2>3. n \in SUBSET {"revoked", "assigned"} /\ n # {} /\ "assigned" \in n
    BY <2>2 DEF Consumer
  <2>4. cons'[p] = c
    BY DEF Assign
  <2>5. /\ x \in Nat /\ x <= TopOf(log[p])
        /\ PolicySkips(p) \subseteq Kept' => UpTo(p, log[p], x, Kept')
    BY <1>4, JoinAt
  <2>6. p \in Ungoverned => PolicySkips(p) \subseteq Kept'
    BY <1>2, <1>4
  <2>7. b.fr = NoEntry /\ ~rec /\ SafeFloor(b) = NoOffset => p \in Ungoverned
    BY DEF Ungoverned
  <2> HIDE DEF b, n, x
  <2>8. c \in Consumer
    BY <2>2, <2>3, <2>5 DEF Consumer
  <2>9. /\ c.assigned = TRUE /\ c.pos = x /\ c.notice = n /\ c.gate = b.gate /\ c.next = b.next
        /\ c.span = b.span /\ c.fr = b.fr
    BY <2>2 DEF Consumer
  <2> HIDE DEF c
  <2>10. Through(rec, c) => UpTo(p, log[p], x, Kept')
    <3>1. SafeFloor(c) = SafeFloor(b)
      BY <2>9 DEF SafeFloor
    <3> QED
      BY <2>3, <2>5, <2>6, <2>7, <2>9, <3>1 DEF Through
  <2>11. Good(p, log[p], rec, c, Safe', Kept')
    BY <2>1, <2>5, <2>8, <2>9, <2>10 DEF Good, ConsOK
  <2> QED
    BY <2>4, <2>9, <2>11 DEF b
<1> QED
  BY <1>2, <1>3, <1>5, ConsumerStep

------------------------------------------------------------------------------
(* The loop.                                                               *)

\* roll_with_offsets: the spans and the buffer move into the publication.
LEMMA RollStep ==
    ASSUME KafkaInv, NEW cs, NEW batch \in Seq(Record), NEW final \in BOOLEAN,
           Roll(cs, batch, final), pub.phase = "none", sess.phase = "up",
           UNCHANGED <<brokerVars, sent, rows, excused, gap, shadow, degraded>>,
           incidents' \in 0 .. MaxIncidents, accepted' \subseteq Record,
           accepted' \subseteq accepted \cup ToSet(batch) \cup Poison,
           ToSet(buf) \subseteq ToSet(batch),
           sess' \in [phase : {"up"}, cid : BOOLEAN, tid : Nat, recreated : BOOLEAN, failed : BOOLEAN],
           sess'.recreated = sess.recreated, sess.failed => sess'.failed,
           \A p \in Partition :
               /\ Good(p, log[p], sess.recreated, cs[p], Safe, Safe \cup ToSet(batch))
               /\ cs[p].next = NoOffset => cs[p].span = NoSpan,
           \A r \in ToSet(batch) : cs[r[1]].next # NoOffset
    PROVE  KafkaInv'
<1>1. BrokerTyped /\ HistoryTyped /\ SessionTyped /\ ShapeInv /\ SafeInv /\ CleanInv
  BY DEF KafkaInv, Typed
<1>2. /\ pub' = [phase |-> "persist", batch |-> batch,
                 spans |-> [p \in Partition |-> cs[p].span], final |-> final]
      /\ cons' = [p \in Partition |-> [cs[p] EXCEPT !.span = NoSpan]]
      /\ buf' = <<>>
  BY DEF Roll
<1>3. /\ pub'.phase = "persist" /\ pub'.batch = batch
      /\ \A p \in Partition : pub'.spans[p] = cs[p].span
  BY <1>2
<1>4. Stored' = Stored /\ SettledRows' = SettledRows
  BY <1>3, SameStock
<1>5. ToSet(buf') = {} /\ ToSet(pub.batch) = {}
  BY <1>1, <1>2, NoPubTyped DEF ShapeInv
<1>6. Safe' = Safe /\ Kept' = Safe \cup ToSet(batch)
  BY <1>3, <1>4, <1>5 DEF Safe, Kept
<1> DEFINE K == Safe \cup ToSet(batch)
<1>7. ASSUME NEW p \in Partition
      PROVE  /\ Good(p, log[p], sess.recreated, cons'[p], Safe, K)
             /\ cons'[p].next = cs[p].next /\ cons'[p].span = NoSpan
             /\ SpanOK(p, log[p], cs[p].span, K) /\ cs[p].span \in Span
  <2> HIDE DEF K
  <2> DEFINE b == cs[p]
             c == [b EXCEPT !.span = NoSpan]
             rec == sess.recreated
  <2>1. Good(p, log[p], rec, b, Safe, K) /\ (b.next = NoOffset => b.span = NoSpan) /\ LogOK(log[p])
    BY <1>1 DEF BrokerTyped, K
  <2>2. b \in Consumer /\ NoSpan \in Span
    BY <2>1, Constants DEF Good, Span, NoSpan
  <2>3. cons'[p] = c
    BY <1>2
  <2> HIDE DEF b
  <2>4. c \in Consumer
    BY <2>2 DEF Consumer
  <2>5. /\ c.assigned = b.assigned /\ c.muted = b.muted /\ c.pos = b.pos /\ c.notice = b.notice
        /\ c.gate = b.gate /\ c.next = b.next /\ c.span = NoSpan /\ c.fr = b.fr
    BY <2>2 DEF Consumer
  <2> HIDE DEF c
  <2>6. SafeFloor(c) = NoOffset => SafeFloor(b) = NoOffset
    <3>1. NoSpan.next = NoOffset
      BY DEF NoSpan
    <3>2. SafeFloor(c) = NoOffset => b.next = NoOffset
      BY <2>4, <2>5, FloorOf
    <3> QED
      BY <2>1, <2>2, <3>1, <3>2, FloorOf
  <2>7. Through(rec, c) => Through(rec, b)
    BY <2>5, <2>6 DEF Through
  <2>8. SpanOK(p, log[p], NoSpan, K)
    BY <2>1, NoSpanOK
  <2>9. Good(p, log[p], rec, c, Safe, K)
    BY <2>1, <2>4, <2>5, <2>7, <2>8 DEF Good, ConsOK, SpanOK
  <2>10. SpanOK(p, log[p], b.span, K) /\ b.span \in Span
    BY <2>1, <2>2 DEF Good, ConsOK, SpanOK, Consumer
  <2> QED
    BY <2>3, <2>5, <2>9, <2>10 DEF b
<1>8. BrokerTyped' /\ HistoryTyped'
  BY <1>1 DEF BrokerTyped, HistoryTyped, brokerVars
<1>9. SessionTyped'
  <2>1. [p \in Partition |-> cs[p].span] \in [Partition -> Span]
    BY <1>7
  <2>2. pub' \in [phase : {"none", "persist", "swap", "rollback"}, batch : Seq(Record),
                  spans : [Partition -> Span], final : BOOLEAN]
    <3> DEFINE sp == [p \in Partition |-> cs[p].span]
    <3>1. pub' = [phase |-> "persist", batch |-> batch, spans |-> sp, final |-> final]
          /\ sp \in [Partition -> Span]
      BY <1>2, <2>1
    <3> HIDE DEF sp
    <3> QED
      BY <3>1
  <2>3. buf' \in Seq(Record) /\ Len(buf') < MaxRowsPerSegment
    BY <1>2, KafkaAssumption, EmptySeq
  <2> QED
    BY <1>1, <2>2, <2>3 DEF SessionTyped
<1>10. ConsTyped'
  <2>1. \A p \in Partition : cons'[p] \in Consumer /\ (cons'[p].muted => cons'[p].assigned)
    BY <1>7 DEF Good
  <2>2. cons' = [p \in Partition |-> cons'[p]]
    BY <1>2
  <2> QED
    BY <2>1, <2>2 DEF ConsTyped
<1>11. ShapeInv'
  BY <1>2, <1>3, <1>7 DEF ShapeInv
<1>12. CleanInv'
  <2>1. accepted \subseteq Stored \cup Poison \cup ToSet(buf) \/ sess.failed
    BY <1>1, <1>5 DEF CleanInv
  <2> QED
    BY <1>3, <1>4, <2>1 DEF CleanInv
<1>13. SafeInv'
  <2>1. \A p \in Partition :
           /\ UpTo(p, log[p], committed[p], Safe) /\ UpTo(p, log[p], sent[p], Safe)
           /\ \A i \in SettledRows : SpanOK(p, log[p], rows[i].span[p], Safe)
    BY <1>1 DEF SafeInv
  <2>2. \A r \in ToSet(buf') \cup ToSet(pub'.batch) : cons'[r[1]].next # NoOffset
    <3> SUFFICES ASSUME NEW r \in ToSet(batch) PROVE cons'[r[1]].next # NoOffset
      BY <1>3, <1>5
    <3>1. r \in Record
      BY DEF ToSet
    <3>2. r[1] \in Partition
      BY <3>1 DEF Record
    <3> QED
      BY <1>7, <3>2
  <2>3. UNCHANGED <<log, committed>>
    BY DEF brokerVars
  <2>4. \A p \in Partition : /\ Good(p, log[p], sess.recreated, cons'[p], Safe', Kept')
                             /\ SpanOK(p, log[p], pub'.spans[p], Kept')
    BY <1>3, <1>6, <1>7
  <2> QED
    BY <1>4, <1>6, <2>1, <2>2, <2>3, <2>4 DEF SafeInv
<1> QED
  BY <1>8, <1>9, <1>10, <1>11, <1>12, <1>13 DEF KafkaInv, Typed

\* The spans and records a flush moves are those of the invariant.
LEMMA Rollable ==
    ASSUME KafkaInv, pub.phase = "none"
    PROVE  /\ Kept = Safe \cup ToSet(buf) /\ buf \in Seq(Record)
           /\ \A p \in Partition :
                 /\ Good(p, log[p], sess.recreated, cons[p], Safe, Safe \cup ToSet(buf))
                 /\ cons[p].next = NoOffset => cons[p].span = NoSpan
           /\ \A r \in ToSet(buf) : cons[r[1]].next # NoOffset
           /\ accepted \subseteq Record
<1>1. ToSet(pub.batch) = {}
  BY NoPubTyped DEF KafkaInv, ShapeInv
<1>2. Kept = Safe \cup ToSet(buf)
  BY <1>1 DEF Kept
<1> QED
  BY <1>2 DEF KafkaInv, SafeInv, ShapeInv, Typed, SessionTyped, HistoryTyped

LEMMA FlushTickStep ==
    ASSUME KafkaInv, FlushTick
    PROVE  KafkaInv'
<1>1. /\ Roll(cons, buf, FALSE) /\ pub.phase = "none" /\ sess.phase = "up"
      /\ UNCHANGED <<brokerVars, sent, rows, sess, incidents, excused, gap, shadow, degraded, accepted>>
  BY DEF FlushTick, Looping, Running, historyVars
<1>2. sess' \in [phase : {"up"}, cid : BOOLEAN, tid : Nat, recreated : BOOLEAN, failed : BOOLEAN]
      /\ incidents' \in 0 .. MaxIncidents
  BY <1>1 DEF KafkaInv, Typed, SessionTyped, HistoryTyped
<1> DEFINE final == FALSE
<1>3. final \in BOOLEAN /\ Roll(cons, buf, final)
  BY <1>1
<1> HIDE DEF final
<1> QED
  BY <1>1, <1>2, <1>3, Rollable, RollStep

LEMMA StopStep ==
    ASSUME KafkaInv, NEW fatal \in BOOLEAN, Stop(fatal)
    PROVE  KafkaInv'
<1>1. BrokerTyped /\ HistoryTyped /\ SessionTyped /\ CleanInv /\ ShapeInv
  BY DEF KafkaInv, Typed
<1>2. /\ UNCHANGED <<brokerVars, sent, rows, excused, gap, shadow, degraded, accepted>>
      /\ pub.phase = "none" /\ sess.phase = "up" /\ incidents' \in 0 .. MaxIncidents
  BY <1>1, IncidentTyped DEF Stop, Looping, Running, historyVars, HistoryTyped
<1>3. CASE buf # <<>>
  <2>1. Roll(cons, buf, TRUE) /\ sess' = [sess EXCEPT !.failed = @ \/ fatal]
    BY <1>3 DEF Stop
  <2>2. /\ sess' \in [phase : {"up"}, cid : BOOLEAN, tid : Nat, recreated : BOOLEAN, failed : BOOLEAN]
        /\ sess'.recreated = sess.recreated /\ (sess.failed => sess'.failed)
    BY <1>1, <1>2, <2>1 DEF SessionTyped
  <2> DEFINE final == TRUE
  <2>3. final \in BOOLEAN /\ Roll(cons, buf, final)
    BY <2>1
  <2> HIDE DEF final
  <2> QED
    BY <1>2, <2>2, <2>3, Rollable, RollStep
<1>4. CASE buf = <<>>
  <2>1. /\ sess' = [sess EXCEPT !.phase = "stopped", !.failed = @ \/ fatal]
        /\ cons' = [p \in Partition |-> IdleCons] /\ UNCHANGED <<buf, pub>>
    BY <1>4 DEF Stop
  <2>2. pub = NoPub /\ pub' = NoPub /\ buf' = <<>>
    BY <1>1, <1>2, <1>4, <2>1 DEF ShapeInv
  <2>3. /\ sess' \in [phase : {"down", "stopped"}, cid : BOOLEAN, tid : Nat,
                      recreated : BOOLEAN, failed : BOOLEAN]
        /\ sess.failed => sess'.failed
    BY <1>1, <2>1 DEF SessionTyped
  <2>4. Stored' = Stored /\ SettledRows' = SettledRows
    BY <1>2, <2>1, SameStock
  <2>5. Safe' = Safe
    BY <1>2, <2>4 DEF Safe
  <2>6. BrokerTyped' /\ HistoryTyped'
    BY <1>1, <1>2 DEF BrokerTyped, HistoryTyped, brokerVars
  <2>7. CleanInv'
    BY <1>1, <1>2, <2>1, <2>3, <2>4 DEF CleanInv
  <2>8. SettledRows = DOMAIN rows
    BY <1>2 DEF SettledRows, InStock
  <2>9. \A p \in Partition : /\ UpTo(p, log[p], sent[p], Safe)
                             /\ \A i \in DOMAIN rows : SpanOK(p, log[p], rows[i].span[p], Safe)
    BY <2>8 DEF KafkaInv, SafeInv
  <2>10. UNCHANGED <<log, committed>> /\ sent' \in [Partition -> Offset] /\ rows' \in Seq(Row)
    BY <1>1, <1>2 DEF brokerVars, BrokerTyped, SessionTyped
  <2>11. /\ Safe \subseteq Safe' /\ \A p \in Partition : UpTo(p, log[p], sent'[p], Safe')
         /\ \A i \in DOMAIN rows', p \in Partition : SpanOK(p, log[p], rows'[i].span[p], Safe')
    BY <1>2, <2>5, <2>9
  <2> QED
    BY <2>1, <2>2, <2>3, <2>6, <2>7, <2>10, <2>11, SessionEnds
<1> QED
  BY <1>3, <1>4

LEMMA ToSetAppend ==
    ASSUME NEW T, NEW s \in Seq(T), NEW e \in T
    PROVE  Append(s, e) \in Seq(T) /\ ToSet(Append(s, e)) = ToSet(s) \cup {e}
<1>1. /\ Append(s, e) \in Seq(T) /\ Len(Append(s, e)) = Len(s) + 1 /\ Len(s) \in Nat
      /\ \A i \in 1 .. Len(s) : Append(s, e)[i] = s[i]
      /\ Append(s, e)[Len(s) + 1] = e
  BY AppendProperties, LenProperties
<1>2. DOMAIN s = 1 .. Len(s) /\ DOMAIN Append(s, e) = 1 .. Len(s) + 1
  BY <1>1, LenProperties
<1> DEFINE a == Append(s, e)
           n == Len(s)
<1>3. /\ n \in Nat /\ DOMAIN s = 1 .. n /\ DOMAIN a = 1 .. n + 1 /\ a[n + 1] = e
      /\ \A i \in 1 .. n : a[i] = s[i]
  BY <1>1, <1>2
<1> HIDE DEF a, n
<1>4. \A r \in ToSet(a) : r \in ToSet(s) \cup {e}
  <2> SUFFICES ASSUME NEW i \in 1 .. n + 1 PROVE a[i] \in ToSet(s) \cup {e}
    BY <1>3 DEF ToSet
  <2>1. CASE i = n + 1
    BY <1>3, <2>1
  <2>2. CASE i # n + 1
    <3>1. i \in 1 .. n
      BY <1>3, <2>2
    <3> QED
      BY <1>3, <3>1 DEF ToSet
  <2> QED
    BY <2>1, <2>2
<1>5. \A r \in ToSet(s) \cup {e} : r \in ToSet(a)
  <2>1. e \in ToSet(a)
    <3>1. n + 1 \in 1 .. n + 1
      BY <1>3
    <3> QED
      BY <1>3, <3>1 DEF ToSet
  <2>2. ASSUME NEW i \in 1 .. n PROVE s[i] \in ToSet(a)
    <3>1. i \in 1 .. n + 1
      BY <1>3
    <3> QED
      BY <1>3, <3>1 DEF ToSet
  <2> QED
    BY <1>3, <2>1, <2>2 DEF ToSet
<1> QED
  BY <1>1, <1>4, <1>5 DEF a

\* A record is accepted: nothing below its offset is lost, so nothing below the
\* next one is, and if it is the first of this session the durable next may
\* start at it, because the session holds no other record of the partition.
LEMMA AcceptGood ==
    ASSUME NEW p, NEW l, LogOK(l), NEW rec, NEW c, NEW S, NEW K, NEW T, S \subseteq T, K \subseteq T,
           Good(p, l, rec, c, S, K), c.assigned, c.gate = Active, c.notice = {},
           c.pos \in l.low .. (Len(l.recs) - 1), <<p, l.recs[c.pos + 1]>> \in T,
           c.next = NoOffset => \A r \in K : r[1] = p => r \in S
    PROVE  LET h == [c EXCEPT !.pos = @ + 1, !.span = record_offset(c),
                              !.next = IF @ = NoOffset THEN c.pos ELSE @]
           IN  Good(p, l, rec, h, S, T) /\ h.next # NoOffset
<1>1. /\ c \in Consumer /\ ConsOK(p, l, rec, c, S, K) /\ UpTo(p, l, c.pos, K)
      /\ c.pos \in Nat /\ c.next \in Offset /\ c.span \in Span
  BY DEF Good, ConsOK, Through, Consumer
<1>2. /\ l.low \in Nat /\ Len(l.recs) \in Nat /\ TopOf(l) \in Nat
      /\ Len(l.recs) <= TopOf(l) /\ TopOf(l) <= MaxRecords
  BY LogBounds
<1>3. c.pos \in Offset /\ c.pos + 1 \in Offset /\ c.pos + 1 <= TopOf(l) /\ c.pos # NoOffset
      /\ c.pos + 1 \in Nat
  BY <1>1, <1>2, Constants
<1>4. UpTo(p, l, c.pos + 1, T)
  <2>1. ASSUME NEW o \in l.low .. (Len(l.recs) - 1), o < c.pos + 1
        PROVE  <<p, l.recs[o + 1]>> \in T
    <3>1. CASE o = c.pos
      BY <3>1
    <3>2. CASE o # c.pos
      <4>1. o < c.pos
        BY <1>1, <1>2, <2>1, <3>2
      <4> QED
        BY <1>1, <4>1 DEF UpTo
    <3> QED
      BY <3>1, <3>2
  <2> QED
    BY <1>3, <2>1 DEF UpTo
<1> DEFINE n == IF c.next = NoOffset THEN c.pos ELSE c.next
           sp == record_offset(c)
           q == c.pos + 1
           h == [c EXCEPT !.pos = q, !.span = sp, !.next = n]
<1>5. n \in Offset /\ n # NoOffset /\ UpTo(p, l, n, S)
  <2>1. CASE c.next = NoOffset
    <3>1. UpTo(p, l, c.pos, S)
      BY <1>1, <2>1, UpToWeaken
    <3> QED
      BY <1>3, <2>1, <3>1
  <2>2. CASE c.next # NoOffset
    BY <1>1, <2>2 DEF ConsOK
  <2> QED
    BY <2>1, <2>2
<1>6. sp \in Span /\ sp.next = c.pos + 1 /\ sp.start <= sp.next
  <2>1. CASE c.span = NoSpan \/ c.pos < c.span.next
    <3>1. sp = [start |-> c.pos, next |-> c.pos + 1]
      BY <2>1 DEF record_offset
    <3> QED
      BY <1>1, <1>3, <3>1 DEF Span
  <2>2. CASE ~(c.span = NoSpan \/ c.pos < c.span.next)
    <3>1. sp = [c.span EXCEPT !.next = c.pos + 1]
      BY <2>2 DEF record_offset
    <3>2. sp \in Span /\ sp.next = c.pos + 1 /\ sp.start = c.span.start
      BY <1>1, <1>3, <3>1 DEF Span
    <3>3. c.span.start \in Int /\ c.span.next \in Int /\ c.span.start <= c.span.next
      BY <1>1, Constants DEF Span, ConsOK
    <3>4. c.span.start <= c.pos + 1
      BY <1>1, <2>2, <3>3
    <3> QED
      BY <3>2, <3>4
  <2> QED
    BY <2>1, <2>2
<1>7. \A x : UpTo(p, l, x, K) => UpTo(p, l, x, T)
  BY UpToWeaken
<1>8. q \in Nat /\ q <= TopOf(l) /\ UpTo(p, l, q, T) /\ sp.next = q
  BY <1>3, <1>4, <1>6
<1> HIDE DEF n, sp, q
<1>9. h \in Consumer
  BY <1>1, <1>5, <1>6, <1>8 DEF Consumer
<1>10. /\ h.pos = q /\ h.span = sp /\ h.next = n /\ h.gate = c.gate /\ h.fr = c.fr
       /\ h.muted = c.muted /\ h.assigned = c.assigned
  BY <1>1 DEF Consumer
<1> HIDE DEF h
<1>11. GateOK(p, l, c.gate, T)
  BY <1>1, <1>7 DEF ConsOK, GateOK
<1>12. ConsOK(p, l, rec, h, S, T)
  BY <1>1, <1>5, <1>6, <1>8, <1>10, <1>11 DEF ConsOK
<1>13. h = [c EXCEPT !.pos = @ + 1, !.span = record_offset(c),
                     !.next = IF @ = NoOffset THEN c.pos ELSE @]
  BY DEF h, q, sp, n
<1> QED
  BY <1>5, <1>9, <1>10, <1>12, <1>13 DEF Good

\* A record goes into the buffer, or nowhere if it does not parse.
LEMMA BufferStep ==
    ASSUME KafkaInv, NEW cs, NEW batch \in Seq(Record), Len(batch) < MaxRowsPerSegment,
           cons' = cs, cs = [p \in Partition |-> cs[p]], buf' = batch, pub.phase = "none", sess.phase = "up",
           UNCHANGED <<brokerVars, sent, rows, sess, pub, incidents, excused, gap, shadow, degraded>>,
           accepted' \subseteq Record,
           accepted' \subseteq accepted \cup ToSet(batch) \cup Poison,
           ToSet(buf) \subseteq ToSet(batch),
           \A p \in Partition :
               /\ Good(p, log[p], sess.recreated, cs[p], Safe, Safe \cup ToSet(batch))
               /\ cs[p].next = NoOffset => cs[p].span = NoSpan,
           \A r \in ToSet(batch) : cs[r[1]].next # NoOffset
    PROVE  KafkaInv'
<1>1. BrokerTyped /\ HistoryTyped /\ SessionTyped /\ ShapeInv /\ SafeInv /\ CleanInv
  BY DEF KafkaInv, Typed
<1>2. Stored' = Stored /\ SettledRows' = SettledRows
  BY SameStock
<1>3. pub = NoPub /\ ToSet(pub.batch) = {}
  BY <1>1, NoPubTyped DEF ShapeInv
<1>4. Safe' = Safe /\ Kept' = Safe \cup ToSet(batch)
  BY <1>2, <1>3 DEF Safe, Kept
<1>5. BrokerTyped' /\ HistoryTyped'
  BY <1>1 DEF BrokerTyped, HistoryTyped, brokerVars
<1>6. SessionTyped'
  BY <1>1 DEF SessionTyped
<1>7. ConsTyped'
  <2>1. \A p \in Partition : cs[p] \in Consumer /\ (cs[p].muted => cs[p].assigned)
    BY DEF Good
  <2> QED
    BY <2>1 DEF ConsTyped
<1>8. ShapeInv'
  BY <1>3, NoPubTyped DEF ShapeInv
<1>9. CleanInv'
  BY <1>1, <1>2, <1>3 DEF CleanInv
<1>10. SafeInv'
  <2>1. \A p \in Partition :
           /\ UpTo(p, log[p], committed[p], Safe) /\ UpTo(p, log[p], sent[p], Safe)
           /\ \A i \in SettledRows : SpanOK(p, log[p], rows[i].span[p], Safe)
           /\ SpanOK(p, log[p], pub.spans[p], Kept')
    <3>1. \A p \in Partition : LogOK(log[p]) /\ pub.spans[p] = NoSpan
      BY <1>1, <1>3, NoPubTyped DEF BrokerTyped
    <3> QED
      BY <1>1, <3>1, NoSpanOK DEF SafeInv
  <2>2. \A r \in ToSet(buf') \cup ToSet(pub'.batch) : cons'[r[1]].next # NoOffset
    BY <1>3
  <2>3. UNCHANGED <<log, committed>>
    BY DEF brokerVars
  <2> QED
    BY <1>2, <1>4, <2>1, <2>2, <2>3 DEF SafeInv
<1> QED
  BY <1>5, <1>6, <1>7, <1>8, <1>9, <1>10 DEF KafkaInv, Typed

LEMMA DeliverStep ==
    ASSUME KafkaInv, NEW p \in Partition, Deliver(p)
    PROVE  KafkaInv'
<1> DEFINE cs == [q \in Partition |-> Drained(cons[q])]
           c == cs[p]
           l == log[p]
           rec == sess.recreated
<1>1. BrokerTyped /\ HistoryTyped /\ SessionTyped /\ ShapeInv
  BY DEF KafkaInv, Typed
<1>2. /\ UNCHANGED <<brokerVars, sent, rows, sess, incidents, excused, gap, shadow, degraded>>
      /\ pub.phase = "none" /\ sess.phase = "up" /\ cons[p].assigned /\ cons[p].pos \in Retained(p)
      /\ DropGated(p, cs) \/ Accept(p, cs)
  BY DEF Deliver, Looping, Running
<1>3. \A q \in Partition :
         /\ Good(q, log[q], rec, cs[q], Safe, Kept) /\ cs[q].notice = {}
         /\ cs[q].next = cons[q].next /\ cs[q].span = cons[q].span
         /\ cs[q].assigned = cons[q].assigned /\ cs[q].pos = cons[q].pos
         /\ LogOK(log[q])
  <2> TAKE q \in Partition
  <2>1. Good(q, log[q], rec, cons[q], Safe, Kept) /\ LogOK(log[q]) /\ rec \in BOOLEAN
        /\ Safe \subseteq Kept
    BY <1>1 DEF KafkaInv, SafeInv, BrokerTyped, SessionTyped, Kept
  <2> DEFINE d == cons[q]
  <2>2. Good(q, log[q], rec, d, Safe, Kept) /\ rec = sess.recreated
    BY <2>1
  <2> HIDE DEF d, rec
  <2>3. /\ Good(q, log[q], rec, Drained(d), Safe, Kept)
        /\ Drained(d).notice = {} /\ Drained(d).next = d.next /\ Drained(d).span = d.span
        /\ Drained(d).assigned = d.assigned /\ Drained(d).pos = d.pos
    BY <2>1, <2>2, DrainedGood
  <2> QED
    BY <2>1, <2>3 DEF d
<1>4. cs = [q \in Partition |-> cs[q]]
  OBVIOUS
<1> HIDE DEF cs
<1>5. /\ Good(p, l, rec, c, Safe, Kept) /\ c.notice = {} /\ c.assigned /\ LogOK(l)
      /\ c.pos \in l.low .. (Len(l.recs) - 1) /\ c \in Consumer
  BY <1>2, <1>3 DEF Retained, High, Good
<1>6. /\ c.pos \in Nat /\ c.pos + 1 \in Nat /\ c.pos + 1 <= TopOf(l)
  BY <1>5, LogBounds DEF Consumer
<1>7. CASE DropGated(p, cs)
  <2> DEFINE e == [c EXCEPT !.tainted = TRUE, !.pos = c.pos + 1]
  <2>1. /\ cs[p].gate # Active /\ cons' = [cs EXCEPT ![p] = e]
        /\ UNCHANGED <<buf, pub, accepted>>
    BY <1>7 DEF DropGated
  <2> HIDE DEF c
  <2>2. e \in Consumer
    BY <1>5, <1>6 DEF Consumer
  <2>3. /\ e.pos = c.pos + 1 /\ e.gate = c.gate /\ e.next = c.next /\ e.span = c.span /\ e.fr = c.fr
        /\ e.assigned = c.assigned /\ e.muted = c.muted
    BY <1>5 DEF Consumer
  <2> HIDE DEF e
  <2>4. Good(p, l, rec, e, Safe, Kept)
    <3>1. ~Through(rec, e)
      BY <2>1, <2>3 DEF Through, c
    <3> QED
      BY <1>5, <1>6, <2>2, <2>3, <3>1 DEF Good, ConsOK
  <2>5. Safe' = Safe /\ Kept' = Kept
    BY <1>2, <2>1, SameStock DEF Safe, Kept
  <2>6. \A q \in Partition : cons'[q] = IF q = p THEN e ELSE cs[q]
    BY <1>4, <2>1
  <2>7. \A q \in Partition : /\ Good(q, log[q], sess.recreated, cons'[q], Safe', Kept')
                             /\ cons'[q].next = cons[q].next /\ cons'[q].span = cons[q].span
    BY <1>3, <2>3, <2>4, <2>5, <2>6 DEF c
  <2>8. cons' = [q \in Partition |-> cons'[q]]
    BY <1>4, <2>1
  <2>9. excused \subseteq excused' /\ excused' \subseteq Record /\ incidents' \in 0 .. MaxIncidents
    BY <1>1, <1>2 DEF HistoryTyped
  <2> QED
    BY <1>2, <2>1, <2>7, <2>8, <2>9, ConsumerStep
<1>8. CASE Accept(p, cs)
  <2> DEFINE r == RecordAt(p, c.pos)
             h == [c EXCEPT !.pos = @ + 1, !.span = record_offset(c),
                            !.next = IF @ = NoOffset THEN c.pos ELSE @]
             heard == [cs EXCEPT ![p] = h]
             batch == IF r \in Poison THEN buf ELSE Append(buf, r)
             K == Safe \cup ToSet(batch)
  <2>1. /\ c.gate = Active /\ accepted' = accepted \cup {r}
        /\ IF r \notin Poison /\ should_roll(batch)
           THEN Roll(heard, batch, FALSE)
           ELSE cons' = heard /\ buf' = batch /\ UNCHANGED pub
    BY <1>8 DEF Accept
  <2>2. r \in Record /\ r = <<p, l.recs[c.pos + 1]>>
    BY <1>1, <1>2, <1>3, RecordTyped
  <2>3. buf \in Seq(Record) /\ Len(buf) < MaxRowsPerSegment /\ Kept = Safe \cup ToSet(buf)
    BY <1>1, <1>2, Rollable DEF SessionTyped
  <2> HIDE DEF r
  <2>4. /\ batch \in Seq(Record) /\ ToSet(buf) \subseteq ToSet(batch)
        /\ ToSet(batch) \subseteq ToSet(buf) \cup {r}
        /\ r \in ToSet(batch) \cup Poison
    BY <2>2, <2>3, ToSetAppend
  <2>5. r \in Poison \/ ~should_roll(batch) => Len(batch) < MaxRowsPerSegment
    <3>1. Len(batch) \in Nat /\ MaxRowsPerSegment \in Nat
      BY <2>4, LenProperties, KafkaAssumption
    <3> QED
      BY <2>3, <3>1 DEF should_roll
  <2> HIDE DEF batch
  <2>6. Kept \subseteq K /\ Safe \subseteq K /\ r \in K
    BY <2>3, <2>4 DEF Safe
  <2>7. c.next = NoOffset => \A x \in Kept : x[1] = p => x \in Safe
    BY <1>3, <2>3, HandsTyped
  <2> HIDE DEF K
  <2>8. Good(p, l, rec, h, Safe, K) /\ h.next # NoOffset
    <3> HIDE DEF c, l, rec
    <3>1. <<p, l.recs[c.pos + 1]>> \in K
      BY <2>2, <2>6
    <3> QED
      BY <1>5, <2>1, <2>6, <2>7, <3>1, AcceptGood
  <2> HIDE DEF h
  <2>9. /\ heard = [q \in Partition |-> heard[q]]
        /\ \A q \in Partition : heard[q] = IF q = p THEN h ELSE cs[q]
    BY <1>4
  <2> HIDE DEF heard
  <2>10. \A q \in Partition : /\ Good(q, log[q], sess.recreated, heard[q], Safe, K)
                              /\ heard[q].next = NoOffset => heard[q].span = NoSpan
                              /\ cons[q].next # NoOffset => heard[q].next # NoOffset
    <3> TAKE q \in Partition
    <3>1. CASE q = p
      BY <2>8, <2>9, <3>1
    <3>2. CASE q # p
      <4>1. Good(q, log[q], rec, cs[q], Safe, K)
        BY <1>3, <2>6, GoodWeaken
      <4>2. cs[q].next = NoOffset => cs[q].span = NoSpan
        BY <1>1, <1>3 DEF ShapeInv
      <4> QED
        BY <1>3, <2>9, <3>2, <4>1, <4>2
    <3> QED
      BY <3>1, <3>2
  <2>11. \A x \in ToSet(batch) : heard[x[1]].next # NoOffset
    <3> TAKE x \in ToSet(batch)
    <3>1. CASE x \in ToSet(buf)
      BY <2>10, <3>1, HandsTyped
    <3>2. CASE x = r
      <4>1. x[1] = p
        BY <2>2, <3>2
      <4> QED
        BY <2>8, <2>9, <4>1
    <3> QED
      BY <2>4, <3>1, <3>2
  <2>12. /\ accepted' \subseteq Record
         /\ accepted' \subseteq accepted \cup ToSet(batch) \cup Poison
    BY <1>1, <2>1, <2>2, <2>4 DEF HistoryTyped
  <2>13. CASE r \notin Poison /\ should_roll(batch)
    <3> DEFINE final == FALSE
    <3>1. Roll(heard, batch, final) /\ final \in BOOLEAN
      BY <2>1, <2>13
    <3>2. /\ sess' \in [phase : {"up"}, cid : BOOLEAN, tid : Nat, recreated : BOOLEAN, failed : BOOLEAN]
          /\ sess'.recreated = sess.recreated /\ (sess.failed => sess'.failed)
          /\ incidents' \in 0 .. MaxIncidents
      BY <1>1, <1>2 DEF SessionTyped, HistoryTyped
    <3> HIDE DEF final
    <3> QED
      BY <1>2, <2>4, <2>10, <2>11, <2>12, <3>1, <3>2, RollStep DEF K
  <2>14. CASE ~(r \notin Poison /\ should_roll(batch))
    <3>1. cons' = heard /\ buf' = batch /\ UNCHANGED pub /\ Len(batch) < MaxRowsPerSegment
      BY <2>1, <2>5, <2>14
    <3> QED
      BY <1>2, <2>4, <2>9, <2>10, <2>11, <2>12, <3>1, BufferStep DEF K
  <2> QED
    BY <2>13, <2>14
<1> QED
  BY <1>2, <1>7, <1>8

------------------------------------------------------------------------------
(* The publication.                                                        *)

LEMMA NewRowTyped ==
    ASSUME KafkaInv
    PROVE  /\ NewRow \in Row /\ NewRow.recs = pub.batch
           /\ \A p \in Partition : NewRow.span[p] \in {pub.spans[p], NoSpan}
           /\ sess.cid => NewRow.span = pub.spans
           /\ NewRow.cid = sess.cid /\ NewRow.tid = sess.tid /\ NewRow.blob
<1> DEFINE sp == IF sess.cid THEN pub.spans ELSE NoPub.spans
<1>1. SessionTyped
  BY DEF KafkaInv, Typed
<1>2. /\ sp \in [Partition -> Span] /\ \A p \in Partition : sp[p] \in {pub.spans[p], NoSpan}
      /\ sess.cid => sp = pub.spans
  BY <1>1, NoPubTyped DEF SessionTyped
<1>3. NewRow = [recs |-> pub.batch, cid |-> sess.cid, tid |-> sess.tid, span |-> sp,
                blob |-> TRUE, visible |-> FALSE]
  BY DEF NewRow
<1> HIDE DEF sp
<1> QED
  BY <1>1, <1>2, <1>3 DEF SessionTyped, Row

\* The row of a publication in progress is behind the ones that stay.
LEMMA AppendedRow ==
    ASSUME KafkaInv, Persist
    PROVE  /\ rows' \in Seq(Row) /\ rows' # <<>> /\ rows'[Len(rows')] = NewRow
           /\ SettledRows' = SettledRows /\ \A i \in SettledRows : rows'[i] = rows[i]
<1> DEFINE n == Len(rows)
           w == NewRow
<1>1. pub.phase = "persist" /\ pub'.phase = "swap"
  BY DEF Persist, KafkaInv, Typed, SessionTyped
<1>2. /\ rows' \in Seq(Row) /\ Len(rows') = n + 1 /\ n \in Nat /\ rows'[n + 1] = w
      /\ \A i \in 1 .. n : rows'[i] = rows[i]
      /\ DOMAIN rows = 1 .. n /\ DOMAIN rows' = 1 .. n + 1
  <2>1. rows \in Seq(Row) /\ w \in Row /\ rows' = Append(rows, w)
    BY NewRowTyped, RowsDomain DEF Persist
  <2> HIDE DEF w
  <2>2. /\ rows' \in Seq(Row) /\ Len(rows') = n + 1 /\ rows'[n + 1] = w
        /\ \A i \in 1 .. n : rows'[i] = rows[i]
    BY <2>1, AppendProperties
  <2> QED
    BY <2>2, RowsDomain, LenProperties
<1> HIDE DEF n, w
<1>3. SettledRows = 1 .. n /\ SettledRows' = 1 .. n
  <2>1. SettledRows = DOMAIN rows
    BY <1>1 DEF SettledRows, InStock
  <2>2. SettledRows' = {i \in 1 .. n + 1 : i # n + 1}
    BY <1>1, <1>2 DEF SettledRows, InStock
  <2>3. {i \in 1 .. n + 1 : i # n + 1} = 1 .. n
    BY <1>2
  <2> QED
    BY <1>2, <2>1, <2>2, <2>3
<1> QED
  BY <1>2, <1>3, EmptySeq DEF w

LEMMA PersistStep ==
    ASSUME KafkaInv, Persist
    PROVE  KafkaInv'
<1>1. BrokerTyped /\ HistoryTyped /\ SessionTyped /\ ConsTyped /\ ShapeInv /\ SafeInv /\ CleanInv
  BY DEF KafkaInv, Typed
<1>2. /\ pub.phase = "persist" /\ rows' = Append(rows, NewRow) /\ pub' = [pub EXCEPT !.phase = "swap"]
      /\ UNCHANGED <<log, topic, committed, sent, sess, cons, buf, incidents, accepted, excused, gap,
                     shadow, degraded>>
  BY DEF Persist, brokerVars, historyVars
<1>3. /\ pub'.phase = "swap" /\ pub'.batch = pub.batch /\ pub'.spans = pub.spans
      /\ pub' \in [phase : {"none", "persist", "swap", "rollback"}, batch : Seq(Record),
                   spans : [Partition -> Span], final : BOOLEAN]
  BY <1>1, <1>2 DEF SessionTyped
<1> DEFINE w == NewRow
<1>4. /\ w \in Row /\ w.recs = pub.batch /\ \A p \in Partition : w.span[p] \in {pub.spans[p], NoSpan}
  BY NewRowTyped
<1>5. /\ rows' \in Seq(Row) /\ rows' # <<>> /\ rows'[Len(rows')] = w
      /\ \A i \in SettledRows : rows'[i] = rows[i]
  BY AppendedRow
<1>6. SettledRows' = SettledRows
  BY AppendedRow
<1> HIDE DEF w
<1>7. Stored' = Stored
  BY <1>5, <1>6 DEF Stored, RowRecords
<1>8. Safe' = Safe /\ Kept' = Kept
  BY <1>2, <1>3, <1>7 DEF Safe, Kept
<1>9. BrokerTyped' /\ HistoryTyped' /\ ConsTyped'
  BY <1>1, <1>2 DEF BrokerTyped, HistoryTyped, ConsTyped
<1>10. SessionTyped'
  BY <1>1, <1>2, <1>3, <1>5 DEF SessionTyped
<1>11. ShapeInv'
  <2>1. sess.phase = "up"
    BY <1>1, <1>2, NoPubTyped DEF ShapeInv
  <2> QED
    BY <1>1, <1>2, <1>3, <1>4, <1>5, <2>1 DEF ShapeInv
<1>12. CleanInv'
  BY <1>1, <1>2, <1>3, <1>7 DEF CleanInv
<1>13. SafeInv'
  BY <1>1, <1>2, <1>3, <1>5, <1>6, <1>8 DEF SafeInv
<1> QED
  BY <1>9, <1>10, <1>11, <1>12, <1>13 DEF KafkaInv, Typed

LEMMA SwapFailsStep ==
    ASSUME KafkaInv, SwapFails
    PROVE  KafkaInv'
<1>1. BrokerTyped /\ HistoryTyped /\ SessionTyped /\ ConsTyped /\ ShapeInv /\ SafeInv /\ CleanInv
  BY DEF KafkaInv, Typed
<1>2. /\ pub.phase = "swap" /\ pub' = [pub EXCEPT !.phase = "rollback"]
      /\ UNCHANGED <<log, topic, committed, sent, rows, sess, cons, buf, accepted, excused, gap,
                     shadow, degraded>>
  BY DEF SwapFails, brokerVars, historyVars
<1>3. /\ pub'.phase = "rollback" /\ pub'.batch = pub.batch /\ pub'.spans = pub.spans
      /\ pub' \in [phase : {"none", "persist", "swap", "rollback"}, batch : Seq(Record),
                   spans : [Partition -> Span], final : BOOLEAN]
  BY <1>1, <1>2 DEF SessionTyped
<1>4. incidents' \in 0 .. MaxIncidents
  BY <1>1, IncidentTyped DEF SwapFails, HistoryTyped
<1>5. Stored' = Stored /\ SettledRows' = SettledRows
  BY <1>2, <1>3, SameStock
<1>6. Safe' = Safe /\ Kept' = Kept
  BY <1>2, <1>3, <1>5 DEF Safe, Kept
<1>7. BrokerTyped' /\ HistoryTyped' /\ ConsTyped' /\ SessionTyped'
  BY <1>1, <1>2, <1>3, <1>4 DEF BrokerTyped, HistoryTyped, ConsTyped, SessionTyped
<1>8. ShapeInv'
  <2>1. sess.phase = "up"
    BY <1>1, <1>2, NoPubTyped DEF ShapeInv
  <2> QED
    BY <1>1, <1>2, <1>3, <2>1 DEF ShapeInv
<1>9. CleanInv'
  BY <1>1, <1>2, <1>3, <1>5 DEF CleanInv
<1>10. SafeInv'
  BY <1>1, <1>2, <1>3, <1>5, <1>6 DEF SafeInv
<1> QED
  BY <1>7, <1>8, <1>9, <1>10 DEF KafkaInv, Typed

\* commit_contiguous: the frontier moves to the end of a span that starts at or
\* below it, and the span is durable now.
LEMMA ExtendedGood ==
    ASSUME NEW p, NEW l, LogOK(l), NEW rec, NEW c, NEW span \in Span, NEW S, NEW K, Good(p, l, rec, c, S, K),
           UpTo(p, l, span.next, S), Extends(c, span)
    PROVE  LET e == [c EXCEPT !.next = span.next]
           IN  Good(p, l, rec, e, S, K) /\ e.next # NoOffset /\ e.span = c.span
<1> DEFINE x == span.next
           e == [c EXCEPT !.next = x]
<1>1. c \in Consumer /\ c.next \in Offset /\ x \in Offset /\ c.next < x
  BY DEF Good, Consumer, Span, Extends
<1>2. x # NoOffset
  BY <1>1, Constants
<1> HIDE DEF x
<1>3. e \in Consumer
  BY <1>1 DEF Consumer
<1>4. /\ e.next = x /\ e.span = c.span /\ e.fr = c.fr /\ e.gate = c.gate /\ e.pos = c.pos
      /\ e.assigned = c.assigned /\ e.muted = c.muted /\ e.notice = c.notice
  BY <1>1 DEF Consumer
<1>5. UpTo(p, l, x, S)
  BY DEF x
<1> HIDE DEF e
<1>6. SafeFloor(e) # NoOffset
  BY <1>2, <1>3, <1>4, FloorOf
<1>7. Through(rec, e) => Through(rec, c)
  BY <1>4, <1>6 DEF Through
<1>8. Good(p, l, rec, e, S, K)
  BY <1>3, <1>4, <1>5, <1>7 DEF Good, ConsOK
<1> QED
  BY <1>2, <1>4, <1>8 DEF e, x

\* The sink said Ok: the batch is durable, and what was only kept is safe.
LEMMA PublishedStep ==
    ASSUME KafkaInv, SameRows, Published, pub.phase \in {"swap", "rollback"},
           UNCHANGED <<brokerVars, buf, historyVars>>, incidents' \in 0 .. MaxIncidents
    PROVE  KafkaInv'
<1>1. BrokerTyped /\ HistoryTyped /\ SessionTyped /\ ConsTyped /\ ShapeInv /\ SafeInv /\ CleanInv
  BY DEF KafkaInv, Typed
<1>2. /\ UNCHANGED <<log, topic, committed, accepted, excused, gap, shadow, degraded>>
      /\ pub' = NoPub /\ pub'.phase = "none" /\ buf = <<>> /\ buf' = <<>>
      /\ ToSet(buf) = {} /\ ToSet(pub'.batch) = {}
  BY <1>1, NoPubTyped DEF Published, brokerVars, historyVars, ShapeInv
<1>3. /\ SettledRows' = DOMAIN rows /\ Stored \subseteq Stored' /\ ToSet(pub.batch) \subseteq Stored'
      /\ DOMAIN rows' = DOMAIN rows
  <2>1. DOMAIN rows' = DOMAIN rows
    BY RowsDomain DEF SameRows
  <2> QED
    BY <1>2, <2>1, Settles
<1>4. Safe \subseteq Safe' /\ Kept \subseteq Safe' /\ Kept' = Safe' /\ ToSet(pub.batch) \subseteq Safe'
  BY <1>2, <1>3 DEF Safe, Kept
<1>5. \A i \in DOMAIN rows, p \in Partition : SpanOK(p, log[p], rows'[i].span[p], Safe')
  BY <1>2, <1>4, Settles
<1>6. \A p \in Partition :
         /\ UpTo(p, log[p], committed[p], Safe') /\ UpTo(p, log[p], sent[p], Safe')
         /\ UpTo(p, log[p], pub.spans[p].next, Safe') /\ pub.spans[p] \in Span
         /\ Good(p, log[p], sess.recreated, cons[p], Safe', Kept')
         /\ cons[p].span = NoSpan /\ LogOK(log[p])
  BY <1>1, <1>4, StillSafe DEF SpanOK, SessionTyped, ShapeInv
<1>7. /\ sent' \in [Partition -> Offset]
      /\ \A p \in Partition : UpTo(p, log[p], sent'[p], Safe')
  <2>1. sent' = [p \in Partition |-> IF Extends(cons[p], pub.spans[p])
                                     THEN pub.spans[p].next ELSE sent[p]]
    BY DEF Published
  <2> QED
    BY <1>1, <1>6, <2>1 DEF BrokerTyped, Span
<1>8. BrokerTyped' /\ HistoryTyped'
  BY <1>1, <1>2, <1>7 DEF BrokerTyped, HistoryTyped
<1>9. rows' \in Seq(Row)
  BY DEF SameRows
<1>10. accepted \subseteq Stored' \cup Poison \/ sess.failed
  <2>1. sess.phase = "up"
    BY <1>1, NoPubTyped DEF ShapeInv
  <2> QED
    BY <1>1, <1>2, <1>3, <2>1 DEF CleanInv
<1>11. CASE pub.final
  <2>1. /\ cons' = [p \in Partition |-> IdleCons] /\ sess' = [sess EXCEPT !.phase = "stopped"]
    BY <1>11 DEF Published
  <2>2. /\ sess' \in [phase : {"down", "stopped"}, cid : BOOLEAN, tid : Nat,
                      recreated : BOOLEAN, failed : BOOLEAN]
        /\ sess'.failed = sess.failed
    BY <1>1, <2>1 DEF SessionTyped
  <2>3. CleanInv'
    BY <1>2, <1>10, <2>2 DEF CleanInv
  <2>4. UNCHANGED <<log, committed>> /\ buf' = <<>> /\ pub' = NoPub
    BY <1>2
  <2> QED
    BY <1>3, <1>4, <1>5, <1>7, <1>8, <1>9, <2>1, <2>2, <2>3, <2>4, SessionEnds
<1>12. CASE ~pub.final
  <2>1. /\ UNCHANGED sess
        /\ cons' = [p \in Partition |-> IF Extends(cons[p], pub.spans[p])
                                        THEN [cons[p] EXCEPT !.next = pub.spans[p].next]
                                        ELSE cons[p]]
    BY <1>12 DEF Published
  <2>2. \A p \in Partition : /\ Good(p, log[p], sess.recreated, cons'[p], Safe', Kept')
                             /\ cons'[p].span = NoSpan
    <3> TAKE p \in Partition
    <3>1. CASE Extends(cons[p], pub.spans[p])
      <4> DEFINE c == cons[p]
                 span == pub.spans[p]
                 S == Safe'
                 K == Kept'
      <4>1. /\ cons'[p] = [c EXCEPT !.next = span.next] /\ LogOK(log[p]) /\ span \in Span
            /\ Good(p, log[p], sess.recreated, c, S, K) /\ UpTo(p, log[p], span.next, S)
            /\ Extends(c, span) /\ c.span = NoSpan
        BY <1>6, <2>1, <3>1
      <4> HIDE DEF c, span, S, K
      <4>2. LET e == [c EXCEPT !.next = span.next]
            IN  Good(p, log[p], sess.recreated, e, S, K) /\ e.next # NoOffset /\ e.span = c.span
        BY <4>1, ExtendedGood
      <4> QED
        BY <4>1, <4>2 DEF S, K
    <3>2. CASE ~Extends(cons[p], pub.spans[p])
      BY <1>6, <2>1, <3>2
    <3> QED
      BY <3>1, <3>2
  <2>3. ConsTyped'
    <3>1. \A p \in Partition : cons'[p] \in Consumer /\ (cons'[p].muted => cons'[p].assigned)
      BY <2>2 DEF Good
    <3>2. cons' = [p \in Partition |-> cons'[p]]
      BY <2>1
    <3> QED
      BY <3>1, <3>2 DEF ConsTyped
  <2>4. SessionTyped'
    BY <1>1, <1>2, <1>9, <2>1, NoPubTyped DEF SessionTyped
  <2>5. sess.phase = "up"
    BY <1>1, NoPubTyped DEF ShapeInv
  <2>6. ShapeInv'
    BY <1>2, <2>1, <2>2, <2>5 DEF ShapeInv
  <2>7. CleanInv'
    BY <1>2, <1>10, <2>1 DEF CleanInv
  <2>8. SafeInv'
    <3>1. \A p \in Partition : SpanOK(p, log[p], pub'.spans[p], Kept')
      BY <1>2, <1>6, NoPubTyped, NoSpanOK
    <3>2. ToSet(buf') \cup ToSet(pub'.batch) = {}
      BY <1>2
    <3> QED
      BY <1>2, <1>3, <1>5, <1>6, <1>7, <2>1, <2>2, <3>1, <3>2 DEF SafeInv
  <2> QED
    BY <1>8, <2>3, <2>4, <2>6, <2>7, <2>8 DEF KafkaInv, Typed
<1> QED
  BY <1>11, <1>12

\* The new row becomes visible.
LEMMA SwappedRow ==
    ASSUME KafkaInv, Swap
    PROVE  SameStamps
<1>1. rows # <<>>
  BY DEF KafkaInv, ShapeInv, Swap
<1> DEFINE i == Len(rows)
           r == [rows[i] EXCEPT !.visible = TRUE]
<1>2. i \in DOMAIN rows /\ rows[i] \in Row
  BY <1>1, RowsDomain
<1>3. /\ r \in Row /\ r.recs = rows[i].recs /\ r.span = rows[i].span /\ r.cid = rows[i].cid
      /\ r.tid = rows[i].tid /\ r.blob = rows[i].blob
  BY <1>2 DEF Row
<1>4. rows' = [rows EXCEPT ![i] = r]
  BY DEF Swap
<1> HIDE DEF r
<1>5. /\ rows' \in Seq(Row) /\ Len(rows') = Len(rows)
      /\ \A j \in 1 .. Len(rows) : rows'[j] = IF j = i THEN r ELSE rows[j]
  BY <1>2, <1>3, <1>4, RowsDomain, ExceptSeq
<1> QED
  BY <1>3, <1>5, RowsDomain DEF SameRows, SameStamps

LEMMA SwapStep ==
    ASSUME KafkaInv, Swap
    PROVE  KafkaInv'
<1>1. pub.phase = "swap" /\ UNCHANGED <<brokerVars, buf, historyVars, incidents>> /\ Published
  BY DEF Swap
<1>2. SameRows
  BY SwappedRow DEF SameStamps
<1>3. incidents' \in 0 .. MaxIncidents
  BY <1>1 DEF KafkaInv, Typed, HistoryTyped
<1> QED
  BY <1>1, <1>2, <1>3, PublishedStep

LEMMA RollbackFailsStep ==
    ASSUME KafkaInv, RollbackFails
    PROVE  KafkaInv'
<1>1. pub.phase = "rollback" /\ UNCHANGED <<brokerVars, rows, buf, historyVars>> /\ Published
  BY DEF RollbackFails
<1>2. SameRows
  BY <1>1, RowsDomain DEF SameRows
<1>3. incidents' \in 0 .. MaxIncidents
  BY IncidentTyped DEF KafkaInv, Typed, HistoryTyped, RollbackFails
<1> QED
  BY <1>1, <1>2, <1>3, PublishedStep

\* arm_publish_failure_reseek.  The batch is gone, so a partition is safe without
\* it only if it is sent back to its durable next, or if its records are given up.
LEMMA ArmedGood ==
    ASSUME KafkaInv, pub.phase # "none", NEW p \in Partition, NEW S, Safe \subseteq S,
           ~Reseekable(p) => \A r \in ToSet(pub.batch) : r[1] = p => r \in S
    PROVE  LET c == arm_publish_failure_reseek(p)
           IN  /\ Good(p, log[p], sess.recreated, c, S, S)
               /\ c.next = cons[p].next /\ c.span = NoSpan
               /\ Reseekable(p) => c.tainted
<1> DEFINE b == cons[p]
           l == log[p]
           rec == sess.recreated
<1>1. /\ Good(p, l, rec, b, Safe, Kept) /\ b.span = NoSpan /\ LogOK(l) /\ ToSet(buf) = {}
  BY NoPubTyped DEF KafkaInv, SafeInv, ShapeInv, Typed, BrokerTyped
<1>2. b \in Consumer
  BY <1>1 DEF Good
<1>3. CASE Reseekable(p)
  <2> DEFINE g == NeedsSeek(b.next)
             c == [b EXCEPT !.gate = g, !.tainted = TRUE]
  <2>1. arm_publish_failure_reseek(p) = c
    BY <1>3 DEF arm_publish_failure_reseek
  <2>2. UpTo(p, l, b.next, S) /\ FrontierOK(p, l, b.fr, S)
    <3>1. \A x : UpTo(p, l, x, Safe) => UpTo(p, l, x, S)
      BY UpToWeaken
    <3> QED
      BY <1>1, <3>1 DEF Good, ConsOK, FrontierOK
  <2>3. g \in Gate /\ GateOK(p, l, g, S) /\ g # Active
    BY <1>2, <2>2, Constants DEF Gate, GateOK, NeedsSeek, Consumer, Active
  <2> HIDE DEF b, g
  <2>4. c \in Consumer
    BY <1>2, <2>3 DEF Consumer
  <2>5. /\ c.gate = g /\ c.tainted = TRUE /\ c.next = b.next /\ c.span = b.span /\ c.fr = b.fr
        /\ c.pos = b.pos /\ c.assigned = b.assigned /\ c.muted = b.muted
    BY <1>2 DEF Consumer
  <2> HIDE DEF c
  <2>6. ~Through(rec, c)
    BY <2>3, <2>5 DEF Through
  <2>7. SpanOK(p, l, NoSpan, S)
    BY <1>1, NoSpanOK
  <2>8. Good(p, l, rec, c, S, S)
    BY <1>1, <2>2, <2>3, <2>4, <2>5, <2>6, <2>7 DEF Good, ConsOK, SpanOK
  <2> QED
    BY <1>1, <2>1, <2>5, <2>8 DEF b
<1>4. CASE ~Reseekable(p)
  <2>1. arm_publish_failure_reseek(p) = b
    BY <1>4 DEF arm_publish_failure_reseek
  <2>2. \A r \in Kept : r[1] = p => r \in S
    BY <1>1, <1>4 DEF Kept
  <2>3. Good(p, l, rec, b, S, S)
    <3> HIDE DEF b, l, rec
    <3> QED
      BY <1>1, <2>2, GoodWeaken
  <2> QED
    BY <1>1, <1>4, <2>1, <2>3
<1> QED
  BY <1>3, <1>4

\* The sink failed.  `rows'` are the rows of earlier publications.
LEMMA PublishFailedStep ==
    ASSUME KafkaInv, NEW cost \in Nat, PublishFailed(cost), pub.phase # "none",
           rows' \in Seq(Row), DOMAIN rows' = SettledRows,
           \A i \in SettledRows : rows'[i] = rows[i],
           UNCHANGED <<brokerVars, buf, accepted, excused, shadow>>
    PROVE  KafkaInv'
<1> DEFINE armed == [p \in Partition |-> arm_publish_failure_reseek(p)]
           lost == {r \in ToSet(pub.batch) : ~Reseekable(r[1])}
<1>1. BrokerTyped /\ HistoryTyped /\ SessionTyped /\ ConsTyped /\ ShapeInv /\ SafeInv /\ CleanInv
  BY DEF KafkaInv, Typed
<1>2. /\ UNCHANGED <<log, topic, committed, accepted, excused, shadow>>
      /\ pub' = NoPub /\ pub'.phase = "none" /\ buf = <<>> /\ buf' = <<>>
      /\ ToSet(buf') = {} /\ ToSet(pub'.batch) = {} /\ sess.phase = "up"
      /\ sess' = FailedSession(pub.final)
  BY <1>1, NoPubTyped DEF PublishFailed, brokerVars, ShapeInv
<1>3. SettledRows' = SettledRows /\ Stored' = Stored
  <2>1. SettledRows' = DOMAIN rows'
    BY <1>2 DEF SettledRows, InStock
  <2> QED
    BY <2>1 DEF Stored, RowRecords
<1>4. sess'.failed = TRUE /\ sess'.recreated = sess.recreated
      /\ sess' \in [phase : {"up", "stopped"}, cid : BOOLEAN, tid : Nat, recreated : BOOLEAN,
                    failed : BOOLEAN]
      /\ (pub.final => sess'.phase = "stopped") /\ (~pub.final => sess'.phase = "up")
  BY <1>1, <1>2 DEF FailedSession, SessionTyped
<1>5. CleanInv'
  BY <1>4 DEF CleanInv
<1>6. Kept' = Safe' /\ (gap \subseteq gap' => Safe \subseteq Safe') /\ gap' \subseteq Safe'
  BY <1>2, <1>3 DEF Safe, Kept
<1>7. CASE pub.final
  <2>1. /\ cons' = [p \in Partition |-> IdleCons] /\ Incident(cost) /\ UNCHANGED <<sent, gap, degraded>>
    BY <1>7 DEF PublishFailed
  <2>2. incidents' \in 0 .. MaxIncidents
    BY <1>1, <2>1, IncidentTyped DEF HistoryTyped
  <2>3. Safe \subseteq Safe'
    BY <1>6, <2>1
  <2>4. \A p \in Partition :
           /\ UpTo(p, log[p], sent[p], Safe')
           /\ \A i \in SettledRows : SpanOK(p, log[p], rows[i].span[p], Safe')
    <3>1. Kept \subseteq Kept
      OBVIOUS
    <3> QED
      BY <2>3, <3>1, StillSafe
  <2>5. BrokerTyped' /\ HistoryTyped'
    BY <1>1, <1>2, <2>1, <2>2 DEF BrokerTyped, HistoryTyped
  <2>6. sent' \in [Partition -> Offset]
    BY <1>1, <2>1 DEF BrokerTyped
  <2>7. sess' \in [phase : {"down", "stopped"}, cid : BOOLEAN, tid : Nat,
                   recreated : BOOLEAN, failed : BOOLEAN]
    BY <1>4, <1>7
  <2>8. /\ \A p \in Partition : UpTo(p, log[p], sent'[p], Safe')
        /\ \A i \in DOMAIN rows', p \in Partition : SpanOK(p, log[p], rows'[i].span[p], Safe')
        /\ UNCHANGED <<log, committed>> /\ buf' = <<>> /\ pub' = NoPub
    BY <1>2, <2>1, <2>4
  <2> QED
    BY <1>5, <2>1, <2>3, <2>5, <2>6, <2>7, <2>8, SessionEnds
<1>8. CASE ~pub.final
  <2>1. \/ TryActivatePendingAfter(cost, lost, armed)
        \/ /\ cons' = armed /\ Incident(cost) /\ UNCHANGED sent
           /\ gap' = gap \cup lost /\ degraded' = TRUE
    BY <1>8 DEF PublishFailed
  <2>2. gap \cup lost \subseteq gap'
    BY <2>1, GapGrows
  <2>3. Safe \subseteq Safe' /\ lost \subseteq Safe'
    BY <1>6, <2>2
  <2>4. lost \in SUBSET Record
    <3>1. \A r \in ToSet(pub.batch) : r \in Record
      BY HandsTyped
    <3> QED
      BY <3>1
  <2>5. \A p \in Partition : ~Reseekable(p) => \A r \in ToSet(pub.batch) : r[1] = p => r \in Safe'
    BY <2>3
  <2>6. \A p \in Partition :
           /\ Good(p, log[p], sess.recreated, armed[p], Safe', Safe')
           /\ armed[p].next = cons[p].next /\ armed[p].span = NoSpan
           /\ Reseekable(p) => armed[p].tainted
    <3> TAKE p \in Partition
    <3> DEFINE S == Safe'
    <3>1. Safe \subseteq S /\ (~Reseekable(p) => \A r \in ToSet(pub.batch) : r[1] = p => r \in S)
      BY <2>3, <2>5
    <3> HIDE DEF S
    <3>2. LET c == arm_publish_failure_reseek(p)
          IN  /\ Good(p, log[p], sess.recreated, c, S, S)
              /\ c.next = cons[p].next /\ c.span = NoSpan
              /\ Reseekable(p) => c.tainted
      BY <3>1, ArmedGood
    <3> QED
      BY <3>2 DEF S
  <2>7. \A p \in Partition :
           /\ UpTo(p, log[p], committed[p], Safe') /\ UpTo(p, log[p], sent[p], Safe')
           /\ \A i \in SettledRows : SpanOK(p, log[p], rows[i].span[p], Safe')
           /\ LogOK(log[p])
    <3>1. Kept \subseteq Kept
      OBVIOUS
    <3> QED
      BY <2>3, <3>1, StillSafe
  <2>8. armed = [p \in Partition |-> armed[p]]
    OBVIOUS
  <2>9. /\ cons' \in [Partition -> Consumer] /\ sent' \in [Partition -> Offset]
        /\ \A p \in Partition :
              /\ Good(p, log[p], sess.recreated, cons'[p], Safe', Safe')
              /\ UpTo(p, log[p], sent'[p], Safe') /\ cons'[p].span = NoSpan
        /\ degraded' \in BOOLEAN /\ incidents' \in 0 .. MaxIncidents
        /\ gap' \in SUBSET Record
    <3> HIDE DEF armed
    <3>1. CASE TryActivatePendingAfter(cost, lost, armed)
      <4> DEFINE S == Safe'
                 rec == sess.recreated
      <4>1. \A p \in Partition : \A r \in Accounted :
               r[1] = p /\ Pending(armed[p]) /\ ~armed[p].tainted => r \in S
        <5> TAKE p \in Partition
        <5> TAKE r \in Accounted
        <5> SUFFICES ASSUME r[1] = p, ~armed[p].tainted PROVE r \in S
          OBVIOUS
        <5>1. ~Reseekable(p)
          BY <2>6
        <5>2. r \in Safe \cup ToSet(pub.batch)
          <6>1. ToSet(buf) = {}
            BY <1>2
          <6> QED
            BY <6>1, AccountedKept DEF Kept
        <5> QED
          BY <2>3, <2>5, <5>1, <5>2
      <4>2. PassPre(armed, rec, S, S)
        BY <2>6, <2>7, <4>1 DEF PassPre
      <4>3. gap' \subseteq S
        BY <1>6
      <4> HIDE DEF S, lost, rec
      <4>4. /\ cons' \in [Partition -> Consumer] /\ sent' \in [Partition -> Offset]
            /\ \A p \in Partition :
                  /\ Good(p, log[p], rec, cons'[p], S, S)
                  /\ UpTo(p, log[p], sent'[p], S)
                  /\ armed[p].span = NoSpan => cons'[p].span = NoSpan
            /\ degraded' \in BOOLEAN /\ incidents' \in 0 .. MaxIncidents
            /\ gap' \in SUBSET Record
        BY <1>1, <2>4, <3>1, <4>2, <4>3, PassGood
      <4> QED
        BY <2>6, <4>4 DEF S, rec
    <3>2. CASE /\ cons' = armed /\ Incident(cost) /\ UNCHANGED sent
               /\ gap' = gap \cup lost /\ degraded' = TRUE
      <4>1. cons' \in [Partition -> Consumer]
        <5>1. \A p \in Partition : armed[p] \in Consumer
          BY <2>6 DEF Good
        <5> QED
          BY <2>8, <3>2, <5>1
      <4>2. incidents' \in 0 .. MaxIncidents
        BY <1>1, <3>2, IncidentTyped DEF HistoryTyped
      <4>3. gap' \in SUBSET Record
        BY <1>1, <2>4, <3>2 DEF HistoryTyped
      <4> QED
        BY <1>1, <2>6, <2>7, <3>2, <4>1, <4>2, <4>3 DEF BrokerTyped
    <3> QED
      BY <2>1, <3>1, <3>2
  <2>10. BrokerTyped' /\ HistoryTyped'
    BY <1>1, <1>2, <2>9 DEF BrokerTyped, HistoryTyped
  <2>11. SessionTyped'
    BY <1>1, <1>2, <1>4, NoPubTyped DEF SessionTyped
  <2>12. ConsTyped'
    BY <2>9 DEF ConsTyped, Good
  <2>13. ShapeInv'
    BY <1>2, <1>4, <1>8, <2>9 DEF ShapeInv
  <2>14. SafeInv'
    <3>1. \A p \in Partition : SpanOK(p, log[p], pub'.spans[p], Kept')
      BY <1>2, <2>7, NoPubTyped, NoSpanOK
    <3>2. ToSet(buf') \cup ToSet(pub'.batch) = {}
      BY <1>2
    <3> QED
      BY <1>2, <1>3, <1>4, <1>6, <2>7, <2>9, <3>1, <3>2 DEF SafeInv
  <2> QED
    BY <1>5, <2>10, <2>11, <2>12, <2>13, <2>14 DEF KafkaInv, Typed
<1> QED
  BY <1>7, <1>8

LEMMA PersistFailsStep ==
    ASSUME KafkaInv, PersistFails
    PROVE  KafkaInv'
<1>1. /\ pub.phase = "persist" /\ PublishFailed(1) /\ UNCHANGED rows
      /\ UNCHANGED <<brokerVars, buf, accepted, excused, shadow>>
  BY DEF PersistFails
<1>2. SettledRows = DOMAIN rows
  BY <1>1 DEF SettledRows, InStock
<1>3. rows' \in Seq(Row) /\ DOMAIN rows' = SettledRows /\ \A i \in SettledRows : rows'[i] = rows[i]
  BY <1>1, <1>2, RowsDomain
<1> DEFINE cost == 1
<1>4. cost \in Nat /\ PublishFailed(cost)
  BY <1>1
<1> HIDE DEF cost
<1> QED
  BY <1>1, <1>3, <1>4, PublishFailedStep

\* The rollback of a failed swap takes the new row away again.
LEMMA RemovedRow ==
    ASSUME KafkaInv, Rollback
    PROVE  /\ rows' \in Seq(Row) /\ DOMAIN rows' = SettledRows
           /\ \A i \in SettledRows : rows'[i] = rows[i]
<1>1. pub.phase = "rollback" /\ rows' = Front(rows)
  BY DEF Rollback
<1> DEFINE n == Len(rows)
           m == n - 1
<1>2. rows # <<>>
  BY <1>1 DEF KafkaInv, ShapeInv
<1>3. n \in Nat /\ m \in Nat /\ DOMAIN rows = 1 .. n /\ \A i \in 1 .. m : rows[i] \in Row
  <2>1. n \in Nat \ {0} /\ DOMAIN rows = 1 .. n
    BY <1>2, RowsDomain, EmptySeq
  <2>2. \A i \in 1 .. m : i \in 1 .. n
    BY <2>1
  <2> QED
    BY <2>1, <2>2, RowsDomain
<1>4. SettledRows = 1 .. m
  <2>1. SettledRows = {i \in 1 .. n : i # n}
    BY <1>1, <1>3 DEF SettledRows, InStock
  <2>2. {i \in 1 .. n : i # n} = 1 .. m
    BY <1>3
  <2> QED
    BY <2>1, <2>2
<1>5. rows' = SubSeq(rows, 1, m)
  BY <1>1 DEF Front
<1> HIDE DEF n, m
<1>6. /\ rows' \in Seq(Row) /\ Len(rows') = m /\ \A i \in 1 .. m : rows'[i] = rows[i]
  <2>1. /\ rows' \in Seq(Row)
        /\ Len(rows') = IF 1 <= m THEN m - 1 + 1 ELSE 0
        /\ \A i \in 1 .. m - 1 + 1 : rows'[i] = rows[1 + i - 1]
    BY <1>3, <1>5, SubSeqProperties
  <2> QED
    BY <1>3, <2>1
<1>7. DOMAIN rows' = SettledRows
  BY <1>4, <1>6, LenProperties
<1> QED
  BY <1>4, <1>6, <1>7

LEMMA RollbackStep ==
    ASSUME KafkaInv, Rollback
    PROVE  KafkaInv'
<1>1. /\ pub.phase = "rollback" /\ PublishFailed(0) /\ rows' = Front(rows)
      /\ UNCHANGED <<brokerVars, buf, accepted, excused, shadow>>
  BY DEF Rollback
<1>2. /\ rows' \in Seq(Row) /\ DOMAIN rows' = SettledRows
      /\ \A i \in SettledRows : rows'[i] = rows[i]
  BY RemovedRow
<1> DEFINE cost == 0
<1>3. cost \in Nat /\ PublishFailed(cost) /\ pub.phase # "none"
  BY <1>1
<1> HIDE DEF cost
<1> QED
  BY <1>1, <1>2, <1>3, PublishFailedStep

------------------------------------------------------------------------------
(* The invariant.                                                          *)

LEMMA InitKafka ==
    Init => KafkaInv
<1> SUFFICES ASSUME Init PROVE KafkaInv
  OBVIOUS
<1>1. /\ committed = [p \in Partition |-> NoOffset] /\ sent = [p \in Partition |-> NoOffset]
      /\ rows = <<>> /\ cons = [p \in Partition |-> IdleCons] /\ buf = <<>> /\ pub = NoPub
      /\ sess.phase = "down"
  BY DEF Init
<1> DEFINE l == [low |-> 0, recs |-> <<>>, born |-> 0, epoch |-> 1, cut |-> 0]
<1>2. LogOK(l) /\ l \in Log
  BY Constants, EmptySeq DEF LogOK, Log
<1>3. log = [p \in Partition |-> l]
  BY DEF Init
<1> HIDE DEF l
<1>4. BrokerTyped
  BY <1>1, <1>2, <1>3, Constants DEF BrokerTyped, Init
<1>5. HistoryTyped
  <2>1. /\ accepted = {} /\ excused = {} /\ gap = {} /\ shadow = {}
        /\ degraded = FALSE /\ incidents = 0
    BY DEF Init
  <2>2. 0 \in 0 .. MaxIncidents
    BY KafkaAssumption
  <2> QED
    BY <2>1, <2>2 DEF HistoryTyped
<1>6. SessionTyped
  <2>1. buf \in Seq(Record) /\ Len(buf) < MaxRowsPerSegment /\ rows \in Seq(Row)
    BY <1>1, EmptySeq, KafkaAssumption
  <2> QED
    BY <1>1, <2>1, NoPubTyped DEF SessionTyped, Init, NoTopicId
<1>7. \A p \in Partition : LogOK(log[p])
  BY <1>4 DEF BrokerTyped
<1>8. \A p \in Partition : /\ Good(p, log[p], sess.recreated, cons[p], Safe, Kept)
                           /\ Quiet(cons[p])
  BY <1>1, <1>7, IdleConsGood
<1>9. ConsTyped
  BY <1>1, <1>8 DEF ConsTyped, Good
<1>10. ShapeInv
  BY <1>1, <1>8, NoPubTyped DEF ShapeInv, Quiet
<1>11. SafeInv
  <2>1. SettledRows = {} /\ ToSet(buf) \cup ToSet(pub.batch) = {}
    BY <1>1, NoPubTyped DEF SettledRows
  <2>2. \A p \in Partition : /\ UpTo(p, log[p], committed[p], Safe)
                             /\ UpTo(p, log[p], sent[p], Safe)
                             /\ SpanOK(p, log[p], pub.spans[p], Kept)
    BY <1>1, <1>7, NoPubTyped, NoSpanOK
  <2> QED
    BY <1>8, <2>1, <2>2 DEF SafeInv
<1>12. CleanInv
  BY <1>1 DEF CleanInv
<1> QED
  BY <1>4, <1>5, <1>6, <1>9, <1>10, <1>11, <1>12 DEF KafkaInv, Typed

LEMMA StutterKafka ==
    ASSUME KafkaInv, UNCHANGED vars
    PROVE  KafkaInv'
<1>1. /\ UNCHANGED <<log, topic, committed, sent, rows, sess, cons, buf, pub, incidents,
                     accepted, excused, gap, shadow, degraded>>
  BY DEF vars, brokerVars, historyVars
<1>2. BrokerTyped' /\ HistoryTyped'
  BY <1>1 DEF KafkaInv, Typed, BrokerTyped, HistoryTyped
<1>3. Safe' = Safe /\ Kept' = Kept /\ SettledRows' = SettledRows
  BY <1>1, SameStock DEF Safe, Kept
<1>4. SafeInv'
  BY <1>1, <1>3 DEF KafkaInv, SafeInv
<1> QED
  BY <1>1, <1>2, <1>4, Unmoved DEF KafkaInv, Typed

LEMMA KafkaStep ==
    ASSUME KafkaInv, [Next]_vars
    PROVE  KafkaInv'
<1>1. CASE \E cid \in BOOLEAN, probe \in {"agreed", "unresolved", "disagreed"} : Start(cid, probe)
  BY <1>1, StartStep
<1>2. CASE \E dropped \in SUBSET Partition : Join(dropped)
  BY <1>2, JoinStep
<1>3. CASE JoinTimesOut
  BY <1>3, JoinTimesOutStep
<1>4. CASE \E p \in Partition : Deliver(p)
  BY <1>4, DeliverStep
<1>5. CASE SeekRetryTick
  BY <1>5, SeekRetryTickStep
<1>6. CASE FlushTick
  BY <1>6, FlushTickStep
<1>7. CASE \E fatal \in BOOLEAN : Stop(fatal)
  BY <1>7, StopStep
<1>8. CASE PublishStep
  BY <1>8, PersistStep, PersistFailsStep, SwapStep, SwapFailsStep, RollbackStep, RollbackFailsStep
     DEF PublishStep
<1>9. CASE Revoke
  BY <1>9, RevokeStep
<1>10. CASE Assign
  BY <1>10, AssignStep
<1>11. CASE Crash
  BY <1>11, CrashStep
<1>12. CASE BrokerStep
  BY <1>12, ProduceStep, RetainStep, ResetPositionStep, CommitStep, TruncateStep, RecreateStep,
     LoseBlobStep DEF BrokerStep
<1>13. CASE UNCHANGED vars
  BY <1>13, StutterKafka
<1> QED
  BY <1>1, <1>2, <1>3, <1>4, <1>5, <1>6, <1>7, <1>8, <1>9, <1>10, <1>11, <1>12, <1>13 DEF Next

\* KafkaInv is an invariant of the streaming loop, its sink, the broker and the
\* restarts between sessions.
THEOREM KafkaInvHolds == Spec => []KafkaInv
<1>1. Init => KafkaInv
  BY InitKafka
<1>2. KafkaInv /\ [Next]_vars => KafkaInv'
  BY KafkaStep
<1> QED
  BY <1>1, <1>2, PTL DEF Spec

\* Types of the streaming loop's state; a full buffer has been rolled
\* (should_roll), an unassigned partition is not paused, and the row of a
\* publication in progress is the last one.
THEOREM KafkaTyped == Spec => []KafkaTypeOK
<1>1. KafkaInv => KafkaTypeOK
  <2> SUFFICES ASSUME KafkaInv PROVE KafkaTypeOK
    OBVIOUS
  <2>1. BrokerTyped /\ HistoryTyped /\ SessionTyped /\ ConsTyped /\ ShapeInv
    BY DEF KafkaInv, Typed
  <2>2. ASSUME NEW p \in Partition
        PROVE  /\ log[p].low \in 0 .. High(p) /\ log[p].recs \in Seq(1 .. MaxRecords)
               /\ cons[p].gate.kind \in {"active", "target", "seek", "restore"}
               /\ cons[p].span \in Span /\ cons[p].next \in Offset /\ cons[p].fr \in Entry
               /\ cons[p].notice \subseteq {"revoked", "assigned"}
               /\ cons[p].muted => cons[p].assigned
               /\ committed[p] \in Offset /\ sent[p] \in Offset
    <3>1. LogOK(log[p]) /\ cons[p] \in Consumer /\ (cons[p].muted => cons[p].assigned)
      BY <2>1 DEF BrokerTyped, ConsTyped
    <3>2. log[p].low \in 0 .. High(p) /\ log[p].recs \in Seq(1 .. MaxRecords)
      BY <3>1, LogBounds DEF High, LogOK, Log
    <3>3. committed[p] \in Offset /\ sent[p] \in Offset
      BY <2>1 DEF BrokerTyped
    <3> QED
      BY <3>1, <3>2, <3>3 DEF Consumer, Gate
  <2>3. pub.phase # "none" => Running
    BY <2>1, NoPubTyped DEF ShapeInv, Running
  <2>4. pub.phase \in {"swap", "rollback"} => Last(rows).recs = pub.batch
    BY <2>1 DEF ShapeInv, Last
  <2>5. /\ buf \in Seq(Record) /\ Len(buf) < MaxRowsPerSegment
        /\ sess.phase \in {"down", "join", "up", "stopped"}
        /\ pub.phase \in {"none", "persist", "swap", "rollback"}
    BY <2>1 DEF SessionTyped
  <2> QED
    BY <2>1, <2>2, <2>3, <2>4, <2>5 DEF KafkaTypeOK, HistoryTyped
<1> QED
  BY <1>1, KafkaInvHolds, PTL

LEMMA StoredDurable ==
    ASSUME KafkaInv
    PROVE  /\ Stored \subseteq Durable
           /\ pub.phase \in {"swap", "rollback"} => ToSet(pub.batch) \subseteq Durable
<1>1. Stored \subseteq Durable
  BY DEF Stored, Durable, SettledRows
<1>2. ASSUME pub.phase \in {"swap", "rollback"}
      PROVE  ToSet(pub.batch) \subseteq Durable
  <2>1. rows # <<>> /\ rows[Len(rows)].recs = pub.batch
    BY <1>2 DEF KafkaInv, ShapeInv
  <2>2. Len(rows) \in DOMAIN rows
    BY <2>1, RowsDomain, EmptySeq
  <2> QED
    BY <2>1, <2>2 DEF Durable, RowRecords
<1> QED
  BY <1>1, <1>2

\* commit_contiguous never commits past a record that no row holds, however
\* publications fail, partitions move and the log is cut or recreated.
THEOREM CommitsAreDurable == Spec => []CommittedIsDurable
<1>1. KafkaInv => CommittedIsDurable
  <2> SUFFICES ASSUME KafkaInv, NEW p \in Partition, NEW o \in Retained(p), o < committed[p]
               PROVE  RecordAt(p, o) \in Durable \cup Poison \cup excused \cup gap \cup shadow
    BY DEF CommittedIsDurable
  <2>1. UpTo(p, log[p], committed[p], Safe)
    BY DEF KafkaInv, SafeInv
  <2>2. RecordAt(p, o) \in Safe
    BY <2>1, RecordTyped DEF UpTo, KafkaInv, Typed
  <2> QED
    BY <2>2, StoredDurable DEF Safe
<1> QED
  BY <1>1, KafkaInvHolds, PTL

\* The kafkaOffsets stamp of a row covers no record that no row holds, also
\* while the row is being published (record_offset, rebase_after_clamped_seek).
THEOREM StampsAreHonest == Spec => []StampHonest
<1>1. KafkaInv => StampHonest
  <2> SUFFICES ASSUME KafkaInv, NEW i \in DOMAIN rows, NEW p \in Partition,
                      NEW o \in Retained(p), o \in Covered(rows[i].span[p])
               PROVE  RecordAt(p, o) \in Durable \cup Poison \cup excused \cup gap \cup shadow
    BY DEF StampHonest
  <2> DEFINE s == rows[i].span[p]
  <2>1. s.start \in Int /\ s.next \in Int
    BY RowsDomain, Constants DEF Row, Span
  <2>2. o \in Int /\ o < s.next
    BY <2>1 DEF Covered
  <2>3. /\ RecordAt(p, o) = <<p, log[p].recs[o + 1]>>
        /\ o \in log[p].low .. (Len(log[p].recs) - 1)
    BY RecordTyped DEF KafkaInv, Typed
  <2>4. CASE i \in SettledRows
    <3>1. UpTo(p, log[p], s.next, Safe)
      BY <2>4 DEF KafkaInv, SafeInv, SpanOK
    <3>2. RecordAt(p, o) \in Safe
      BY <2>2, <2>3, <3>1 DEF UpTo
    <3> QED
      BY <3>2, StoredDurable DEF Safe
  <2>5. CASE i \notin SettledRows
    <3>1. pub.phase \in {"swap", "rollback"} /\ i = Len(rows)
      BY <2>5 DEF SettledRows, InStock
    <3>2. s \in {pub.spans[p], NoSpan} /\ buf = <<>>
      BY <3>1 DEF KafkaInv, ShapeInv
    <3>3. s # NoSpan
      <4>1. NoSpan.start = NoOffset /\ NoSpan.next = NoOffset
        BY DEF NoSpan
      <4> QED
        BY <4>1, Constants DEF Covered
    <3>4. UpTo(p, log[p], s.next, Kept)
      BY <3>2, <3>3 DEF KafkaInv, SafeInv, SpanOK
    <3>5. RecordAt(p, o) \in Kept
      BY <2>2, <2>3, <3>4 DEF UpTo
    <3>6. ToSet(buf) = {}
      BY <3>2, NoPubTyped
    <3> QED
      BY <3>1, <3>5, <3>6, StoredDurable DEF Kept, Safe
  <2> QED
    BY <2>4, <2>5
<1> QED
  BY <1>1, KafkaInvHolds, PTL

\* A session that stops without having failed has made every record that it
\* accepted durable (StreamingStats::replay_required).
THEOREM CleanStopsComplete == Spec => []CleanStopIsComplete
<1>1. KafkaInv => CleanStopIsComplete
  <2> SUFFICES ASSUME KafkaInv, sess.phase = "stopped", ~sess.failed
               PROVE  accepted \subseteq Durable \cup Poison
    BY DEF CleanStopIsComplete
  <2>1. ToSet(buf) = {} /\ ToSet(pub.batch) = {}
    BY NoPubTyped DEF KafkaInv, ShapeInv
  <2>2. accepted \subseteq Stored \cup Poison
    BY <2>1 DEF KafkaInv, CleanInv
  <2> QED
    BY <2>2, StoredDurable
<1> QED
  BY <1>1, KafkaInvHolds, PTL

\* A partition whose next record will be buffered has left behind only records
\* that a row holds, that the loop has in its hands, or whose loss is recorded:
\* the gate is never opened above a record that this group still owes.
NothingLeftBehind ==
    \A p \in Partition :
        Looping /\ cons[p].assigned /\ cons[p].gate = Active /\ cons[p].notice = {} =>
            \A o \in Retained(p) :
                o < cons[p].pos =>
                    RecordAt(p, o) \in Durable \cup ToSet(buf) \cup Poison
                                       \cup excused \cup gap \cup shadow

\* The seek-before-consume gate and the rebalance re-arm: no seek, no-op seek or
\* restore lets the loop continue above a record that is not accounted for.
THEOREM GateLeavesNothingBehind == Spec => []NothingLeftBehind
<1>1. KafkaInv => NothingLeftBehind
  <2> SUFFICES ASSUME KafkaInv, NEW p \in Partition, Looping, cons[p].assigned,
                      cons[p].gate = Active, cons[p].notice = {},
                      NEW o \in Retained(p), o < cons[p].pos
               PROVE  RecordAt(p, o) \in Durable \cup ToSet(buf) \cup Poison
                                         \cup excused \cup gap \cup shadow
    BY DEF NothingLeftBehind
  <2>1. Through(sess.recreated, cons[p])
    BY DEF Through
  <2>2. UpTo(p, log[p], cons[p].pos, Kept)
    BY <2>1 DEF KafkaInv, SafeInv, Good, ConsOK
  <2>3. RecordAt(p, o) \in Kept
    BY <2>2, RecordTyped DEF UpTo, KafkaInv, Typed
  <2>4. ToSet(pub.batch) = {}
    BY NoPubTyped DEF Looping, KafkaInv, ShapeInv
  <2> QED
    BY <2>3, <2>4, StoredDurable DEF Kept, Safe
<1> QED
  BY <1>1, KafkaInvHolds, PTL
=============================================================================
