---------------------------- MODULE KafkaSkipProofs ----------------------------
(***************************************************************************)
(* The proof of NothingSkipped.  KafkaProofs shows that nothing below an   *)
(* offset the loop remembers was lost when it became durable; here it must *)
(* be in a row whose blob can still be read.  A row that lost its blob has *)
(* its records inside its own offset stamp, so the resume floor of the     *)
(* next session is not above them; only the group's committed offset can   *)
(* be, and a session follows it past its own floor only where it goes      *)
(* astray.                                                                 *)
(***************************************************************************)
EXTENDS KafkaProofs

(***************************************************************************)
(* Records and rows, in every phase.                                       *)
(***************************************************************************)
\* A partition's records have different numbers, and no other ones are anywhere.
Numbered(l) ==
    /\ \A j \in DOMAIN l.recs : l.recs[j] <= l.born
    /\ \A j, k \in DOMAIN l.recs : l.recs[j] = l.recs[k] => j = k

Born(T) == \A r \in T : r[2] <= log[r[1]].born

Everywhere == Durable \cup ToSet(buf) \cup ToSet(pub.batch)

NumberInv ==
    /\ \A p \in Partition : Numbered(log[p]) /\ log[p].epoch >= 1
    /\ Born(Everywhere)

\* A span is none or starts at an offset.
Started(s) == s = NoSpan \/ 0 <= s.start

\* Partition p of a row, its log being l: a row without its blob that holds a
\* retained record names its offset, unless it is excused; a row of an earlier
\* generation holds no retained record.
RowOK(p, l, row, ex, gen) ==
    /\ row.span[p] # NoSpan => row.cid
    /\ Started(row.span[p])
    /\ \A o \in l.low .. (Len(l.recs) - 1) :
          <<p, l.recs[o + 1]>> \in ToSet(row.recs) =>
              /\ row.blob \/ <<p, l.recs[o + 1]>> \in ex \/ o \in Covered(row.span[p])
              /\ ~DeadGeneration(row, gen)

RowInv ==
    /\ \A i \in DOMAIN rows :
          /\ rows[i].visible => rows[i].blob
          /\ \A p \in Partition : RowOK(p, log[p], rows[i], excused, topic)
    /\ pub.phase \in {"swap", "rollback"} => rows[Len(rows)].blob /\ ~rows[Len(rows)].visible

(***************************************************************************)
(* The offsets of a running session.                                       *)
(***************************************************************************)
InSession == sess.phase \in {"join", "up"}

\* The records a resume finds, apart from renumbered ones, and with those the
\* loop has in its hands.
Shelved == UNION {RowRecords(i) : i \in {j \in SettledRows : rows[j].blob}}
Backed(p) == Shelved \cup Poison \cup excused \cup gap \cup Misclaimed(p)
InHand(p) == Backed(p) \cup ToSet(buf) \cup ToSet(pub.batch)

\* Offsets of numbering e: they may run up to the log's end, or to the highest
\* end it had; the records of H are out of account if e is not the current one.
EndOf(l, e) == IF e = l.epoch THEN Len(l.recs) ELSE TopOf(l)
Unseen(l, H, e) == IF e = l.epoch THEN {} ELSE H

\* Everything of partition p that is retained below x is in S.
Clear(p, l, H, e, x, S) ==
    /\ x <= EndOf(l, e)
    /\ \A o \in l.low .. (Len(l.recs) - 1) :
          o < x => <<p, l.recs[o + 1]>> \in S \cup Unseen(l, H, e)

\* Offsets that the frontier may skip are those of loaded rows.
LoadedIn(p, fr) == fr.loaded \subseteq LoadedOffsets(rows, p, TRUE, sess.tid)

\* In a session that found the topic recreated, a partition has a floor-low entry
\* or gets one before its first record.
Judged(rec, c) ==
    rec => \/ c.fr.recreated
           \/ /\ c.fr = NoEntry /\ c.gate = Active /\ c.next = NoOffset
              /\ c.assigned => "assigned" \in c.notice

FloorFirm(p, l, H, c, S) ==
    c.next = NoOffset /\ ~c.fr.recreated =>
        Clear(p, l, H, c.epoch, c.fr.minStart, S) \/ c.fr.minStart = Passthrough

GateFirm(p, l, H, c, K) ==
    /\ c.gate.kind = "target" => c.next = NoOffset
    /\ c.gate.kind = "seek" /\ ~c.recFloor /\ ~c.resetFloor =>
          Clear(p, l, H, c.epoch, c.gate.at, K) \/ c.gate.at = Passthrough
    /\ c.gate.kind = "restore" => Clear(p, l, H, c.epoch, c.gate.at, K)

\* A commit that the session may still act on is clear, or above the floor.
Trusting(rec, c) == ~rec /\ (~Untrusted(c) \/ (c.next = NoOffset /\ c.fr = NoEntry))

CommitFirm(p, l, H, c, com, S) ==
    \/ Clear(p, l, H, c.epoch, com, S)
    \/ c.fr # NoEntry /\ c.fr.minStart # Passthrough /\ c.fr.minStart < com

Steady(p, l, H, rec, c, coms, S, K) ==
    /\ Clear(p, l, H, c.epoch, c.next, S)
    /\ Clear(p, l, H, c.epoch, c.span.next, K)
    /\ FloorFirm(p, l, H, c, S)
    /\ GateFirm(p, l, H, c, K)
    /\ Through(rec, c) => Clear(p, l, H, c.epoch, c.pos, K)
    /\ Trusting(rec, c) => \A com \in coms : CommitFirm(p, l, H, c, com, S)

Aware(l, rec, c) ==
    /\ Started(c.span)
    /\ c.resetFloor => c.reset
    /\ c.epoch = l.epoch => rec \/ c.next # NoOffset
    /\ c.epoch <= l.epoch
    /\ Judged(rec, c)

Firm(p, l, H, rec, c, coms, S, K) ==
    Aware(l, rec, c) /\ (~c.astray => Steady(p, l, H, rec, c, coms, S, K))

Sound(p, l, H, rec, c, coms, span, S, K) ==
    /\ Firm(p, l, H, rec, c, coms, S, K)
    /\ Started(span)
    /\ span = NoSpan \/ c.next # NoOffset
    /\ ~c.astray => Clear(p, l, H, c.epoch, span.next, K)

SessionInv ==
    InSession =>
        /\ sess.tid \in {NoTopicId, topic}
        /\ \A p \in Partition :
              /\ LoadedIn(p, cons[p].fr)
              /\ Sound(p, log[p], shadow, sess.recreated, cons[p], {committed[p], sent[p]},
                       pub.spans[p], Backed(p), InHand(p))

SkipInv == NumberInv /\ RowInv /\ SessionInv

------------------------------------------------------------------------------
(* Clear offsets.                                                          *)

LEMMA EndBounds ==
    ASSUME NEW l, LogOK(l), NEW e
    PROVE  /\ EndOf(l, e) \in Nat /\ Len(l.recs) <= EndOf(l, e) /\ EndOf(l, e) <= TopOf(l)
           /\ EndOf(l, e) <= MaxRecords
BY LogBounds, Constants DEF EndOf

LEMMA ClearLow ==
    ASSUME NEW l, LogOK(l), NEW p, NEW H, NEW e, NEW x \in Int, x <= l.low, NEW S
    PROVE  Clear(p, l, H, e, x, S)
BY LogBounds, EndBounds DEF Clear

LEMMA ClearNone ==
    ASSUME NEW l, LogOK(l), NEW p, NEW H, NEW e, NEW S
    PROVE  Clear(p, l, H, e, NoOffset, S)
BY ClearLow, LogBounds, Constants

LEMMA ClearWeaken ==
    ASSUME NEW p, NEW l, NEW H, NEW e, NEW x, NEW S, NEW T, Clear(p, l, H, e, x, S), S \subseteq T
    PROVE  Clear(p, l, H, e, x, T)
BY DEF Clear

\* Offsets whose numbering is not known any more are clear where they were.
LEMMA ClearUnknown ==
    ASSUME NEW l, LogOK(l), l.epoch >= 1, NEW p, NEW H, NEW e, NEW x \in Int, NEW S,
           Clear(p, l, H, e, x, S)
    PROVE  Clear(p, l, H, 0, x, S)
<1>1. EndOf(l, e) \in Nat /\ EndOf(l, e) <= TopOf(l) /\ TopOf(l) \in Nat
  BY EndBounds, LogBounds
<1>2. 0 # l.epoch
  BY LogBounds
<1>3. EndOf(l, 0) = TopOf(l) /\ Unseen(l, H, e) \subseteq Unseen(l, H, 0)
  BY <1>2 DEF EndOf, Unseen
<1> QED
  BY <1>1, <1>3 DEF Clear

\* The loaded offsets of an entry are in S, each by itself.
Loads(p, l, fr, S) ==
    \A o \in fr.loaded : o \in l.low .. (Len(l.recs) - 1) => <<p, l.recs[o + 1]>> \in S

\* The end of a run of loaded offsets is as clear as its start.
LEMMA ClearAdvance ==
    ASSUME NEW l, LogOK(l), NEW p, NEW H, NEW e, NEW fr \in Entry, NEW S, Loads(p, l, fr, S),
           NEW x \in Int, Clear(p, l, H, e, x, S), NEW y \in Int, x <= y, y <= EndOf(l, e),
           \A o \in x .. (y - 1) : o \in fr.loaded
    PROVE  Clear(p, l, H, e, y, S)
<1>1. l.low \in Nat /\ Len(l.recs) \in Nat
  BY LogBounds
<1>2. ASSUME NEW o \in l.low .. (Len(l.recs) - 1), o < y
      PROVE  <<p, l.recs[o + 1]>> \in S \cup Unseen(l, H, e)
  <2>1. CASE o < x
    BY <2>1 DEF Clear
  <2>2. CASE ~(o < x)
    <3>1. o \in x .. (y - 1)
      BY <1>1, <1>2, <2>2
    <3> QED
      BY <3>1 DEF Loads
  <2> QED
    BY <2>1, <2>2
<1> QED
  BY <1>2 DEF Clear

(***************************************************************************)
(* Firm partitions.                                                        *)
(***************************************************************************)
\* What is clear at log l is clear at log m.
Carries(p, l, m, H, I, e, S, T) ==
    \A x \in Int : Clear(p, l, H, e, x, S) => Clear(p, m, I, e, x, T)

LEMMA FirmCarries ==
    ASSUME NEW p, NEW l, NEW m, NEW H, NEW I, NEW rec, NEW c \in Consumer, NEW coms, coms \subseteq Int,
           NEW S, NEW K, NEW T, NEW L, Firm(p, l, H, rec, c, coms, S, K),
           Carries(p, l, m, H, I, c.epoch, S, T), Carries(p, l, m, H, I, c.epoch, K, L),
           l.epoch \in Nat, m.epoch \in Nat, l.epoch <= m.epoch
    PROVE  Firm(p, m, I, rec, c, coms, T, L)
<1>1. /\ c.next \in Int /\ c.span.next \in Int /\ c.pos \in Int /\ c.gate.at \in Int
      /\ c.fr.minStart \in Int /\ c.epoch \in Nat
  BY Constants DEF Consumer, Span, Gate, Entry
<1>2. Aware(m, rec, c)
  <2>1. Aware(l, rec, c)
    BY DEF Firm
  <2>2. c.epoch <= l.epoch
    BY <2>1 DEF Aware
  <2>3. c.epoch = m.epoch => c.epoch = l.epoch
    BY <1>1, <2>2
  <2>4. c.epoch <= m.epoch
    BY <1>1, <2>2
  <2> QED
    BY <2>1, <2>3, <2>4 DEF Aware
<1>3. ASSUME Steady(p, l, H, rec, c, coms, S, K)
      PROVE  Steady(p, m, I, rec, c, coms, T, L)
  <2> DEFINE A(x) == Clear(p, l, H, c.epoch, x, S)
             B(x) == Clear(p, l, H, c.epoch, x, K)
             C(x) == Clear(p, m, I, c.epoch, x, T)
             D(x) == Clear(p, m, I, c.epoch, x, L)
  <2>1. \A x \in Int : (A(x) => C(x)) /\ (B(x) => D(x))
    BY DEF Carries
  <2>2. C(c.next) /\ D(c.span.next)
    BY <1>1, <1>3, <2>1 DEF Steady
  <2>3. FloorFirm(p, m, I, c, T)
    BY <1>1, <1>3, <2>1 DEF Steady, FloorFirm
  <2>4. GateFirm(p, m, I, c, L)
    BY <1>1, <1>3, <2>1 DEF Steady, GateFirm
  <2>5. Through(rec, c) => D(c.pos)
    BY <1>1, <1>3, <2>1 DEF Steady
  <2>6. Trusting(rec, c) => \A com \in coms : CommitFirm(p, m, I, c, com, T)
    BY <1>1, <1>3, <2>1 DEF Steady, CommitFirm
  <2> QED
    BY <2>2, <2>3, <2>4, <2>5, <2>6 DEF Steady
<1> QED
  BY <1>2, <1>3 DEF Firm

\* The same partition with larger sets.
LEMMA FirmWeaken ==
    ASSUME NEW p, NEW l, LogOK(l), NEW H, NEW rec, NEW c \in Consumer, NEW coms, coms \subseteq Int,
           NEW S, NEW K, NEW T, NEW L, Firm(p, l, H, rec, c, coms, S, K), S \subseteq T, K \subseteq L
    PROVE  Firm(p, l, H, rec, c, coms, T, L)
<1>1. Carries(p, l, l, H, H, c.epoch, S, T) /\ Carries(p, l, l, H, H, c.epoch, K, L)
  BY ClearWeaken DEF Carries
<1>2. l.epoch \in Nat /\ l.epoch <= l.epoch
  BY LogBounds
<1> QED
  BY <1>1, <1>2, FirmCarries

\* A partition that looks the same and trusts its floors and commits no more.
Wary(e, f) ==
    /\ e.next = f.next /\ e.span = f.span /\ e.fr = f.fr /\ e.gate = f.gate /\ e.pos = f.pos
    /\ e.epoch = f.epoch /\ e.assigned = f.assigned /\ e.notice = f.notice
    /\ f.reset => e.reset
    /\ f.recFloor => e.recFloor
    /\ f.resetFloor => e.resetFloor
    /\ e.resetFloor => e.reset

LEMMA AwareWary ==
    ASSUME NEW l, NEW rec, NEW e, NEW f, Wary(e, f), Aware(l, rec, f)
    PROVE  Aware(l, rec, e)
BY DEF Wary, Aware, Judged

LEMMA SteadyWary ==
    ASSUME NEW p, NEW l, NEW H, NEW rec, NEW coms, NEW S, NEW K, NEW e, NEW f, Wary(e, f),
           Steady(p, l, H, rec, f, coms, S, K)
    PROVE  Steady(p, l, H, rec, e, coms, S, K)
<1>1. SafeFloor(e) = SafeFloor(f)
  BY DEF SafeFloor, Wary
<1>2. Through(rec, e) <=> Through(rec, f)
  BY <1>1 DEF Through, Wary
<1>3. Trusting(rec, e) => Trusting(rec, f)
  BY DEF Trusting, Untrusted, Wary
<1>4. FloorFirm(p, l, H, e, S)
  BY DEF FloorFirm, Wary, Steady
<1>5. GateFirm(p, l, H, e, K)
  BY DEF GateFirm, Wary, Steady
<1>6. \A com : CommitFirm(p, l, H, f, com, S) <=> CommitFirm(p, l, H, e, com, S)
  BY DEF CommitFirm, Wary
<1> QED
  BY <1>2, <1>3, <1>4, <1>5, <1>6 DEF Steady, Wary

(***************************************************************************)
(* The gate.                                                               *)
(***************************************************************************)
\* The gate of a partition is replaced by a seek to t.
SeekSet(c, t, rf, rs) ==
    [c EXCEPT !.gate = NeedsSeek(t), !.recFloor = rf, !.resetFloor = rs]

LEMMA SeekSetSteady ==
    ASSUME NEW p, NEW l, NEW H, NEW rec, NEW coms, NEW S, NEW K, NEW c \in Consumer,
           Pending(c), Aware(l, rec, c), Steady(p, l, H, rec, c, coms, S, K),
           NEW t \in Int, NEW rf \in BOOLEAN, NEW rs \in BOOLEAN,
           ~rf /\ ~rs => Clear(p, l, H, c.epoch, t, K) \/ t = Passthrough,
           rs => c.reset
    PROVE  /\ SeekSet(c, t, rf, rs) \in Consumer
           /\ Aware(l, rec, SeekSet(c, t, rf, rs))
           /\ Steady(p, l, H, rec, SeekSet(c, t, rf, rs), coms, S, K)
<1> DEFINE a == SeekSet(c, t, rf, rs)
<1>1. NeedsSeek(t) \in Gate /\ NeedsSeek(t) # Active /\ NeedsSeek(t).kind = "seek"
      /\ NeedsSeek(t).at = t
  BY DEF Gate, NeedsSeek, Active
<1>2. a \in Consumer
  BY <1>1 DEF Consumer, SeekSet
<1>3. /\ a.gate = NeedsSeek(t) /\ a.next = c.next /\ a.span = c.span /\ a.fr = c.fr
      /\ a.pos = c.pos /\ a.assigned = c.assigned /\ a.notice = c.notice /\ a.epoch = c.epoch
      /\ a.recFloor = rf /\ a.resetFloor = rs /\ a.reset = c.reset
  BY DEF Consumer, SeekSet
<1> HIDE DEF a
<1>4. Aware(l, rec, a)
  BY <1>3 DEF Aware, Judged, Pending
<1>5. GateFirm(p, l, H, a, K)
  BY <1>1, <1>3 DEF GateFirm
<1>6. FloorFirm(p, l, H, a, S)
  BY <1>3 DEF FloorFirm, Steady
<1>7. Trusting(rec, a) <=> Trusting(rec, c)
  BY <1>3 DEF Trusting, Untrusted
<1>8. \A com : CommitFirm(p, l, H, c, com, S) <=> CommitFirm(p, l, H, a, com, S)
  BY <1>3 DEF CommitFirm
<1>9. ~Through(rec, a)
  BY <1>1, <1>3 DEF Through
<1>10. Steady(p, l, H, rec, a, coms, S, K)
  BY <1>3, <1>5, <1>6, <1>7, <1>8, <1>9 DEF Steady
<1> QED
  BY <1>2, <1>4, <1>10 DEF a

\* A target that is taken from the frontier and the committed offset is clear.
LEMMA TargetClear ==
    ASSUME NEW p, NEW l, LogOK(l), NEW H, NEW rec, NEW coms, NEW S, NEW K, NEW S0, NEW K0,
           NEW c, Good(p, l, rec, c, S0, K0), Pending(c), Aware(l, rec, c),
           Steady(p, l, H, rec, c, coms, S, K), Loads(p, l, c.fr, S),
           NEW com \in Offset, com \in coms,
           c.gate.kind = "target", ~Untrusted(c)
    PROVE  LET t == resume_offset(com, c.fr)
           IN  t \in Int /\ (Clear(p, l, H, c.epoch, t, S) \/ t = Passthrough)
<1> DEFINE e == c.epoch
           m == c.fr.minStart
           Y(x) == Clear(p, l, H, e, x, S)
<1>1. c \in Consumer /\ c.fr \in Entry /\ FrontierOK(p, l, c.fr, S0)
  BY DEF Good, ConsOK, Consumer
<1>2. m \in Int /\ com \in Int /\ ~c.fr.recreated /\ c.next = NoOffset /\ com <= MaxRecords
      /\ c.fr.loaded \subseteq Int /\ \A o \in c.fr.loaded : o <= MaxRecords
  BY <1>1, Constants DEF Entry, Untrusted, Steady, GateFirm
<1>3. ~rec /\ e # l.epoch
  BY <1>2 DEF Aware, Judged, Pending
<1>4. EndOf(l, e) = TopOf(l) /\ TopOf(l) \in Nat /\ TopOf(l) <= MaxRecords
  BY <1>3, LogBounds DEF EndOf
<1>5. Y(m) \/ (m = Passthrough /\ c.fr.loaded = {})
  <2>1. Y(m) \/ m = Passthrough
    BY <1>2 DEF Steady, FloorFirm
  <2>2. m = Passthrough => c.fr.loaded = {}
    BY <1>1, <1>4, Constants DEF FrontierOK, UpTo
  <2> QED
    BY <2>1, <2>2
<1>6. Y(com) \/ (m # Passthrough /\ m < com)
  BY <1>3 DEF Steady, Trusting, CommitFirm
<1> DEFINE point == IF com = NoOffset THEN m ELSE Min({com, m})
<1>7. point \in Int /\ (Y(point) \/ (point = Passthrough /\ c.fr.loaded = {}))
  <2>1. CASE com = NoOffset
    BY <1>2, <1>5, <2>1
  <2>2. CASE com # NoOffset /\ com <= m
    <3>1. Min({com, m}) = com
      <4> DEFINE M == {com, m}
      <4>1. M \subseteq Int /\ M # {} /\ com \in Int /\ \A y \in M : com <= y
        BY <1>2, <2>2
      <4>2. Min(M) \in M /\ \A y \in M : Min(M) <= y
        <5> HIDE DEF M
        <5> QED
          BY <4>1, MinOf
      <4> QED
        BY <4>2, <1>2, <2>2
    <3>2. Y(com)
      BY <1>2, <1>6, <2>2
    <3> HIDE DEF Y
    <3> QED
      BY <1>2, <2>2, <3>1, <3>2
  <2>3. CASE com # NoOffset /\ ~(com <= m)
    <3>1. Min({com, m}) = m
      <4> DEFINE M == {com, m}
      <4>1. M \subseteq Int /\ M # {} /\ m \in Int /\ \A y \in M : m <= y
        BY <1>2, <2>3
      <4>2. Min(M) \in M /\ \A y \in M : Min(M) <= y
        <5> HIDE DEF M
        <5> QED
          BY <4>1, MinOf
      <4> QED
        BY <4>2, <1>2, <2>3
    <3> HIDE DEF Y
    <3> QED
      BY <1>2, <1>5, <2>3, <3>1
  <2> QED
    BY <2>1, <2>2, <2>3
<1> DEFINE t == advance_contiguous(point, c.fr.loaded)
<1>8. resume_offset(com, c.fr) = t
  BY <1>2 DEF resume_offset
<1> HIDE DEF point
<1>9. t \in Int /\ point <= t /\ \A o \in point .. (t - 1) : o \in c.fr.loaded
  BY <1>2, <1>7, Advance, Constants
<1> HIDE DEF t
<1>10. CASE Y(point)
  <2>1. t <= EndOf(l, e)
    <3>1. CASE t = point
      BY <1>10, <3>1 DEF Clear
    <3>2. CASE t # point
      <4>1. t - 1 \in c.fr.loaded
        BY <1>7, <1>9, <3>2
      <4>2. UpTo(p, l, (t - 1) + 1, S0)
        BY <1>1, <4>1 DEF FrontierOK
      <4>3. (t - 1) + 1 = t
        BY <1>9
      <4> QED
        BY <1>4, <4>2, <4>3 DEF UpTo
    <3> QED
      BY <3>1, <3>2
  <2> HIDE DEF e
  <2>2. Y(t)
    BY <1>1, <1>7, <1>9, <1>10, <2>1, ClearAdvance
  <2> QED
    BY <1>8, <1>9, <2>2 DEF e
<1>11. CASE point = Passthrough /\ c.fr.loaded = {}
  <2>1. t = point
    BY <1>7, <1>9, <1>11
  <2> QED
    BY <1>8, <1>9, <1>11, <2>1
<1> QED
  BY <1>7, <1>10, <1>11

\* A pending partition is given a target.
LEMMA WithTargetSteady ==
    ASSUME NEW p, NEW l, LogOK(l), NEW H, NEW rec, NEW coms, NEW S, NEW K, S \subseteq K,
           NEW S0, NEW K0,
           NEW c, Good(p, l, rec, c, S0, K0), Pending(c), Aware(l, rec, c),
           Steady(p, l, H, rec, c, coms, S, K), Loads(p, l, c.fr, S),
           NEW com \in Offset, com \in coms,
           c.gate.kind = "restore" /\ ~Untrusted(c) => com <= c.gate.at
    PROVE  /\ WithTarget(c, com) \in Consumer
           /\ Aware(l, rec, WithTarget(c, com))
           /\ Steady(p, l, H, rec, WithTarget(c, com), coms, S, K)
<1>0. c \in Consumer /\ ConsOK(p, l, rec, c, S0, K0)
  BY DEF Good
<1>1. c.gate \in Gate /\ c.fr \in Entry /\ GateOK(p, l, c.gate, K0) /\ c.recFloor \in BOOLEAN
      /\ c.resetFloor \in BOOLEAN /\ c.reset \in BOOLEAN /\ c.fr.recreated \in BOOLEAN
  BY <1>0 DEF Consumer, ConsOK, Entry
<1>2. c.gate.kind \in {"target", "seek", "restore"} /\ c.gate.at \in Int
  BY <1>1 DEF Gate, GateOK, Pending
<1>3. c.resetFloor => c.reset
  BY DEF Aware
<1>4. CASE c.gate.kind = "seek"
  BY <1>0, <1>4 DEF WithTarget
<1>5. CASE c.gate.kind = "restore"
  <2> DEFINE t == restore_target(Untrusted(c), com, c.gate.at)
  <2>1. t = c.gate.at
    <3>1. ~Untrusted(c) => Max({com, c.gate.at}) = c.gate.at
      <4>1. com \in Int
        BY Constants
      <4> QED
        BY <1>2, <1>5, <4>1, MaxOfTwo
    <3> QED
      BY <3>1 DEF restore_target
  <2>2. WithTarget(c, com) = [c EXCEPT !.gate = NeedsSeek(t)]
    BY <1>5 DEF WithTarget
  <2> HIDE DEF t
  <2>3. WithTarget(c, com) = SeekSet(c, t, c.recFloor, c.resetFloor)
    BY <1>0, <2>2 DEF Consumer, SeekSet
  <2>4. t \in Int /\ Clear(p, l, H, c.epoch, t, K)
    BY <1>2, <1>5, <2>1 DEF Steady, GateFirm
  <2> QED
    BY <1>0, <1>1, <1>3, <2>3, <2>4, SeekSetSteady
<1>6. CASE c.gate.kind = "target"
  <2> DEFINE t == resume_offset(IF Untrusted(c) THEN NoOffset ELSE com, c.fr)
             rf == c.recFloor \/ c.fr.recreated
             rs == c.resetFloor \/ (~c.fr.recreated /\ c.reset)
  <2>1. WithTarget(c, com) = SeekSet(c, t, rf, rs)
    BY <1>0, <1>6 DEF WithTarget, Consumer, SeekSet
  <2>2. rf \in BOOLEAN /\ rs \in BOOLEAN /\ (rs => c.reset)
    BY <1>1, <1>3
  <2>3. CASE Untrusted(c)
    <3>1. rf \/ rs
      BY <1>1, <2>3 DEF Untrusted
    <3>2. t \in Int
      <4> DEFINE point == IF c.fr.recreated THEN 0 ELSE c.fr.minStart
      <4>1. point \in Int /\ c.fr.loaded \subseteq Int /\ \A o \in c.fr.loaded : o <= MaxRecords
        BY <1>1, Constants DEF Entry
      <4>2. t = advance_contiguous(point, c.fr.loaded)
        BY <2>3 DEF resume_offset
      <4> HIDE DEF point, t
      <4> QED
        BY <4>1, <4>2, Advance, Constants
    <3> HIDE DEF t, rf, rs
    <3> QED
      BY <1>0, <2>1, <2>2, <3>1, <3>2, SeekSetSteady
  <2>4. CASE ~Untrusted(c)
    <3>1. t = resume_offset(com, c.fr)
      BY <2>4
    <3>2. t \in Int /\ (Clear(p, l, H, c.epoch, t, S) \/ t = Passthrough)
      <4> HIDE DEF t
      <4>1. LET u == resume_offset(com, c.fr)
            IN  u \in Int /\ (Clear(p, l, H, c.epoch, u, S) \/ u = Passthrough)
        BY <1>6, <2>4, TargetClear
      <4> QED
        BY <3>1, <4>1
    <3> HIDE DEF t, rf, rs
    <3>3. Clear(p, l, H, c.epoch, t, K) \/ t = Passthrough
      BY <3>2, ClearWeaken
    <3> QED
      BY <1>0, <2>1, <2>2, <3>2, <3>3, SeekSetSteady
  <2> QED
    BY <2>3, <2>4
<1> QED
  BY <1>2, <1>4, <1>5, <1>6

\* What a seek to t makes of a partition, ...
Landed(l, t, a, e) ==
    /\ e.pos = t /\ e.gate \in {Active, NeedsSeek(t)} /\ e.fr = a.fr
    /\ e.assigned = a.assigned /\ e.notice = a.notice
    /\ ~e.recFloor /\ (e.resetFloor => e.reset)
    /\ \/ t = l.low /\ e.next = t /\ e.span = NoSpan /\ e.epoch = l.epoch /\ e.reset
       \/ /\ e.epoch = a.epoch /\ e.reset = a.reset
          /\ \/ e.next = a.next /\ e.span = a.span
             \/ e.next = t /\ e.span = NoSpan /\ (Floored(a) \/ a.gate.at # t)

\* ... and what a failed one does that is taken for a no-op.
Nooped(t, a, e) ==
    /\ e.pos = a.pos /\ e.gate = Active /\ e.fr = a.fr /\ e.next = a.next /\ e.span = a.span
    /\ e.assigned = a.assigned /\ e.notice = a.notice
    /\ ~e.recFloor /\ ~e.resetFloor /\ (a.reset => e.reset)
    /\ e.epoch = IF a.pos = t THEN a.epoch ELSE 0

\* The floors and flags of a target.
LEMMA WithTargetFields ==
    ASSUME NEW c \in Consumer, c.resetFloor => c.reset, NEW com \in Offset,
           c.gate.kind \in {"target", "seek", "restore"}
    PROVE  LET a == WithTarget(c, com)
           IN  /\ a.epoch = c.epoch /\ a.reset = c.reset /\ a.astray = c.astray
               /\ a.tainted = c.tainted
               /\ a.resetFloor => a.reset
BY DEF WithTarget, Consumer

LEMMA FloorsLow ==
    ASSUME NEW p, NEW l, l = log[p], LogOK(l), NEW a \in Consumer, a.resetFloor => a.reset
    PROVE  LET w == WithWatermarks(p, a)
               t == SeekTo(p, a)
           IN  /\ w \in Consumer /\ Wary(w, a) /\ w.tainted = a.tainted /\ w.astray = a.astray
               /\ w.recFloor = a.recFloor
               /\ Floored(w) => w.reset /\ t = l.low /\ (Floored(a) \/ a.gate.at # t)
               /\ ~Floored(w) => w.reset = a.reset
<1> DEFINE w == WithWatermarks(p, a)
           t == SeekTo(p, a)
           sh == offset_space_shrank(a.recFloor, Floored(a), a.gate.at, Len(l.recs)) /\ ~a.reset
<1>1. /\ a.recFloor \in BOOLEAN /\ a.resetFloor \in BOOLEAN /\ a.reset \in BOOLEAN
      /\ a.gate.at \in Int /\ Floored(a) \in BOOLEAN
  BY DEF Consumer, Gate, Floored
<1>2. sh \in BOOLEAN /\ (sh => ~a.recFloor /\ ~Floored(a) /\ a.gate.at > Len(l.recs))
  BY DEF offset_space_shrank
<1>3. w = [a EXCEPT !.reset = @ \/ sh, !.resetFloor = @ \/ sh]
  BY DEF WithWatermarks, High
<1> HIDE DEF sh, w
<1>4. w \in Consumer
  BY <1>2, <1>3 DEF Consumer
<1>5. /\ w.next = a.next /\ w.span = a.span /\ w.fr = a.fr /\ w.gate = a.gate /\ w.pos = a.pos
      /\ w.epoch = a.epoch /\ w.assigned = a.assigned /\ w.notice = a.notice
      /\ w.tainted = a.tainted /\ w.astray = a.astray /\ w.recFloor = a.recFloor
      /\ w.reset = (a.reset \/ sh) /\ w.resetFloor = (a.resetFloor \/ sh)
  BY <1>2, <1>3 DEF Consumer
<1>6. Wary(w, a)
  BY <1>5 DEF Wary
<1>7. l.low \in Nat /\ Len(l.recs) \in Nat /\ l.low <= Len(l.recs)
  BY LogBounds
<1>8. t = resolve_seek_target(a.recFloor, a.fr, Floored(a), a.gate.at, l.low, Len(l.recs))
  BY DEF SeekTo, High
<1>9. Floored(a) => t = l.low
  BY <1>8 DEF Floored, resolve_seek_target
<1>10. sh => t = l.low /\ a.gate.at # t
  BY <1>1, <1>2, <1>7, <1>8 DEF resolve_seek_target, clamp_resume_target
<1> HIDE DEF t
<1>11. Floored(w) => w.reset /\ t = l.low /\ (Floored(a) \/ a.gate.at # t)
  BY <1>5, <1>9, <1>10 DEF Floored
<1>12. ~Floored(w) => w.reset = a.reset
  BY <1>1, <1>2, <1>5 DEF Floored
<1> QED
  BY <1>4, <1>5, <1>6, <1>11, <1>12 DEF w, t

\* An attempt leaves the partition as it was, gives it a target, seeks, or takes
\* the failed seek for a no-op.
Attempted(p, l, c, a, out, e) ==
    LET t == SeekTo(p, a)
    IN  /\ e.astray = (c.astray \/ Overtaken(p, c))
        /\ e.fr = c.fr
        /\ \/ Wary(e, c) /\ out = "nocommit"
           \/ Wary(e, a) /\ out \in {"nowatermark", "noseek", "noseekfetch"}
           \/ Landed(l, t, a, e) /\ out \in {"ok", "noresume"}
           \/ Nooped(t, a, e) /\ out = "noseek" /\ (c.pos # t => Misplaced(p, c, out))

LEMMA AttemptShape ==
    ASSUME NEW p, NEW l, l = log[p], LogOK(l), NEW rec, NEW c, NEW S, NEW K, S \subseteq K,
           Good(p, l, rec, c, S, K), Pending(c), c.resetFloor => c.reset,
           NEW com, com = committed[p], com \in Offset, UpTo(p, l, com, S),
           NEW out \in Outcome, NEW pauseOk \in BOOLEAN
    PROVE  Attempted(p, l, c, WithTarget(c, com), out, After(p, c, out, pauseOk))
<1> DEFINE a == WithTarget(c, com)
           w == WithWatermarks(p, a)
           t == SeekTo(p, a)
           rebase == Floored(a) \/ a.gate.at # t
           s == Sought(p, w, t, rebase)
           q == Attempt(p, c, out, pauseOk)
           b == Overtaken(p, c)
           m == Misplaced(p, c, out)
           e == [q EXCEPT !.astray = @ \/ b, !.epoch = IF m THEN 0 ELSE @]
<1>0. c \in Consumer /\ c.gate.kind \in {"target", "seek", "restore"}
  <2>1. c \in Consumer /\ GateOK(p, l, c.gate, K)
    BY DEF Good, ConsOK
  <2>2. c.gate \in Gate
    BY <2>1 DEF Consumer
  <2> QED
    BY <2>1, <2>2 DEF Gate, GateOK, Pending
<1>1. /\ Good(p, l, rec, a, S, K) /\ a.gate.kind = "seek"
      /\ a.next = c.next /\ a.span = c.span /\ a.fr = c.fr /\ a.pos = c.pos
      /\ a.assigned = c.assigned /\ a.notice = c.notice /\ a.tainted = c.tainted
  BY WithTargetGood
<1>2. /\ a \in Consumer /\ a.epoch = c.epoch /\ a.reset = c.reset /\ a.astray = c.astray
      /\ a.resetFloor => a.reset
  BY <1>0, <1>1, WithTargetFields DEF Good
<1>3. t \in Offset \ {NoOffset} /\ t \in Nat
  <2>1. t \in Offset \ {NoOffset} /\ t \in l.low .. Len(l.recs)
    <3> HIDE DEF a
    <3> QED
      BY <1>1, SeekSafe
  <2> HIDE DEF t
  <2> QED
    BY <2>1, LogBounds
<1>4. /\ w \in Consumer /\ Wary(w, a) /\ w.tainted = a.tainted /\ w.astray = a.astray
      /\ w.recFloor = a.recFloor
      /\ Floored(w) => w.reset /\ t = l.low /\ rebase
      /\ ~Floored(w) => w.reset = a.reset
  <2> HIDE DEF a
  <2> QED
    BY <1>2, FloorsLow
<1>5. b \in BOOLEAN /\ m \in BOOLEAN
  BY DEF Overtaken, Misplaced
<1>6. m <=> out = "noseek" /\ may_noop_failed_seek(w, com, t) /\ c.pos # t
  BY <1>1, <1>4 DEF Misplaced, may_noop_failed_seek
<1>7. q = CASE out = "nocommit" -> Paused(c, pauseOk)
            [] out = "nowatermark" -> Paused(a, pauseOk)
            [] out = "noseek" -> IF may_noop_failed_seek(w, com, t) THEN Activated(w)
                                 ELSE Paused(w, pauseOk)
            [] out = "noseekfetch" -> Paused(w, pauseOk)
            [] out = "noresume" -> s
            [] out = "ok" -> Activated(s)
  BY DEF Attempt
<1>8. e = After(p, c, out, pauseOk)
  BY DEF After
<1>9. /\ s \in Consumer /\ Landed(l, t, a, s) /\ s.astray = c.astray
  <2> HIDE DEF a, w, t, rebase
  <2>1. NeedsSeek(t) \in Gate /\ NoSpan \in Span /\ l.epoch \in Nat
    BY <1>3, Constants, LogBounds DEF NeedsSeek, Gate, NoSpan, Span
  <2>2. s = [w EXCEPT !.pos = t, !.gate = NeedsSeek(t), !.recFloor = FALSE,
                      !.next = IF rebase THEN t ELSE @, !.span = IF rebase THEN NoSpan ELSE @,
                      !.epoch = IF Floored(w) THEN l.epoch ELSE @]
    BY DEF Sought
  <2> HIDE DEF s
  <2>3. s \in Consumer
    BY <1>3, <1>4, <2>1, <2>2 DEF Consumer
  <2>4. /\ s.pos = t /\ s.gate = NeedsSeek(t) /\ s.fr = w.fr /\ s.assigned = w.assigned
        /\ s.notice = w.notice /\ s.recFloor = FALSE /\ s.reset = w.reset
        /\ s.resetFloor = w.resetFloor /\ s.astray = w.astray
        /\ s.next = (IF rebase THEN t ELSE w.next) /\ s.span = (IF rebase THEN NoSpan ELSE w.span)
        /\ s.epoch = (IF Floored(w) THEN l.epoch ELSE w.epoch)
    BY <1>4, <2>2 DEF Consumer
  <2>5. s.resetFloor => s.reset
    BY <1>4, <2>4 DEF Wary
  <2>6. CASE Floored(w)
    BY <1>2, <1>4, <2>3, <2>4, <2>5, <2>6 DEF Landed, Wary
  <2>7. CASE ~Floored(w)
    BY <1>2, <1>4, <2>3, <2>4, <2>5, <2>7 DEF Landed, Wary, rebase
  <2> QED
    BY <2>6, <2>7
<1> DEFINE Flags(f, g) ==
      /\ f \in Consumer /\ g \in Consumer /\ f.astray = g.astray /\ f.next = g.next
      /\ f.span = g.span /\ f.fr = g.fr /\ f.pos = g.pos /\ f.epoch = g.epoch
      /\ f.assigned = g.assigned /\ f.notice = g.notice /\ f.reset = g.reset
<1>10. ASSUME NEW g \in Consumer
       PROVE  /\ Flags(Activated(g), g) /\ Activated(g).gate = Active
              /\ ~Activated(g).recFloor /\ ~Activated(g).resetFloor
  <2>1. Active \in Gate
    BY Constants DEF Active, Gate
  <2> DEFINE f == Activated(g)
  <2>2. f = [g EXCEPT !.muted = @ /\ ~g.paused, !.paused = FALSE, !.gate = Active,
                      !.tainted = FALSE, !.recFloor = FALSE, !.resetFloor = FALSE]
    BY DEF Activated
  <2> HIDE DEF f
  <2>3. f \in Consumer
    BY <1>10, <2>1, <2>2 DEF Consumer
  <2>4. /\ f.astray = g.astray /\ f.next = g.next
        /\ f.span = g.span /\ f.fr = g.fr /\ f.pos = g.pos /\ f.epoch = g.epoch
        /\ f.assigned = g.assigned /\ f.notice = g.notice /\ f.reset = g.reset
        /\ f.gate = Active /\ ~f.recFloor /\ ~f.resetFloor
    BY <1>10, <2>2 DEF Consumer
  <2> QED
    BY <1>10, <2>3, <2>4 DEF f
<1>11. ASSUME NEW g \in Consumer
       PROVE  /\ Flags(Paused(g, pauseOk), g) /\ Paused(g, pauseOk).gate = g.gate
              /\ Paused(g, pauseOk).recFloor = g.recFloor
              /\ Paused(g, pauseOk).resetFloor = g.resetFloor
  <2> DEFINE f == Paused(g, pauseOk)
  <2>1. f = [g EXCEPT !.paused = @ \/ pauseOk, !.muted = @ \/ pauseOk]
    BY DEF Paused
  <2> HIDE DEF f
  <2>2. f \in Consumer
    BY <1>11, <2>1 DEF Consumer
  <2>3. /\ f.astray = g.astray /\ f.next = g.next
        /\ f.span = g.span /\ f.fr = g.fr /\ f.pos = g.pos /\ f.epoch = g.epoch
        /\ f.assigned = g.assigned /\ f.notice = g.notice /\ f.reset = g.reset
        /\ f.gate = g.gate /\ f.recFloor = g.recFloor /\ f.resetFloor = g.resetFloor
    BY <1>11, <2>1 DEF Consumer
  <2> QED
    BY <1>11, <2>2, <2>3 DEF f
\* e is q with its history.
<1>12. ASSUME q \in Consumer
       PROVE  /\ e.astray = (q.astray \/ b) /\ e.next = q.next /\ e.span = q.span /\ e.fr = q.fr
              /\ e.gate = q.gate /\ e.pos = q.pos /\ e.assigned = q.assigned
              /\ e.notice = q.notice /\ e.reset = q.reset /\ e.recFloor = q.recFloor
              /\ e.resetFloor = q.resetFloor /\ e.epoch = (IF m THEN 0 ELSE q.epoch)
  <2> HIDE DEF q, b, m
  <2> QED
    BY <1>5, <1>12 DEF Consumer
<1> HIDE DEF a, w, t, s, q, b, m, e, rebase
<1>13. CASE out = "nocommit"
  <2>1. q = Paused(c, pauseOk) /\ ~m
    BY <1>6, <1>7, <1>13
  <2> HIDE DEF q
  <2>2. Wary(e, c) /\ e.astray = (c.astray \/ b) /\ e.fr = c.fr
    BY <1>0, <1>11, <1>12, <2>1 DEF Wary
  <2> QED
    BY <1>8, <1>13, <2>2 DEF Attempted, a, t, b
<1>14. CASE out = "nowatermark"
  <2>1. q = Paused(a, pauseOk) /\ ~m
    BY <1>6, <1>7, <1>14
  <2>2. Wary(e, a) /\ e.astray = (c.astray \/ b) /\ e.fr = c.fr
    BY <1>1, <1>2, <1>11, <1>12, <2>1 DEF Wary
  <2> QED
    BY <1>8, <1>14, <2>2 DEF Attempted, a, t, b
<1>15. CASE out = "noseekfetch" \/ (out = "noseek" /\ ~may_noop_failed_seek(w, com, t))
  <2>1. q = Paused(w, pauseOk) /\ ~m
    BY <1>6, <1>7, <1>15
  <2>2. Wary(e, a) /\ e.astray = (c.astray \/ b) /\ e.fr = c.fr
    BY <1>1, <1>2, <1>4, <1>11, <1>12, <2>1 DEF Wary
  <2> QED
    BY <1>8, <1>15, <2>2 DEF Attempted, a, t, b
<1>16. CASE out = "noseek" /\ may_noop_failed_seek(w, com, t)
  <2>1. q = Activated(w) /\ (m <=> c.pos # t)
    BY <1>6, <1>7, <1>16
  <2>2. e.astray = (c.astray \/ b) /\ e.fr = c.fr /\ Nooped(t, a, e)
    BY <1>1, <1>2, <1>4, <1>10, <1>12, <2>1 DEF Wary, Nooped
  <2> QED
    BY <1>8, <1>16, <2>1, <2>2 DEF Attempted, a, t, b, m
<1>17. CASE out = "noresume"
  <2>1. q = s /\ ~m
    BY <1>6, <1>7, <1>17
  <2>2. Landed(l, t, a, e) /\ e.astray = (c.astray \/ b) /\ e.fr = c.fr
    BY <1>1, <1>9, <1>12, <2>1 DEF Landed
  <2> QED
    BY <1>8, <1>17, <2>2 DEF Attempted, a, t, b
<1>18. CASE out = "ok"
  <2>1. q = Activated(s) /\ ~m
    BY <1>6, <1>7, <1>18
  <2>2. Landed(l, t, a, e) /\ e.astray = (c.astray \/ b) /\ e.fr = c.fr
    BY <1>1, <1>9, <1>10, <1>12, <2>1 DEF Landed
  <2> QED
    BY <1>8, <1>18, <2>2 DEF Attempted, a, t, b
<1> QED
  BY <1>13, <1>14, <1>15, <1>16, <1>17, <1>18 DEF Outcome

\* A seek lands at an offset that is clear, without the buffer where it is not
\* the target asked for.
LEMMA SeekClear ==
    ASSUME NEW p, NEW l, l = log[p], LogOK(l), NEW H, NEW rec, NEW coms, NEW S, NEW K, S \subseteq K,
           NEW a \in Consumer, a.gate.kind = "seek", Steady(p, l, H, rec, a, coms, S, K),
           Loads(p, l, a.fr, S)
    PROVE  LET t == SeekTo(p, a)
           IN  /\ t \in l.low .. Len(l.recs)
               /\ Clear(p, l, H, a.epoch, t, K)
               /\ a.recFloor \/ Floored(a) \/ a.gate.at # t => Clear(p, l, H, a.epoch, t, S)
<1> DEFINE t == SeekTo(p, a)
           e == a.epoch
           at == a.gate.at
           low == l.low
           high == Len(l.recs)
           v == advance_contiguous(low, a.fr.loaded)
<1>1. /\ a.recFloor \in BOOLEAN /\ a.resetFloor \in BOOLEAN /\ at \in Int /\ a.fr \in Entry
  BY DEF Consumer, Gate
<1>2. low \in Nat /\ high \in Nat /\ low <= high /\ high <= EndOf(l, e) /\ EndOf(l, e) \in Nat
      /\ EndOf(l, e) <= MaxRecords
  BY LogBounds, EndBounds
<1>3. t = resolve_seek_target(a.recFloor, a.fr, Floored(a), at, low, high)
  BY DEF SeekTo, High
<1>4. Clear(p, l, H, e, low, S) /\ Clear(p, l, H, e, low, K)
  BY <1>2, ClearLow
<1>5. CASE a.recFloor
  <2>1. a.fr.loaded \subseteq Int /\ \A o \in a.fr.loaded : o <= MaxRecords
    BY <1>1, Constants DEF Entry
  <2>2. v \in Int /\ low <= v /\ \A o \in low .. (v - 1) : o \in a.fr.loaded
    BY <1>2, <2>1, Advance, Constants
  <2>3. t = clamp_resume_target(v, low, high)
    BY <1>3, <1>5 DEF resolve_seek_target, recreated_resume_target
  <2> HIDE DEF v, t, e, low, high
  <2>4. t \in low .. high /\ t \in {v, low}
    BY <1>2, <2>2, <2>3, Clamp
  <2>5. t = v => Clear(p, l, H, e, t, S)
    <3> SUFFICES ASSUME t = v PROVE Clear(p, l, H, e, v, S)
      OBVIOUS
    <3>1. v <= EndOf(l, e)
      BY <1>2, <2>2, <2>4
    <3>2. low \in Int
      BY <1>2
    <3> QED
      BY <1>1, <1>4, <2>2, <3>1, <3>2, ClearAdvance
  <2>6. Clear(p, l, H, e, t, S)
    BY <1>4, <2>4, <2>5
  <2>7. Clear(p, l, H, e, t, K)
    BY <2>6, ClearWeaken
  <2> QED
    BY <2>4, <2>6, <2>7 DEF t, e, low, high
<1>6. CASE ~a.recFloor /\ Floored(a)
  <2>1. t = low
    BY <1>3, <1>6 DEF resolve_seek_target
  <2>2. t \in low .. high
    BY <1>2, <2>1
  <2> QED
    BY <1>4, <2>1, <2>2
<1>7. CASE ~a.recFloor /\ ~Floored(a)
  <2>1. t = clamp_resume_target(at, low, high)
    BY <1>3, <1>7 DEF resolve_seek_target
  <2>2. Clear(p, l, H, e, at, K) \/ at = Passthrough
    BY <1>7 DEF Steady, GateFirm, Floored
  <2> HIDE DEF t, e, low, high, at
  <2>3. t \in low .. high /\ t \in {at, low}
    BY <1>1, <1>2, <2>1, Clamp
  <2>4. t # Passthrough
    BY <1>2, <2>3, Constants
  <2>5. Clear(p, l, H, e, t, K)
    BY <1>4, <2>2, <2>3, <2>4
  <2>6. at # t => Clear(p, l, H, e, t, S)
    BY <1>4, <2>3
  <2> QED
    BY <1>7, <2>3, <2>5, <2>6 DEF t, e, low, high, at
<1> QED
  BY <1>1, <1>5, <1>6, <1>7

\* After a seek that landed.
LEMMA LandedFirm ==
    ASSUME NEW p, NEW l, LogOK(l), NEW H, NEW rec, NEW com, NEW snt, NEW S, NEW K, S \subseteq K,
           NEW a \in Consumer, a.gate.kind = "seek", Aware(l, rec, a),
           NEW t \in l.low .. Len(l.recs), NEW e, Landed(l, t, a, e), NEW new,
           new = snt \/ (a.recFloor /\ new = t)
    PROVE  /\ Aware(l, rec, e)
           /\ /\ Steady(p, l, H, rec, a, {com, snt}, S, K)
              /\ Clear(p, l, H, a.epoch, t, K)
              /\ a.recFloor \/ Floored(a) \/ a.gate.at # t => Clear(p, l, H, a.epoch, t, S)
              => Steady(p, l, H, rec, e, {com, new}, S, K)
<1>1. /\ l.low \in Nat /\ Len(l.recs) \in Nat /\ l.epoch \in Nat /\ t \in Nat /\ NoOffset = -1
  BY LogBounds, Constants
<1>2. t # NoOffset /\ a.epoch <= l.epoch /\ l.epoch <= l.epoch
  BY <1>1 DEF Aware
<1>3. e.next # NoOffset \/ (e.next = a.next /\ e.epoch = a.epoch)
  BY <1>2 DEF Landed
<1>4. NeedsSeek(t) # Active /\ NeedsSeek(t).kind = "seek" /\ NeedsSeek(t).at = t
      /\ Active.kind = "active" /\ a.gate # Active
  BY DEF NeedsSeek, Active
<1>5. e.epoch = l.epoch => rec \/ e.next # NoOffset
  BY <1>3 DEF Aware
<1>6. e.epoch <= l.epoch
  BY <1>2 DEF Landed
<1>7. Judged(rec, e)
  BY <1>4 DEF Landed, Aware, Judged
<1>8. Aware(l, rec, e)
  <2>1. Started(e.span)
    BY DEF Aware, Landed, Started
  <2> QED
    BY <1>5, <1>6, <1>7, <2>1 DEF Aware, Landed
<1>9. ASSUME Steady(p, l, H, rec, a, {com, snt}, S, K), Clear(p, l, H, a.epoch, t, K),
             a.recFloor \/ Floored(a) \/ a.gate.at # t => Clear(p, l, H, a.epoch, t, S)
      PROVE  Steady(p, l, H, rec, e, {com, new}, S, K)
  <2>1. CASE t = l.low /\ e.next = t /\ e.span = NoSpan /\ e.epoch = l.epoch /\ e.reset
    <3>1. Clear(p, l, H, e.epoch, t, S) /\ Clear(p, l, H, e.epoch, t, K)
      BY <1>1, <2>1, ClearLow
    <3>2. Clear(p, l, H, e.epoch, e.span.next, K)
      BY <2>1, ClearNone DEF NoSpan
    <3>3. FloorFirm(p, l, H, e, S)
      BY <1>2, <2>1 DEF FloorFirm
    <3>4. GateFirm(p, l, H, e, K)
      BY <1>4, <3>1 DEF GateFirm, Landed
    <3>5. ~Trusting(rec, e)
      BY <1>2, <2>1 DEF Trusting, Untrusted
    <3> QED
      BY <2>1, <3>1, <3>2, <3>3, <3>4, <3>5 DEF Steady, Landed
  <2>2. CASE /\ e.epoch = a.epoch /\ e.reset = a.reset
             /\ \/ e.next = a.next /\ e.span = a.span
                \/ e.next = t /\ e.span = NoSpan /\ (Floored(a) \/ a.gate.at # t)
    <3>1. Clear(p, l, H, e.epoch, e.next, S)
      BY <1>9, <2>2 DEF Steady
    <3>2. Clear(p, l, H, e.epoch, e.span.next, K)
      BY <1>9, <2>2, ClearNone DEF NoSpan, Steady
    <3>3. e.next = NoOffset => a.next = NoOffset
      BY <1>2, <2>2
    <3>4. FloorFirm(p, l, H, e, S)
      BY <1>9, <2>2, <3>3 DEF FloorFirm, Landed, Steady
    <3>5. GateFirm(p, l, H, e, K)
      BY <1>4, <1>9, <2>2 DEF GateFirm, Landed
    <3>6. Trusting(rec, e) => Trusting(rec, a)
      BY <2>2, <3>3 DEF Trusting, Untrusted, Landed
    <3>7. \A x : CommitFirm(p, l, H, a, x, S) <=> CommitFirm(p, l, H, e, x, S)
      BY <2>2 DEF CommitFirm, Landed
    <3>8. a.recFloor => CommitFirm(p, l, H, a, t, S)
      BY <1>9 DEF CommitFirm
    <3>9. Trusting(rec, e) => \A x \in {com, new} : CommitFirm(p, l, H, e, x, S)
      BY <1>9, <3>6, <3>7, <3>8 DEF Steady
    <3>10. Clear(p, l, H, e.epoch, e.pos, K)
      BY <1>9, <2>2 DEF Landed
    <3> QED
      BY <3>1, <3>2, <3>4, <3>5, <3>9, <3>10 DEF Steady
  <2> QED
    BY <2>1, <2>2 DEF Landed
<1> QED
  BY <1>8, <1>9

\* After a failed seek that was taken for a no-op.
LEMMA NoopedFirm ==
    ASSUME NEW p, NEW l, LogOK(l), l.epoch >= 1, NEW H, NEW rec, NEW coms, coms \subseteq Int,
           NEW S, NEW K,
           NEW a \in Consumer, a.gate.kind = "seek", Aware(l, rec, a),
           NEW t \in l.low .. Len(l.recs), NEW e, Nooped(t, a, e), a.pos <= TopOf(l)
    PROVE  /\ Aware(l, rec, e)
           /\ /\ Steady(p, l, H, rec, a, coms, S, K)
              /\ Clear(p, l, H, a.epoch, t, K)
              /\ a.pos # t => \A o \in l.low .. (Len(l.recs) - 1) :
                                 t <= o /\ o < a.pos => <<p, l.recs[o + 1]>> \in K
              => Steady(p, l, H, rec, e, coms, S, K)
<1>1. /\ l.low \in Nat /\ Len(l.recs) \in Nat /\ l.epoch \in Nat /\ t \in Nat /\ TopOf(l) \in Nat
  BY LogBounds
<1>2. /\ a.next \in Int /\ a.span.next \in Int /\ a.pos \in Nat /\ a.fr.minStart \in Int
      /\ a.epoch \in Nat
  BY Constants DEF Consumer, Span, Entry
<1>3. a.gate # Active /\ Active.kind = "active"
  BY DEF Active
<1>4. e.epoch = a.epoch \/ (e.epoch = 0 /\ 0 # l.epoch)
  BY <1>1 DEF Nooped
<1>5. Aware(l, rec, e)
  <2>1. Judged(rec, e)
    BY <1>3 DEF Judged, Aware, Nooped
  <2>2. e.epoch <= l.epoch /\ (e.epoch = l.epoch => rec \/ e.next # NoOffset)
    BY <1>1, <1>4 DEF Aware, Nooped
  <2> QED
    BY <2>1, <2>2 DEF Aware, Nooped
<1>6. ASSUME Steady(p, l, H, rec, a, coms, S, K), Clear(p, l, H, a.epoch, t, K),
             a.pos # t => \A o \in l.low .. (Len(l.recs) - 1) :
                             t <= o /\ o < a.pos => <<p, l.recs[o + 1]>> \in K
      PROVE  Steady(p, l, H, rec, e, coms, S, K)
  <2>1. \A x \in Int : \A T : Clear(p, l, H, a.epoch, x, T) => Clear(p, l, H, e.epoch, x, T)
    BY <1>4, ClearUnknown
  <2>2. Clear(p, l, H, e.epoch, e.next, S) /\ Clear(p, l, H, e.epoch, e.span.next, K)
    BY <1>2, <1>6, <2>1 DEF Steady, Nooped
  <2>3. FloorFirm(p, l, H, e, S)
    BY <1>2, <1>6, <2>1 DEF FloorFirm, Steady, Nooped
  <2>4. GateFirm(p, l, H, e, K)
    BY <1>3 DEF GateFirm, Nooped
  <2>5. Trusting(rec, e) => Trusting(rec, a)
    BY DEF Trusting, Untrusted, Nooped
  <2>6. \A x \in coms : CommitFirm(p, l, H, a, x, S) => CommitFirm(p, l, H, e, x, S)
    BY <2>1 DEF CommitFirm, Nooped
  <2>7. Clear(p, l, H, e.epoch, e.pos, K)
    <3>1. CASE a.pos = t
      BY <1>6, <3>1 DEF Nooped
    <3>2. CASE a.pos # t
      <4>1. e.pos = a.pos /\ e.epoch = 0 /\ EndOf(l, 0) = TopOf(l)
        BY <1>1, <3>2 DEF Nooped, EndOf
      <4>2. Clear(p, l, H, 0, t, K)
        BY <1>1, <1>6, <2>1, <4>1
      <4>3. ASSUME NEW o \in l.low .. (Len(l.recs) - 1), o < a.pos
            PROVE  <<p, l.recs[o + 1]>> \in K \cup Unseen(l, H, 0)
        <5>1. CASE o < t
          BY <4>2, <5>1 DEF Clear
        <5>2. CASE ~(o < t)
          BY <1>1, <1>6, <3>2, <4>3, <5>2
        <5> QED
          BY <5>1, <5>2
      <4> QED
        BY <4>1, <4>3 DEF Clear
    <3> QED
      BY <3>1, <3>2
  <2> QED
    BY <1>6, <2>2, <2>3, <2>4, <2>5, <2>6, <2>7 DEF Steady
<1> QED
  BY <1>5, <1>6

\* The commit that is outstanding after an attempt.
Resent(p, c, com, snt, out) ==
    IF out \in {"ok", "noresume"} /\ WithTarget(c, NoOffset).recFloor
    THEN SeekTo(p, WithTarget(c, com)) ELSE snt

\* An attempt leaves a firm partition firm, and the commit of its seek too.
LEMMA AttemptFirm ==
    ASSUME NEW p, NEW l, l = log[p], LogOK(l), l.epoch >= 1, NEW H, NEW rec, NEW c,
           NEW S0, NEW K0, S0 \subseteq K0, Good(p, l, rec, c, S0, K0), Pending(c),
           NEW com, com = committed[p], com \in Offset, UpTo(p, l, com, S0), NEW snt \in Offset,
           NEW S, NEW K, S \subseteq K, Firm(p, l, H, rec, c, {com, snt}, S, K),
           Loads(p, l, c.fr, S), NEW out \in Outcome, NEW pauseOk \in BOOLEAN,
           JumpKept(p, l, c, out, K)
    PROVE  Firm(p, l, H, rec, After(p, c, out, pauseOk), {com, Resent(p, c, com, snt, out)}, S, K)
<1> DEFINE a == WithTarget(c, com)
           new == Resent(p, c, com, snt, out)
           t == SeekTo(p, a)
           e == After(p, c, out, pauseOk)
<1>1. Aware(l, rec, c) /\ (~c.astray => Steady(p, l, H, rec, c, {com, snt}, S, K))
      /\ (c.resetFloor => c.reset)
  BY DEF Firm, Aware
<1>2. /\ Good(p, l, rec, a, S0, K0) /\ a.gate.kind = "seek"
      /\ a.next = c.next /\ a.span = c.span /\ a.fr = c.fr /\ a.pos = c.pos
      /\ a.assigned = c.assigned /\ a.notice = c.notice
      /\ a.recFloor = WithTarget(c, NoOffset).recFloor
  BY WithTargetGood
<1>3. c \in Consumer /\ c.gate.kind \in {"target", "seek", "restore"} /\ c.gate.at \in Int
  <2>1. c \in Consumer /\ GateOK(p, l, c.gate, K0)
    BY DEF Good, ConsOK
  <2>2. c.gate \in Gate
    BY <2>1 DEF Consumer
  <2> QED
    BY <2>1, <2>2 DEF Gate, GateOK, Pending
<1>4. /\ a \in Consumer /\ a.epoch = c.epoch /\ a.reset = c.reset
      /\ a.resetFloor => a.reset
  BY <1>1, <1>2, <1>3, WithTargetFields DEF Good
<1>5. e.astray = (c.astray \/ Overtaken(p, c)) /\ e.fr = c.fr
      /\ \/ Wary(e, c) /\ out = "nocommit"
         \/ Wary(e, a) /\ out \in {"nowatermark", "noseek", "noseekfetch"}
         \/ Landed(l, t, a, e) /\ out \in {"ok", "noresume"}
         \/ Nooped(t, a, e) /\ out = "noseek" /\ (c.pos # t => Misplaced(p, c, out))
  <2>1. Attempted(p, l, c, WithTarget(c, com), out, After(p, c, out, pauseOk))
    BY <1>1, AttemptShape
  <2> QED
    BY <2>1 DEF Attempted
<1>6. a.pos <= TopOf(l) /\ a.gate # Active
  BY <1>2 DEF Good, ConsOK, Pending, Active
<1>7. new = snt \/ (a.recFloor /\ new = t /\ out \in {"ok", "noresume"})
  BY <1>2 DEF Resent
<1>8. t \in l.low .. Len(l.recs)
  <2> HIDE DEF a
  <2> QED
    BY <1>2, SeekSafe
<1>9. c.pos # t /\ Misplaced(p, c, out) =>
         \A o \in l.low .. (Len(l.recs) - 1) : t <= o /\ o < c.pos => <<p, l.recs[o + 1]>> \in K
  BY DEF JumpKept
<1> HIDE DEF a, t, e, new
<1>10. Aware(l, rec, a)
  BY <1>1, <1>2, <1>4 DEF Aware, Judged, Pending
<1>11. {com, snt} \subseteq Int
  BY Constants
<1>12. Aware(l, rec, e)
  BY <1>1, <1>2, <1>4, <1>5, <1>6, <1>7, <1>8, <1>10, <1>11, AwareWary, LandedFirm, NoopedFirm
<1>13. ASSUME ~e.astray
       PROVE  Steady(p, l, H, rec, e, {com, new}, S, K)
  <2>1. ~c.astray /\ ~Overtaken(p, c) /\ Steady(p, l, H, rec, c, {com, snt}, S, K)
    BY <1>1, <1>5, <1>13
  <2>2. c.gate.kind = "restore" /\ ~Untrusted(c) => com <= c.gate.at
    BY <1>3, <1>11, <2>1 DEF Overtaken
  <2>3. Steady(p, l, H, rec, a, {com, snt}, S, K)
    BY <1>1, <2>1, <2>2, WithTargetSteady DEF a
  <2>4. /\ Clear(p, l, H, a.epoch, t, K)
        /\ a.recFloor \/ Floored(a) \/ a.gate.at # t => Clear(p, l, H, a.epoch, t, S)
    BY <1>2, <1>4, <2>3, SeekClear DEF t
  <2>5. CASE Wary(e, c) /\ out = "nocommit"
    <3>1. new = snt
      BY <1>7, <2>5
    <3> QED
      BY <2>1, <2>5, <3>1, SteadyWary
  <2>6. CASE Wary(e, a) /\ out \in {"nowatermark", "noseek", "noseekfetch"}
    <3>1. new = snt
      BY <1>7, <2>6
    <3> QED
      BY <2>3, <2>6, <3>1, SteadyWary
  <2>7. CASE Landed(l, t, a, e)
    BY <1>2, <1>4, <1>7, <1>8, <1>10, <2>3, <2>4, <2>7, LandedFirm
  <2>8. CASE Nooped(t, a, e) /\ out = "noseek" /\ (c.pos # t => Misplaced(p, c, out))
    <3>1. new = snt
      BY <1>7, <2>8
    <3>2. a.pos # t => \A o \in l.low .. (Len(l.recs) - 1) :
                          t <= o /\ o < a.pos => <<p, l.recs[o + 1]>> \in K
      BY <1>2, <1>9, <2>8
    <3> QED
      BY <1>2, <1>4, <1>6, <1>8, <1>10, <1>11, <2>3, <2>4, <2>8, <3>1, <3>2, NoopedFirm
  <2> QED
    BY <1>5, <2>5, <2>6, <2>7, <2>8
<1> QED
  BY <1>12, <1>13 DEF Firm, e, new

\* A position that may be taken for the target has behind it what is in K.
Keeps(p, c, K) == \A r \in Accounted : r[1] = p /\ Pending(c) /\ ~c.tainted => r \in K

\* One pass over the gated partitions, seen from partition p.
LEMMA PassFirm ==
    ASSUME BrokerTyped, NEW cs, NEW S0, NEW K0, NEW rec, PassPre(cs, rec, S0, K0),
           NEW cost, NEW lost, TryActivatePendingAfter(cost, lost, cs),
           NEW p \in Partition, log[p].epoch >= 1, NEW H, NEW S, NEW K, S \subseteq K,
           Firm(p, log[p], H, rec, cs[p], {committed[p], sent[p]}, S, K),
           Loads(p, log[p], cs[p].fr, S), gap' \subseteq K, Keeps(p, cs[p], K)
    PROVE  /\ Firm(p, log[p], H, rec, cons'[p], {committed[p], sent'[p]}, S, K)
           /\ cons'[p].fr = cs[p].fr
<1> DEFINE pending == {q \in Partition : Pending(cs[q])}
           c == cs[p]
           l == log[p]
           com == committed[p]
           snt == sent[p]
<1>0. /\ S0 \subseteq K0 /\ Good(p, l, rec, c, S0, K0) /\ UpTo(p, l, com, S0)
      /\ LogOK(l) /\ com \in Offset /\ snt \in Offset
  BY DEF PassPre, BrokerTyped
<1>1. PICK out \in [pending -> Outcome], pauseOk \in BOOLEAN :
         LET misplaced == {q \in pending : Misplaced(q, cs[q], out[q])}
         IN  /\ cons' = [q \in Partition |->
                           IF q \in pending
                           THEN [Attempt(q, cs[q], out[q], pauseOk) EXCEPT
                                   !.astray = @ \/ Overtaken(q, cs[q]),
                                   !.epoch = IF Misplaced(q, cs[q], out[q]) THEN 0 ELSE @]
                           ELSE cs[q]]
             /\ sent' = [q \in Partition |->
                           IF q \in pending /\ out[q] \in {"ok", "noresume"}
                              /\ WithTarget(cs[q], NoOffset).recFloor
                           THEN SeekTo(q, WithTarget(cs[q], committed[q]))
                           ELSE sent[q]]
             /\ gap' = gap \cup lost \cup UNION {Jumped(q, cs[q]) : q \in misplaced}
  BY DEF TryActivatePendingAfter
<1>2. CASE p \notin pending
  <2>1. cons'[p] = cs[p] /\ sent'[p] = sent[p]
    BY <1>1, <1>2
  <2> QED
    BY <2>1
<1>3. CASE p \in pending
  <2> DEFINE u == out[p]
             e == After(p, c, u, pauseOk)
  <2>1. Pending(c) /\ u \in Outcome
    BY <1>3
  <2>2. cons'[p] = After(p, c, u, pauseOk) /\ sent'[p] = Resent(p, c, com, snt, u)
    BY <1>1, <1>3 DEF After, Resent
  <2>3. JumpKept(p, l, c, u, K)
    <3>1. Misplaced(p, cs[p], out[p]) => Jumped(p, cs[p]) \subseteq K
      <4>1. Misplaced(p, cs[p], out[p]) => Jumped(p, cs[p]) \subseteq gap'
        BY <1>1, <1>3
      <4> QED
        BY <4>1
    <3>2. \A r \in Accounted : r[1] = p /\ ~cs[p].tainted => r \in K
      BY <2>1 DEF Keeps
    <3> QED
      BY <1>0, <2>1, <3>1, <3>2, JumpsKept
  <2>5. l = log[p] /\ com = committed[p] /\ l.epoch >= 1
        /\ Firm(p, l, H, rec, c, {com, snt}, S, K) /\ Loads(p, l, c.fr, S)
    OBVIOUS
  <2> HIDE DEF u, c, l, com, snt
  <2>6. Firm(p, l, H, rec, e, {com, Resent(p, c, com, snt, u)}, S, K)
    BY <1>0, <2>1, <2>3, <2>5, AttemptFirm
  <2>7. Attempted(p, l, c, WithTarget(c, com), u, e)
    <3>1. c.resetFloor => c.reset
      BY <2>5 DEF Firm, Aware
    <3> QED
      BY <1>0, <2>1, <2>5, <3>1, AttemptShape
  <2>8. e.fr = c.fr
    BY <2>7 DEF Attempted
  <2> QED
    BY <2>2, <2>6, <2>8 DEF c, l, com
<1> QED
  BY <1>2, <1>3

------------------------------------------------------------------------------
(* The log moves.                                                          *)

\* Log m follows log l: what is retained is what was, at its offset, or the
\* record that was just produced, which is in I if its offset was used before.
Follows(p, l, m, I) ==
    /\ l.born <= m.born /\ l.epoch <= m.epoch /\ TopOf(l) <= TopOf(m)
    /\ m.epoch = l.epoch => Len(l.recs) <= Len(m.recs)
    /\ \A o \in m.low .. (Len(m.recs) - 1) :
          \/ o \in l.low .. (Len(l.recs) - 1) /\ m.recs[o + 1] = l.recs[o + 1]
          \/ /\ o = Len(l.recs) /\ m.recs[o + 1] > l.born /\ m.epoch = l.epoch
             /\ o < l.cut => <<p, m.recs[o + 1]>> \in I

LEMMA FollowsItself ==
    ASSUME NEW p, NEW l, LogOK(l), NEW I
    PROVE  Follows(p, l, l, I)
<1>1. l.born \in Int
  BY Constants DEF LogOK, Log
<1> QED
  BY <1>1, LogBounds DEF Follows

\* What was clear stays clear when the log moves.
LEMMA FollowsCarries ==
    ASSUME NEW p, NEW l, LogOK(l), NEW m, LogOK(m), NEW H, NEW I, H \subseteq I, Follows(p, l, m, I),
           NEW e \in Nat, e <= l.epoch, NEW S, NEW T,
           \A o \in m.low .. (Len(m.recs) - 1) :
               o \in l.low .. (Len(l.recs) - 1) /\ m.recs[o + 1] = l.recs[o + 1]
                   /\ <<p, l.recs[o + 1]>> \in S => <<p, l.recs[o + 1]>> \in T
    PROVE  Carries(p, l, m, H, I, e, S, T)
<1> SUFFICES ASSUME NEW x \in Int, Clear(p, l, H, e, x, S) PROVE Clear(p, m, I, e, x, T)
  BY DEF Carries
<1>1. /\ l.low \in Nat /\ Len(l.recs) \in Nat /\ TopOf(l) \in Nat /\ l.epoch \in Nat
      /\ m.low \in Nat /\ Len(m.recs) \in Nat /\ TopOf(m) \in Nat /\ m.epoch \in Nat
      /\ Len(l.recs) <= TopOf(l) /\ Len(m.recs) <= TopOf(m)
      /\ l.epoch <= m.epoch /\ TopOf(l) <= TopOf(m) /\ l.cut \in Nat
      /\ m.epoch = l.epoch => Len(l.recs) <= Len(m.recs)
  BY LogBounds DEF Follows, LogOK, Log
<1>2. e = m.epoch => e = l.epoch
  BY <1>1
<1>3. EndOf(l, e) <= EndOf(m, e) /\ EndOf(l, e) \in Nat /\ EndOf(m, e) \in Nat
  BY <1>1, <1>2 DEF EndOf
<1>4. Unseen(l, H, e) \subseteq Unseen(m, I, e)
  BY <1>2 DEF Unseen
<1>5. ASSUME NEW o \in m.low .. (Len(m.recs) - 1), o < x
      PROVE  <<p, m.recs[o + 1]>> \in T \cup Unseen(m, I, e)
  <2>1. CASE o \in l.low .. (Len(l.recs) - 1) /\ m.recs[o + 1] = l.recs[o + 1]
    <3>1. <<p, l.recs[o + 1]>> \in S \cup Unseen(l, H, e)
      BY <1>5, <2>1 DEF Clear
    <3> QED
      BY <1>4, <1>5, <2>1, <3>1
  <2>2. CASE /\ o = Len(l.recs) /\ m.epoch = l.epoch
             /\ o < l.cut => <<p, m.recs[o + 1]>> \in I
    <3>1. x <= EndOf(l, e)
      BY DEF Clear
    <3>2. e # l.epoch
      BY <1>1, <1>5, <2>2, <3>1 DEF EndOf
    <3>3. o < l.cut
      BY <1>1, <1>5, <2>2, <3>1, <3>2 DEF EndOf, TopOf
    <3> QED
      BY <2>2, <3>2, <3>3 DEF Unseen
  <2> QED
    BY <1>5, <2>1, <2>2 DEF Follows
<1>6. x <= EndOf(m, e)
  <2>1. x <= EndOf(l, e)
    BY DEF Clear
  <2> QED
    BY <1>3, <2>1
<1> QED
  BY <1>5, <1>6 DEF Clear

LEMMA ProducedFollows ==
    ASSUME NEW p, NEW l, LogOK(l), Numbered(l), l.born < MaxRecords, NEW m,
           m = [l EXCEPT !.born = @ + 1, !.recs = Append(@, l.born + 1)],
           NEW I, Len(l.recs) < l.cut => <<p, l.born + 1>> \in I
    PROVE  Numbered(m) /\ m.epoch = l.epoch /\ Follows(p, l, m, I)
<1>1. /\ l.low \in Nat /\ l.recs \in Seq(1 .. MaxRecords) /\ l.born \in 0 .. MaxRecords
      /\ l.epoch \in Nat /\ l.cut \in Nat /\ Len(l.recs) \in Nat /\ l.born \in Nat
      /\ l.low <= Len(l.recs)
  BY DEF LogOK, Log
<1>2. /\ m.low = l.low /\ m.recs = Append(l.recs, l.born + 1) /\ m.born = l.born + 1
      /\ m.epoch = l.epoch /\ m.cut = l.cut
  BY DEF LogOK, Log
<1>3. TopOf(l) <= TopOf(m) /\ LogOK(m)
  BY ProducedLog
<1>4. /\ Len(m.recs) = Len(l.recs) + 1 /\ m.recs[Len(l.recs) + 1] = l.born + 1
      /\ DOMAIN l.recs = 1 .. Len(l.recs) /\ DOMAIN m.recs = 1 .. (Len(l.recs) + 1)
      /\ \A k \in 1 .. Len(l.recs) : m.recs[k] = l.recs[k] /\ l.recs[k] \in Nat
  <2> DEFINE r == l.recs
             v == l.born + 1
  <2>1. r \in Seq(1 .. MaxRecords) /\ v \in 1 .. MaxRecords
    BY <1>1, Constants
  <2> HIDE DEF r, v
  <2>2. /\ Append(r, v) \in Seq(1 .. MaxRecords) /\ Len(Append(r, v)) = Len(r) + 1
        /\ Append(r, v)[Len(r) + 1] = v
        /\ \A k \in 1 .. Len(r) : Append(r, v)[k] = r[k]
    BY <2>1, AppendProperties
  <2>3. \A k \in 1 .. Len(r) : r[k] \in 1 .. MaxRecords
    BY <2>1, ElementOfSeq
  <2>4. DOMAIN r = 1 .. Len(r) /\ DOMAIN Append(r, v) = 1 .. (Len(r) + 1)
    BY <2>1, <2>2, LenProperties
  <2> QED
    BY <1>2, <2>2, <2>3, <2>4 DEF r, v
<1>5. Numbered(m)
  <2>1. \A k \in 1 .. Len(l.recs) : m.recs[k] <= l.born /\ m.recs[k] \in Nat
    BY <1>4 DEF Numbered
  <2>2. \A j \in DOMAIN m.recs : m.recs[j] <= m.born
    BY <1>1, <1>2, <1>4, <2>1
  <2>3. \A j, k \in DOMAIN m.recs : m.recs[j] = m.recs[k] => j = k
    <3> SUFFICES ASSUME NEW j \in DOMAIN m.recs, NEW k \in DOMAIN m.recs, m.recs[j] = m.recs[k]
                 PROVE  j = k
      OBVIOUS
    <3>1. CASE j \in 1 .. Len(l.recs) /\ k \in 1 .. Len(l.recs)
      BY <1>4, <3>1 DEF Numbered
    <3>2. CASE j = Len(l.recs) + 1
      BY <1>1, <1>4, <2>1, <3>2
    <3>3. CASE k = Len(l.recs) + 1
      BY <1>1, <1>4, <2>1, <3>3
    <3>4. \A n \in Nat : \A i \in 1 .. (n + 1) : i \in 1 .. n \/ i = n + 1
      OBVIOUS
    <3>5. \A i \in DOMAIN m.recs : i \in 1 .. Len(l.recs) \/ i = Len(l.recs) + 1
      BY <1>1, <1>4, <3>4
    <3> QED
      BY <3>1, <3>2, <3>3, <3>5
  <2> QED
    BY <2>2, <2>3 DEF Numbered
<1>6. ASSUME NEW o \in m.low .. (Len(m.recs) - 1)
      PROVE  \/ o \in l.low .. (Len(l.recs) - 1) /\ m.recs[o + 1] = l.recs[o + 1]
             \/ /\ o = Len(l.recs) /\ m.recs[o + 1] > l.born /\ m.epoch = l.epoch
                /\ o < l.cut => <<p, m.recs[o + 1]>> \in I
  <2>1. CASE o < Len(l.recs)
    <3>1. o \in l.low .. (Len(l.recs) - 1) /\ o + 1 \in 1 .. Len(l.recs)
      BY <1>1, <1>2, <2>1
    <3> QED
      BY <1>4, <3>1
  <2>2. CASE ~(o < Len(l.recs))
    <3>1. o = Len(l.recs)
      BY <1>1, <1>2, <1>4, <2>2
    <3> QED
      BY <1>1, <1>2, <1>4, <3>1
  <2> QED
    BY <2>1, <2>2
<1> QED
  BY <1>1, <1>2, <1>3, <1>4, <1>5, <1>6 DEF Follows

\* Retention, truncation, recreation.
LEMMA ShrunkFollows ==
    ASSUME NEW p, NEW l, LogOK(l), Numbered(l), NEW m, LogOK(m), TopOf(l) <= TopOf(m),
           Len(m.recs) > m.low => l.low <= m.low,
           Len(m.recs) <= Len(l.recs), m.born = l.born,
           \A k \in 1 .. Len(m.recs) : m.recs[k] = l.recs[k],
           l.epoch <= m.epoch, m.epoch = l.epoch => Len(l.recs) <= Len(m.recs), NEW I
    PROVE  Numbered(m) /\ Follows(p, l, m, I)
<1>1. /\ l.low \in Nat /\ m.low \in Nat /\ Len(l.recs) \in Nat /\ Len(m.recs) \in Nat
      /\ l.born \in Nat /\ l.recs \in Seq(1 .. MaxRecords) /\ m.recs \in Seq(1 .. MaxRecords)
  BY DEF LogOK, Log
<1>2. DOMAIN l.recs = 1 .. Len(l.recs) /\ DOMAIN m.recs = 1 .. Len(m.recs)
  BY <1>1, LenProperties
<1>3. \A k \in DOMAIN m.recs : k \in DOMAIN l.recs /\ m.recs[k] = l.recs[k]
  BY <1>1, <1>2
<1>4. Numbered(m)
  BY <1>3 DEF Numbered
<1>5. ASSUME NEW o \in m.low .. (Len(m.recs) - 1)
      PROVE  o \in l.low .. (Len(l.recs) - 1) /\ m.recs[o + 1] = l.recs[o + 1]
  <2>1. o \in l.low .. (Len(l.recs) - 1) /\ o + 1 \in 1 .. Len(m.recs)
    BY <1>1
  <2> QED
    BY <2>1
<1>6. l.born <= m.born
  BY <1>1
<1> QED
  BY <1>4, <1>5, <1>6 DEF Follows

------------------------------------------------------------------------------
(* Numbers and rows.                                                       *)

LEMMA RetainedBorn ==
    ASSUME KafkaInv, NumberInv, NEW p \in Partition, NEW o \in log[p].low .. (Len(log[p].recs) - 1)
    PROVE  /\ o + 1 \in DOMAIN log[p].recs /\ log[p].recs[o + 1] \in Nat
           /\ log[p].recs[o + 1] <= log[p].born
<1>1. LogOK(log[p]) /\ Numbered(log[p])
  BY DEF KafkaInv, Typed, BrokerTyped, NumberInv
<1>2. log[p].recs \in Seq(1 .. MaxRecords) /\ log[p].low \in Nat /\ Len(log[p].recs) \in Nat
  BY <1>1 DEF LogOK, Log
<1>3. o + 1 \in 1 .. Len(log[p].recs)
  BY <1>2
<1> DEFINE r == log[p].recs
<1>4. r \in Seq(1 .. MaxRecords) /\ o + 1 \in 1 .. Len(r)
  BY <1>2, <1>3
<1> HIDE DEF r
<1>5. DOMAIN r = 1 .. Len(r) /\ r[o + 1] \in 1 .. MaxRecords
  BY <1>4, LenProperties, ElementOfSeq
<1> QED
  BY <1>1, <1>4, <1>5 DEF Numbered, r

LEMMA EverywhereTyped ==
    ASSUME KafkaInv, NEW r \in Everywhere
    PROVE  r \in Record /\ r[1] \in Partition /\ r[2] \in Nat
<1>1. ASSUME NEW i \in DOMAIN rows, r \in RowRecords(i) PROVE r \in Record
  <2>1. rows[i].recs \in Seq(Record)
    BY RowsDomain DEF Row
  <2> QED
    BY <1>1, <2>1 DEF RowRecords, ToSet
<1>2. r \in ToSet(buf) \cup ToSet(pub.batch) => r \in Record
  BY HandsTyped
<1>3. r \in Record
  BY <1>1, <1>2 DEF Everywhere, Durable
<1> QED
  BY <1>3 DEF Record

\* The rows do not change, and a record that appears somewhere is a retained one.
LEMMA RowsStay ==
    ASSUME KafkaInv, NumberInv, RowInv, UNCHANGED <<log, topic, rows>>, excused \subseteq excused',
           pub'.phase \in {"swap", "rollback"} => pub.phase \in {"swap", "rollback"},
           \A r \in ToSet(buf') \cup ToSet(pub'.batch) :
               \/ r \in Everywhere
               \/ \E p \in Partition : r \in RetainedRecords(p)
    PROVE  NumberInv' /\ RowInv'
<1>1. Durable' = Durable
  BY DEF Durable, RowRecords
<1>2. ASSUME NEW p \in Partition, NEW r \in RetainedRecords(p)
      PROVE  r[2] <= log[r[1]].born
  <2>1. PICK o \in Retained(p) : r = RecordAt(p, o)
    BY <1>2 DEF RetainedRecords
  <2>2. o \in log[p].low .. (Len(log[p].recs) - 1) /\ r = <<p, log[p].recs[o + 1]>>
    BY <2>1 DEF Retained, High, RecordAt
  <2> QED
    BY <2>2, RetainedBorn
<1>3. \A r \in Everywhere' : r[2] <= log[r[1]].born
  BY <1>1, <1>2 DEF Everywhere, NumberInv, Born
<1>4. NumberInv'
  BY <1>3 DEF NumberInv, Born
<1>5. \A i \in DOMAIN rows, p \in Partition : RowOK(p, log[p], rows[i], excused', topic)
  BY DEF RowInv, RowOK
<1> QED
  BY <1>4, <1>5 DEF RowInv

\* The log moves under the rows.
LEMMA LogMoves ==
    ASSUME KafkaInv, KafkaInv', NumberInv, RowInv, UNCHANGED <<rows, buf, pub, excused>>,
           \A p \in Partition : Numbered(log'[p]) /\ Follows(p, log[p], log'[p], shadow'),
           topic' = topic \/ \A p \in Partition : Len(log'[p].recs) = 0
    PROVE  NumberInv' /\ RowInv'
<1>1. \A p \in Partition : LogOK(log[p]) /\ LogOK(log'[p])
  BY DEF KafkaInv, Typed, BrokerTyped
<1>2. ASSUME NEW p \in Partition
      PROVE  log[p].born \in Nat /\ log'[p].born \in Nat /\ log[p].born <= log'[p].born
             /\ log'[p].epoch >= 1
  <2>1. log[p].epoch \in Nat /\ log'[p].epoch \in Nat /\ log[p].epoch >= 1
    BY <1>1, LogBounds DEF NumberInv
  <2> QED
    BY <1>1, <2>1 DEF LogOK, Log, Follows
<1>3. Everywhere' = Everywhere
  BY DEF Everywhere, Durable, RowRecords
<1>4. \A r \in Everywhere : r[2] <= log'[r[1]].born
  <2> TAKE r \in Everywhere
  <2>1. r[1] \in Partition /\ r[2] \in Nat /\ r[2] <= log[r[1]].born
    BY EverywhereTyped DEF NumberInv, Born
  <2> QED
    BY <1>2, <2>1
<1>5. NumberInv'
  BY <1>2, <1>3, <1>4 DEF NumberInv, Born
<1>6. ASSUME NEW i \in DOMAIN rows, NEW p \in Partition
      PROVE  RowOK(p, log'[p], rows[i], excused, topic')
  <2> DEFINE l == log[p]
             m == log'[p]
  <2>1. RowOK(p, l, rows[i], excused, topic)
    BY DEF RowInv
  <2>2. ASSUME NEW o \in m.low .. (Len(m.recs) - 1), <<p, m.recs[o + 1]>> \in ToSet(rows[i].recs)
        PROVE  /\ rows[i].blob \/ <<p, m.recs[o + 1]>> \in excused \/ o \in Covered(rows[i].span[p])
               /\ ~DeadGeneration(rows[i], topic')
    <3>1. topic' = topic
      <4>1. m.low \in Nat
        BY <1>1, LogBounds
      <4> QED
        BY <2>2, <4>1
    <3>2. <<p, m.recs[o + 1]>> \in Everywhere
      BY <2>2 DEF Everywhere, Durable, RowRecords
    <3>3. m.recs[o + 1] \in Nat /\ m.recs[o + 1] <= l.born
      <4> DEFINE r == <<p, m.recs[o + 1]>>
      <4>1. r \in Everywhere /\ r[1] = p /\ r[2] = m.recs[o + 1]
        BY <3>2
      <4> HIDE DEF r
      <4>2. r[2] \in Nat /\ r[2] <= log[r[1]].born
        BY <4>1, EverywhereTyped DEF NumberInv, Born
      <4> QED
        BY <4>1, <4>2
    <3>4. o \in l.low .. (Len(l.recs) - 1) /\ m.recs[o + 1] = l.recs[o + 1]
      <4>1. l.born \in Nat /\ ~(m.recs[o + 1] > l.born)
        BY <1>2, <3>3
      <4> QED
        BY <2>2, <4>1 DEF Follows
    <3> QED
      BY <2>1, <2>2, <3>1, <3>4 DEF RowOK
  <2> QED
    BY <2>1, <2>2 DEF RowOK
<1> QED
  BY <1>5, <1>6 DEF RowInv

\* A step of the sink or of the bootstrap: no record appears anywhere.
LEMMA RowsChange ==
    ASSUME NumberInv, UNCHANGED <<log, topic>>, Everywhere' \subseteq Everywhere,
           \A i \in DOMAIN rows' :
               /\ rows'[i].visible => rows'[i].blob
               /\ \A p \in Partition : RowOK(p, log[p], rows'[i], excused', topic),
           pub'.phase \in {"swap", "rollback"} =>
               rows'[Len(rows')].blob /\ ~rows'[Len(rows')].visible
    PROVE  NumberInv' /\ RowInv'
<1>1. NumberInv'
  BY DEF NumberInv, Born
<1> QED
  BY <1>1 DEF RowInv

LEMMA PersistRows ==
    ASSUME KafkaInv, NumberInv, RowInv, SessionInv, Persist
    PROVE  NumberInv' /\ RowInv'
<1> DEFINE n == Len(rows)
           w == NewRow
<1>1. /\ UNCHANGED <<log, topic, buf, excused>> /\ pub.phase = "persist"
      /\ pub'.batch = pub.batch /\ pub'.phase = "swap" /\ sess.phase = "up"
  <2>1. pub \in [phase : {"none", "persist", "swap", "rollback"}, batch : Seq(Record),
                 spans : [Partition -> Span], final : BOOLEAN]
    BY DEF KafkaInv, Typed, SessionTyped
  <2>2. pub.phase = "persist" /\ pub' = [pub EXCEPT !.phase = "swap"]
    BY DEF Persist
  <2>3. sess.phase = "up"
    BY <2>2, NoPubTyped DEF KafkaInv, ShapeInv
  <2> QED
    BY <2>1, <2>2, <2>3 DEF Persist, brokerVars, historyVars
<1>2. /\ rows' \in Seq(Row) /\ Len(rows') = n + 1 /\ n \in Nat /\ rows'[n + 1] = w
      /\ \A i \in 1 .. n : rows'[i] = rows[i]
      /\ DOMAIN rows = 1 .. n /\ DOMAIN rows' = 1 .. n + 1
  <2>1. rows \in Seq(Row) /\ w \in Row /\ rows' = Append(rows, w)
    BY NewRowTyped, RowsDomain DEF Persist
  <2> HIDE DEF w
  <2>2. /\ rows' \in Seq(Row) /\ Len(rows') = n + 1 /\ rows'[n + 1] = w
        /\ \A i \in 1 .. n : rows'[i] = rows[i]
    BY <2>1, AppendProperties
  <2> QED
    BY <2>2, RowsDomain, LenProperties
<1>3. /\ w.recs = pub.batch /\ w.tid = sess.tid /\ w.cid = sess.cid /\ w.blob /\ ~w.visible
      /\ \A p \in Partition : (w.span[p] # NoSpan => w.cid) /\ Started(w.span[p])
  <2>1. ~w.visible
    BY DEF NewRow
  <2>2. \A p \in Partition : w.span[p] # NoSpan => sess.cid
    BY NoPubTyped DEF NewRow
  <2>3. \A p \in Partition : Started(w.span[p])
    <3> TAKE p \in Partition
    <3>1. w.span[p] \in {pub.spans[p], NoSpan}
      BY NoPubTyped DEF NewRow
    <3>2. Started(pub.spans[p]) /\ Started(NoSpan)
      BY <1>1 DEF SessionInv, InSession, Sound, Started
    <3> QED
      BY <3>1, <3>2
  <2> QED
    BY <2>1, <2>2, <2>3, NewRowTyped
<1> HIDE DEF n, w
<1>4. \A i \in 1 .. n + 1 : i \in 1 .. n \/ i = n + 1
  BY <1>2
<1>5. Everywhere' \subseteq Everywhere
  <2>1. ASSUME NEW i \in DOMAIN rows', NEW r \in ToSet(rows'[i].recs)
        PROVE  r \in Everywhere
    <3>1. CASE i \in 1 .. n
      BY <1>2, <2>1, <3>1 DEF Everywhere, Durable, RowRecords
    <3>2. CASE i = n + 1
      BY <1>2, <1>3, <2>1, <3>2 DEF Everywhere
    <3> QED
      BY <1>2, <1>4, <3>1, <3>2
  <2> QED
    BY <1>1, <2>1 DEF Everywhere, Durable, RowRecords
<1>6. ~DeadGeneration(w, topic)
  <2>1. sess.tid \in {NoTopicId, topic}
    BY <1>1 DEF SessionInv, InSession
  <2> QED
    BY <1>3, <2>1 DEF DeadGeneration
<1>7. \A i \in DOMAIN rows' :
         /\ rows'[i].visible => rows'[i].blob
         /\ \A p \in Partition : RowOK(p, log[p], rows'[i], excused', topic)
  <2> TAKE i \in DOMAIN rows'
  <2>1. CASE i \in 1 .. n
    BY <1>1, <1>2, <2>1 DEF RowInv
  <2>2. CASE i = n + 1
    BY <1>2, <1>3, <1>6, <2>2 DEF RowOK
  <2> QED
    BY <1>2, <1>4, <2>1, <2>2
<1> QED
  BY <1>1, <1>2, <1>3, <1>5, <1>7, RowsChange

\* Rows that keep their records and stamps.
LEMMA StampsOK ==
    ASSUME KafkaInv, RowInv, SameStamps, excused' = excused
    PROVE  /\ Durable' = Durable /\ DOMAIN rows' = DOMAIN rows
           /\ \A i \in DOMAIN rows', p \in Partition : RowOK(p, log[p], rows'[i], excused', topic)
<1>1. DOMAIN rows' = DOMAIN rows
  <2>1. rows' \in Seq(Row) /\ Len(rows') = Len(rows)
    BY DEF SameStamps, SameRows
  <2> QED
    BY <2>1, RowsDomain, LenProperties
<1>2. \A i \in DOMAIN rows : /\ rows'[i].recs = rows[i].recs /\ rows'[i].span = rows[i].span
                             /\ rows'[i].cid = rows[i].cid /\ rows'[i].tid = rows[i].tid
                             /\ rows'[i].blob = rows[i].blob
  BY DEF SameStamps, SameRows
<1>3. Durable' = Durable
  BY <1>1, <1>2 DEF Durable, RowRecords
<1>4. \A i \in DOMAIN rows, p \in Partition : RowOK(p, log[p], rows'[i], excused', topic)
  BY <1>2 DEF RowInv, RowOK, DeadGeneration
<1> QED
  BY <1>1, <1>3, <1>4

LEMMA SwapRows ==
    ASSUME KafkaInv, NumberInv, RowInv, Swap
    PROVE  NumberInv' /\ RowInv'
<1>1. UNCHANGED <<log, topic, buf, excused>> /\ pub' = NoPub /\ pub.phase = "swap"
  BY DEF Swap, Published, brokerVars, historyVars
<1>2. /\ Durable' = Durable /\ DOMAIN rows' = DOMAIN rows
      /\ \A i \in DOMAIN rows', p \in Partition : RowOK(p, log[p], rows'[i], excused', topic)
  BY <1>1, SwappedRow, StampsOK
<1>3. \A i \in DOMAIN rows : rows'[i].visible => rows'[i].blob
  <2> TAKE i \in DOMAIN rows
  <2>1. rows[i] \in Row /\ rows'[i].blob = rows[i].blob
    BY RowsDomain, SwappedRow DEF SameStamps
  <2>2. CASE i = Len(rows)
    BY <1>1, <2>1, <2>2 DEF RowInv
  <2>3. CASE i # Len(rows)
    <3>1. rows' = [rows EXCEPT ![Len(rows)] = [rows[Len(rows)] EXCEPT !.visible = TRUE]]
      BY DEF Swap
    <3>2. rows'[i] = rows[i]
      BY <2>3, <3>1
    <3> QED
      BY <3>2 DEF RowInv
  <2> QED
    BY <2>2, <2>3
<1>4. Everywhere' \subseteq Everywhere
  BY <1>1, <1>2, NoPubTyped DEF Everywhere
<1> QED
  BY <1>1, <1>2, <1>3, <1>4, NoPubTyped, RowsChange

LEMMA CrashRows ==
    ASSUME KafkaInv, NumberInv, RowInv, Crash
    PROVE  NumberInv' /\ RowInv'
<1>1. UNCHANGED <<log, topic, excused>> /\ pub' = NoPub /\ buf' = <<>>
  BY DEF Crash, brokerVars, historyVars
<1>2. /\ Durable' = Durable /\ DOMAIN rows' = DOMAIN rows
      /\ \A i \in DOMAIN rows', p \in Partition : RowOK(p, log[p], rows'[i], excused', topic)
  BY <1>1, LoadedRows, StampsOK
<1>3. \A i \in DOMAIN rows : rows'[i].visible => rows'[i].blob
  <2> TAKE i \in DOMAIN rows
  <2>1. rows[i] \in Row /\ rows'[i] = [rows[i] EXCEPT !.visible = rows[i].blob]
    BY RowsDomain DEF Crash
  <2> QED
    BY <2>1 DEF Row
<1>4. Everywhere' \subseteq Everywhere
  BY <1>1, <1>2, NoPubTyped DEF Everywhere
<1> QED
  BY <1>1, <1>2, <1>3, <1>4, NoPubTyped, RowsChange

LEMMA RollbackRows ==
    ASSUME KafkaInv, NumberInv, RowInv, Rollback
    PROVE  NumberInv' /\ RowInv'
<1>1. UNCHANGED <<log, topic, buf, excused>> /\ pub' = NoPub
  BY DEF Rollback, PublishFailed, brokerVars
<1>2. DOMAIN rows' = SettledRows /\ \A i \in SettledRows : rows'[i] = rows[i] /\ i \in DOMAIN rows
  BY RemovedRow DEF SettledRows
<1>3. Everywhere' \subseteq Everywhere
  BY <1>1, <1>2, NoPubTyped DEF Everywhere, Durable, RowRecords
<1>4. \A i \in DOMAIN rows' :
         /\ rows'[i].visible => rows'[i].blob
         /\ \A p \in Partition : RowOK(p, log[p], rows'[i], excused', topic)
  BY <1>1, <1>2 DEF RowInv
<1> QED
  BY <1>1, <1>3, <1>4, NoPubTyped, RowsChange

\* A lost blob leaves each retained record of its row excused or in the stamp.
LEMMA LoseBlobRows ==
    ASSUME KafkaInv, NumberInv, RowInv, NEW i \in DOMAIN rows, LoseBlob(i)
    PROVE  NumberInv' /\ RowInv'
<1> DEFINE r == [rows[i] EXCEPT !.blob = FALSE, !.visible = FALSE]
           B(p) == {RecordAt(p, o) : o \in Retained(p) \cap Covered(rows[i].span[p])}
<1>1. UNCHANGED <<log, topic, buf, pub>> /\ excused \subseteq excused' /\ sess.phase = "down"
      /\ \A s \in RowRecords(i) : (\A p \in Partition : s \notin B(p)) => s \in excused'
  BY DEF LoseBlob, brokerVars
<1>2. /\ r \in Row /\ ~r.blob /\ ~r.visible /\ r.recs = rows[i].recs /\ r.span = rows[i].span
      /\ r.cid = rows[i].cid /\ r.tid = rows[i].tid
  BY RowsDomain DEF Row
<1>3. rows' = [rows EXCEPT ![i] = r]
  BY DEF LoseBlob
<1> HIDE DEF r
<1>4. DOMAIN rows' = DOMAIN rows /\ rows'[i] = r /\ \A j \in DOMAIN rows : j # i => rows'[j] = rows[j]
  BY <1>3
<1>5. Everywhere' \subseteq Everywhere
  BY <1>1, <1>2, <1>4 DEF Everywhere, Durable, RowRecords
<1>6. ASSUME NEW p \in Partition
      PROVE  RowOK(p, log[p], r, excused', topic)
  <2> DEFINE l == log[p]
  <2>1. RowOK(p, l, rows[i], excused, topic) /\ Numbered(l)
    BY DEF RowInv, NumberInv
  <2>2. ASSUME NEW o \in l.low .. (Len(l.recs) - 1), <<p, l.recs[o + 1]>> \in ToSet(r.recs)
        PROVE  <<p, l.recs[o + 1]>> \in excused' \/ o \in Covered(r.span[p])
    <3> DEFINE s == <<p, l.recs[o + 1]>>
    <3>1. CASE \A q \in Partition : s \notin B(q)
      BY <1>1, <1>2, <2>2, <3>1 DEF RowRecords
    <3>2. CASE \E q \in Partition : s \in B(q)
      <4>0. PICK q \in Partition : s \in B(q)
        BY <3>2
      <4>1. PICK x \in Retained(q) \cap Covered(rows[i].span[q]) : s = RecordAt(q, x)
        BY <4>0
      <4>2. q = p /\ l.recs[o + 1] = l.recs[x + 1]
        BY <4>1 DEF RecordAt
      <4>3. x \in l.low .. (Len(l.recs) - 1)
        BY <4>1, <4>2 DEF Retained, High
      <4>4. o + 1 \in DOMAIN l.recs /\ x + 1 \in DOMAIN l.recs
        BY <2>2, <4>3, RetainedBorn
      <4>5. o + 1 = x + 1
        BY <2>1, <4>2, <4>4 DEF Numbered
      <4>6. l.low \in Int /\ Len(l.recs) \in Int
        BY LogBounds DEF KafkaInv, Typed, BrokerTyped
      <4>7. o = x
        BY <2>2, <4>3, <4>5, <4>6
      <4> QED
        BY <1>2, <4>1, <4>2, <4>7
    <3> QED
      BY <3>1, <3>2
  <2> QED
    BY <1>2, <2>1, <2>2 DEF RowOK, DeadGeneration
<1>7. \A j \in DOMAIN rows' :
         /\ rows'[j].visible => rows'[j].blob
         /\ \A p \in Partition : RowOK(p, log[p], rows'[j], excused', topic)
  <2> TAKE j \in DOMAIN rows'
  <2>1. CASE j = i
    BY <1>2, <1>4, <1>6, <2>1
  <2>2. CASE j # i
    <3>1. rows[j].visible => rows[j].blob
      BY <1>4 DEF RowInv
    <3>2. \A p \in Partition : RowOK(p, log[p], rows[j], excused', topic)
      BY <1>1, <1>4 DEF RowInv, RowOK
    <3> QED
      BY <1>4, <2>2, <3>1, <3>2
  <2> QED
    BY <2>1, <2>2
<1>8. pub.phase = "none"
  BY <1>1, NoPubTyped DEF KafkaInv, ShapeInv
<1> QED
  BY <1>1, <1>5, <1>7, <1>8, RowsChange

------------------------------------------------------------------------------
(* What a session finds in the rows.                                       *)

\* The row under publication is in nobody's account but the publication's.
LEMMA VisibleSettled ==
    ASSUME KafkaInv, RowInv, NEW i \in DOMAIN rows, rows[i].visible
    PROVE  i \in SettledRows /\ rows[i].blob
BY DEF RowInv, SettledRows, InStock

LEMMA HandsAccounted ==
    ASSUME KafkaInv, RowInv, NEW p
    PROVE  /\ Accounted \subseteq InHand(p)
           /\ InHand(p) \subseteq Accounted \cup excused \cup gap \cup Misclaimed(p)
<1>1. Held \subseteq Shelved \cup ToSet(pub.batch)
  <2> SUFFICES ASSUME NEW i \in DOMAIN rows, rows[i].visible \/ rows[i].blob, NEW r \in RowRecords(i)
               PROVE  r \in Shelved \cup ToSet(pub.batch)
    BY DEF Held
  <2>1. rows[i].blob
    BY DEF RowInv
  <2>2. CASE i \in SettledRows
    BY <2>1, <2>2 DEF Shelved
  <2>3. CASE i \notin SettledRows
    <3>1. pub.phase \in {"swap", "rollback"} /\ i = Len(rows)
      BY <2>3 DEF SettledRows, InStock
    <3>2. rows[i].recs = pub.batch
      BY <3>1 DEF KafkaInv, ShapeInv
    <3> QED
      BY <3>2 DEF RowRecords
  <2> QED
    BY <2>2, <2>3
<1>2. Shelved \subseteq Held
  BY DEF Shelved, Held, SettledRows
<1> QED
  BY <1>1, <1>2 DEF Accounted, InHand, Backed

\* Loaded offsets are those of records that a loaded row holds or claims.
LEMMA LoadsBacked ==
    ASSUME KafkaInv, RowInv, NEW p \in Partition, NEW fr,
           fr.loaded \subseteq LoadedOffsets(rows, p, TRUE, sess.tid)
    PROVE  Loads(p, log[p], fr, Backed(p))
<1> SUFFICES ASSUME NEW o \in fr.loaded, o \in log[p].low .. (Len(log[p].recs) - 1)
             PROVE  <<p, log[p].recs[o + 1]>> \in Backed(p)
  BY DEF Loads
<1>1. PICK i \in LiveRows(rows, p, sess.tid) : rows[i].visible /\ o \in Covered(rows[i].span[p])
  BY DEF LoadedOffsets
<1>2. i \in DOMAIN rows
  BY <1>1 DEF LiveRows, Naming
<1>3. i \in SettledRows /\ rows[i].blob
  BY <1>1, <1>2, VisibleSettled
<1>4. o \in Retained(p) /\ RecordAt(p, o) = <<p, log[p].recs[o + 1]>>
  BY DEF Retained, High, RecordAt
<1>5. CASE RecordAt(p, o) \in RowRecords(i)
  BY <1>3, <1>4, <1>5 DEF Backed, Shelved
<1>6. CASE RecordAt(p, o) \notin RowRecords(i)
  <2>1. RecordAt(p, o) \in Misclaimed(p)
    BY <1>1, <1>4, <1>6 DEF Misclaimed
  <2> QED
    BY <1>4, <2>1 DEF Backed
<1> QED
  BY <1>5, <1>6

LEMMA LoadsWeaken ==
    ASSUME NEW p, NEW l, NEW fr, NEW S, NEW T, Loads(p, l, fr, S), S \subseteq T
    PROVE  Loads(p, l, fr, T)
BY DEF Loads

\* A row that stays, loaded now if it was before.
Remains(v, w) ==
    /\ w.recs = v.recs /\ w.cid = v.cid /\ w.tid = v.tid /\ w.span = v.span
    /\ v.blob => w.blob
    /\ v.visible => w.visible

\* Nothing that a session relies on goes while the log and the rows stay.
LEMMA StockGrows ==
    ASSUME KafkaInv, RowInv, log' = log, sess'.tid = sess.tid, excused \subseteq excused',
           gap \subseteq gap', SettledRows \subseteq SettledRows',
           \A i \in SettledRows : Remains(rows[i], rows'[i]),
           NEW p \in Partition
    PROVE  /\ Backed(p) \subseteq Backed(p)'
           /\ LoadedOffsets(rows, p, TRUE, sess.tid) \subseteq LoadedOffsets(rows', p, TRUE, sess'.tid)
<1>1. Shelved \subseteq Shelved'
  BY DEF Shelved, RowRecords, Remains
<1>2. ASSUME NEW i \in LiveRows(rows, p, sess.tid), rows[i].visible
      PROVE  /\ i \in LiveRows(rows', p, sess'.tid) /\ rows'[i].visible
             /\ rows'[i].span = rows[i].span /\ rows'[i].recs = rows[i].recs
  <2>1. i \in DOMAIN rows /\ rows[i].cid /\ rows[i].span[p] # NoSpan /\ ~DeadGeneration(rows[i], sess.tid)
    BY DEF LiveRows, Naming
  <2>2. i \in SettledRows
    BY <1>2, <2>1, VisibleSettled
  <2>3. Remains(rows[i], rows'[i]) /\ i \in DOMAIN rows'
    BY <2>2 DEF SettledRows
  <2> QED
    BY <1>2, <2>1, <2>3 DEF Remains, LiveRows, Naming, DeadGeneration
<1>3. LoadedOffsets(rows, p, TRUE, sess.tid) \subseteq LoadedOffsets(rows', p, TRUE, sess'.tid)
  BY <1>2 DEF LoadedOffsets
<1>4. Misclaimed(p) \subseteq Misclaimed(p)'
  <2> SUFFICES ASSUME NEW x \in Retained(p), NEW i \in LiveRows(rows, p, sess.tid), rows[i].visible,
                      x \in Covered(rows[i].span[p]), RecordAt(p, x) \notin RowRecords(i)
               PROVE  RecordAt(p, x) \in Misclaimed(p)'
    BY DEF Misclaimed
  <2>1. x \in Retained(p)' /\ RecordAt(p, x) = RecordAt(p, x)'
    BY DEF Retained, High, RecordAt
  <2>2. /\ i \in LiveRows(rows', p, sess'.tid) /\ rows'[i].visible
        /\ x \in Covered(rows'[i].span[p]) /\ RecordAt(p, x) \notin ToSet(rows'[i].recs)
    BY <1>2 DEF RowRecords
  <2> QED
    BY <2>1, <2>2 DEF Misclaimed, RowRecords
<1> QED
  BY <1>1, <1>3, <1>4 DEF Backed

\* The log moves: a retained record that a session relies on stays one.
LEMMA LogStock ==
    ASSUME KafkaInv, KafkaInv', NumberInv, NumberInv', NEW p \in Partition,
           UNCHANGED <<rows, sess, buf, pub, excused, gap>>,
           NEW o \in log'[p].low .. (Len(log'[p].recs) - 1),
           o \in log[p].low .. (Len(log[p].recs) - 1), log'[p].recs[o + 1] = log[p].recs[o + 1]
    PROVE  /\ <<p, log[p].recs[o + 1]>> \in Backed(p) => <<p, log[p].recs[o + 1]>> \in Backed(p)'
           /\ <<p, log[p].recs[o + 1]>> \in InHand(p) => <<p, log[p].recs[o + 1]>> \in InHand(p)'
<1> DEFINE r == <<p, log[p].recs[o + 1]>>
<1>1. Shelved' = Shelved
  BY DEF Shelved, SettledRows, InStock, RowRecords
<1>2. ASSUME r \in Misclaimed(p)
      PROVE  r \in Misclaimed(p)'
  <2>1. PICK x \in Retained(p) :
           /\ r = RecordAt(p, x)
           /\ \E i \in LiveRows(rows, p, sess.tid) :
                 /\ rows[i].visible /\ x \in Covered(rows[i].span[p])
                 /\ RecordAt(p, x) \notin RowRecords(i)
    BY <1>2 DEF Misclaimed
  <2>2. x \in log[p].low .. (Len(log[p].recs) - 1) /\ log[p].recs[x + 1] = log[p].recs[o + 1]
    BY <2>1 DEF Retained, High, RecordAt
  <2>3. o + 1 \in DOMAIN log[p].recs /\ x + 1 \in DOMAIN log[p].recs
    BY <2>2, RetainedBorn
  <2>4. o + 1 = x + 1
    BY <2>2, <2>3 DEF NumberInv, Numbered
  <2>5. log[p].low \in Int /\ Len(log[p].recs) \in Int
    BY LogBounds DEF KafkaInv, Typed, BrokerTyped
  <2>6. o = x
    BY <2>2, <2>4, <2>5
  <2>7. x \in Retained(p)' /\ RecordAt(p, x)' = r
    BY <2>6 DEF Retained, High, RecordAt
  <2>8. PICK i \in LiveRows(rows, p, sess.tid) :
                 /\ rows[i].visible /\ x \in Covered(rows[i].span[p])
                 /\ RecordAt(p, x) \notin RowRecords(i)
    BY <2>1
  <2>9. /\ i \in LiveRows(rows', p, sess'.tid) /\ rows'[i].visible /\ x \in Covered(rows'[i].span[p])
        /\ r \notin RowRecords(i)'
    BY <2>1, <2>8 DEF RowRecords
  <2> HIDE DEF r
  <2> QED
    BY <2>7, <2>9 DEF Misclaimed
<1> HIDE DEF r
<1> QED
  BY <1>1, <1>2 DEF Backed, InHand, r

------------------------------------------------------------------------------
(* Steps of a running session.                                             *)

LEMMA SessionNext ==
    ASSUME InSession' =>
             /\ sess'.tid \in {NoTopicId, topic'}
             /\ \A p \in Partition :
                  /\ cons'[p].fr.loaded \subseteq LoadedOffsets(rows', p, TRUE, sess'.tid)
                  /\ Sound(p, log'[p], shadow', sess'.recreated, cons'[p], {committed'[p], sent'[p]},
                           pub'.spans[p], Backed(p)', InHand(p)')
    PROVE  SessionInv'
BY DEF SessionInv, LoadedIn

\* Only the partition's own records count.
LEMMA CarriesLocal ==
    ASSUME NEW p, NEW l, NEW H, NEW e, NEW S, NEW T, \A r \in S : r[1] = p => r \in T
    PROVE  Carries(p, l, l, H, H, e, S, T)
<1> SUFFICES ASSUME NEW x \in Int, Clear(p, l, H, e, x, S)
             PROVE  Clear(p, l, H, e, x, T)
  BY DEF Carries
<1>1. \A v : <<p, v>> \in S => <<p, v>> \in T
  <2> TAKE v
  <2>1. <<p, v>>[1] = p
    OBVIOUS
  <2> QED
    BY <2>1
<1> QED
  BY <1>1 DEF Clear

LEMMA SoundLocal ==
    ASSUME NEW p, NEW l, LogOK(l), NEW H, NEW rec, NEW c \in Consumer, NEW coms, coms \subseteq Int,
           NEW span \in Span, NEW S, NEW K, NEW T, NEW L, Sound(p, l, H, rec, c, coms, span, S, K),
           \A r \in S : r[1] = p => r \in T,
           \A r \in K : r[1] = p => r \in L
    PROVE  Sound(p, l, H, rec, c, coms, span, T, L)
<1>1. Carries(p, l, l, H, H, c.epoch, S, T) /\ Carries(p, l, l, H, H, c.epoch, K, L)
  BY CarriesLocal
<1>2. l.epoch \in Nat /\ l.epoch <= l.epoch
  BY LogBounds
<1>3. Firm(p, l, H, rec, c, coms, T, L)
  BY <1>1, <1>2, FirmCarries DEF Sound
<1>4. span.next \in Int
  BY Constants DEF Span
<1>5. ~c.astray => Clear(p, l, H, c.epoch, span.next, L)
  BY <1>1, <1>4 DEF Sound, Carries
<1> QED
  BY <1>3, <1>5 DEF Sound

LEMMA SoundTyped ==
    ASSUME KafkaInv, NEW p \in Partition
    PROVE  /\ LogOK(log[p]) /\ cons[p] \in Consumer /\ pub.spans[p] \in Span
           /\ committed[p] \in Offset /\ sent[p] \in Offset
           /\ {committed[p], sent[p]} \subseteq Int
           /\ cons[p].next = NoOffset => cons[p].span = NoSpan
           /\ Good(p, log[p], sess.recreated, cons[p], Safe, Kept)
           /\ sess.recreated \in BOOLEAN
<1>1. BrokerTyped /\ SessionTyped /\ ConsTyped /\ ShapeInv /\ SafeInv
  BY DEF KafkaInv, Typed
<1>2. committed[p] \in Offset /\ sent[p] \in Offset
  BY <1>1 DEF BrokerTyped
<1>3. {committed[p], sent[p]} \subseteq Int
  BY <1>2, Constants
<1> QED
  BY <1>1, <1>2, <1>3 DEF BrokerTyped, SessionTyped, ConsTyped, ShapeInv, SafeInv

\* What a session had stays sound while nothing it relies on goes.
LEMMA StillSound ==
    ASSUME KafkaInv, RowInv, SessionInv, InSession, log' = log, sess'.tid = sess.tid,
           excused \subseteq excused', gap \subseteq gap', SettledRows \subseteq SettledRows',
           \A i \in SettledRows : Remains(rows[i], rows'[i]),
           NEW p \in Partition, NEW K, \A r \in InHand(p) : r[1] = p => r \in K
    PROVE  /\ Backed(p) \subseteq Backed(p)'
           /\ cons[p].fr.loaded \subseteq LoadedOffsets(rows', p, TRUE, sess'.tid)
           /\ Loads(p, log[p], cons[p].fr, Backed(p)')
           /\ Sound(p, log[p], shadow, sess.recreated, cons[p], {committed[p], sent[p]},
                    pub.spans[p], Backed(p)', K)
<1>1. /\ Backed(p) \subseteq Backed(p)'
      /\ LoadedOffsets(rows, p, TRUE, sess.tid) \subseteq LoadedOffsets(rows', p, TRUE, sess'.tid)
  BY StockGrows
<1>2. /\ cons[p].fr.loaded \subseteq LoadedOffsets(rows, p, TRUE, sess.tid)
      /\ Sound(p, log[p], shadow, sess.recreated, cons[p], {committed[p], sent[p]},
               pub.spans[p], Backed(p), InHand(p))
  BY DEF SessionInv, LoadedIn
<1>3. Loads(p, log[p], cons[p].fr, Backed(p))
  BY <1>2, LoadsBacked
<1> DEFINE S == Backed(p)
           T == Backed(p)'
           L == InHand(p)
           coms == {committed[p], sent[p]}
           span == pub.spans[p]
           l == log[p]
           c == cons[p]
           rec == sess.recreated
           H == shadow
<1>4. Loads(p, l, c.fr, T)
  BY <1>1, <1>3, LoadsWeaken
<1>5. LogOK(l) /\ c \in Consumer /\ span \in Span /\ coms \subseteq Int
  BY SoundTyped
<1>6. (\A r \in S : r[1] = p => r \in T) /\ \A r \in L : r[1] = p => r \in K
  BY <1>1
<1>7. Sound(p, l, H, rec, c, coms, span, S, L)
  BY <1>2
<1> HIDE DEF S, T, L, coms, span, l, c, rec, H
<1>8. Sound(p, l, H, rec, c, coms, span, T, K)
  BY <1>5, <1>6, <1>7, SoundLocal
<1> QED
  BY <1>1, <1>2, <1>4, <1>8 DEF S, T, L, coms, span, l, c, rec, H

\* Commits that are none, or that were there.
LEMMA FirmComs ==
    ASSUME NEW p, NEW l, LogOK(l), NEW H, NEW rec, NEW c, NEW coms, NEW new, NEW S, NEW K,
           Firm(p, l, H, rec, c, coms, S, K), \A x \in new : x \in coms \/ x = NoOffset
    PROVE  Firm(p, l, H, rec, c, new, S, K)
<1>1. CommitFirm(p, l, H, c, NoOffset, S)
  BY ClearNone DEF CommitFirm
<1> QED
  BY <1>1 DEF Firm, Steady

\* A partition whose position, assignment or notices change.
Redirected(e, c) ==
    /\ e.next = c.next /\ e.span = c.span /\ e.fr = c.fr /\ e.gate = c.gate /\ e.epoch = c.epoch
    /\ e.reset = c.reset /\ e.recFloor = c.recFloor /\ e.resetFloor = c.resetFloor
    /\ e.astray = c.astray

LEMMA FirmAt ==
    ASSUME NEW p, NEW l, NEW H, NEW rec, NEW c, NEW coms, NEW S, NEW K,
           Firm(p, l, H, rec, c, coms, S, K), NEW e, Redirected(e, c), Judged(rec, e),
           ~e.astray /\ Through(rec, e) => Clear(p, l, H, e.epoch, e.pos, K)
    PROVE  Firm(p, l, H, rec, e, coms, S, K)
<1>1. Aware(l, rec, e)
  BY DEF Firm, Aware, Redirected
<1>2. ASSUME ~c.astray, Steady(p, l, H, rec, c, coms, S, K)
      PROVE  Steady(p, l, H, rec, e, coms, S, K)
  <2>1. FloorFirm(p, l, H, e, S)
    BY <1>2 DEF Steady, FloorFirm, Redirected
  <2>2. GateFirm(p, l, H, e, K)
    BY <1>2 DEF Steady, GateFirm, Redirected
  <2>3. Trusting(rec, e) <=> Trusting(rec, c)
    BY DEF Trusting, Untrusted, Redirected
  <2>4. \A com : CommitFirm(p, l, H, c, com, S) <=> CommitFirm(p, l, H, e, com, S)
    BY DEF CommitFirm, Redirected
  <2> QED
    BY <1>2, <2>1, <2>2, <2>3, <2>4 DEF Steady, Redirected
<1> QED
  BY <1>1, <1>2 DEF Firm, Redirected

LEMMA DrainedFirm ==
    ASSUME NEW l, LogOK(l), NEW H, NEW rec \in BOOLEAN, rec = sess.recreated, NEW p, NEW c \in Consumer,
           c.next = NoOffset => c.span = NoSpan, NEW coms,
           NEW S, NEW K, S \subseteq K, Firm(p, l, H, rec, c, coms, S, K)
    PROVE  /\ Firm(p, l, H, rec, Drained(c), coms, S, K)
           /\ Drained(c).epoch = c.epoch /\ Drained(c).astray = c.astray
           /\ Drained(c).fr.loaded \subseteq c.fr.loaded
<1>1. CASE c.notice = {}
  <2>1. Drained(c) = c
    BY <1>1 DEF Drained
  <2> QED
    BY <2>1
<1>2. CASE c.notice # {}
  <2> DEFINE fr == synthesize_recreated(c.fr, rec /\ "assigned" \in c.notice)
             d == [c EXCEPT !.notice = {}, !.fr = fr, !.paused = @ /\ "revoked" \notin c.notice]
             f == SafeFloor(d)
             g == IF f # NoOffset THEN NeedsRestore(f)
                  ELSE IF fr # NoEntry THEN NeedsTarget ELSE c.gate
             e == [d EXCEPT !.gate = g]
  <2>1. /\ fr \in Entry /\ (fr = c.fr \/ (fr.recreated /\ fr.loaded = {} /\ c.fr = NoEntry /\ rec /\ "assigned" \in c.notice))
        /\ rec /\ "assigned" \in c.notice => fr # NoEntry /\ (c.fr = NoEntry => fr.recreated)
    <3>1. c.fr \in Entry /\ 0 \in Offset
      BY Constants DEF Consumer
    <3>2. [minStart |-> 0, loaded |-> {}, recreated |-> TRUE] \in Entry
      BY <3>1 DEF Entry
    <3>3. NoEntry.recreated = FALSE
      BY DEF NoEntry
    <3> QED
      BY <3>1, <3>2, <3>3 DEF synthesize_recreated
  <2> HIDE DEF fr
  <2>2. /\ d \in Consumer /\ d.notice = {} /\ d.fr = fr /\ d.next = c.next /\ d.span = c.span
        /\ d.gate = c.gate /\ d.pos = c.pos /\ d.assigned = c.assigned /\ d.epoch = c.epoch
        /\ d.reset = c.reset /\ d.recFloor = c.recFloor /\ d.resetFloor = c.resetFloor
        /\ d.astray = c.astray
    BY <2>1 DEF Consumer
  <2>3. Drained(c) = e
    <3>1. d = [d EXCEPT !.gate = c.gate]
      BY <2>2 DEF Consumer
    <3>2. Drained(c) = IF SafeFloor(d) # NoOffset THEN [d EXCEPT !.gate = NeedsRestore(SafeFloor(d))]
                       ELSE IF d.fr # NoEntry THEN [d EXCEPT !.gate = NeedsTarget] ELSE d
      BY <1>2 DEF Drained, fr
    <3> HIDE DEF d
    <3> QED
      BY <2>2, <3>1, <3>2
  <2> HIDE DEF d
  <2>4. /\ f = (IF c.next >= c.span.next THEN c.next ELSE c.span.next) /\ f \in Int
        /\ f = NoOffset <=> c.next = NoOffset /\ c.span.next = NoOffset
        /\ f = SafeFloor(c)
    <3>1. f = SafeFloor(c)
      BY <2>2 DEF SafeFloor
    <3> QED
      BY <3>1, FloorOf, Constants
  <2>5. c.next = NoOffset => f = NoOffset
    BY <2>4 DEF NoSpan
  <2> HIDE DEF f
  <2>6. g \in Gate /\ (f # NoOffset => g.kind = "restore" /\ g.at = f /\ g # Active)
        /\ (f = NoOffset /\ fr # NoEntry => g.kind = "target" /\ g # Active)
        /\ (f = NoOffset /\ fr = NoEntry => g = c.gate)
    BY <2>4 DEF Gate, NeedsRestore, NeedsTarget, Active, Consumer, Gate
  <2> HIDE DEF g
  <2>7. /\ e \in Consumer /\ e.notice = {} /\ e.fr = fr /\ e.next = c.next /\ e.span = c.span
        /\ e.gate = g /\ e.pos = c.pos /\ e.assigned = c.assigned /\ e.epoch = c.epoch
        /\ e.reset = c.reset /\ e.recFloor = c.recFloor /\ e.resetFloor = c.resetFloor
        /\ e.astray = c.astray
    BY <2>2, <2>6 DEF Consumer
  <2> HIDE DEF e
  <2>8. Judged(rec, e)
    <3> SUFFICES ASSUME rec, ~fr.recreated
                 PROVE  /\ fr = NoEntry /\ g = Active /\ c.next = NoOffset
                        /\ ~c.assigned
      BY <2>7 DEF Judged
    <3>1. fr = c.fr /\ Judged(rec, c)
      BY <2>1 DEF Firm, Aware
    <3>2. c.fr = NoEntry /\ c.gate = Active /\ c.next = NoOffset /\ (c.assigned => "assigned" \in c.notice)
      BY <3>1 DEF Judged
    <3> QED
      BY <2>1, <2>5, <2>6, <3>1, <3>2
  <2>9. Aware(l, rec, e)
    BY <2>7, <2>8 DEF Firm, Aware
  <2>10. ASSUME Steady(p, l, H, rec, c, coms, S, K)
         PROVE  Steady(p, l, H, rec, e, coms, S, K)
    <3> DEFINE Y(x) == Clear(p, l, H, c.epoch, x, S)
               Z(x) == Clear(p, l, H, c.epoch, x, K)
    <3>1. Y(c.next) /\ Z(c.span.next) /\ \A x : Y(x) => Z(x)
      BY <2>10, ClearWeaken DEF Steady
    <3>2. FloorFirm(p, l, H, e, S)
      BY <2>1, <2>7, <2>10 DEF Steady, FloorFirm
    <3>3. Z(f)
      BY <2>4, <3>1
    <3>4. GateFirm(p, l, H, c, K)
      BY <2>10 DEF Steady
    <3>5. f = NoOffset => c.next = NoOffset
      BY <2>4
    <3> HIDE DEF Y, Z
    <3>6. GateFirm(p, l, H, e, K)
      <4>1. e.gate.kind = "target" => e.next = NoOffset
        BY <2>6, <2>7, <3>5
      <4>2. e.gate.kind = "seek" /\ ~e.recFloor /\ ~e.resetFloor =>
               Z(e.gate.at) \/ e.gate.at = Passthrough
        BY <2>6, <2>7, <3>4 DEF GateFirm, Z
      <4>3. e.gate.kind = "restore" => Z(e.gate.at)
        BY <2>6, <2>7, <3>3, <3>4 DEF GateFirm, Z
      <4> QED
        BY <2>7, <4>1, <4>2, <4>3 DEF GateFirm, Z
    <3>7. Through(rec, e) => Through(rec, c)
      BY <2>1, <2>4, <2>6, <2>7 DEF Through
    <3>8. Trusting(rec, e) => Trusting(rec, c) /\ fr = c.fr
      BY <2>1, <2>7 DEF Trusting, Untrusted
    <3>9. fr = c.fr => \A com : CommitFirm(p, l, H, c, com, S) <=> CommitFirm(p, l, H, e, com, S)
      BY <2>7 DEF CommitFirm
    <3> QED
      BY <2>7, <2>10, <3>1, <3>2, <3>6, <3>7, <3>8, <3>9 DEF Steady, Y, Z
  <2>11. fr.loaded \subseteq c.fr.loaded
    BY <2>1
  <2> QED
    BY <2>3, <2>7, <2>9, <2>10, <2>11 DEF Firm
<1> QED
  BY <1>1, <1>2

\* The rows and the loop's hands do not change.
LEMMA HeldSound ==
    ASSUME KafkaInv, SkipInv, InSession, UNCHANGED <<log, rows, buf, pub>>, sess'.tid = sess.tid,
           excused \subseteq excused', gap \subseteq gap', NEW p \in Partition
    PROVE  /\ Backed(p) \subseteq Backed(p)' /\ InHand(p) \subseteq InHand(p)'
           /\ Backed(p)' \subseteq InHand(p)'
           /\ cons[p].fr.loaded \subseteq LoadedOffsets(rows', p, TRUE, sess'.tid)
           /\ Loads(p, log[p], cons[p].fr, Backed(p)')
           /\ Sound(p, log[p], shadow, sess.recreated, cons[p], {committed[p], sent[p]},
                    pub.spans[p], Backed(p)', InHand(p)')
<1>1. SettledRows' = SettledRows /\ \A i \in SettledRows : Remains(rows[i], rows'[i])
  BY DEF SettledRows, InStock, Remains
<1>2. RowInv /\ SessionInv
  BY DEF SkipInv
<1>3. Backed(p) \subseteq Backed(p)'
  BY <1>1, <1>2, StockGrows
<1>4. InHand(p) \subseteq InHand(p)' /\ Backed(p)' \subseteq InHand(p)'
  BY <1>3 DEF InHand
<1> DEFINE K == InHand(p)'
<1>5. \A r \in InHand(p) : r[1] = p => r \in K
  BY <1>4
<1> HIDE DEF K
<1>6. /\ cons[p].fr.loaded \subseteq LoadedOffsets(rows', p, TRUE, sess'.tid)
      /\ Loads(p, log[p], cons[p].fr, Backed(p)')
      /\ Sound(p, log[p], shadow, sess.recreated, cons[p], {committed[p], sent[p]},
               pub.spans[p], Backed(p)', K)
  BY <1>1, <1>2, <1>5, StillSound
<1> QED
  BY <1>3, <1>4, <1>6 DEF K

LEMMA ConsumerSkip ==
    ASSUME KafkaInv, SkipInv, UNCHANGED <<log, topic, rows, buf, pub, shadow>>,
           sess'.tid = sess.tid, sess'.recreated = sess.recreated, InSession' => InSession,
           excused \subseteq excused', gap \subseteq gap',
           InSession => \A p \in Partition :
               /\ cons'[p].fr.loaded \subseteq cons[p].fr.loaded
               /\ Firm(p, log[p], shadow, sess.recreated, cons'[p], {committed'[p], sent'[p]},
                       Backed(p)', InHand(p)')
               /\ \/ pub.phase = "none"
                  \/ /\ cons'[p].next = cons[p].next /\ cons'[p].epoch = cons[p].epoch
                     /\ cons'[p].astray = cons[p].astray
    PROVE  SkipInv'
<1>1. NumberInv' /\ RowInv'
  BY RowsStay DEF SkipInv, Everywhere
<1>2. ASSUME InSession, NEW p \in Partition
      PROVE  /\ cons'[p].fr.loaded \subseteq LoadedOffsets(rows', p, TRUE, sess'.tid)
             /\ Sound(p, log'[p], shadow', sess'.recreated, cons'[p], {committed'[p], sent'[p]},
                      pub'.spans[p], Backed(p)', InHand(p)')
  <2>1. /\ cons[p].fr.loaded \subseteq LoadedOffsets(rows', p, TRUE, sess'.tid)
        /\ Sound(p, log[p], shadow, sess.recreated, cons[p], {committed[p], sent[p]},
                 pub.spans[p], Backed(p)', InHand(p)')
    BY <1>2, HeldSound
  <2>2. LogOK(log[p])
    BY SoundTyped
  <2>3. pub.phase = "none" => pub.spans[p] = NoSpan /\ pub.spans[p].next = NoOffset
    BY NoPubTyped DEF KafkaInv, ShapeInv, NoSpan
  <2>4. /\ pub.spans[p] = NoSpan \/ cons'[p].next # NoOffset
        /\ ~cons'[p].astray =>
              Clear(p, log[p], shadow, cons'[p].epoch, pub.spans[p].next, InHand(p)')
    <3>1. CASE pub.phase = "none"
      BY <2>2, <2>3, <3>1, ClearNone
    <3>2. CASE pub.phase # "none"
      BY <1>2, <2>1, <3>2 DEF Sound
    <3> QED
      BY <3>1, <3>2
  <2> QED
    BY <1>2, <2>1, <2>4 DEF Sound
<1>3. sess'.tid \in {NoTopicId, topic'} \/ ~InSession
  BY DEF SkipInv, SessionInv
<1>4. SessionInv'
  BY <1>2, <1>3, SessionNext
<1> QED
  BY <1>1, <1>4 DEF SkipInv

LEMMA CommitSkip ==
    ASSUME KafkaInv, SkipInv, NEW p \in Partition, LandCommit(p) \/ LoseCommit(p)
    PROVE  SkipInv'
<1>1. /\ UNCHANGED <<log, topic, rows, buf, pub, shadow, sess, cons, excused, gap>>
      /\ \A q \in Partition : \A x \in {committed'[q], sent'[q]} :
            x \in {committed[q], sent[q]} \/ x = NoOffset
  <2>1. committed \in [Partition -> Offset] /\ sent \in [Partition -> Offset]
    BY DEF KafkaInv, Typed, BrokerTyped
  <2>2. UNCHANGED <<log, topic, rows, buf, pub, shadow, sess, cons, excused, gap>>
    BY DEF LandCommit, LoseCommit, brokerVars, historyVars
  <2>3. committed' = committed \/ committed' = [committed EXCEPT ![p] = sent[p]]
    BY DEF LandCommit, LoseCommit, brokerVars
  <2>4. sent' = [sent EXCEPT ![p] = NoOffset]
    BY DEF LandCommit, LoseCommit
  <2> QED
    BY <2>1, <2>2, <2>3, <2>4
<1>2. ASSUME InSession, NEW q \in Partition
      PROVE  Firm(q, log[q], shadow, sess.recreated, cons'[q], {committed'[q], sent'[q]},
                  Backed(q)', InHand(q)')
  <2>1. Firm(q, log[q], shadow, sess.recreated, cons[q], {committed[q], sent[q]},
             Backed(q)', InHand(q)')
    BY <1>1, <1>2, HeldSound DEF Sound
  <2>2. LogOK(log[q])
    BY SoundTyped
  <2> DEFINE new == {committed'[q], sent'[q]}
             coms == {committed[q], sent[q]}
  <2>3. \A x \in new : x \in coms \/ x = NoOffset
    BY <1>1
  <2> HIDE DEF new, coms
  <2>4. Firm(q, log[q], shadow, sess.recreated, cons[q], new, Backed(q)', InHand(q)')
    BY <2>1, <2>2, <2>3, FirmComs DEF coms
  <2> QED
    BY <1>1, <2>4 DEF new
<1>3. InSession' => InSession
  BY <1>1 DEF InSession
<1> QED
  BY <1>1, <1>2, <1>3, ConsumerSkip

LEMMA JoinTimesOutSkip ==
    ASSUME KafkaInv, SkipInv, JoinTimesOut
    PROVE  SkipInv'
<1>1. /\ UNCHANGED <<log, topic, committed, sent, rows, buf, pub, shadow, cons, excused, gap>>
      /\ sess'.tid = sess.tid /\ sess'.recreated = sess.recreated /\ InSession
  <2>1. sess \in [phase : {"down", "join", "up", "stopped"}, cid : BOOLEAN, tid : Nat,
                  recreated : BOOLEAN, failed : BOOLEAN]
    BY DEF KafkaInv, Typed, SessionTyped
  <2> QED
    BY <2>1 DEF JoinTimesOut, brokerVars, historyVars, InSession
<1>2. ASSUME NEW q \in Partition
      PROVE  Firm(q, log[q], shadow, sess.recreated, cons'[q], {committed'[q], sent'[q]},
                  Backed(q)', InHand(q)')
  BY <1>1, HeldSound DEF Sound
<1> QED
  BY <1>1, <1>2, ConsumerSkip

LEMMA RevokeSkip ==
    ASSUME KafkaInv, SkipInv, Revoke
    PROVE  SkipInv'
<1>1. /\ UNCHANGED <<log, topic, committed, sent, rows, sess, buf, pub, shadow, excused, gap>>
      /\ InSession
  BY DEF Revoke, brokerVars, historyVars, Looping, Running, InSession
<1>2. ASSUME NEW q \in Partition
      PROVE  /\ Redirected(cons'[q], cons[q]) /\ ~cons'[q].assigned
  <2>1. cons[q] \in Consumer
    BY SoundTyped
  <2>2. cons'[q] = [cons[q] EXCEPT !.assigned = FALSE, !.muted = FALSE,
                                   !.notice = @ \cup {"revoked"}]
    BY DEF Revoke
  <2> QED
    BY <2>1, <2>2 DEF Consumer, Redirected
<1>3. ASSUME NEW q \in Partition
      PROVE  /\ cons'[q].fr.loaded \subseteq cons[q].fr.loaded
             /\ Firm(q, log[q], shadow, sess.recreated, cons'[q], {committed'[q], sent'[q]},
                     Backed(q)', InHand(q)')
  <2>1. Firm(q, log[q], shadow, sess.recreated, cons[q], {committed[q], sent[q]},
             Backed(q)', InHand(q)')
    BY <1>1, HeldSound DEF Sound
  <2>2. Judged(sess.recreated, cons'[q]) /\ ~Through(sess.recreated, cons'[q])
    BY <1>2, <2>1 DEF Firm, Aware, Judged, Redirected, Through
  <2>3. Firm(q, log[q], shadow, sess.recreated, cons'[q], {committed[q], sent[q]},
             Backed(q)', InHand(q)')
    BY <1>2, <2>1, <2>2, FirmAt
  <2> QED
    BY <1>1, <1>2, <2>3 DEF Redirected
<1>4. pub.phase = "none"
  BY DEF Revoke, Looping
<1> QED
  BY <1>1, <1>3, <1>4, ConsumerSkip

\* The end of the log is clear if what the policy skips is excused.
LEMMA EndClear ==
    ASSUME KafkaInv, RowInv, NEW p \in Partition, NEW H, NEW e, NEW K, InHand(p) \subseteq K,
           RetainedRecords(p) \ Accounted \subseteq K
    PROVE  Clear(p, log[p], H, e, High(p), K)
<1>1. \A o \in log[p].low .. (Len(log[p].recs) - 1) : <<p, log[p].recs[o + 1]>> \in K
  <2> TAKE o \in log[p].low .. (Len(log[p].recs) - 1)
  <2>1. <<p, log[p].recs[o + 1]>> \in RetainedRecords(p)
    BY DEF RetainedRecords, Retained, High, RecordAt
  <2>2. Accounted \subseteq InHand(p)
    BY HandsAccounted
  <2> QED
    BY <2>1, <2>2
<1>2. LogOK(log[p])
  BY SoundTyped
<1> QED
  BY <1>1, <1>2, EndBounds DEF Clear, High

\* Where a partition without evidence joins.
LEMMA JoinClear ==
    ASSUME KafkaInv, RowInv, NEW p \in Partition, NEW H, NEW e, NEW K, InHand(p) \subseteq K,
           PolicySkips(p) \subseteq K, Clear(p, log[p], H, e, committed[p], K)
    PROVE  Clear(p, log[p], H, e, JoinPosition(p), K)
<1>1. CASE committed[p] # NoOffset
  BY <1>1 DEF JoinPosition
<1>2. CASE committed[p] = NoOffset /\ UseEarliest
  <2>1. LogOK(log[p]) /\ log[p].low \in Int
    BY SoundTyped, LogBounds
  <2>2. log[p].low <= log[p].low
    BY <2>1
  <2> QED
    BY <1>2, <2>1, <2>2, ClearLow DEF JoinPosition
<1>3. CASE committed[p] = NoOffset /\ ~UseEarliest
  BY <1>3, EndClear DEF JoinPosition, PolicySkips
<1> QED
  BY <1>1, <1>2, <1>3

\* The group's offset of a partition that has nothing else is clear.
LEMMA UngovernedClear ==
    ASSUME NEW p, NEW l, NEW H, NEW rec, NEW c, NEW coms, NEW S, NEW K, S \subseteq K,
           Steady(p, l, H, rec, c, coms, S, K), ~rec, c.fr = NoEntry, c.next = NoOffset,
           NEW com \in coms
    PROVE  Clear(p, l, H, c.epoch, com, K)
<1>1. Clear(p, l, H, c.epoch, com, S)
  BY DEF Steady, Trusting, CommitFirm
<1> QED
  BY <1>1, ClearWeaken

LEMMA AssignSkip ==
    ASSUME KafkaInv, SkipInv, Assign
    PROVE  SkipInv'
<1>1. /\ UNCHANGED <<log, topic, committed, sent, rows, sess, buf, pub, shadow, gap>>
      /\ InSession /\ pub.phase = "none" /\ excused \subseteq excused'
      /\ \A q \in Partition : q \in Ungoverned => PolicySkips(q) \subseteq excused'
  BY DEF Assign, brokerVars, Looping, Running, InSession
<1>2. ASSUME NEW q \in Partition
      PROVE  /\ Redirected(cons'[q], cons[q]) /\ "assigned" \in cons'[q].notice
             /\ cons'[q].pos = JoinPosition(q)
  <2>1. cons[q] \in Consumer
    BY SoundTyped
  <2>2. cons'[q] = [cons[q] EXCEPT !.assigned = TRUE, !.pos = JoinPosition(q),
                                   !.notice = @ \cup {"assigned"}]
    BY DEF Assign
  <2> QED
    BY <2>1, <2>2 DEF Consumer, Redirected
<1>3. ASSUME NEW q \in Partition
      PROVE  /\ cons'[q].fr.loaded \subseteq cons[q].fr.loaded
             /\ Firm(q, log[q], shadow, sess.recreated, cons'[q], {committed'[q], sent'[q]},
                     Backed(q)', InHand(q)')
  <2> DEFINE S == Backed(q)'
             K == InHand(q)'
             l == log[q]
             c == cons[q]
             d == cons'[q]
             rec == sess.recreated
             coms == {committed[q], sent[q]}
  <2>1. Firm(q, l, shadow, rec, c, coms, S, K) /\ S \subseteq K /\ InHand(q) \subseteq K
    BY <1>1, HeldSound DEF Sound
  <2>2. Judged(rec, d)
    BY <1>2, <2>1 DEF Firm, Aware, Judged, Redirected
  <2>3. ASSUME ~d.astray, Through(rec, d)
        PROVE  Clear(q, l, shadow, d.epoch, d.pos, K)
    <3>1. SafeFloor(d) = NoOffset /\ d.fr = NoEntry /\ ~rec
      BY <1>2, <2>3 DEF Through
    <3>2. SafeFloor(c) = NoOffset /\ c.fr = NoEntry /\ ~c.astray /\ d.epoch = c.epoch
      BY <1>2, <2>3, <3>1 DEF Redirected, SafeFloor
    <3>3. c.next = NoOffset
      BY <3>2, FloorOf, SoundTyped
    <3>4. PolicySkips(q) \subseteq K
      BY <1>1, <3>1, <3>2 DEF Ungoverned, InHand, Backed
    <3>5. committed[q] \in coms /\ Steady(q, l, shadow, rec, c, coms, S, K)
      BY <2>1, <3>2 DEF Firm
    <3> HIDE DEF S, K, coms
    <3>6. Clear(q, l, shadow, c.epoch, committed[q], K)
      BY <2>1, <3>1, <3>2, <3>3, <3>5, UngovernedClear
    <3>7. RowInv
      BY DEF SkipInv
    <3> HIDE DEF d
    <3>8. Clear(q, l, shadow, c.epoch, JoinPosition(q), K)
      BY <2>1, <3>4, <3>6, <3>7, JoinClear
    <3> QED
      BY <1>2, <3>2, <3>8 DEF d
  <2> HIDE DEF S, K, coms
  <2>4. Firm(q, l, shadow, rec, d, coms, S, K)
    BY <1>2, <2>1, <2>2, <2>3, FirmAt
  <2> QED
    BY <1>1, <1>2, <2>4 DEF Redirected, S, K, coms
<1> QED
  BY <1>1, <1>3, ConsumerSkip

LEMMA ResetPositionSkip ==
    ASSUME KafkaInv, SkipInv, NEW p \in Partition, ResetPosition(p)
    PROVE  SkipInv'
<1>1. /\ UNCHANGED <<log, topic, committed, sent, rows, sess, buf, pub, shadow, gap>>
      /\ InSession /\ excused \subseteq excused' /\ cons[p].assigned
      /\ cons[p].gate = Active /\ ~UseEarliest => RetainedRecords(p) \ Accounted \subseteq excused'
  BY DEF ResetPosition, brokerVars, Running, InSession
<1> DEFINE x == IF UseEarliest THEN log[p].low ELSE High(p)
<1>2. /\ \A q \in Partition : q # p => cons'[q] = cons[q]
      /\ Redirected(cons'[p], cons[p]) /\ cons'[p].notice = cons[p].notice
      /\ cons'[p].assigned = cons[p].assigned /\ cons'[p].pos = x
  <2>1. cons \in [Partition -> Consumer] /\ cons[p] \in Consumer
    BY DEF KafkaInv, Typed, ConsTyped
  <2>2. cons' = [cons EXCEPT ![p] = [cons[p] EXCEPT !.pos = x]]
    BY DEF ResetPosition
  <2> HIDE DEF x
  <2>3. cons'[p] = [cons[p] EXCEPT !.pos = x] /\ \A q \in Partition : q # p => cons'[q] = cons[q]
    BY <2>1, <2>2
  <2> QED
    BY <2>1, <2>3 DEF Consumer, Redirected
<1>3. ASSUME NEW q \in Partition
      PROVE  Firm(q, log[q], shadow, sess.recreated, cons[q], {committed[q], sent[q]},
                  Backed(q)', InHand(q)')
  BY <1>1, HeldSound DEF Sound
<1>4. Firm(p, log[p], shadow, sess.recreated, cons'[p], {committed[p], sent[p]},
           Backed(p)', InHand(p)')
  <2> DEFINE d == cons'[p]
             rec == sess.recreated
             K == InHand(p)'
  <2>1. Judged(rec, d)
    BY <1>2, <1>3 DEF Firm, Aware, Judged, Redirected
  <2>2. ASSUME Through(rec, d)
        PROVE  Clear(p, log[p], shadow, d.epoch, x, K)
    <3>1. cons[p].gate = Active
      BY <1>2, <2>2 DEF Through, Redirected
    <3>2. LogOK(log[p]) /\ log[p].low \in Int /\ log[p].low <= log[p].low
      BY SoundTyped, LogBounds
    <3>3. InHand(p) \subseteq K /\ RowInv
      BY <1>1, HeldSound DEF SkipInv
    <3>4. ~UseEarliest => RetainedRecords(p) \ Accounted \subseteq K
      BY <1>1, <3>1 DEF InHand, Backed
    <3> HIDE DEF K
    <3>5. CASE UseEarliest
      BY <3>2, <3>5, ClearLow
    <3>6. CASE ~UseEarliest
      BY <3>3, <3>4, <3>6, EndClear
    <3> QED
      BY <3>5, <3>6
  <2> HIDE DEF K
  <2> QED
    BY <1>2, <1>3, <2>1, <2>2, FirmAt DEF K
<1>5. ASSUME NEW q \in Partition
      PROVE  /\ cons'[q].fr.loaded \subseteq cons[q].fr.loaded
             /\ Firm(q, log[q], shadow, sess.recreated, cons'[q], {committed'[q], sent'[q]},
                     Backed(q)', InHand(q)')
             /\ cons'[q].next = cons[q].next /\ cons'[q].epoch = cons[q].epoch
             /\ cons'[q].astray = cons[q].astray
  <2>1. CASE q = p
    BY <1>1, <1>2, <1>4, <2>1 DEF Redirected
  <2>2. CASE q # p
    BY <1>1, <1>2, <1>3, <2>2
  <2> QED
    BY <2>1, <2>2
<1> QED
  BY <1>1, <1>5, ConsumerSkip

\* The log moves under a session or between two of them.
LEMMA LogSkip ==
    ASSUME KafkaInv, KafkaInv', SkipInv,
           UNCHANGED <<committed, sent, rows, sess, cons, buf, pub, excused, gap>>,
           shadow \subseteq shadow',
           \A p \in Partition : Numbered(log'[p]) /\ Follows(p, log[p], log'[p], shadow'),
           topic' = topic \/ (~InSession /\ \A p \in Partition : Len(log'[p].recs) = 0)
    PROVE  SkipInv'
<1>1. NumberInv' /\ RowInv'
  BY LogMoves DEF SkipInv
<1>2. ASSUME InSession, NEW p \in Partition
      PROVE  Sound(p, log'[p], shadow', sess.recreated, cons[p], {committed[p], sent[p]},
                   pub.spans[p], Backed(p)', InHand(p)')
  <2> DEFINE l == log[p]
             m == log'[p]
             c == cons[p]
             rec == sess.recreated
             H == shadow
             I == shadow'
             S == Backed(p)
             T == Backed(p)'
             K == InHand(p)
             L == InHand(p)'
             coms == {committed[p], sent[p]}
             span == pub.spans[p]
  <2>1. Sound(p, l, H, rec, c, coms, span, S, K)
    BY <1>2 DEF SkipInv, SessionInv
  <2>2. LogOK(l) /\ LogOK(m) /\ c \in Consumer /\ coms \subseteq Int /\ span \in Span
    <3>1. BrokerTyped'
      BY DEF KafkaInv, Typed
    <3> QED
      BY <3>1, SoundTyped DEF BrokerTyped
  <2>3. Follows(p, l, m, I) /\ H \subseteq I
    OBVIOUS
  <2>4. ASSUME NEW o \in m.low .. (Len(m.recs) - 1),
               o \in l.low .. (Len(l.recs) - 1), m.recs[o + 1] = l.recs[o + 1]
        PROVE  /\ <<p, l.recs[o + 1]>> \in S => <<p, l.recs[o + 1]>> \in T
               /\ <<p, l.recs[o + 1]>> \in K => <<p, l.recs[o + 1]>> \in L
    BY <1>1, <2>4, LogStock DEF SkipInv
  <2>5. c.epoch \in Nat /\ c.epoch <= l.epoch
    BY <2>1, <2>2 DEF Sound, Firm, Aware, Consumer
  <2>6. l.epoch \in Nat /\ m.epoch \in Nat /\ l.epoch <= m.epoch
    BY <2>2, <2>3, LogBounds DEF Follows
  <2>7. span.next \in Int
    BY <2>2, Constants DEF Span
  <2> HIDE DEF l, m, c, rec, H, I, S, T, K, L, coms, span
  <2>8. Carries(p, l, m, H, I, c.epoch, S, T)
    BY <2>2, <2>3, <2>4, <2>5, FollowsCarries
  <2>9. Carries(p, l, m, H, I, c.epoch, K, L)
    BY <2>2, <2>3, <2>4, <2>5, FollowsCarries
  <2>10. Firm(p, m, I, rec, c, coms, T, L)
    BY <2>1, <2>2, <2>6, <2>8, <2>9, FirmCarries DEF Sound
  <2>11. ~c.astray => Clear(p, m, I, c.epoch, span.next, L)
    BY <2>1, <2>7, <2>9 DEF Sound, Carries
  <2>12. Sound(p, m, I, rec, c, coms, span, T, L)
    BY <2>1, <2>10, <2>11 DEF Sound
  <2> QED
    BY <2>12 DEF l, m, c, rec, H, I, S, T, K, L, coms, span
<1>3. InSession' => InSession
  BY DEF InSession
<1>4. InSession => /\ sess.tid \in {NoTopicId, topic}
                   /\ \A p \in Partition : cons[p].fr.loaded \subseteq LoadedOffsets(rows, p, TRUE, sess.tid)
  BY DEF SkipInv, SessionInv, LoadedIn
<1>5. SessionInv'
  BY <1>2, <1>3, <1>4, SessionNext
<1> QED
  BY <1>1, <1>5 DEF SkipInv

LEMMA ProduceSkip ==
    ASSUME KafkaInv, KafkaInv', SkipInv, NEW p \in Partition, Produce(p)
    PROVE  SkipInv'
<1> DEFINE l == log[p]
           m == [l EXCEPT !.born = @ + 1, !.recs = Append(@, l.born + 1)]
<1>1. LogOK(l) /\ l.born < MaxRecords /\ Numbered(l)
  BY DEF KafkaInv, Typed, BrokerTyped, Produce, SkipInv, NumberInv
<1>2. log' = [log EXCEPT ![p] = m]
  BY DEF Produce
<1>3. shadow \subseteq shadow' /\ (Len(l.recs) < l.cut => <<p, l.born + 1>> \in shadow')
  BY DEF Produce, High
<1> HIDE DEF m
<1>4. Numbered(m) /\ Follows(p, l, m, shadow')
  BY <1>1, <1>3, ProducedFollows DEF m
<1>5. \A q \in Partition : log'[q] = IF q = p THEN m ELSE log[q]
  BY <1>2 DEF KafkaInv, Typed, BrokerTyped
<1>6. \A q \in Partition : Numbered(log'[q]) /\ Follows(q, log[q], log'[q], shadow')
  <2> TAKE q \in Partition
  <2>1. LogOK(log[q]) /\ Numbered(log[q])
    BY DEF KafkaInv, Typed, BrokerTyped, SkipInv, NumberInv
  <2>2. Follows(q, log[q], log[q], shadow')
    BY <2>1, FollowsItself
  <2> QED
    BY <1>4, <1>5, <2>1, <2>2
<1> QED
  BY <1>3, <1>6, LogSkip DEF Produce

\* A log that only loses records.
LEMMA ShrinkSkip ==
    ASSUME KafkaInv, KafkaInv', SkipInv, NEW p \in Partition,
           UNCHANGED <<committed, sent, rows, sess, cons, buf, pub, excused, gap, shadow, topic>>,
           NEW m, log' = [log EXCEPT ![p] = m], TopOf(log[p]) <= TopOf(m),
           Len(m.recs) > m.low => log[p].low <= m.low,
           Len(m.recs) <= Len(log[p].recs), m.born = log[p].born,
           \A k \in 1 .. Len(m.recs) : m.recs[k] = log[p].recs[k],
           log[p].epoch <= m.epoch, m.epoch = log[p].epoch => Len(log[p].recs) <= Len(m.recs)
    PROVE  SkipInv'
<1>1. \A q \in Partition : log'[q] = IF q = p THEN m ELSE log[q]
  BY DEF KafkaInv, Typed, BrokerTyped
<1>2. \A q \in Partition : LogOK(log[q]) /\ LogOK(log'[q]) /\ Numbered(log[q])
  BY DEF KafkaInv, Typed, BrokerTyped, SkipInv, NumberInv
<1>3. LogOK(m)
  BY <1>1, <1>2
<1>4. Numbered(m) /\ Follows(p, log[p], m, shadow')
  BY <1>2, <1>3, ShrunkFollows
<1>5. \A q \in Partition : Numbered(log'[q]) /\ Follows(q, log[q], log'[q], shadow')
  <2> TAKE q \in Partition
  <2>1. Follows(q, log[q], log[q], shadow')
    BY <1>2, FollowsItself
  <2> QED
    BY <1>1, <1>2, <1>4, <2>1
<1> QED
  BY <1>5, LogSkip

LEMMA RetainSkip ==
    ASSUME KafkaInv, KafkaInv', SkipInv, NEW p \in Partition, Retain(p)
    PROVE  SkipInv'
<1> DEFINE l == log[p]
           m == [l EXCEPT !.low = @ + 1]
<1>1. LogOK(l)
  BY SoundTyped
<1>2. log' = [log EXCEPT ![p] = m]
  BY DEF Retain
<1>3. /\ m.low = l.low + 1 /\ m.recs = l.recs /\ m.born = l.born /\ m.epoch = l.epoch
      /\ m.cut = l.cut
  BY <1>1 DEF LogOK, Log
<1>4. l.low \in Nat /\ Len(l.recs) \in Nat /\ l.epoch \in Nat /\ TopOf(l) \in Nat
  BY <1>1, LogBounds
<1> HIDE DEF m
<1>5. /\ TopOf(l) <= TopOf(m) /\ (Len(m.recs) > m.low => l.low <= m.low)
      /\ Len(m.recs) <= Len(l.recs) /\ m.born = l.born
      /\ \A k \in 1 .. Len(m.recs) : m.recs[k] = l.recs[k]
      /\ l.epoch <= m.epoch /\ (m.epoch = l.epoch => Len(l.recs) <= Len(m.recs))
  BY <1>3, <1>4 DEF TopOf
<1> QED
  BY <1>2, <1>5, ShrinkSkip DEF Retain

LEMMA TruncateSkip ==
    ASSUME KafkaInv, KafkaInv', SkipInv, NEW p \in Partition, NEW keep, Truncate(p, keep)
    PROVE  SkipInv'
<1> DEFINE l == log[p]
           cut == Max({l.cut, Len(l.recs)})
           m == [l EXCEPT !.recs = SubSeq(@, 1, keep), !.epoch = @ + 1, !.cut = cut]
<1>1. LogOK(l) /\ l.low \in Nat /\ Len(l.recs) \in Nat /\ l.epoch \in Nat /\ TopOf(l) \in Nat
      /\ l.recs \in Seq(1 .. MaxRecords) /\ l.cut \in Nat
  BY SoundTyped, LogBounds DEF LogOK, Log
<1>2. log' = [log EXCEPT ![p] = m]
  BY DEF Truncate, High
<1>3. keep \in Nat /\ keep <= Len(l.recs) /\ l.low <= keep
  BY <1>1 DEF Truncate, Retained, High
<1>4. cut = IF l.cut >= Len(l.recs) THEN l.cut ELSE Len(l.recs)
  BY <1>1, MaxOfTwo
<1> HIDE DEF cut
<1> DEFINE s == SubSeq(l.recs, 1, keep)
<1>5. Len(s) = keep /\ \A k \in 1 .. keep : s[k] = l.recs[k]
  BY <1>1, <1>3, SubSeqProperties
<1> HIDE DEF s
<1>6. m.low = l.low /\ m.recs = s /\ m.born = l.born /\ m.epoch = l.epoch + 1 /\ m.cut = cut
  BY <1>1 DEF LogOK, Log, s
<1> HIDE DEF m
<1>7. /\ TopOf(l) <= TopOf(m) /\ (Len(m.recs) > m.low => l.low <= m.low)
      /\ Len(m.recs) <= Len(l.recs) /\ m.born = l.born
      /\ \A k \in 1 .. Len(m.recs) : m.recs[k] = l.recs[k]
      /\ l.epoch <= m.epoch /\ (m.epoch = l.epoch => Len(l.recs) <= Len(m.recs))
  BY <1>1, <1>3, <1>4, <1>5, <1>6 DEF TopOf
<1> QED
  BY <1>2, <1>7, ShrinkSkip DEF Truncate

LEMMA RecreateSkip ==
    ASSUME KafkaInv, KafkaInv', SkipInv, Recreate
    PROVE  SkipInv'
<1>1. ASSUME NEW p \in Partition
      PROVE  /\ Numbered(log'[p]) /\ Follows(p, log[p], log'[p], shadow')
             /\ Len(log'[p].recs) = 0
  <2> DEFINE l == log[p]
             cut == Max({l.cut, Len(l.recs)})
             m == [l EXCEPT !.low = 0, !.recs = <<>>, !.epoch = @ + 1, !.cut = cut]
  <2>1. LogOK(l) /\ Len(l.recs) \in Nat /\ l.epoch \in Nat /\ TopOf(l) \in Nat
        /\ l.cut \in Nat /\ Numbered(l)
    BY SoundTyped, LogBounds DEF LogOK, Log, SkipInv, NumberInv
  <2>2. log'[p] = m
    BY DEF Recreate, High
  <2>3. LogOK(log'[p])
    BY DEF KafkaInv, Typed, BrokerTyped
  <2>4. cut = IF l.cut >= Len(l.recs) THEN l.cut ELSE Len(l.recs)
    BY <2>1, MaxOfTwo
  <2> HIDE DEF cut
  <2>5. m.low = 0 /\ m.recs = <<>> /\ m.born = l.born /\ m.epoch = l.epoch + 1 /\ m.cut = cut
    BY <2>1 DEF LogOK, Log
  <2> HIDE DEF m
  <2>6. Len(m.recs) = 0
    BY <2>5
  <2>7. /\ TopOf(l) <= TopOf(m) /\ (Len(m.recs) > m.low => l.low <= m.low)
        /\ Len(m.recs) <= Len(l.recs) /\ m.born = l.born
        /\ \A k \in 1 .. Len(m.recs) : m.recs[k] = l.recs[k]
        /\ l.epoch <= m.epoch /\ (m.epoch = l.epoch => Len(l.recs) <= Len(m.recs))
    BY <2>1, <2>4, <2>5, <2>6 DEF TopOf
  <2>8. Numbered(m) /\ Follows(p, l, m, shadow')
    BY <2>1, <2>2, <2>3, <2>7, ShrunkFollows
  <2> QED
    BY <2>2, <2>6, <2>8
<1>2. ~InSession
  BY DEF Recreate, InSession
<1> QED
  BY <1>1, <1>2, LogSkip DEF Recreate

------------------------------------------------------------------------------
(* Steps that end a session or happen between two.                         *)

LEMMA OutOfSession ==
    ASSUME NumberInv', RowInv', ~InSession'
    PROVE  SkipInv'
BY SessionNext DEF SkipInv

LEMMA CrashSkip ==
    ASSUME KafkaInv, SkipInv, Crash
    PROVE  SkipInv'
<1>1. NumberInv' /\ RowInv'
  BY CrashRows DEF SkipInv
<1>2. sess'.phase = "down"
  BY DEF Crash, KafkaInv, Typed, SessionTyped
<1> QED
  BY <1>1, <1>2, OutOfSession DEF InSession

LEMMA LoseBlobSkip ==
    ASSUME KafkaInv, SkipInv, NEW i \in DOMAIN rows, LoseBlob(i)
    PROVE  SkipInv'
<1>1. NumberInv' /\ RowInv'
  BY LoseBlobRows DEF SkipInv
<1>2. sess'.phase = "down"
  BY DEF LoseBlob
<1> QED
  BY <1>1, <1>2, OutOfSession DEF InSession

------------------------------------------------------------------------------
(* The loop: records, and the start of a publication.                      *)

\* The log and the rows stay, what is in the loop's hands changes.
LEMMA HandsSkip ==
    ASSUME KafkaInv, KafkaInv', SkipInv, InSession,
           UNCHANGED <<log, topic, committed, sent, rows, excused, gap, shadow>>,
           sess'.tid = sess.tid, sess'.recreated = sess.recreated,
           pub'.phase \in {"swap", "rollback"} <=> pub.phase \in {"swap", "rollback"},
           NEW B, ToSet(buf') \cup ToSet(pub'.batch) = B,
           \A r \in B : r \in Everywhere \/ \E p \in Partition : r \in RetainedRecords(p),
           \A p \in Partition :
               /\ cons'[p].fr.loaded \subseteq cons[p].fr.loaded
               /\ Sound(p, log[p], shadow, sess.recreated, cons'[p], {committed[p], sent[p]},
                        pub'.spans[p], Backed(p), Backed(p) \cup B)
    PROVE  SkipInv'
<1>1. NumberInv' /\ RowInv'
  BY RowsStay DEF SkipInv
<1>2. SettledRows' = SettledRows /\ \A i \in SettledRows : Remains(rows[i], rows'[i])
  BY DEF SettledRows, InStock, Remains
<1>3. RowInv /\ SessionInv
  BY DEF SkipInv
<1>4. ASSUME NEW p \in Partition
      PROVE  /\ cons'[p].fr.loaded \subseteq LoadedOffsets(rows', p, TRUE, sess'.tid)
             /\ Sound(p, log'[p], shadow', sess'.recreated, cons'[p], {committed'[p], sent'[p]},
                      pub'.spans[p], Backed(p)', InHand(p)')
  <2> DEFINE S == Backed(p)
             K == Backed(p) \cup B
             T == Backed(p)'
             L == InHand(p)'
             coms == {committed[p], sent[p]}
             c == cons'[p]
             span == pub'.spans[p]
             l == log[p]
             rec == sess.recreated
             H == shadow
  <2>1. S \subseteq T /\ cons[p].fr.loaded \subseteq LoadedOffsets(rows', p, TRUE, sess'.tid)
    <3>1. cons[p].fr.loaded \subseteq LoadedOffsets(rows, p, TRUE, sess.tid)
      BY <1>3 DEF SessionInv, LoadedIn
    <3> QED
      BY <1>2, <1>3, <3>1, StockGrows
  <2>2. (\A r \in S : r[1] = p => r \in T) /\ \A r \in K : r[1] = p => r \in L
    BY <2>1 DEF InHand
  <2>3. LogOK(l) /\ coms \subseteq Int
    BY SoundTyped
  <2>4. c \in Consumer /\ span \in Span
    BY DEF KafkaInv, Typed, ConsTyped, SessionTyped
  <2>5. Sound(p, l, H, rec, c, coms, span, S, K)
    OBVIOUS
  <2> HIDE DEF S, K, T, L, coms, c, span, l, rec, H
  <2>6. Sound(p, l, H, rec, c, coms, span, T, L)
    BY <2>2, <2>3, <2>4, <2>5, SoundLocal
  <2> QED
    BY <2>1, <2>6 DEF S, K, T, L, coms, c, span, l, rec, H
<1>5. sess'.tid \in {NoTopicId, topic'}
  BY <1>3 DEF SessionInv
<1>6. SessionInv'
  BY <1>4, <1>5, SessionNext
<1> QED
  BY <1>1, <1>6 DEF SkipInv

\* The span goes into the publication.
LEMMA SpanCleared ==
    ASSUME NEW p, NEW l, LogOK(l), NEW H, NEW rec, NEW c \in Consumer,
           c.next = NoOffset => c.span = NoSpan, NEW coms, NEW S, NEW K,
           Firm(p, l, H, rec, c, coms, S, K)
    PROVE  /\ Sound(p, l, H, rec, [c EXCEPT !.span = NoSpan], coms, c.span, S, K)
           /\ [c EXCEPT !.span = NoSpan].fr = c.fr
<1> DEFINE e == [c EXCEPT !.span = NoSpan]
<1>1. NoSpan \in Span /\ NoSpan.next = NoOffset
  BY Constants DEF NoSpan, Span
<1>2. /\ e.next = c.next /\ e.span = NoSpan /\ e.fr = c.fr /\ e.gate = c.gate /\ e.epoch = c.epoch
      /\ e.pos = c.pos /\ e.assigned = c.assigned /\ e.notice = c.notice
      /\ e.reset = c.reset /\ e.recFloor = c.recFloor /\ e.resetFloor = c.resetFloor
      /\ e.astray = c.astray /\ e \in Consumer
  BY <1>1 DEF Consumer
<1> HIDE DEF e
<1>3. Aware(l, rec, e) /\ Started(c.span)
  <2>1. Started(NoSpan)
    BY DEF Started
  <2> QED
    BY <1>2, <2>1 DEF Firm, Aware, Judged
<1>4. ASSUME Steady(p, l, H, rec, c, coms, S, K)
      PROVE  Steady(p, l, H, rec, e, coms, S, K)
  <2>1. Clear(p, l, H, e.epoch, e.span.next, K)
    BY <1>1, <1>2, ClearNone
  <2>2. FloorFirm(p, l, H, e, S) /\ GateFirm(p, l, H, e, K)
    BY <1>2, <1>4 DEF Steady, FloorFirm, GateFirm
  <2>3. Through(rec, e) => Through(rec, c)
    <3>1. SafeFloor(e) = NoOffset => SafeFloor(c) = NoOffset
      BY <1>1, <1>2, FloorOf
    <3> QED
      BY <1>2, <3>1 DEF Through
  <2>4. Trusting(rec, e) <=> Trusting(rec, c)
    BY <1>2 DEF Trusting, Untrusted
  <2>5. \A com : CommitFirm(p, l, H, c, com, S) <=> CommitFirm(p, l, H, e, com, S)
    BY <1>2 DEF CommitFirm
  <2> QED
    BY <1>2, <1>4, <2>1, <2>2, <2>3, <2>4, <2>5 DEF Steady
<1>5. ~c.astray => Clear(p, l, H, c.epoch, c.span.next, K)
  BY DEF Firm, Steady
<1> QED
  BY <1>2, <1>3, <1>4, <1>5 DEF Firm, Sound, e

LEMMA RollSkip ==
    ASSUME KafkaInv, KafkaInv', SkipInv, NEW cs, NEW batch, NEW final,
           Roll(cs, batch, final), pub.phase = "none", InSession,
           UNCHANGED <<log, topic, committed, sent, rows, excused, gap, shadow>>,
           sess'.tid = sess.tid, sess'.recreated = sess.recreated,
           \A r \in ToSet(batch) : r \in Everywhere \/ \E p \in Partition : r \in RetainedRecords(p),
           \A p \in Partition :
               /\ cs[p] \in Consumer /\ cs[p].fr.loaded \subseteq cons[p].fr.loaded
               /\ cs[p].next = NoOffset => cs[p].span = NoSpan
               /\ Firm(p, log[p], shadow, sess.recreated, cs[p], {committed[p], sent[p]},
                       Backed(p), Backed(p) \cup ToSet(batch))
    PROVE  SkipInv'
<1>1. /\ pub'.phase = "persist" /\ pub'.batch = batch /\ buf' = <<>>
      /\ \A p \in Partition : /\ pub'.spans[p] = cs[p].span
                              /\ cons'[p] = [cs[p] EXCEPT !.span = NoSpan]
  BY DEF Roll
<1> DEFINE B == ToSet(batch)
<1>2. ToSet(buf') \cup ToSet(pub'.batch) = B
  BY <1>1, NoPubTyped
<1>3. ASSUME NEW p \in Partition
      PROVE  /\ cons'[p].fr.loaded \subseteq cons[p].fr.loaded
             /\ Sound(p, log[p], shadow, sess.recreated, cons'[p], {committed[p], sent[p]},
                      pub'.spans[p], Backed(p), Backed(p) \cup B)
  <2> DEFINE c == cs[p]
             S == Backed(p)
             K == Backed(p) \cup B
             coms == {committed[p], sent[p]}
             l == log[p]
             rec == sess.recreated
             H == shadow
  <2>1. c \in Consumer /\ (c.next = NoOffset => c.span = NoSpan) /\ Firm(p, l, H, rec, c, coms, S, K)
    OBVIOUS
  <2>2. LogOK(l)
    BY SoundTyped
  <2> HIDE DEF c, S, K, coms, l, rec, H
  <2>3. /\ Sound(p, l, H, rec, [c EXCEPT !.span = NoSpan], coms, c.span, S, K)
        /\ [c EXCEPT !.span = NoSpan].fr = c.fr
    BY <2>1, <2>2, SpanCleared
  <2> QED
    BY <1>1, <2>3 DEF c, S, K, coms, l, rec, H
<1> HIDE DEF B
<1>4. \A r \in B : r \in Everywhere \/ \E p \in Partition : r \in RetainedRecords(p)
  BY DEF B
<1> QED
  BY <1>1, <1>2, <1>3, <1>4, HandsSkip

\* The loop between two publications.
LEMMA LoopFirm ==
    ASSUME KafkaInv, SkipInv, pub.phase = "none", InSession, NEW p \in Partition
    PROVE  /\ InHand(p) = Backed(p) \cup ToSet(buf) /\ Backed(p) \subseteq InHand(p)
           /\ Firm(p, log[p], shadow, sess.recreated, cons[p], {committed[p], sent[p]},
                   Backed(p), Backed(p) \cup ToSet(buf))
<1>1. ToSet(pub.batch) = {}
  BY NoPubTyped DEF KafkaInv, ShapeInv
<1> QED
  BY <1>1 DEF InHand, SkipInv, SessionInv, Sound

LEMMA RollBufferSkip ==
    ASSUME KafkaInv, KafkaInv', SkipInv, NEW final, Roll(cons, buf, final), Looping,
           UNCHANGED <<log, topic, committed, sent, rows, excused, gap, shadow>>,
           sess'.tid = sess.tid, sess'.recreated = sess.recreated
    PROVE  SkipInv'
<1>1. InSession /\ pub.phase = "none"
  BY DEF Looping, Running, InSession
<1>2. \A p \in Partition :
               /\ cons[p] \in Consumer /\ cons[p].fr.loaded \subseteq cons[p].fr.loaded
               /\ cons[p].next = NoOffset => cons[p].span = NoSpan
               /\ Firm(p, log[p], shadow, sess.recreated, cons[p], {committed[p], sent[p]},
                       Backed(p), Backed(p) \cup ToSet(buf))
  BY <1>1, SoundTyped, LoopFirm
<1>3. \A r \in ToSet(buf) : r \in Everywhere
  BY DEF Everywhere
<1> DEFINE cs == cons
           batch == buf
<1>4. /\ Roll(cs, batch, final)
      /\ \A r \in ToSet(batch) : r \in Everywhere \/ \E p \in Partition : r \in RetainedRecords(p)
      /\ \A p \in Partition :
               /\ cs[p] \in Consumer /\ cs[p].fr.loaded \subseteq cons[p].fr.loaded
               /\ cs[p].next = NoOffset => cs[p].span = NoSpan
               /\ Firm(p, log[p], shadow, sess.recreated, cs[p], {committed[p], sent[p]},
                       Backed(p), Backed(p) \cup ToSet(batch))
  BY <1>2, <1>3
<1> HIDE DEF cs, batch
<1> QED
  BY <1>1, <1>4, RollSkip

LEMMA FlushTickSkip ==
    ASSUME KafkaInv, KafkaInv', SkipInv, FlushTick
    PROVE  SkipInv'
<1> DEFINE final == FALSE
<1>1. /\ Roll(cons, buf, final) /\ Looping
      /\ UNCHANGED <<log, topic, committed, sent, rows, sess, excused, gap, shadow>>
  BY DEF FlushTick, brokerVars, historyVars
<1> HIDE DEF final
<1> QED
  BY <1>1, RollBufferSkip

LEMMA StopSkip ==
    ASSUME KafkaInv, KafkaInv', SkipInv, NEW fatal \in BOOLEAN, Stop(fatal)
    PROVE  SkipInv'
<1>1. /\ Looping
      /\ UNCHANGED <<log, topic, committed, sent, rows, excused, gap, shadow>>
  BY DEF Stop, brokerVars, historyVars
<1>2. sess \in [phase : {"down", "join", "up", "stopped"}, cid : BOOLEAN, tid : Nat,
                recreated : BOOLEAN, failed : BOOLEAN]
  BY DEF KafkaInv, Typed, SessionTyped
<1>3. CASE buf # <<>>
  <2> DEFINE final == TRUE
  <2>1. /\ Roll(cons, buf, final) /\ sess'.tid = sess.tid /\ sess'.recreated = sess.recreated
    BY <1>2, <1>3 DEF Stop
  <2> HIDE DEF final
  <2> QED
    BY <1>1, <2>1, RollBufferSkip
<1>4. CASE buf = <<>>
  <2>1. UNCHANGED <<buf, pub>> /\ sess'.phase = "stopped"
    BY <1>2, <1>4 DEF Stop
  <2>2. NumberInv' /\ RowInv'
    BY <1>1, <2>1, RowsStay DEF SkipInv, Everywhere
  <2> QED
    BY <2>1, <2>2, OutOfSession DEF InSession
<1> QED
  BY <1>3, <1>4

\* A record is accepted at a clear position.
LEMMA AcceptFirm ==
    ASSUME NEW p, NEW l, LogOK(l), NEW H, NEW rec, NEW c \in Consumer, NEW coms,
           NEW S, NEW K, NEW T, K \subseteq T,
           Firm(p, l, H, rec, c, coms, S, K), c.assigned, c.gate = Active, c.notice = {},
           c.pos \in l.low .. (Len(l.recs) - 1), <<p, l.recs[c.pos + 1]>> \in T,
           c.next = NoOffset => \A r \in K : r[1] = p => r \in S
    PROVE  LET h == [c EXCEPT !.pos = @ + 1, !.span = record_offset(c),
                              !.next = IF @ = NoOffset THEN c.pos ELSE @]
           IN  Firm(p, l, H, rec, h, coms, S, T)
<1> DEFINE n == IF c.next = NoOffset THEN c.pos ELSE c.next
           sp == record_offset(c)
           q == c.pos + 1
           h == [c EXCEPT !.pos = q, !.span = sp, !.next = n]
<1>1. c.pos \in Nat /\ c.next \in Offset /\ c.span \in Span /\ l.low \in Nat /\ Len(l.recs) \in Nat
  BY LogBounds DEF Consumer
<1>2. n # NoOffset
  BY <1>1, Constants
<1>3. sp.next = q /\ Started(sp)
  <2>1. CASE c.span = NoSpan \/ c.pos < c.span.next
    BY <1>1, <2>1 DEF record_offset, Started
  <2>2. CASE ~(c.span = NoSpan \/ c.pos < c.span.next)
    <3>1. sp = [c.span EXCEPT !.next = c.pos + 1]
      BY <2>2 DEF record_offset
    <3>2. Started(c.span)
      BY DEF Firm, Aware
    <3>3. sp.next = q /\ sp.start = c.span.start
      BY <1>1, <3>1 DEF Span
    <3> QED
      BY <2>2, <3>2, <3>3 DEF Started
  <2> QED
    BY <2>1, <2>2
<1> HIDE DEF sp
<1>4. /\ h.pos = q /\ h.span = sp /\ h.next = n /\ h.gate = c.gate /\ h.fr = c.fr
      /\ h.epoch = c.epoch /\ h.assigned = c.assigned /\ h.notice = c.notice
      /\ h.reset = c.reset /\ h.recFloor = c.recFloor /\ h.resetFloor = c.resetFloor
      /\ h.astray = c.astray
  BY DEF Consumer
<1>5. h = [c EXCEPT !.pos = @ + 1, !.span = record_offset(c),
                    !.next = IF @ = NoOffset THEN c.pos ELSE @]
  BY DEF sp
<1> HIDE DEF n, q, h
<1>6. Aware(l, rec, h)
  BY <1>2, <1>3, <1>4 DEF Firm, Aware, Judged
<1>7. ASSUME Steady(p, l, H, rec, c, coms, S, K)
      PROVE  Steady(p, l, H, rec, h, coms, S, T)
  <2> DEFINE e == c.epoch
  <2>1. Clear(p, l, H, e, c.pos, K)
    BY <1>7 DEF Steady, Through
  <2>2. Clear(p, l, H, e, q, T)
    <3>1. ASSUME NEW o \in l.low .. (Len(l.recs) - 1), o < q
          PROVE  <<p, l.recs[o + 1]>> \in T \cup Unseen(l, H, e)
      <4>1. CASE o = c.pos
        BY <4>1
      <4>2. CASE o # c.pos
        <5>1. o < c.pos
          BY <1>1, <3>1, <4>2 DEF q
        <5> QED
          BY <2>1, <5>1 DEF Clear
      <4> QED
        BY <4>1, <4>2
    <3>2. q <= EndOf(l, e)
      <4>1. EndOf(l, e) \in Nat /\ Len(l.recs) <= EndOf(l, e)
        BY EndBounds
      <4> QED
        BY <1>1, <4>1 DEF q
    <3> QED
      BY <3>1, <3>2 DEF Clear
  <2>3. Clear(p, l, H, e, n, S)
    <3>1. CASE c.next = NoOffset
      <4>1. Carries(p, l, l, H, H, e, K, S)
        BY <3>1, CarriesLocal
      <4>2. Clear(p, l, H, e, c.pos, S)
        BY <1>1, <2>1, <4>1 DEF Carries
      <4> QED
        BY <3>1, <4>2 DEF n
    <3>2. CASE c.next # NoOffset
      BY <1>7, <3>2 DEF Steady, n
    <3> QED
      BY <3>1, <3>2
  <2>4. FloorFirm(p, l, H, h, S)
    BY <1>2, <1>4 DEF FloorFirm
  <2>5. GateFirm(p, l, H, h, T)
    BY <1>4 DEF GateFirm, Active
  <2>6. Trusting(rec, h) => Trusting(rec, c)
    BY <1>2, <1>4 DEF Trusting, Untrusted
  <2>7. \A com : CommitFirm(p, l, H, c, com, S) <=> CommitFirm(p, l, H, h, com, S)
    BY <1>4 DEF CommitFirm
  <2> QED
    BY <1>3, <1>4, <1>7, <2>2, <2>3, <2>4, <2>5, <2>6, <2>7 DEF Steady
<1>8. Firm(p, l, H, rec, h, coms, S, T)
  BY <1>4, <1>6, <1>7 DEF Firm
<1> QED
  BY <1>5, <1>8

LEMMA DrainedKeeps ==
    ASSUME NEW c \in Consumer
    PROVE  /\ Drained(c).notice = {} /\ Drained(c).next = c.next /\ Drained(c).span = c.span
           /\ Drained(c).assigned = c.assigned /\ Drained(c).pos = c.pos
<1>1. CASE c.notice = {}
  BY <1>1 DEF Drained
<1>2. CASE c.notice # {}
  <2> DEFINE fr == synthesize_recreated(c.fr, sess.recreated /\ "assigned" \in c.notice)
             pd == c.paused /\ "revoked" \notin c.notice
             d == [c EXCEPT !.notice = {}, !.fr = fr, !.paused = pd]
             f == SafeFloor(d)
             nr == NeedsRestore(f)
  <2>1. /\ d.notice = {} /\ d.next = c.next /\ d.span = c.span
        /\ d.assigned = c.assigned /\ d.pos = c.pos
        /\ DOMAIN d = DOMAIN c
    BY DEF Consumer
  <2>2. Drained(c) \in {[d EXCEPT !.gate = nr], [d EXCEPT !.gate = NeedsTarget], d}
    BY <1>2 DEF Drained
  <2> HIDE DEF d, nr
  <2>3. \A g : [d EXCEPT !.gate = g].notice = d.notice /\ [d EXCEPT !.gate = g].next = d.next
             /\ [d EXCEPT !.gate = g].span = d.span /\ [d EXCEPT !.gate = g].assigned = d.assigned
             /\ [d EXCEPT !.gate = g].pos = d.pos
    BY <2>1 DEF Consumer
  <2> QED
    BY <2>1, <2>2, <2>3
<1> QED
  BY <1>1, <1>2

\* The notices are drained before anything else is looked at.
LEMMA DrainedLoop ==
    ASSUME KafkaInv, SkipInv, pub.phase = "none", InSession, NEW q \in Partition
    PROVE  LET d == Drained(cons[q])
           IN  /\ Good(q, log[q], sess.recreated, d, Safe, Kept) /\ d \in Consumer /\ d.notice = {}
               /\ d.next = cons[q].next /\ d.span = cons[q].span
               /\ d.assigned = cons[q].assigned /\ d.pos = cons[q].pos
               /\ d.fr.loaded \subseteq cons[q].fr.loaded
               /\ Firm(q, log[q], shadow, sess.recreated, d, {committed[q], sent[q]},
                       Backed(q), Backed(q) \cup ToSet(buf))
<1> DEFINE c == cons[q]
           rec == sess.recreated
           l == log[q]
           S == Backed(q)
           K == Backed(q) \cup ToSet(buf)
           coms == {committed[q], sent[q]}
<1>1. /\ LogOK(l) /\ c \in Consumer /\ (c.next = NoOffset => c.span = NoSpan)
      /\ Good(q, l, rec, c, Safe, Kept) /\ rec \in BOOLEAN /\ Safe \subseteq Kept
  BY SoundTyped DEF Kept
<1>2. Firm(q, l, shadow, rec, c, coms, S, K) /\ S \subseteq K
  BY LoopFirm
<1>3. rec = sess.recreated /\ rec \in BOOLEAN
  BY <1>1
<1> HIDE DEF c, rec, S, K, coms
<1>4. /\ Good(q, l, rec, Drained(c), Safe, Kept) /\ Drained(c).notice = {}
      /\ Drained(c).next = c.next /\ Drained(c).span = c.span
      /\ Drained(c).assigned = c.assigned /\ Drained(c).pos = c.pos
  <2>1. LogOK(l) /\ Good(q, l, rec, c, Safe, Kept) /\ Safe \subseteq Kept /\ c \in Consumer
    BY <1>1
  <2> HIDE DEF l
  <2>2. Good(q, l, rec, Drained(c), Safe, Kept)
    BY <1>3, <2>1, DrainedGood
  <2> QED
    BY <2>1, <2>2, DrainedKeeps
<1> HIDE DEF l
<1>5. /\ Firm(q, l, shadow, rec, Drained(c), coms, S, K)
      /\ Drained(c).fr.loaded \subseteq c.fr.loaded
  BY <1>1, <1>2, <1>3, DrainedFirm
<1>6. Drained(c) \in Consumer
  BY <1>4 DEF Good
<1> QED
  BY <1>4, <1>5, <1>6 DEF c, rec, l, S, K, coms

LEMMA NoSpansSound ==
    ASSUME NEW p, NEW l, LogOK(l), NEW H, NEW rec, NEW c, NEW coms, NEW S, NEW K,
           Firm(p, l, H, rec, c, coms, S, K)
    PROVE  Sound(p, l, H, rec, c, coms, NoSpan, S, K)
BY ClearNone DEF Sound, NoSpan, Started

LEMMA DeliverSkip ==
    ASSUME KafkaInv, KafkaInv', SkipInv, NEW p \in Partition, Deliver(p)
    PROVE  SkipInv'
<1> DEFINE cs == [q \in Partition |-> Drained(cons[q])]
           c == cs[p]
           l == log[p]
           rec == sess.recreated
<1>1. /\ UNCHANGED <<log, topic, committed, sent, rows, sess, excused, gap, shadow>>
      /\ pub.phase = "none" /\ InSession /\ cons[p].assigned /\ cons[p].pos \in Retained(p)
      /\ DropGated(p, cs) \/ Accept(p, cs)
      /\ sess'.tid = sess.tid /\ sess'.recreated = sess.recreated
  BY DEF Deliver, Looping, Running, InSession, brokerVars
<1>2. \A q \in Partition :
         /\ cs[q] \in Consumer /\ cs[q].notice = {} /\ LogOK(log[q])
         /\ cs[q].next = cons[q].next /\ cs[q].span = cons[q].span
         /\ cs[q].assigned = cons[q].assigned /\ cs[q].pos = cons[q].pos
         /\ cs[q].next = NoOffset => cs[q].span = NoSpan
         /\ cs[q].fr.loaded \subseteq cons[q].fr.loaded
         /\ Firm(q, log[q], shadow, rec, cs[q], {committed[q], sent[q]},
                 Backed(q), Backed(q) \cup ToSet(buf))
  <2> TAKE q \in Partition
  <2> DEFINE d == Drained(cons[q])
  <2>1. /\ d \in Consumer /\ d.notice = {}
        /\ d.next = cons[q].next /\ d.span = cons[q].span
        /\ d.assigned = cons[q].assigned /\ d.pos = cons[q].pos
        /\ d.fr.loaded \subseteq cons[q].fr.loaded
        /\ Firm(q, log[q], shadow, rec, d, {committed[q], sent[q]},
                Backed(q), Backed(q) \cup ToSet(buf))
    BY <1>1, DrainedLoop
  <2>2. cs[q] = d
    OBVIOUS
  <2> HIDE DEF d, cs
  <2> QED
    BY <2>1, <2>2, SoundTyped
<1>3. cs = [q \in Partition |-> cs[q]]
  OBVIOUS
<1> HIDE DEF cs
<1>4. c.assigned /\ c.notice = {} /\ c.pos \in l.low .. (Len(l.recs) - 1) /\ c \in Consumer /\ LogOK(l)
  BY <1>1, <1>2 DEF Retained, High
<1>5. pub = NoPub /\ \A q \in Partition : pub.spans[q] = NoSpan
  BY <1>1, NoPubTyped DEF KafkaInv, ShapeInv
<1>6. ToSet(pub.batch) = {}
  BY <1>5, NoPubTyped
<1>7. CASE DropGated(p, cs)
  <2> DEFINE e == [c EXCEPT !.tainted = TRUE, !.pos = c.pos + 1]
             B == ToSet(buf)
  <2>1. c.gate # Active /\ cons' = [cs EXCEPT ![p] = e] /\ UNCHANGED <<buf, pub>>
    BY <1>7 DEF DropGated
  <2> HIDE DEF c
  <2>2. Redirected(e, c) /\ e.assigned = c.assigned /\ e.notice = c.notice
    BY <1>4 DEF Consumer, Redirected
  <2> HIDE DEF e
  <2>3. Firm(p, l, shadow, rec, c, {committed[p], sent[p]}, Backed(p), Backed(p) \cup B)
    BY <1>2 DEF c
  <2>4. Judged(rec, e) /\ ~Through(rec, e)
    BY <2>1, <2>2, <2>3 DEF Firm, Aware, Judged, Redirected, Through
  <2>5. Firm(p, l, shadow, rec, e, {committed[p], sent[p]}, Backed(p), Backed(p) \cup B)
    BY <2>2, <2>3, <2>4, FirmAt
  <2>6. \A q \in Partition : cons'[q] = IF q = p THEN e ELSE cs[q]
    BY <1>3, <2>1
  <2>7. ToSet(buf') \cup ToSet(pub'.batch) = B
    BY <1>6, <2>1
  <2>8. \A r \in B : r \in Everywhere
    BY DEF Everywhere
  <2> HIDE DEF B
  <2>9. ASSUME NEW q \in Partition
        PROVE  /\ cons'[q].fr.loaded \subseteq cons[q].fr.loaded
               /\ Sound(q, log[q], shadow, rec, cons'[q], {committed[q], sent[q]},
                        pub'.spans[q], Backed(q), Backed(q) \cup B)
    <3>1. Firm(q, log[q], shadow, rec, cons'[q], {committed[q], sent[q]}, Backed(q), Backed(q) \cup B)
      BY <1>2, <2>5, <2>6 DEF B
    <3>2. cons'[q].fr.loaded \subseteq cons[q].fr.loaded
      BY <1>2, <2>2, <2>6 DEF c, Redirected
    <3>3. pub'.spans[q] = NoSpan /\ LogOK(log[q])
      BY <1>2, <1>5, <2>1
    <3> QED
      BY <3>1, <3>2, <3>3, NoSpansSound
  <2> QED
    BY <1>1, <2>1, <2>7, <2>8, <2>9, HandsSkip
<1>8. CASE Accept(p, cs)
  <2> DEFINE r == RecordAt(p, c.pos)
             h == [c EXCEPT !.pos = @ + 1, !.span = record_offset(c),
                            !.next = IF @ = NoOffset THEN c.pos ELSE @]
             heard == [cs EXCEPT ![p] = h]
             batch == IF r \in Poison THEN buf ELSE Append(buf, r)
             B == ToSet(batch)
  <2>1. /\ c.gate = Active
        /\ IF r \notin Poison /\ should_roll(batch)
           THEN Roll(heard, batch, FALSE)
           ELSE cons' = heard /\ buf' = batch /\ UNCHANGED pub
    BY <1>8 DEF Accept
  <2>2. r \in Record /\ r = <<p, l.recs[c.pos + 1]>> /\ r \in RetainedRecords(p)
    BY <1>1, <1>2, RecordTyped DEF KafkaInv, Typed, RetainedRecords
  <2>3. buf \in Seq(Record)
    BY DEF KafkaInv, Typed, SessionTyped
  <2> HIDE DEF r
  <2>4. /\ ToSet(buf) \subseteq B /\ B \subseteq ToSet(buf) \cup {r} /\ r \in B \cup Poison
    BY <2>2, <2>3, ToSetAppend
  <2> HIDE DEF batch
  <2>5. \A x \in B : x \in Everywhere \/ \E q \in Partition : x \in RetainedRecords(q)
    BY <2>2, <2>4 DEF Everywhere
  <2>6. Firm(p, l, shadow, rec, h, {committed[p], sent[p]}, Backed(p), Backed(p) \cup B)
        /\ h.fr = c.fr
    <3> DEFINE S == Backed(p)
               K == Backed(p) \cup ToSet(buf)
               T == Backed(p) \cup B
               coms == {committed[p], sent[p]}
    <3>1. Firm(p, l, shadow, rec, c, coms, S, K) /\ K \subseteq T
      BY <1>2, <2>4
    <3>2. <<p, l.recs[c.pos + 1]>> \in T
      BY <2>2, <2>4 DEF Backed
    <3>3. c.next = NoOffset => \A x \in K : x[1] = p => x \in S
      <4>1. c.next = cons[p].next
        BY <1>2
      <4> HIDE DEF c
      <4> QED
        BY <4>1, HandsTyped
    <3> HIDE DEF S, K, T, coms, c, l, rec
    <3>4. Firm(p, l, shadow, rec, h, coms, S, T)
      BY <1>4, <2>1, <3>1, <3>2, <3>3, AcceptFirm
    <3>5. h.fr = c.fr
      BY <1>4 DEF Consumer
    <3> QED
      BY <3>4, <3>5 DEF S, T, coms
  <2>7. h.next # NoOffset /\ h \in Consumer
    <3>1. Good(p, l, rec, c, Safe, Kept)
      BY <1>1, DrainedLoop DEF cs
    <3> DEFINE T == Kept \cup {r}
    <3>2. Safe \subseteq T /\ Kept \subseteq T /\ <<p, l.recs[c.pos + 1]>> \in T
      BY <2>2 DEF Kept
    <3>3. c.next = NoOffset => \A x \in Kept : x[1] = p => x \in Safe
      <4>1. c.next = cons[p].next
        BY <1>2
      <4> HIDE DEF c
      <4> QED
        BY <4>1, HandsTyped DEF Kept
    <3> HIDE DEF T, c, l, rec
    <3>4. Good(p, l, rec, h, Safe, T) /\ h.next # NoOffset
      BY <1>4, <2>1, <3>1, <3>2, <3>3, AcceptGood
    <3> QED
      BY <3>4 DEF Good
  <2> HIDE DEF h
  <2>8. \A q \in Partition : heard[q] = IF q = p THEN h ELSE cs[q]
    BY <1>3
  <2> HIDE DEF heard
  <2>9. ASSUME NEW q \in Partition
        PROVE  /\ heard[q] \in Consumer /\ heard[q].fr.loaded \subseteq cons[q].fr.loaded
               /\ heard[q].next = NoOffset => heard[q].span = NoSpan
               /\ Firm(q, log[q], shadow, rec, heard[q], {committed[q], sent[q]},
                       Backed(q), Backed(q) \cup B)
    <3>1. CASE q = p
      BY <1>2, <2>6, <2>7, <2>8, <3>1 DEF c
    <3>2. CASE q # p
      <4> DEFINE S == Backed(q)
                 K == Backed(q) \cup ToSet(buf)
                 T == Backed(q) \cup B
                 coms == {committed[q], sent[q]}
                 d == cs[q]
      <4>1. /\ Firm(q, log[q], shadow, rec, d, coms, S, K) /\ K \subseteq T /\ S \subseteq S
            /\ d \in Consumer /\ coms \subseteq Int /\ LogOK(log[q])
        BY <1>2, <2>4, SoundTyped
      <4> HIDE DEF S, K, T, coms, d
      <4>2. Firm(q, log[q], shadow, rec, d, coms, S, T)
        BY <4>1, FirmWeaken
      <4> QED
        BY <1>2, <2>8, <3>2, <4>2 DEF S, T, coms, d
    <3> QED
      BY <3>1, <3>2
  <2>10. CASE r \notin Poison /\ should_roll(batch)
    <3> DEFINE final == FALSE
    <3>1. Roll(heard, batch, final)
      BY <2>1, <2>10
    <3> HIDE DEF final
    <3> QED
      BY <1>1, <2>5, <2>9, <3>1, RollSkip
  <2>11. CASE ~(r \notin Poison /\ should_roll(batch))
    <3>1. cons' = heard /\ buf' = batch /\ UNCHANGED pub
      BY <2>1, <2>11
    <3>2. ToSet(buf') \cup ToSet(pub'.batch) = B
      BY <1>6, <3>1
    <3> HIDE DEF B
    <3>3. ASSUME NEW q \in Partition
          PROVE  /\ cons'[q].fr.loaded \subseteq cons[q].fr.loaded
                 /\ Sound(q, log[q], shadow, rec, cons'[q], {committed[q], sent[q]},
                          pub'.spans[q], Backed(q), Backed(q) \cup B)
      <4>1. pub'.spans[q] = NoSpan /\ LogOK(log[q])
        BY <1>2, <1>5, <3>1
      <4>2. Firm(q, log[q], shadow, rec, cons'[q], {committed[q], sent[q]}, Backed(q), Backed(q) \cup B)
        BY <2>9, <3>1
      <4>3. cons'[q].fr.loaded \subseteq cons[q].fr.loaded
        BY <2>9, <3>1
      <4> QED
        BY <4>1, <4>2, <4>3, NoSpansSound
    <3> QED
      BY <1>1, <2>5, <3>1, <3>2, <3>3, HandsSkip
  <2> QED
    BY <2>10, <2>11
<1> QED
  BY <1>1, <1>7, <1>8

LEMMA SwapFailsSkip ==
    ASSUME KafkaInv, KafkaInv', SkipInv, SwapFails
    PROVE  SkipInv'
<1>1. /\ UNCHANGED <<log, topic, committed, sent, rows, sess, cons, buf, excused, gap, shadow>>
      /\ pub.phase = "swap"
  BY DEF SwapFails, brokerVars, historyVars
<1>2. pub'.phase = "rollback" /\ pub'.batch = pub.batch /\ pub'.spans = pub.spans
  BY DEF SwapFails, KafkaInv, Typed, SessionTyped
<1>3. InSession
  BY <1>1, NoPubTyped DEF KafkaInv, ShapeInv, InSession
<1> DEFINE B == ToSet(buf) \cup ToSet(pub.batch)
<1>4. ToSet(buf') \cup ToSet(pub'.batch) = B /\ \A r \in B : r \in Everywhere
  BY <1>1, <1>2 DEF Everywhere
<1>5. ASSUME NEW p \in Partition
      PROVE  Sound(p, log[p], shadow, sess.recreated, cons'[p], {committed[p], sent[p]},
                   pub'.spans[p], Backed(p), Backed(p) \cup B)
  <2>1. Backed(p) \cup B = InHand(p)
    BY DEF InHand
  <2> QED
    BY <1>1, <1>2, <1>3, <2>1 DEF SkipInv, SessionInv
<1> HIDE DEF B
<1> QED
  BY <1>1, <1>2, <1>3, <1>4, <1>5, HandsSkip

------------------------------------------------------------------------------
(* The end of a publication.                                               *)

\* The log stays, and nothing that the session relies on goes.
LEMMA StockSkip ==
    ASSUME KafkaInv, SkipInv, NumberInv', RowInv', UNCHANGED <<log, topic, shadow>>,
           sess'.tid = sess.tid, sess'.recreated = sess.recreated, InSession,
           \A p \in Partition :
               /\ cons'[p].fr.loaded \subseteq LoadedOffsets(rows', p, TRUE, sess'.tid)
               /\ Sound(p, log[p], shadow, sess.recreated, cons'[p], {committed'[p], sent'[p]},
                        pub'.spans[p], Backed(p)', InHand(p)')
    PROVE  SkipInv'
<1>1. sess'.tid \in {NoTopicId, topic'}
  BY DEF SkipInv, SessionInv
<1>2. SessionInv'
  BY <1>1, SessionNext
<1> QED
  BY <1>2 DEF SkipInv

LEMMA PersistSkip ==
    ASSUME KafkaInv, SkipInv, Persist
    PROVE  SkipInv'
<1>1. NumberInv' /\ RowInv'
  BY PersistRows DEF SkipInv
<1>2. /\ UNCHANGED <<log, topic, committed, sent, sess, cons, buf, excused, gap, shadow>>
      /\ pub.phase = "persist"
  BY DEF Persist, brokerVars, historyVars
<1>3. pub'.batch = pub.batch /\ pub'.spans = pub.spans
  BY DEF Persist, KafkaInv, Typed, SessionTyped
<1>4. InSession
  BY <1>2, NoPubTyped DEF KafkaInv, ShapeInv, InSession
<1>5. SettledRows' = SettledRows /\ \A i \in SettledRows : Remains(rows[i], rows'[i])
  BY AppendedRow DEF Remains
<1>6. RowInv /\ SessionInv
  BY DEF SkipInv
<1>7. ASSUME NEW p \in Partition
      PROVE  /\ cons'[p].fr.loaded \subseteq LoadedOffsets(rows', p, TRUE, sess'.tid)
             /\ Sound(p, log[p], shadow, sess.recreated, cons'[p], {committed'[p], sent'[p]},
                      pub'.spans[p], Backed(p)', InHand(p)')
  <2> DEFINE K == InHand(p)'
  <2>1. Backed(p) \subseteq Backed(p)'
    BY <1>2, <1>5, <1>6, StockGrows
  <2>2. \A r \in InHand(p) : r[1] = p => r \in K
    BY <1>2, <1>3, <2>1 DEF InHand
  <2> HIDE DEF K
  <2>3. /\ cons[p].fr.loaded \subseteq LoadedOffsets(rows', p, TRUE, sess'.tid)
        /\ Sound(p, log[p], shadow, sess.recreated, cons[p], {committed[p], sent[p]},
                 pub.spans[p], Backed(p)', K)
    BY <1>2, <1>4, <1>5, <1>6, <2>2, StillSound
  <2> QED
    BY <1>2, <1>3, <2>3 DEF K
<1> QED
  BY <1>1, <1>2, <1>4, <1>7, StockSkip

\* The frontier moves to the end of a published span.
LEMMA ExtendedFirm ==
    ASSUME NEW p, NEW l, LogOK(l), NEW H, NEW rec, NEW c \in Consumer, NEW coms, NEW new,
           NEW span \in Span, NEW S, Sound(p, l, H, rec, c, coms, span, S, S),
           c.span = NoSpan, Extends(c, span), \A x \in new : x \in coms \/ x = span.next
    PROVE  Firm(p, l, H, rec, [c EXCEPT !.next = span.next], new, S, S)
<1> DEFINE x == span.next
           e == [c EXCEPT !.next = x]
<1>1. c.next \in Offset /\ x \in Offset /\ c.next < x /\ c.next # NoOffset
  BY DEF Consumer, Span, Extends, Sound
<1>2. x # NoOffset
  BY <1>1, Constants
<1>3. ~c.astray => Clear(p, l, H, c.epoch, x, S)
  BY DEF Sound
<1>4. Firm(p, l, H, rec, c, coms, S, S)
  BY DEF Sound
<1>5. \A y \in new : y \in coms \/ y = x
  OBVIOUS
<1> HIDE DEF x
<1>6. /\ e \in Consumer /\ e.next = x /\ e.span = c.span /\ e.fr = c.fr /\ e.gate = c.gate /\ e.pos = c.pos
      /\ e.assigned = c.assigned /\ e.notice = c.notice /\ e.epoch = c.epoch /\ e.astray = c.astray
      /\ e.reset = c.reset /\ e.recFloor = c.recFloor /\ e.resetFloor = c.resetFloor
  BY <1>1 DEF Consumer
<1> HIDE DEF e
<1>7. Aware(l, rec, e)
  BY <1>1, <1>2, <1>4, <1>6 DEF Firm, Aware, Judged
<1>8. ASSUME ~c.astray, Steady(p, l, H, rec, c, coms, S, S)
      PROVE  Steady(p, l, H, rec, e, new, S, S)
  <2>1. Clear(p, l, H, e.epoch, e.next, S) /\ Clear(p, l, H, e.epoch, e.span.next, S)
    BY <1>3, <1>6, <1>8 DEF Steady
  <2>2. FloorFirm(p, l, H, e, S) /\ GateFirm(p, l, H, e, S)
    BY <1>1, <1>2, <1>6, <1>8 DEF Steady, FloorFirm, GateFirm
  <2>3. Through(rec, e) => Through(rec, c)
    <3>1. SafeFloor(e) # NoOffset
      BY <1>2, <1>6, FloorOf
    <3> QED
      BY <1>6, <3>1 DEF Through
  <2>4. Trusting(rec, e) => Trusting(rec, c)
    BY <1>2, <1>6 DEF Trusting, Untrusted
  <2>5. \A com : CommitFirm(p, l, H, c, com, S) => CommitFirm(p, l, H, e, com, S)
    BY <1>6 DEF CommitFirm
  <2>6. CommitFirm(p, l, H, e, x, S)
    BY <1>3, <1>6, <1>8 DEF CommitFirm
  <2> QED
    BY <1>5, <1>6, <1>8, <2>1, <2>2, <2>3, <2>4, <2>5, <2>6 DEF Steady
<1> QED
  BY <1>4, <1>6, <1>7, <1>8 DEF Firm, e, x

\* The sink said Ok: what was in the loop's hands is in a row with its blob.
LEMMA PublishedSkip ==
    ASSUME KafkaInv, SkipInv, NumberInv', RowInv', SameStamps, Published,
           pub.phase \in {"swap", "rollback"},
           \A i \in SettledRows : rows[i].visible => rows'[i].visible,
           UNCHANGED <<brokerVars, buf, historyVars>>
    PROVE  SkipInv'
<1>1. /\ UNCHANGED <<log, topic, committed, excused, gap, shadow>>
      /\ pub' = NoPub /\ pub'.phase = "none" /\ buf = <<>> /\ buf' = <<>>
      /\ ToSet(buf) = {} /\ ToSet(buf') = {} /\ ToSet(pub'.batch) = {}
      /\ \A p \in Partition : pub'.spans[p] = NoSpan
  BY NoPubTyped DEF Published, brokerVars, historyVars, KafkaInv, ShapeInv
<1>2. sess \in [phase : {"down", "join", "up", "stopped"}, cid : BOOLEAN, tid : Nat,
                recreated : BOOLEAN, failed : BOOLEAN]
  BY DEF KafkaInv, Typed, SessionTyped
<1>3. CASE pub.final
  <2>1. sess'.phase = "stopped"
    BY <1>2, <1>3 DEF Published
  <2> QED
    BY <2>1, OutOfSession DEF InSession
<1>4. CASE ~pub.final
  <2>1. /\ sess' = sess
        /\ \A p \in Partition :
              /\ cons'[p] = IF Extends(cons[p], pub.spans[p])
                            THEN [cons[p] EXCEPT !.next = pub.spans[p].next] ELSE cons[p]
              /\ sent'[p] = IF Extends(cons[p], pub.spans[p]) THEN pub.spans[p].next ELSE sent[p]
    BY <1>4 DEF Published
  <2>2. InSession /\ \A p \in Partition : cons[p].span = NoSpan
    BY NoPubTyped DEF KafkaInv, ShapeInv, InSession
  <2>3. /\ SettledRows' = DOMAIN rows /\ SettledRows \subseteq SettledRows'
        /\ \A i \in SettledRows : Remains(rows[i], rows'[i])
    <3>1. SettledRows' = DOMAIN rows
      BY <1>1, Settles DEF SameStamps
    <3> QED
      BY <3>1 DEF SettledRows, Remains, SameStamps, SameRows
  <2>4. ToSet(pub.batch) \subseteq Shelved'
    <3> DEFINE n == Len(rows)
    <3>1. rows # <<>> /\ rows[n].recs = pub.batch /\ rows[n].blob
      BY DEF KafkaInv, ShapeInv, SkipInv, RowInv
    <3>2. n \in DOMAIN rows
      BY <3>1, RowsDomain
    <3>3. n \in SettledRows' /\ rows'[n].blob /\ rows'[n].recs = pub.batch
      BY <2>3, <3>1, <3>2 DEF SameStamps, SameRows
    <3> HIDE DEF n
    <3> QED
      BY <3>3 DEF Shelved, RowRecords
  <2>5. RowInv /\ SessionInv
    BY DEF SkipInv
  <2>6. ASSUME NEW p \in Partition
        PROVE  /\ cons'[p].fr.loaded \subseteq LoadedOffsets(rows', p, TRUE, sess'.tid)
               /\ Sound(p, log[p], shadow, sess.recreated, cons'[p], {committed'[p], sent'[p]},
                        pub'.spans[p], Backed(p)', InHand(p)')
    <3> DEFINE S == Backed(p)'
               c == cons[p]
               span == pub.spans[p]
               coms == {committed[p], sent[p]}
               new == {committed'[p], sent'[p]}
               l == log[p]
               rec == sess.recreated
               H == shadow
    <3>1. InHand(p)' = S
      BY <1>1 DEF InHand
    <3>2. Backed(p) \subseteq S
      BY <1>1, <2>1, <2>3, <2>5, StockGrows
    <3>3. \A r \in InHand(p) : r[1] = p => r \in S
      <4>1. ToSet(pub.batch) \subseteq S
        BY <2>4 DEF Backed
      <4> HIDE DEF S
      <4> QED
        BY <1>1, <3>2, <4>1 DEF InHand
    <3> HIDE DEF S
    <3>4. /\ cons[p].fr.loaded \subseteq LoadedOffsets(rows', p, TRUE, sess'.tid)
          /\ Sound(p, log[p], shadow, sess.recreated, cons[p], {committed[p], sent[p]},
                   pub.spans[p], Backed(p)', S)
      BY <1>1, <2>1, <2>2, <2>3, <2>5, <3>3, StillSound
    <3>5. Sound(p, l, H, rec, c, coms, span, S, S)
      BY <3>4 DEF S
    <3>6. LogOK(l) /\ c \in Consumer /\ span \in Span /\ c.span = NoSpan
      BY <2>2, SoundTyped
    <3>7. cons'[p] = IF Extends(c, span) THEN [c EXCEPT !.next = span.next] ELSE c
      BY <2>1
    <3>8. /\ Extends(c, span) => \A x \in new : x \in coms \/ x = span.next
          /\ ~Extends(c, span) => new = coms
      BY <1>1, <2>1
    <3>9. c.fr.loaded \subseteq LoadedOffsets(rows', p, TRUE, sess'.tid)
      BY <3>4
    <3>10. [c EXCEPT !.next = span.next].fr = c.fr
      BY <3>6 DEF Consumer
    <3> HIDE DEF c, span, coms, new, l, rec, H
    <3>11. Firm(p, l, H, rec, cons'[p], new, S, S)
      <4>1. CASE Extends(c, span)
        BY <3>5, <3>6, <3>7, <3>8, <4>1, ExtendedFirm
      <4>2. CASE ~Extends(c, span)
        BY <3>5, <3>7, <3>8, <4>2 DEF Sound
      <4> QED
        BY <4>1, <4>2
    <3> DEFINE d == cons'[p]
    <3>12. cons'[p].fr = c.fr
      BY <3>7, <3>10
    <3>13. Firm(p, l, H, rec, d, new, S, S)
      BY <3>11
    <3> HIDE DEF d
    <3>14. Sound(p, l, H, rec, d, new, NoSpan, S, S)
      BY <3>6, <3>13, NoSpansSound
    <3>15. pub'.spans[p] = NoSpan /\ InHand(p)' = S /\ S = Backed(p)'
      BY <1>1, <3>1 DEF S
    <3> QED
      BY <3>9, <3>12, <3>14, <3>15 DEF d, l, H, rec, new
  <2> QED
    BY <1>1, <2>1, <2>2, <2>6, StockSkip
<1> QED
  BY <1>3, <1>4

LEMMA SwapSkip ==
    ASSUME KafkaInv, SkipInv, Swap
    PROVE  SkipInv'
<1>1. pub.phase = "swap" /\ UNCHANGED <<brokerVars, buf, historyVars>> /\ Published
  BY DEF Swap
<1>2. NumberInv' /\ RowInv'
  BY SwapRows DEF SkipInv
<1>3. \A i \in SettledRows : rows[i].visible => rows'[i].visible
  <2> TAKE i \in SettledRows
  <2>1. i \in DOMAIN rows /\ i # Len(rows)
    BY <1>1 DEF SettledRows, InStock
  <2>2. rows' = [rows EXCEPT ![Len(rows)] = [rows[Len(rows)] EXCEPT !.visible = TRUE]]
    BY DEF Swap
  <2>3. rows'[i] = rows[i]
    BY <2>1, <2>2
  <2> QED
    BY <2>3
<1> QED
  BY <1>1, <1>2, <1>3, SwappedRow, PublishedSkip

LEMMA RollbackFailsSkip ==
    ASSUME KafkaInv, SkipInv, RollbackFails
    PROVE  SkipInv'
<1>1. pub.phase = "rollback" /\ UNCHANGED <<brokerVars, rows, buf, historyVars>> /\ Published
  BY DEF RollbackFails
<1>2. SameStamps
  BY <1>1, RowsDomain DEF SameRows, SameStamps
<1>3. NumberInv' /\ RowInv'
  <2>1. pub'.phase = "none" /\ ToSet(pub'.batch) = {}
    BY <1>1, NoPubTyped DEF Published
  <2>2. \A r \in ToSet(buf') \cup ToSet(pub'.batch) : r \in Everywhere
    BY <1>1, <2>1 DEF Everywhere
  <2> QED
    BY <1>1, <2>1, <2>2, RowsStay DEF SkipInv, brokerVars, historyVars
<1> QED
  BY <1>1, <1>2, <1>3, PublishedSkip

------------------------------------------------------------------------------
(* A pass over the gated partitions, with nothing being published.         *)

LEMMA PassSkip ==
    ASSUME KafkaInv, SkipInv, NEW cs, TryActivatePending(cs), pub.phase = "none", InSession,
           UNCHANGED <<brokerVars, rows, buf, pub, shadow>>,
           sess'.tid = sess.tid, sess'.recreated = sess.recreated, excused \subseteq excused',
           \A p \in Partition :
               /\ Good(p, log[p], sess.recreated, cs[p], Safe', Kept')
               /\ cs[p].fr.loaded \subseteq cons[p].fr.loaded
               /\ Firm(p, log[p], shadow, sess.recreated, cs[p], {committed[p], sent[p]},
                       Backed(p)', InHand(p)')
    PROVE  SkipInv'
<1>1. UNCHANGED <<log, topic, committed, rows, buf, pub, shadow>> /\ gap \subseteq gap'
  BY GapGrows DEF brokerVars, TryActivatePending
<1>2. Safe \subseteq Safe' /\ Kept \subseteq Kept' /\ Safe' \subseteq Kept'
  BY PassGrows
<1> DEFINE S0 == Safe'
           K0 == Kept'
           rec == sess.recreated
           cost == 0
           lost == {}
<1>3. PassPre(cs, rec, S0, K0)
  <2>1. \A p \in Partition : UpTo(p, log[p], committed[p], S0) /\ UpTo(p, log[p], sent[p], S0)
    BY <1>2, StillSafe
  <2>2. \A r \in Accounted : r \in K0
    BY <1>2, AccountedKept
  <2> QED
    BY <1>2, <2>1, <2>2 DEF PassPre
<1>4. BrokerTyped /\ RowInv
  BY DEF KafkaInv, Typed, SkipInv
<1>5. TryActivatePendingAfter(cost, lost, cs)
  BY DEF TryActivatePending
<1> HIDE DEF S0, K0, cost, lost
<1>6. ASSUME NEW p \in Partition
      PROVE  /\ cons'[p].fr.loaded \subseteq cons[p].fr.loaded
             /\ Firm(p, log[p], shadow, sess.recreated, cons'[p], {committed'[p], sent'[p]},
                     Backed(p)', InHand(p)')
  <2> DEFINE S == Backed(p)'
             K == InHand(p)'
             H == shadow
  <2>1. InHand(p) \subseteq K /\ S \subseteq K /\ Loads(p, log[p], cons[p].fr, S)
    BY <1>1, HeldSound
  <2>2. Loads(p, log[p], cs[p].fr, S)
    BY <2>1 DEF Loads
  <2>3. gap' \subseteq K
    BY DEF InHand, Backed
  <2>4. Keeps(p, cs[p], K)
    <3>1. Accounted \subseteq InHand(p)
      BY <1>4, HandsAccounted
    <3> HIDE DEF K
    <3> QED
      BY <2>1, <3>1 DEF Keeps
  <2>5. Firm(p, log[p], H, rec, cs[p], {committed[p], sent[p]}, S, K)
    OBVIOUS
  <2>6. log[p].epoch >= 1
    BY DEF SkipInv, NumberInv
  <2> HIDE DEF S, K, H, rec
  <2>7. /\ Firm(p, log[p], H, rec, cons'[p], {committed[p], sent'[p]}, S, K)
        /\ cons'[p].fr = cs[p].fr
    BY <1>3, <1>4, <1>5, <2>1, <2>2, <2>3, <2>4, <2>5, <2>6, PassFirm
  <2> QED
    BY <1>1, <2>7 DEF S, K, H, rec
<1> QED
  BY <1>1, <1>6, ConsumerSkip

LEMMA SeekRetryTickSkip ==
    ASSUME KafkaInv, SkipInv, SeekRetryTick
    PROVE  SkipInv'
<1> DEFINE cs == [p \in Partition |-> Drained(cons[p])]
<1>1. /\ TryActivatePending(cs) /\ pub.phase = "none" /\ InSession
      /\ UNCHANGED <<brokerVars, rows, sess, buf, pub, excused, shadow>>
  BY DEF SeekRetryTick, Looping, Running, InSession
<1>2. UNCHANGED <<log, rows, buf, pub>> /\ gap \subseteq gap'
  <2> HIDE DEF cs
  <2> QED
    BY <1>1, GapGrows DEF brokerVars, TryActivatePending
<1>3. Safe \subseteq Safe' /\ Kept \subseteq Kept' /\ Safe' \subseteq Kept'
  <2> HIDE DEF cs
  <2> QED
    BY <1>1, PassGrows
<1>4. ASSUME NEW p \in Partition
      PROVE  /\ Good(p, log[p], sess.recreated, cs[p], Safe', Kept')
             /\ cs[p].fr.loaded \subseteq cons[p].fr.loaded
             /\ Firm(p, log[p], shadow, sess.recreated, cs[p], {committed[p], sent[p]},
                     Backed(p)', InHand(p)')
  <2> DEFINE rec == sess.recreated
             c == cons[p]
             l == log[p]
             S0 == Safe'
             K0 == Kept'
             S == Backed(p)'
             K == InHand(p)'
             coms == {committed[p], sent[p]}
             H == shadow
  <2>1. Good(p, l, rec, c, S0, K0)
    BY <1>3, StillSafe
  <2>2. /\ LogOK(l) /\ c \in Consumer /\ (c.next = NoOffset => c.span = NoSpan)
        /\ rec \in BOOLEAN /\ rec = sess.recreated
    BY SoundTyped
  <2>3. Firm(p, l, H, rec, c, coms, S, K) /\ S \subseteq K
    BY <1>1, <1>2, HeldSound DEF Sound
  <2>4. S0 \subseteq K0
    BY <1>3
  <2> HIDE DEF rec, c, l, S0, K0, S, K, coms, H
  <2>5. Good(p, l, rec, Drained(c), S0, K0)
    BY <2>1, <2>2, <2>4, DrainedGood
  <2>6. Firm(p, l, H, rec, Drained(c), coms, S, K) /\ Drained(c).fr.loaded \subseteq c.fr.loaded
    BY <2>2, <2>3, DrainedFirm
  <2> QED
    BY <2>5, <2>6 DEF rec, c, l, S0, K0, S, K, coms, H
<1> HIDE DEF cs
<1> QED
  BY <1>1, <1>4, PassSkip

\* The assignment arrives.
LEMMA JoinedFirm ==
    ASSUME KafkaInv, RowInv, sess.phase = "join", NEW p \in Partition, NEW dropped, NEW H, NEW S, NEW K,
           S \subseteq K, InHand(p) \subseteq K, p \in Ungoverned => PolicySkips(p) \subseteq K,
           Firm(p, log[p], H, sess.recreated, cons[p], {committed[p], sent[p]}, S, K)
    PROVE  LET c == JoinedCons(p, cons[p].fr, sess.recreated, dropped)
           IN  /\ Firm(p, log[p], H, sess.recreated, c, {committed[p], sent[p]}, S, K)
               /\ c.fr.loaded \subseteq cons[p].fr.loaded
<1> DEFINE rec == sess.recreated
           b == cons[p]
           l == log[p]
           x == JoinPosition(p)
           drop == p \in dropped /\ x \in Retained(p)
           fr == synthesize_recreated(b.fr, rec)
           y == IF drop THEN x + 1 ELSE x
           g == IF fr # NoEntry THEN NeedsTarget ELSE IF drop THEN NeedsSeek(x) ELSE Active
           c == [b EXCEPT !.assigned = TRUE, !.pos = y, !.tainted = drop, !.fr = fr, !.gate = g]
           coms == {committed[p], sent[p]}
<1>1. LogOK(l) /\ rec \in BOOLEAN /\ Quiet(b) /\ b \in Consumer
  BY SoundTyped DEF KafkaInv, ShapeInv
<1>2. Firm(p, l, H, rec, b, coms, S, K)
  OBVIOUS
<1>3. /\ fr = b.fr \/ (fr.recreated /\ fr.loaded = {} /\ b.fr = NoEntry /\ rec)
      /\ fr = NoEntry => b.fr = NoEntry /\ ~rec
      /\ rec /\ b.fr = NoEntry => fr.recreated
  BY DEF synthesize_recreated, NoEntry
<1>4. b.next = NoOffset /\ b.span = NoSpan /\ SafeFloor(b) = NoOffset
  <2>1. b.next = NoOffset /\ b.span.next = NoOffset /\ b.span = NoSpan
    BY <1>1 DEF Quiet, NoSpan
  <2> QED
    BY <1>1, <2>1, FloorOf
<1>5. ASSUME fr = NoEntry, ~b.astray
      PROVE  Clear(p, l, H, b.epoch, x, K)
  <2>1. p \in Ungoverned
    BY <1>3, <1>4, <1>5 DEF Ungoverned
  <2>2. committed[p] \in coms /\ Steady(p, l, H, rec, b, coms, S, K)
    BY <1>2, <1>5 DEF Firm
  <2> HIDE DEF coms
  <2>3. Clear(p, l, H, b.epoch, committed[p], K)
    BY <1>3, <1>4, <1>5, <2>2, UngovernedClear
  <2> QED
    BY <2>1, <2>3, JoinClear
<1>6. /\ g.kind = "seek" => fr = NoEntry /\ g.at = x
      /\ g = Active => fr = NoEntry /\ ~drop
      /\ g.kind # "restore" /\ (fr = NoEntry \/ g.kind = "target")
  <2> HIDE DEF fr, drop, x
  <2> QED
    BY DEF NeedsTarget, NeedsSeek, Active
<1>7. ~drop => y = x
  OBVIOUS
<1>8. JoinedCons(p, cons[p].fr, sess.recreated, dropped) = c
  BY DEF JoinedCons
<1> HIDE DEF y, drop, fr, g, b, x
<1>9. /\ c.assigned = TRUE /\ c.pos = y /\ c.fr = fr /\ c.gate = g /\ c.next = b.next
      /\ c.span = b.span /\ c.notice = b.notice /\ c.epoch = b.epoch /\ c.astray = b.astray
      /\ c.reset = b.reset /\ c.recFloor = b.recFloor /\ c.resetFloor = b.resetFloor
  BY <1>1 DEF Consumer
<1> HIDE DEF c, coms
<1>10. Aware(l, rec, c)
  <2>1. Aware(l, rec, b)
    BY <1>2 DEF Firm
  <2>2. Judged(rec, c)
    BY <1>3, <1>9, <2>1 DEF Aware, Judged
  <2> QED
    BY <1>9, <2>1, <2>2 DEF Aware
<1>11. ASSUME ~b.astray, Steady(p, l, H, rec, b, coms, S, K)
       PROVE  Steady(p, l, H, rec, c, coms, S, K)
  <2>1. FloorFirm(p, l, H, c, S)
    BY <1>3, <1>9, <1>11 DEF Steady, FloorFirm
  <2>2. GateFirm(p, l, H, c, K)
    BY <1>4, <1>5, <1>6, <1>9, <1>11 DEF GateFirm
  <2>3. Through(rec, c) => Clear(p, l, H, c.epoch, c.pos, K)
    BY <1>5, <1>6, <1>7, <1>9, <1>11 DEF Through
  <2>4. Trusting(rec, c) => Trusting(rec, b) /\ fr = b.fr
    BY <1>3, <1>9 DEF Trusting, Untrusted
  <2>5. fr = b.fr => \A com : CommitFirm(p, l, H, b, com, S) <=> CommitFirm(p, l, H, c, com, S)
    BY <1>9 DEF CommitFirm
  <2> QED
    BY <1>9, <1>11, <2>1, <2>2, <2>3, <2>4, <2>5 DEF Steady
<1>12. fr.loaded \subseteq b.fr.loaded
  BY <1>3
<1>13. Firm(p, l, H, rec, c, coms, S, K)
  BY <1>2, <1>9, <1>10, <1>11 DEF Firm
<1> QED
  BY <1>8, <1>9, <1>12, <1>13 DEF b, coms

LEMMA JoinSkip ==
    ASSUME KafkaInv, SkipInv, NEW dropped, Join(dropped)
    PROVE  SkipInv'
<1> DEFINE cs == [p \in Partition |-> JoinedCons(p, cons[p].fr, sess.recreated, dropped)]
<1>1. /\ TryActivatePending(cs) /\ sess.phase = "join" /\ sess' = [sess EXCEPT !.phase = "up"]
      /\ UNCHANGED <<brokerVars, rows, buf, pub, shadow>>
      /\ excused' = excused \cup UNION {PolicySkips(p) : p \in Ungoverned}
  BY DEF Join
<1>2. pub.phase = "none" /\ InSession
  BY <1>1, NoPubTyped DEF KafkaInv, ShapeInv, InSession
<1>3. excused \subseteq excused' /\ \A p \in Ungoverned : PolicySkips(p) \subseteq excused'
  BY <1>1
<1>4. /\ Safe \subseteq Safe' /\ Kept \subseteq Kept' /\ Safe' \subseteq Kept' /\ excused' \subseteq Kept'
      /\ gap \subseteq gap' /\ UNCHANGED <<log, rows, buf, pub>>
  <2> HIDE DEF cs
  <2> QED
    BY <1>1, <1>3, PassGrows, GapGrows DEF TryActivatePending, brokerVars
<1>5. sess'.tid = sess.tid /\ sess'.recreated = sess.recreated
  BY <1>1 DEF KafkaInv, Typed, SessionTyped
<1>6. ASSUME NEW p \in Partition
      PROVE  /\ Good(p, log[p], sess.recreated, cs[p], Safe', Kept')
             /\ cs[p].fr.loaded \subseteq cons[p].fr.loaded
             /\ Firm(p, log[p], shadow, sess.recreated, cs[p], {committed[p], sent[p]},
                     Backed(p)', InHand(p)')
  <2> DEFINE S0 == Safe'
             K0 == Kept'
             S == Backed(p)'
             K == InHand(p)'
             H == shadow
             c == JoinedCons(p, cons[p].fr, sess.recreated, dropped)
  <2>1. /\ Safe \subseteq S0 /\ Kept \subseteq K0 /\ S0 \subseteq K0
        /\ p \in Ungoverned => PolicySkips(p) \subseteq K0
    BY <1>3, <1>4
  <2>2. /\ Firm(p, log[p], H, sess.recreated, cons[p], {committed[p], sent[p]}, S, K)
        /\ InHand(p) \subseteq K /\ S \subseteq K
    BY <1>2, <1>3, <1>4, <1>5, HeldSound DEF Sound
  <2>3. p \in Ungoverned => PolicySkips(p) \subseteq K
    BY <1>3 DEF InHand, Backed
  <2>4. RowInv
    BY DEF SkipInv
  <2> HIDE DEF S0, K0, S, K, H
  <2>5. Good(p, log[p], sess.recreated, c, S0, K0)
    BY <1>1, <2>1, JoinedGood
  <2>6. /\ Firm(p, log[p], H, sess.recreated, c, {committed[p], sent[p]}, S, K)
        /\ c.fr.loaded \subseteq cons[p].fr.loaded
    BY <1>1, <2>2, <2>3, <2>4, JoinedFirm
  <2>7. cs[p] = c
    OBVIOUS
  <2> HIDE DEF c, cs
  <2> QED
    BY <2>5, <2>6, <2>7 DEF S0, K0, S, K, H
<1> HIDE DEF cs
<1> QED
  BY <1>1, <1>2, <1>3, <1>5, <1>6, PassSkip

------------------------------------------------------------------------------
(* A failed publication.                                                   *)

\* A partition that is sent back to its durable next needs nothing that was only
\* in the loop's hands.
SentBack(c) == [c EXCEPT !.gate = NeedsSeek(c.next), !.tainted = TRUE]

LEMMA ArmedFirm ==
    ASSUME NEW p, NEW l, LogOK(l), NEW H, NEW rec, NEW c \in Consumer, c.next # NoOffset,
           c.span = NoSpan, NEW coms, NEW S, NEW K, Firm(p, l, H, rec, c, coms, S, K)
    PROVE  /\ Firm(p, l, H, rec, SentBack(c), coms, S, S)
           /\ SentBack(c).fr = c.fr /\ SentBack(c).tainted
<1> DEFINE x == c.next
           e == [c EXCEPT !.gate = NeedsSeek(x), !.tainted = TRUE]
<1>1. /\ NeedsSeek(x) # Active /\ NeedsSeek(x).kind = "seek" /\ NeedsSeek(x).at = x
      /\ NoSpan.next = NoOffset
  BY DEF NeedsSeek, Active, NoSpan
<1>2. /\ e.next = c.next /\ e.span = c.span /\ e.fr = c.fr /\ e.gate = NeedsSeek(x) /\ e.tainted
      /\ e.epoch = c.epoch /\ e.astray = c.astray /\ e.pos = c.pos /\ e.notice = c.notice
      /\ e.assigned = c.assigned
      /\ e.reset = c.reset /\ e.recFloor = c.recFloor /\ e.resetFloor = c.resetFloor
  BY DEF Consumer
<1> HIDE DEF e
<1>3. Aware(l, rec, e)
  BY <1>2 DEF Firm, Aware, Judged
<1>4. ASSUME Steady(p, l, H, rec, c, coms, S, K)
      PROVE  Steady(p, l, H, rec, e, coms, S, S)
  <2>1. Clear(p, l, H, e.epoch, e.next, S) /\ Clear(p, l, H, e.epoch, e.span.next, S)
    BY <1>1, <1>2, <1>4, ClearNone DEF Steady
  <2>2. FloorFirm(p, l, H, e, S) /\ GateFirm(p, l, H, e, S)
    BY <1>1, <1>2, <2>1 DEF FloorFirm, GateFirm
  <2>3. ~Through(rec, e)
    BY <1>1, <1>2 DEF Through
  <2>4. Trusting(rec, e) <=> Trusting(rec, c)
    BY <1>2 DEF Trusting, Untrusted
  <2>5. \A com : CommitFirm(p, l, H, c, com, S) <=> CommitFirm(p, l, H, e, com, S)
    BY <1>2 DEF CommitFirm
  <2> QED
    BY <1>4, <2>1, <2>2, <2>3, <2>4, <2>5 DEF Steady
<1> QED
  BY <1>2, <1>3, <1>4 DEF Firm, e, SentBack

\* The sink failed.  `rows'` are the rows of earlier publications.
LEMMA PublishFailedSkip ==
    ASSUME KafkaInv, SkipInv, NumberInv', RowInv', NEW cost, PublishFailed(cost), pub.phase # "none",
           DOMAIN rows' = SettledRows, \A i \in SettledRows : rows'[i] = rows[i],
           UNCHANGED <<brokerVars, buf, excused, shadow>>
    PROVE  SkipInv'
<1> DEFINE armed == [p \in Partition |-> arm_publish_failure_reseek(p)]
           lost == {r \in ToSet(pub.batch) : ~Reseekable(r[1])}
<1>1. /\ UNCHANGED <<log, topic, committed, excused, shadow>>
      /\ pub' = NoPub /\ pub'.phase = "none" /\ buf = <<>> /\ buf' = <<>>
      /\ ToSet(buf) = {} /\ ToSet(buf') = {} /\ ToSet(pub'.batch) = {} /\ InSession
      /\ sess' = FailedSession(pub.final) /\ \A p \in Partition : pub'.spans[p] = NoSpan
      /\ \A p \in Partition : cons[p].span = NoSpan
  BY NoPubTyped DEF PublishFailed, brokerVars, KafkaInv, ShapeInv, InSession
<1>2. SettledRows' = SettledRows /\ \A i \in SettledRows : Remains(rows[i], rows'[i])
  <2>1. SettledRows' = DOMAIN rows'
    BY <1>1 DEF SettledRows, InStock
  <2> QED
    BY <2>1 DEF Remains
<1>3. /\ sess'.tid = sess.tid /\ sess'.recreated = sess.recreated
      /\ pub.final => sess'.phase = "stopped"
  BY <1>1 DEF FailedSession, KafkaInv, Typed, SessionTyped
<1>4. CASE pub.final
  BY <1>3, <1>4, OutOfSession DEF InSession
<1>5. CASE ~pub.final
  <2>1. \/ TryActivatePendingAfter(cost, lost, armed)
        \/ cons' = armed /\ UNCHANGED sent /\ gap' = gap \cup lost
    BY <1>5 DEF PublishFailed
  <2>2. gap \cup lost \subseteq gap'
    BY <2>1, GapGrows
  <2>3. Safe \subseteq Safe' /\ lost \subseteq Safe'
    <3>1. Stored' = Stored
      BY <1>2 DEF Stored, RowRecords
    <3> QED
      BY <1>1, <2>2, <3>1 DEF Safe
  <2>4. \A p \in Partition :
           /\ Good(p, log[p], sess.recreated, armed[p], Safe', Safe')
           /\ Reseekable(p) => armed[p].tainted
    <3> TAKE p \in Partition
    <3> DEFINE S == Safe'
    <3>1. Safe \subseteq S /\ (~Reseekable(p) => \A r \in ToSet(pub.batch) : r[1] = p => r \in S)
      BY <2>3
    <3> HIDE DEF S
    <3>2. LET c == arm_publish_failure_reseek(p)
          IN  /\ Good(p, log[p], sess.recreated, c, S, S)
              /\ Reseekable(p) => c.tainted
      BY <3>1, ArmedGood
    <3> QED
      BY <3>2 DEF S
  <2>5. BrokerTyped /\ RowInv /\ SessionInv
    BY DEF KafkaInv, Typed, SkipInv
  <2>6. ASSUME NEW p \in Partition
        PROVE  /\ InHand(p)' = Backed(p)'
               /\ cons[p].fr.loaded \subseteq LoadedOffsets(rows', p, TRUE, sess'.tid)
               /\ Loads(p, log[p], armed[p].fr, Backed(p)') /\ armed[p].fr = cons[p].fr
               /\ Firm(p, log[p], shadow, sess.recreated, armed[p], {committed[p], sent[p]},
                       Backed(p)', Backed(p)')
               /\ Keeps(p, armed[p], Backed(p)')
    <3> DEFINE S == Backed(p)'
               K == InHand(p)
               c == cons[p]
               l == log[p]
               rec == sess.recreated
               H == shadow
               coms == {committed[p], sent[p]}
    <3>1. InHand(p)' = S
      BY <1>1 DEF InHand
    <3>2. /\ cons[p].fr.loaded \subseteq LoadedOffsets(rows', p, TRUE, sess'.tid)
          /\ Backed(p) \subseteq S /\ Loads(p, log[p], cons[p].fr, S)
          /\ Sound(p, l, H, rec, c, coms, pub.spans[p], S, K)
      <4>1. \A r \in K : r[1] = p => r \in K
        OBVIOUS
      <4> HIDE DEF K
      <4> QED
        BY <1>1, <1>2, <1>3, <2>2, <2>5, <4>1, StillSound DEF K
    <3>3. LogOK(l) /\ c \in Consumer /\ c.span = NoSpan
      BY <1>1, SoundTyped
    <3>4. Accounted \subseteq K
      BY <2>5, HandsAccounted
    <3>5. CASE Reseekable(p)
      <4>1. c.next # NoOffset
        BY <3>5 DEF Reseekable
      <4>2. armed[p] = SentBack(c)
        BY <3>5 DEF arm_publish_failure_reseek, SentBack
      <4>3. Firm(p, l, H, rec, c, coms, S, K)
        BY <3>2 DEF Sound
      <4> HIDE DEF armed, S, K, c, l, rec, H, coms
      <4>4. Firm(p, l, H, rec, armed[p], coms, S, S) /\ armed[p].fr = c.fr /\ armed[p].tainted
        BY <3>3, <4>1, <4>2, <4>3, ArmedFirm
      <4>5. Keeps(p, armed[p], S)
        BY <4>4 DEF Keeps
      <4>6. cons[p].fr = c.fr
        BY DEF c
      <4>7. Loads(p, log[p], armed[p].fr, S)
        BY <3>2, <4>4, <4>6
      <4> QED
        BY <3>1, <3>2, <4>4, <4>5, <4>6, <4>7 DEF S, l, rec, H, coms
    <3>6. CASE ~Reseekable(p)
      <4>1. armed[p] = c
        BY <3>6 DEF arm_publish_failure_reseek
      <4>2. \A r \in InHand(p) : r[1] = p => r \in S
        <5>1. \A r \in ToSet(pub.batch) : r[1] = p => r \in S
          BY <2>2, <3>6 DEF Backed
        <5> HIDE DEF S
        <5> QED
          BY <1>1, <3>2, <5>1 DEF InHand
      <4>3. Firm(p, l, H, rec, c, coms, S, S)
        <5> DEFINE L == S
        <5>1. \A r \in InHand(p) : r[1] = p => r \in L
          BY <4>2
        <5> HIDE DEF L
        <5>2. Sound(p, l, H, rec, c, coms, pub.spans[p], S, L)
          BY <1>1, <1>2, <1>3, <2>2, <2>5, <5>1, StillSound
        <5> QED
          BY <5>2 DEF Sound, L
      <4>4. Keeps(p, armed[p], S)
        <5> HIDE DEF S, armed
        <5> QED
          BY <3>4, <4>2 DEF Keeps
      <4> HIDE DEF armed
      <4> QED
        BY <3>1, <3>2, <4>1, <4>3, <4>4
    <3> QED
      BY <3>5, <3>6
  <2> HIDE DEF armed, lost
  <2>7. ASSUME NEW p \in Partition
        PROVE  /\ Firm(p, log[p], shadow, sess.recreated, cons'[p], {committed[p], sent'[p]},
                       Backed(p)', Backed(p)')
               /\ cons'[p].fr = cons[p].fr
    <3> DEFINE S0 == Safe'
               S == Backed(p)'
               H == shadow
               rec == sess.recreated
    <3>1. CASE TryActivatePendingAfter(cost, lost, armed)
      <4>1. PassPre(armed, rec, S0, S0)
        <5>1. \A q \in Partition :
                 UpTo(q, log[q], committed[q], S0) /\ UpTo(q, log[q], sent[q], S0)
          <6>1. Kept \subseteq Kept
            OBVIOUS
          <6> QED
            BY <2>3, <6>1, StillSafe
        <5>2. ASSUME NEW q \in Partition, NEW r \in Accounted, r[1] = q, ~armed[q].tainted
              PROVE  r \in S0
          <6>1. ~Reseekable(q)
            BY <2>4, <5>2
          <6>2. r \in Safe \cup ToSet(pub.batch)
            BY <1>1, AccountedKept DEF Kept
          <6> QED
            BY <2>3, <5>2, <6>1, <6>2 DEF lost
        <5> QED
          BY <2>4, <5>1, <5>2 DEF PassPre
      <4>2. gap' \subseteq S
        BY DEF Backed
      <4>3. log[p].epoch >= 1
        BY DEF SkipInv, NumberInv
      <4>4. /\ Firm(p, log[p], H, rec, armed[p], {committed[p], sent[p]}, S, S)
            /\ Loads(p, log[p], armed[p].fr, S) /\ Keeps(p, armed[p], S)
        BY <2>6
      <4> HIDE DEF S0, S, H, rec
      <4>5. S \subseteq S
        OBVIOUS
      <4>6. /\ Firm(p, log[p], H, rec, cons'[p], {committed[p], sent'[p]}, S, S)
            /\ cons'[p].fr = armed[p].fr
        BY <2>5, <3>1, <4>1, <4>2, <4>3, <4>4, <4>5, PassFirm
      <4> QED
        BY <2>6, <4>6 DEF S, H, rec
    <3>2. CASE cons' = armed /\ UNCHANGED sent /\ gap' = gap \cup lost
      BY <2>6, <3>2
    <3> QED
      BY <2>1, <3>1, <3>2
  <2>8. ASSUME NEW p \in Partition
        PROVE  /\ cons'[p].fr.loaded \subseteq LoadedOffsets(rows', p, TRUE, sess'.tid)
               /\ Sound(p, log[p], shadow, sess.recreated, cons'[p], {committed'[p], sent'[p]},
                        pub'.spans[p], Backed(p)', InHand(p)')
    <3> DEFINE S == Backed(p)'
               l == log[p]
               H == shadow
               rec == sess.recreated
               c == cons'[p]
               new == {committed'[p], sent'[p]}
    <3>1. LogOK(l)
      BY SoundTyped
    <3>2. Firm(p, l, H, rec, c, new, S, S)
      BY <1>1, <2>7
    <3>3. pub'.spans[p] = NoSpan /\ InHand(p)' = S
      BY <1>1, <2>6
    <3>4. cons'[p].fr.loaded \subseteq LoadedOffsets(rows', p, TRUE, sess'.tid)
      BY <2>6, <2>7
    <3> HIDE DEF S, l, H, rec, c, new
    <3>5. Sound(p, l, H, rec, c, new, NoSpan, S, S)
      BY <3>1, <3>2, NoSpansSound
    <3> QED
      BY <3>3, <3>4, <3>5 DEF S, l, H, rec, c, new
  <2> QED
    BY <1>1, <1>3, <2>8, StockSkip
<1> QED
  BY <1>4, <1>5

LEMMA PersistFailsSkip ==
    ASSUME KafkaInv, SkipInv, PersistFails
    PROVE  SkipInv'
<1>1. /\ pub.phase = "persist" /\ PublishFailed(1) /\ UNCHANGED rows
      /\ UNCHANGED <<brokerVars, buf, excused, shadow>>
  BY DEF PersistFails
<1>2. SettledRows = DOMAIN rows
  BY <1>1 DEF SettledRows, InStock
<1>3. NumberInv' /\ RowInv'
  <2>1. pub'.phase = "none" /\ ToSet(pub'.batch) = {}
    BY <1>1, NoPubTyped DEF PublishFailed
  <2>2. \A r \in ToSet(buf') \cup ToSet(pub'.batch) : r \in Everywhere
    BY <1>1, <2>1 DEF Everywhere
  <2> QED
    BY <1>1, <2>1, <2>2, RowsStay DEF SkipInv, brokerVars
<1> DEFINE cost == 1
<1>4. PublishFailed(cost)
  BY <1>1
<1> HIDE DEF cost
<1> QED
  BY <1>1, <1>2, <1>3, <1>4, PublishFailedSkip

LEMMA RollbackSkip ==
    ASSUME KafkaInv, SkipInv, Rollback
    PROVE  SkipInv'
<1>1. /\ pub.phase = "rollback" /\ PublishFailed(0)
      /\ UNCHANGED <<brokerVars, buf, excused, shadow>>
  BY DEF Rollback
<1>2. DOMAIN rows' = SettledRows /\ \A i \in SettledRows : rows'[i] = rows[i]
  BY RemovedRow
<1>3. NumberInv' /\ RowInv'
  BY RollbackRows DEF SkipInv
<1> DEFINE cost == 0
<1>4. PublishFailed(cost)
  BY <1>1
<1> HIDE DEF cost
<1> QED
  BY <1>1, <1>2, <1>3, <1>4, PublishFailedSkip

------------------------------------------------------------------------------
(* A session starts: its floors are at or below every row without a blob.  *)

LEMMA DerivedEntry ==
    ASSUME NEW p, NEW cid \in BOOLEAN, NEW tid, NEW disagreed \in BOOLEAN
    PROVE  LET fr == derive_resume_frontier(rows, p, cid, tid, disagreed)
               ms == MinStart(rows, p, cid, tid)
           IN  /\ \/ fr = NoEntry
                  \/ /\ fr.minStart = ms /\ fr.loaded \subseteq LoadedOffsets(rows, p, TRUE, tid)
                     /\ TopicRecreated(rows, cid, tid, disagreed) => fr.recreated
               /\ Naming(rows, p) # {} /\ ms # NoOffset => fr # NoEntry /\ fr.minStart = ms
<1> DEFINE fr == derive_resume_frontier(rows, p, cid, tid, disagreed)
           ms == MinStart(rows, p, cid, tid)
           ld == LoadedOffsets(rows, p, cid, tid)
           live == LiveRows(rows, p, tid)
           rc == TopicRecreated(rows, cid, tid, disagreed)
           e == [minStart |-> ms, loaded |-> ld, recreated |-> cid /\ live # Naming(rows, p)]
           f == [minStart |-> e.minStart, loaded |-> IF disagreed THEN {} ELSE e.loaded,
                 recreated |-> e.recreated \/ rc]
<1>1. compute_resume_frontier(rows, p, cid, tid) =
         IF Naming(rows, p) = {} THEN NoEntry ELSE e
  BY DEF compute_resume_frontier
<1>2. e.minStart = ms /\ e.loaded = ld
  OBVIOUS
<1>3. NoEntry.minStart = NoOffset
  BY DEF NoEntry
<1>4. ld \subseteq LoadedOffsets(rows, p, TRUE, tid)
  BY DEF LoadedOffsets
<1> HIDE DEF e
<1>5. f.minStart = e.minStart /\ f.loaded \subseteq e.loaded /\ (rc => f.recreated)
  OBVIOUS
<1>6. fr = IF Naming(rows, p) = {} \/ e = NoEntry THEN NoEntry ELSE f
  BY <1>1 DEF derive_resume_frontier
<1> HIDE DEF f, fr, ms, ld, rc
<1>7. \/ fr = NoEntry
      \/ fr.minStart = ms /\ fr.loaded \subseteq LoadedOffsets(rows, p, TRUE, tid)
         /\ (rc => fr.recreated)
  BY <1>2, <1>4, <1>5, <1>6
<1>8. Naming(rows, p) # {} /\ ms # NoOffset => fr # NoEntry /\ fr.minStart = ms
  BY <1>2, <1>3, <1>5, <1>6
<1> QED
  BY <1>7, <1>8 DEF fr, ms, rc

\* A retained record of partition p at offset o is lost: rows held it and none
\* that has its blob does.
Lost(p, o) ==
    /\ RecordAt(p, o) \in Safe
    /\ RecordAt(p, o) \notin Shelved \cup Poison \cup excused \cup gap \cup shadow

LEMMA FloorBelow ==
    ASSUME KafkaInv, RowInv, sess.phase \in {"down", "stopped"}, NEW p \in Partition,
           NEW cid \in BOOLEAN, NEW tid \in {NoTopicId, topic}, NEW disagreed \in BOOLEAN,
           NEW o \in Retained(p), Lost(p, o)
    PROVE  LET fr == derive_resume_frontier(rows, p, cid, tid, disagreed)
           IN  fr # NoEntry /\ fr.minStart # Passthrough /\ fr.minStart <= o
<1> DEFINE r == RecordAt(p, o)
           Sp(i) == rows[i].span[p]
           live == LiveRows(rows, p, tid)
           ms == MinStart(rows, p, cid, tid)
           T == {Sp(i).start : i \in live}
<1>1. pub.phase = "none"
  BY NoPubTyped DEF KafkaInv, ShapeInv
<1>2. SettledRows = DOMAIN rows
  BY <1>1 DEF SettledRows, InStock
<1>3. PICK i \in DOMAIN rows : r \in RowRecords(i)
  BY <1>2 DEF Lost, Safe, Stored
<1>4. ~rows[i].blob
  BY <1>2, <1>3 DEF Lost, Shelved
<1>5. /\ r = <<p, log[p].recs[o + 1]>> /\ o \in log[p].low .. (Len(log[p].recs) - 1)
      /\ LogOK(log[p])
  BY DEF RecordAt, Retained, High, KafkaInv, Typed, BrokerTyped
<1>6. RowOK(p, log[p], rows[i], excused, topic)
  BY DEF RowInv
<1>7. o \in Covered(Sp(i)) /\ ~DeadGeneration(rows[i], topic)
  BY <1>3, <1>4, <1>5, <1>6 DEF RowOK, Lost, RowRecords
<1>8. Sp(i) # NoSpan
  <2>1. NoSpan.start = NoOffset /\ NoSpan.next = NoOffset
    BY DEF NoSpan
  <2> QED
    BY <1>7, <2>1, Constants DEF Covered
<1>9. i \in live
  <2>1. ~DeadGeneration(rows[i], tid)
    BY <1>7 DEF DeadGeneration
  <2> QED
    BY <1>6, <1>8, <2>1 DEF LiveRows, Naming, RowOK
<1>10. \A j \in live : Sp(j) \in Span /\ Sp(j).start \in Int /\ 0 <= Sp(j).start
  <2> TAKE j \in live
  <2>1. j \in DOMAIN rows /\ Sp(j) # NoSpan
    BY DEF LiveRows, Naming
  <2>2. RowOK(p, log[p], rows[j], excused, topic)
    BY <2>1 DEF RowInv
  <2>3. Sp(j) \in Span
    BY <2>1, RowsDomain DEF Row
  <2> QED
    BY <2>1, <2>2, <2>3, Constants DEF RowOK, Started, Span
<1>11. ms = Min(T)
  BY <1>9 DEF MinStart
<1>12. T \subseteq Int /\ Sp(i).start \in T /\ \A y \in T : 0 <= y
  BY <1>9, <1>10
<1>13. Min(T) \in T /\ Min(T) <= Sp(i).start
  <2> DEFINE x == Sp(i).start
  <2>1. x \in T
    BY <1>12
  <2> HIDE DEF T, x
  <2>2. Min(T) \in T /\ \A y \in T : Min(T) <= y
    <3>1. T # {} /\ 0 \in Int
      BY <2>1
    <3> QED
      BY <1>12, <3>1, MinOf
  <2> QED
    BY <2>1, <2>2 DEF x
<1>14. Sp(i).start <= o
  <2>1. Sp(i).start \in Int /\ Sp(i).next \in Int
    BY <1>9, <1>10, Constants DEF Span
  <2> QED
    BY <1>7, <2>1 DEF Covered
<1>15. o \in Int /\ o < MaxRecords
  BY <1>5, LogBounds, Constants
<1>16. ms \in Int /\ 0 <= ms /\ ms <= o
  <2>1. Sp(i).start \in Int /\ Min(T) \in Int /\ 0 <= Min(T)
    BY <1>12, <1>13
  <2> HIDE DEF T, Sp, ms
  <2> QED
    BY <1>11, <1>13, <1>14, <1>15, <2>1
<1>17. ms # NoOffset /\ ms # Passthrough /\ Naming(rows, p) # {}
  <2>1. Naming(rows, p) # {}
    BY <1>9 DEF LiveRows
  <2> HIDE DEF ms
  <2> QED
    BY <1>15, <1>16, <2>1, Constants
<1> HIDE DEF ms
<1>18. /\ derive_resume_frontier(rows, p, cid, tid, disagreed) # NoEntry
       /\ derive_resume_frontier(rows, p, cid, tid, disagreed).minStart = ms
  BY <1>17, DerivedEntry DEF ms
<1> QED
  BY <1>16, <1>17, <1>18

\* What a new session knows of a partition.
Fresh(fr, e) ==
    [IdleCons EXCEPT !.fr = fr, !.epoch = e,
                     !.gate = IF fr # NoEntry THEN NeedsTarget ELSE Active]

LEMMA FreshFields ==
    ASSUME NEW fr, NEW e, NEW c, c = Fresh(fr, e)
    PROVE  /\ c.fr = fr /\ c.epoch = e /\ c.next = NoOffset /\ c.span = NoSpan /\ ~c.assigned
           /\ ~c.reset /\ ~c.resetFloor /\ ~c.recFloor /\ ~c.astray /\ c.notice = {}
           /\ fr = NoEntry => c.gate = Active
           /\ c.gate.kind \in {"target", "active"}
BY DEF Fresh, IdleCons, Active, NeedsTarget

\* An offset that nothing is lost below is clear, or has a lost record below it.
LEMMA ClearUnlessLost ==
    ASSUME KafkaInv, NumberInv, NEW p \in Partition, NEW x \in Int, UpTo(p, log[p], x, Safe),
           NEW S, Shelved \cup Poison \cup excused \cup gap \subseteq S,
           ~\E o \in Retained(p) : o < x /\ Lost(p, o)
    PROVE  Clear(p, log[p], shadow, 0, x, S)
<1> DEFINE l == log[p]
<1>1. LogOK(l) /\ l.epoch >= 1
  BY DEF KafkaInv, Typed, BrokerTyped, NumberInv
<1>2. 0 # l.epoch
  BY <1>1, LogBounds
<1>3. EndOf(l, 0) = TopOf(l) /\ Unseen(l, shadow, 0) = shadow
  BY <1>2 DEF EndOf, Unseen
<1>4. ASSUME NEW o \in l.low .. (Len(l.recs) - 1), o < x
      PROVE  <<p, l.recs[o + 1]>> \in S \cup shadow
  <2>1. o \in Retained(p) /\ RecordAt(p, o) = <<p, l.recs[o + 1]>>
    BY DEF Retained, High, RecordAt
  <2>2. RecordAt(p, o) \in Safe
    BY <1>4, <2>1 DEF UpTo
  <2>3. ~Lost(p, o)
    BY <1>4, <2>1
  <2> QED
    BY <2>1, <2>2, <2>3 DEF Lost
<1> QED
  BY <1>3, <1>4 DEF Clear, UpTo

LEMMA FreshFirm ==
    ASSUME KafkaInv, NumberInv, RowInv, sess.phase \in {"down", "stopped"}, NEW p \in Partition,
           NEW cid \in BOOLEAN, NEW tid \in {NoTopicId, topic}, NEW disagreed \in BOOLEAN,
           NEW fr, fr = derive_resume_frontier(rows, p, cid, tid, disagreed),
           NEW rec, rec = TopicRecreated(rows, cid, tid, disagreed),
           NEW c, c = Fresh(fr, IF rec THEN log[p].epoch ELSE 0),
           NEW S, Shelved \cup Poison \cup excused \cup gap \subseteq S, NEW K
    PROVE  Firm(p, log[p], shadow, rec, c, {committed[p], NoOffset}, S, K)
<1> DEFINE l == log[p]
           H == shadow
<1>1. LogOK(l) /\ l.epoch \in Nat /\ l.epoch >= 1
  BY LogBounds DEF KafkaInv, Typed, BrokerTyped, NumberInv
<1>2. /\ c.fr = fr /\ c.epoch = (IF rec THEN l.epoch ELSE 0) /\ c.next = NoOffset
      /\ c.span = NoSpan /\ ~c.assigned /\ ~c.reset /\ ~c.resetFloor /\ ~c.recFloor /\ ~c.astray
      /\ c.notice = {} /\ (fr = NoEntry => c.gate = Active) /\ c.gate.kind \in {"target", "active"}
  BY FreshFields
<1>3. fr \in Entry /\ FrontierOK(p, l, fr, Safe)
  BY FrontierDerived
<1>4. fr = NoEntry \/ (rec => fr.recreated)
  BY DerivedEntry
<1>5. rec \in BOOLEAN
  BY DEF TopicRecreated, detect_topic_recreation
<1>6. ASSUME NEW o \in Retained(p), Lost(p, o)
      PROVE  fr # NoEntry /\ fr.minStart # Passthrough /\ fr.minStart <= o
  BY <1>6, FloorBelow
<1>7. committed[p] \in Int /\ UpTo(p, l, committed[p], Safe) /\ fr.minStart \in Int
  BY <1>3, Constants DEF KafkaInv, Typed, BrokerTyped, SafeInv, Entry
<1>8. Clear(p, l, H, c.epoch, NoOffset, S) /\ Clear(p, l, H, c.epoch, NoOffset, K)
  BY <1>1, ClearNone
<1>9. NoSpan.next = NoOffset /\ NoEntry.minStart = NoOffset
  BY DEF NoSpan, NoEntry
<1>10. \A o \in Retained(p) : o \in Int
  BY <1>1, LogBounds DEF Retained, High
<1>11. Aware(l, rec, c)
  BY <1>1, <1>2, <1>4, <1>5 DEF Aware, Started, Judged
<1>12. FloorFirm(p, l, H, c, S)
  <2> SUFFICES ASSUME ~fr.recreated, fr.minStart # Passthrough
               PROVE  Clear(p, l, H, c.epoch, fr.minStart, S)
    BY <1>2 DEF FloorFirm
  <2>1. CASE fr = NoEntry
    BY <1>8, <1>9, <2>1
  <2>2. CASE fr # NoEntry
    <3>1. ~rec /\ c.epoch = 0
      BY <1>2, <1>4, <2>2
    <3>2. UpTo(p, l, fr.minStart, Safe)
      BY <1>3 DEF FrontierOK
    <3>3. ~\E o \in Retained(p) : o < fr.minStart /\ Lost(p, o)
      BY <1>6, <1>7, <1>10
    <3>4. Clear(p, l, H, 0, fr.minStart, S)
      BY <1>7, <3>2, <3>3, ClearUnlessLost
    <3> QED
      BY <3>1, <3>4
  <2> QED
    BY <2>1, <2>2
<1>13. GateFirm(p, l, H, c, K)
  BY <1>2 DEF GateFirm
<1>14. ~Through(rec, c)
  BY <1>2 DEF Through
<1>15. ASSUME Trusting(rec, c), NEW com \in {committed[p], NoOffset}
       PROVE  CommitFirm(p, l, H, c, com, S)
  <2>1. CASE com = NoOffset
    BY <1>8, <2>1 DEF CommitFirm
  <2>2. CASE com = committed[p] /\ \E o \in Retained(p) : o < com /\ Lost(p, o)
    BY <1>2, <1>6, <1>7, <1>10, <2>2 DEF CommitFirm
  <2>3. CASE com = committed[p] /\ ~\E o \in Retained(p) : o < com /\ Lost(p, o)
    <3>1. c.epoch = 0
      BY <1>2, <1>15 DEF Trusting
    <3>2. Clear(p, l, H, 0, com, S)
      BY <1>7, <2>3, ClearUnlessLost
    <3> QED
      BY <3>1, <3>2 DEF CommitFirm
  <2> QED
    BY <2>1, <2>2, <2>3
<1>16. Steady(p, l, H, rec, c, {committed[p], NoOffset}, S, K)
  BY <1>2, <1>8, <1>9, <1>12, <1>13, <1>14, <1>15 DEF Steady
<1> QED
  BY <1>11, <1>16 DEF Firm

LEMMA StartSkip ==
    ASSUME KafkaInv, SkipInv, NEW cid \in BOOLEAN,
           NEW probe \in {"agreed", "unresolved", "disagreed"}, Start(cid, probe)
    PROVE  SkipInv'
<1> DEFINE tid == IF probe = "agreed" THEN topic ELSE NoTopicId
           disagreed == probe = "disagreed"
           rec == TopicRecreated(rows, cid, tid, disagreed)
           F(p) == derive_resume_frontier(rows, p, cid, tid, disagreed)
<1>1. /\ sess.phase \in {"down", "stopped"} /\ buf = <<>> /\ pub = NoPub /\ pub.phase = "none"
      /\ \A p \in Partition : pub.spans[p] = NoSpan
  BY NoPubTyped DEF Start, KafkaInv, ShapeInv
<1>2. /\ UNCHANGED <<log, topic, committed, rows, buf, pub, excused, gap, shadow>>
      /\ sent' = [p \in Partition |-> NoOffset]
  BY DEF Start, brokerVars
<1>3. /\ sess'.tid = tid /\ sess'.recreated = rec
  BY DEF Start
<1>4. tid \in {NoTopicId, topic} /\ disagreed \in BOOLEAN
  OBVIOUS
<1>5. NumberInv' /\ RowInv'
  <2>1. \A r \in ToSet(buf') \cup ToSet(pub'.batch) : r \in Everywhere
    BY <1>2 DEF Everywhere
  <2> QED
    BY <1>2, <2>1, RowsStay DEF SkipInv
<1>6. Shelved' = Shelved
  BY <1>2 DEF Shelved, SettledRows, InStock, RowRecords
<1>7. ASSUME NEW p \in Partition
      PROVE  /\ cons'[p].fr.loaded \subseteq LoadedOffsets(rows', p, TRUE, sess'.tid)
             /\ Sound(p, log'[p], shadow', sess'.recreated, cons'[p], {committed'[p], sent'[p]},
                      pub'.spans[p], Backed(p)', InHand(p)')
  <2> DEFINE fr == F(p)
             e == IF rec THEN log[p].epoch ELSE 0
             c == cons'[p]
             S == Backed(p)'
             K == InHand(p)'
  <2>1. c = Fresh(fr, e)
    BY DEF Start, Fresh
  <2>2. Shelved \cup Poison \cup excused \cup gap \subseteq S
    BY <1>2, <1>6 DEF Backed
  <2>3. NumberInv /\ RowInv /\ LogOK(log[p])
    BY DEF SkipInv, KafkaInv, Typed, BrokerTyped
  <2> HIDE DEF c, S, K
  <2>4. Firm(p, log[p], shadow, rec, c, {committed[p], NoOffset}, S, K)
    <3> HIDE DEF tid, disagreed
    <3>1. fr = derive_resume_frontier(rows, p, cid, tid, disagreed)
      OBVIOUS
    <3>2. rec = TopicRecreated(rows, cid, tid, disagreed)
      OBVIOUS
    <3> HIDE DEF fr, rec
    <3>3. c = Fresh(fr, IF rec THEN log[p].epoch ELSE 0)
      BY <2>1
    <3> QED
      BY <1>1, <1>4, <2>2, <2>3, <3>1, <3>2, <3>3, FreshFirm
  <2>5. Sound(p, log[p], shadow, rec, c, {committed[p], NoOffset}, NoSpan, S, K)
    BY <2>3, <2>4, NoSpansSound
  <2>6. c.fr.loaded \subseteq LoadedOffsets(rows, p, TRUE, tid)
    <3>1. c.fr = fr
      BY <2>1, FreshFields
    <3>2. fr = NoEntry \/ fr.loaded \subseteq LoadedOffsets(rows, p, TRUE, tid)
      BY <1>4, DerivedEntry
    <3>3. NoEntry.loaded = {}
      BY DEF NoEntry
    <3> QED
      BY <3>1, <3>2, <3>3
  <2>7. sent'[p] = NoOffset /\ pub'.spans[p] = NoSpan
    BY <1>1, <1>2
  <2> QED
    BY <1>2, <1>3, <2>5, <2>6, <2>7 DEF c, S, K
<1>8. SessionInv'
  BY <1>2, <1>3, <1>4, <1>7, SessionNext
<1> QED
  BY <1>5, <1>8 DEF SkipInv

------------------------------------------------------------------------------
(* The induction.                                                          *)

LEMMA InitSkip ==
    ASSUME Init
    PROVE  SkipInv
<1>1. /\ rows = <<>> /\ buf = <<>> /\ pub = NoPub /\ sess.phase = "down"
      /\ \A p \in Partition : log[p] = [low |-> 0, recs |-> <<>>, born |-> 0, epoch |-> 1, cut |-> 0]
  BY DEF Init
<1>2. DOMAIN rows = {}
  BY <1>1
<1>3. Everywhere = {}
  BY <1>1, <1>2, NoPubTyped DEF Everywhere, Durable
<1>4. NumberInv
  <2>1. \A p \in Partition : DOMAIN log[p].recs = {} /\ log[p].epoch = 1
    BY <1>1
  <2> QED
    BY <1>3, <2>1 DEF NumberInv, Numbered, Born
<1>5. RowInv
  BY <1>1, <1>2, NoPubTyped DEF RowInv
<1>6. SessionInv
  BY <1>1 DEF SessionInv, InSession
<1> QED
  BY <1>4, <1>5, <1>6 DEF SkipInv

LEMMA StutterSkip ==
    ASSUME SkipInv, UNCHANGED vars
    PROVE  SkipInv'
<1>1. UNCHANGED <<log, topic, committed, sent, rows, sess, cons, buf, pub, excused, gap, shadow>>
  BY DEF vars, brokerVars, historyVars
<1>2. NumberInv'
  BY <1>1 DEF SkipInv, NumberInv, Born, Everywhere, Durable, RowRecords
<1>3. RowInv'
  BY <1>1 DEF SkipInv, RowInv
<1>4. Shelved' = Shelved
  BY <1>1 DEF Shelved, SettledRows, InStock, RowRecords
<1>5. ASSUME NEW p \in Partition
      PROVE  Backed(p)' = Backed(p) /\ InHand(p)' = InHand(p)
  <2>1. Misclaimed(p)' = Misclaimed(p)
    BY <1>1 DEF Misclaimed, RecordAt, Retained, High, RowRecords
  <2> QED
    BY <1>1, <1>4, <2>1 DEF Backed, InHand
<1>6. SessionInv'
  BY <1>1, <1>5 DEF SkipInv, SessionInv, InSession, LoadedIn
<1> QED
  BY <1>2, <1>3, <1>6 DEF SkipInv

LEMMA SkipStep ==
    ASSUME KafkaInv, KafkaInv', SkipInv, [Next]_vars
    PROVE  SkipInv'
<1>1. CASE \E cid \in BOOLEAN, probe \in {"agreed", "unresolved", "disagreed"} : Start(cid, probe)
  BY <1>1, StartSkip
<1>2. CASE \E dropped \in SUBSET Partition : Join(dropped)
  BY <1>2, JoinSkip
<1>3. CASE JoinTimesOut
  BY <1>3, JoinTimesOutSkip
<1>4. CASE \E p \in Partition : Deliver(p)
  BY <1>4, DeliverSkip
<1>5. CASE SeekRetryTick
  BY <1>5, SeekRetryTickSkip
<1>6. CASE FlushTick
  BY <1>6, FlushTickSkip
<1>7. CASE \E fatal \in BOOLEAN : Stop(fatal)
  BY <1>7, StopSkip
<1>8. CASE PublishStep
  BY <1>8, PersistSkip, PersistFailsSkip, SwapSkip, SwapFailsSkip, RollbackSkip, RollbackFailsSkip
     DEF PublishStep
<1>9. CASE Revoke
  BY <1>9, RevokeSkip
<1>10. CASE Assign
  BY <1>10, AssignSkip
<1>11. CASE Crash
  BY <1>11, CrashSkip
<1>12. CASE BrokerStep
  BY <1>12, ProduceSkip, RetainSkip, ResetPositionSkip, CommitSkip, TruncateSkip, RecreateSkip,
     LoseBlobSkip DEF BrokerStep
<1>13. CASE UNCHANGED vars
  BY <1>13, StutterSkip
<1> QED
  BY <1>1, <1>2, <1>3, <1>4, <1>5, <1>6, <1>7, <1>8, <1>9, <1>10, <1>11, <1>12, <1>13 DEF Next

\* SkipInv is an invariant: a row whose blob is lost names the records it held,
\* and every offset that a running session may seek to, restore or commit has
\* only records below it that a readable row or the loop holds (derive_resume_frontier,
\* the resume-seek gate and the contiguous commit frontier together).
THEOREM SkipInvHolds == Spec => []SkipInv
<1>1. Init => SkipInv
  BY InitSkip
<1>2. KafkaInv /\ KafkaInv' /\ SkipInv /\ [Next]_vars => SkipInv'
  BY SkipStep
<1> QED
  BY <1>1, <1>2, KafkaInvHolds, PTL DEF Spec

\* A partition that delivers has nothing retained behind it that no readable row,
\* buffer or publication holds: no seek, no-op'd seek, restore or start from the
\* committed offset leaves it above a record that is gone, also after the blob of
\* a published row was lost.
THEOREM NothingIsSkipped == Spec => []NothingSkipped
<1>1. KafkaInv /\ SkipInv => NothingSkipped
  <2> SUFFICES ASSUME KafkaInv, SkipInv, NEW p \in Partition, Looping, cons[p].assigned,
                      cons[p].gate = Active, cons[p].notice = {}, ~cons[p].astray,
                      NEW o \in Retained(p), o < cons[p].pos
               PROVE  RecordAt(p, o) \in Accounted \cup excused \cup gap
                                         \cup Misclaimed(p) \cup Renumbered(p)
    BY DEF NothingSkipped
  <2> DEFINE l == log[p]
             e == cons[p].epoch
  <2>1. Through(sess.recreated, cons[p])
    BY DEF Through
  <2>2. Sound(p, l, shadow, sess.recreated, cons[p], {committed[p], sent[p]},
              pub.spans[p], Backed(p), InHand(p))
    BY DEF SkipInv, SessionInv, InSession, Looping, Running
  <2>3. Clear(p, l, shadow, e, cons[p].pos, InHand(p))
    BY <2>1, <2>2 DEF Sound, Firm, Steady
  <2>4. o \in l.low .. (Len(l.recs) - 1) /\ RecordAt(p, o) = <<p, l.recs[o + 1]>>
    BY DEF Retained, High, RecordAt
  <2>5. RecordAt(p, o) \in InHand(p) \cup Unseen(l, shadow, e)
    BY <2>3, <2>4 DEF Clear
  <2>6. Unseen(l, shadow, e) = Renumbered(p)
    BY DEF Unseen, Renumbered
  <2>7. InHand(p) \subseteq Accounted \cup excused \cup gap \cup Misclaimed(p)
    BY HandsAccounted DEF SkipInv
  <2> QED
    BY <2>5, <2>6, <2>7
<1> QED
  BY <1>1, KafkaInvHolds, SkipInvHolds, PTL
=============================================================================
