---------------------------- MODULE KafkaOrderProofs ----------------------------
(***************************************************************************)
(* KafkaIngest implements StreamDelivery: while the resume evidence is not *)
(* damaged, every record is published at most once and in order, for any   *)
(* partitions, records, batch sizes and incidents.  KafkaProofs bounds the *)
(* offsets a session remembers from above (nothing is skipped); here they  *)
(* are bounded from below: each of them is exactly the end of what the     *)
(* group has published or has in its hands.                                *)
(***************************************************************************)
EXTENDS KafkaProofs

(***************************************************************************)
(* The spans E that the rows carry for a partition.                        *)
(***************************************************************************)
TopIs(E, x) == (\A s \in E : s.next <= x) /\ (\E s \in E : s.next = x)

\* No hole between the lowest start and the highest end.
Solid(E) ==
    \A s, t \in E : \A o \in s.start .. (t.next - 1) : \E u \in E : o \in Covered(u)

\* Retention has not outrun the evidence.
Within(l, E) == E # {} => \E s \in E : l.low <= s.next

\* The evidence bears a resume: spans are proper, without a hole, not outrun by
\* retention, and an offset the group committed is not below all of them.
Sound(l, E, com, snt) ==
    /\ \A s \in E : 0 <= s.start /\ s.start < s.next
    /\ Solid(E)
    /\ Within(l, E)
    /\ com # NoOffset => \E s \in E : s.start <= com
    /\ snt # NoOffset => \E s \in E : s.start <= snt

\* The frontier entry fr is the one of E.
FrontierIs(fr, E) ==
    IF E = {} THEN fr = NoEntry
    ELSE /\ ~fr.recreated
         /\ \E s \in E : fr.minStart = s.start
         /\ \A s \in E : fr.minStart <= s.start
         /\ fr.loaded = UNION {Covered(s) : s \in E}

(***************************************************************************)
(* A partition of a session: c its consumer, h the span of its records in  *)
(* the buffer or in the batch that is being published.                     *)
(***************************************************************************)
EndOf(c, h) == IF h = NoSpan THEN c.next ELSE h.next

\* The group goes on at x: behind what it has in its hands and in the rows.
GoesOn(E, c, h, x) ==
    IF c.next # NoOffset THEN x = EndOf(c, h) ELSE E # {} => TopIs(E, x)

Aligned(l, E, c, h) ==
    /\ ~c.fr.recreated /\ ~c.reset /\ ~c.recFloor /\ ~c.resetFloor
    /\ h # NoSpan => c.next # NoOffset /\ h.start = c.next /\ h.start < h.next
    /\ c.next = NoOffset => FrontierIs(c.fr, E)
    /\ c.next # NoOffset => l.low <= c.next /\ (E # {} => TopIs(E, c.next))
    /\ c.gate.kind = "target" => c.next = NoOffset /\ c.fr # NoEntry
    /\ c.gate.kind = "restore" => c.next # NoOffset /\ c.gate.at = EndOf(c, h)
    /\ c.gate.kind = "seek" => GoesOn(E, c, h, c.gate.at) /\ c.gate.at <= Len(l.recs)
    /\ Through(FALSE, c) => GoesOn(E, c, h, c.pos)

(***************************************************************************)
(* The records, by the spans they lie in.                                  *)
(***************************************************************************)
Stamped(recs, span) ==
    \A k \in DOMAIN recs : recs[k][2] - 1 \in Covered(span[recs[k][1]])

Rising(recs) ==
    \A k, m \in DOMAIN recs : k < m /\ recs[k][1] = recs[m][1] => recs[k][2] < recs[m][2]

HandSpan == IF pub.phase = "none" THEN [p \in Partition |-> cons[p].span] ELSE pub.spans
Hands == IF pub.phase = "none" THEN buf ELSE pub.batch

\* The log was never cut: a record's number is its offset plus one.
Plain(l) == l.cut = 0 /\ l.born = Len(l.recs) /\ \A k \in DOMAIN l.recs : l.recs[k] = k

Row1(row) ==
    row.cid /\ row.tid = topic /\ row.blob /\ Stamped(row.recs, row.span) /\ Rising(row.recs)

RowsInv ==
    /\ \A i \in SettledRows : Row1(rows[i])
    /\ \A i, j \in SettledRows, p \in Partition :
          i < j /\ rows[i].span[p] # NoSpan /\ rows[j].span[p] # NoSpan =>
              rows[i].span[p].next <= rows[j].span[p].start

NewRowInv ==
    pub.phase \in {"swap", "rollback"} =>
        LET row == rows[Len(rows)]
        IN  row.cid /\ row.tid = topic /\ row.blob /\ row.span = pub.spans

HandsInv == Stamped(Hands, HandSpan) /\ Rising(Hands)

SessionInv ==
    sess.phase \in {"join", "up"} =>
        /\ sess.cid /\ sess.tid = topic /\ ~sess.recreated
        /\ \A p \in Partition : Aligned(log[p], Evidence(p), cons[p], HandSpan[p])

BrokerInv ==
    \A p \in Partition : Plain(log[p]) /\ Sound(log[p], Evidence(p), committed[p], sent[p])

Orderly == BrokerInv /\ SessionInv /\ RowsInv /\ NewRowInv /\ HandsInv

OrderInv == ~degraded => Orderly

------------------------------------------------------------------------------
(* Resuming from sound evidence.                                           *)

\* Where nothing was cut, everything a partition remembers is within its log.
Fits(l, E, c, h) ==
    /\ LogOK(l) /\ l.cut = 0 /\ c \in Consumer
    /\ E \subseteq Span /\ h \in Span
    /\ \A s \in E : s.next <= Len(l.recs)
    /\ c.next <= Len(l.recs) /\ h.next <= Len(l.recs)

LEMMA SpanFields ==
    ASSUME NEW s \in Span
    PROVE  /\ s.start \in Offset /\ s.next \in Offset /\ s.start \in Int /\ s.next \in Int
           /\ -1 <= s.start /\ s.start <= MaxRecords /\ s.next <= MaxRecords
           /\ \A o : o \in Covered(s) => o \in Int /\ s.start <= o /\ o < s.next
           /\ \A o \in Int : s.start <= o /\ o < s.next => o \in Covered(s)
<1>1. s.start \in Offset /\ s.next \in Offset
  BY DEF Span
<1>2. s.start \in Int /\ s.next \in Int
  BY <1>1, Constants
<1> QED
  BY <1>1, <1>2, Constants DEF Covered

\* A resume from the frontier of sound evidence goes to the end of it.
LEMMA ResumeIsTop ==
    ASSUME NEW l, NEW E, E \subseteq Span, E # {}, NEW com \in Offset, NEW snt,
           Sound(l, E, com, snt), NEW fr, FrontierIs(fr, E)
    PROVE  TopIs(E, resume_offset(com, fr))
<1>1. /\ ~fr.recreated /\ fr.loaded = UNION {Covered(s) : s \in E}
      /\ \A s \in E : fr.minStart <= s.start
  BY DEF FrontierIs
<1>2. PICK b \in E : fr.minStart = b.start
  BY DEF FrontierIs
<1> DEFINE m == fr.minStart
           L == fr.loaded
           r == advance_contiguous(m, L)
<1>3. m \in Int /\ -1 <= m /\ m <= MaxRecords
  BY <1>2, SpanFields
<1>4. \A o \in L : o \in Int /\ o <= MaxRecords
  <2> SUFFICES ASSUME NEW s \in E, NEW o \in Covered(s) PROVE o \in Int /\ o <= MaxRecords
    BY <1>1
  <2> QED
    BY SpanFields, Constants
<1>5. resume_offset(com, fr) = r
  <2>1. com = NoOffset => resume_offset(com, fr) = r
    BY <1>1 DEF resume_offset
  <2>2. ASSUME com # NoOffset PROVE resume_offset(com, fr) = r
    <3>1. PICK s \in E : s.start <= com
      BY <2>2 DEF Sound
    <3>2. m <= com /\ com \in Int
      BY <3>1, <1>1, <1>3, SpanFields, Constants
    <3>3. Min({com, m}) = m
      <4>1. /\ {com, m} \subseteq Int /\ {com, m} # {} /\ m \in Int
            /\ \A y \in {com, m} : m <= y
        BY <3>2, <1>3
      <4> HIDE DEF m
      <4>2. Min({com, m}) \in {com, m} /\ \A y \in {com, m} : Min({com, m}) <= y
        BY <4>1, MinOf
      <4> QED
        BY <4>1, <4>2, <3>2
    <3> QED
      BY <2>2, <3>3, <1>1 DEF resume_offset
  <2> QED
    BY <2>1, <2>2
<1>6. r \in Int /\ m <= r /\ r \notin L /\ \A o \in m .. (r - 1) : o \in L
  <2> HIDE DEF m, L
  <2> QED
    BY <1>3, <1>4, Advance, Constants
<1> HIDE DEF r
<1>7. ASSUME NEW s \in E PROVE s.next <= r
  <2> SUFFICES ASSUME s.next > r PROVE FALSE
    BY <1>6, SpanFields
  <2>1. r \in b.start .. (s.next - 1)
    BY <1>2, <1>6, SpanFields
  <2>2. PICK u \in E : r \in Covered(u)
    BY <2>1 DEF Sound, Solid
  <2> QED
    BY <2>2, <1>1, <1>6
<1>8. \E s \in E : s.next = r
  <2>1. b.start < b.next /\ b.next <= r
    BY <1>7 DEF Sound
  <2>2. r - 1 \in m .. (r - 1)
    BY <2>1, <1>2, <1>3, <1>6, SpanFields
  <2>3. PICK u \in E : r - 1 \in Covered(u)
    BY <2>2, <1>1, <1>6
  <2>4. r - 1 < u.next /\ u.next <= r /\ u.next \in Int
    BY <2>3, <1>7, SpanFields
  <2>5. u.next = r
    BY <2>4, <1>6
  <2> QED
    BY <2>5
<1> QED
  BY <1>5, <1>7, <1>8 DEF TopIs

\* The end of the evidence is unique.
LEMMA OneTop ==
    ASSUME NEW E, E \subseteq Span, NEW x, NEW y, TopIs(E, x), TopIs(E, y)
    PROVE  x = y /\ x \in Int
<1>1. PICK s \in E : s.next = x
  BY DEF TopIs
<1>2. PICK t \in E : t.next = y
  BY DEF TopIs
<1>3. s.next <= y /\ t.next <= x /\ x \in Int /\ y \in Int
  BY <1>1, <1>2, SpanFields DEF TopIs
<1> QED
  BY <1>3, <1>1, <1>2

------------------------------------------------------------------------------
(* The gate keeps a partition aligned.                                     *)

\* e and f differ at most in what the alignment does not look at.
Twin(e, f) ==
    /\ e.assigned = f.assigned /\ e.pos = f.pos /\ e.gate = f.gate /\ e.recFloor = f.recFloor
    /\ e.reset = f.reset /\ e.resetFloor = f.resetFloor /\ e.fr = f.fr
    /\ e.next = f.next /\ e.span = f.span /\ e.notice = f.notice

LEMMA AlignedTwin ==
    ASSUME NEW l, NEW E, NEW e, NEW f, NEW h, Twin(e, f), Aligned(l, E, f, h)
    PROVE  Aligned(l, E, e, h)
<1>1. SafeFloor(e) = SafeFloor(f)
  BY DEF SafeFloor, Twin
<1>2. \A x : GoesOn(E, f, h, x) => GoesOn(E, e, h, x)
  BY DEF GoesOn, EndOf, Twin
<1>3. Through(FALSE, e) => Through(FALSE, f)
  BY <1>1 DEF Through, Twin
<1>4. EndOf(e, h) = EndOf(f, h)
  BY DEF EndOf, Twin
<1> QED
  BY <1>2, <1>3, <1>4 DEF Aligned, Twin

\* Where the group goes on is the floor a rebalance restores to.
LEMMA FloorIsEnd ==
    ASSUME NEW l, NEW E, NEW c \in Consumer, NEW h, Aligned(l, E, c, h),
           c.span = h
    PROVE  /\ SafeFloor(c) = EndOf(c, h)
           /\ SafeFloor(c) = NoOffset <=> c.next = NoOffset
<1>1. /\ SafeFloor(c) = IF c.next >= c.span.next THEN c.next ELSE c.span.next
      /\ SafeFloor(c) \in Offset
      /\ SafeFloor(c) = NoOffset <=> c.next = NoOffset /\ c.span.next = NoOffset
  BY FloorOf
<1>2. c.next \in Offset /\ c.span \in Span /\ c.span = h
  BY DEF Consumer
<1>3. c.next \in Int /\ -1 <= c.next /\ h.next \in Int
  BY <1>2, Constants, SpanFields
<1>4. NoSpan.next = -1 /\ NoOffset = -1
  BY Constants DEF NoSpan
<1>5. h # NoSpan => c.next # NoOffset /\ h.start = c.next /\ h.start < h.next
  BY DEF Aligned
<1> QED
  BY <1>1, <1>2, <1>3, <1>4, <1>5 DEF EndOf

\* d is aligned, without a notice, and remembers what c does.
Drains(l, E, d, h, c) ==
    /\ Aligned(l, E, d, h) /\ d \in Consumer /\ d.notice = {} /\ d.next = c.next
    /\ d.span = c.span /\ d.assigned = c.assigned /\ d.pos = c.pos
    /\ (c.gate.kind = "active" => c.gate = Active) => (d.gate.kind = "active" => d.gate = Active)

\* drain_rebalance_and_rearm keeps a partition aligned.
LEMMA DrainedAligned ==
    ASSUME sess.recreated = FALSE, NEW l, NEW E, NEW c \in Consumer, NEW h, Aligned(l, E, c, h),
           c.span = h
    PROVE  Drains(l, E, Drained(c), h, c)
<1>1. CASE c.notice = {}
  BY <1>1 DEF Drained, Drains
<1>2. CASE c.notice # {}
  <2> DEFINE d == [c EXCEPT !.notice = {}, !.fr = c.fr,
                            !.paused = @ /\ "revoked" \notin c.notice]
             g == IF SafeFloor(d) # NoOffset THEN NeedsRestore(SafeFloor(d))
                  ELSE IF d.fr # NoEntry THEN NeedsTarget ELSE d.gate
             e == [d EXCEPT !.gate = g]
  <2>1. synthesize_recreated(c.fr, sess.recreated /\ "assigned" \in c.notice) = c.fr
    BY DEF synthesize_recreated
  <2>2. d \in Consumer
    BY DEF Consumer
  <2>3. /\ d.notice = {} /\ d.fr = c.fr /\ d.next = c.next /\ d.span = c.span /\ d.gate = c.gate
        /\ d.assigned = c.assigned /\ d.pos = c.pos /\ d.recFloor = c.recFloor
        /\ d.reset = c.reset /\ d.resetFloor = c.resetFloor
    BY DEF Consumer
  <2>4. Drained(c) = e
    <3>1. Drained(c) = IF SafeFloor(d) # NoOffset
                       THEN [d EXCEPT !.gate = NeedsRestore(SafeFloor(d))]
                       ELSE IF d.fr # NoEntry THEN [d EXCEPT !.gate = NeedsTarget]
                       ELSE d
      BY <1>2, <2>1 DEF Drained
    <3>2. d = [d EXCEPT !.gate = d.gate]
      <4> HIDE DEF d
      <4> QED
        BY <2>2 DEF Consumer
    <3> HIDE DEF d
    <3> QED
      BY <3>1, <3>2
  <2> HIDE DEF d
  <2>5. SafeFloor(d) = SafeFloor(c)
    BY <2>3 DEF SafeFloor
  <2>6. /\ SafeFloor(c) = EndOf(c, h) /\ SafeFloor(c) \in Offset
        /\ SafeFloor(c) = NoOffset <=> c.next = NoOffset
    BY FloorIsEnd, FloorOf
  <2>7. g \in Gate
    BY <2>2, <2>5, <2>6, Constants DEF Gate, NeedsRestore, NeedsTarget, Consumer
  <2>8. /\ c.next # NoOffset => g.kind = "restore" /\ g.at = EndOf(c, h)
        /\ c.next = NoOffset /\ c.fr # NoEntry => g.kind = "target"
        /\ c.next = NoOffset /\ c.fr = NoEntry => g = c.gate
    BY <2>3, <2>5, <2>6 DEF NeedsRestore, NeedsTarget
  <2> HIDE DEF g
  <2>9. e \in Consumer
    BY <2>2, <2>7 DEF Consumer
  <2>10. /\ e.gate = g /\ e.notice = {} /\ e.fr = c.fr /\ e.next = c.next /\ e.span = c.span
         /\ e.assigned = c.assigned /\ e.pos = c.pos /\ e.recFloor = c.recFloor
         /\ e.reset = c.reset /\ e.resetFloor = c.resetFloor
    BY <2>2, <2>3 DEF Consumer
  <2> HIDE DEF e
  <2>11. EndOf(e, h) = EndOf(c, h) /\ \A x : GoesOn(E, e, h, x) <=> GoesOn(E, c, h, x)
    BY <2>10 DEF EndOf, GoesOn
  <2>12. Through(FALSE, e) => Through(FALSE, c)
    <3> SUFFICES ASSUME Through(FALSE, e) PROVE Through(FALSE, c)
      OBVIOUS
    <3>1. g = Active /\ c.assigned
      BY <2>10 DEF Through
    <3>2. c.next = NoOffset /\ c.fr = NoEntry /\ c.gate = Active
      BY <3>1, <2>8 DEF Active
    <3> QED
      BY <3>1, <3>2, <2>6 DEF Through
  <2>13. Aligned(l, E, e, h)
    <3>1. CASE c.next # NoOffset
      BY <3>1, <2>8, <2>10, <2>11, <2>12 DEF Aligned
    <3>2. CASE c.next = NoOffset /\ c.fr # NoEntry
      BY <3>2, <2>8, <2>10, <2>11, <2>12 DEF Aligned
    <3>3. CASE c.next = NoOffset /\ c.fr = NoEntry
      BY <3>3, <2>8, <2>10, <2>11, <2>12 DEF Aligned
    <3> QED
      BY <3>1, <3>2, <3>3
  <2> QED
    BY <2>4, <2>8, <2>9, <2>10, <2>13 DEF Drains
<1> QED
  BY <1>1, <1>2

\* The gate of an aligned partition is given the offset where the group goes on.
LEMMA TargetAligned ==
    ASSUME NEW l, NEW E, NEW c, NEW h, Fits(l, E, c, h), Aligned(l, E, c, h), Pending(c),
           c.gate.kind = "active" => c.gate = Active,
           NEW com \in Offset, NEW snt, Sound(l, E, com, snt),
           c.gate.kind = "restore" => com <= c.gate.at
    PROVE  LET a == WithTarget(c, com)
           IN  /\ Aligned(l, E, a, h) /\ a \in Consumer /\ a.gate.kind = "seek"
               /\ a.next = c.next /\ a.span = c.span /\ a.fr = c.fr /\ a.pos = c.pos
               /\ a.assigned = c.assigned /\ a.notice = c.notice /\ a.tainted = c.tainted
               /\ ~WithTarget(c, NoOffset).recFloor
<1>0. c \in Consumer /\ LogOK(l) /\ E \subseteq Span /\ h \in Span
  BY DEF Fits
<1>1. c.gate \in Gate /\ c.gate.kind \in {"target", "seek", "restore"} /\ c.gate.at \in Int
  BY <1>0 DEF Consumer, Gate, Pending
<1>2. ~c.fr.recreated /\ ~c.reset /\ ~c.recFloor /\ ~c.resetFloor /\ ~Untrusted(c)
  BY DEF Aligned, Untrusted
<1> DEFINE Facts(a) ==
      /\ Aligned(l, E, a, h) /\ a \in Consumer /\ a.gate.kind = "seek"
      /\ a.next = c.next /\ a.span = c.span /\ a.fr = c.fr /\ a.pos = c.pos
      /\ a.assigned = c.assigned /\ a.notice = c.notice /\ a.tainted = c.tainted
<1>3. ASSUME NEW t \in Int, t <= Len(l.recs), GoesOn(E, c, h, t)
      PROVE  Facts([c EXCEPT !.gate = NeedsSeek(t), !.recFloor = FALSE, !.resetFloor = FALSE])
  <2> DEFINE a == [c EXCEPT !.gate = NeedsSeek(t), !.recFloor = FALSE, !.resetFloor = FALSE]
  <2>1. /\ NeedsSeek(t) \in Gate /\ NeedsSeek(t) # Active /\ NeedsSeek(t).kind = "seek"
        /\ NeedsSeek(t).at = t
    BY <1>3 DEF Gate, NeedsSeek, Active
  <2>2. a \in Consumer
    BY <1>0, <2>1 DEF Consumer
  <2>3. /\ a.gate = NeedsSeek(t) /\ a.next = c.next /\ a.span = c.span /\ a.fr = c.fr
        /\ a.pos = c.pos /\ a.assigned = c.assigned /\ a.notice = c.notice
        /\ a.recFloor = FALSE /\ a.resetFloor = FALSE /\ a.reset = c.reset
        /\ a.tainted = c.tainted
    BY <1>0 DEF Consumer
  <2> HIDE DEF a
  <2>4. GoesOn(E, a, h, t)
    BY <1>3, <2>3 DEF GoesOn, EndOf
  <2>5. ~Through(FALSE, a)
    BY <2>1, <2>3 DEF Through
  <2>6. Aligned(l, E, a, h)
    BY <1>3, <2>1, <2>3, <2>4, <2>5 DEF Aligned
  <2> QED
    BY <2>1, <2>2, <2>3, <2>6 DEF a
<1> SUFFICES Facts(WithTarget(c, com)) /\ ~WithTarget(c, NoOffset).recFloor
  OBVIOUS
<1>4. CASE c.gate.kind = "seek"
  BY <1>0, <1>2, <1>4 DEF WithTarget
<1>5. CASE c.gate.kind = "restore"
  <2>1. c.next # NoOffset /\ c.gate.at = EndOf(c, h)
    BY <1>5 DEF Aligned
  <2>2. com \in Int /\ com <= c.gate.at
    BY <1>5, Constants
  <2>3. restore_target(Untrusted(c), com, c.gate.at) = c.gate.at
    BY <1>1, <1>2, <2>2, MaxOfTwo DEF restore_target
  <2>4. WithTarget(c, com)
          = [c EXCEPT !.gate = NeedsSeek(c.gate.at), !.recFloor = FALSE, !.resetFloor = FALSE]
    <3>1. WithTarget(c, com) = [c EXCEPT !.gate = NeedsSeek(c.gate.at)]
      BY <1>5, <2>3 DEF WithTarget
    <3>2. c.recFloor = FALSE /\ c.resetFloor = FALSE
      BY <1>0, <1>2 DEF Consumer
    <3> QED
      BY <3>1, <3>2, <1>0 DEF Consumer
  <2>5. ~WithTarget(c, NoOffset).recFloor
    BY <1>0, <1>2, <1>5 DEF WithTarget, Consumer
  <2>6. GoesOn(E, c, h, c.gate.at) /\ c.gate.at <= Len(l.recs)
    BY <2>1 DEF GoesOn, EndOf, Fits
  <2> HIDE DEF Facts
  <2> QED
    BY <1>1, <1>3, <2>4, <2>5, <2>6
<1>6. CASE c.gate.kind = "target"
  <2> DEFINE t == resume_offset(com, c.fr)
  <2>1. c.next = NoOffset /\ c.fr # NoEntry /\ FrontierIs(c.fr, E)
    BY <1>6 DEF Aligned
  <2>2. E # {}
    BY <2>1 DEF FrontierIs
  <2>3. TopIs(E, t)
    BY <1>0, <2>1, <2>2, ResumeIsTop
  <2> HIDE DEF t
  <2>4. t \in Int
    BY <1>0, <2>3, OneTop
  <2>5. t <= Len(l.recs)
    BY <2>3 DEF TopIs, Fits
  <2>6. GoesOn(E, c, h, t)
    BY <2>1, <2>3 DEF GoesOn
  <2>7. WithTarget(c, com)
          = [c EXCEPT !.gate = NeedsSeek(t), !.recFloor = FALSE, !.resetFloor = FALSE]
    BY <1>2, <1>6 DEF WithTarget, t
  <2>8. ~WithTarget(c, NoOffset).recFloor
    BY <1>0, <1>2, <1>6 DEF WithTarget, Consumer
  <2> HIDE DEF Facts
  <2> QED
    BY <1>3, <2>4, <2>5, <2>6, <2>7, <2>8
<1> QED
  BY <1>1, <1>4, <1>5, <1>6

\* note_offset_space_reset would have something to note.
Shrinks(p, a) ==
    offset_space_shrank(a.recFloor, Floored(a), a.gate.at, High(p)) /\ ~a.reset

\* The seek goes where the gate asks for, or starts a partition without evidence.
LEMMA SeekAligned ==
    ASSUME NEW p, NEW l, l = log[p], NEW E, NEW a, NEW h, Fits(l, E, a, h), Aligned(l, E, a, h),
           a.gate.kind = "seek", Within(l, E)
    PROVE  /\ SeekTo(p, a) \in l.low .. Len(l.recs)
           /\ SeekTo(p, a) \in Offset \ {NoOffset} /\ SeekTo(p, a) \in Nat
           /\ ~Floored(a)
           /\ SeekTo(p, a) = a.gate.at \/ (a.next = NoOffset /\ E = {} /\ h = NoSpan)
           /\ ~Shrinks(p, a)
<1> DEFINE at == a.gate.at
           t == SeekTo(p, a)
<1>0. a \in Consumer /\ LogOK(l) /\ E \subseteq Span /\ h \in Span
  BY DEF Fits
<1>1. ~a.recFloor /\ ~Floored(a) /\ at \in Int /\ at <= Len(l.recs)
  BY <1>0 DEF Aligned, Floored, Consumer, Gate
<1>2. /\ l.low \in Nat /\ Len(l.recs) \in Nat /\ l.low <= Len(l.recs)
      /\ Len(l.recs) <= MaxRecords
  BY <1>0, LogBounds, Constants
<1>3. t = clamp_resume_target(at, l.low, Len(l.recs))
  BY <1>1 DEF SeekTo, High, resolve_seek_target
<1>4. t \in l.low .. Len(l.recs)
  <2> DEFINE low == l.low
             high == Len(l.recs)
  <2>1. low \in Int /\ high \in Int /\ low <= high /\ at \in Int
    BY <1>1, <1>2
  <2> HIDE DEF low, high, at
  <2>2. clamp_resume_target(at, low, high) \in low .. high
    BY <2>1, Clamp
  <2> QED
    BY <1>3, <2>2 DEF low, high
<1>5. GoesOn(E, a, h, at)
  BY DEF Aligned
<1>6. ASSUME a.next # NoOffset PROVE l.low <= at
  <2>1. l.low <= a.next /\ at = EndOf(a, h)
    BY <1>5, <1>6 DEF Aligned, GoesOn
  <2>2. h # NoSpan => h.start = a.next /\ h.start < h.next
    BY DEF Aligned
  <2>3. a.next \in Int /\ h.next \in Int
    BY <1>0, SpanFields, Constants DEF Consumer
  <2> QED
    BY <1>2, <2>1, <2>2, <2>3 DEF EndOf
<1>7. ASSUME a.next = NoOffset, E # {} PROVE l.low <= at
  <2>1. TopIs(E, at)
    BY <1>5, <1>7 DEF GoesOn
  <2>2. PICK s \in E : l.low <= s.next
    BY <1>7 DEF Within
  <2>3. s.next <= at /\ s.next \in Int
    BY <1>0, <2>1, SpanFields DEF TopIs
  <2> QED
    BY <1>1, <1>2, <2>2, <2>3
<1>8. a.next = NoOffset => h = NoSpan
  BY DEF Aligned
<1>9. l.low <= at => t = at
  BY <1>1, <1>2, <1>3 DEF clamp_resume_target
<1>10. ~Shrinks(p, a)
  BY <1>1, <1>2 DEF Shrinks, offset_space_shrank, High
<1> HIDE DEF t, at
<1>11. t \in Nat /\ t \in Offset \ {NoOffset}
  BY <1>2, <1>4, Constants
<1> QED
  BY <1>1, <1>4, <1>6, <1>7, <1>8, <1>9, <1>10, <1>11 DEF t, at

\* e is aligned and has buffered what c has.
Follows(l, E, e, h, c) == Aligned(l, E, e, h) /\ e.span = c.span

\* An attempt keeps a partition aligned, if it neither takes a failed seek for a
\* no-op in the wrong place nor restores above the session's own floor.
LEMMA AttemptAligned ==
    ASSUME NEW p, NEW l, l = log[p], NEW E, NEW c, NEW h, Fits(l, E, c, h), Aligned(l, E, c, h),
           c.span = NoSpan \/ c.span = h, Pending(c), c.gate.kind = "active" => c.gate = Active,
           committed[p] \in Offset, NEW snt, Sound(l, E, committed[p], snt),
           NEW out \in Outcome, NEW pauseOk \in BOOLEAN,
           ~Misplaced(p, c, out), ~Overtaken(p, c)
    PROVE  Follows(l, E, After(p, c, out, pauseOk), h, c)
<1> DEFINE com == committed[p]
           a == WithTarget(c, com)
           w == WithWatermarks(p, a)
           t == SeekTo(p, a)
           rebase == Floored(a) \/ a.gate.at # t
           s == Sought(p, w, t, rebase)
<1>0. c \in Consumer /\ LogOK(l) /\ E \subseteq Span /\ h \in Span
  BY DEF Fits
<1>1. c.gate.kind = "restore" => com <= c.gate.at
  <2>1. ~Untrusted(c)
    BY DEF Aligned, Untrusted
  <2>2. com \in Int /\ c.gate.at \in Int
    BY <1>0, Constants DEF Consumer, Gate
  <2> QED
    BY <2>1, <2>2 DEF Overtaken
<1>2. /\ Aligned(l, E, a, h) /\ a \in Consumer /\ a.gate.kind = "seek"
      /\ a.next = c.next /\ a.span = c.span /\ a.fr = c.fr /\ a.pos = c.pos
      /\ a.assigned = c.assigned /\ a.notice = c.notice /\ a.tainted = c.tainted
  BY <1>1, TargetAligned
<1>3. Fits(l, E, a, h)
  BY <1>2 DEF Fits
<1>4. /\ t \in l.low .. Len(l.recs) /\ t \in Offset \ {NoOffset} /\ t \in Nat /\ ~Floored(a)
      /\ t = a.gate.at \/ (a.next = NoOffset /\ E = {} /\ h = NoSpan)
      /\ ~Shrinks(p, a)
  <2>1. Within(l, E)
    BY DEF Sound
  <2> HIDE DEF a, com
  <2>2. /\ SeekTo(p, a) \in l.low .. Len(l.recs)
        /\ SeekTo(p, a) \in Offset \ {NoOffset} /\ SeekTo(p, a) \in Nat
        /\ ~Floored(a)
        /\ SeekTo(p, a) = a.gate.at \/ (a.next = NoOffset /\ E = {} /\ h = NoSpan)
        /\ ~Shrinks(p, a)
    BY <1>2, <1>3, <2>1, SeekAligned
  <2> QED
    BY <2>2
<1>5. w = a
  <2> DEFINE sh == Shrinks(p, a)
  <2>1. w = [a EXCEPT !.reset = @ \/ sh, !.resetFloor = @ \/ sh]
    BY DEF WithWatermarks, Shrinks
  <2>2. ~sh
    BY <1>4
  <2>3. a.reset \in BOOLEAN /\ a.resetFloor \in BOOLEAN
    BY <1>2 DEF Consumer
  <2> HIDE DEF sh, w, a
  <2> QED
    BY <1>2, <2>1, <2>2, <2>3 DEF Consumer
<1>6. /\ s \in Consumer /\ s.pos = t /\ s.gate = NeedsSeek(t) /\ s.recFloor = FALSE
      /\ s.next = (IF a.gate.at # t THEN t ELSE a.next) /\ s.span = c.span
      /\ s.fr = a.fr /\ s.reset = a.reset /\ s.resetFloor = a.resetFloor
  <2>1. NeedsSeek(t) \in Gate /\ NoSpan \in Span
    BY <1>4, Constants DEF NeedsSeek, Gate, NoSpan, Span
  <2>2. s = [a EXCEPT !.pos = t, !.gate = NeedsSeek(t), !.recFloor = FALSE,
                      !.next = IF rebase THEN t ELSE @, !.span = IF rebase THEN NoSpan ELSE @,
                      !.epoch = IF Floored(a) THEN log[p].epoch ELSE @]
    BY <1>5 DEF Sought
  <2>7. ~Floored(a)
    BY <1>4
  <2>3. rebase <=> a.gate.at # t
    BY <1>4
  <2>4. rebase => c.span = NoSpan
    BY <1>4, <2>3
  <2> HIDE DEF s, a, t, rebase
  <2>5. s \in Consumer
    BY <1>2, <1>4, <2>1, <2>2, <2>7 DEF Consumer
  <2>6. /\ s.pos = t /\ s.gate = NeedsSeek(t) /\ s.recFloor = FALSE
        /\ s.fr = a.fr /\ s.reset = a.reset /\ s.resetFloor = a.resetFloor
        /\ s.next = (IF rebase THEN t ELSE a.next)
        /\ s.span = (IF rebase THEN NoSpan ELSE a.span)
    BY <1>2, <2>2 DEF Consumer
  <2> QED
    BY <1>2, <2>3, <2>4, <2>5, <2>6
<1> DEFINE Ends(e) == e \in Consumer /\ Aligned(l, E, e, h) /\ e.span = c.span
<1>7. Ends(c) /\ Ends(a)
  BY <1>0, <1>2
<1>8. GoesOn(E, s, h, t) /\ t <= Len(l.recs) /\ l.low <= t
  <2>1. l.low \in Nat /\ Len(l.recs) \in Nat
    BY <1>0, LogBounds
  <2>2. t <= Len(l.recs) /\ l.low <= t
    BY <1>4, <2>1
  <2>3. CASE t = a.gate.at
    <3>1. GoesOn(E, a, h, t)
      BY <1>2, <2>3 DEF Aligned
    <3> QED
      BY <1>6, <2>2, <2>3, <3>1 DEF GoesOn, EndOf
  <2>4. CASE t # a.gate.at
    BY <1>4, <1>6, <2>2, <2>4 DEF GoesOn, EndOf
  <2> QED
    BY <1>4, <2>3, <2>4
<1>9. Ends(s)
  <2>1. s.gate.kind = "seek" /\ s.gate.at = t /\ s.gate # Active
    BY <1>6 DEF NeedsSeek, Active
  <2>2. ~Through(FALSE, s)
    BY <2>1 DEF Through
  <2> HIDE DEF s, a, t
  <2>3. CASE t = a.gate.at
    <3>1. s.next = a.next
      BY <1>6, <2>3
    <3> QED
      BY <1>2, <1>6, <1>8, <2>1, <2>2, <3>1 DEF Aligned
  <2>4. CASE t # a.gate.at
    <3>1. s.next = t /\ t # NoOffset /\ E = {} /\ h = NoSpan
      BY <1>4, <1>6, <2>4
    <3> QED
      BY <1>2, <1>6, <1>8, <2>1, <2>2, <3>1 DEF Aligned
  <2> QED
    BY <2>3, <2>4
<1>10. ASSUME NEW f, Ends(f), GoesOn(E, f, h, f.pos)
       PROVE  Ends(Activated(f))
  <2> DEFINE e == Activated(f)
  <2>1. Active \in Gate /\ Active.kind = "active"
    BY Constants DEF Active, Gate
  <2>2. e = [f EXCEPT !.muted = @ /\ ~f.paused, !.paused = FALSE, !.gate = Active,
                      !.tainted = FALSE, !.recFloor = FALSE, !.resetFloor = FALSE]
    BY DEF Activated
  <2>3. f \in Consumer /\ Aligned(l, E, f, h) /\ f.span = c.span
    BY <1>10
  <2> HIDE DEF e
  <2>4. e \in Consumer
    BY <2>1, <2>2, <2>3 DEF Consumer
  <2>5. /\ e.gate = Active /\ e.next = f.next /\ e.span = f.span /\ e.fr = f.fr /\ e.pos = f.pos
        /\ e.reset = f.reset /\ e.recFloor = FALSE /\ e.resetFloor = FALSE
    BY <2>2, <2>3 DEF Consumer
  <2>6. GoesOn(E, e, h, e.pos)
    BY <1>10, <2>5 DEF GoesOn, EndOf
  <2>7. Aligned(l, E, e, h)
    BY <2>1, <2>3, <2>5, <2>6 DEF Aligned
  <2> QED
    BY <2>3, <2>4, <2>5, <2>7 DEF e
<1>11. ASSUME NEW f, Ends(f)
       PROVE  Ends(Paused(f, pauseOk))
  <2> DEFINE e == Paused(f, pauseOk)
  <2>1. e = [f EXCEPT !.paused = @ \/ pauseOk, !.muted = @ \/ pauseOk]
    BY DEF Paused
  <2>2. f \in Consumer /\ Aligned(l, E, f, h) /\ f.span = c.span
    BY <1>11
  <2> HIDE DEF e
  <2>3. e \in Consumer
    BY <2>1, <2>2 DEF Consumer
  <2>4. Twin(e, f)
    BY <2>1, <2>2 DEF Consumer, Twin
  <2>5. Aligned(l, E, e, h)
    BY <2>2, <2>4, AlignedTwin
  <2> QED
    BY <2>2, <2>3, <2>4, <2>5 DEF e, Twin
<1>12. out = "noseek" /\ may_noop_failed_seek(a, com, t) => GoesOn(E, a, h, a.pos)
  <2> SUFFICES ASSUME out = "noseek", may_noop_failed_seek(a, com, t)
               PROVE  GoesOn(E, a, h, a.pos)
    OBVIOUS
  <2>1. may_noop_failed_seek(c, com, t)
    BY <1>2 DEF may_noop_failed_seek
  <2>2. a.pos = t
    BY <1>2, <2>1 DEF Misplaced
  <2>3. CASE t = a.gate.at
    BY <1>2, <2>2, <2>3 DEF Aligned
  <2>4. CASE t # a.gate.at
    BY <1>4, <2>4 DEF GoesOn
  <2> QED
    BY <2>3, <2>4
<1>13. Ends(Attempt(p, c, out, pauseOk))
  <2> DEFINE q == Attempt(p, c, out, pauseOk)
  <2>1. q = CASE out = "nocommit" -> Paused(c, pauseOk)
              [] out = "nowatermark" -> Paused(a, pauseOk)
              [] out = "noseek" -> IF may_noop_failed_seek(w, com, t) THEN Activated(w)
                                   ELSE Paused(w, pauseOk)
              [] out = "noseekfetch" -> Paused(w, pauseOk)
              [] out = "noresume" -> s
              [] out = "ok" -> Activated(s)
    BY DEF Attempt, rebase
  <2>2. GoesOn(E, s, h, s.pos)
    BY <1>6, <1>8
  <2>3. Ends(w)
    BY <1>5, <1>7
  <2>4. out = "noseek" /\ may_noop_failed_seek(w, com, t) => GoesOn(E, w, h, w.pos)
    BY <1>5, <1>12
  <2> HIDE DEF a, w, t, s, com, q, Ends
  <2>5. CASE out = "nocommit"
    BY <2>1, <2>5, <1>7, <1>11 DEF q
  <2>6. CASE out = "nowatermark"
    BY <2>1, <2>6, <1>7, <1>11 DEF q
  <2>7. CASE out = "noseek"
    BY <2>1, <2>7, <2>3, <2>4, <1>10, <1>11 DEF q
  <2>8. CASE out = "noseekfetch"
    BY <2>1, <2>8, <2>3, <1>11 DEF q
  <2>9. CASE out = "noresume"
    BY <2>1, <2>9, <1>9 DEF q
  <2>10. CASE out = "ok"
    BY <2>1, <2>10, <2>2, <1>9, <1>10 DEF q
  <2> QED
    BY <2>5, <2>6, <2>7, <2>8, <2>9, <2>10 DEF Outcome
<1> DEFINE q == Attempt(p, c, out, pauseOk)
           b == Overtaken(p, c)
           m == Misplaced(p, c, out)
           e == [q EXCEPT !.astray = @ \/ b, !.epoch = IF m THEN 0 ELSE @]
<1>14. q \in Consumer /\ Aligned(l, E, q, h) /\ q.span = c.span
  BY <1>13
<1> HIDE DEF q, b, m
<1>15. Twin(e, q)
  BY <1>14 DEF Consumer, Twin
<1> HIDE DEF e
<1>16. Aligned(l, E, e, h) /\ e.span = c.span
  BY <1>14, <1>15, AlignedTwin DEF Twin
<1> QED
  BY <1>16 DEF e, q, b, m, After, Follows

\* The partitions cs before a pass, H what the loop has of each in its hands.
PassSet(cs, H) ==
    \A p \in Partition :
        /\ Fits(log[p], Evidence(p), cs[p], H[p]) /\ Aligned(log[p], Evidence(p), cs[p], H[p])
        /\ cs[p].span = NoSpan \/ cs[p].span = H[p]
        /\ cs[p].gate.kind = "active" => cs[p].gate = Active

\* try_activate_pending keeps every partition aligned and commits nothing.
LEMMA PassAligned ==
    ASSUME BrokerTyped, BrokerInv, NEW cs, NEW H, PassSet(cs, H), NEW cost, NEW lost,
           TryActivatePendingAfter(cost, lost, cs), ConsTyped', ~degraded'
    PROVE  /\ sent' = sent /\ Stranded = {} /\ lost = {} /\ ~degraded
           /\ \A p \in Partition :
                 Aligned(log[p], Evidence(p), cons'[p], H[p]) /\ cons'[p].span = cs[p].span
<1> DEFINE pending == {p \in Partition : Pending(cs[p])}
<1>1. PICK out \in [pending -> Outcome], pauseOk \in BOOLEAN :
         LET misplaced == {p \in pending : Misplaced(p, cs[p], out[p])}
         IN  /\ cons' = [p \in Partition |->
                           IF p \in pending
                           THEN [Attempt(p, cs[p], out[p], pauseOk) EXCEPT
                                   !.astray = @ \/ Overtaken(p, cs[p]),
                                   !.epoch = IF Misplaced(p, cs[p], out[p]) THEN 0 ELSE @]
                           ELSE cs[p]]
             /\ sent' = [p \in Partition |->
                           IF p \in pending /\ out[p] \in {"ok", "noresume"}
                              /\ WithTarget(cs[p], NoOffset).recFloor
                           THEN SeekTo(p, WithTarget(cs[p], committed[p]))
                           ELSE sent[p]]
             /\ degraded' = (degraded \/ lost # {} \/ misplaced # {} \/ Stranded # {}
                               \/ \E p \in Partition : cons'[p].astray)
  BY DEF TryActivatePendingAfter
<1>2. /\ ~degraded /\ lost = {} /\ Stranded = {} /\ \A p \in Partition : ~cons'[p].astray
      /\ \A p \in pending : ~Misplaced(p, cs[p], out[p])
  BY <1>1
<1>3. ASSUME NEW p \in pending
      PROVE  /\ Aligned(log[p], Evidence(p), cons'[p], H[p]) /\ cons'[p].span = cs[p].span
             /\ ~WithTarget(cs[p], NoOffset).recFloor
  <2> DEFINE c == cs[p]
             l == log[p]
             E == Evidence(p)
             h == H[p]
             u == out[p]
             com == committed[p]
             snt == sent[p]
  <2>1. /\ p \in Partition /\ Pending(c) /\ u \in Outcome /\ l = log[p]
        /\ Fits(l, E, c, h) /\ Aligned(l, E, c, h) /\ (c.span = NoSpan \/ c.span = h)
        /\ (c.gate.kind = "active" => c.gate = Active)
    BY DEF PassSet
  <2>2. com = committed[p] /\ com \in Offset /\ Sound(l, E, com, snt)
    BY <2>1 DEF BrokerTyped, BrokerInv
  <2>3. ~Misplaced(p, c, u)
    BY <1>2
  <2>4. cons'[p] = After(p, c, u, pauseOk)
    BY <1>1, <2>1 DEF After
  <2>5. ~Overtaken(p, c)
    <3> DEFINE q == Attempt(p, c, u, pauseOk)
               b == Overtaken(p, c)
               m == Misplaced(p, c, u)
    <3>1. cons'[p] = [q EXCEPT !.astray = @ \/ b, !.epoch = IF m THEN 0 ELSE @]
          /\ ~cons'[p].astray
      BY <1>2, <2>1, <2>4 DEF After
    <3>2. cons'[p] \in Consumer /\ b \in BOOLEAN
      BY <2>1 DEF Overtaken, ConsTyped
    <3>3. DOMAIN q = DOMAIN cons'[p]
      BY <3>1
    <3>4. "astray" \in DOMAIN q
      BY <3>2, <3>3 DEF Consumer
    <3> HIDE DEF q, b, m
    <3> QED
      BY <3>1, <3>2, <3>4 DEF b
  <2>6. c.gate.kind = "restore" => com <= c.gate.at
    <3>1. ~Untrusted(c)
      BY <2>1 DEF Aligned, Untrusted
    <3>2. com \in Int /\ c.gate.at \in Int
      BY <2>1, <2>2, Constants DEF Consumer, Gate, Fits
    <3> QED
      BY <2>5, <3>1, <3>2 DEF Overtaken
  <2>9. committed[p] \in Offset /\ Sound(l, E, committed[p], snt)
    BY <2>2
  <2> HIDE DEF c, l, E, h, u, com, snt
  <2>7. Follows(l, E, After(p, c, u, pauseOk), h, c)
    BY <2>1, <2>9, <2>3, <2>5, AttemptAligned
  <2>8. ~WithTarget(c, NoOffset).recFloor
    BY <2>1, <2>2, <2>6, TargetAligned
  <2> QED
    BY <2>4, <2>7, <2>8 DEF c, l, E, h, u, Follows
<1>4. ASSUME NEW p \in Partition
      PROVE  Aligned(log[p], Evidence(p), cons'[p], H[p]) /\ cons'[p].span = cs[p].span
  <2>1. CASE p \in pending
    BY <2>1, <1>3
  <2>2. CASE p \notin pending
    BY <1>1, <2>2 DEF PassSet
  <2> QED
    BY <2>1, <2>2
<1>5. sent' = sent
  <2>1. sent' = [p \in Partition |-> sent[p]]
    BY <1>1, <1>3
  <2> QED
    BY <2>1 DEF BrokerTyped
<1> QED
  BY <1>2, <1>4, <1>5

------------------------------------------------------------------------------
(* Steps.                                                                  *)

LEMMA NoSpanFields ==
    /\ NoSpan \in Span /\ NoSpan.start = -1 /\ NoSpan.next = -1 /\ Covered(NoSpan) = {}
<1>1. NoSpan.start = -1 /\ NoSpan.next = -1
  BY Constants DEF NoSpan
<1>2. Covered(NoSpan) = {}
  BY <1>1 DEF Covered
<1>3. NoSpan \in Span
  BY Constants DEF NoSpan, Span
<1> QED
  BY <1>1, <1>2, <1>3

\* Everything a partition remembers lies within its log.
LEMMA AllFit ==
    ASSUME KafkaInv, BrokerInv, NEW p \in Partition
    PROVE  /\ Fits(log[p], Evidence(p), cons[p], HandSpan[p])
           /\ cons[p] \in Consumer /\ LogOK(log[p])
           /\ cons[p].gate.kind = "active" => cons[p].gate = Active
           /\ Evidence(p) \subseteq Span /\ HandSpan[p] \in Span
<1>1. LogOK(log[p]) /\ log[p].cut = 0 /\ Len(log[p].recs) \in Nat
  BY LogBounds DEF KafkaInv, Typed, BrokerTyped, BrokerInv, Plain
<1>2. TopOf(log[p]) = Len(log[p].recs)
  BY <1>1 DEF TopOf
<1>3. Good(p, log[p], sess.recreated, cons[p], Safe, Kept) /\ SpanOK(p, log[p], pub.spans[p], Kept)
  BY DEF KafkaInv, SafeInv
<1>4. /\ cons[p] \in Consumer /\ cons[p].next <= Len(log[p].recs)
      /\ cons[p].span.next <= Len(log[p].recs) /\ pub.spans[p].next <= Len(log[p].recs)
      /\ cons[p].gate.kind = "active" => cons[p].gate = Active
  BY <1>2, <1>3 DEF Good, ConsOK, UpTo, SpanOK, GateOK
<1>5. cons[p].span \in Span /\ pub.spans[p] \in Span
  BY <1>4 DEF Consumer, KafkaInv, Typed, SessionTyped
<1>6. HandSpan[p] \in {cons[p].span, pub.spans[p]}
  BY DEF HandSpan
<1>7. ASSUME NEW s \in Evidence(p)
      PROVE  s \in Span /\ s.next <= Len(log[p].recs)
  <2>1. PICK i \in SettledRows : s = rows[i].span[p]
    BY DEF Evidence
  <2>2. SpanOK(p, log[p], s, Safe)
    BY <2>1 DEF KafkaInv, SafeInv
  <2>3. rows[i] \in Row
    BY RowsDomain DEF SettledRows
  <2> QED
    BY <1>2, <2>1, <2>2, <2>3 DEF SpanOK, UpTo, Row
<1>8. /\ HandSpan[p] \in Span /\ HandSpan[p].next <= Len(log[p].recs)
  BY <1>4, <1>5, <1>6
<1> QED
  BY <1>1, <1>4, <1>7, <1>8 DEF Fits

\* The log has grown, or is the same.
LEMMA AlignedGrows ==
    ASSUME NEW l, NEW m, LogOK(l), LogOK(m), m.low = l.low, Len(l.recs) <= Len(m.recs),
           NEW E, NEW c \in Consumer, NEW h, Aligned(l, E, c, h)
    PROVE  Aligned(m, E, c, h)
<1>1. Len(l.recs) \in Nat /\ Len(m.recs) \in Nat /\ c.gate.at \in Int
  BY LogBounds DEF Consumer, Gate
<1>2. c.gate.at <= Len(l.recs) => c.gate.at <= Len(m.recs)
  BY <1>1
<1> QED
  BY <1>2 DEF Aligned

\* The rows, the publication and the buffer are left alone.
LEMMA HandsStill ==
    ASSUME RowsInv, NewRowInv, HandsInv, UNCHANGED <<rows, topic, buf, pub>>,
           \A p \in Partition : cons'[p].span = cons[p].span
    PROVE  /\ RowsInv' /\ NewRowInv' /\ HandsInv'
           /\ \A p \in Partition : HandSpan'[p] = HandSpan[p] /\ Evidence(p)' = Evidence(p)
<1>1. SettledRows' = SettledRows
  BY SameStock
<1>2. HandSpan' = HandSpan /\ Hands' = Hands
  BY DEF HandSpan, Hands
<1>3. RowsInv'
  BY <1>1 DEF RowsInv, Row1
<1>4. NewRowInv'
  BY DEF NewRowInv
<1>5. HandsInv'
  BY <1>2 DEF HandsInv
<1>6. \A p \in Partition : Evidence(p)' = Evidence(p)
  BY <1>1 DEF Evidence
<1> QED
  BY <1>2, <1>3, <1>4, <1>5, <1>6

\* A step of the session that commits nothing and keeps what it has in hand.
LEMMA SessionMoves ==
    ASSUME Orderly, UNCHANGED <<log, topic, committed, sent, rows, buf, pub>>,
           sess'.phase \in {"join", "up"} =>
               /\ sess'.cid /\ sess'.tid = topic /\ ~sess'.recreated
               /\ \A p \in Partition : Aligned(log[p], Evidence(p), cons'[p], HandSpan[p]),
           \A p \in Partition : cons'[p].span = cons[p].span
    PROVE  Orderly'
<1>1. /\ RowsInv' /\ NewRowInv' /\ HandsInv'
      /\ \A p \in Partition : HandSpan'[p] = HandSpan[p] /\ Evidence(p)' = Evidence(p)
  BY HandsStill DEF Orderly
<1>2. BrokerInv'
  BY <1>1 DEF BrokerInv, Orderly
<1>3. SessionInv'
  BY <1>1 DEF SessionInv
<1> QED
  BY <1>1, <1>2, <1>3 DEF Orderly

LEMMA RevokeOrder ==
    ASSUME KafkaInv, KafkaInv', Orderly, Revoke PROVE Orderly'
<1>0. /\ UNCHANGED <<log, topic, committed, sent, rows, buf, pub, sess>> /\ sess.phase = "up"
      /\ BrokerInv /\ SessionInv
  BY DEF Revoke, brokerVars, Orderly, Looping, Running
<1>1. ASSUME NEW p \in Partition
      PROVE  /\ cons'[p].span = cons[p].span
             /\ Aligned(log[p], Evidence(p), cons'[p], HandSpan[p])
  <2> DEFINE c == cons[p]
             e == cons'[p]
             l == log[p]
             E == Evidence(p)
             h == HandSpan[p]
  <2>1. e = [c EXCEPT !.assigned = FALSE, !.muted = FALSE, !.notice = @ \cup {"revoked"}]
    BY DEF Revoke
  <2>2. c \in Consumer
    BY <1>0, AllFit
  <2>3. Aligned(l, E, c, h)
    BY <1>0 DEF SessionInv
  <2> HIDE DEF c, e, l, E, h
  <2>4. /\ ~e.assigned /\ e.gate = c.gate /\ e.recFloor = c.recFloor /\ e.reset = c.reset
        /\ e.resetFloor = c.resetFloor /\ e.fr = c.fr /\ e.next = c.next /\ e.span = c.span
    BY <2>1, <2>2 DEF Consumer
  <2>5. ~Through(FALSE, e)
    BY <2>4 DEF Through
  <2>6. EndOf(e, h) = EndOf(c, h) /\ \A x : GoesOn(E, e, h, x) <=> GoesOn(E, c, h, x)
    BY <2>4 DEF EndOf, GoesOn
  <2>7. Aligned(l, E, e, h)
    BY <2>3, <2>4, <2>5, <2>6 DEF Aligned
  <2> QED
    BY <2>4, <2>7 DEF c, e, l, E, h
<1>2. sess'.cid /\ sess'.tid = topic /\ ~sess'.recreated
  BY <1>0 DEF SessionInv
<1> QED
  BY <1>0, <1>1, <1>2, SessionMoves

LEMMA AssignOrder ==
    ASSUME KafkaInv, KafkaInv', Orderly, Assign PROVE Orderly'
<1>0. /\ UNCHANGED <<log, topic, committed, sent, rows, buf, pub, sess>> /\ sess.phase = "up"
      /\ BrokerInv /\ SessionInv
  BY DEF Assign, brokerVars, Orderly, Looping, Running
<1>1. ASSUME NEW p \in Partition
      PROVE  /\ cons'[p].span = cons[p].span
             /\ Aligned(log[p], Evidence(p), cons'[p], HandSpan[p])
  <2> DEFINE c == cons[p]
             e == cons'[p]
             l == log[p]
             E == Evidence(p)
             h == HandSpan[p]
  <2>1. e = [c EXCEPT !.assigned = TRUE, !.pos = JoinPosition(p), !.notice = @ \cup {"assigned"}]
    BY DEF Assign
  <2>2. c \in Consumer /\ e \in Consumer
    BY <1>0, AllFit DEF KafkaInv, Typed, ConsTyped
  <2>3. Aligned(l, E, c, h) /\ Sound(l, E, committed[p], sent[p]) /\ E \subseteq Span
    BY <1>0, AllFit DEF SessionInv, BrokerInv
  <2> HIDE DEF c, e, l, E, h
  <2>4. /\ e.notice # {} /\ e.gate = c.gate /\ e.recFloor = c.recFloor /\ e.reset = c.reset
        /\ e.resetFloor = c.resetFloor /\ e.fr = c.fr /\ e.next = c.next /\ e.span = c.span
    BY <2>1, <2>2 DEF Consumer
  <2>5. ASSUME Through(FALSE, e) PROVE e.next = NoOffset /\ E = {}
    <3>1. SafeFloor(e) = NoOffset /\ e.fr = NoEntry
      BY <2>4, <2>5 DEF Through
    <3>2. e.next = NoOffset
      BY <3>1, <2>2, FloorOf
    <3>3. FrontierIs(NoEntry, E)
      BY <3>1, <3>2, <2>3, <2>4 DEF Aligned
    <3>4. ASSUME NEW s \in E PROVE s.start # NoOffset
      BY <2>3, Constants DEF Sound
    <3> QED
      BY <3>2, <3>3, <3>4 DEF FrontierIs, NoEntry
  <2>6. EndOf(e, h) = EndOf(c, h) /\ \A x : GoesOn(E, e, h, x) <=> GoesOn(E, c, h, x)
    BY <2>4 DEF EndOf, GoesOn
  <2>7. Through(FALSE, e) => GoesOn(E, e, h, e.pos)
    BY <2>5 DEF GoesOn
  <2>8. Aligned(l, E, e, h)
    BY <2>3, <2>4, <2>6, <2>7 DEF Aligned
  <2> QED
    BY <2>4, <2>8 DEF c, e, l, E, h
<1>2. sess'.cid /\ sess'.tid = topic /\ ~sess'.recreated
  BY <1>0 DEF SessionInv
<1> QED
  BY <1>0, <1>1, <1>2, SessionMoves

\* A step of the broker.
LEMMA BrokerMoves ==
    ASSUME Orderly, UNCHANGED <<topic, rows, buf, pub, cons, sess>>,
           \A p \in Partition :
               /\ Plain(log'[p]) /\ Sound(log'[p], Evidence(p), committed'[p], sent'[p])
               /\ sess.phase \in {"join", "up"} =>
                      Aligned(log'[p], Evidence(p), cons[p], HandSpan[p])
    PROVE  Orderly'
<1>1. /\ RowsInv' /\ NewRowInv' /\ HandsInv'
      /\ \A p \in Partition : HandSpan'[p] = HandSpan[p] /\ Evidence(p)' = Evidence(p)
  BY HandsStill DEF Orderly
<1>2. BrokerInv'
  BY <1>1 DEF BrokerInv
<1>3. SessionInv'
  BY <1>1 DEF SessionInv, Orderly
<1> QED
  BY <1>1, <1>2, <1>3 DEF Orderly

\* Evidence stays sound under a log that lies above the old one.
LEMMA SoundGrows ==
    ASSUME NEW l, NEW m, m.low = l.low, NEW E, NEW com, NEW snt, Sound(l, E, com, snt)
    PROVE  Sound(m, E, com, snt)
BY DEF Sound, Within

LEMMA ProduceOrder ==
    ASSUME KafkaInv, KafkaInv', Orderly, NEW q \in Partition, Produce(q) PROVE Orderly'
<1>0. /\ UNCHANGED <<topic, rows, buf, pub, cons, sess, committed, sent>>
      /\ log' = [log EXCEPT ![q].born = @ + 1, ![q].recs = Append(@, log[q].born + 1)]
      /\ BrokerInv /\ SessionInv
  BY DEF Produce, Orderly
<1>1. log \in [Partition -> Log]
  BY DEF KafkaInv, Typed, BrokerTyped
<1>2. ASSUME NEW p \in Partition
      PROVE  /\ Plain(log'[p]) /\ Sound(log'[p], Evidence(p), committed'[p], sent'[p])
             /\ sess.phase \in {"join", "up"} =>
                    Aligned(log'[p], Evidence(p), cons[p], HandSpan[p])
  <2> DEFINE c == cons[p]
             l == log[p]
             m == log'[p]
             E == Evidence(p)
             h == HandSpan[p]
             com == committed[p]
             snt == sent[p]
  <2>1. /\ Plain(l) /\ Sound(l, E, com, snt) /\ LogOK(l) /\ c \in Consumer
        /\ sess.phase \in {"join", "up"} => Aligned(l, E, c, h)
    BY <1>0, AllFit DEF BrokerInv, SessionInv
  <2>2. LogOK(m)
    BY DEF KafkaInv, Typed, BrokerTyped
  <2>3. m = l \/ m = [l EXCEPT !.born = @ + 1, !.recs = Append(@, l.born + 1)]
    BY <1>0, <1>1
  <2> HIDE DEF c, l, m, E, h, com, snt
  <2>4. m.low = l.low /\ Len(l.recs) <= Len(m.recs) /\ Plain(m)
    <3>1. CASE m = l
      BY <2>1, <3>1, LogBounds
    <3>2. CASE m = [l EXCEPT !.born = @ + 1, !.recs = Append(@, l.born + 1)]
      <4>1. /\ m.low = l.low /\ m.recs = Append(l.recs, l.born + 1) /\ m.born = l.born + 1
            /\ m.cut = l.cut /\ l.recs \in Seq(1 .. MaxRecords) /\ l.born \in Nat
            /\ Len(l.recs) \in Nat /\ DOMAIN l.recs = 1 .. Len(l.recs)
        BY <2>1, <3>2 DEF LogOK, Log
      <4>2. /\ Len(m.recs) = Len(l.recs) + 1 /\ DOMAIN m.recs = 1 .. Len(l.recs) + 1
            /\ \A k \in 1 .. Len(l.recs) : m.recs[k] = l.recs[k]
            /\ m.recs[Len(l.recs) + 1] = l.born + 1
        BY <4>1
      <4>3. \A k \in 1 .. Len(l.recs) + 1 : k \in 1 .. Len(l.recs) \/ k = Len(l.recs) + 1
        BY <4>1
      <4>4. \A k \in DOMAIN m.recs : m.recs[k] = k
        BY <2>1, <4>1, <4>2, <4>3 DEF Plain
      <4> QED
        BY <2>1, <4>1, <4>2, <4>4 DEF Plain
    <3> QED
      BY <2>3, <3>1, <3>2
  <2>5. Sound(m, E, com, snt)
    BY <2>1, <2>4, SoundGrows
  <2>6. sess.phase \in {"join", "up"} => Aligned(m, E, c, h)
    BY <2>1, <2>2, <2>4, AlignedGrows
  <2>7. com = committed'[p] /\ snt = sent'[p]
    BY <1>0 DEF com, snt
  <2> QED
    BY <2>4, <2>5, <2>6, <2>7 DEF c, l, m, E, h
<1> QED
  BY <1>0, <1>2, BrokerMoves

LEMMA RetainOrder ==
    ASSUME KafkaInv, KafkaInv', Orderly, NEW q \in Partition, Retain(q), ~degraded' PROVE Orderly'
<1>0. /\ UNCHANGED <<topic, rows, buf, pub, cons, sess, committed, sent>>
      /\ log' = [log EXCEPT ![q].low = @ + 1] /\ ~Outruns(q)
      /\ BrokerInv /\ SessionInv
  BY DEF Retain, Orderly
<1>1. log \in [Partition -> Log]
  BY DEF KafkaInv, Typed, BrokerTyped
<1>2. ASSUME NEW p \in Partition
      PROVE  /\ Plain(log'[p]) /\ Sound(log'[p], Evidence(p), committed'[p], sent'[p])
             /\ sess.phase \in {"join", "up"} =>
                    Aligned(log'[p], Evidence(p), cons[p], HandSpan[p])
  <2> DEFINE c == cons[p]
             l == log[p]
             m == log'[p]
             E == Evidence(p)
             h == HandSpan[p]
             com == committed[p]
             snt == sent[p]
  <2>1. /\ Plain(l) /\ Sound(l, E, com, snt) /\ LogOK(l) /\ c \in Consumer /\ E \subseteq Span
        /\ sess.phase \in {"join", "up"} => Aligned(l, E, c, h)
    BY <1>0, AllFit DEF BrokerInv, SessionInv
  <2>2. l.low \in Nat /\ c.next \in Int
    BY <2>1, LogBounds, Constants DEF Consumer
  <2>3. com = committed'[p] /\ snt = sent'[p]
    BY <1>0
  <2>4. CASE p # q
    <3>1. m = l
      BY <1>0, <1>1, <2>4
    <3> QED
      BY <2>1, <2>3, <3>1
  <2>5. CASE p = q
    <3>1. m = [l EXCEPT !.low = @ + 1]
      BY <1>0, <1>1, <2>5
    <3>2. (\A s \in E : l.low \notin Covered(s)) =>
              (\A s \in E : ~(s.start <= l.low)) /\ c.next \notin 0 .. l.low
      BY <1>0, <2>5 DEF Outruns
    <3> HIDE DEF c, l, m, E, h, com, snt
    <3>3. m.low = l.low + 1 /\ m.recs = l.recs /\ m.born = l.born /\ m.cut = l.cut
      BY <2>1, <3>1 DEF LogOK, Log
    <3>4. ASSUME E # {} PROVE \E s \in E : m.low <= s.next
      <4>1. CASE \E s \in E : l.low \in Covered(s)
        <5>1. PICK s \in E : l.low \in Covered(s)
          BY <4>1
        <5>2. l.low < s.next /\ s.next \in Int
          BY <5>1, <2>1, SpanFields
        <5> QED
          BY <2>2, <3>3, <5>2
      <4>2. CASE ~\E s \in E : l.low \in Covered(s)
        <5>1. PICK s \in E : TRUE
          BY <3>4
        <5>2. ~(s.start <= l.low) /\ s.start < s.next /\ s.start \in Int /\ s.next \in Int
          BY <4>2, <5>1, <3>2, <2>1, SpanFields DEF Sound
        <5> QED
          BY <2>2, <3>3, <5>1, <5>2
      <4> QED
        BY <4>1, <4>2
    <3>5. Sound(m, E, com, snt)
      BY <2>1, <3>4 DEF Sound, Within
    <3>6. ASSUME Aligned(l, E, c, h), c.next # NoOffset PROVE m.low <= c.next
      <4>1. l.low <= c.next /\ (E # {} => TopIs(E, c.next))
        BY <3>6 DEF Aligned
      <4>2. c.next # l.low
        <5> SUFFICES ASSUME c.next = l.low PROVE FALSE
          OBVIOUS
        <5>1. c.next \in 0 .. l.low
          BY <2>2
        <5>2. PICK s \in E : l.low \in Covered(s)
          BY <5>1, <3>2
        <5>3. l.low < s.next /\ s.next \in Int
          BY <5>2, <2>1, SpanFields
        <5>4. s.next <= c.next
          BY <4>1 DEF TopIs
        <5> QED
          BY <2>2, <5>3, <5>4
      <4> QED
        BY <2>2, <3>3, <4>1, <4>2
    <3>7. Aligned(l, E, c, h) => Aligned(m, E, c, h)
      BY <3>3, <3>6 DEF Aligned
    <3>8. Plain(m)
      BY <2>1, <3>3 DEF Plain
    <3> QED
      BY <2>1, <2>3, <3>5, <3>7, <3>8 DEF c, l, m, E, h
  <2> QED
    BY <2>4, <2>5
<1> QED
  BY <1>0, <1>2, BrokerMoves

LEMMA CommitOrder ==
    ASSUME KafkaInv, Orderly, NEW q \in Partition, LandCommit(q) \/ LoseCommit(q) PROVE Orderly'
<1>0. /\ UNCHANGED <<topic, rows, buf, pub, cons, sess, log>> /\ BrokerInv /\ SessionInv
      /\ sent' = [sent EXCEPT ![q] = NoOffset]
      /\ committed' = committed \/ committed' = [committed EXCEPT ![q] = sent[q]]
  BY DEF LandCommit, LoseCommit, Orderly, brokerVars
<1>1. committed \in [Partition -> Offset] /\ sent \in [Partition -> Offset]
  BY DEF KafkaInv, Typed, BrokerTyped
<1>2. ASSUME NEW p \in Partition
      PROVE  /\ Plain(log'[p]) /\ Sound(log'[p], Evidence(p), committed'[p], sent'[p])
             /\ sess.phase \in {"join", "up"} =>
                    Aligned(log'[p], Evidence(p), cons[p], HandSpan[p])
  <2>1. /\ Plain(log'[p]) /\ Sound(log[p], Evidence(p), committed[p], sent[p])
        /\ sess.phase \in {"join", "up"} => Aligned(log'[p], Evidence(p), cons[p], HandSpan[p])
    BY <1>0 DEF BrokerInv, SessionInv
  <2>2. committed'[p] \in {committed[p], sent[p]} /\ sent'[p] \in {NoOffset, sent[p]}
    BY <1>0, <1>1
  <2>3. Sound(log[p], Evidence(p), committed'[p], sent'[p])
    BY <2>1, <2>2 DEF Sound
  <2> QED
    BY <1>0, <2>1, <2>3
<1> QED
  BY <1>0, <1>2, BrokerMoves

LEMMA ResetPositionOrder ==
    ASSUME KafkaInv, KafkaInv', Orderly, NEW q \in Partition, ResetPosition(q), ~degraded'
    PROVE  Orderly'
<1>0. /\ UNCHANGED <<log, topic, committed, sent, rows, buf, pub, sess>> /\ sess.phase = "up"
      /\ BrokerInv /\ SessionInv /\ cons[q].gate # Active
      /\ cons' = [cons EXCEPT ![q].pos = IF UseEarliest THEN log[q].low ELSE High(q)]
  BY DEF ResetPosition, brokerVars, Orderly, Running
<1>1. cons \in [Partition -> Consumer] /\ cons' \in [Partition -> Consumer]
  BY DEF KafkaInv, Typed, ConsTyped
<1>2. ASSUME NEW p \in Partition
      PROVE  /\ cons'[p].span = cons[p].span
             /\ Aligned(log[p], Evidence(p), cons'[p], HandSpan[p])
  <2> DEFINE c == cons[p]
             e == cons'[p]
             l == log[p]
             E == Evidence(p)
             h == HandSpan[p]
             x == IF UseEarliest THEN log[q].low ELSE High(q)
  <2>1. Aligned(l, E, c, h) /\ c \in Consumer
    BY <1>0, <1>1 DEF SessionInv
  <2>2. CASE p # q
    <3>1. e = c
      BY <1>0, <1>1, <2>2
    <3> QED
      BY <2>1, <3>1
  <2>3. CASE p = q
    <3>1. e = [c EXCEPT !.pos = x] /\ c.gate # Active
      BY <1>0, <1>1, <2>3
    <3> HIDE DEF c, e, l, E, h, x
    <3>4. /\ e.gate = c.gate /\ e.recFloor = c.recFloor /\ e.reset = c.reset
          /\ e.resetFloor = c.resetFloor /\ e.fr = c.fr /\ e.next = c.next /\ e.span = c.span
      BY <2>1, <3>1 DEF Consumer
    <3>5. ~Through(FALSE, e)
      BY <3>1, <3>4 DEF Through
    <3>6. EndOf(e, h) = EndOf(c, h) /\ \A y : GoesOn(E, e, h, y) <=> GoesOn(E, c, h, y)
      BY <3>4 DEF EndOf, GoesOn
    <3>7. Aligned(l, E, e, h)
      BY <2>1, <3>4, <3>5, <3>6 DEF Aligned
    <3> QED
      BY <3>4, <3>7 DEF c, e, l, E, h
  <2> QED
    BY <2>2, <2>3
<1>3. sess'.cid /\ sess'.tid = topic /\ ~sess'.recreated
  BY <1>0 DEF SessionInv
<1> QED
  BY <1>0, <1>2, <1>3, SessionMoves

LEMMA JoinTimesOutOrder ==
    ASSUME KafkaInv, Orderly, JoinTimesOut PROVE Orderly'
<1>1. /\ UNCHANGED <<log, topic, committed, sent, rows, buf, pub, cons>> /\ sess.phase = "join"
      /\ sess' = [sess EXCEPT !.phase = "up"] /\ SessionInv
  BY DEF JoinTimesOut, brokerVars, Orderly
<1>2. sess'.cid = sess.cid /\ sess'.tid = sess.tid /\ sess'.recreated = sess.recreated
  BY <1>1 DEF KafkaInv, Typed, SessionTyped
<1>3. /\ sess'.cid /\ sess'.tid = topic /\ ~sess'.recreated
      /\ \A p \in Partition : Aligned(log[p], Evidence(p), cons'[p], HandSpan[p])
  BY <1>1, <1>2 DEF SessionInv
<1> QED
  BY <1>1, <1>3, SessionMoves

LEMMA SeekRetryTickOrder ==
    ASSUME KafkaInv, KafkaInv', Orderly, SeekRetryTick, ~degraded' PROVE Orderly'
<1> DEFINE cs == [p \in Partition |-> Drained(cons[p])]
<1>0. /\ UNCHANGED <<log, topic, committed, rows, buf, pub, sess>> /\ sess.phase = "up"
      /\ pub.phase = "none" /\ BrokerInv /\ SessionInv
      /\ TryActivatePendingAfter(0, {}, cs)
  BY DEF SeekRetryTick, brokerVars, Orderly, Looping, Running, TryActivatePending
<1>1. sess.cid /\ sess.tid = topic /\ ~sess.recreated /\ sess.recreated = FALSE
  BY <1>0 DEF SessionInv, KafkaInv, Typed, SessionTyped
<1>2. ASSUME NEW p \in Partition
      PROVE  /\ Fits(log[p], Evidence(p), cs[p], HandSpan[p])
             /\ Aligned(log[p], Evidence(p), cs[p], HandSpan[p])
             /\ cs[p].span = HandSpan[p] /\ cs[p].span = cons[p].span
             /\ cs[p].gate.kind = "active" => cs[p].gate = Active
  <2> DEFINE c == cons[p]
             e == Drained(c)
             l == log[p]
             E == Evidence(p)
             h == HandSpan[p]
  <2>1. /\ Fits(l, E, c, h) /\ Aligned(l, E, c, h) /\ c \in Consumer /\ LogOK(l) /\ c.span = h
    BY <1>0, AllFit DEF SessionInv, HandSpan
  <2>2. cs[p] = e
    OBVIOUS
  <2>3. Drains(l, E, e, h, c)
    <3> HIDE DEF l, c, E, h
    <3> QED
      BY <1>1, <2>1, DrainedAligned
  <2>4. c.gate.kind = "active" => c.gate = Active
    BY <1>0, AllFit
  <2>5. Fits(l, E, e, h)
    BY <2>1, <2>3 DEF Fits, Drains
  <2> QED
    BY <2>1, <2>2, <2>3, <2>4, <2>5 DEF Drains
<1> DEFINE H == HandSpan
<1>3. PassSet(cs, H)
  BY <1>2 DEF PassSet
<1>4. BrokerTyped /\ ConsTyped'
  BY DEF KafkaInv, Typed
<1>5. /\ sent' = sent
      /\ \A p \in Partition :
            Aligned(log[p], Evidence(p), cons'[p], H[p]) /\ cons'[p].span = cs[p].span
  <2> HIDE DEF cs, H
  <2> QED
    BY <1>0, <1>3, <1>4, PassAligned
<1>6. \A p \in Partition : cons'[p].span = cons[p].span
  BY <1>2, <1>5
<1> QED
  BY <1>0, <1>1, <1>5, <1>6, SessionMoves

\* Where nothing names a partition, it has no frontier, and conversely.
LEMMA NoEvidence ==
    ASSUME NEW l, NEW E, NEW com, NEW snt, Sound(l, E, com, snt), NEW fr, FrontierIs(fr, E)
    PROVE  fr = NoEntry <=> E = {}
<1>1. \A s \in E : s.start # NoOffset
  BY Constants DEF Sound
<1> QED
  BY <1>1 DEF FrontierIs, NoEntry

LEMMA JoinOrder ==
    ASSUME KafkaInv, KafkaInv', Orderly, NEW dropped \in SUBSET Partition, Join(dropped), ~degraded'
    PROVE  Orderly'
<1> DEFINE cs == [p \in Partition |-> JoinedCons(p, cons[p].fr, sess.recreated, dropped)]
<1>0. /\ UNCHANGED <<log, topic, committed, rows, buf, pub>> /\ sess.phase = "join"
      /\ sess' = [sess EXCEPT !.phase = "up"] /\ BrokerInv /\ SessionInv
      /\ TryActivatePendingAfter(0, {}, cs)
  BY DEF Join, brokerVars, Orderly, TryActivatePending
<1>1. /\ sess'.cid /\ sess'.tid = topic /\ ~sess'.recreated /\ sess.recreated = FALSE
      /\ pub.phase = "none" /\ \A p \in Partition : Quiet(cons[p])
  BY <1>0, NoPubTyped DEF SessionInv, KafkaInv, Typed, SessionTyped, ShapeInv
<1>2. ASSUME NEW p \in Partition
      PROVE  /\ Fits(log[p], Evidence(p), cs[p], HandSpan[p])
             /\ Aligned(log[p], Evidence(p), cs[p], HandSpan[p])
             /\ cs[p].span = NoSpan /\ cons[p].span = NoSpan
             /\ cs[p].gate.kind = "active" => cs[p].gate = Active
  <2> DEFINE c == cons[p]
             l == log[p]
             E == Evidence(p)
             h == HandSpan[p]
             j == JoinPosition(p)
             drop == p \in dropped /\ j \in Retained(p)
             g == IF c.fr # NoEntry THEN NeedsTarget ELSE IF drop THEN NeedsSeek(j) ELSE Active
             x == IF drop THEN j + 1 ELSE j
             e == [c EXCEPT !.assigned = TRUE, !.pos = x, !.tainted = drop, !.fr = c.fr, !.gate = g]
  <2>1. /\ Fits(l, E, c, h) /\ Aligned(l, E, c, h) /\ c \in Consumer /\ LogOK(l)
        /\ c.next = NoOffset /\ c.span = NoSpan /\ c.notice = {} /\ h = NoSpan
        /\ Sound(l, E, committed[p], sent[p])
    BY <1>0, <1>1, AllFit DEF SessionInv, BrokerInv, HandSpan, Quiet
  <2>2. cs[p] = e
    <3>1. synthesize_recreated(c.fr, sess.recreated) = c.fr
      BY <1>1 DEF synthesize_recreated
    <3> QED
      BY <3>1 DEF JoinedCons
  <2>3. FrontierIs(c.fr, E) /\ (c.fr = NoEntry <=> E = {})
    <3>1. FrontierIs(c.fr, E)
      BY <2>1 DEF Aligned
    <3> DEFINE com == committed[p]
               snt == sent[p]
    <3>2. Sound(l, E, com, snt)
      BY <2>1
    <3> HIDE DEF com, snt, l, E, c
    <3> QED
      BY <3>1, <3>2, NoEvidence
  <2>4. /\ log[p].low \in Nat /\ Len(log[p].recs) \in Nat /\ committed[p] \in Offset
        /\ Len(l.recs) <= MaxRecords
    BY <2>1, LogBounds, Constants DEF KafkaInv, Typed, BrokerTyped
  <2>5. j \in Int /\ 0 <= j
    BY <2>4, Constants DEF JoinPosition, High
  <2>6. drop => j <= Len(l.recs)
    BY <2>4, <2>5 DEF Retained, High
  <2>7. x \in Nat /\ drop \in BOOLEAN
    BY <2>5
  <2>8. g \in Gate /\ (g.kind = "active" => g = Active) /\ g.kind # "restore"
        /\ (g.kind = "seek" => E = {} /\ g.at <= Len(l.recs)) /\ (g = Active => E = {})
        /\ (g.kind = "target" => c.fr # NoEntry)
    BY <2>3, <2>5, <2>6, Constants DEF Gate, NeedsTarget, NeedsSeek, Active
  <2> HIDE DEF g, x, drop, c, l, E, h
  <2>9. e \in Consumer
    BY <2>1, <2>7, <2>8 DEF Consumer
  <2>10. /\ e.gate = g /\ e.next = c.next /\ e.span = c.span /\ e.fr = c.fr /\ e.notice = c.notice
         /\ e.recFloor = c.recFloor /\ e.reset = c.reset /\ e.resetFloor = c.resetFloor
    BY <2>1 DEF Consumer
  <2> HIDE DEF e
  <2>11. Through(FALSE, e) => E = {}
    BY <2>8, <2>10 DEF Through
  <2>12. Aligned(l, E, e, h)
    BY <2>1, <2>3, <2>8, <2>10, <2>11 DEF Aligned, GoesOn
  <2>13. Fits(l, E, e, h)
    BY <2>1, <2>9, <2>10 DEF Fits
  <2>14. c.span = NoSpan /\ e.span = NoSpan /\ (e.gate.kind = "active" => e.gate = Active)
    BY <2>1, <2>8, <2>10
  <2> QED
    BY <2>2, <2>12, <2>13, <2>14 DEF l, E, h, c
<1> DEFINE H == HandSpan
<1>3. PassSet(cs, H)
  BY <1>2 DEF PassSet
<1>4. BrokerTyped /\ ConsTyped'
  BY DEF KafkaInv, Typed
<1>5. /\ sent' = sent
      /\ \A p \in Partition :
            Aligned(log[p], Evidence(p), cons'[p], H[p]) /\ cons'[p].span = cs[p].span
  <2> HIDE DEF cs, H
  <2> QED
    BY <1>0, <1>3, <1>4, PassAligned
<1>6. \A p \in Partition : cons'[p].span = cons[p].span
  BY <1>2, <1>5
<1> QED
  BY <1>0, <1>1, <1>5, <1>6, SessionMoves

\* Rows of this cluster and topic give no reason to suspect a recreation.
LEMMA NotRecreated ==
    ASSUME KafkaInv, RowsInv, sess.phase \in {"down", "stopped"}
    PROVE  /\ SettledRows = DOMAIN rows
           /\ \A i \in DOMAIN rows : rows[i].cid /\ ~DeadGeneration(rows[i], topic)
           /\ TopicRecreated(rows, TRUE, topic, FALSE) = FALSE
<1>1. SettledRows = DOMAIN rows
  BY NoPubTyped DEF KafkaInv, ShapeInv, SettledRows, InStock
<1>2. \A i \in DOMAIN rows : rows[i].cid /\ ~DeadGeneration(rows[i], topic)
  BY <1>1 DEF RowsInv, Row1, DeadGeneration
<1> QED
  BY <1>1, <1>2 DEF TopicRecreated, detect_topic_recreation

\* The frontier that a session derives, when every row is loaded and of this
\* cluster and topic, is that of the evidence.
LEMMA DerivedIs ==
    ASSUME KafkaInv, RowsInv, BrokerInv, sess.phase \in {"down", "stopped"},
           \A i \in DOMAIN rows : rows[i].visible, NEW p \in Partition
    PROVE  FrontierIs(derive_resume_frontier(rows, p, TRUE, topic, FALSE), Evidence(p))
<1> DEFINE Sp(i) == rows[i].span[p]
           N == Naming(rows, p)
           E == Evidence(p)
           T == {Sp(i).start : i \in N}
           U == UNION {Covered(Sp(i)) : i \in N}
           comp == compute_resume_frontier(rows, p, TRUE, topic)
           fr == derive_resume_frontier(rows, p, TRUE, topic, FALSE)
           tr == TopicRecreated(rows, TRUE, topic, FALSE)
<1>1. SettledRows = DOMAIN rows
  BY NotRecreated
<1>2. \A i \in DOMAIN rows : rows[i].cid /\ ~DeadGeneration(rows[i], topic)
  BY NotRecreated
<1>3. tr = FALSE
  BY NotRecreated
<1>4. LiveRows(rows, p, topic) = N /\ N \subseteq DOMAIN rows
  BY <1>2 DEF LiveRows, Naming
<1>5. E = {Sp(i) : i \in N}
  BY <1>1, <1>2 DEF Evidence, Naming
<1>6. LoadedOffsets(rows, p, TRUE, topic) = U
  <2>1. {j \in LiveRows(rows, p, topic) : rows[j].visible} = N
    BY <1>4
  <2> QED
    BY <2>1 DEF LoadedOffsets
<1>7. CASE N = {}
  <2>1. fr = NoEntry
    BY <1>7 DEF derive_resume_frontier, compute_resume_frontier
  <2> QED
    BY <1>3, <1>5, <1>7, <2>1 DEF FrontierIs
<1>8. CASE N # {}
  <2>1. E # {} /\ \A s \in E : 0 <= s.start /\ s.start \in Int
    BY <1>5, <1>8, AllFit, SpanFields DEF BrokerInv, Sound
  <2>2. T \subseteq Int /\ T # {} /\ \A y \in T : 0 <= y
    BY <1>5, <1>8, <2>1
  <2>3. Min(T) \in T /\ \A y \in T : Min(T) <= y
    <3>1. T \subseteq Int /\ T # {} /\ 0 \in Int /\ \A y \in T : 0 <= y
      BY <2>2
    <3> HIDE DEF T
    <3> QED
      BY <3>1, MinOf
  <2> DEFINE ms == Min(T)
             e == [minStart |-> ms, loaded |-> U, recreated |-> FALSE]
  <2>4. MinStart(rows, p, TRUE, topic) = ms
    BY <1>4, <1>8 DEF MinStart
  <2>5. comp = e
    BY <1>4, <1>6, <1>8, <2>4 DEF compute_resume_frontier
  <2>6. 0 <= ms /\ ms \in Int
    BY <2>2, <2>3
  <2> HIDE DEF ms, U
  <2>7. e # NoEntry
    BY <2>6, Constants DEF NoEntry
  <2>8. fr = [minStart |-> comp.minStart, loaded |-> comp.loaded, recreated |-> comp.recreated \/ tr]
    BY <2>5, <2>7 DEF derive_resume_frontier
  <2> HIDE DEF fr, comp, tr
  <2>13. comp.minStart = ms /\ comp.loaded = U /\ comp.recreated = FALSE
    BY <2>5
  <2>9. fr.minStart = ms /\ fr.loaded = U /\ fr.recreated = FALSE
    BY <1>3, <2>8, <2>13
  <2>10. \E s \in E : fr.minStart = s.start
    BY <1>5, <2>3, <2>9 DEF ms
  <2>11. \A s \in E : fr.minStart <= s.start
    BY <1>5, <2>3, <2>9 DEF ms
  <2>12. fr.loaded = UNION {Covered(s) : s \in E}
    <3>1. \A o : o \in U <=> \E i \in N : o \in Covered(Sp(i))
      BY DEF U
    <3>2. \A o : o \in UNION {Covered(s) : s \in E} <=> \E i \in N : o \in Covered(Sp(i))
      BY <1>5
    <3> QED
      BY <3>1, <3>2, <2>9
  <2> QED
    BY <1>3, <2>1, <2>9, <2>10, <2>11, <2>12 DEF FrontierIs, fr
<1> QED
  BY <1>7, <1>8

LEMMA StartOrder ==
    ASSUME KafkaInv, KafkaInv', Orderly, ~degraded',
           NEW cid \in BOOLEAN, NEW probe \in {"agreed", "unresolved", "disagreed"}, Start(cid, probe)
    PROVE  Orderly'
<1> DEFINE blame == (IF cid THEN 0 ELSE 1) + (IF probe = "agreed" THEN 0 ELSE 1)
           entry(p) == derive_resume_frontier(rows, p, TRUE, topic, FALSE)
<1>1. cid = TRUE /\ probe = "agreed" /\ \A i \in DOMAIN rows : rows[i].visible
  <2>1. ~(blame > 0) /\ ~(\E i \in DOMAIN rows : ~rows[i].visible)
    BY DEF Start
  <2>2. cid /\ probe = "agreed"
    <3>1. CASE ~cid
      BY <2>1, <3>1
    <3>2. CASE cid /\ probe # "agreed"
      BY <2>1, <3>2
    <3> QED
      BY <3>1, <3>2
  <2> QED
    BY <2>1, <2>2
<1>2. /\ UNCHANGED <<log, topic, committed, rows, buf, pub>> /\ sess.phase \in {"down", "stopped"}
      /\ sent' = [p \in Partition |-> NoOffset]
      /\ sess'.cid = TRUE /\ sess'.tid = topic
      /\ sess'.recreated = TopicRecreated(rows, TRUE, topic, FALSE)
      /\ cons' = [p \in Partition |->
                    [IdleCons EXCEPT !.fr = entry(p),
                                     !.epoch = IF sess'.recreated THEN log[p].epoch ELSE 0,
                                     !.gate = IF entry(p) # NoEntry THEN NeedsTarget ELSE Active]]
  BY <1>1 DEF Start, brokerVars
<1>3. BrokerInv /\ RowsInv /\ NewRowInv /\ HandsInv
  BY DEF Orderly
<1>4. ASSUME NEW p \in Partition
      PROVE  /\ cons'[p].span = cons[p].span /\ ~sess'.recreated
             /\ Aligned(log[p], Evidence(p), cons'[p], HandSpan[p])
  <2> DEFINE e == cons'[p]
             l == log[p]
             E == Evidence(p)
             h == HandSpan[p]
             g == IF entry(p) # NoEntry THEN NeedsTarget ELSE Active
             x == IF sess'.recreated THEN log[p].epoch ELSE 0
  <2>1. FrontierIs(entry(p), E) /\ ~sess'.recreated
    BY <1>1, <1>2, <1>3, DerivedIs, NotRecreated
  <2>2. h = NoSpan /\ cons[p].span = NoSpan
    BY <1>2, NoPubTyped DEF HandSpan, KafkaInv, ShapeInv, Quiet
  <2>3. e = [IdleCons EXCEPT !.fr = entry(p), !.epoch = x, !.gate = g]
    BY <1>2
  <2>4. g.kind = (IF entry(p) # NoEntry THEN "target" ELSE "active")
    BY DEF NeedsTarget, Active
  <2> DEFINE f == entry(p)
  <2> HIDE DEF g, x, e, l, E, h, f
  <2>5. /\ e.fr = f /\ e.gate = g /\ e.next = NoOffset /\ e.span = NoSpan /\ e.assigned = FALSE
        /\ e.recFloor = FALSE /\ e.reset = FALSE /\ e.resetFloor = FALSE
    BY <2>3 DEF IdleCons, f
  <2>6. ~Through(FALSE, e)
    BY <2>5 DEF Through
  <2>7. ~f.recreated /\ FrontierIs(f, E)
    <3>1. FrontierIs(f, E)
      BY <2>1 DEF f
    <3>2. ~NoEntry.recreated
      BY DEF NoEntry
    <3> QED
      BY <3>1, <3>2 DEF FrontierIs
  <2>8. g.kind = (IF f # NoEntry THEN "target" ELSE "active")
    BY <2>4 DEF f
  <2>9. Aligned(l, E, e, h)
    BY <2>2, <2>5, <2>6, <2>7, <2>8 DEF Aligned
  <2> QED
    BY <2>1, <2>2, <2>5, <2>9 DEF e, l, E, h
<1>5. /\ RowsInv' /\ NewRowInv' /\ HandsInv'
      /\ \A p \in Partition : HandSpan'[p] = HandSpan[p] /\ Evidence(p)' = Evidence(p)
  BY <1>2, <1>3, <1>4, HandsStill
<1>6. BrokerInv'
  <2> SUFFICES ASSUME NEW p \in Partition
               PROVE  Plain(log[p]) /\ Sound(log[p], Evidence(p), committed[p], sent'[p])
    BY <1>2, <1>5 DEF BrokerInv
  <2>1. sent'[p] = NoOffset /\ Plain(log[p]) /\ Sound(log[p], Evidence(p), committed[p], sent[p])
    BY <1>2, <1>3 DEF BrokerInv
  <2> QED
    BY <2>1 DEF Sound
<1>7. SessionInv'
  <2>1. ~sess'.recreated
    BY <1>2, <1>3, NotRecreated
  <2> QED
    BY <1>2, <1>4, <1>5, <2>1 DEF SessionInv
<1> QED
  BY <1>5, <1>6, <1>7 DEF Orderly

------------------------------------------------------------------------------
(* The buffer and the batch.                                               *)

StockKept == SettledRows' = SettledRows /\ \A i \in SettledRows : rows'[i] = rows[i]

\* The loop has something else in its hands; the rows that stay are the same.
LEMMA NewHands ==
    ASSUME BrokerInv, RowsInv, UNCHANGED <<log, topic, committed, sent>>, StockKept,
           NewRowInv', HandsInv',
           sess'.phase \in {"join", "up"} =>
               /\ sess'.cid /\ sess'.tid = topic /\ ~sess'.recreated
               /\ \A p \in Partition : Aligned(log[p], Evidence(p), cons'[p], HandSpan'[p])
    PROVE  Orderly'
<1>1. \A p \in Partition : Evidence(p)' = Evidence(p)
  BY DEF Evidence, StockKept
<1>2. BrokerInv'
  BY <1>1 DEF BrokerInv
<1>3. RowsInv'
  BY DEF RowsInv, Row1, StockKept
<1>4. SessionInv'
  BY <1>1 DEF SessionInv
<1> QED
  BY <1>2, <1>3, <1>4 DEF Orderly

\* roll_with_offsets takes the span out of the buffer.
LEMMA RolledAligned ==
    ASSUME NEW l, NEW E, NEW c \in Consumer, NEW h, Aligned(l, E, c, h), c.span = h
    PROVE  Aligned(l, E, [c EXCEPT !.span = NoSpan], h)
<1> DEFINE e == [c EXCEPT !.span = NoSpan]
<1>1. e \in Consumer
  BY NoSpanFields DEF Consumer
<1>2. /\ e.assigned = c.assigned /\ e.pos = c.pos /\ e.gate = c.gate /\ e.recFloor = c.recFloor
      /\ e.reset = c.reset /\ e.resetFloor = c.resetFloor /\ e.fr = c.fr /\ e.next = c.next
      /\ e.notice = c.notice
  BY DEF Consumer
<1> HIDE DEF e
<1>3. SafeFloor(e) = NoOffset => SafeFloor(c) = NoOffset
  BY <1>1, <1>2, FloorOf, FloorIsEnd
<1>4. Through(FALSE, e) => Through(FALSE, c)
  BY <1>2, <1>3 DEF Through
<1>5. EndOf(e, h) = EndOf(c, h) /\ \A x : GoesOn(E, e, h, x) <=> GoesOn(E, c, h, x)
  BY <1>2 DEF EndOf, GoesOn
<1>6. Aligned(l, E, e, h)
  BY <1>2, <1>4, <1>5 DEF Aligned
<1> QED
  BY <1>6 DEF e

LEMMA RollOrder ==
    ASSUME Orderly, pub.phase = "none", sess.phase = "up",
           UNCHANGED <<log, topic, committed, sent, rows>>,
           NEW cs, NEW batch, NEW final, Roll(cs, batch, final),
           sess'.cid = sess.cid, sess'.tid = sess.tid, sess'.recreated = sess.recreated,
           \A p \in Partition : cs[p] \in Consumer /\ Aligned(log[p], Evidence(p), cs[p], cs[p].span),
           Stamped(batch, [p \in Partition |-> cs[p].span]), Rising(batch)
    PROVE  Orderly'
<1>1. /\ pub'.phase = "persist" /\ pub'.batch = batch
      /\ pub'.spans = [p \in Partition |-> cs[p].span]
      /\ cons' = [p \in Partition |-> [cs[p] EXCEPT !.span = NoSpan]]
  BY DEF Roll
<1>2. StockKept
  BY <1>1, SameStock DEF StockKept
<1>3. HandSpan' = [p \in Partition |-> cs[p].span] /\ Hands' = batch
  BY <1>1 DEF HandSpan, Hands
<1>4. HandsInv' /\ NewRowInv'
  BY <1>1, <1>3 DEF HandsInv, NewRowInv
<1>5. ASSUME NEW p \in Partition
      PROVE  Aligned(log[p], Evidence(p), cons'[p], HandSpan'[p])
  <2> DEFINE c == cs[p]
             h == c.span
             l == log[p]
             E == Evidence(p)
  <2>1. c \in Consumer /\ Aligned(l, E, c, h) /\ c.span = h
    OBVIOUS
  <2>2. cons'[p] = [c EXCEPT !.span = NoSpan] /\ HandSpan'[p] = h
    BY <1>1, <1>3
  <2> HIDE DEF c, h, l, E
  <2>3. Aligned(l, E, [c EXCEPT !.span = NoSpan], h)
    BY <2>1, RolledAligned
  <2> QED
    BY <2>2, <2>3 DEF l, E
<1>6. BrokerInv /\ RowsInv /\ sess.cid /\ sess.tid = topic /\ ~sess.recreated
  BY DEF Orderly, SessionInv
<1> QED
  BY <1>2, <1>4, <1>5, <1>6, NewHands

\* What is in the buffer, rolled as it stands.
LEMMA Buffered ==
    ASSUME KafkaInv, Orderly, pub.phase = "none", sess.phase = "up"
    PROVE  /\ \A p \in Partition : cons[p] \in Consumer
                                   /\ Aligned(log[p], Evidence(p), cons[p], cons[p].span)
           /\ Stamped(buf, [p \in Partition |-> cons[p].span]) /\ Rising(buf)
<1>1. HandSpan = [p \in Partition |-> cons[p].span] /\ Hands = buf
  BY DEF HandSpan, Hands
<1>2. HandsInv /\ SessionInv /\ BrokerInv
  BY DEF Orderly
<1> QED
  BY <1>1, <1>2, AllFit DEF HandsInv, SessionInv

LEMMA FlushTickOrder ==
    ASSUME KafkaInv, Orderly, FlushTick PROVE Orderly'
<1> DEFINE final == FALSE
<1>1. /\ UNCHANGED <<log, topic, committed, sent, rows, sess>> /\ pub.phase = "none"
      /\ sess.phase = "up" /\ Roll(cons, buf, final)
  BY DEF FlushTick, brokerVars, Looping, Running
<1> DEFINE cs == cons
           batch == buf
<1>2. /\ \A p \in Partition : cs[p] \in Consumer /\ Aligned(log[p], Evidence(p), cs[p], cs[p].span)
      /\ Stamped(batch, [p \in Partition |-> cs[p].span]) /\ Rising(batch)
      /\ Roll(cs, batch, final)
  BY <1>1, Buffered
<1> HIDE DEF final, cs, batch
<1> QED
  BY <1>1, <1>2, RollOrder

\* A session that ends leaves nothing in its hands.
LEMMA EmptyHands ==
    ASSUME pub'.phase = "none", buf' = <<>>,
           \A p \in Partition : cons'[p].span = NoSpan
    PROVE  /\ HandsInv' /\ NewRowInv'
           /\ \A p \in Partition : HandSpan'[p] = NoSpan
<1>1. Hands' = <<>> /\ \A p \in Partition : HandSpan'[p] = NoSpan
  BY DEF Hands, HandSpan
<1>2. DOMAIN <<>> = {}
  OBVIOUS
<1> QED
  BY <1>1, <1>2 DEF HandsInv, NewRowInv, Stamped, Rising

LEMMA StopOrder ==
    ASSUME KafkaInv, Orderly, NEW fatal \in BOOLEAN, Stop(fatal) PROVE Orderly'
<1>1. /\ UNCHANGED <<log, topic, committed, sent, rows>> /\ pub.phase = "none"
      /\ sess.phase = "up" /\ BrokerInv /\ RowsInv
      /\ IF buf # <<>>
         THEN /\ Roll(cons, buf, TRUE)
              /\ sess' = [sess EXCEPT !.failed = @ \/ fatal]
         ELSE /\ sess' = [sess EXCEPT !.phase = "stopped", !.failed = @ \/ fatal]
              /\ cons' = [p \in Partition |-> IdleCons]
              /\ UNCHANGED <<buf, pub>>
  BY DEF Stop, brokerVars, Looping, Running, Orderly
<1>2. sess \in [phase : {"down", "join", "up", "stopped"}, cid : BOOLEAN, tid : Nat,
                recreated : BOOLEAN, failed : BOOLEAN]
  BY DEF KafkaInv, Typed, SessionTyped
<1>3. CASE buf # <<>>
  <2> DEFINE final == TRUE
             cs == cons
             batch == buf
  <2>1. Roll(cs, batch, final) /\ sess' = [sess EXCEPT !.failed = @ \/ fatal]
    BY <1>1, <1>3
  <2>2. sess'.cid = sess.cid /\ sess'.tid = sess.tid /\ sess'.recreated = sess.recreated
    BY <1>2, <2>1
  <2>3. /\ \A p \in Partition : cs[p] \in Consumer /\ Aligned(log[p], Evidence(p), cs[p], cs[p].span)
        /\ Stamped(batch, [p \in Partition |-> cs[p].span]) /\ Rising(batch)
    BY <1>1, Buffered
  <2> HIDE DEF final, cs, batch
  <2> QED
    BY <1>1, <2>1, <2>2, <2>3, RollOrder
<1>4. CASE buf = <<>>
  <2>1. /\ sess' = [sess EXCEPT !.phase = "stopped", !.failed = @ \/ fatal]
        /\ cons' = [p \in Partition |-> IdleCons] /\ buf' = <<>> /\ pub' = pub
    BY <1>1, <1>4
  <2>2. sess'.phase = "stopped"
    BY <1>2, <2>1
  <2>3. \A p \in Partition : cons'[p].span = NoSpan
    BY <2>1 DEF IdleCons
  <2>4. HandsInv' /\ NewRowInv'
    BY <1>1, <2>1, <2>3, EmptyHands
  <2>5. StockKept
    BY <1>1, <2>1, SameStock DEF StockKept
  <2> QED
    BY <1>1, <2>2, <2>4, <2>5, NewHands
<1> QED
  BY <1>3, <1>4

Heard(c) ==
    [c EXCEPT !.pos = @ + 1, !.span = record_offset(c), !.next = IF @ = NoOffset THEN c.pos ELSE @]

\* e has heard one record more than c: its span has grown over it.
Hears(l, E, e, c) ==
    /\ e \in Consumer /\ Aligned(l, E, e, e.span)
    /\ \A o \in Covered(c.span) : o \in Covered(e.span) /\ o < c.pos
    /\ c.pos \in Covered(e.span)

\* The record that an aligned partition accepts is the one behind all it has.
LEMMA AcceptAligned ==
    ASSUME NEW l, LogOK(l), NEW E, E \subseteq Span, NEW c \in Consumer, NEW h, c.span = h,
           Aligned(l, E, c, h), c.assigned, c.gate = Active, c.notice = {},
           c.pos \in l.low .. (Len(l.recs) - 1)
    PROVE  Hears(l, E, Heard(c), c)
<1> DEFINE q == c.pos + 1
           sp == record_offset(c)
           n == IF c.next = NoOffset THEN c.pos ELSE c.next
           e == [c EXCEPT !.pos = q, !.span = sp, !.next = n]
<1>1. /\ l.low \in Nat /\ Len(l.recs) \in Nat /\ Len(l.recs) <= MaxRecords /\ c.pos \in Nat
      /\ c.next \in Offset /\ c.next \in Int /\ c.span \in Span /\ h.start \in Int /\ h.next \in Int
      /\ h.start \in Offset
  BY LogBounds, SpanFields, Constants DEF Consumer
<1>2. q \in Nat /\ q \in Offset /\ c.pos \in Offset /\ c.pos # NoOffset /\ l.low <= c.pos
  BY <1>1, Constants
<1>3. GoesOn(E, c, h, c.pos)
  BY DEF Aligned, Through
<1>4. h # NoSpan => c.next # NoOffset /\ h.start = c.next /\ h.start < h.next /\ c.pos = h.next
  BY <1>3 DEF Aligned, GoesOn, EndOf
<1>5. h = NoSpan /\ c.next # NoOffset => c.pos = c.next
  BY <1>3 DEF GoesOn, EndOf
<1>6. c.next = NoOffset => h = NoSpan /\ (E # {} => TopIs(E, c.pos))
  BY <1>3 DEF Aligned, GoesOn
<1>7. sp \in Span /\ sp.next = q /\ sp.start = n /\ n \in Offset /\ n # NoOffset
  <2>1. CASE h = NoSpan
    <3>1. sp = [start |-> c.pos, next |-> q]
      BY <2>1 DEF record_offset
    <3> QED
      BY <1>2, <1>5, <2>1, <3>1 DEF Span
  <2>2. CASE h # NoSpan
    <3>1. ~(c.span = NoSpan \/ c.pos < c.span.next)
      BY <1>1, <1>4, <2>2
    <3>2. sp = [c.span EXCEPT !.next = q]
      BY <3>1 DEF record_offset
    <3>3. sp \in Span /\ sp.next = q /\ sp.start = h.start
      BY <1>1, <1>2, <3>2 DEF Span
    <3> QED
      BY <1>1, <1>4, <2>2, <3>3
  <2> QED
    BY <2>1, <2>2
<1>8. n \in Int /\ n <= c.pos
  <2>1. CASE c.next = NoOffset
    BY <1>1, <2>1
  <2>2. CASE c.next # NoOffset /\ h = NoSpan
    BY <1>1, <1>5, <2>2
  <2>3. CASE c.next # NoOffset /\ h # NoSpan
    BY <1>1, <1>4, <2>3
  <2> QED
    BY <2>1, <2>2, <2>3
<1>9. l.low <= n /\ (E # {} => TopIs(E, n))
  <2>1. CASE c.next = NoOffset
    BY <1>2, <1>6, <2>1
  <2>2. CASE c.next # NoOffset
    BY <2>2 DEF Aligned
  <2> QED
    BY <2>1, <2>2
<1>10. \A o \in Covered(h) : o \in Covered(sp) /\ o < c.pos
  <2> TAKE o \in Covered(h)
  <2>1. o \in Int /\ h.start <= o /\ o < h.next /\ h # NoSpan
    BY <1>1, SpanFields, NoSpanFields
  <2>2. sp.start = h.start /\ o < c.pos /\ o < sp.next
    BY <1>1, <1>4, <1>7, <2>1
  <2> QED
    BY <1>7, <2>1, <2>2, SpanFields
<1>11. c.pos \in Covered(sp)
  <2>1. sp.start <= c.pos /\ c.pos < sp.next /\ c.pos \in Int
    BY <1>1, <1>7, <1>8
  <2> QED
    BY <1>7, <2>1, SpanFields
<1>12. Heard(c) = e
  BY DEF Heard
<1>20. sp # NoSpan /\ n < sp.next
  BY <1>1, <1>7, <1>8, NoSpanFields
<1> HIDE DEF sp, n, q
<1>13. e \in Consumer
  BY <1>2, <1>7 DEF Consumer
<1>14. /\ e.pos = q /\ e.span = sp /\ e.next = n /\ e.gate = Active /\ e.fr = c.fr
       /\ e.recFloor = c.recFloor /\ e.reset = c.reset /\ e.resetFloor = c.resetFloor
  BY DEF Consumer
<1> HIDE DEF e
<1>15. Active.kind = "active"
  BY DEF Active
<1>16. GoesOn(E, e, sp, e.pos)
  BY <1>7, <1>14, <1>20 DEF GoesOn, EndOf
<1>17. Aligned(l, E, e, sp)
  BY <1>7, <1>9, <1>14, <1>15, <1>16, <1>20 DEF Aligned
<1> QED
  BY <1>10, <1>11, <1>12, <1>13, <1>14, <1>17 DEF Hears

\* The spans S have grown to T over the offset o of p, which is above them.
SpansGrow(S, T, p, o) ==
    /\ \A q \in Partition : Covered(S[q]) \subseteq Covered(T[q])
    /\ \A x \in Covered(S[p]) : x \in Int /\ x < o
    /\ o \in Covered(T[p])

\* It goes to the end of the buffer.
LEMMA BatchGrows ==
    ASSUME NEW old \in Seq(Record), NEW S, NEW T, NEW p \in Partition, NEW o \in Nat,
           Stamped(old, S), Rising(old), SpansGrow(S, T, p, o),
           NEW r \in Record, r[1] = p, r[2] = o + 1, NEW batch, batch \in {old, Append(old, r)}
    PROVE  Stamped(batch, T) /\ Rising(batch)
<1>1. /\ Len(old) \in Nat /\ DOMAIN old = 1 .. Len(old)
      /\ \A k \in DOMAIN old : old[k] \in Record /\ old[k][1] \in Partition /\ old[k][2] \in Int
  <2>1. \A k \in DOMAIN old : old[k] \in Record
    OBVIOUS
  <2> QED
    BY <2>1, Constants DEF Record
<1>2. CASE batch = old
  BY <1>1, <1>2 DEF Stamped, Rising, SpansGrow
<1>3. CASE batch = Append(old, r)
  <2>1. /\ DOMAIN batch = 1 .. Len(old) + 1 /\ batch[Len(old) + 1] = r
        /\ \A k \in 1 .. Len(old) : batch[k] = old[k]
    BY <1>1, <1>3
  <2>2. \A k \in DOMAIN batch : k \in DOMAIN old \/ k = Len(old) + 1
    BY <1>1, <2>1
  <2>3. Stamped(batch, T)
    <3> SUFFICES ASSUME NEW k \in DOMAIN batch
                 PROVE  batch[k][2] - 1 \in Covered(T[batch[k][1]])
      BY DEF Stamped
    <3>1. CASE k \in DOMAIN old
      BY <1>1, <2>1, <3>1 DEF Stamped, SpansGrow
    <3>2. CASE k = Len(old) + 1
      BY <2>1, <3>2 DEF SpansGrow
    <3> QED
      BY <2>2, <3>1, <3>2
  <2>4. Rising(batch)
    <3> SUFFICES ASSUME NEW k \in DOMAIN batch, NEW m \in DOMAIN batch, k < m,
                        batch[k][1] = batch[m][1]
                 PROVE  batch[k][2] < batch[m][2]
      BY DEF Rising
    <3>1. k \in DOMAIN old
      BY <1>1, <2>1
    <3>2. CASE m \in DOMAIN old
      BY <1>1, <2>1, <3>1, <3>2 DEF Rising
    <3>3. CASE m = Len(old) + 1
      <4>1. batch[k] = old[k] /\ batch[m] = r /\ old[k][1] = p
        BY <1>1, <2>1, <3>1, <3>3
      <4>2. old[k][2] - 1 \in Covered(S[p])
        BY <3>1, <4>1 DEF Stamped
      <4>3. old[k][2] - 1 < o /\ old[k][2] \in Int
        BY <1>1, <3>1, <4>2 DEF SpansGrow
      <4> QED
        BY <4>1, <4>3
    <3> QED
      BY <2>2, <3>2, <3>3
  <2> QED
    BY <2>3, <2>4
<1> QED
  BY <1>2, <1>3

LEMMA DeliverOrder ==
    ASSUME KafkaInv, KafkaInv', Orderly, NEW p \in Partition, Deliver(p) PROVE Orderly'
<1> DEFINE cs == [q \in Partition |-> Drained(cons[q])]
           c == cs[p]
<1>0. /\ UNCHANGED <<log, topic, committed, sent, rows, sess>> /\ pub.phase = "none"
      /\ sess.phase = "up" /\ cons[p].assigned /\ cons[p].pos \in Retained(p)
      /\ DropGated(p, cs) \/ Accept(p, cs)
      /\ BrokerInv /\ SessionInv /\ RowsInv /\ HandsInv
  BY DEF Deliver, Looping, Running, brokerVars, Orderly
<1>1. sess.cid /\ sess.tid = topic /\ ~sess.recreated /\ sess.recreated = FALSE
  BY <1>0 DEF SessionInv, KafkaInv, Typed, SessionTyped
<1>2. ASSUME NEW q \in Partition
      PROVE  /\ Drains(log[q], Evidence(q), cs[q], cons[q].span, cons[q])
             /\ HandSpan[q] = cons[q].span /\ LogOK(log[q]) /\ Evidence(q) \subseteq Span
  <2> DEFINE d == cons[q]
             l == log[q]
             E == Evidence(q)
             h == d.span
  <2>1. /\ Aligned(l, E, d, h) /\ d \in Consumer /\ LogOK(l) /\ d.span = h /\ HandSpan[q] = h
        /\ E \subseteq Span
    BY <1>0, AllFit DEF SessionInv, HandSpan
  <2>2. cs[q] = Drained(d)
    OBVIOUS
  <2>3. Drains(l, E, Drained(d), h, d)
    <3> HIDE DEF l, d, E, h
    <3> QED
      BY <1>1, <2>1, DrainedAligned
  <2> QED
    BY <2>1, <2>2, <2>3
<1>3. cs = [q \in Partition |-> cs[q]]
  OBVIOUS
<1> HIDE DEF cs
<1>4. \A q \in Partition : /\ cs[q] \in Consumer /\ cs[q].span = cons[q].span
                           /\ Aligned(log[q], Evidence(q), cs[q], cs[q].span)
  BY <1>2 DEF Drains
<1>5. c.assigned /\ c.notice = {} /\ c.pos = cons[p].pos
  BY <1>0, <1>2 DEF Drains
<1>6. CASE DropGated(p, cs)
  <2> DEFINE e == [c EXCEPT !.tainted = TRUE, !.pos = c.pos + 1]
             l == log[p]
             E == Evidence(p)
             h == c.span
  <2>1. c.gate # Active /\ cons' = [cs EXCEPT ![p] = e] /\ UNCHANGED <<buf, pub>>
    BY <1>6 DEF DropGated
  <2>2. c \in Consumer /\ Aligned(l, E, c, h)
    BY <1>4
  <2> HIDE DEF c, l, E, h
  <2>3. /\ e.gate = c.gate /\ e.recFloor = c.recFloor /\ e.reset = c.reset
        /\ e.resetFloor = c.resetFloor /\ e.fr = c.fr /\ e.next = c.next /\ e.span = c.span
    BY <2>2 DEF Consumer
  <2> HIDE DEF e
  <2>4. ~Through(FALSE, e)
    BY <2>1, <2>3 DEF Through
  <2>5. EndOf(e, h) = EndOf(c, h) /\ \A x : GoesOn(E, e, h, x) <=> GoesOn(E, c, h, x)
    BY <2>3 DEF EndOf, GoesOn
  <2>6. Aligned(l, E, e, h)
    BY <2>2, <2>3, <2>4, <2>5 DEF Aligned
  <2>7. \A q \in Partition : cons'[q] = IF q = p THEN e ELSE cs[q]
    BY <1>3, <2>1
  <2>8. \A q \in Partition : /\ Aligned(log[q], Evidence(q), cons'[q], HandSpan[q])
                             /\ cons'[q].span = cons[q].span
    BY <1>2, <1>4, <2>3, <2>6, <2>7 DEF c, l, E, h
  <2> QED
    BY <1>0, <1>1, <2>1, <2>8, SessionMoves
<1>7. CASE Accept(p, cs)
  <2> DEFINE r == RecordAt(p, c.pos)
             e == Heard(c)
             heard == [cs EXCEPT ![p] = e]
             batch == IF r \in Poison THEN buf ELSE Append(buf, r)
             l == log[p]
             E == Evidence(p)
  <2>1. /\ c.gate = Active
        /\ IF r \notin Poison /\ should_roll(batch)
           THEN Roll(heard, batch, FALSE)
           ELSE cons' = heard /\ buf' = batch /\ UNCHANGED pub
    BY <1>7 DEF Accept, Heard
  <2>2. LogOK(l) /\ E \subseteq Span /\ c.pos \in l.low .. (Len(l.recs) - 1) /\ c.pos \in Nat
    BY <1>0, <1>2, <1>4, <1>5 DEF Retained, High, Consumer
  <2>3. r \in Record /\ r[1] = p /\ r[2] = c.pos + 1
    <3>1. BrokerTyped /\ Plain(l)
      BY <1>0 DEF KafkaInv, Typed, BrokerInv
    <3>2. r \in Record /\ r = <<p, l.recs[c.pos + 1]>>
      BY <1>0, <1>5, <3>1, RecordTyped
    <3>3. c.pos + 1 \in DOMAIN l.recs
      BY <2>2, LogBounds DEF LogOK, Log
    <3> HIDE DEF r, c, l
    <3> QED
      BY <3>1, <3>2, <3>3 DEF Plain
  <2>4. Hears(l, E, e, c)
    <3> DEFINE h == c.span
    <3>1. c \in Consumer /\ c.span = h /\ Aligned(l, E, c, h)
      BY <1>4
    <3> HIDE DEF l, E, c, h
    <3> QED
      BY <1>5, <2>1, <2>2, <3>1, AcceptAligned
  <2> HIDE DEF e, r
  <2>5. \A q \in Partition : heard[q] = IF q = p THEN e ELSE cs[q]
    BY <1>3
  <2> HIDE DEF heard
  <2>6. \A q \in Partition : heard[q] \in Consumer
                             /\ Aligned(log[q], Evidence(q), heard[q], heard[q].span)
    BY <1>4, <2>4, <2>5 DEF Hears
  <2> DEFINE S == [q \in Partition |-> cons[q].span]
             T == [q \in Partition |-> heard[q].span]
             o == c.pos
  <2>7. Stamped(batch, T) /\ Rising(batch)
    <3>1. Stamped(buf, S) /\ Rising(buf) /\ buf \in Seq(Record)
      BY <1>0, Buffered DEF KafkaInv, Typed, SessionTyped
    <3>2. \A q \in Partition : Covered(S[q]) \subseteq Covered(T[q])
      BY <1>4, <2>4, <2>5 DEF Hears
    <3>3. /\ \A x \in Covered(S[p]) : x \in Int /\ x < o
          /\ o \in Covered(T[p])
      <4>1. S[p] = c.span /\ T[p] = e.span /\ c.span \in Span
        BY <1>4, <2>5 DEF Consumer
      <4>2. \A x \in Covered(c.span) : x \in Int
        BY <4>1, SpanFields
      <4> QED
        BY <2>4, <4>1, <4>2 DEF Hears
    <3>4. batch \in {buf, Append(buf, r)} /\ o \in Nat /\ r[2] = o + 1
      BY <2>2, <2>3
    <3> DEFINE old == buf
    <3>5. Stamped(old, S) /\ Rising(old) /\ old \in Seq(Record) /\ batch \in {old, Append(old, r)}
      BY <3>1, <3>4
    <3>6. SpansGrow(S, T, p, o)
      BY <3>2, <3>3 DEF SpansGrow
    <3> HIDE DEF old, S, T, o, batch
    <3> QED
      BY <2>3, <3>4, <3>5, <3>6, BatchGrows
  <2> HIDE DEF batch
  <2>8. CASE r \notin Poison /\ should_roll(batch)
    <3> DEFINE final == FALSE
    <3>1. Roll(heard, batch, final)
      BY <2>1, <2>8
    <3> HIDE DEF final
    <3> QED
      BY <1>0, <2>6, <2>7, <3>1, RollOrder
  <2>9. CASE ~(r \notin Poison /\ should_roll(batch))
    <3>1. cons' = heard /\ buf' = batch /\ pub' = pub
      BY <2>1, <2>9
    <3>2. HandSpan' = T /\ Hands' = batch
      BY <1>0, <3>1 DEF HandSpan, Hands
    <3>3. HandsInv' /\ NewRowInv'
      BY <1>0, <2>7, <3>1, <3>2 DEF HandsInv, NewRowInv
    <3>4. StockKept
      BY <1>0, <3>1, SameStock DEF StockKept
    <3>5. \A q \in Partition : Aligned(log[q], Evidence(q), cons'[q], HandSpan'[q])
      BY <2>6, <3>1, <3>2
    <3> QED
      BY <1>0, <1>1, <3>3, <3>4, <3>5, NewHands
  <2> QED
    BY <2>8, <2>9
<1> QED
  BY <1>0, <1>6, <1>7

------------------------------------------------------------------------------
(* The publication.                                                        *)

LEMMA PersistOrder ==
    ASSUME KafkaInv, Orderly, Persist PROVE Orderly'
<1>1. /\ UNCHANGED <<log, topic, committed, sent, sess, cons, buf>> /\ pub.phase = "persist"
      /\ pub' = [pub EXCEPT !.phase = "swap"] /\ BrokerInv /\ RowsInv /\ SessionInv /\ HandsInv
  BY DEF Persist, brokerVars, Orderly
<1>2. pub'.phase = "swap" /\ pub'.batch = pub.batch /\ pub'.spans = pub.spans
  BY <1>1 DEF KafkaInv, Typed, SessionTyped
<1>3. HandSpan' = HandSpan /\ Hands' = Hands
  BY <1>1, <1>2 DEF HandSpan, Hands
<1>4. sess.phase = "up"
  BY <1>1, NoPubTyped DEF KafkaInv, ShapeInv
<1>5. /\ sess.cid /\ sess.tid = topic /\ ~sess.recreated
      /\ \A p \in Partition : Aligned(log[p], Evidence(p), cons[p], HandSpan[p])
  BY <1>1, <1>4 DEF SessionInv
<1>6. NewRowInv'
  BY <1>1, <1>2, <1>5, AppendedRow, NewRowTyped DEF NewRowInv
<1>7. HandsInv'
  BY <1>1, <1>3 DEF HandsInv
<1>8. StockKept
  BY AppendedRow DEF StockKept
<1> QED
  BY <1>1, <1>3, <1>5, <1>6, <1>7, <1>8, NewHands

LEMMA SwapFailsOrder ==
    ASSUME KafkaInv, Orderly, SwapFails PROVE Orderly'
<1>1. /\ UNCHANGED <<log, topic, committed, sent, rows, sess, cons, buf>> /\ pub.phase = "swap"
      /\ pub' = [pub EXCEPT !.phase = "rollback"]
      /\ BrokerInv /\ RowsInv /\ SessionInv /\ HandsInv /\ NewRowInv
  BY DEF SwapFails, brokerVars, Orderly
<1>2. pub'.phase = "rollback" /\ pub'.batch = pub.batch /\ pub'.spans = pub.spans
  BY <1>1 DEF KafkaInv, Typed, SessionTyped
<1>3. HandSpan' = HandSpan /\ Hands' = Hands
  BY <1>1, <1>2 DEF HandSpan, Hands
<1>4. NewRowInv' /\ HandsInv'
  BY <1>1, <1>2, <1>3 DEF NewRowInv, HandsInv
<1>5. StockKept
  BY <1>1, <1>2, SameStock DEF StockKept
<1>6. sess'.phase \in {"join", "up"} =>
        /\ sess'.cid /\ sess'.tid = topic /\ ~sess'.recreated
        /\ \A p \in Partition : Aligned(log[p], Evidence(p), cons'[p], HandSpan'[p])
  BY <1>1, <1>3 DEF SessionInv
<1> QED
  BY <1>1, <1>4, <1>5, <1>6, NewHands

\* A pass that leaves the evidence undamaged has forgotten no span.
LEMMA NotStranded ==
    ASSUME NEW cost, NEW lost, NEW cs, TryActivatePendingAfter(cost, lost, cs), ~degraded'
    PROVE  Stranded = {} /\ ~degraded
<1> DEFINE pending == {p \in Partition : Pending(cs[p])}
<1>1. PICK out \in [pending -> Outcome], pauseOk \in BOOLEAN :
         LET misplaced == {p \in pending : Misplaced(p, cs[p], out[p])}
         IN  degraded' = (degraded \/ lost # {} \/ misplaced # {} \/ Stranded # {}
                            \/ \E p \in Partition : cons'[p].astray)
  BY DEF TryActivatePendingAfter
<1> QED
  BY <1>1

\* c is armed: aligned with nothing in its hands.
Armed(l, E, c) ==
    /\ Fits(l, E, c, NoSpan) /\ Aligned(l, E, c, NoSpan) /\ c.span = NoSpan
    /\ c.gate.kind = "active" => c.gate = Active

\* arm_publish_failure_reseek sends a partition back to the end of the rows.
LEMMA ArmedAligned ==
    ASSUME NEW l, NEW E, NEW b, NEW h, Fits(l, E, b, h), Aligned(l, E, b, h), b.span = NoSpan,
           b.gate.kind = "active" => b.gate = Active
    PROVE  /\ b.next # NoOffset =>
                 Armed(l, E, [b EXCEPT !.gate = NeedsSeek(b.next), !.tainted = TRUE])
           /\ h = NoSpan => Armed(l, E, b)
<1>1. b \in Consumer /\ b.next \in Offset /\ b.next <= Len(l.recs) /\ Len(l.recs) \in Nat
  BY LogBounds DEF Fits, Consumer
<1>2. NoSpan.next <= Len(l.recs) /\ NoSpan \in Span
  BY <1>1, NoSpanFields
<1>3. ASSUME b.next # NoOffset
      PROVE  Armed(l, E, [b EXCEPT !.gate = NeedsSeek(b.next), !.tainted = TRUE])
  <2> DEFINE g == NeedsSeek(b.next)
             c == [b EXCEPT !.gate = g, !.tainted = TRUE]
  <2>1. g \in Gate /\ g.kind = "seek" /\ g.at = b.next /\ g # Active
    BY <1>1, Constants DEF Gate, NeedsSeek, Active
  <2> HIDE DEF g
  <2>2. c \in Consumer
    BY <1>1, <2>1 DEF Consumer
  <2>3. /\ c.gate = g /\ c.next = b.next /\ c.span = b.span /\ c.fr = b.fr
        /\ c.recFloor = b.recFloor /\ c.reset = b.reset /\ c.resetFloor = b.resetFloor
    BY <1>1 DEF Consumer
  <2> HIDE DEF c
  <2>4. ~Through(FALSE, c)
    BY <2>1, <2>3 DEF Through
  <2>5. GoesOn(E, c, NoSpan, g.at)
    BY <1>3, <2>1, <2>3 DEF GoesOn, EndOf
  <2>6. Aligned(l, E, c, NoSpan)
    BY <1>1, <1>3, <2>1, <2>3, <2>4, <2>5 DEF Aligned
  <2>7. Fits(l, E, c, NoSpan)
    BY <1>1, <1>2, <2>2, <2>3 DEF Fits
  <2> QED
    BY <2>1, <2>3, <2>6, <2>7 DEF Armed, c, g
<1>4. h = NoSpan => Armed(l, E, b)
  BY DEF Armed
<1> QED
  BY <1>3, <1>4

\* The sink failed and every span it had was sent back.
LEMMA PublishFailedOrder ==
    ASSUME KafkaInv, KafkaInv', Orderly, NEW cost, PublishFailed(cost), pub.phase # "none",
           ~degraded', DOMAIN rows' = SettledRows, \A i \in SettledRows : rows'[i] = rows[i],
           UNCHANGED <<brokerVars, buf>>
    PROVE  Orderly' /\ ~degraded /\ StockKept
<1> DEFINE armed == [p \in Partition |-> arm_publish_failure_reseek(p)]
           lost == {r \in ToSet(pub.batch) : ~Reseekable(r[1])}
<1>1. /\ UNCHANGED <<log, topic, committed>> /\ pub' = NoPub /\ pub'.phase = "none" /\ buf' = <<>>
      /\ sess.phase = "up" /\ sess' = FailedSession(pub.final)
      /\ BrokerInv /\ RowsInv /\ SessionInv /\ HandSpan = pub.spans
  BY NoPubTyped DEF PublishFailed, brokerVars, KafkaInv, ShapeInv, Orderly, HandSpan
<1>2. StockKept
  <2>1. SettledRows' = DOMAIN rows'
    BY <1>1 DEF SettledRows, InStock
  <2> QED
    BY <2>1 DEF StockKept
<1>3. /\ sess'.cid = sess.cid /\ sess'.tid = sess.tid /\ sess'.recreated = sess.recreated
      /\ pub.final => sess'.phase = "stopped"
  BY <1>1 DEF FailedSession, KafkaInv, Typed, SessionTyped
<1>4. CASE pub.final
  <2>1. sent' = sent /\ degraded' = degraded /\ cons' = [p \in Partition |-> IdleCons]
    BY <1>4 DEF PublishFailed
  <2>2. \A p \in Partition : cons'[p].span = NoSpan
    BY <2>1 DEF IdleCons
  <2>3. HandsInv' /\ NewRowInv'
    BY <1>1, <2>2, EmptyHands
  <2> QED
    BY <1>1, <1>2, <1>3, <1>4, <2>1, <2>3, NewHands
<1>5. CASE ~pub.final
  <2>1. TryActivatePendingAfter(cost, lost, armed)
    BY <1>5 DEF PublishFailed
  <2>2. Stranded = {} /\ ~degraded
    <3> HIDE DEF lost, armed
    <3> QED
      BY <2>1, NotStranded
  <2>3. ASSUME NEW p \in Partition
        PROVE  Armed(log[p], Evidence(p), armed[p])
    <3> DEFINE l == log[p]
               E == Evidence(p)
               b == cons[p]
               h == HandSpan[p]
    <3>1. /\ Fits(l, E, b, h) /\ Aligned(l, E, b, h) /\ b.span = NoSpan
          /\ b.gate.kind = "active" => b.gate = Active
      BY <1>1, AllFit DEF SessionInv, KafkaInv, ShapeInv
    <3>2. Reseekable(p) \/ h = NoSpan
      BY <1>1, <2>2 DEF Stranded
    <3>3. armed[p] = IF Reseekable(p) THEN [b EXCEPT !.gate = NeedsSeek(b.next), !.tainted = TRUE]
                     ELSE b
      BY DEF arm_publish_failure_reseek
    <3>4. Reseekable(p) => b.next # NoOffset
      BY DEF Reseekable
    <3> HIDE DEF l, E, b, h
    <3>5. /\ b.next # NoOffset =>
                 Armed(l, E, [b EXCEPT !.gate = NeedsSeek(b.next), !.tainted = TRUE])
          /\ h = NoSpan => Armed(l, E, b)
      BY <3>1, ArmedAligned
    <3> HIDE DEF armed
    <3>6. Armed(l, E, armed[p])
      BY <3>2, <3>3, <3>4, <3>5
    <3> QED
      BY <3>6 DEF l, E
  <2> DEFINE H == [p \in Partition |-> NoSpan]
  <2>4. PassSet(armed, H)
    <3> HIDE DEF armed
    <3> QED
      BY <2>3 DEF PassSet, Armed
  <2>5. BrokerTyped /\ ConsTyped'
    BY DEF KafkaInv, Typed
  <2>6. /\ sent' = sent
        /\ \A p \in Partition :
              Aligned(log[p], Evidence(p), cons'[p], H[p]) /\ cons'[p].span = armed[p].span
    <3> HIDE DEF lost, armed, H
    <3> QED
      BY <1>1, <2>1, <2>4, <2>5, PassAligned
  <2> HIDE DEF armed
  <2>7. \A p \in Partition : cons'[p].span = NoSpan
    BY <2>3, <2>6 DEF Armed
  <2>8. HandsInv' /\ NewRowInv' /\ \A p \in Partition : HandSpan'[p] = NoSpan
    BY <1>1, <2>7, EmptyHands
  <2>9. \A p \in Partition : Aligned(log[p], Evidence(p), cons'[p], HandSpan'[p])
    BY <2>6, <2>8
  <2>10. sess'.cid /\ sess'.tid = topic /\ ~sess'.recreated
    BY <1>1, <1>3 DEF SessionInv
  <2> QED
    BY <1>1, <1>2, <2>2, <2>6, <2>8, <2>9, <2>10, NewHands
<1> QED
  BY <1>4, <1>5

LEMMA PersistFailsOrder ==
    ASSUME KafkaInv, KafkaInv', Orderly, PersistFails, ~degraded'
    PROVE  Orderly' /\ ~degraded /\ StockKept
<1> DEFINE cost == 1
<1>1. pub.phase # "none" /\ PublishFailed(cost) /\ rows' = rows /\ UNCHANGED <<brokerVars, buf>>
  BY DEF PersistFails
<1>2. DOMAIN rows' = SettledRows
  BY <1>1 DEF SettledRows, InStock, PersistFails
<1> HIDE DEF cost
<1> QED
  BY <1>1, <1>2, PublishFailedOrder

LEMMA RollbackOrder ==
    ASSUME KafkaInv, KafkaInv', Orderly, Rollback, ~degraded'
    PROVE  Orderly' /\ ~degraded /\ StockKept
<1> DEFINE cost == 0
<1>1. pub.phase # "none" /\ PublishFailed(cost) /\ UNCHANGED <<brokerVars, buf>>
  BY DEF Rollback
<1>2. DOMAIN rows' = SettledRows /\ \A i \in SettledRows : rows'[i] = rows[i]
  BY RemovedRow
<1> HIDE DEF cost
<1> QED
  BY <1>1, <1>2, PublishFailedOrder

\* The evidence E once the span h in hand is in a row of its own.
WithHand(E, h) == IF h = NoSpan THEN E ELSE E \cup {h}

\* The partition c after commit_contiguous for the span h.
Extended(c, h) == IF Extends(c, h) THEN [c EXCEPT !.next = h.next] ELSE c

\* A span that goes on where the evidence ends leaves no hole.
LEMMA SolidGrows ==
    ASSUME NEW E, E \subseteq Span, NEW h \in Span, Solid(E), E # {} => TopIs(E, h.start)
    PROVE  Solid(E \cup {h})
<1> SUFFICES ASSUME NEW s \in E \cup {h}, NEW t \in E \cup {h}, NEW o \in s.start .. (t.next - 1)
             PROVE  \E u \in E \cup {h} : o \in Covered(u)
  BY DEF Solid
<1>1. s \in Span /\ t \in Span /\ o \in Int /\ s.start <= o /\ o < t.next
  BY SpanFields
<1>2. CASE h.start <= o /\ o < h.next
  BY <1>1, <1>2, SpanFields
<1>3. CASE o < h.start
  <2>1. s \in E
    BY <1>1, <1>3, SpanFields
  <2>2. PICK v \in E : v.next = h.start
    BY <2>1 DEF TopIs
  <2>3. o \in s.start .. (v.next - 1)
    BY <1>1, <1>3, <2>2, SpanFields
  <2> QED
    BY <2>1, <2>2, <2>3 DEF Solid
<1>4. CASE h.next <= o
  <2>1. t \in E
    BY <1>1, <1>4, SpanFields
  <2>2. CASE s \in E
    BY <2>1, <2>2 DEF Solid
  <2>3. CASE s = h
    <3>1. t.next <= h.start
      BY <2>1 DEF TopIs
    <3> QED
      BY <1>1, <2>3, <3>1, SpanFields
  <2> QED
    BY <2>2, <2>3
<1>5. h.start \in Int /\ h.next \in Int
  BY SpanFields
<1> QED
  BY <1>1, <1>2, <1>3, <1>4, <1>5

\* The evidence stays sound, also under the commit the span gives rise to.
LEMMA HandSound ==
    ASSUME NEW l, NEW E, NEW c, NEW h, Fits(l, E, c, h), Aligned(l, E, c, h),
           NEW com, NEW snt, Sound(l, E, com, snt), NEW x, x = snt \/ (h # NoSpan /\ x = h.next)
    PROVE  Sound(l, WithHand(E, h), com, x)
<1>1. CASE h = NoSpan
  BY <1>1 DEF WithHand
<1>2. CASE h # NoSpan
  <2> DEFINE F == E \cup {h}
  <2>1. /\ E \subseteq Span /\ h \in Span /\ h.start \in Int /\ h.next \in Int /\ l.low \in Nat
        /\ h.start < h.next /\ h.start = c.next /\ l.low <= h.start
        /\ (E # {} => TopIs(E, h.start))
    BY <1>2, LogBounds, SpanFields DEF Fits, Aligned
  <2>2. Solid(F)
    BY <2>1, SolidGrows DEF Sound
  <2>3. 0 <= h.start /\ l.low <= h.next /\ h.start <= h.next
    BY <2>1
  <2>4. \A s \in F : 0 <= s.start /\ s.start < s.next
    BY <2>1, <2>3 DEF Sound
  <2>5. Within(l, F)
    BY <2>3 DEF Within
  <2>6. com # NoOffset => \E s \in F : s.start <= com
    BY DEF Sound
  <2>7. x # NoOffset => \E s \in F : s.start <= x
    BY <2>3 DEF Sound
  <2> QED
    BY <1>2, <2>2, <2>4, <2>5, <2>6, <2>7 DEF Sound, WithHand
<1> QED
  BY <1>1, <1>2

\* commit_contiguous keeps a partition aligned.
LEMMA ExtendedAligned ==
    ASSUME NEW l, NEW E, NEW c, NEW h, Fits(l, E, c, h), Aligned(l, E, c, h), c.span = NoSpan
    PROVE  /\ Aligned(l, WithHand(E, h), Extended(c, h), NoSpan)
           /\ Extended(c, h).span = NoSpan
           /\ Extends(c, h) <=> h # NoSpan
<1>1. CASE h = NoSpan
  BY <1>1 DEF WithHand, Extended, Extends
<1>2. CASE h # NoSpan
  <2> DEFINE x == h.next
             e == [c EXCEPT !.next = x]
             F == E \cup {h}
  <2>1. /\ c \in Consumer /\ E \subseteq Span /\ h \in Span /\ h.start \in Int /\ x \in Int
        /\ l.low \in Nat /\ x \in Offset /\ c.next \in Int
        /\ h.start < x /\ h.start = c.next /\ l.low <= h.start /\ c.next # NoOffset
        /\ (E # {} => TopIs(E, h.start))
    BY <1>2, LogBounds, SpanFields DEF Fits, Aligned
  <2>2. Extends(c, h)
    BY <1>2, <2>1 DEF Extends
  <2>3. Extended(c, h) = e /\ WithHand(E, h) = F
    BY <1>2, <2>2 DEF Extended, WithHand
  <2>4. x # NoOffset /\ l.low <= x
    BY <2>1, Constants
  <2>5. TopIs(F, x)
    <3>1. \A s \in E : s.next <= h.start /\ s.next \in Int
      BY <2>1, SpanFields DEF TopIs
    <3> QED
      BY <2>1, <3>1 DEF TopIs
  <2>6. EndOf(c, h) = x
    BY <1>2 DEF EndOf
  <2> HIDE DEF x, F
  <2>7. e \in Consumer
    BY <2>1 DEF Consumer
  <2>8. /\ e.next = x /\ e.span = NoSpan /\ e.fr = c.fr /\ e.gate = c.gate /\ e.pos = c.pos
        /\ e.assigned = c.assigned /\ e.notice = c.notice
        /\ e.recFloor = c.recFloor /\ e.reset = c.reset /\ e.resetFloor = c.resetFloor
    BY <2>1 DEF Consumer
  <2> HIDE DEF e
  <2>9. SafeFloor(e) # NoOffset
    BY <2>4, <2>7, <2>8, FloorOf
  <2>10. Through(FALSE, e) => Through(FALSE, c)
    BY <2>8, <2>9 DEF Through
  <2>11. EndOf(e, NoSpan) = x
    BY <2>8 DEF EndOf
  <2>12. \A y : GoesOn(E, c, h, y) => GoesOn(F, e, NoSpan, y)
    BY <2>1, <2>4, <2>6, <2>8, <2>11 DEF GoesOn
  <2>13. Aligned(l, F, e, NoSpan)
    BY <2>1, <2>4, <2>5, <2>6, <2>8, <2>10, <2>11, <2>12 DEF Aligned
  <2> QED
    BY <1>2, <2>2, <2>3, <2>8, <2>13
<1> QED
  BY <1>1, <1>2

\* The row of a publication that is over has been there all along.
LEMMA RowsStill ==
    ASSUME KafkaInv, RowsInv, SameStamps, topic' = topic, pub'.phase = "none",
           pub.phase \notin {"swap", "rollback"}
    PROVE  /\ RowsInv' /\ NewRowInv' /\ SettledRows' = SettledRows
           /\ \A p \in Partition : Evidence(p)' = Evidence(p)
<1>1. SettledRows = DOMAIN rows /\ SettledRows' = DOMAIN rows
  BY Settles DEF SameStamps, SettledRows, InStock
<1>2. \A i \in DOMAIN rows : /\ rows'[i].recs = rows[i].recs /\ rows'[i].span = rows[i].span
                             /\ rows'[i].cid = rows[i].cid /\ rows'[i].tid = rows[i].tid
                             /\ rows'[i].blob = rows[i].blob
  BY DEF SameStamps, SameRows
<1>3. RowsInv'
  BY <1>1, <1>2 DEF RowsInv, Row1
<1>4. \A p \in Partition : Evidence(p)' = Evidence(p)
  BY <1>1, <1>2 DEF Evidence
<1> QED
  BY <1>1, <1>3, <1>4 DEF NewRowInv

\* The new row stays: its spans go on where those of the other rows end.
LEMMA RowSettles ==
    ASSUME KafkaInv, Orderly, SameStamps, topic' = topic, pub'.phase = "none",
           pub.phase \in {"swap", "rollback"}
    PROVE  /\ RowsInv' /\ NewRowInv' /\ SettledRows' = SettledRows \cup {Len(rows)}
           /\ \A p \in Partition : Evidence(p)' = WithHand(Evidence(p), HandSpan[p])
<1> DEFINE n == Len(rows)
<1>1. /\ rows # <<>> /\ rows[n].recs = pub.batch /\ sess.phase = "up"
      /\ HandSpan = pub.spans /\ Hands = pub.batch
  BY NoPubTyped DEF KafkaInv, ShapeInv, HandSpan, Hands
<1>2. /\ RowsInv /\ rows[n].cid /\ rows[n].tid = topic /\ rows[n].blob /\ rows[n].span = pub.spans
      /\ Stamped(pub.batch, pub.spans) /\ Rising(pub.batch)
      /\ \A p \in Partition : Aligned(log[p], Evidence(p), cons[p], HandSpan[p])
  BY <1>1 DEF Orderly, NewRowInv, HandsInv, SessionInv
<1>3. n \in Nat /\ n \in DOMAIN rows /\ DOMAIN rows = 1 .. n
  BY <1>1, RowsDomain
<1>4. SettledRows' = DOMAIN rows
  BY Settles DEF SameStamps
<1> HIDE DEF n
<1>5. \A i \in DOMAIN rows : i \in SettledRows <=> i # n
  BY DEF SettledRows, InStock, n
<1>6. \A i \in DOMAIN rows : /\ rows'[i].recs = rows[i].recs /\ rows'[i].span = rows[i].span
                             /\ rows'[i].cid = rows[i].cid /\ rows'[i].tid = rows[i].tid
                             /\ rows'[i].blob = rows[i].blob
  BY DEF SameStamps, SameRows
<1>7. SettledRows' = SettledRows \cup {n}
  BY <1>3, <1>4, <1>5 DEF SettledRows
<1>8. ASSUME NEW p \in Partition PROVE Evidence(p)' = WithHand(Evidence(p), HandSpan[p])
  <2>1. \A i \in SettledRows : rows'[i].span[p] = rows[i].span[p]
    BY <1>6 DEF SettledRows
  <2>2. rows'[n].span[p] = HandSpan[p]
    BY <1>1, <1>2, <1>3, <1>6
  <2>3. Evidence(p)' = {rows'[i].span[p] : i \in SettledRows \cup {n}} \ {NoSpan}
    BY <1>7 DEF Evidence
  <2>4. Evidence(p) = {rows[i].span[p] : i \in SettledRows} \ {NoSpan}
    BY DEF Evidence
  <2>5. {rows'[i].span[p] : i \in SettledRows \cup {n}}
          = {rows[i].span[p] : i \in SettledRows} \cup {HandSpan[p]}
    BY <2>1, <2>2
  <2> QED
    BY <2>3, <2>4, <2>5 DEF WithHand
<1>9. \A i \in SettledRows' : Row1(rows[i])
  <2>1. Row1(rows[n])
    BY <1>1, <1>2 DEF Row1
  <2> QED
    BY <1>2, <1>7, <2>1 DEF RowsInv
<1>10. ASSUME NEW i \in SettledRows', NEW j \in SettledRows', NEW p \in Partition,
              i < j, rows[i].span[p] # NoSpan, rows[j].span[p] # NoSpan
       PROVE  rows[i].span[p].next <= rows[j].span[p].start
  <2>1. i \in SettledRows /\ i \in DOMAIN rows
    BY <1>3, <1>4, <1>5, <1>10
  <2>2. CASE j \in SettledRows
    BY <1>2, <1>10, <2>1, <2>2 DEF RowsInv
  <2>3. CASE j = n
    <3>1. rows[i].span[p] \in Evidence(p)
      BY <1>10, <2>1 DEF Evidence
    <3>2. HandSpan[p] = rows[j].span[p] /\ HandSpan[p] # NoSpan
      BY <1>1, <1>2, <1>10, <2>3
    <3>3. /\ HandSpan[p].start = cons[p].next /\ cons[p].next # NoOffset
          /\ TopIs(Evidence(p), cons[p].next)
      BY <1>2, <3>1, <3>2 DEF Aligned
    <3> QED
      BY <3>1, <3>2, <3>3 DEF TopIs
  <2> QED
    BY <1>7, <2>2, <2>3
<1>11. RowsInv'
  <2>1. \A i \in SettledRows' : Row1(rows[i])'
    BY <1>4, <1>6, <1>9 DEF Row1
  <2> QED
    BY <1>4, <1>6, <1>10, <2>1 DEF RowsInv
<1> QED
  BY <1>7, <1>8, <1>11 DEF NewRowInv, n

LEMMA PublishedOrder ==
    ASSUME KafkaInv, Orderly, SameStamps, Published, pub.phase \in {"swap", "rollback"},
           UNCHANGED <<brokerVars, buf>>
    PROVE  Orderly'
<1>1. /\ UNCHANGED <<log, topic, committed>> /\ pub'.phase = "none" /\ buf' = <<>>
      /\ sess.phase = "up" /\ BrokerInv /\ SessionInv /\ HandSpan = pub.spans
  BY NoPubTyped DEF Published, brokerVars, KafkaInv, ShapeInv, Orderly, HandSpan
<1>2. /\ sent' = [p \in Partition |-> IF Extends(cons[p], pub.spans[p]) THEN pub.spans[p].next
                                      ELSE sent[p]]
      /\ cons' = [p \in Partition |-> IF pub.final THEN IdleCons
                                      ELSE Extended(cons[p], pub.spans[p])]
      /\ sess' = IF pub.final THEN [sess EXCEPT !.phase = "stopped"] ELSE sess
  BY DEF Published, Extended
<1>3. /\ RowsInv' /\ NewRowInv'
      /\ \A p \in Partition : Evidence(p)' = WithHand(Evidence(p), HandSpan[p])
  BY <1>1, RowSettles
<1>4. ASSUME NEW p \in Partition
      PROVE  /\ Sound(log[p], WithHand(Evidence(p), HandSpan[p]), committed[p], sent'[p])
             /\ Aligned(log[p], WithHand(Evidence(p), HandSpan[p]),
                        Extended(cons[p], HandSpan[p]), NoSpan)
             /\ Extended(cons[p], HandSpan[p]).span = NoSpan
  <2> DEFINE l == log[p]
             E == Evidence(p)
             c == cons[p]
             h == HandSpan[p]
             com == committed[p]
             snt == sent[p]
             x == sent'[p]
  <2>1. /\ Fits(l, E, c, h) /\ Aligned(l, E, c, h) /\ c.span = NoSpan /\ Sound(l, E, com, snt)
    BY <1>1, AllFit DEF SessionInv, BrokerInv, KafkaInv, ShapeInv
  <2>2. x = IF Extends(c, h) THEN h.next ELSE snt
    BY <1>1, <1>2
  <2> HIDE DEF l, E, c, h, com, snt, x
  <2>3. /\ Aligned(l, WithHand(E, h), Extended(c, h), NoSpan)
        /\ Extended(c, h).span = NoSpan /\ (Extends(c, h) <=> h # NoSpan)
    BY <2>1, ExtendedAligned
  <2>4. Sound(l, WithHand(E, h), com, x)
    BY <2>1, <2>2, <2>3, HandSound
  <2> QED
    BY <2>3, <2>4 DEF l, E, c, h, com, snt, x
<1>5. BrokerInv'
  <2> SUFFICES ASSUME NEW p \in Partition
               PROVE  /\ Plain(log'[p])
                      /\ Sound(log'[p], Evidence(p)', committed'[p], sent'[p])
    BY DEF BrokerInv
  <2> QED
    BY <1>1, <1>3, <1>4 DEF BrokerInv
<1>6. \A p \in Partition : cons'[p].span = NoSpan
  <2>1. IdleCons.span = NoSpan
    BY DEF IdleCons
  <2> QED
    BY <1>1, <1>2, <1>4, <2>1
<1>7. HandsInv' /\ \A p \in Partition : HandSpan'[p] = NoSpan
  BY <1>1, <1>6, EmptyHands
<1>8. SessionInv'
  <2>1. CASE pub.final
    <3>1. sess'.phase = "stopped"
      BY <1>2, <2>1 DEF KafkaInv, Typed, SessionTyped
    <3> QED
      BY <3>1 DEF SessionInv
  <2>2. CASE ~pub.final
    <3>1. sess' = sess /\ \A p \in Partition : cons'[p] = Extended(cons[p], HandSpan[p])
      BY <1>1, <1>2, <2>2
    <3>2. \A p \in Partition : Aligned(log'[p], Evidence(p)', cons'[p], HandSpan'[p])
      BY <1>1, <1>3, <1>4, <1>7, <3>1
    <3> QED
      BY <1>1, <3>1, <3>2 DEF SessionInv
  <2> QED
    BY <2>1, <2>2
<1> QED
  BY <1>3, <1>5, <1>7, <1>8 DEF Orderly

LEMMA SwapOrder ==
    ASSUME KafkaInv, Orderly, Swap PROVE Orderly'
<1>1. pub.phase = "swap" /\ Published /\ UNCHANGED <<brokerVars, buf>>
  BY DEF Swap
<1> QED
  BY <1>1, SwappedRow, PublishedOrder

LEMMA RollbackFailsOrder ==
    ASSUME KafkaInv, Orderly, RollbackFails PROVE Orderly'
<1>1. pub.phase = "rollback" /\ Published /\ UNCHANGED <<brokerVars, buf>> /\ rows' = rows
  BY DEF RollbackFails
<1>2. SameStamps
  BY <1>1, RowsDomain DEF SameStamps, SameRows
<1> QED
  BY <1>1, <1>2, PublishedOrder

LEMMA CrashOrder ==
    ASSUME KafkaInv, Orderly, Crash PROVE Orderly'
<1>1. /\ UNCHANGED <<log, topic, committed, sent>> /\ pub'.phase = "none" /\ buf' = <<>>
      /\ cons' = [p \in Partition |-> IdleCons] /\ BrokerInv /\ SessionInv /\ RowsInv
      /\ sess' = [sess EXCEPT !.phase = "down"]
  BY NoPubTyped DEF Crash, brokerVars, Orderly
<1>2. sess'.phase = "down"
  BY <1>1 DEF KafkaInv, Typed, SessionTyped
<1>3. SameStamps
  BY LoadedRows
<1>4. \A p \in Partition : cons'[p].span = NoSpan
  BY <1>1 DEF IdleCons
<1>5. HandsInv' /\ SessionInv'
  BY <1>1, <1>2, <1>4, EmptyHands DEF SessionInv
<1>6. RowsInv' /\ NewRowInv' /\ BrokerInv'
  <2>1. CASE pub.phase \notin {"swap", "rollback"}
    <3>1. RowsInv' /\ NewRowInv' /\ \A p \in Partition : Evidence(p)' = Evidence(p)
      BY <1>1, <1>3, <2>1, RowsStill
    <3> QED
      BY <1>1, <3>1 DEF BrokerInv
  <2>2. CASE pub.phase \in {"swap", "rollback"}
    <3>1. /\ RowsInv' /\ NewRowInv'
          /\ \A p \in Partition : Evidence(p)' = WithHand(Evidence(p), HandSpan[p])
      BY <1>1, <1>3, <2>2, RowSettles
    <3>2. sess.phase = "up"
      BY <2>2, NoPubTyped DEF KafkaInv, ShapeInv
    <3>3. ASSUME NEW p \in Partition
          PROVE  Sound(log[p], WithHand(Evidence(p), HandSpan[p]), committed[p], sent[p])
      <4> DEFINE l == log[p]
                 E == Evidence(p)
                 c == cons[p]
                 h == HandSpan[p]
                 com == committed[p]
                 snt == sent[p]
      <4>1. /\ Fits(l, E, c, h) /\ Aligned(l, E, c, h) /\ Sound(l, E, com, snt)
        BY <1>1, <3>2, AllFit DEF SessionInv, BrokerInv
      <4> HIDE DEF l, E, c, h, com, snt
      <4>2. Sound(l, WithHand(E, h), com, snt)
        BY <4>1, HandSound
      <4> QED
        BY <4>2 DEF l, E, c, h, com, snt
    <3>4. BrokerInv'
      <4> SUFFICES ASSUME NEW p \in Partition
                   PROVE  /\ Plain(log'[p])
                          /\ Sound(log'[p], Evidence(p)', committed'[p], sent'[p])
        BY DEF BrokerInv
      <4> QED
        BY <1>1, <3>1, <3>3 DEF BrokerInv
    <3> QED
      BY <3>1, <3>4
  <2> QED
    BY <2>1, <2>2
<1> QED
  BY <1>5, <1>6 DEF Orderly

------------------------------------------------------------------------------
(* The invariant.                                                          *)

LEMMA InitOrder ==
    Init => OrderInv
<1> SUFFICES ASSUME Init PROVE Orderly
  BY DEF OrderInv
<1>1. /\ committed = [p \in Partition |-> NoOffset] /\ sent = [p \in Partition |-> NoOffset]
      /\ rows = <<>> /\ cons = [p \in Partition |-> IdleCons] /\ buf = <<>> /\ pub = NoPub
      /\ sess.phase = "down" /\ pub.phase = "none"
  BY NoPubTyped DEF Init
<1> DEFINE l == [low |-> 0, recs |-> <<>>, born |-> 0, epoch |-> 1, cut |-> 0]
<1>2. Plain(l)
  BY DEF Plain
<1>3. log = [p \in Partition |-> l]
  BY DEF Init
<1> HIDE DEF l
<1>4. SettledRows = {} /\ \A p \in Partition : Evidence(p) = {}
  BY <1>1 DEF SettledRows, Evidence
<1>5. \A p \in Partition : Sound(log[p], {}, committed[p], sent[p])
  BY <1>1 DEF Sound, Solid, Within
<1>6. BrokerInv
  BY <1>2, <1>3, <1>4, <1>5 DEF BrokerInv
<1>7. SessionInv /\ RowsInv /\ NewRowInv
  BY <1>1, <1>4 DEF SessionInv, RowsInv, NewRowInv
<1>8. HandsInv
  <2>1. Hands = <<>> /\ DOMAIN <<>> = {}
    BY <1>1 DEF Hands
  <2> QED
    BY <2>1 DEF HandsInv, Stamped, Rising
<1> QED
  BY <1>6, <1>7, <1>8 DEF Orderly

\* Damaged evidence stays damaged.
LEMMA DegradedStays ==
    ASSUME KafkaInv, [Next]_vars, ~degraded'
    PROVE  ~degraded
<1>1. ASSUME NEW cs, TryActivatePending(cs) PROVE ~degraded
  <2> DEFINE cost == 0
             lost == {}
  <2>1. TryActivatePendingAfter(cost, lost, cs)
    BY <1>1 DEF TryActivatePending
  <2> HIDE DEF cost, lost
  <2> QED
    BY <2>1, NotStranded
<1>2. ASSUME NEW cost, PublishFailed(cost) PROVE ~degraded
  <2> DEFINE armed == [p \in Partition |-> arm_publish_failure_reseek(p)]
             lost == {r \in ToSet(pub.batch) : ~Reseekable(r[1])}
  <2>1. degraded' = degraded \/ degraded' = TRUE \/ TryActivatePendingAfter(cost, lost, armed)
    BY <1>2 DEF PublishFailed
  <2> HIDE DEF armed, lost
  <2> QED
    BY <2>1, NotStranded
<1>3. CASE \E cid \in BOOLEAN, probe \in {"agreed", "unresolved", "disagreed"} : Start(cid, probe)
  BY <1>3 DEF Start
<1>4. CASE \E dropped \in SUBSET Partition : Join(dropped)
  <2>1. PICK dropped \in SUBSET Partition : Join(dropped)
    BY <1>4
  <2> DEFINE cs == [p \in Partition |-> JoinedCons(p, cons[p].fr, sess.recreated, dropped)]
  <2>2. TryActivatePending(cs)
    BY <2>1 DEF Join
  <2> HIDE DEF cs
  <2> QED
    BY <2>2, <1>1
<1>5. CASE SeekRetryTick
  <2> DEFINE cs == [p \in Partition |-> Drained(cons[p])]
  <2>1. TryActivatePending(cs)
    BY <1>5 DEF SeekRetryTick
  <2> HIDE DEF cs
  <2> QED
    BY <2>1, <1>1
<1>6. CASE PublishStep
  BY <1>2, <1>6 DEF PublishStep, Persist, PersistFails, Swap, SwapFails, Rollback, RollbackFails,
                    historyVars
<1>7. CASE BrokerStep
  BY <1>7 DEF BrokerStep, Produce, Retain, ResetPosition, LandCommit, LoseCommit, Truncate,
              Recreate, LoseBlob, historyVars
<1>8. CASE \/ JoinTimesOut \/ FlushTick \/ Revoke \/ Assign \/ Crash
           \/ \E p \in Partition : Deliver(p)
           \/ \E fatal \in BOOLEAN : Stop(fatal)
           \/ UNCHANGED vars
  BY <1>8 DEF JoinTimesOut, FlushTick, Revoke, Assign, Crash, Deliver, Stop, vars, historyVars
<1> QED
  BY <1>3, <1>4, <1>5, <1>6, <1>7, <1>8 DEF Next

LEMMA OrderStep ==
    ASSUME KafkaInv, KafkaInv', OrderInv, [Next]_vars
    PROVE  OrderInv'
<1> SUFFICES ASSUME ~degraded' PROVE Orderly'
  BY DEF OrderInv
<1>0. Orderly
  BY DegradedStays DEF OrderInv
<1>1. CASE \E cid \in BOOLEAN, probe \in {"agreed", "unresolved", "disagreed"} : Start(cid, probe)
  BY <1>0, <1>1, StartOrder
<1>2. CASE \E dropped \in SUBSET Partition : Join(dropped)
  BY <1>0, <1>2, JoinOrder
<1>3. CASE JoinTimesOut
  BY <1>0, <1>3, JoinTimesOutOrder
<1>4. CASE \E p \in Partition : Deliver(p)
  BY <1>0, <1>4, DeliverOrder
<1>5. CASE SeekRetryTick
  BY <1>0, <1>5, SeekRetryTickOrder
<1>6. CASE FlushTick
  BY <1>0, <1>6, FlushTickOrder
<1>7. CASE \E fatal \in BOOLEAN : Stop(fatal)
  BY <1>0, <1>7, StopOrder
<1>8. CASE PublishStep
  BY <1>0, <1>8, PersistOrder, PersistFailsOrder, SwapOrder, SwapFailsOrder, RollbackOrder,
     RollbackFailsOrder DEF PublishStep
<1>9. CASE Revoke
  BY <1>0, <1>9, RevokeOrder
<1>10. CASE Assign
  BY <1>0, <1>10, AssignOrder
<1>11. CASE Crash
  BY <1>0, <1>11, CrashOrder
<1>12. CASE \E p \in Partition : Produce(p) \/ Retain(p) \/ ResetPosition(p)
  BY <1>0, <1>12, ProduceOrder, RetainOrder, ResetPositionOrder
<1>13. CASE \E p \in Partition : LandCommit(p) \/ LoseCommit(p)
  BY <1>0, <1>13, CommitOrder
<1>14. CASE \/ \E p \in Partition, keep \in 0 .. MaxRecords : Truncate(p, keep)
            \/ Recreate
            \/ \E i \in DOMAIN rows : LoseBlob(i)
  BY <1>14 DEF Truncate, Recreate, LoseBlob
<1>15. CASE UNCHANGED vars
  <2>1. UNCHANGED <<log, topic, committed, sent, rows, buf, pub, sess, cons>> /\ SessionInv
    BY <1>0, <1>15 DEF vars, brokerVars, Orderly
  <2>2. sess'.phase \in {"join", "up"} =>
          /\ sess'.cid /\ sess'.tid = topic /\ ~sess'.recreated
          /\ \A p \in Partition : Aligned(log[p], Evidence(p), cons'[p], HandSpan[p])
    BY <2>1 DEF SessionInv
  <2> QED
    BY <1>0, <2>1, <2>2, SessionMoves
<1> QED
  BY <1>1, <1>2, <1>3, <1>4, <1>5, <1>6, <1>7, <1>8, <1>9, <1>10, <1>11, <1>12, <1>13, <1>14, <1>15
     DEF Next, BrokerStep

\* As long as the evidence is not damaged, what a session remembers of a
\* partition (the contiguous frontier, the gate's target, the position it reads
\* at) is exactly the end of what the group has published or has in its hands.
THEOREM OrderInvHolds == Spec => []OrderInv
<1>1. Init => OrderInv
  BY InitOrder
<1>2. KafkaInv /\ KafkaInv' /\ OrderInv /\ [Next]_vars => OrderInv'
  BY OrderStep
<1> QED
  BY <1>1, <1>2, KafkaInvHolds, PTL DEF Spec

------------------------------------------------------------------------------
(* The refinement.                                                         *)

LEMMA PrefixOf ==
    ASSUME NEW S, NEW s \in Seq(S), NEW t \in Seq(S), Len(s) <= Len(t),
           \A i \in 1 .. Len(s) : s[i] = t[i]
    PROVE  Delivery!IsPrefix(s, t)
<1>1. Len(s) \in Nat /\ Len(t) \in Nat
  OBVIOUS
<1>2. \A i \in 1 .. Len(s) : s[i] \in S /\ t[i] \in S
  BY <1>1, ElementOfSeq
<1>3. SubSeq(s, 1, Len(s)) = SubSeq(t, 1, Len(s))
  <2> DEFINE m == Len(s)
             a == SubSeq(s, 1, m)
             b == SubSeq(t, 1, m)
  <2>1. /\ a \in Seq(S) /\ b \in Seq(S) /\ Len(a) = m /\ Len(b) = m
        /\ \A i \in 1 .. m : a[i] = s[i] /\ b[i] = t[i]
    <3>1. \A i \in 1 .. m : s[i] \in S /\ t[i] \in S
      BY <1>2
    <3>2. /\ a \in Seq(S) /\ Len(a) = IF 1 <= m THEN m - 1 + 1 ELSE 0
          /\ \A i \in 1 .. m - 1 + 1 : a[i] = s[1 + i - 1]
      BY <1>1, <3>1, SubSeqProperties
    <3>3. /\ b \in Seq(S) /\ Len(b) = IF 1 <= m THEN m - 1 + 1 ELSE 0
          /\ \A i \in 1 .. m - 1 + 1 : b[i] = t[1 + i - 1]
      BY <1>1, <3>1, SubSeqProperties
    <3> HIDE DEF a, b
    <3> QED
      BY <1>1, <3>2, <3>3
  <2>2. \A i \in 1 .. Len(a) : a[i] = b[i]
    BY <2>1
  <2> HIDE DEF a, b
  <2>3. a = b
    BY <2>1, <2>2, SeqEqual
  <2> QED
    BY <2>3 DEF a, b
<1> QED
  BY <1>3 DEF Delivery!IsPrefix

\* The rows that stay, as a sequence of batches.
StreamOK ==
    /\ PublishedStream \in Seq(Seq(Record)) /\ DOMAIN PublishedStream = SettledRows
    /\ SettledRows = 1 .. Len(PublishedStream)
    /\ \A i \in SettledRows : PublishedStream[i] = rows[i].recs

LEMMA StreamIs ==
    KafkaInv => StreamOK
<1> SUFFICES ASSUME KafkaInv PROVE StreamOK
  OBVIOUS
<1>1. \E m \in Nat : SettledRows = 1 .. m
  <2>1. CASE pub.phase \in {"swap", "rollback"}
    <3>1. rows # <<>> /\ Len(rows) \in Nat \ {0}
      BY <2>1, RowsDomain, EmptySeq DEF KafkaInv, ShapeInv
    <3>2. SettledRows = {i \in 1 .. Len(rows) : i # Len(rows)}
      BY <2>1, RowsDomain DEF SettledRows, InStock
    <3>3. SettledRows = 1 .. (Len(rows) - 1) /\ Len(rows) - 1 \in Nat
      BY <3>1, <3>2
    <3> QED
      BY <3>3
  <2>2. CASE pub.phase \notin {"swap", "rollback"}
    BY <2>2, RowsDomain DEF SettledRows, InStock
  <2> QED
    BY <2>1, <2>2
<1>2. PICK m \in Nat : SettledRows = 1 .. m
  BY <1>1
<1>3. \A i \in SettledRows : rows[i].recs \in Seq(Record)
  BY RowsDomain DEF SettledRows, Row
<1>4. PublishedStream \in [1 .. m -> Seq(Record)]
  BY <1>2, <1>3 DEF PublishedStream
<1>5. PublishedStream \in Seq(Seq(Record))
  BY <1>4, SeqDef
<1>6. DOMAIN PublishedStream = 1 .. Len(PublishedStream)
  BY <1>5, LenProperties
<1> QED
  BY <1>2, <1>4, <1>5, <1>6 DEF PublishedStream, StreamOK

\* Undamaged rows hold each record once and in order.
LEMMA StreamInOrder ==
    KafkaInv /\ Orderly => Delivery!InOrderOnce(PublishedStream)
<1> SUFFICES ASSUME KafkaInv, Orderly PROVE Delivery!InOrderOnce(PublishedStream)
  OBVIOUS
<1> DEFINE s == PublishedStream
<1>1. DOMAIN s = SettledRows /\ \A i \in SettledRows : s[i] = rows[i].recs
  BY StreamIs DEF StreamOK
<1> SUFFICES ASSUME NEW i \in SettledRows, NEW j \in SettledRows,
                    NEW k \in DOMAIN rows[i].recs, NEW m \in DOMAIN rows[j].recs,
                    i < j \/ (i = j /\ k < m), rows[i].recs[k][1] = rows[j].recs[m][1]
             PROVE  rows[i].recs[k][2] < rows[j].recs[m][2]
  BY <1>1 DEF Delivery!InOrderOnce, Delivery!Before
<1> DEFINE a == rows[i].recs[k]
           b == rows[j].recs[m]
           p == a[1]
           s1 == rows[i].span[p]
           s2 == rows[j].span[p]
<1>2. RowsInv /\ rows[i] \in Row /\ rows[j] \in Row
  BY RowsDomain DEF Orderly, SettledRows
<1>3. a \in Record /\ b \in Record
  BY <1>2, ElementOfSeq DEF Row
<1>4. p \in Partition /\ a[2] \in Int /\ b[2] \in Int /\ s1 \in Span /\ s2 \in Span
  <2>1. p \in Partition /\ a[2] \in Int /\ b[2] \in Int
    <3> HIDE DEF a, b
    <3> QED
      BY <1>3, Constants DEF Record
  <2>2. rows[i].span \in [Partition -> Span] /\ rows[j].span \in [Partition -> Span]
    BY <1>2 DEF Row
  <2> HIDE DEF p
  <2> QED
    BY <2>1, <2>2
<1>5. CASE i = j /\ k < m
  BY <1>2, <1>5 DEF RowsInv, Row1, Rising
<1>6. CASE i < j
  <2>1. a[2] - 1 \in Covered(s1) /\ b[2] - 1 \in Covered(s2)
    BY <1>2 DEF RowsInv, Row1, Stamped
  <2>2. s1 # NoSpan /\ s2 # NoSpan
    BY <2>1, NoSpanFields
  <2>3. s1.next <= s2.start
    BY <1>2, <1>4, <1>6, <2>2 DEF RowsInv
  <2>4. a[2] - 1 < s1.next /\ s2.start <= b[2] - 1 /\ s1.next \in Int /\ s2.start \in Int
    <3> HIDE DEF s1, s2, a, b
    <3> QED
      BY <1>4, <2>1, SpanFields
  <2> HIDE DEF s1, s2, a, b
  <2>5. a[2] < b[2]
    BY <1>4, <2>3, <2>4
  <2> QED
    BY <2>5 DEF a, b
<1> QED
  BY <1>5, <1>6

\* The two facts, about the state after a step.
LEMMA StreamLater ==
    /\ KafkaInv' => StreamOK'
    /\ KafkaInv' /\ Orderly' => Delivery!InOrderOnce(PublishedStream)'
BY StreamIs, StreamInOrder, PTL

\* The rows that stay are the same, whatever has become of their flags.
RecsKept == SettledRows' = SettledRows /\ \A i \in SettledRows : rows'[i].recs = rows[i].recs

LEMMA RowKept ==
    ASSUME KafkaInv, KafkaInv', [Next]_vars, ~Swap, ~RollbackFails, ~Crash
    PROVE  RecsKept
<1>1. ASSUME rows' = rows,
             pub'.phase \in {"swap", "rollback"} <=> pub.phase \in {"swap", "rollback"}
      PROVE  RecsKept
  BY <1>1, SameStock DEF RecsKept
<1>2. ASSUME DOMAIN rows' = SettledRows, \A i \in SettledRows : rows'[i] = rows[i],
             NEW cost, PublishFailed(cost)
      PROVE  RecsKept
  <2>1. pub'.phase = "none"
    BY <1>2, NoPubTyped DEF PublishFailed
  <2>2. SettledRows' = DOMAIN rows'
    BY <2>1 DEF SettledRows, InStock
  <2> QED
    BY <1>2, <2>2 DEF RecsKept
<1>3. ASSUME NEW cs, NEW batch, NEW final, Roll(cs, batch, final), rows' = rows, pub.phase = "none"
      PROVE  RecsKept
  <2>1. pub'.phase = "persist"
    BY <1>3 DEF Roll
  <2> QED
    BY <1>1, <1>3, <2>1
<1>4. CASE \E p \in Partition : Deliver(p)
  <2>1. PICK p \in Partition : Deliver(p)
    BY <1>4
  <2> DEFINE cs == [q \in Partition |-> Drained(cons[q])]
  <2>2. rows' = rows /\ pub.phase = "none" /\ (DropGated(p, cs) \/ Accept(p, cs))
    BY <2>1 DEF Deliver, Looping
  <2> HIDE DEF cs
  <2>3. CASE DropGated(p, cs)
    BY <1>1, <2>2, <2>3 DEF DropGated
  <2>4. CASE Accept(p, cs)
    <3>1. pub' = pub \/ \E w, batch : Roll(w, batch, FALSE)
      BY <2>4 DEF Accept
    <3> DEFINE final == FALSE
    <3>2. pub' = pub \/ \E w, batch : Roll(w, batch, final)
      BY <3>1
    <3> HIDE DEF final
    <3> QED
      BY <1>1, <1>3, <2>2, <3>2
  <2> QED
    BY <2>2, <2>3, <2>4
<1>5. CASE FlushTick
  <2> DEFINE final == FALSE
  <2>1. rows' = rows /\ pub.phase = "none" /\ Roll(cons, buf, final)
    BY <1>5 DEF FlushTick, Looping
  <2>2. pub'.phase = "persist"
    BY <2>1 DEF Roll
  <2> QED
    BY <1>1, <2>1, <2>2
<1>6. CASE \E fatal \in BOOLEAN : Stop(fatal)
  <2>1. rows' = rows /\ pub.phase = "none" /\ (pub' = pub \/ Roll(cons, buf, TRUE))
    BY <1>6 DEF Stop, Looping
  <2>2. pub' = pub \/ pub'.phase = "persist"
    BY <2>1 DEF Roll
  <2> QED
    BY <1>1, <2>1, <2>2
<1>7. CASE Persist
  BY <1>7, AppendedRow DEF RecsKept
<1>8. CASE PersistFails
  <2> DEFINE cost == 1
  <2>1. PublishFailed(cost) /\ rows' = rows /\ pub.phase = "persist"
    BY <1>8 DEF PersistFails
  <2>2. DOMAIN rows' = SettledRows
    BY <2>1 DEF SettledRows, InStock
  <2> HIDE DEF cost
  <2> QED
    BY <1>2, <2>1, <2>2
<1>9. CASE Rollback
  <2> DEFINE cost == 0
  <2>1. PublishFailed(cost)
    BY <1>9 DEF Rollback
  <2>2. DOMAIN rows' = SettledRows /\ \A i \in SettledRows : rows'[i] = rows[i]
    BY <1>9, RemovedRow
  <2> HIDE DEF cost
  <2> QED
    BY <1>2, <2>1, <2>2
<1>10. CASE SwapFails
  <2>1. pub.phase = "swap" /\ pub'.phase = "rollback" /\ rows' = rows
    BY <1>10 DEF SwapFails, KafkaInv, Typed, SessionTyped
  <2> QED
    BY <1>1, <2>1
<1>11. CASE \E i \in DOMAIN rows : LoseBlob(i)
  <2>1. PICK i \in DOMAIN rows : LoseBlob(i)
    BY <1>11
  <2> DEFINE b == FALSE
             v == FALSE
  <2>2. /\ rows' = [rows EXCEPT ![i] = [rows[i] EXCEPT !.blob = b, !.visible = v]]
        /\ pub' = pub /\ b \in BOOLEAN /\ v \in BOOLEAN
    BY <2>1, RowsDomain DEF LoseBlob
  <2> HIDE DEF b, v
  <2>3. SameRows
    BY <2>1, <2>2, FlagRow
  <2>4. SettledRows' = SettledRows
    BY <2>2, <2>3, SameRowsStock
  <2> QED
    BY <2>3, <2>4 DEF RecsKept, SameRows, SettledRows
<1>12. CASE \/ \E cid \in BOOLEAN, probe \in {"agreed", "unresolved", "disagreed"} : Start(cid, probe)
            \/ \E dropped \in SUBSET Partition : Join(dropped)
            \/ JoinTimesOut \/ SeekRetryTick \/ Revoke \/ Assign \/ UNCHANGED vars
  <2>1. rows' = rows /\ pub' = pub
    BY <1>12 DEF Start, Join, JoinTimesOut, SeekRetryTick, Revoke, Assign, vars
  <2> QED
    BY <1>1, <2>1
<1>13. CASE \/ \E p \in Partition : Produce(p) \/ Retain(p) \/ ResetPosition(p)
            \/ \E p \in Partition : LandCommit(p) \/ LoseCommit(p)
            \/ \E p \in Partition, keep \in 0 .. MaxRecords : Truncate(p, keep)
            \/ Recreate
  <2>1. rows' = rows /\ pub' = pub
    BY <1>13 DEF Produce, Retain, ResetPosition, LandCommit, LoseCommit, Truncate, Recreate
  <2> QED
    BY <1>1, <2>1
<1> QED
  BY <1>4, <1>5, <1>6, <1>7, <1>8, <1>9, <1>10, <1>11, <1>12, <1>13 DEF Next, PublishStep, BrokerStep

\* A publication that is over: the stream has grown by its batch at most.
LEMMA StreamGrows ==
    ASSUME KafkaInv, KafkaInv', Swap \/ RollbackFails \/ Crash
    PROVE  Delivery!IsPrefix(PublishedStream, PublishedStream') /\ degraded' = degraded
<1>1. SameStamps
  BY SwappedRow, LoadedRows, RowsDomain DEF RollbackFails, SameStamps, SameRows
<1>2. pub'.phase = "none" /\ degraded' = degraded
  BY NoPubTyped DEF Swap, RollbackFails, Crash, Published, historyVars
<1>3. SettledRows' = DOMAIN rows
  BY <1>1, <1>2, Settles DEF SameStamps
<1> DEFINE S == Seq(Record)
           s == PublishedStream
           t == PublishedStream'
<1>4. s \in Seq(S) /\ SettledRows = 1 .. Len(s) /\ \A i \in SettledRows : s[i] = rows[i].recs
  BY StreamIs DEF StreamOK
<1>5. t \in Seq(S) /\ SettledRows' = 1 .. Len(t) /\ \A i \in SettledRows' : t[i] = rows'[i].recs
  BY StreamLater DEF StreamOK
<1>6. SettledRows \subseteq SettledRows' /\ \A i \in SettledRows : rows'[i].recs = rows[i].recs
  BY <1>1, <1>3 DEF SettledRows, SameStamps, SameRows
<1> HIDE DEF s, t, S
<1>7. Len(s) \in Nat /\ Len(t) \in Nat
  BY <1>4, <1>5
<1>8. Len(s) <= Len(t)
  <2>1. 1 .. Len(s) \subseteq 1 .. Len(t)
    BY <1>4, <1>5, <1>6
  <2>2. Len(s) = 0 \/ Len(s) \in 1 .. Len(s)
    BY <1>7
  <2> QED
    BY <1>7, <2>1, <2>2
<1>9. \A i \in 1 .. Len(s) : s[i] = t[i]
  BY <1>4, <1>5, <1>6
<1>10. Delivery!IsPrefix(s, t)
  BY <1>4, <1>5, <1>8, <1>9, PrefixOf
<1> QED
  BY <1>2, <1>10 DEF s, t

LEMMA DeliveryStep ==
    ASSUME KafkaInv, KafkaInv', OrderInv', [Next]_vars
    PROVE  [Delivery!Next]_(Delivery!vars)
<1>1. CASE Swap \/ RollbackFails \/ Crash
  <2>1. Delivery!IsPrefix(PublishedStream, PublishedStream') /\ degraded' = degraded
    BY <1>1, StreamGrows
  <2>2. ~degraded' => Delivery!InOrderOnce(PublishedStream)'
    BY StreamLater DEF OrderInv
  <2>3. Delivery!Publish
    BY <2>1, <2>2 DEF Delivery!Publish
  <2> QED
    BY <2>3 DEF Delivery!Next
<1>2. CASE ~(Swap \/ RollbackFails \/ Crash)
  <2>1. RecsKept
    BY <1>2, RowKept
  <2>2. PublishedStream' = PublishedStream
    BY <2>1 DEF PublishedStream, RecsKept
  <2>3. degraded \in BOOLEAN /\ degraded' \in BOOLEAN /\ (~degraded' => ~degraded)
    BY DegradedStays DEF KafkaInv, Typed, HistoryTyped
  <2>4. degraded' = TRUE \/ degraded' = degraded
    BY <2>3
  <2> QED
    BY <2>2, <2>4 DEF Delivery!Next, Delivery!Degrade, Delivery!vars
<1> QED
  BY <1>1, <1>2

\* Kafka ingestion implements StreamDelivery: what has been published stays and
\* only grows and, as long as the evidence of the rows is not damaged, every
\* record is published once and in the order of its partition, through crashes,
\* failed publications, failed seeks, lost commits and rebalances.
THEOREM StreamDelivered == Spec => ExactlyOnceUntilDegraded
<1>1. Init => Delivery!Init
  <2> SUFFICES ASSUME Init PROVE Delivery!Init
    OBVIOUS
  <2>1. KafkaInv /\ rows = <<>> /\ degraded = FALSE
    BY InitKafka DEF Init
  <2>2. SettledRows = {}
    BY <2>1 DEF SettledRows
  <2>3. PublishedStream = <<>>
    BY <2>1, <2>2, StreamIs, EmptySeq DEF StreamOK
  <2> QED
    BY <2>1, <2>3 DEF Delivery!Init
<1>2. KafkaInv /\ KafkaInv' /\ OrderInv' /\ [Next]_vars => [Delivery!Next]_(Delivery!vars)
  BY DeliveryStep
<1> QED
  BY <1>1, <1>2, KafkaInvHolds, OrderInvHolds, PTL DEF Spec, ExactlyOnceUntilDegraded, Delivery!Spec
=============================================================================
