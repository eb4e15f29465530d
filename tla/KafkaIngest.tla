------------------------------ MODULE KafkaIngest ------------------------------
(***************************************************************************)
(* Exactly what a Kafka supervisor does to get a topic into segments: the  *)
(* streaming loop (ferrodruid-ingest-kafka, run_streaming_loop) with its   *)
(* buffer, its resume-seek gate and its contiguous commit frontier, the    *)
(* sink that publishes a rolled batch (ferrodruid-overlord, kafka.rs), and *)
(* the resume of the next session from the published rows.                 *)
(*                                                                         *)
(* The loop is one task: everything between two awaits is one step, and    *)
(* while a batch is being published only the broker and a crash interleave *)
(* (rebalance callbacks run inside recv).  The consumer is the group's     *)
(* only member: a rebalance takes and gives all partitions together.  Deep *)
(* storage is configured, so offsets are stamped and committed.            *)
(*                                                                         *)
(* A record is <<partition, production number>>; an offset is its place in *)
(* the current numbering of the partition's log.  Numberings, `accepted`,  *)
(* `excused`, `gap`, `shadow` and `degraded` are history: no action reads  *)
(* them.                                                                   *)
(***************************************************************************)
EXTENDS KafkaResume

CONSTANTS
    Poison,         \* records that do not parse
    UseEarliest,    \* use_earliest_offset: the auto.offset.reset policy
    MaxRowsPerSegment,
    MaxRecords,     \* bound: records produced to a partition
    MaxIncidents    \* bound: faults, rebalances, stops and broker events

ASSUME KafkaAssumption ==
    /\ UseEarliest \in BOOLEAN
    /\ MaxRowsPerSegment \in Nat \ {0}
    /\ MaxRecords \in Nat
    /\ MaxIncidents \in Nat
    /\ Passthrough > MaxRecords

VARIABLES
    log,          \* log[p]: [low, recs, born, epoch, cut] at the broker
    topic,        \* the topic's generation
    committed,    \* committed[p]: the group's committed offset
    sent,         \* sent[p]: the last asynchronous commit not yet applied
    rows,         \* published segment rows, in publication order
    sess,         \* the session: phase, resolved identities, sticky failure
    cons,         \* cons[p]: consumer, gate, span and frontier of a partition
    buf,          \* the buffered records
    pub,          \* the publication in progress
    incidents,    \* incidents so far (bound only)
    accepted,     \* history: records this session buffered
    excused,      \* history: records skipped by the reset policy
    gap,          \* history: records dropped or jumped over without a seek back
    shadow,       \* history: records numbered below an earlier log end
    degraded      \* history: the resume evidence was damaged

brokerVars == <<log, topic, committed>>
historyVars == <<accepted, excused, gap, shadow, degraded>>
vars == <<brokerVars, sent, rows, sess, cons, buf, pub, incidents, historyVars>>

Active == [kind |-> "active", at |-> NoOffset]
NeedsTarget == [kind |-> "target", at |-> NoOffset]
NeedsSeek(t) == [kind |-> "seek", at |-> t]
NeedsRestore(f) == [kind |-> "restore", at |-> f]

NoPub == [phase |-> "none", batch |-> <<>>, spans |-> [p \in Partition |-> NoSpan],
          final |-> FALSE]

\* `muted` is the broker-side pause, `paused` the gate's record of it; `epoch`
\* (history) is the numbering of the log that the session's offsets are known to
\* belong to, and `astray` (history) marks a position above the session's floor.
IdleCons == [assigned |-> FALSE, muted |-> FALSE, pos |-> 0, gate |-> Active,
             tainted |-> FALSE, paused |-> FALSE, recFloor |-> FALSE, reset |-> FALSE,
             resetFloor |-> FALSE, fr |-> NoEntry, next |-> NoOffset, span |-> NoSpan,
             notice |-> {}, epoch |-> 0, astray |-> FALSE]

Incident(n) == incidents + n <= MaxIncidents /\ incidents' = incidents + n

High(p) == Len(log[p].recs)
RecordAt(p, o) == <<p, log[p].recs[o + 1]>>
Retained(p) == log[p].low .. (High(p) - 1)
Running == sess.phase = "up"
Looping == Running /\ pub.phase = "none"

Init ==
    /\ log = [p \in Partition |->
                 [low |-> 0, recs |-> <<>>, born |-> 0, epoch |-> 1, cut |-> 0]]
    /\ topic = 1
    /\ committed = [p \in Partition |-> NoOffset]
    /\ sent = [p \in Partition |-> NoOffset]
    /\ rows = <<>>
    /\ sess = [phase |-> "down", cid |-> FALSE, tid |-> NoTopicId,
               recreated |-> FALSE, failed |-> FALSE]
    /\ cons = [p \in Partition |-> IdleCons]
    /\ buf = <<>> /\ pub = NoPub /\ incidents = 0
    /\ accepted = {} /\ excused = {} /\ gap = {} /\ shadow = {} /\ degraded = FALSE

(***************************************************************************)
(* Accounting: the records that are not lost to this session.              *)
(***************************************************************************)
RowRecords(i) == ToSet(rows[i].recs)
Durable == UNION {RowRecords(i) : i \in DOMAIN rows}
Held == UNION {RowRecords(i) : i \in {j \in DOMAIN rows : rows[j].visible \/ rows[j].blob}}
Accounted == Held \cup ToSet(buf) \cup ToSet(pub.batch) \cup Poison

RetainedRecords(p) == {RecordAt(p, o) : o \in Retained(p)}

\* The rows that stay, whatever becomes of the publication in progress, and the
\* offset spans they carry for a partition.
InStock(i) == ~(pub.phase \in {"swap", "rollback"} /\ i = Len(rows))
SettledRows == {i \in DOMAIN rows : InStock(i)}
Evidence(p) == {rows[i].span[p] : i \in SettledRows} \ {NoSpan}

(***************************************************************************)
(* The resume-seek gate.                                                   *)
(***************************************************************************)
\* Mutant: a rebalance restores to the durable next, below what is buffered.
SafeFloor_Durable(c) == IF c.next = NoOffset THEN c.span.next ELSE c.next

\* safe_resume_frontier: the durable next or, further, the buffered end.
SafeFloor(c) == Max({c.next, c.span.next})

\* drain_rebalance_and_rearm for one partition.
Drained(c) ==
    IF c.notice = {} THEN c
    ELSE LET d == [c EXCEPT
                     !.notice = {},
                     !.fr = synthesize_recreated(@, sess.recreated /\ "assigned" \in c.notice),
                     !.paused = @ /\ "revoked" \notin c.notice]
         IN  IF SafeFloor(d) # NoOffset THEN [d EXCEPT !.gate = NeedsRestore(SafeFloor(d))]
             ELSE IF d.fr # NoEntry THEN [d EXCEPT !.gate = NeedsTarget]
             ELSE d

Untrusted(c) == c.fr.recreated \/ c.reset

NeedsCommitted(c) == c.gate.kind \in {"target", "restore"} /\ ~Untrusted(c)

\* The pending state becomes NeedsSeek with its floors armed.
WithTarget(c, com) ==
    CASE c.gate.kind = "seek" -> c
      [] c.gate.kind = "restore" ->
            [c EXCEPT !.gate = NeedsSeek(restore_target(Untrusted(c), com, c.gate.at))]
      [] c.gate.kind = "target" ->
            [c EXCEPT !.gate = NeedsSeek(resume_offset(IF Untrusted(c) THEN NoOffset ELSE com,
                                                       c.fr)),
                      !.recFloor = @ \/ c.fr.recreated,
                      !.resetFloor = @ \/ (~c.fr.recreated /\ c.reset)]

Floored(c) == c.resetFloor /\ ~c.recFloor

SeekTo(p, c) ==
    resolve_seek_target(c.recFloor, c.fr, Floored(c), c.gate.at, log[p].low, High(p))

\* note_offset_space_reset: the log ends below the target.
WithWatermarks(p, c) ==
    LET shrank == offset_space_shrank(c.recFloor, Floored(c), c.gate.at, High(p)) /\ ~c.reset
    IN  [c EXCEPT !.reset = @ \/ shrank, !.resetFloor = @ \/ shrank]

Paused(c, ok) == [c EXCEPT !.paused = @ \/ ok, !.muted = @ \/ ok]

\* resume_and_activate, when the broker resumes the partition.
Activated(c) ==
    [c EXCEPT !.muted = @ /\ ~c.paused, !.paused = FALSE, !.gate = Active,
              !.tainted = FALSE, !.recFloor = FALSE, !.resetFloor = FALSE]

\* The seek landed; rebase_after_clamped_seek when the target had to move.
Sought(p, c, t, rebase) ==
    [c EXCEPT !.pos = t, !.gate = NeedsSeek(t), !.recFloor = FALSE,
              !.next = IF rebase THEN t ELSE @,
              !.span = IF rebase THEN NoSpan ELSE @,
              !.epoch = IF Floored(c) THEN log[p].epoch ELSE @]

may_noop_failed_seek(c, com, t) == com = t /\ ~c.tainted

(***************************************************************************)
(* try_activate_pending_blocking for one gated partition: how far the      *)
(* broker lets it get, and whether the safety pause works.                 *)
(***************************************************************************)
Outcome == {"ok", "nocommit", "nowatermark", "noseek", "noseekfetch", "noresume"}

Attempt(p, c, out, pauseOk) ==
    LET com == committed[p]
        a == WithTarget(c, com)
        w == WithWatermarks(p, a)
        t == SeekTo(p, a)
        s == Sought(p, w, t, Floored(a) \/ a.gate.at # t)
    IN  CASE out = "nocommit" -> Paused(c, pauseOk)
          [] out = "nowatermark" -> Paused(a, pauseOk)
          [] out = "noseek" -> IF may_noop_failed_seek(w, com, t) THEN Activated(w)
                               ELSE Paused(w, pauseOk)
          [] out = "noseekfetch" -> Paused(w, pauseOk)
          [] out = "noresume" -> s
          [] out = "ok" -> Activated(s)

Possible(c, out) ==
    /\ out = "nocommit" => NeedsCommitted(c)
    /\ out = "noresume" => c.paused

Pending(c) == c.assigned /\ c.gate # Active

\* History.  A failed seek taken for a no-op although the position is elsewhere:
\* the committed offset, or the position, moved after the assignment read it.
Misplaced(p, c, out) ==
    LET t == SeekTo(p, WithTarget(c, committed[p]))
    IN  out = "noseek" /\ may_noop_failed_seek(c, committed[p], t) /\ c.pos # t

\* The records it leaves behind.
Jumped(p, c) ==
    LET t == SeekTo(p, WithTarget(c, committed[p]))
    IN  {RecordAt(p, o) : o \in Retained(p) \cap t .. (c.pos - 1)} \ Accounted

\* History.  A restore above this session's own floor: the committed offset is
\* older than the unloaded rows the session is consuming again.
Overtaken(p, c) ==
    c.gate.kind = "restore" /\ ~Untrusted(c) /\ committed[p] > c.gate.at

Reseekable(p) == cons[p].gate = Active /\ cons[p].next # NoOffset

\* History.  A failed publication forgets the span of a partition that is not
\* sent back: its durable next stays below what it will publish.
Stranded == {p \in Partition : pub.spans[p] # NoSpan /\ ~Reseekable(p)}

\* One pass over all gated partitions: cs before, cons' and sent' after.  `cost`
\* incidents and the dropping of `lost` led to it.
TryActivatePendingAfter(cost, lost, cs) ==
    LET pending == {p \in Partition : Pending(cs[p])}
    IN  \E out \in [pending -> Outcome], pauseOk \in BOOLEAN :
          LET misplaced == {p \in pending : Misplaced(p, cs[p], out[p])}
          IN
          /\ \A p \in pending : Possible(cs[p], out[p])
          /\ Incident(cost + Cardinality({p \in pending : out[p] # "ok"}))
          /\ cons' = [p \in Partition |->
                        IF p \in pending
                        THEN [Attempt(p, cs[p], out[p], pauseOk) EXCEPT
                                !.astray = @ \/ Overtaken(p, cs[p]),
                                !.epoch = IF Misplaced(p, cs[p], out[p]) THEN 0 ELSE @]
                        ELSE cs[p]]
          /\ sent' = [p \in Partition |->
                        IF p \in pending /\ out[p] \in {"ok", "noresume"}
                           /\ WithTarget(cs[p], NoOffset).recFloor
                        THEN SeekTo(p, WithTarget(cs[p], committed[p]))
                        ELSE sent[p]]
          /\ gap' = gap \cup lost \cup UNION {Jumped(p, cs[p]) : p \in misplaced}
          /\ degraded' = (degraded \/ lost # {} \/ misplaced # {} \/ Stranded # {}
                            \/ \E p \in Partition : cons'[p].astray)

TryActivatePending(cs) == TryActivatePendingAfter(0, {}, cs)

(***************************************************************************)
(* A session starts: the frontier is derived from the rows, and every      *)
(* partition it names is gated before the loop consumes.                   *)
(***************************************************************************)
JoinPosition(p) ==
    IF committed[p] # NoOffset THEN committed[p]
    ELSE IF UseEarliest THEN log[p].low ELSE High(p)

\* apply_resume_seek once the assignment is seen: what the join drive consumed
\* is discarded (`dropped`), so the position is no longer the committed one.
JoinedCons(p, entry, recreated, dropped) ==
    LET drop == p \in dropped /\ JoinPosition(p) \in Retained(p)
        fr == synthesize_recreated(entry, recreated)
    IN  [cons[p] EXCEPT
           !.assigned = TRUE,
           !.pos = IF drop THEN JoinPosition(p) + 1 ELSE JoinPosition(p),
           !.tainted = drop,
           !.fr = fr,
           !.gate = IF fr # NoEntry THEN NeedsTarget
                    ELSE IF drop THEN NeedsSeek(JoinPosition(p)) ELSE Active]

\* The policy decides where a partition without any evidence starts.
PolicySkips(p) ==
    IF committed[p] = NoOffset /\ ~UseEarliest THEN RetainedRecords(p) \ Accounted ELSE {}

\* No frontier entry, no recreation, no progress: nothing will re-seek it.
Ungoverned == {p \in Partition : /\ cons[p].fr = NoEntry /\ ~sess.recreated
                                 /\ SafeFloor(cons[p]) = NoOffset}

Start(cid, probe) ==
    LET tid == IF probe = "agreed" THEN topic ELSE NoTopicId
        disagreed == probe = "disagreed"
        recreated == TopicRecreated(rows, cid, tid, disagreed)
        entry == [p \in Partition |-> derive_resume_frontier(rows, p, cid, tid, disagreed)]
        anyEntry == \E p \in Partition : entry[p] # NoEntry
        blame == (IF cid THEN 0 ELSE 1) + (IF probe = "agreed" THEN 0 ELSE 1)
    IN  /\ sess.phase \in {"down", "stopped"}
        /\ sess' = [phase |-> IF anyEntry \/ recreated THEN "join" ELSE "up",
                    cid |-> cid, tid |-> tid, recreated |-> recreated, failed |-> FALSE]
        /\ sent' = [p \in Partition |-> NoOffset]
        /\ Incident(blame)
        /\ cons' = [p \in Partition |->
                      [IdleCons EXCEPT !.fr = entry[p],
                                       !.epoch = IF recreated THEN log[p].epoch ELSE 0,
                                       !.gate = IF entry[p] # NoEntry THEN NeedsTarget
                                                ELSE Active]]
        /\ degraded' = (degraded \/ blame > 0 \/ \E i \in DOMAIN rows : ~rows[i].visible)
        /\ accepted' = {}
        /\ UNCHANGED <<brokerVars, rows, buf, pub, excused, gap, shadow>>

\* The assignment arrived within the window; `dropped`: a record came first.
Join(dropped) ==
    /\ sess.phase = "join"
    /\ sess' = [sess EXCEPT !.phase = "up"]
    /\ TryActivatePending([p \in Partition |->
                              JoinedCons(p, cons[p].fr, sess.recreated, dropped)])
    /\ excused' = excused \cup UNION {PolicySkips(p) : p \in Ungoverned}
    /\ UNCHANGED <<brokerVars, rows, buf, pub, accepted, shadow>>

JoinTimesOut ==
    /\ sess.phase = "join"
    /\ Incident(1)
    /\ sess' = [sess EXCEPT !.phase = "up"]
    /\ UNCHANGED <<brokerVars, sent, rows, cons, buf, pub, historyVars>>

(***************************************************************************)
(* The loop: a record, the two timers, the end of a publication.           *)
(***************************************************************************)
\* StreamingBuffer::record_offset: a backward delivery restarts the span.
record_offset(c) ==
    IF c.span = NoSpan \/ c.pos < c.span.next
    THEN [start |-> c.pos, next |-> c.pos + 1]
    ELSE [c.span EXCEPT !.next = c.pos + 1]

\* roll_with_offsets: the buffer and all spans go into the publication.
Roll(cs, batch, final) ==
    /\ pub' = [phase |-> "persist", batch |-> batch,
               spans |-> [p \in Partition |-> cs[p].span], final |-> final]
    /\ cons' = [p \in Partition |-> [cs[p] EXCEPT !.span = NoSpan]]
    /\ buf' = <<>>

\* Mutant: the offset is recorded before the gate is asked.
DropGated_Recorded(p, cs) ==
    /\ cs[p].gate # Active
    /\ cons' = [cs EXCEPT ![p].tainted = TRUE, ![p].pos = @ + 1,
                          ![p].span = record_offset(cs[p])]
    /\ UNCHANGED <<buf, pub, accepted>>

DropGated(p, cs) ==
    /\ cs[p].gate # Active
    /\ cons' = [cs EXCEPT ![p].tainted = TRUE, ![p].pos = @ + 1]
    /\ UNCHANGED <<buf, pub, accepted>>

\* Mutant: the batch is rolled one row late.
should_roll_Late(batch) == Len(batch) > MaxRowsPerSegment

should_roll(batch) == Len(batch) >= MaxRowsPerSegment

Accept(p, cs) ==
    LET c == cs[p]
        rec == RecordAt(p, c.pos)
        heard == [cs EXCEPT ![p].pos = @ + 1,
                            ![p].span = record_offset(c),
                            ![p].next = IF @ = NoOffset THEN c.pos ELSE @]
        batch == IF rec \in Poison THEN buf ELSE Append(buf, rec)
    IN  /\ c.gate = Active
        /\ accepted' = accepted \cup {rec}
        /\ IF rec \notin Poison /\ should_roll(batch)
           THEN Roll(heard, batch, FALSE)
           ELSE cons' = heard /\ buf' = batch /\ UNCHANGED pub

\* recv returned a record: notices are drained before it is looked at.
Deliver(p) ==
    LET drained == [q \in Partition |-> Drained(cons[q])]
    IN  /\ Looping /\ cons[p].assigned /\ ~cons[p].muted
        /\ cons[p].pos \in Retained(p)
        /\ DropGated(p, drained) \/ Accept(p, drained)
        /\ UNCHANGED <<brokerVars, sent, rows, sess, incidents, excused, gap, shadow, degraded>>

SeekRetryTick ==
    /\ Looping
    /\ \E p \in Partition : cons[p].notice # {} \/ Pending(cons[p])
    /\ TryActivatePending([p \in Partition |-> Drained(cons[p])])
    /\ UNCHANGED <<brokerVars, rows, sess, buf, pub, accepted, excused, shadow>>

FlushTick ==
    /\ Looping /\ buf # <<>>
    /\ Roll(cons, buf, FALSE)
    /\ UNCHANGED <<brokerVars, sent, rows, sess, incidents, historyVars>>

\* Shutdown, or a fatal consume error: the final drain.
Stop(fatal) ==
    /\ Looping
    /\ Incident(1)
    /\ IF buf # <<>>
       THEN /\ Roll(cons, buf, TRUE)
            /\ sess' = [sess EXCEPT !.failed = @ \/ fatal]
       ELSE /\ sess' = [sess EXCEPT !.phase = "stopped", !.failed = @ \/ fatal]
            /\ cons' = [p \in Partition |-> IdleCons]
            /\ UNCHANGED <<buf, pub>>
    /\ UNCHANGED <<brokerVars, sent, rows, historyVars>>

(***************************************************************************)
(* publish_streaming_segment_persisted, and what the loop does with its    *)
(* result.                                                                 *)
(***************************************************************************)
\* ContiguousFrontier::record_durable.
Extends(c, span) == span # NoSpan /\ span.start <= c.next /\ c.next < span.next

\* The sink said Ok: commit_contiguous, and the session ends after a final drain.
Published ==
    /\ sent' = [p \in Partition |->
                  IF Extends(cons[p], pub.spans[p])
                  THEN pub.spans[p].next
                  ELSE sent[p]]
    /\ cons' = [p \in Partition |->
                  IF pub.final THEN IdleCons
                  ELSE IF Extends(cons[p], pub.spans[p])
                  THEN [cons[p] EXCEPT !.next = pub.spans[p].next] ELSE cons[p]]
    /\ sess' = IF pub.final THEN [sess EXCEPT !.phase = "stopped"] ELSE sess
    /\ pub' = NoPub

\* Mutant: the failure is not remembered.
FailedSession_Forgets(final) ==
    [sess EXCEPT !.phase = IF final THEN "stopped" ELSE @]

FailedSession(final) ==
    [sess EXCEPT !.failed = TRUE, !.phase = IF final THEN "stopped" ELSE @]

\* Mutant: a failed batch is given up and the frontier goes on behind it.
arm_publish_failure_reseek_Skip(p) == [cons[p] EXCEPT !.next = cons[p].pos]

arm_publish_failure_reseek(p) ==
    IF Reseekable(p)
    THEN [cons[p] EXCEPT !.gate = NeedsSeek(cons[p].next), !.tainted = TRUE]
    ELSE cons[p]

\* The sink failed: the batch is dropped and the active partitions go back to
\* their durable next.  `cost` incidents led here.
PublishFailed(cost) ==
    LET armed == [p \in Partition |-> arm_publish_failure_reseek(p)]
        lost == {r \in ToSet(pub.batch) : ~Reseekable(r[1])}
    IN  /\ sess' = FailedSession(pub.final)
        /\ pub' = NoPub
        /\ IF pub.final
           THEN /\ cons' = [p \in Partition |-> IdleCons]
                /\ Incident(cost) /\ UNCHANGED <<sent, gap, degraded>>
           ELSE IF \E p \in Partition : Reseekable(p)
           THEN TryActivatePendingAfter(cost, lost, armed)
           ELSE /\ cons' = armed /\ Incident(cost) /\ UNCHANGED sent
                /\ gap' = gap \cup lost /\ degraded' = TRUE

NewRow ==
    [recs |-> pub.batch, cid |-> sess.cid, tid |-> sess.tid,
     span |-> IF sess.cid THEN pub.spans ELSE NoPub.spans,
     blob |-> TRUE, visible |-> FALSE]

\* The blob is uploaded and the row inserted ...
Persist ==
    /\ pub.phase = "persist"
    /\ rows' = Append(rows, NewRow)
    /\ pub' = [pub EXCEPT !.phase = "swap"]
    /\ UNCHANGED <<brokerVars, sent, sess, cons, buf, incidents, historyVars>>

\* ... or one of the two failed, and the blob is deleted.
PersistFails ==
    /\ pub.phase = "persist"
    /\ PublishFailed(1)
    /\ UNCHANGED <<brokerVars, rows, buf, accepted, excused, shadow>>

Swap ==
    /\ pub.phase = "swap"
    /\ rows' = [rows EXCEPT ![Len(rows)].visible = TRUE]
    /\ Published
    /\ UNCHANGED <<brokerVars, buf, incidents, historyVars>>

SwapFails ==
    /\ pub.phase = "swap"
    /\ Incident(1)
    /\ pub' = [pub EXCEPT !.phase = "rollback"]
    /\ UNCHANGED <<brokerVars, sent, rows, sess, cons, buf, historyVars>>

Rollback ==
    /\ pub.phase = "rollback"
    /\ rows' = Front(rows)
    /\ PublishFailed(0)
    /\ UNCHANGED <<brokerVars, buf, accepted, excused, shadow>>

\* RetainedDurable: the row stays, so the batch counts as published.
RollbackFails ==
    /\ pub.phase = "rollback"
    /\ Incident(1)
    /\ Published
    /\ UNCHANGED <<brokerVars, rows, buf, historyVars>>

(***************************************************************************)
(* The group and the process.                                              *)
(***************************************************************************)
Revoke ==
    /\ Looping /\ \A p \in Partition : cons[p].assigned
    /\ Incident(1)
    /\ cons' = [p \in Partition |->
                  [cons[p] EXCEPT !.assigned = FALSE, !.muted = FALSE,
                                  !.notice = @ \cup {"revoked"}]]
    /\ UNCHANGED <<brokerVars, sent, rows, sess, buf, pub, historyVars>>

\* The client asks for committed offsets only once no commit is outstanding.
Assign ==
    /\ Looping /\ \A p \in Partition : ~cons[p].assigned /\ sent[p] = NoOffset
    /\ cons' = [p \in Partition |->
                  [cons[p] EXCEPT !.assigned = TRUE, !.pos = JoinPosition(p),
                                  !.notice = @ \cup {"assigned"}]]
    /\ excused' = excused \cup UNION {PolicySkips(p) : p \in Ungoverned}
    /\ UNCHANGED <<brokerVars, sent, rows, sess, buf, pub, incidents,
                   accepted, gap, shadow, degraded>>

\* The position left the retained log: the broker client applies the policy.
ResetPosition(p) ==
    /\ Running /\ cons[p].assigned /\ cons[p].pos \notin log[p].low .. High(p)
    /\ cons' = [cons EXCEPT ![p].pos = IF UseEarliest THEN log[p].low ELSE High(p)]
    /\ IF cons[p].gate = Active
       THEN /\ degraded' = TRUE
            /\ excused' = IF UseEarliest THEN excused
                          ELSE excused \cup (RetainedRecords(p) \ Accounted)
       ELSE UNCHANGED <<excused, degraded>>
    /\ UNCHANGED <<brokerVars, sent, rows, sess, buf, pub, incidents, accepted, gap, shadow>>

LandCommit(p) ==
    /\ sent[p] # NoOffset
    /\ committed' = [committed EXCEPT ![p] = sent[p]]
    /\ sent' = [sent EXCEPT ![p] = NoOffset]
    /\ UNCHANGED <<log, topic, rows, sess, cons, buf, pub, incidents, historyVars>>

LoseCommit(p) ==
    /\ sent[p] # NoOffset /\ Running
    /\ Incident(1)
    /\ sent' = [sent EXCEPT ![p] = NoOffset]
    /\ UNCHANGED <<brokerVars, rows, sess, cons, buf, pub, historyVars>>

\* The process dies; the next bootstrap loads every row whose blob it can read.
Crash ==
    /\ sess.phase \in {"join", "up"}
    /\ Incident(1)
    /\ sess' = [sess EXCEPT !.phase = "down"]
    /\ rows' = [i \in DOMAIN rows |-> [rows[i] EXCEPT !.visible = rows[i].blob]]
    /\ cons' = [p \in Partition |-> IdleCons]
    /\ buf' = <<>> /\ pub' = NoPub
    /\ UNCHANGED <<brokerVars, sent, historyVars>>

(***************************************************************************)
(* The broker and deep storage.                                            *)
(***************************************************************************)
Produce(p) ==
    /\ log[p].born < MaxRecords
    /\ log' = [log EXCEPT ![p].born = @ + 1, ![p].recs = Append(@, log[p].born + 1)]
    /\ shadow' = IF High(p) < log[p].cut THEN shadow \cup {<<p, log[p].born + 1>>} ELSE shadow
    /\ UNCHANGED <<topic, committed, sent, rows, sess, cons, buf, pub, incidents,
                   accepted, excused, gap, degraded>>

\* History.  Retention outruns publication: the offset it takes is in no row's
\* span and not below all that the group has consumed.
Outruns(p) ==
    LET o == log[p].low
    IN  /\ \A s \in Evidence(p) : o \notin Covered(s)
        /\ (\E s \in Evidence(p) : s.start <= o) \/ cons[p].next \in 0 .. o

Retain(p) ==
    /\ log[p].low < High(p)
    /\ Incident(1)
    /\ log' = [log EXCEPT ![p].low = @ + 1]
    /\ degraded' = (degraded \/ Outruns(p))
    /\ UNCHANGED <<topic, committed, sent, rows, sess, cons, buf, pub,
                   accepted, excused, gap, shadow>>

\* An unclean election cuts the log; the numbers are given out again.
Truncate(p, keep) ==
    /\ keep \in Retained(p)
    /\ Incident(1)
    /\ log' = [log EXCEPT ![p].recs = SubSeq(@, 1, keep), ![p].epoch = @ + 1,
                          ![p].cut = Max({@, High(p)})]
    /\ degraded' = TRUE
    /\ UNCHANGED <<topic, committed, sent, rows, sess, cons, buf, pub,
                   accepted, excused, gap, shadow>>

\* Delete and recreate, between two sessions; committed offsets survive.
Recreate ==
    /\ sess.phase \in {"down", "stopped"}
    /\ Incident(1)
    /\ topic' = topic + 1
    /\ log' = [p \in Partition |->
                 [log[p] EXCEPT !.low = 0, !.recs = <<>>, !.epoch = @ + 1,
                                !.cut = Max({@, High(p)})]]
    /\ degraded' = TRUE
    /\ UNCHANGED <<committed, sent, rows, sess, cons, buf, pub,
                   accepted, excused, gap, shadow>>

\* A blob cannot be read at the bootstrap: its row is not loaded.  What the row
\* held outside its offset stamp is out of the frontier's reach.
LoseBlob(i) ==
    /\ sess.phase = "down" /\ rows[i].blob
    /\ Incident(1)
    /\ rows' = [rows EXCEPT ![i].blob = FALSE, ![i].visible = FALSE]
    /\ excused' = excused \cup
         (RowRecords(i) \ UNION {{RecordAt(p, o) : o \in Retained(p) \cap Covered(rows[i].span[p])} :
                                   p \in Partition})
    /\ degraded' = TRUE
    /\ UNCHANGED <<brokerVars, sent, sess, cons, buf, pub, accepted, gap, shadow>>

BrokerStep ==
    \/ \E p \in Partition : Produce(p) \/ Retain(p) \/ ResetPosition(p)
    \/ \E p \in Partition : LandCommit(p) \/ LoseCommit(p)
    \/ \E p \in Partition, keep \in 0 .. MaxRecords : Truncate(p, keep)
    \/ Recreate
    \/ \E i \in DOMAIN rows : LoseBlob(i)

PublishStep == Persist \/ PersistFails \/ Swap \/ SwapFails \/ Rollback \/ RollbackFails

Next ==
    \/ \E cid \in BOOLEAN, probe \in {"agreed", "unresolved", "disagreed"} : Start(cid, probe)
    \/ \E dropped \in SUBSET Partition : Join(dropped)
    \/ JoinTimesOut
    \/ \E p \in Partition : Deliver(p)
    \/ SeekRetryTick \/ FlushTick
    \/ \E fatal \in BOOLEAN : Stop(fatal)
    \/ PublishStep
    \/ Revoke \/ Assign \/ Crash
    \/ BrokerStep

Spec == Init /\ [][Next]_vars

(***************************************************************************)
(* Properties.                                                             *)
(***************************************************************************)
Record == Partition \X (1 .. MaxRecords)
Offset == NoOffset .. MaxRecords
Span == [start : Offset, next : Offset]
Entry == [minStart : Offset \cup {Passthrough}, loaded : SUBSET Offset, recreated : BOOLEAN]

\* Types, and the shape of a session: an unassigned partition is not paused at
\* the broker, and a row that is in the middle of its publication is the last.
KafkaTypeOK ==
    /\ \A p \in Partition :
         /\ log[p].low \in 0 .. High(p) /\ log[p].recs \in Seq(1 .. MaxRecords)
         /\ cons[p].gate.kind \in {"active", "target", "seek", "restore"}
         /\ cons[p].span \in Span /\ cons[p].next \in Offset /\ cons[p].fr \in Entry
         /\ cons[p].notice \subseteq {"revoked", "assigned"}
         /\ cons[p].muted => cons[p].assigned
         /\ committed[p] \in Offset /\ sent[p] \in Offset
    /\ buf \in Seq(Record) /\ Len(buf) < MaxRowsPerSegment
    /\ sess.phase \in {"down", "join", "up", "stopped"}
    /\ pub.phase \in {"none", "persist", "swap", "rollback"}
    /\ pub.phase # "none" => Running
    /\ pub.phase \in {"swap", "rollback"} => Last(rows).recs = pub.batch
    /\ accepted \subseteq Record /\ excused \subseteq Record /\ gap \subseteq Record
    /\ incidents \in 0 .. MaxIncidents

\* The contiguous commit frontier: no record below the group's committed offset
\* is without a published row, so a resume from it skips nothing that is not
\* durable (commit_contiguous, record_durable).
CommittedIsDurable ==
    \A p \in Partition : \A o \in Retained(p) :
        o < committed[p] =>
            RecordAt(p, o) \in Durable \cup Poison \cup excused \cup gap \cup shadow

\* The same without the exception: a failed batch is consumed again, also when
\* its partition was gated by a rebalance (arm_publish_failure_reseek says that
\* a gated partition has no rows in the batch).
FailedBatchReconsumed ==
    \A p \in Partition : \A o \in Retained(p) :
        o < committed[p] => RecordAt(p, o) \in Durable \cup Poison \cup excused \cup shadow

\* The kafkaOffsets stamp of a row never claims a record that no row holds: the
\* spans a resume skips are covered (record_offset, rebase_after_clamped_seek).
StampHonest ==
    \A i \in DOMAIN rows, p \in Partition :
        \A o \in Retained(p) \cap Covered(rows[i].span[p]) :
            RecordAt(p, o) \in Durable \cup Poison \cup excused \cup gap \cup shadow

\* Records that a loaded row claims, for all this session can tell, and does not
\* hold: the log was renumbered under the stamp, or the span runs over records
\* that were another row's when the position jumped.
Misclaimed(p) ==
    LET loaded == {i \in LiveRows(rows, p, sess.tid) : rows[i].visible}
    IN  {RecordAt(p, o) : o \in {x \in Retained(p) :
            \E i \in loaded : /\ x \in Covered(rows[i].span[p])
                             /\ RecordAt(p, x) \notin RowRecords(i)}}

\* Renumbered records that nothing this session saw could tell from older ones:
\* the log regrew before a seek looked at it or under a running position.
Renumbered(p) == IF cons[p].epoch = log[p].epoch THEN {} ELSE shadow

\* A partition that delivers has nothing retained behind it that this session
\* would not have: every seek of the gate lands at or below the first record
\* that is neither loaded, buffered nor being published.
NothingSkipped ==
    \A p \in Partition :
        /\ Looping /\ cons[p].assigned /\ cons[p].gate = Active /\ cons[p].notice = {}
        /\ ~cons[p].astray
        =>
            \A o \in Retained(p) :
                o < cons[p].pos =>
                    RecordAt(p, o) \in Accounted \cup excused \cup gap
                                       \cup Misclaimed(p) \cup Renumbered(p)

\* A session that reports a clean stop made durable every record it accepted
\* (StreamingStats::replay_required).
CleanStopIsComplete ==
    sess.phase = "stopped" /\ ~sess.failed => accepted \subseteq Durable \cup Poison

(***************************************************************************)
(* Refinement: the rows, without the one being published, are the stream.  *)
(***************************************************************************)
PublishedStream == [i \in SettledRows |-> rows[i].recs]

Delivery == INSTANCE StreamDelivery WITH stream <- PublishedStream, degraded <- degraded

\* Each record is published once and in order through crashes, failed
\* publications, failed seeks, lost commits and rebalances.
ExactlyOnceUntilDegraded == Delivery!Spec
=============================================================================
