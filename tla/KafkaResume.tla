------------------------------ MODULE KafkaResume ------------------------------
(***************************************************************************)
(* Where a Kafka consumer resumes: the pure part of the durable resume     *)
(* frontier.  The Overlord derives one entry per partition from the        *)
(* published segment rows (ferrodruid-overlord, kafka.rs), the consumer    *)
(* turns an entry, the group's committed offset and the live watermarks    *)
(* into the offset it seeks to (ferrodruid-ingest-kafka, streaming.rs).    *)
(*                                                                         *)
(* Merged offset spans are the set of offsets they cover.  A cluster       *)
(* identity is resolved or not (there is one cluster); a topic identity is *)
(* the number of the topic's generation, NoTopicId when unresolved.        *)
(***************************************************************************)
EXTENDS Integers, FiniteSets, FiniteSetsExt, Sequences, SequencesExt

CONSTANTS
    Partition,
    Passthrough   \* COMMITTED_PASSTHROUGH_MIN_START: above every offset

ASSUME PassthroughAssumption == Passthrough \in Nat
ASSUME PartitionAssumption == IsFiniteSet(Partition)

NoOffset == -1
NoTopicId == 0
NoSpan == [start |-> NoOffset, next |-> NoOffset]
NoEntry == [minStart |-> NoOffset, loaded |-> {}, recreated |-> FALSE]

advance_contiguous(point, loaded) ==
    Min((point .. Max(loaded \cup {point}) + 1) \ loaded)

resume_offset(committed, resume) ==
    advance_contiguous(IF resume.recreated THEN 0
                       ELSE IF committed = NoOffset THEN resume.minStart
                       ELSE Min({committed, resume.minStart}),
                       resume.loaded)

clamp_resume_target(target, low, high) ==
    IF target \in low .. high THEN target ELSE low

recreated_resume_target(low, high, resume) ==
    clamp_resume_target(advance_contiguous(low, resume.loaded), low, high)

restore_target(untrusted, committed, floor) ==
    IF untrusted THEN floor ELSE Max({committed, floor})

\* The target against the live watermarks [low, high] ...
resolve_seek_target(recFloor, resume, resetFloor, target, low, high) ==
    IF recFloor THEN recreated_resume_target(low, high, resume)
    ELSE IF resetFloor THEN low
    ELSE clamp_resume_target(target, low, high)

\* ... and whether the log ended below it.
offset_space_shrank(recFloor, resetFloor, target, high) ==
    ~recFloor /\ ~resetFloor /\ target > high

(***************************************************************************)
(* The frontier.  A row carries offset spans only when the publishing      *)
(* session had resolved the cluster, so a row without the cluster stamp    *)
(* plays no role.  `cid` and `tid` are this session's identities.          *)
(***************************************************************************)
DeadGeneration(row, tid) ==
    row.tid # NoTopicId /\ tid # NoTopicId /\ row.tid # tid

Naming(rows, p) == {i \in DOMAIN rows : rows[i].cid /\ rows[i].span[p] # NoSpan}

LiveRows(rows, p, tid) == {i \in Naming(rows, p) : ~DeadGeneration(rows[i], tid)}

Covered(span) == span.start .. (span.next - 1)

\* Mutant: rows that are not loaded advance the frontier too.
LoadedOffsets_Unloaded(rows, p, cid, tid) ==
    IF cid THEN UNION {Covered(rows[i].span[p]) : i \in LiveRows(rows, p, tid)} ELSE {}

\* The spans of confirmed rows that are loaded: what a resume may skip.
LoadedOffsets(rows, p, cid, tid) ==
    IF cid THEN UNION {Covered(rows[i].span[p]) :
                          i \in {j \in LiveRows(rows, p, tid) : rows[j].visible}}
    ELSE {}

\* Floors: the lowest live start; 0 for a dead generation's partition; the
\* committed offset alone when the mismatch cannot be told from a repoint.
MinStart(rows, p, cid, tid) ==
    LET live == LiveRows(rows, p, tid)
    IN  IF live # {} THEN Min({rows[i].span[p].start : i \in live})
        ELSE IF cid THEN 0 ELSE Passthrough

compute_resume_frontier(rows, p, cid, tid) ==
    IF Naming(rows, p) = {} THEN NoEntry
    ELSE [minStart |-> MinStart(rows, p, cid, tid),
          loaded |-> LoadedOffsets(rows, p, cid, tid),
          recreated |-> cid /\ LiveRows(rows, p, tid) # Naming(rows, p)]

detect_topic_recreation(rows, cid, tid) ==
    cid /\ \E i \in DOMAIN rows : rows[i].cid /\ DeadGeneration(rows[i], tid)

\* derive_resume_frontier.  `disagreed`: the bootstrap brokers named two ids.
TopicRecreated(rows, cid, tid, disagreed) ==
    disagreed \/ detect_topic_recreation(rows, cid, tid)

derive_resume_frontier(rows, p, cid, tid, disagreed) ==
    LET entry == compute_resume_frontier(rows, p, cid, tid)
    IN  IF entry = NoEntry THEN NoEntry
        ELSE [minStart |-> entry.minStart,
              loaded |-> IF disagreed THEN {} ELSE entry.loaded,
              recreated |-> entry.recreated \/ TopicRecreated(rows, cid, tid, disagreed)]

\* ResumeFrontier::synthesize_recreated: a floor-low entry for a partition that
\* is assigned without evidence.
synthesize_recreated(entry, recreated) ==
    IF recreated /\ entry = NoEntry
    THEN [minStart |-> 0, loaded |-> {}, recreated |-> TRUE]
    ELSE entry
=============================================================================
