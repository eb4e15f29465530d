---------------------------- MODULE StreamDelivery ----------------------------
(***************************************************************************)
(* What Kafka ingestion promises about the records it makes durable: the   *)
(* stream of published batches only grows, and each record is published    *)
(* once and, within its partition, in the order it was produced, whatever  *)
(* crashes, publish failures, failed seeks, lost commits or rebalances     *)
(* happen, until the evidence a resume rests on is damaged (`degraded`).   *)
(* After that the promise is at-least-once only.                           *)
(***************************************************************************)
EXTENDS Naturals, Sequences, SequencesExt

VARIABLES
    stream,       \* the published batches, sequences of <<partition, number>>
    degraded

vars == <<stream, degraded>>

\* Place <<i, k>> of the stream s comes before place <<j, l>>.
Before(i, k, j, l) == i < j \/ (i = j /\ k < l)

\* A record of a partition has a higher number than every earlier one.
InOrderOnce(s) ==
    \A i, j \in DOMAIN s : \A k \in DOMAIN s[i], l \in DOMAIN s[j] :
        Before(i, k, j, l) /\ s[i][k][1] = s[j][l][1] => s[i][k][2] < s[j][l][2]

Init == stream = <<>> /\ degraded = FALSE

Publish ==
    /\ IsPrefix(stream, stream')
    /\ degraded \/ InOrderOnce(stream')
    /\ UNCHANGED degraded

Degrade == degraded' = TRUE /\ UNCHANGED stream

Next == Publish \/ Degrade

Spec == Init /\ [][Next]_vars
=============================================================================
