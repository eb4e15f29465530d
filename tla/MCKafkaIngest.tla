---------------------------- MODULE MCKafkaIngest ----------------------------
(* One partition whose second record does not parse.                         *)
EXTENDS KafkaIngest

CONSTANT p1

PoisonRecords == {<<p1, 2>>}
=============================================================================
