------------------------ MODULE MCKafkaConsumerBase ------------------------
(* Instances of KafkaConsumerBase for TLC.                                 *)
EXTENDS KafkaConsumerBase

(* Every kind of payload, garbage as text and as bytes that are not UTF-8. *)
AllMessages ==
    {[payload |-> "avro", utf8 |-> TRUE],
     [payload |-> "json", utf8 |-> TRUE],
     [payload |-> "garbage", utf8 |-> TRUE],
     [payload |-> "garbage", utf8 |-> FALSE],
     [payload |-> "tombstone", utf8 |-> TRUE]}

(* Records whose sink may fail, and garbage. *)
FewMessages ==
    {[payload |-> "json", utf8 |-> TRUE],
     [payload |-> "garbage", utf8 |-> FALSE]}

OneMessage == {[payload |-> "json", utf8 |-> TRUE]}

(* What Debezium's Avro converter emits. *)
AvroMessages ==
    {[payload |-> "avro", utf8 |-> TRUE], [payload |-> "avro", utf8 |-> FALSE]}
=============================================================================
