------------------------ MODULE AtLeastOnceDelivery ------------------------
(***************************************************************************)
(* What a Kafka consumer with manual commits promises, free of threads,    *)
(* retries and dead letters: offsets are settled in the order of the       *)
(* topic, and the offset kept by the group never passes one that is not    *)
(* settled.  "Settled" means that the consumer is through with the record: *)
(* its sink accepted it, or the dead letter path was run on it.            *)
(*                                                                         *)
(* The frontier may also move back (a consumer that re-joined its group    *)
(* redelivers and commits again); it only has to stay over settled         *)
(* offsets.  KafkaConsumerBase is shown to implement this specification.   *)
(***************************************************************************)
EXTENDS Naturals

VARIABLES
    published,  \* number of records of the topic
    settled,    \* offsets the consumer is through with
    frontier    \* offset the group resumes from; 0 before the first commit

abstractVars == <<published, settled, frontier>>

Init ==
    /\ published = 0
    /\ settled = {}
    /\ frontier = 0

Publish ==
    /\ published' = published + 1
    /\ UNCHANGED <<settled, frontier>>

(* An offset is settled after all its predecessors.                        *)
Settle(o) ==
    /\ o \in 1..published
    /\ 1..(o - 1) \subseteq settled
    /\ settled' = settled \union {o}
    /\ UNCHANGED <<published, frontier>>

(* The group's offset names the next record to read.                       *)
MoveFrontier(o) ==
    /\ o \in 1..published
    /\ 1..o \subseteq settled
    /\ frontier' = o + 1
    /\ UNCHANGED <<published, settled>>

Next ==
    \/ Publish
    \/ \E o \in 1..published : Settle(o) \/ MoveFrontier(o)

Spec == Init /\ [][Next]_abstractVars
=============================================================================
