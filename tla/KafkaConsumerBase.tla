------------------------- MODULE KafkaConsumerBase -------------------------
(***************************************************************************)
(* The consumer loop that ESIndexer, RedisUpdater and Notifier inherit     *)
(* (consumers/src/kafka_consumer_base.cpp), reading one topic partition.   *)
(* One thread executes Run; main calls Stop from another; librdkafka joins *)
(* the group and delivers dead letters from its own threads.  ProcessRecord*)
(* is abstract here: it returns or throws.  The three subclasses refine it.*)
(*                                                                         *)
(* Offsets are positions in `topic`, counted from 1.                       *)
(***************************************************************************)
EXTENDS Integers, Sequences, FiniteSets

CONSTANTS
    Messages,    \* the records a topic may hold
    MaxRetries,  \* max_retries_
    MaxTopic,    \* bound: records published in a behaviour
    MaxFaults    \* bound: crashes, Stop calls, lost assignments, failed commits

PayloadKinds == {"avro", "json", "garbage", "tombstone"}

ASSUME MessagesAssumption ==
    \A m \in Messages : m.payload \in PayloadKinds /\ m.utf8 \in BOOLEAN

ASSUME BoundsAssumption ==
    /\ MaxRetries \in Nat
    /\ MaxTopic \in Nat
    /\ MaxFaults \in Nat

VARIABLES
    topic,        \* the partition's log
    committed,    \* the group's committed offset, 0 when there is none yet
    assigned,     \* the group has assigned the partition to this consumer
    position,     \* offset the next consume() returns
    pc,           \* where the thread that owns the consumer stands
    msg,          \* offset of the message Run holds
    attempt,      \* the retry loop's counter
    running,      \* running_
    schemaKnown,  \* the deserializer holds the writer schema
    dlqProducer,  \* producer_ is not null
    dlqQueue,     \* dead letters in producer_'s queue
    dlqTopic,     \* offsets that have a copy in the dead letter topic
    sunk,         \* history: offsets whose ProcessRecord returned
    dropped,      \* history: offsets whose dead letter was lost
    faults        \* number of faults so far

threadVars == <<pc, msg, attempt>>
groupVars == <<committed, assigned, position>>
dlqVars == <<dlqQueue, dlqTopic, dropped>>
consumerVars == <<topic, groupVars, threadVars, running, schemaKnown,
                  dlqProducer, dlqVars, sunk, faults>>

(* down: no process.  ready: constructed, Run not called.  loop: the test  *)
(* of the while.  consume .. commit: inside the loop body (attempt: the    *)
(* test of the retry loop, call: in ProcessRecord).  stopped: Run returned.*)
(* dead: an exception left Run.                                            *)
InLoopBody == {"consume", "decode", "attempt", "call", "commit"}
InHand == {"decode", "attempt", "call"}
Alive == {"ready", "loop", "dead"} \union InLoopBody
Locations == {"down", "stopped"} \union Alive

Offsets == 1..Len(topic)

Settled == sunk \union dlqQueue \union dlqTopic \union dropped

FaultBudget == faults < MaxFaults /\ faults' = faults + 1

----------------------------------------------------------------------------
(* Life cycle *)

ConsumerInit ==
    /\ topic = <<>>
    /\ committed = 0
    /\ assigned = FALSE
    /\ position = 1
    /\ pc = "down"
    /\ msg = 0
    /\ attempt = 0
    /\ running = FALSE
    /\ schemaKnown = FALSE
    /\ dlqProducer = FALSE
    /\ dlqQueue = {}
    /\ dlqTopic = {}
    /\ sunk = {}
    /\ dropped = {}
    /\ faults = 0

(* Debezium appends a record. *)
Publish(m) ==
    /\ Len(topic) < MaxTopic
    /\ topic' = Append(topic, m)
    /\ UNCHANGED <<groupVars, threadVars, running, schemaKnown, dlqProducer,
                   dlqVars, sunk, faults>>

(* A missing DLQ producer is only warned about. *)
Construct ==
    /\ pc \in {"down", "stopped"}
    /\ pc' = "ready"
    /\ msg' = 0
    /\ attempt' = 0
    /\ running' = FALSE
    /\ schemaKnown' = FALSE
    /\ dlqProducer' \in BOOLEAN
    /\ assigned' = FALSE
    /\ UNCHANGED <<topic, committed, position, dlqVars, sunk, faults>>

RunBegins ==
    /\ pc = "ready"
    /\ running' = TRUE
    /\ pc' = "loop"
    /\ UNCHANGED <<topic, groupVars, msg, attempt, schemaKnown, dlqProducer,
                   dlqVars, sunk, faults>>

Stop ==
    /\ pc \in Alive
    /\ running
    /\ running' = FALSE
    /\ FaultBudget
    /\ UNCHANGED <<topic, groupVars, threadVars, schemaKnown, dlqProducer,
                   dlqVars, sunk>>

(* The process dies; what producer_ had not delivered dies with it. *)
Crash ==
    /\ pc \in Alive
    /\ pc' = "down"
    /\ msg' = 0
    /\ attempt' = 0
    /\ running' = FALSE
    /\ assigned' = FALSE
    /\ dlqQueue' = {}
    /\ dropped' = dropped \union dlqQueue
    /\ FaultBudget
    /\ UNCHANGED <<topic, committed, position, schemaKnown, dlqProducer,
                   dlqTopic, sunk>>

----------------------------------------------------------------------------
(* The consumer group *)

(* Mutants of ResumeOffset: as if seeking to an end of the topic. *)
ResumeFromLatest == Len(topic) + 1
ResumeFromEarliest == 1

(* auto.offset.reset = earliest *)
ResumeOffset == IF committed = 0 THEN 1 ELSE committed

(* No rebalance callback is set: librdkafka takes the assignment by itself,*)
(* whatever Run is doing, and fetches from the committed offset.           *)
Assign ==
    /\ pc \in Alive
    /\ ~assigned
    /\ assigned' = TRUE
    /\ position' = ResumeOffset
    /\ UNCHANGED <<topic, committed, threadVars, running, schemaKnown,
                   dlqProducer, dlqVars, sunk, faults>>

LoseAssignment ==
    /\ assigned
    /\ assigned' = FALSE
    /\ FaultBudget
    /\ UNCHANGED <<topic, committed, position, threadVars, running,
                   schemaKnown, dlqProducer, dlqVars, sunk>>
----------------------------------------------------------------------------
(* Run, up to the retry loop *)

LoopTest ==
    /\ pc = "loop"
    /\ running
    /\ pc' = "consume"
    /\ UNCHANGED <<topic, groupVars, msg, attempt, running, schemaKnown,
                   dlqProducer, dlqVars, sunk, faults>>

(* consume() met the end of the partition or timed out, which it may do    *)
(* although there is a record to read.                                     *)
ConsumeNothing ==
    /\ pc = "consume"
    /\ pc' = "loop"
    /\ UNCHANGED <<topic, groupVars, msg, attempt, running, schemaKnown,
                   dlqProducer, dlqVars, sunk, faults>>

(* Mutants of ConsumeMessage: an off-by-one, and a position that stays. *)
ConsumePastEnd ==
    /\ pc = "consume"
    /\ assigned
    /\ position <= Len(topic) + 1
    /\ msg' = position
    /\ position' = position + 1
    /\ pc' = "decode"
    /\ UNCHANGED <<topic, committed, assigned, attempt, running, schemaKnown,
                   dlqProducer, dlqVars, sunk, faults>>

ConsumeWithoutAdvance ==
    /\ pc = "consume"
    /\ assigned
    /\ position \in Offsets
    /\ msg' = position
    /\ pc' = "decode"
    /\ UNCHANGED <<topic, groupVars, attempt, running, schemaKnown,
                   dlqProducer, dlqVars, sunk, faults>>

ConsumeMessage ==
    /\ pc = "consume"
    /\ assigned
    /\ position \in Offsets
    /\ msg' = position
    /\ position' = position + 1
    /\ pc' = "decode"
    /\ UNCHANGED <<topic, committed, assigned, attempt, running, schemaKnown,
                   dlqProducer, dlqVars, sunk, faults>>

(* AvroDeserializer::Deserialize.  Framed Avro needs its schema, cached by *)
(* libserdes or fetched from the registry; any other payload is parsed as  *)
(* plain JSON, and an empty one is a tombstone.                            *)
Decodable(m) == m.payload \in {"avro", "json"}

DecodeSucceeds ==
    /\ pc = "decode"
    /\ Decodable(topic[msg])
    /\ schemaKnown' = (schemaKnown \/ topic[msg].payload = "avro")
    /\ attempt' = 1
    /\ pc' = "attempt"
    /\ UNCHANGED <<topic, groupVars, msg, running, dlqProducer, dlqVars, sunk,
                   faults>>

RegistryUnreachable(m) == m.payload = "avro" /\ ~schemaKnown

(* RouteToDLQ, whose result both callers ignore: the held message ends up  *)
(* in the producer's queue, in the dead letter topic when flush(1000) saw  *)
(* it through, or nowhere.  A raw payload that is not UTF-8 makes dump()   *)
(* throw, and nothing in Run catches that.                                 *)
DumpThrows(raw) == dlqProducer /\ raw /\ ~topic[msg].utf8

RouteToDLQ(raw) ==
    \/ /\ DumpThrows(raw)
       /\ pc' = "dead"
       /\ UNCHANGED dlqVars
    \/ /\ ~DumpThrows(raw)
       /\ pc' = "commit"
       /\ dropped' = dropped \union {msg}
       /\ UNCHANGED <<dlqQueue, dlqTopic>>
    \/ /\ ~DumpThrows(raw)
       /\ dlqProducer
       /\ pc' = "commit"
       /\ \/ dlqTopic' = dlqTopic \union {msg} /\ UNCHANGED dlqQueue
          \/ dlqQueue' = dlqQueue \union {msg} /\ UNCHANGED dlqTopic
       /\ UNCHANGED dropped

DecodeFails ==
    /\ pc = "decode"
    /\ ~Decodable(topic[msg]) \/ RegistryUnreachable(topic[msg])
    /\ RouteToDLQ(TRUE)
    /\ UNCHANGED <<topic, groupVars, msg, attempt, running, schemaKnown,
                   dlqProducer, sunk, faults>>

----------------------------------------------------------------------------
(* The retry loop *)

BeginAttempt ==
    /\ pc = "attempt"
    /\ attempt <= MaxRetries
    /\ running
    /\ pc' = "call"
    /\ UNCHANGED <<topic, groupVars, msg, attempt, running, schemaKnown,
                   dlqProducer, dlqVars, sunk, faults>>

(* ProcessRecord of the subclass; Stop does not interrupt it. *)
ProcessReturns ==
    /\ pc = "call"
    /\ sunk' = sunk \union {msg}
    /\ pc' = "commit"
    /\ UNCHANGED <<topic, groupVars, msg, attempt, running, schemaKnown,
                   dlqProducer, dlqVars, faults>>

(* Mutant of ProcessThrows: the attempt is not counted. *)
RetryForever ==
    /\ pc = "call"
    /\ pc' = "attempt"
    /\ UNCHANGED <<topic, groupVars, msg, attempt, running, schemaKnown,
                   dlqProducer, dlqVars, sunk, faults>>

ProcessThrows ==
    /\ pc = "call"
    /\ attempt' = attempt + 1
    /\ pc' = "attempt"
    /\ UNCHANGED <<topic, groupVars, msg, running, schemaKnown,
                   dlqProducer, dlqVars, sunk, faults>>

RetriesExhausted ==
    /\ pc = "attempt"
    /\ attempt > MaxRetries
    /\ running
    /\ RouteToDLQ(FALSE)
    /\ UNCHANGED <<topic, groupVars, msg, attempt, running, schemaKnown,
                   dlqProducer, sunk, faults>>

(* Mutant of Abandon: a shutdown commits the record it gives up. *)
AbandonAndCommit ==
    /\ pc = "attempt"
    /\ ~running
    /\ pc' = "commit"
    /\ UNCHANGED <<topic, groupVars, msg, attempt, running, schemaKnown,
                   dlqProducer, dlqVars, sunk, faults>>

(* Stopped between attempts: neither a dead letter nor a commit. *)
Abandon ==
    /\ pc = "attempt"
    /\ ~running
    /\ pc' = "loop"
    /\ UNCHANGED <<topic, groupVars, msg, attempt, running, schemaKnown,
                   dlqProducer, dlqVars, sunk, faults>>

----------------------------------------------------------------------------
(* commitSync and the end of Run *)

(* Mutant of CommitSync: one offset too far. *)
CommitTwoAhead ==
    /\ pc = "commit"
    /\ assigned
    /\ committed' = msg + 2
    /\ pc' = "loop"
    /\ UNCHANGED <<topic, assigned, position, msg, attempt, running,
                   schemaKnown, dlqProducer, dlqVars, sunk, faults>>

CommitSync ==
    /\ pc = "commit"
    /\ assigned
    /\ committed' = msg + 1
    /\ pc' = "loop"
    /\ UNCHANGED <<topic, assigned, position, msg, attempt, running,
                   schemaKnown, dlqProducer, dlqVars, sunk, faults>>

(* An error of commitSync is ignored; without the assignment the           *)
(* coordinator refuses the commit.                                         *)
CommitFails ==
    /\ pc = "commit"
    /\ pc' = "loop"
    /\ IF assigned THEN FaultBudget ELSE UNCHANGED faults
    /\ UNCHANGED <<topic, groupVars, msg, attempt, running, schemaKnown,
                   dlqProducer, dlqVars, sunk>>

(* close() and flush(2000); what the flush leaves is lost at destruction.  *)
ExitLoop ==
    /\ pc = "loop"
    /\ ~running
    /\ pc' = "stopped"
    /\ assigned' = FALSE
    /\ \E flushed \in SUBSET dlqQueue :
          /\ dlqTopic' = dlqTopic \union flushed
          /\ dropped' = dropped \union (dlqQueue \ flushed)
    /\ dlqQueue' = {}
    /\ UNCHANGED <<topic, committed, position, msg, attempt, running,
                   schemaKnown, dlqProducer, sunk, faults>>

(* producer_'s own thread: a dead letter arrives, or message.timeout.ms    *)
(* expires first.  No delivery report is asked for.                        *)
DlqDelivered(o) ==
    /\ o \in dlqQueue
    /\ dlqQueue' = dlqQueue \ {o}
    /\ dlqTopic' = dlqTopic \union {o}
    /\ UNCHANGED <<topic, groupVars, threadVars, running, schemaKnown,
                   dlqProducer, dropped, sunk, faults>>

DlqExpires(o) ==
    /\ o \in dlqQueue
    /\ dlqQueue' = dlqQueue \ {o}
    /\ dropped' = dropped \union {o}
    /\ UNCHANGED <<topic, groupVars, threadVars, running, schemaKnown,
                   dlqProducer, dlqTopic, sunk, faults>>

----------------------------------------------------------------------------
(* What the thread does whatever ProcessRecord is. *)
LoopStep ==
    \/ RunBegins \/ LoopTest \/ ConsumeNothing \/ ConsumeMessage
    \/ DecodeSucceeds \/ DecodeFails
    \/ BeginAttempt \/ RetriesExhausted \/ Abandon
    \/ CommitSync \/ CommitFails \/ ExitLoop

EnvironmentStep ==
    \/ Construct \/ Assign \/ LoseAssignment \/ Stop \/ Crash
    \/ \E o \in dlqQueue : DlqDelivered(o) \/ DlqExpires(o)

ConsumerNext ==
    \/ \E m \in Messages : Publish(m)
    \/ LoopStep
    \/ ProcessReturns
    \/ ProcessThrows
    \/ EnvironmentStep

ConsumerSpec == ConsumerInit /\ [][ConsumerNext]_consumerVars

(* The thread is scheduled and all its calls have timeouts; consume() does *)
(* not time out for ever on a record that is there; Docker restarts a      *)
(* process that exited by itself (restart: unless-stopped), not one that   *)
(* was stopped; a member that lost its group re-joins it.                  *)
ConsumerFairness ==
    /\ WF_consumerVars(LoopStep \/ ProcessReturns \/ ProcessThrows)
    /\ SF_consumerVars(ConsumeMessage)
    /\ WF_consumerVars(pc = "down" /\ Construct)
    /\ WF_consumerVars(Assign)

FairConsumerSpec == ConsumerSpec /\ ConsumerFairness
----------------------------------------------------------------------------
(* Properties *)

(* The values every variable may take. *)
TypeOK ==
    /\ topic \in Seq(Messages)
    /\ committed \in Nat
    /\ assigned \in BOOLEAN
    /\ position \in Nat \ {0}
    /\ pc \in Locations
    /\ msg \in Nat
    /\ pc \in InHand \union {"commit"} => msg \in Offsets
    /\ attempt \in Nat
    /\ running \in BOOLEAN
    /\ schemaKnown \in BOOLEAN
    /\ dlqProducer \in BOOLEAN
    /\ Settled \subseteq Offsets
    /\ faults \in Nat

(* At-least-once delivery (docs/ADR.md, ADR 1): the group's offset never   *)
(* passes a record that Run neither handed to its sink nor routed to the   *)
(* dead letter path, whatever crashes, shutdowns, rebalances and failed    *)
(* commits happen in between.                                              *)
CommittedIsSettled == 1..(committed - 1) \subseteq Settled

(* Run is through with the records in the order of the partition: none is  *)
(* settled before all its predecessors are, although a shutdown abandons a *)
(* record half way and a re-join moves the position under Run's feet.      *)
HandledInOrder == \A o \in Settled : 1..(o - 1) \subseteq Settled

(* Without a fault nothing is delivered twice: redelivery always comes     *)
(* from a crash, a shutdown, a re-join or a failed commit.                 *)
NoRedeliveryWithoutFaults ==
    faults = 0 /\ pc \in InHand => msg \notin Settled

(* The group's offset moves back only because of a commit that was lost    *)
(* together with, or followed by, a re-join: with fewer than two faults it *)
(* never does.                                                             *)
RewindNeedsTwoFaults == [][committed' < committed => faults >= 2]_committed

(* Every record is settled in the end, unless the operator leaves the      *)
(* consumer stopped or its thread has died of an exception.                *)
EveryRecordIsSettled ==
    \A o \in 1..MaxTopic :
        \/ <>[](pc = "stopped")
        \/ <>[](pc = "dead")
        \/ (o \in Offsets) ~> (o \in Settled)

(* The loop implements the abstract consumer.                              *)
Delivery == INSTANCE AtLeastOnceDelivery
                WITH published <- Len(topic),
                     settled <- Settled,
                     frontier <- committed

DeliverySpec == Delivery!Spec

----------------------------------------------------------------------------
(* What the documentation says and the code does not do *)

(* BENCHMARK_REPORT.md 5.2: a record whose retries are exhausted is in the *)
(* dead letter topic before the offset advances.                           *)
DeadLetteredBeforeCommit ==
    1..(committed - 1) \subseteq sunk \union dlqTopic

(* README.md: dead letters keep a poison pill from blocking the partition. *)
PoisonPillsDoNotBlock ==
    \A o \in 1..MaxTopic :
        <>[](pc = "stopped") \/ ((o \in Offsets) ~> (o \in Settled))

(* docs/ARCHITECTURE.md:58: when the schema registry is unavailable the    *)
(* consumers crash; they do not commit a record that a reachable registry  *)
(* would make readable (kafka_consumer_base.cpp:153).                      *)
ReadableRecordsAreNotSkipped ==
    \A o \in 1..(committed - 1) : topic[o].payload = "avro" => o \in sunk
=============================================================================
