-------------------------- MODULE ESIndexer_proofs --------------------------
(* Proofs about ESIndexer, for every set of orders and statuses and every  *)
(* value of the bounds.                                                    *)
EXTENDS ESIndexer, OrdersFeed_proofs

(* The indexer takes only steps of the consumer loop.                      *)
LEMMA StepIsConsumerStep ==
  ASSUME FeedTypeOK, [ESNext]_esVars
  PROVE  [ConsumerNext]_consumerVars
<1>1. CASE FeedStep
  BY <1>1, FeedStepIsConsumerStep
<1>2. CASE ProcessRecord
  BY <1>2 DEF ProcessRecord, RequestSucceeds, RequestRejected,
              RequestTimesOut, ConsumerNext
<1>3. CASE LoopStep \/ Construct \/ Assign \/ LoseAssignment \/ Stop \/ Crash
  BY <1>3 DEF ConsumerNext, EnvironmentStep
<1>4. CASE \E o \in dlqQueue : DlqDelivered(o) \/ DlqExpires(o)
  BY <1>4 DEF ConsumerNext, EnvironmentStep
<1>5. CASE \E m \in pendingReqs : LateRequest(m)
  BY <1>5 DEF LateRequest
<1>6. CASE UNCHANGED esVars
  BY <1>6 DEF esVars
<1>. QED
  BY <1>1, <1>2, <1>3, <1>4, <1>5, <1>6 DEF ESNext

LEMMA FeedPart ==
  ASSUME [ESNext]_esVars
  PROVE  FeedStep \/ UNCHANGED <<feedVars, topic>>
  BY DEF ESNext, ProcessRecord, RequestSucceeds, RequestRejected,
         RequestTimesOut, LateRequest, LoopStep, RunBegins, LoopTest,
         ConsumeNothing, ConsumeMessage, DecodeSucceeds, DecodeFails,
         BeginAttempt, RetriesExhausted, Abandon, CommitSync, CommitFails,
         ExitLoop, ProcessReturns, ProcessThrows, Construct, Assign,
         LoseAssignment, Stop, Crash, DlqDelivered, DlqExpires, consumerVars,
         esVars

----------------------------------------------------------------------------
(* Two faults.  The position runs ahead of the record in hand by one, and  *)
(* unless the thread goes on reading so does the committed offset.         *)

TwoFaultInv ==
    /\ assigned => pc \in Alive
    /\ faults <= 2 =>
          /\ Holding /\ assigned => position <= msg + 1
          /\ Holding /\ ~(assigned /\ running) => ResumeOffset <= msg + 1
          /\ assigned /\ ~running /\ pc = "consume" =>
                ResumeOffset <= position + 1

LEMMA TwoFaultInit == ConsumerInit => TwoFaultInv
  BY DEF ConsumerInit, TwoFaultInv, Holding, InHand

LEMMA TwoFaultStep ==
  ASSUME TypeOK, OneFaultInv, TwoFaultInv, [ConsumerNext]_consumerVars
  PROVE  TwoFaultInv'
<1> USE Numbers
    DEF OneFaultInv, TwoFaultInv, Holding, InHand, InLoopBody, Alive,
        ResumeOffset, groupVars, threadVars, FaultBudget
<1>1. ASSUME NEW m \in Messages, Publish(m) PROVE TwoFaultInv'
  BY <1>1 DEF Publish
<1>2. CASE RunBegins  BY <1>2 DEF RunBegins
<1>3. CASE LoopTest  BY <1>3 DEF LoopTest
<1>4. CASE ConsumeNothing  BY <1>4 DEF ConsumeNothing
<1>5. CASE ConsumeMessage  BY <1>5 DEF ConsumeMessage
<1>6. CASE DecodeSucceeds  BY <1>6 DEF DecodeSucceeds
<1>7. CASE DecodeFails
  <2>1. /\ pc = "decode" /\ pc' \in {"commit", "dead"} /\ msg' = msg
        /\ faults' = faults /\ running' = running
        /\ UNCHANGED groupVars
    BY <1>7 DEF DecodeFails, RouteToDLQ
  <2>. QED  BY <2>1
<1>8. CASE BeginAttempt  BY <1>8 DEF BeginAttempt
<1>9. CASE RetriesExhausted
  <2>1. /\ pc = "attempt" /\ pc' \in {"commit", "dead"} /\ msg' = msg
        /\ faults' = faults /\ running' = running
        /\ UNCHANGED groupVars
    BY <1>9 DEF RetriesExhausted, RouteToDLQ
  <2>. QED  BY <2>1
<1>10. CASE Abandon  BY <1>10 DEF Abandon
<1>11. CASE CommitSync  BY <1>11 DEF CommitSync
<1>12. CASE CommitFails  BY <1>12 DEF CommitFails
<1>13. CASE ExitLoop  BY <1>13 DEF ExitLoop
<1>14. CASE ProcessReturns  BY <1>14 DEF ProcessReturns
<1>15. CASE ProcessThrows  BY <1>15 DEF ProcessThrows
<1>16. CASE Construct  BY <1>16 DEF Construct
<1>17. CASE Assign
  <2>1. /\ assigned' /\ ~assigned /\ position' = ResumeOffset
        /\ ResumeOffset' = ResumeOffset /\ msg' = msg /\ pc' = pc
        /\ faults' = faults /\ running' = running /\ pc \in Alive
    BY <1>17 DEF Assign
  <2>. QED  BY <2>1
<1>18. CASE LoseAssignment  BY <1>18 DEF LoseAssignment
<1>19. CASE Stop  BY <1>19 DEF Stop
<1>20. CASE Crash  BY <1>20 DEF Crash
<1>21. ASSUME NEW o \in dlqQueue, DlqDelivered(o) \/ DlqExpires(o)
      PROVE TwoFaultInv'
  BY <1>21 DEF DlqDelivered, DlqExpires
<1>22. CASE UNCHANGED consumerVars  BY <1>22 DEF consumerVars
<1>. QED
  BY <1>1, <1>2, <1>3, <1>4, <1>5, <1>6, <1>7, <1>8, <1>9, <1>10, <1>11,
     <1>12, <1>13, <1>14, <1>15, <1>16, <1>17, <1>18, <1>19, <1>20, <1>21,
     <1>22, ActionsOfNext
  DEF ConsumerAction

----------------------------------------------------------------------------
(* Debezium goes back, never forward: behind every event of the topic all  *)
(* later changes follow that it has emitted.                               *)

EmissionIsComplete ==
    \A j \in Offsets : \A l \in 1..emitted :
        topic[j].lsn \in 1..(l - 1) =>
            \E k \in Offsets : k > j /\ topic[k].lsn = l

LEMMA EmissionStep ==
  ASSUME TypeOK, FeedTypeOK, EmissionIsComplete,
         FeedStep \/ UNCHANGED <<feedVars, topic>>
  PROVE  EmissionIsComplete'
<1>1. /\ Offsets \subseteq Offsets'
      /\ \A i \in Offsets : topic'[i] = topic[i]
  BY LogsGrow
<1>2. emitted \in Nat /\ Len(topic) \in Nat
  BY DEF TypeOK, FeedTypeOK
<1>3. CASE topic' = topic /\ emitted' \in 0..emitted
  <2>1. Offsets' = Offsets /\ 1..emitted' \subseteq 1..emitted
    BY <1>2, <1>3 DEF Offsets
  <2>. QED  BY <1>3, <2>1 DEF EmissionIsComplete
<1>4. CASE Emit
  <2>1. \E m : /\ topic' = Append(topic, m) /\ m.lsn = emitted + 1
               /\ emitted' = emitted + 1
    BY <1>4 DEF Emit, Publish, EventRecord
  <2>2. PICK m : /\ topic' = Append(topic, m) /\ m.lsn = emitted + 1
                 /\ emitted' = emitted + 1
    BY <2>1
  <2>3. /\ Offsets' = Offsets \union {Len(topic) + 1}
        /\ topic'[Len(topic) + 1].lsn = emitted + 1
        /\ Offsets = 1..Len(topic)
    BY <1>2, <2>2 DEF TypeOK, Offsets
  <2> SUFFICES ASSUME NEW j \in Offsets', NEW l \in 1..(emitted + 1),
                      topic'[j].lsn \in 1..(l - 1)
               PROVE  \E k \in Offsets' : k > j /\ topic'[k].lsn = l
    BY <2>2 DEF EmissionIsComplete
  <2>4. j # Len(topic) + 1
    BY <1>2, <2>3
  <2>5. CASE l = emitted + 1
    BY <1>2, <2>3, <2>4, <2>5
  <2>6. CASE l \in 1..emitted
    BY <1>1, <2>3, <2>4, <2>6 DEF EmissionIsComplete
  <2>. QED  BY <1>2, <2>5, <2>6
<1>5. CASE EmitTombstone
  <2>1. /\ topic' = Append(topic, TombstoneRecord(wal[emitted].order))
        /\ emitted' = emitted
    BY <1>5 DEF EmitTombstone, Publish
  <2>2. /\ Offsets' = Offsets \union {Len(topic) + 1}
        /\ topic'[Len(topic) + 1].lsn = 0
        /\ Offsets = 1..Len(topic)
    BY <1>2, <2>1 DEF TypeOK, Offsets, TombstoneRecord
  <2> SUFFICES ASSUME NEW j \in Offsets', NEW l \in 1..emitted,
                      topic'[j].lsn \in 1..(l - 1)
               PROVE  \E k \in Offsets' : k > j /\ topic'[k].lsn = l
    BY <2>1 DEF EmissionIsComplete
  <2>3. j \in Offsets
    BY <1>2, <2>2
  <2>. QED  BY <1>1, <2>3 DEF EmissionIsComplete
<1>6. Emit \/ EmitTombstone \/ (topic' = topic /\ emitted' \in 0..emitted)
  <2>1. CASE ConnectorRestarts
    <3>1. emitted' \in 0..(emitted - 1) /\ topic' = topic
      BY <2>1 DEF ConnectorRestarts, consumerVars
    <3>. QED  BY <1>2, <3>1
  <2>2. CASE emitted' = emitted /\ topic' = topic
    BY <1>2, <2>2
  <2>3. \/ Emit \/ EmitTombstone \/ ConnectorRestarts
        \/ emitted' = emitted /\ topic' = topic
    BY DEF FeedStep, CreateOrder, UpdateOrderStatus, DeleteOrder, CommitChange,
           feedVars, consumerVars
  <2>. QED  BY <2>1, <2>2, <2>3
<1>. QED  BY <1>3, <1>4, <1>5, <1>6
----------------------------------------------------------------------------
(* Types of the index *)

PendingFromWal == \A m \in pendingReqs : FromWal(m, wal)

IndexTypeOK ==
    /\ doc \in [Orders -> Statuses \union {NoRow}]
    /\ pendingReqs \subseteq Messages
    /\ docLsn \in [Orders -> 0..Len(wal)]
    /\ overtaken \subseteq Orders

LEMMA HeldFromWal ==
  ASSUME FeedInv, pc = "call"
  PROVE  Held \in Messages /\ FromWal(Held, wal) /\ msg \in Offsets
<1>1. msg \in Offsets /\ topic \in Seq(Messages)
  BY DEF FeedInv, TypeOK, InHand
<1>. QED
  BY <1>1 DEF FeedInv, HeldIsEvent, TopicFromWal, Held, Offsets

(* What a step does to the documents.                                      *)
Executed(m) ==
    /\ m \in Messages /\ FromWal(m, wal)
    /\ Execute(m)
    /\ wal' = wal

LEMMA IndexPart ==
  ASSUME FeedInv, IndexTypeOK, PendingFromWal, [ESNext]_esVars
  PROVE  \/ UNCHANGED <<doc, docLsn>>
         \/ /\ RequestSucceeds \/ RequestTimesOut
            /\ Executed(Held)
         \/ \E m \in pendingReqs : LateRequest(m) /\ Executed(m)
<1>1. CASE RequestSucceeds \/ RequestTimesOut
  <2>1. Held \in Messages /\ FromWal(Held, wal)
    BY <1>1, HeldFromWal DEF RequestSucceeds, RequestTimesOut, ProcessReturns,
                             ProcessThrows
  <2>. QED
    BY <1>1, <2>1 DEF RequestSucceeds, RequestTimesOut, Executed, feedVars
<1>2. CASE \E m \in pendingReqs : LateRequest(m)
  BY <1>2 DEF LateRequest, Executed, IndexTypeOK, PendingFromWal, feedVars
<1>3. CASE ~(\/ RequestSucceeds \/ RequestTimesOut
             \/ \E m \in pendingReqs : LateRequest(m))
  BY <1>3 DEF ESNext, ProcessRecord, RequestRejected, sinkVars, esVars
<1>. QED  BY <1>1, <1>2, <1>3

LEMMA PendingPart ==
  ASSUME FeedInv, IndexTypeOK, [ESNext]_esVars
  PROVE  \/ pendingReqs' \subseteq pendingReqs
         \/ /\ Held \in Messages /\ FromWal(Held, wal)
            /\ pendingReqs' = pendingReqs \union {Held}
<1>1. CASE RequestTimesOut
  <2>1. Held \in Messages /\ FromWal(Held, wal)
    BY <1>1, HeldFromWal DEF RequestTimesOut, ProcessThrows
  <2>. QED  BY <1>1, <2>1 DEF RequestTimesOut
<1>2. CASE ~RequestTimesOut
  BY <1>2 DEF ESNext, ProcessRecord, RequestSucceeds, RequestRejected,
              LateRequest, sinkVars, esVars
<1>. QED  BY <1>1, <1>2

LEMMA OvertakenPart ==
  ASSUME IndexTypeOK, [ESNext]_esVars
  PROVE  overtaken \subseteq overtaken' /\ overtaken' \subseteq Orders
<1>1. CASE \E m \in pendingReqs : LateRequest(m)
  <2>1. PICK m \in pendingReqs : overtaken' = overtaken \union {m.order}
    BY <1>1 DEF LateRequest
  <2>2. m.order \in Orders
    BY <2>1, MessageFields DEF IndexTypeOK
  <2>. QED  BY <2>1, <2>2 DEF IndexTypeOK
<1>2. CASE ~\E m \in pendingReqs : LateRequest(m)
  <2>1. overtaken' = overtaken
    BY <1>2 DEF ESNext, ProcessRecord, RequestSucceeds, RequestRejected,
                RequestTimesOut, sinkVars, esVars
  <2>. QED  BY <2>1 DEF IndexTypeOK
<1>. QED  BY <1>1, <1>2

LEMMA IndexTypeStep ==
  ASSUME FeedInv, IndexTypeOK, PendingFromWal, [ESNext]_esVars
  PROVE  IndexTypeOK' /\ PendingFromWal'
<1>1. /\ Len(wal) \in Nat /\ Len(wal') \in Nat /\ Len(wal) <= Len(wal')
      /\ \A l \in 1..Len(wal) : wal'[l] = wal[l]
  BY FeedPart, LogsGrow, FeedTypeStep DEF FeedInv, FeedTypeOK, feedVars
<1>2. \A m \in Messages : FromWal(m, wal) => FromWal(m, wal')
  BY <1>1 DEF FromWal
<1>3. pendingReqs' \subseteq Messages /\ PendingFromWal'
  BY <1>2, PendingPart DEF IndexTypeOK, PendingFromWal
<1>4. ASSUME NEW m, Executed(m)
      PROVE  /\ doc' \in [Orders -> Statuses \union {NoRow}]
             /\ docLsn' \in [Orders -> 0..Len(wal')]
  <2>1. m.order \in Orders /\ m.after \in Statuses \union {NoRow}
    BY <1>4, MessageFields DEF Executed
  <2>2. m.lsn \in 0..Len(wal')
    BY <1>1, <1>4 DEF Executed, FromWal
  <2>3. docLsn' = [docLsn EXCEPT ![m.order] = m.lsn] /\ wal' = wal
    BY <1>4 DEF Executed, Execute
  <2>4. doc' \in [Orders -> Statuses \union {NoRow}]
    BY <1>4, <2>1 DEF Executed, Execute, IndexTypeOK
  <2>. QED  BY <2>1, <2>2, <2>3, <2>4 DEF IndexTypeOK
<1>5. ASSUME UNCHANGED <<doc, docLsn>>
      PROVE  /\ doc' \in [Orders -> Statuses \union {NoRow}]
             /\ docLsn' \in [Orders -> 0..Len(wal')]
  BY <1>1, <1>5 DEF IndexTypeOK
<1>. QED
  BY <1>3, <1>4, <1>5, IndexPart, OvertakenPart DEF IndexTypeOK

----------------------------------------------------------------------------
(* Where a document stems from.  Some record w of the order wrote it, and  *)
(* what Run has passed of the order since has been dead-lettered.          *)

Source(o, w) ==
    \/ w = 0 /\ docLsn[o] = 0
    \/ /\ w \in Offsets
       /\ topic[w].order = o
       /\ topic[w].lsn = docLsn[o]
       /\ docLsn[o] > 0

Passed(o, w, n) ==
    \A j \in Offsets :
        w < j /\ j < n /\ topic[j].order = o => j \in DeadLettered

(* Between two records.                                                    *)
Between == pc \in {"ready", "loop", "consume"} /\ (pc = "loop" => running)

(* After the second fault the committed offset may be ahead of the record  *)
(* in hand, until that is committed in its turn.                           *)
Rewinding ==
    faults = 2 /\ assigned /\ running /\ pc \in {"attempt", "call", "commit"}

Served(o, w) ==
    /\ Source(o, w)
    /\ assigned /\ Between => Passed(o, w, position)
    /\ pc \in InHand => Passed(o, w, msg)
    /\ pc = "commit" => Passed(o, w, msg + 1)
    /\ Rewinding \/ Passed(o, w, ResumeOffset)

ServedInv ==
    faults <= 2 =>
        \A o \in Orders \ overtaken : \E w \in 0..Len(topic) : Served(o, w)

(* A document is what the change it was last written from left of the      *)
(* order.                                                                  *)
DocMatchesLsn ==
    \A o \in Orders :
        IF docLsn[o] = 0
        THEN doc[o] = NoRow
        ELSE /\ wal[docLsn[o]].order = o
             /\ doc[o] = wal[docLsn[o]].after

ESInv ==
    /\ FeedInv
    /\ DeliveryInv
    /\ RewindInv
    /\ TwoFaultInv
    /\ EmissionIsComplete
    /\ IndexTypeOK
    /\ PendingFromWal
    /\ DocMatchesLsn
    /\ ServedInv

LEMMA ESInvInit == ESInit => ESInv
<1> SUFFICES ASSUME ESInit PROVE ESInv
  OBVIOUS
<1>1. /\ FeedInv /\ DeliveryInv /\ RewindInv /\ TwoFaultInv
  BY FeedInvInit, DeliveryInit, RewindInit, TwoFaultInit DEF ESInit
<1>2. Len(topic) = 0 /\ Len(wal) = 0 /\ pc = "down" /\ ~assigned
      /\ Offsets = {}
  BY DEF ESInit, ConsumerInit, FeedInit, Offsets
<1>3. EmissionIsComplete /\ PendingFromWal
  BY <1>2 DEF EmissionIsComplete, PendingFromWal, ESInit
<1>4. IndexTypeOK
  BY <1>2 DEF ESInit, IndexTypeOK
<1>5. ASSUME NEW o \in Orders PROVE Served(o, 0)
  BY <1>2 DEF ESInit, Served, Source, Passed, Between, InHand
<1>6. ServedInv
  BY <1>2, <1>5 DEF ServedInv
<1>7. DocMatchesLsn
  BY DEF ESInit, DocMatchesLsn
<1>. QED  BY <1>1, <1>3, <1>4, <1>6, <1>7 DEF ESInv

(* Passed, after a step.                                                   *)
PassedAfter(o, w, n) ==
    \A j \in Offsets' :
        w < j /\ j < n /\ topic'[j].order = o => j \in DeadLettered'

LEMMA DeadLettersStay ==
  ASSUME [ConsumerNext]_consumerVars
  PROVE  DeadLettered \subseteq DeadLettered'
<1> USE DEF DeadLettered, dlqVars
<1>1. CASE DecodeFails  BY <1>1 DEF DecodeFails, RouteToDLQ
<1>2. CASE RetriesExhausted  BY <1>2 DEF RetriesExhausted, RouteToDLQ
<1>3. CASE ExitLoop  BY <1>3 DEF ExitLoop
<1>4. CASE Crash  BY <1>4 DEF Crash
<1>5. CASE \E o \in dlqQueue : DlqDelivered(o) \/ DlqExpires(o)
  BY <1>5 DEF DlqDelivered, DlqExpires
<1>6. CASE UNCHANGED dlqVars  BY <1>6
<1>7. \/ DecodeFails \/ RetriesExhausted \/ ExitLoop \/ Crash
      \/ \E o \in dlqQueue : DlqDelivered(o) \/ DlqExpires(o)
      \/ UNCHANGED dlqVars
  BY ActionsOfNext
  DEF ConsumerAction, Publish, RunBegins, LoopTest, ConsumeNothing,
      ConsumeMessage, DecodeSucceeds, BeginAttempt, Abandon, CommitSync,
      CommitFails, ProcessReturns, ProcessThrows, Construct, Assign,
      LoseAssignment, Stop, consumerVars
<1>. QED  BY <1>1, <1>2, <1>3, <1>4, <1>5, <1>6, <1>7

(* Offsets stay within what has been published.                            *)
LEMMA OffsetsAreBounded ==
  ASSUME DeliveryInv
  PROVE  /\ Len(topic) \in Nat
         /\ ResumeOffset <= Len(topic) + 1
         /\ Holding => msg \in 1..Len(topic)
         /\ assigned /\ Between => position <= Len(topic) + 1
<1>1. /\ Len(topic) \in Nat /\ committed \in Nat /\ position \in Nat \ {0}
      /\ Settled \subseteq 1..Len(topic)
      /\ Holding => msg \in 1..Len(topic)
  BY DEF DeliveryInv, TypeOK, Offsets, Holding
<1>2. ResumeOffset <= Len(topic) + 1
  <2>1. CASE committed <= 1
    BY <1>1, <2>1 DEF ResumeOffset
  <2>2. CASE committed > 1
    <3>1. committed - 1 \in Settled
      BY <1>1, <2>2 DEF DeliveryInv, CommittedIsSettled
    <3>2. committed - 1 \in 1..Len(topic)  BY <1>1, <3>1
    <3>3. committed - 1 <= Len(topic)  BY <1>1, <3>2
    <3>. QED  BY <1>1, <2>2, <3>3 DEF ResumeOffset
  <2>. QED  BY <1>1, <2>1, <2>2
<1>3. ASSUME assigned, Between PROVE position <= Len(topic) + 1
  <2>1. 1..(position - 1) \subseteq Settled
    BY <1>3 DEF DeliveryInv, PositionInOrder, Reading, HeldOffset, Between,
                InHand
  <2>2. CASE position > 1
    <3>1. position - 1 \in Settled  BY <1>1, <2>1, <2>2
    <3>2. position - 1 \in 1..Len(topic)  BY <1>1, <3>1
    <3>. QED  BY <1>1, <3>2
  <2>3. CASE position = 1  BY <1>1, <2>3
  <2>. QED  BY <1>1, <2>2, <2>3
<1>. QED  BY <1>1, <1>2, <1>3

(* What was passed stays passed, and the record in hand is passed by being *)
(* dead-lettered or by not being the order's.                              *)
LEMMA PassedStays ==
  ASSUME ESInv, [ESNext]_esVars, NEW o, NEW w \in Nat,
         NEW n \in Int, n <= Len(topic) + 1, Passed(o, w, n)
  PROVE  PassedAfter(o, w, n)
<1>1. DeadLettered \subseteq DeadLettered'
  BY StepIsConsumerStep, DeadLettersStay DEF ESInv, FeedInv
<1>2. /\ Len(topic) \in Nat /\ Offsets = 1..Len(topic)
      /\ Offsets' \subseteq Nat
      /\ \A i \in Offsets : topic'[i] = topic[i]
  <2>1. TypeOK /\ FeedTypeOK /\ TypeOK'
    BY StepIsConsumerStep, TypeStep DEF ESInv, FeedInv
  <2>2. Len(topic') \in Nat  BY <2>1 DEF TypeOK
  <2>. QED  BY <2>1, <2>2, FeedPart, LogsGrow DEF TypeOK, Offsets
<1> SUFFICES ASSUME NEW j \in Offsets', w < j, j < n, topic'[j].order = o
             PROVE  j \in DeadLettered'
  BY DEF PassedAfter
<1>3. j \in Offsets  BY <1>2
<1>. QED  BY <1>1, <1>2, <1>3 DEF Passed

LEMMA PassedLess ==
  ASSUME TypeOK', NEW o, NEW w \in Nat, NEW n \in Int, NEW k \in Int, k <= n,
         PassedAfter(o, w, n)
  PROVE  PassedAfter(o, w, k)
<1>1. Offsets' \subseteq Int
  <2>1. Len(topic') \in Nat  BY DEF TypeOK
  <2>. QED  BY <2>1 DEF Offsets
<1>. QED  BY <1>1 DEF PassedAfter

LEMMA HeldIsPassed ==
  ASSUME ESInv, [ESNext]_esVars, NEW o, NEW w \in Nat,
         pc \in InHand, Passed(o, w, msg),
         topic[msg].order # o \/ msg \in DeadLettered'
  PROVE  PassedAfter(o, w, msg + 1)
<1>1. /\ Len(topic) \in Nat /\ msg \in 1..Len(topic) /\ TypeOK'
      /\ topic'[msg] = topic[msg]
  <2>1. Len(topic) \in Nat /\ msg \in 1..Len(topic)
    BY OffsetsAreBounded DEF ESInv, Holding
  <2>2. TypeOK /\ FeedTypeOK /\ TypeOK'
    BY StepIsConsumerStep, TypeStep DEF ESInv, FeedInv
  <2>. QED  BY <2>1, <2>2, FeedPart, LogsGrow DEF Offsets
<1>2. PassedAfter(o, w, msg)
  BY <1>1, PassedStays
<1>3. Offsets' \subseteq Int
  <2>1. Len(topic') \in Nat  BY <1>1 DEF TypeOK
  <2>. QED  BY <2>1 DEF Offsets
<1> SUFFICES ASSUME NEW j \in Offsets', w < j, j < msg + 1,
                    topic'[j].order = o
             PROVE  j \in DeadLettered'
  BY DEF PassedAfter
<1>4. CASE j = msg  BY <1>1, <1>4
<1>5. CASE j < msg  BY <1>2, <1>5 DEF PassedAfter
<1>. QED  BY <1>1, <1>3, <1>4, <1>5

----------------------------------------------------------------------------
(* A document that a step does not write keeps its source.                 *)

ServedAfter(o, w) ==
    /\ assigned' /\ Between' => PassedAfter(o, w, position')
    /\ pc' \in InHand => PassedAfter(o, w, msg')
    /\ pc' = "commit" => PassedAfter(o, w, msg' + 1)
    /\ Rewinding' \/ PassedAfter(o, w, ResumeOffset')

LEMMA KeepsServing ==
  ASSUME ESInv, [ESNext]_esVars, faults' <= 2,
         NEW o \in Orders, NEW w \in Nat, Served(o, w),
         pc = "call" /\ pc' = "commit" => topic[msg].order # o
  PROVE  ServedAfter(o, w)
<1>1. /\ [ConsumerNext]_consumerVars /\ TypeOK /\ TypeOK' /\ OneFaultInv
      /\ TwoFaultInv /\ DeliveryInv
  BY StepIsConsumerStep, TypeStep DEF ESInv, FeedInv, RewindInv
<1>2. /\ committed \in Nat /\ position \in Nat /\ msg \in Nat
      /\ faults \in Nat /\ faults' \in Nat /\ faults <= faults'
      /\ ResumeOffset \in Nat \ {0} /\ position' \in Nat
  BY <1>1, Numbers DEF TypeOK
<1>3. /\ assigned /\ Between => PassedAfter(o, w, position)
      /\ pc \in InHand => PassedAfter(o, w, msg)
      /\ pc = "commit" => PassedAfter(o, w, msg + 1)
      /\ Rewinding \/ PassedAfter(o, w, ResumeOffset)
  BY <1>1, <1>2, OffsetsAreBounded, PassedStays DEF Served, Holding
<1>4. /\ PassedAfter(o, w, msg + 1) /\ position <= msg + 1
           => PassedAfter(o, w, position)
      /\ pc \in InHand /\ (topic[msg].order # o \/ msg \in DeadLettered')
           => PassedAfter(o, w, msg + 1)
  BY <1>1, <1>2, PassedLess, HeldIsPassed DEF Served
<1> USE <1>1, <1>2, <1>3, <1>4
    DEF OneFaultInv, TwoFaultInv, ServedAfter, Between, Rewinding, Holding,
        InHand, InLoopBody, Alive, ResumeOffset, groupVars, threadVars,
        FaultBudget
<1> HIDE DEF PassedAfter
<1>5. ASSUME NEW m \in Messages, Publish(m) PROVE ServedAfter(o, w)
  BY <1>5 DEF Publish
<1>6. CASE RunBegins  BY <1>6 DEF RunBegins
<1>7. CASE LoopTest  BY <1>7 DEF LoopTest
<1>8. CASE ConsumeNothing  BY <1>8 DEF ConsumeNothing
<1>9. CASE ConsumeMessage  BY <1>9 DEF ConsumeMessage
<1>10. CASE DecodeSucceeds  BY <1>10 DEF DecodeSucceeds
<1>11. CASE DecodeFails
  <2>1. /\ pc = "decode" /\ msg' = msg /\ faults' = faults
        /\ running' = running /\ UNCHANGED groupVars
        /\ pc' = "dead" \/ (pc' = "commit" /\ msg \in DeadLettered')
    BY <1>11 DEF DecodeFails, RouteToDLQ, DeadLettered
  <2>. QED  BY <2>1
<1>12. CASE BeginAttempt  BY <1>12 DEF BeginAttempt
<1>13. CASE RetriesExhausted
  <2>1. /\ pc = "attempt" /\ msg' = msg /\ faults' = faults
        /\ running' = running /\ UNCHANGED groupVars
        /\ pc' = "commit" /\ msg \in DeadLettered'
    BY <1>13 DEF RetriesExhausted, RouteToDLQ, DumpThrows, DeadLettered
  <2>. QED  BY <2>1
<1>14. CASE Abandon  BY <1>14 DEF Abandon
<1>15. CASE CommitSync  BY <1>15 DEF CommitSync
<1>16. CASE CommitFails  BY <1>16 DEF CommitFails
<1>17. CASE ExitLoop  BY <1>17 DEF ExitLoop
<1>18. CASE ProcessReturns  BY <1>18 DEF ProcessReturns
<1>19. CASE ProcessThrows  BY <1>19 DEF ProcessThrows
<1>20. CASE Construct  BY <1>20 DEF Construct
<1>21. CASE Assign
  <2>1. /\ assigned' /\ ~assigned /\ position' = ResumeOffset
        /\ ResumeOffset' = ResumeOffset /\ msg' = msg /\ pc' = pc
        /\ faults' = faults /\ running' = running /\ pc \in Alive
    BY <1>21 DEF Assign
  <2>. QED  BY <2>1
<1>22. CASE LoseAssignment  BY <1>22 DEF LoseAssignment
<1>23. CASE Stop  BY <1>23 DEF Stop
<1>24. CASE Crash  BY <1>24 DEF Crash
<1>25. ASSUME NEW d \in dlqQueue, DlqDelivered(d) \/ DlqExpires(d)
      PROVE ServedAfter(o, w)
  BY <1>25 DEF DlqDelivered, DlqExpires
<1>26. CASE UNCHANGED consumerVars  BY <1>26 DEF consumerVars
<1>. QED
  BY <1>5, <1>6, <1>7, <1>8, <1>9, <1>10, <1>11, <1>12, <1>13, <1>14, <1>15,
     <1>16, <1>17, <1>18, <1>19, <1>20, <1>21, <1>22, <1>23, <1>24, <1>25,
     <1>26, ActionsOfNext
  DEF ConsumerAction

(* The record in hand becomes the source of the document it writes.        *)
LEMMA StartsServing ==
  ASSUME ESInv, faults' <= 2, ProcessReturns \/ ProcessThrows, NEW o
  PROVE  ServedAfter(o, msg)
<1>1. TypeOK /\ [ConsumerNext]_consumerVars /\ OneFaultInv /\ TwoFaultInv
  BY DEF ESInv, FeedInv, RewindInv, ConsumerNext
<1>2. /\ pc = "call" /\ pc' \in {"commit", "attempt"} /\ msg' = msg
      /\ faults' = faults /\ assigned' = assigned /\ running' = running
      /\ committed' = committed /\ topic' = topic
  BY DEF ProcessReturns, ProcessThrows, groupVars
<1>3. msg \in Nat /\ ResumeOffset \in Nat /\ faults \in Nat
      /\ Offsets' \subseteq Int
  <2>1. Len(topic') \in Nat  BY <1>1, <1>2 DEF TypeOK
  <2>. QED  BY <1>1, <2>1, Numbers DEF Offsets
<1>4. ASSUME NEW n \in Int, n <= msg + 1 PROVE PassedAfter(o, msg, n)
  BY <1>3, <1>4 DEF PassedAfter
<1>5. ResumeOffset' = ResumeOffset
  BY <1>2 DEF ResumeOffset
<1>6. Rewinding' \/ ResumeOffset <= msg + 1
  BY <1>1, <1>2, <1>3 DEF Rewinding, OneFaultInv, TwoFaultInv, Holding, InHand
<1>7. Rewinding' \/ PassedAfter(o, msg, ResumeOffset')
  BY <1>3, <1>4, <1>5, <1>6
<1>8. PassedAfter(o, msg, msg) /\ PassedAfter(o, msg, msg + 1)
  BY <1>3, <1>4
<1>. QED
  BY <1>2, <1>7, <1>8 DEF ServedAfter, Between

LEMMA ServedStep ==
  ASSUME ESInv, [ESNext]_esVars
  PROVE  ServedInv'
<1> SUFFICES ASSUME faults' <= 2, NEW o \in Orders, o \notin overtaken'
             PROVE  \E w \in 0..Len(topic') : Served(o, w)'
  BY DEF ServedInv
<1>1. /\ FeedInv /\ TypeOK /\ FeedTypeOK /\ IndexTypeOK /\ PendingFromWal
      /\ [ConsumerNext]_consumerVars /\ TypeOK'
  BY StepIsConsumerStep, TypeStep DEF ESInv, FeedInv
<1>2. /\ Offsets = 1..Len(topic) /\ Offsets' = 1..Len(topic')
      /\ Len(topic) \in Nat /\ Len(topic') \in Nat
      /\ Offsets \subseteq Offsets'
      /\ \A i \in Offsets : topic'[i] = topic[i]
  BY <1>1, FeedPart, LogsGrow DEF TypeOK, Offsets
<1>3. ASSUME NEW w \in 0..Len(topic), Source(o, w)', ServedAfter(o, w)
      PROVE  \E v \in 0..Len(topic') : Served(o, v)'
  <2>1. w \in 0..Len(topic')  BY <1>2
  <2>2. Served(o, w)'
    BY <1>3 DEF Served, ServedAfter, PassedAfter, Passed
  <2>. QED  BY <2>1, <2>2
<1>4. ASSUME docLsn'[o] = docLsn[o],
             pc = "call" /\ pc' = "commit" => topic[msg].order # o
      PROVE  \E v \in 0..Len(topic') : Served(o, v)'
  <2>1. faults <= 2 /\ o \notin overtaken
    BY <1>1, Numbers, OvertakenPart
  <2>2. PICK w \in 0..Len(topic) : Served(o, w)
    BY <2>1 DEF ESInv, ServedInv
  <2>3. Source(o, w)'
    BY <1>2, <1>4, <2>2 DEF Served, Source
  <2>4. ServedAfter(o, w)
    BY <1>2, <1>4, <2>2, KeepsServing
  <2>. QED  BY <1>3, <2>3, <2>4
<1>5. CASE UNCHANGED <<doc, docLsn>> /\ ~RequestSucceeds
  <2>1. ~(pc = "call" /\ pc' = "commit")
    BY <1>5
    DEF ESNext, ProcessRecord, RequestRejected, RequestTimesOut, LateRequest,
        LoopStep, RunBegins, LoopTest, ConsumeNothing, ConsumeMessage,
        DecodeSucceeds, DecodeFails, BeginAttempt, RetriesExhausted, Abandon,
        CommitSync, CommitFails, ExitLoop, ProcessThrows, Construct, Assign,
        LoseAssignment, Stop, Crash, DlqDelivered, DlqExpires, FeedStep,
        CreateOrder, UpdateOrderStatus, DeleteOrder, CommitChange, Emit,
        EmitTombstone, ConnectorRestarts, Publish, consumerVars, threadVars,
        esVars
  <2>. QED  BY <1>4, <1>5, <2>1
<1>6. CASE (RequestSucceeds \/ RequestTimesOut) /\ Executed(Held)
  <2>1. /\ ProcessReturns \/ ProcessThrows
        /\ Held = topic[msg] /\ topic' = topic /\ pc = "call"
    BY <1>6 DEF RequestSucceeds, RequestTimesOut, ProcessReturns,
                ProcessThrows, Held
  <2>2. msg \in Offsets /\ Held \in Messages
    BY <1>1, <2>1, HeldFromWal
  <2>3. /\ Held.order \in Orders /\ Held.lsn > 0
        /\ docLsn' = [docLsn EXCEPT ![Held.order] = Held.lsn]
    BY <1>1, <1>6, <2>2, MessageFields
    DEF Executed, Execute, FromWal, FeedTypeOK
  <2>4. CASE Held.order = o
    <3>1. /\ docLsn'[o] = topic'[msg].lsn /\ topic'[msg].order = o
          /\ docLsn'[o] > 0
      BY <1>1, <2>1, <2>3, <2>4 DEF IndexTypeOK
    <3>2. msg \in 0..Len(topic) /\ msg \in Offsets' /\ msg' = msg
      BY <1>2, <2>1, <2>2 DEF ProcessReturns, ProcessThrows
    <3>3. Source(o, msg)'
      BY <3>1, <3>2 DEF Source
    <3>4. ServedAfter(o, msg)
      BY <2>1, StartsServing
    <3>5. Served(o, msg)'
      BY <3>2, <3>3, <3>4 DEF Served, ServedAfter, PassedAfter, Passed
    <3>. QED  BY <1>2, <3>2, <3>5
  <2>5. CASE Held.order # o
    <3>1. docLsn'[o] = docLsn[o]
      BY <1>1, <2>3, <2>5 DEF IndexTypeOK
    <3>. QED  BY <1>4, <2>1, <2>5, <3>1
  <2>. QED  BY <2>4, <2>5
<1>7. ASSUME NEW m \in pendingReqs, LateRequest(m), Executed(m)
      PROVE  \E v \in 0..Len(topic') : Served(o, v)'
  <2>1. m.order # o /\ m.order \in Orders
    BY <1>7, MessageFields DEF LateRequest, Executed
  <2>2. docLsn'[o] = docLsn[o]
    BY <1>1, <1>7, <2>1 DEF Executed, Execute, IndexTypeOK
  <2>3. pc' = pc
    BY <1>7 DEF LateRequest, consumerVars, threadVars
  <2>. QED  BY <1>4, <2>2, <2>3
<1>8. RequestSucceeds => Executed(Held)
  BY <1>1, HeldFromWal DEF RequestSucceeds, ProcessReturns, Executed, feedVars
<1>. QED
  BY <1>1, <1>5, <1>6, <1>7, <1>8, IndexPart

LEMMA DocStep ==
  ASSUME ESInv, [ESNext]_esVars
  PROVE  DocMatchesLsn'
<1>1. /\ FeedInv /\ TypeOK /\ FeedTypeOK /\ IndexTypeOK /\ PendingFromWal
      /\ DocMatchesLsn
  BY DEF ESInv, FeedInv
<1>2. /\ Len(wal) \in Nat
      /\ \A l \in 1..Len(wal) : wal'[l] = wal[l]
  BY <1>1, FeedPart, LogsGrow DEF FeedTypeOK
<1>3. CASE UNCHANGED <<doc, docLsn>>
  BY <1>1, <1>2, <1>3 DEF DocMatchesLsn, IndexTypeOK
<1>4. ASSUME NEW m, Executed(m) PROVE DocMatchesLsn'
  <2>1. /\ m.order \in Orders /\ m.lsn \in 1..Len(wal) /\ wal' = wal
        /\ m.order = wal[m.lsn].order /\ m.after = wal[m.lsn].after
    BY <1>4, MessageFields DEF Executed, FromWal
  <2>2. IsDelete(m) => m.after = NoRow
    BY <1>1, <1>4, <2>1 DEF IsDelete, FeedInv, DeletesLeaveNoRow, Executed,
                            FromWal
  <2>3. /\ doc' = [doc EXCEPT ![m.order] = m.after]
        /\ docLsn' = [docLsn EXCEPT ![m.order] = m.lsn]
    BY <1>4, <2>2 DEF Executed, Execute
  <2>4. /\ doc'[m.order] = m.after /\ docLsn'[m.order] = m.lsn
        /\ \A o \in Orders \ {m.order} :
              doc'[o] = doc[o] /\ docLsn'[o] = docLsn[o]
    BY <1>1, <2>1, <2>3 DEF IndexTypeOK
  <2>. QED  BY <1>1, <1>2, <2>1, <2>4 DEF DocMatchesLsn
<1>. QED  BY <1>1, <1>3, <1>4, IndexPart

LEMMA ESInvStep ==
  ASSUME ESInv, [ESNext]_esVars
  PROVE  ESInv'
<1>1. [ConsumerNext]_consumerVars /\ (FeedStep \/ UNCHANGED <<feedVars, topic>>)
      /\ TypeOK /\ FeedTypeOK
  BY StepIsConsumerStep, FeedPart DEF ESInv, FeedInv
<1>2. FeedInv' /\ DeliveryInv' /\ RewindInv' /\ EmissionIsComplete'
  BY <1>1, FeedInvStep, DeliveryStep, RewindStep, EmissionStep DEF ESInv
<1>3. TwoFaultInv'
  BY <1>1, TwoFaultStep DEF ESInv, RewindInv
<1>4. IndexTypeOK' /\ PendingFromWal'
  BY IndexTypeStep DEF ESInv
<1>. QED  BY <1>2, <1>3, <1>4, ServedStep, DocStep DEF ESInv

LEMMA ESInvariant == ESSpec => []ESInv
<1>1. ESInv /\ [ESNext]_esVars => ESInv'
  BY ESInvStep
<1>. QED  BY ESInvInit, <1>1, PTL DEF ESSpec

(* Every variable of the indexer keeps its type.                           *)
THEOREM ESTypeCorrect == ESSpec => []ESTypeOK
<1>1. ESInv => ESTypeOK  BY DEF ESInv, FeedInv, IndexTypeOK, ESTypeOK
<1>. QED  BY ESInvariant, <1>1, PTL

----------------------------------------------------------------------------
(* A document that is behind a processed record will be written again.     *)

LEMMA LaterChangeIsAhead ==
  ASSUME ESInv, faults < 3, NEW o \in Orders, o \notin overtaken,
         NEW w \in Nat, Served(o, w),
         NEW j \in Offsets, j > w, topic[j].order = o
  PROVE  \/ j >= NextOffset
         \/ pc \in InHand /\ j = msg
         \/ j \in DeadLettered
<1> SUFFICES ASSUME j < NextOffset, ~(pc \in InHand /\ j = msg)
             PROVE  j \in DeadLettered
  <2>1. j \in Int /\ NextOffset \in Int
    BY DEF ESInv, FeedInv, TypeOK, Offsets, NextOffset, ResumeOffset
  <2>. QED  BY <2>1
<1>1. /\ TypeOK /\ TwoFaultInv /\ faults \in Nat /\ j \in Int
      /\ position \in Nat /\ msg \in Nat
  BY DEF ESInv, FeedInv, TypeOK, Offsets
<1>2. CASE assigned /\ running /\ pc # "dead"
  <2>1. NextOffset = position /\ j < position
    BY <1>2 DEF NextOffset
  <2>2. Between \/ Holding
    BY <1>1, <1>2 DEF TwoFaultInv, Alive, InLoopBody, Between, Holding, InHand
  <2>3. CASE Between
    BY <1>2, <2>1, <2>3 DEF Served, Passed
  <2>4. CASE Holding
    <3>1. j < msg + 1  BY <1>1, <1>2, <2>1, <2>4 DEF TwoFaultInv
    <3>2. CASE pc = "commit"
      BY <3>1, <3>2 DEF Served, Passed
    <3>3. CASE pc \in InHand
      <4>1. j < msg  BY <1>1, <3>1, <3>3
      <4>. QED  BY <3>3, <4>1 DEF Served, Passed
    <3>. QED  BY <2>4, <3>2, <3>3 DEF Holding
  <2>. QED  BY <2>2, <2>3, <2>4
<1>3. CASE ~(assigned /\ running /\ pc # "dead")
  <2>1. NextOffset = ResumeOffset /\ j < ResumeOffset
    BY <1>3 DEF NextOffset
  <2>2. ~Rewinding
    BY <1>3 DEF Rewinding
  <2>. QED  BY <2>1, <2>2 DEF Served, Passed
<1>. QED  BY <1>2, <1>3

LEMMA BehindIsAhead ==
  ASSUME ESInv
  PROVE  RegressionIsRepaired
<1> SUFFICES ASSUME faults < 3, NEW i \in sunk,
                    topic[i].order \notin overtaken,
                    ~(docLsn[topic[i].order] >= topic[i].lsn)
             PROVE  StillAhead(topic[i].order, topic[i].lsn)
  BY DEF RegressionIsRepaired
<1> DEFINE o == topic[i].order
           l == topic[i].lsn
<1>1. /\ FeedInv /\ faults \in Nat /\ emitted \in Nat
      /\ i \in Offsets /\ topic[i] \in Messages /\ Offsets \subseteq Nat
      /\ Len(topic) \in Nat /\ IndexTypeOK /\ Len(wal) \in Nat
  BY DEF ESInv, FeedInv, TypeOK, FeedTypeOK, Settled, Offsets
<1>2. o \in Orders /\ l \in Nat
  BY <1>1, MessageFields
<1>3. docLsn[o] \in Nat /\ docLsn[o] < l
  BY <1>1, <1>2 DEF IndexTypeOK
<1>4. FromWal(topic[i], wal)
  BY <1>1, <1>2, <1>3, EventIsFromWal, TombstonesHaveNoLsn
<1>5. PICK w \in 0..Len(topic) : Served(o, w)
  BY <1>1, <1>2 DEF ESInv, ServedInv
<1>6. CASE emitted < l
  BY <1>6 DEF StillAhead
<1>7. CASE l <= emitted
  <2>1. \E j \in Offsets : j > w /\ topic[j].order = o /\ topic[j].lsn >= l
    <3>1. CASE w = 0
      <4>1. i > w  BY <1>1, <3>1 DEF Offsets
      <4>. QED  BY <1>1, <1>2, <4>1
    <3>2. CASE w \in Offsets /\ topic[w].lsn = docLsn[o] /\ docLsn[o] > 0
      <4>1. topic[w].lsn \in 1..(l - 1) /\ l \in 1..emitted
        BY <1>1, <1>2, <1>3, <1>7, <3>2
      <4>2. PICK k \in Offsets : k > w /\ topic[k].lsn = l
        BY <3>2, <4>1 DEF ESInv, EmissionIsComplete
      <4>3. FromWal(topic[k], wal)
        BY <1>1, <1>2, <1>3, <4>2, EventIsFromWal, TombstonesHaveNoLsn
      <4>4. topic[k].order = o
        BY <1>4, <4>2, <4>3 DEF FromWal
      <4>. QED  BY <1>2, <4>2, <4>4
    <3>. QED  BY <1>5, <3>1, <3>2 DEF Served, Source
  <2>2. PICK j \in Offsets : j > w /\ topic[j].order = o /\ topic[j].lsn >= l
    BY <2>1
  <2>3. \/ j >= NextOffset
        \/ pc \in InHand /\ j = msg
        \/ j \in DeadLettered
    BY <1>2, <1>5, <2>2, LaterChangeIsAhead
  <2>. QED  BY <2>2, <2>3 DEF StillAhead
<1>. QED  BY <1>1, <1>2, <1>6, <1>7

(* With fewer than three faults a document that is behind a processed      *)
(* record is going to be written again, whatever is redelivered, repeated  *)
(* by Debezium or dead-lettered.                                           *)
THEOREM RegressionsAreRepaired == ESSpec => []RegressionIsRepaired
<1>1. ESInv => RegressionIsRepaired  BY BehindIsAhead
<1>. QED  BY ESInvariant, <1>1, PTL

----------------------------------------------------------------------------
(* When everything has been read the index shows the table.                *)

(* The record of an order's last change is its source, or is behind the    *)
(* source's back and so has been passed, or handled, or dead-lettered.     *)
LEMMA LatestIsShown ==
  ASSUME ESInv, faults < 3, emitted = Len(wal),
         NextOffset > Len(topic), pc \notin InHand,
         NEW o \in Orders, o \notin overtaken, NEW l, IsLatest(o, l)
  PROVE  \/ doc[o] = wal[l].after
         \/ \E i \in DeadLettered : topic[i].lsn = l
<1>1. /\ FeedInv /\ faults \in Nat /\ Len(topic) \in Nat /\ Len(wal) \in Nat
      /\ Offsets = 1..Len(topic) /\ docLsn[o] \in 0..Len(wal)
      /\ l \in 1..Len(wal) /\ NextOffset \in Int
  BY DEF ESInv, FeedInv, TypeOK, FeedTypeOK, Offsets, IndexTypeOK, IsLatest,
         NextOffset, ResumeOffset
<1>2. CASE docLsn[o] = l
  BY <1>1, <1>2 DEF ESInv, DocMatchesLsn
<1>3. CASE docLsn[o] # l
  <2>1. docLsn[o] < l
    BY <1>1, <1>3 DEF ESInv, DocMatchesLsn, IsLatest
  <2>2. PICK w \in 0..Len(topic) : Served(o, w)
    BY <1>1 DEF ESInv, ServedInv
  <2>3. \E i \in Offsets : i > w /\ topic[i].lsn = l
    <3>1. CASE w = 0
      <4>1. PICK i \in Offsets : topic[i].lsn = l
        BY <1>1, LatestIsInTopic
      <4>. QED  BY <1>1, <3>1, <4>1
    <3>2. CASE w \in Offsets /\ topic[w].lsn = docLsn[o] /\ docLsn[o] > 0
      <4>1. topic[w].lsn \in 1..(l - 1) /\ l \in 1..emitted
        BY <1>1, <2>1, <3>2
      <4>. QED  BY <3>2, <4>1 DEF ESInv, EmissionIsComplete
    <3>. QED  BY <2>2, <3>1, <3>2 DEF Served, Source
  <2>4. PICK i \in Offsets : i > w /\ topic[i].lsn = l
    BY <2>3
  <2>5. topic[i].order = o
    <3>1. FromWal(topic[i], wal)
      BY <1>1, <2>4, EventIsFromWal, TombstonesHaveNoLsn
    <3>. QED  BY <2>4, <3>1 DEF FromWal, IsLatest
  <2>6. \/ i >= NextOffset
        \/ pc \in InHand /\ i = msg
        \/ i \in DeadLettered
    BY <2>2, <2>4, <2>5, LaterChangeIsAhead
  <2>. QED  BY <1>1, <2>4, <2>6
<1>. QED  BY <1>2, <1>3

LEMMA UnknownHasNoDocument ==
  ASSUME ESInv, NEW o \in Orders, \A l \in 1..Len(wal) : wal[l].order # o
  PROVE  doc[o] = NoRow
<1>1. docLsn[o] \in 0..Len(wal) /\ Len(wal) \in Nat
  BY DEF ESInv, IndexTypeOK, FeedInv, FeedTypeOK
<1>2. docLsn[o] = 0
  BY <1>1 DEF ESInv, DocMatchesLsn
<1>. QED  BY <1>2 DEF ESInv, DocMatchesLsn

(* Nothing left to emit or to read: with fewer than three faults the index *)
(* shows the table, but for late requests and dead letters.                *)
THEOREM NothingLeftMeansIndexShowsTable == ESSpec => []IndexShowsTable
<1>1. ASSUME ESInv PROVE IndexShowsTable
  <2> SUFFICES ASSUME faults < 3, emitted = Len(wal),
                      NextOffset > Len(topic), pc \notin InHand,
                      NEW o \in Orders, o \notin overtaken
               PROVE  \/ doc[o] = row[o]
                      \/ \E i \in DeadLettered : IsLatest(o, topic[i].lsn)
    BY DEF IndexShowsTable
  <2>1. CASE row[o] = NoRow /\ \A l \in 1..Len(wal) : wal[l].order # o
    BY <1>1, <2>1, UnknownHasNoDocument
  <2>2. ASSUME NEW l, IsLatest(o, l), row[o] = wal[l].after
        PROVE  \/ doc[o] = row[o]
               \/ \E i \in DeadLettered : IsLatest(o, topic[i].lsn)
    BY <1>1, <2>2, LatestIsShown
  <2>. QED  BY <1>1, <2>1, <2>2 DEF ESInv, FeedInv, RowIsLatest
<1>. QED  BY ESInvariant, <1>1, PTL

(* The indexer is an instance of the consumer loop ...                     *)
THEOREM IndexerIsConsumer == ESSpec => ConsumerSpec
<1>1. ESInit => ConsumerInit  BY DEF ESInit
<1>2. ESInv /\ [ESNext]_esVars => [ConsumerNext]_consumerVars
  BY StepIsConsumerStep DEF ESInv, FeedInv
<1>. QED  BY ESInvariant, <1>1, <1>2, PTL DEF ESSpec, ConsumerSpec

(* ... and implements the abstract consumer.                               *)
THEOREM IndexerDelivers == ESSpec => DeliverySpec
  BY IndexerIsConsumer, DeliveryIsImplemented, PTL
=============================================================================
