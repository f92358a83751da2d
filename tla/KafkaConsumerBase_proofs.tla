---------------------- MODULE KafkaConsumerBase_proofs ----------------------
(* Proofs about KafkaConsumerBase, for every set of messages and every     *)
(* value of the bounds.                                                    *)
EXTENDS KafkaConsumerBase, TLAPS

ConsumerAction ==
    \/ \E m \in Messages : Publish(m)
    \/ RunBegins \/ LoopTest \/ ConsumeNothing \/ ConsumeMessage
    \/ DecodeSucceeds \/ DecodeFails
    \/ BeginAttempt \/ RetriesExhausted \/ Abandon
    \/ CommitSync \/ CommitFails \/ ExitLoop
    \/ ProcessReturns \/ ProcessThrows
    \/ Construct \/ Assign \/ LoseAssignment \/ Stop \/ Crash
    \/ \E o \in dlqQueue : DlqDelivered(o) \/ DlqExpires(o)

LEMMA ActionsOfNext == ConsumerNext <=> ConsumerAction
  BY DEF ConsumerNext, ConsumerAction, LoopStep, EnvironmentStep

(* Every variable keeps its type. *)
LEMMA TypeInit == ConsumerInit => TypeOK
<1> SUFFICES ASSUME ConsumerInit PROVE TypeOK
  OBVIOUS
<1>1. topic \in Seq(Messages)
  BY DEF ConsumerInit
<1>2. pc \in Locations /\ pc \notin InHand \union {"commit"}
  BY DEF ConsumerInit, Locations, InHand
<1>3. Settled \subseteq Offsets
  BY DEF ConsumerInit, Settled
<1>4. /\ committed \in Nat /\ position \in Nat \ {0}
      /\ msg \in Nat /\ attempt \in Nat /\ faults \in Nat
  BY DEF ConsumerInit
<1>5. /\ assigned \in BOOLEAN /\ running \in BOOLEAN
      /\ schemaKnown \in BOOLEAN /\ dlqProducer \in BOOLEAN
  BY DEF ConsumerInit
<1>. QED  BY <1>1, <1>2, <1>3, <1>4, <1>5, Zenon DEF TypeOK

LEMMA TypeStep ==
  ASSUME TypeOK, [ConsumerNext]_consumerVars
  PROVE  TypeOK'
<1> USE BoundsAssumption
           DEF TypeOK, Settled, Offsets, Locations, Alive, InLoopBody, InHand,
               groupVars, threadVars, dlqVars, FaultBudget
<1>1. ASSUME NEW m \in Messages, Publish(m) PROVE TypeOK'
  <2>1. Len(topic') = Len(topic) + 1 /\ topic' \in Seq(Messages)
    BY <1>1 DEF Publish
  <2>. QED  BY <1>1, <2>1 DEF Publish
<1>2. CASE RunBegins  BY <1>2 DEF RunBegins
<1>3. CASE LoopTest  BY <1>3 DEF LoopTest
<1>4. CASE ConsumeNothing  BY <1>4 DEF ConsumeNothing
<1>5. CASE ConsumeMessage  BY <1>5 DEF ConsumeMessage
<1>6. CASE DecodeSucceeds  BY <1>6 DEF DecodeSucceeds
<1>7. CASE DecodeFails  BY <1>7 DEF DecodeFails, RouteToDLQ
<1>8. CASE RetriesExhausted  BY <1>8 DEF RetriesExhausted, RouteToDLQ
<1>9. CASE Abandon  BY <1>9 DEF Abandon
<1>10. CASE CommitSync  BY <1>10 DEF CommitSync
<1>11. CASE CommitFails  BY <1>11 DEF CommitFails
<1>12. CASE ExitLoop  BY <1>12 DEF ExitLoop
<1>13. CASE ProcessReturns  BY <1>13 DEF ProcessReturns
<1>14. CASE ProcessThrows  BY <1>14 DEF ProcessThrows
<1>15. CASE Construct  BY <1>15 DEF Construct
<1>16. CASE Assign  BY <1>16 DEF Assign, ResumeOffset
<1>17. CASE LoseAssignment
  <2>1. faults' \in Nat  BY <1>17 DEF LoseAssignment
  <2>. QED  BY <1>17, <2>1 DEF LoseAssignment
<1>18. CASE Stop
  <2>1. faults' \in Nat  BY <1>18 DEF Stop
  <2>. QED  BY <1>18, <2>1 DEF Stop
<1>19. CASE Crash
  <2>1. faults' \in Nat  BY <1>19 DEF Crash
  <2>. QED  BY <1>19, <2>1 DEF Crash
<1>20. ASSUME NEW o \in dlqQueue, DlqDelivered(o) \/ DlqExpires(o)
       PROVE TypeOK'
  BY <1>20 DEF DlqDelivered, DlqExpires
<1>21. CASE UNCHANGED consumerVars  BY <1>21 DEF consumerVars
<1>22. CASE BeginAttempt  BY <1>22 DEF BeginAttempt
<1>. QED
  BY <1>1, <1>2, <1>3, <1>4, <1>5, <1>6, <1>7, <1>8, <1>9, <1>10, <1>11,
     <1>12, <1>13, <1>14, <1>15, <1>16, <1>17, <1>18, <1>19, <1>20, <1>21, <1>22,
     ActionsOfNext
  DEF ConsumerAction

(* Every variable of the consumer loop keeps its type. *)
THEOREM TypeCorrect == ConsumerSpec => []TypeOK
<1>1. TypeOK /\ [ConsumerNext]_consumerVars => TypeOK'
  BY TypeStep
<1>. QED  BY TypeInit, <1>1, PTL DEF ConsumerSpec
----------------------------------------------------------------------------
(* The inductive invariant of delivery.  CommittedIsSettled is not         *)
(* inductive by itself: a commit is safe because the held message and all  *)
(* before it are settled by then, which follows from where consume() was   *)
(* allowed to start.                                                       *)

(* Records before the one in hand are settled, and at the commit it is too.*)
HeldInOrder ==
    /\ pc \in InHand => 1..(msg - 1) \subseteq Settled
    /\ pc = "commit" => 1..msg \subseteq Settled

HeldOffset == IF pc \in InHand THEN {msg} ELSE {}

(* An abandoned record is skipped by `position`, but then the loop ends.   *)
Reading == assigned /\ pc # "dead" /\ (pc = "loop" => running)

PositionInOrder == Reading => 1..(position - 1) \subseteq Settled \union HeldOffset

DeliveryInv ==
    /\ TypeOK
    /\ CommittedIsSettled
    /\ HandledInOrder
    /\ HeldInOrder
    /\ PositionInOrder

LEMMA DeliveryInit == ConsumerInit => DeliveryInv
<1> SUFFICES ASSUME ConsumerInit PROVE DeliveryInv
  OBVIOUS
<1>1. TypeOK  BY TypeInit
<1>. QED
  BY <1>1 DEF ConsumerInit, DeliveryInv, CommittedIsSettled, HandledInOrder,
              HeldInOrder, PositionInOrder, Reading, HeldOffset, InHand, Settled

(* What a step does to Settled: it grows by the message in hand, once all  *)
(* before it are settled, or stays as it is.                               *)
LEMMA SettledStep ==
  ASSUME TypeOK, [ConsumerNext]_consumerVars
  PROVE  \/ Settled' = Settled
         \/ /\ pc \in InHand
            /\ Settled' = Settled \union {msg}
<1> USE DEF Settled, InHand, groupVars, threadVars, dlqVars
<1>1. ASSUME NEW m \in Messages, Publish(m) PROVE Settled' = Settled
  BY <1>1 DEF Publish
<1>2. CASE RunBegins  BY <1>2 DEF RunBegins
<1>3. CASE LoopTest  BY <1>3 DEF LoopTest
<1>4. CASE ConsumeNothing  BY <1>4 DEF ConsumeNothing
<1>5. CASE ConsumeMessage  BY <1>5 DEF ConsumeMessage
<1>6. CASE DecodeSucceeds  BY <1>6 DEF DecodeSucceeds
<1>7. CASE DecodeFails  BY <1>7 DEF DecodeFails, RouteToDLQ
<1>8. CASE RetriesExhausted  BY <1>8 DEF RetriesExhausted, RouteToDLQ
<1>9. CASE Abandon  BY <1>9 DEF Abandon
<1>10. CASE CommitSync  BY <1>10 DEF CommitSync
<1>11. CASE CommitFails  BY <1>11 DEF CommitFails
<1>12. CASE ExitLoop  BY <1>12 DEF ExitLoop
<1>13. CASE ProcessReturns  BY <1>13 DEF ProcessReturns
<1>14. CASE ProcessThrows  BY <1>14 DEF ProcessThrows
<1>15. CASE Construct  BY <1>15 DEF Construct
<1>16. CASE Assign  BY <1>16 DEF Assign
<1>17. CASE LoseAssignment  BY <1>17 DEF LoseAssignment
<1>18. CASE Stop  BY <1>18 DEF Stop
<1>19. CASE Crash  BY <1>19 DEF Crash
<1>20. ASSUME NEW o \in dlqQueue, DlqDelivered(o) \/ DlqExpires(o)
       PROVE Settled' = Settled
  BY <1>20 DEF DlqDelivered, DlqExpires
<1>21. CASE UNCHANGED consumerVars  BY <1>21 DEF consumerVars
<1>22. CASE BeginAttempt  BY <1>22 DEF BeginAttempt
<1>. QED
  BY <1>1, <1>2, <1>3, <1>4, <1>5, <1>6, <1>7, <1>8, <1>9, <1>10, <1>11,
     <1>12, <1>13, <1>14, <1>15, <1>16, <1>17, <1>18, <1>19, <1>20, <1>21, <1>22,
     ActionsOfNext
  DEF ConsumerAction
LEMMA DeliveryStep ==
  ASSUME DeliveryInv, [ConsumerNext]_consumerVars
  PROVE  DeliveryInv'
<1>1. TypeOK /\ TypeOK'
  BY TypeStep DEF DeliveryInv
<1>2. \/ Settled' = Settled
      \/ /\ pc \in InHand
         /\ Settled' = Settled \union {msg}
  BY <1>1, SettledStep
<1>3. /\ committed \in Nat /\ position \in Nat /\ msg \in Nat
      /\ committed' \in Nat /\ position' \in Nat /\ msg' \in Nat
  BY <1>1 DEF TypeOK
<1>4. HandledInOrder'
  <2> SUFFICES ASSUME NEW o \in Settled', NEW i \in 1..(o - 1)
               PROVE  i \in Settled'
    BY DEF HandledInOrder
  <2>1. CASE o \in Settled
    BY <1>2, <2>1 DEF DeliveryInv, HandledInOrder
  <2>2. CASE o \notin Settled
    BY <1>2, <2>2 DEF DeliveryInv, HeldInOrder
  <2>. QED  BY <2>1, <2>2
<1>5. CommittedIsSettled' /\ HeldInOrder' /\ PositionInOrder'
  <2> USE <1>2, <1>3
      DEF DeliveryInv, CommittedIsSettled, HeldInOrder, PositionInOrder,
          Reading, HeldOffset, InHand, groupVars, threadVars
  <2>1. ASSUME NEW m \in Messages, Publish(m)
        PROVE  CommittedIsSettled' /\ HeldInOrder' /\ PositionInOrder'
    BY <2>1 DEF Publish
  <2>2. CASE RunBegins  BY <2>2 DEF RunBegins
  <2>3. CASE LoopTest  BY <2>3 DEF LoopTest
  <2>4. CASE ConsumeNothing  BY <2>4 DEF ConsumeNothing
  <2>5. CASE ConsumeMessage
    <3>1. Settled' = Settled /\ 1..(position - 1) \subseteq Settled
      BY <2>5 DEF ConsumeMessage
    <3>2. CommittedIsSettled'  BY <2>5, <3>1 DEF ConsumeMessage
    <3>3. HeldInOrder'  BY <2>5, <3>1 DEF ConsumeMessage
    <3>4. PositionInOrder'
      <4>1. position' - 1 = position /\ HeldOffset' = {position}
        BY <2>5 DEF ConsumeMessage
      <4>2. 1..position \subseteq Settled \union {position}
        BY <3>1
      <4>. QED  BY <3>1, <4>1, <4>2
    <3>. QED  BY <3>2, <3>3, <3>4
  <2>6. CASE DecodeSucceeds  BY <2>6 DEF DecodeSucceeds
  <2>7. CASE DecodeFails
    <3>1. pc' = "dead" \/ (pc' = "commit" /\ msg \in Settled')
      BY <2>7 DEF DecodeFails, RouteToDLQ, Settled
    <3>. QED  BY <2>7, <3>1 DEF DecodeFails
  <2>8. CASE RetriesExhausted
    <3>1. pc' = "dead" \/ (pc' = "commit" /\ msg \in Settled')
      BY <2>8 DEF RetriesExhausted, RouteToDLQ, Settled
    <3>. QED  BY <2>8, <3>1 DEF RetriesExhausted
  <2>9. CASE Abandon  BY <2>9 DEF Abandon
  <2>10. CASE CommitSync  BY <2>10 DEF CommitSync
  <2>11. CASE CommitFails  BY <2>11 DEF CommitFails
  <2>12. CASE ExitLoop  BY <2>12 DEF ExitLoop
  <2>13. CASE ProcessReturns
    <3>1. msg \in Settled'
      BY <2>13 DEF ProcessReturns, Settled
    <3>. QED  BY <2>13, <3>1 DEF ProcessReturns
  <2>14. CASE ProcessThrows  BY <2>14 DEF ProcessThrows
  <2>15. CASE Construct  BY <2>15 DEF Construct
  <2>16. CASE Assign  BY <2>16 DEF Assign, ResumeOffset
  <2>17. CASE LoseAssignment  BY <2>17 DEF LoseAssignment
  <2>18. CASE Stop  BY <2>18 DEF Stop
  <2>19. CASE Crash  BY <2>19 DEF Crash
  <2>20. ASSUME NEW o \in dlqQueue, DlqDelivered(o) \/ DlqExpires(o)
         PROVE  CommittedIsSettled' /\ HeldInOrder' /\ PositionInOrder'
    <3>1. /\ committed' = committed /\ assigned' = assigned
          /\ position' = position /\ pc' = pc /\ msg' = msg
          /\ running' = running
      BY <2>20 DEF DlqDelivered, DlqExpires
    <3>. QED  BY <3>1
  <2>21. CASE UNCHANGED consumerVars  BY <2>21 DEF consumerVars
  <2>22. CASE BeginAttempt  BY <2>22 DEF BeginAttempt
  <2>. QED
    BY <2>1, <2>2, <2>3, <2>4, <2>5, <2>6, <2>7, <2>8, <2>9, <2>10, <2>11,
       <2>12, <2>13, <2>14, <2>15, <2>16, <2>17, <2>18, <2>19, <2>20, <2>21, <2>22,
       ActionsOfNext
    DEF ConsumerAction
<1>. QED  BY <1>1, <1>4, <1>5 DEF DeliveryInv

LEMMA DeliveryInvariant == ConsumerSpec => []DeliveryInv
<1>1. DeliveryInv /\ [ConsumerNext]_consumerVars => DeliveryInv'
  BY DeliveryStep
<1>. QED  BY DeliveryInit, <1>1, PTL DEF ConsumerSpec

(* The group's offset never passes an unsettled record.                    *)
THEOREM CommitIsSafe == ConsumerSpec => []CommittedIsSettled
<1>1. DeliveryInv => CommittedIsSettled  BY DEF DeliveryInv
<1>. QED  BY DeliveryInvariant, <1>1, PTL

(* Records are settled in the order of the partition.                      *)
THEOREM OrderIsKept == ConsumerSpec => []HandledInOrder
<1>1. DeliveryInv => HandledInOrder  BY DEF DeliveryInv
<1>. QED  BY DeliveryInvariant, <1>1, PTL
----------------------------------------------------------------------------
(* Refinement of AtLeastOnceDelivery *)

LEMMA RefinementInit == ConsumerInit => Delivery!Init
<1> SUFFICES ASSUME ConsumerInit PROVE Delivery!Init
  OBVIOUS
<1>1. Len(topic) = 0 /\ Settled = {} /\ committed = 0
  BY DEF ConsumerInit, Settled
<1>. QED  BY <1>1 DEF Delivery!Init

LEMMA RefinementStep ==
  ASSUME DeliveryInv, [ConsumerNext]_consumerVars
  PROVE  [Delivery!Next]_Delivery!abstractVars
<1> USE DEF Delivery!Next, Delivery!abstractVars
<1>1. TypeOK  BY DEF DeliveryInv
<1>2. \/ Settled' = Settled
      \/ /\ pc \in InHand
         /\ Settled' = Settled \union {msg}
  BY <1>1, SettledStep
<1>3. CASE \E m \in Messages : Publish(m)
  <2>1. PICK m \in Messages : Publish(m)  BY <1>3
  <2>2. Len(topic') = Len(topic) + 1  BY <2>1, <1>1 DEF Publish, TypeOK
  <2>3. Settled' = Settled /\ committed' = committed
    BY <2>1 DEF Publish, Settled, groupVars, dlqVars
  <2>. QED  BY <2>2, <2>3 DEF Delivery!Publish
<1>4. CASE CommitSync
  <2>1. /\ topic' = topic /\ committed' = msg + 1
        /\ msg \in 1..Len(topic) /\ 1..msg \subseteq Settled
    BY <1>4, <1>1 DEF CommitSync, DeliveryInv, HeldInOrder, TypeOK, Offsets
  <2>2. Settled' = Settled
    BY <1>4 DEF CommitSync, Settled, dlqVars
  <2>. QED  BY <2>1, <2>2 DEF Delivery!MoveFrontier
<1>5. CASE topic' = topic /\ committed' = committed
  <2>1. CASE Settled' = Settled  BY <1>5, <2>1
  <2>2. CASE /\ pc \in InHand
             /\ Settled' = Settled \union {msg}
    <3>1. msg \in 1..Len(topic) /\ 1..(msg - 1) \subseteq Settled
      BY <2>2, <1>1 DEF DeliveryInv, HeldInOrder, TypeOK, Offsets
    <3>. QED  BY <1>5, <2>2, <3>1 DEF Delivery!Settle
  <2>. QED  BY <1>2, <2>1, <2>2
<1>6. \/ \E m \in Messages : Publish(m)
      \/ CommitSync
      \/ topic' = topic /\ committed' = committed
  BY ActionsOfNext
  DEF ConsumerAction, RunBegins, LoopTest, ConsumeNothing, ConsumeMessage,
      DecodeSucceeds, DecodeFails, BeginAttempt, RetriesExhausted,
      Abandon, CommitFails,
      ExitLoop, ProcessReturns, ProcessThrows, Construct, Assign,
      LoseAssignment, Stop, Crash, DlqDelivered, DlqExpires, consumerVars,
      groupVars
<1>. QED  BY <1>3, <1>4, <1>5, <1>6

(* The consumer loop implements AtLeastOnceDelivery.                       *)
THEOREM DeliveryIsImplemented == ConsumerSpec => DeliverySpec
<1>1. DeliveryInv /\ [ConsumerNext]_consumerVars
        => [Delivery!Next]_Delivery!abstractVars
  BY RefinementStep
<1>. QED
  BY RefinementInit, <1>1, DeliveryInvariant, PTL
  DEF ConsumerSpec, DeliverySpec, Delivery!Spec
----------------------------------------------------------------------------
(* What faults have to do with redelivery.  Up to the first fault the      *)
(* position and the committed offset move in step; one fault leaves them   *)
(* one offset apart at most.                                               *)

Holding == pc \in InHand \union {"commit"}

FaultlessInv ==
    faults = 0 =>
        /\ assigned => pc \notin {"down", "stopped"}
        /\ pc \in {"loop"} \union InLoopBody => running
        /\ Holding =>
              assigned /\ msg = ResumeOffset /\ position = msg + 1
        /\ assigned /\ ~Holding /\ pc # "dead" => position = ResumeOffset
        /\ ~assigned => pc \in {"down", "ready", "loop", "consume"}

FreshInv ==
    faults = 0 =>
        /\ pc = "commit" => Settled \subseteq 1..msg
        /\ pc \notin {"commit", "dead"} =>
              Settled \subseteq 1..(ResumeOffset - 1)

OneFaultInv ==
    faults <= 1 =>
        /\ Holding => ResumeOffset <= msg + 1
        /\ Holding /\ ~assigned => msg = ResumeOffset
        /\ Holding /\ assigned => msg <= position
        /\ assigned => ResumeOffset <= position + 1

RewindInv == TypeOK /\ FaultlessInv /\ FreshInv /\ OneFaultInv

LEMMA RewindInit == ConsumerInit => RewindInv
<1> SUFFICES ASSUME ConsumerInit PROVE RewindInv
  OBVIOUS
<1>1. TypeOK  BY TypeInit
<1>. QED
  BY <1>1 DEF ConsumerInit, RewindInv, FaultlessInv, FreshInv, OneFaultInv,
              Holding, InHand, InLoopBody, ResumeOffset, Settled

(* The numbers the invariant is about, and when they move.                 *)
LEMMA Numbers ==
  ASSUME TypeOK, [ConsumerNext]_consumerVars
  PROVE  /\ committed \in Nat /\ position \in Nat \ {0} /\ msg \in Nat
         /\ faults \in Nat /\ faults' \in Nat /\ faults <= faults'
         /\ Holding => msg >= 1
         /\ ResumeOffset \in Nat \ {0}
<1>1. TypeOK'  BY TypeStep
<1>2. faults' = faults \/ FaultBudget
  BY ActionsOfNext
  DEF ConsumerAction, Publish, RunBegins, LoopTest, ConsumeNothing,
      ConsumeMessage, DecodeSucceeds, DecodeFails, BeginAttempt,
      RetriesExhausted, Abandon, CommitSync, CommitFails, ExitLoop,
      ProcessReturns, ProcessThrows, Construct, Assign, LoseAssignment, Stop,
      Crash, DlqDelivered, DlqExpires, consumerVars
<1>. QED
  BY <1>1, <1>2
  DEF TypeOK, FaultBudget, Holding, Offsets, ResumeOffset

LEMMA FaultlessStep ==
  ASSUME TypeOK, FaultlessInv, [ConsumerNext]_consumerVars
  PROVE  FaultlessInv'
<1> USE Numbers
    DEF FaultlessInv, Holding, InHand, InLoopBody, ResumeOffset, groupVars,
        threadVars, FaultBudget
<1>1. ASSUME NEW m \in Messages, Publish(m) PROVE FaultlessInv'
  BY <1>1 DEF Publish
<1>2. CASE RunBegins  BY <1>2 DEF RunBegins
<1>3. CASE LoopTest  BY <1>3 DEF LoopTest
<1>4. CASE ConsumeNothing  BY <1>4 DEF ConsumeNothing
<1>5. CASE ConsumeMessage  BY <1>5 DEF ConsumeMessage
<1>6. CASE DecodeSucceeds  BY <1>6 DEF DecodeSucceeds
<1>7. CASE DecodeFails  BY <1>7 DEF DecodeFails, RouteToDLQ
<1>8. CASE BeginAttempt  BY <1>8 DEF BeginAttempt
<1>9. CASE RetriesExhausted  BY <1>9 DEF RetriesExhausted, RouteToDLQ
<1>10. CASE Abandon  BY <1>10 DEF Abandon
<1>11. CASE CommitSync  BY <1>11 DEF CommitSync
<1>12. CASE CommitFails  BY <1>12 DEF CommitFails
<1>13. CASE ExitLoop  BY <1>13 DEF ExitLoop
<1>14. CASE ProcessReturns  BY <1>14 DEF ProcessReturns
<1>15. CASE ProcessThrows  BY <1>15 DEF ProcessThrows
<1>16. CASE Construct  BY <1>16 DEF Construct
<1>17. CASE Assign  BY <1>17 DEF Assign, Alive
<1>18. CASE LoseAssignment  BY <1>18 DEF LoseAssignment
<1>19. CASE Stop  BY <1>19 DEF Stop
<1>20. CASE Crash  BY <1>20 DEF Crash
<1>21. ASSUME NEW o \in dlqQueue, DlqDelivered(o) \/ DlqExpires(o)
      PROVE FaultlessInv'
  BY <1>21 DEF DlqDelivered, DlqExpires
<1>22. CASE UNCHANGED consumerVars  BY <1>22 DEF consumerVars
<1>. QED
  BY <1>1, <1>2, <1>3, <1>4, <1>5, <1>6, <1>7, <1>8, <1>9, <1>10, <1>11,
     <1>12, <1>13, <1>14, <1>15, <1>16, <1>17, <1>18, <1>19, <1>20, <1>21,
     <1>22, ActionsOfNext
  DEF ConsumerAction

LEMMA OneFaultStep ==
  ASSUME TypeOK, FaultlessInv, OneFaultInv, [ConsumerNext]_consumerVars
  PROVE  OneFaultInv'
<1> USE Numbers
    DEF FaultlessInv, OneFaultInv, Holding, InHand, InLoopBody, ResumeOffset,
        groupVars, threadVars, FaultBudget
<1>1. ASSUME NEW m \in Messages, Publish(m) PROVE OneFaultInv'
  BY <1>1 DEF Publish
<1>2. CASE RunBegins  BY <1>2 DEF RunBegins
<1>3. CASE LoopTest  BY <1>3 DEF LoopTest
<1>4. CASE ConsumeNothing  BY <1>4 DEF ConsumeNothing
<1>5. CASE ConsumeMessage  BY <1>5 DEF ConsumeMessage
<1>6. CASE DecodeSucceeds  BY <1>6 DEF DecodeSucceeds
<1>7. CASE DecodeFails  BY <1>7 DEF DecodeFails, RouteToDLQ
<1>8. CASE BeginAttempt  BY <1>8 DEF BeginAttempt
<1>9. CASE RetriesExhausted  BY <1>9 DEF RetriesExhausted, RouteToDLQ
<1>10. CASE Abandon  BY <1>10 DEF Abandon
<1>11. CASE CommitSync  BY <1>11 DEF CommitSync
<1>12. CASE CommitFails  BY <1>12 DEF CommitFails
<1>13. CASE ExitLoop  BY <1>13 DEF ExitLoop
<1>14. CASE ProcessReturns  BY <1>14 DEF ProcessReturns
<1>15. CASE ProcessThrows  BY <1>15 DEF ProcessThrows
<1>16. CASE Construct  BY <1>16 DEF Construct
<1>17. CASE Assign
  <2>1. /\ assigned' /\ ~assigned /\ position' = ResumeOffset
        /\ ResumeOffset' = ResumeOffset /\ msg' = msg /\ pc' = pc
        /\ faults' = faults
    BY <1>17 DEF Assign
  <2>. QED  BY <2>1
<1>18. CASE LoseAssignment  BY <1>18 DEF LoseAssignment
<1>19. CASE Stop  BY <1>19 DEF Stop
<1>20. CASE Crash  BY <1>20 DEF Crash
<1>21. ASSUME NEW o \in dlqQueue, DlqDelivered(o) \/ DlqExpires(o)
      PROVE OneFaultInv'
  BY <1>21 DEF DlqDelivered, DlqExpires
<1>22. CASE UNCHANGED consumerVars  BY <1>22 DEF consumerVars
<1>. QED
  BY <1>1, <1>2, <1>3, <1>4, <1>5, <1>6, <1>7, <1>8, <1>9, <1>10, <1>11,
     <1>12, <1>13, <1>14, <1>15, <1>16, <1>17, <1>18, <1>19, <1>20, <1>21,
     <1>22, ActionsOfNext
  DEF ConsumerAction

LEMMA FreshStep ==
  ASSUME TypeOK, FaultlessInv, FreshInv, [ConsumerNext]_consumerVars
  PROVE  FreshInv'
<1>0. \/ Settled' = Settled
      \/ /\ pc \in InHand
         /\ Settled' = Settled \union {msg}
  BY SettledStep
<1> USE Numbers
    DEF FaultlessInv, FreshInv, Holding, InHand, InLoopBody, ResumeOffset,
        groupVars, threadVars, FaultBudget
<1>1. ASSUME NEW m \in Messages, Publish(m) PROVE FreshInv'
  BY <1>1 DEF Publish, Settled, dlqVars
<1>2. CASE RunBegins  BY <1>2 DEF RunBegins, Settled, dlqVars
<1>3. CASE LoopTest  BY <1>3 DEF LoopTest, Settled, dlqVars
<1>4. CASE ConsumeNothing  BY <1>4 DEF ConsumeNothing, Settled, dlqVars
<1>5. CASE ConsumeMessage  BY <1>5 DEF ConsumeMessage, Settled, dlqVars
<1>6. CASE DecodeSucceeds  BY <1>6 DEF DecodeSucceeds, Settled, dlqVars
<1>7. CASE DecodeFails
  <2>1. pc \in InHand /\ pc' \in {"commit", "dead"} /\ msg' = msg
        /\ faults' = faults
    BY <1>7 DEF DecodeFails, RouteToDLQ
  <2>2. faults = 0 => 1..(ResumeOffset - 1) \union {msg} \subseteq 1..msg
    BY <2>1
  <2>. QED  BY <1>0, <2>1, <2>2
<1>8. CASE BeginAttempt  BY <1>8 DEF BeginAttempt, Settled, dlqVars
<1>9. CASE RetriesExhausted
  <2>1. pc \in InHand /\ pc' \in {"commit", "dead"} /\ msg' = msg
        /\ faults' = faults
    BY <1>9 DEF RetriesExhausted, RouteToDLQ
  <2>2. faults = 0 => 1..(ResumeOffset - 1) \union {msg} \subseteq 1..msg
    BY <2>1
  <2>. QED  BY <1>0, <2>1, <2>2
<1>10. CASE Abandon  BY <1>10 DEF Abandon, Settled, dlqVars
<1>11. CASE CommitSync  BY <1>11 DEF CommitSync, Settled, dlqVars
<1>12. CASE CommitFails  BY <1>12 DEF CommitFails, Settled, dlqVars
<1>13. CASE ExitLoop  BY <1>13 DEF ExitLoop
<1>14. CASE ProcessReturns  BY <1>0, <1>14 DEF ProcessReturns
<1>15. CASE ProcessThrows  BY <1>15 DEF ProcessThrows, Settled, dlqVars
<1>16. CASE Construct  BY <1>16 DEF Construct, Settled, dlqVars
<1>17. CASE Assign  BY <1>17 DEF Assign, Settled, dlqVars
<1>18. CASE LoseAssignment  BY <1>18 DEF LoseAssignment, Settled, dlqVars
<1>19. CASE Stop  BY <1>19 DEF Stop, Settled, dlqVars
<1>20. CASE Crash  BY <1>20 DEF Crash
<1>21. ASSUME NEW o \in dlqQueue, DlqDelivered(o) \/ DlqExpires(o)
      PROVE FreshInv'
  BY <1>21 DEF DlqDelivered, DlqExpires, Settled
<1>22. CASE UNCHANGED consumerVars
  BY <1>22 DEF consumerVars, Settled, dlqVars
<1>. QED
  BY <1>1, <1>2, <1>3, <1>4, <1>5, <1>6, <1>7, <1>8, <1>9, <1>10, <1>11,
     <1>12, <1>13, <1>14, <1>15, <1>16, <1>17, <1>18, <1>19, <1>20, <1>21,
     <1>22, ActionsOfNext
  DEF ConsumerAction

LEMMA RewindStep ==
  ASSUME RewindInv, [ConsumerNext]_consumerVars
  PROVE  RewindInv'
  BY TypeStep, FaultlessStep, OneFaultStep, FreshStep DEF RewindInv

LEMMA RewindInvariant == ConsumerSpec => []RewindInv
<1>1. RewindInv /\ [ConsumerNext]_consumerVars => RewindInv'
  BY RewindStep
<1>. QED  BY RewindInit, <1>1, PTL DEF ConsumerSpec

(* Nothing is delivered twice before the first fault.                      *)
THEOREM RedeliveryNeedsAFault == ConsumerSpec => []NoRedeliveryWithoutFaults
<1>1. ASSUME RewindInv PROVE NoRedeliveryWithoutFaults
  <2> SUFFICES ASSUME faults = 0, pc \in InHand PROVE msg \notin Settled
    BY DEF NoRedeliveryWithoutFaults
  <2>1. msg = ResumeOffset /\ Settled \subseteq 1..(ResumeOffset - 1)
    BY <1>1 DEF RewindInv, FaultlessInv, FreshInv, Holding, InHand
  <2>2. msg \in Nat  BY <1>1 DEF RewindInv, TypeOK
  <2>. QED  BY <2>1, <2>2
<1>2. RewindInv => NoRedeliveryWithoutFaults  BY <1>1
<1>. QED  BY RewindInvariant, <1>2, PTL

(* The group's offset does not move back before the second fault.          *)
THEOREM OneFaultDoesNotRewind == ConsumerSpec => RewindNeedsTwoFaults
<1>1. ASSUME RewindInv, [ConsumerNext]_consumerVars, committed' < committed
      PROVE  faults >= 2
  <2>0. committed' = committed \/ CommitSync
    BY <1>1, ActionsOfNext
    DEF ConsumerAction, Publish, RunBegins, LoopTest,
        ConsumeNothing, ConsumeMessage, DecodeSucceeds, DecodeFails,
        BeginAttempt, RetriesExhausted, Abandon, CommitFails, ExitLoop,
        ProcessReturns, ProcessThrows, Construct, Assign, LoseAssignment,
        Stop, Crash, DlqDelivered, DlqExpires, consumerVars, groupVars
  <2>1. CommitSync
    BY <1>1, <2>0, Numbers DEF RewindInv
  <2>2. committed' = msg + 1 /\ pc = "commit"  BY <2>1 DEF CommitSync
  <2>. QED
    BY <1>1, <2>2, Numbers
    DEF RewindInv, OneFaultInv, Holding, ResumeOffset
<1>2. RewindInv /\ [ConsumerNext]_consumerVars
        => [committed' < committed => faults >= 2]_committed
  BY <1>1
<1>. QED
  BY RewindInvariant, <1>2, PTL DEF ConsumerSpec, RewindNeedsTwoFaults
=============================================================================
