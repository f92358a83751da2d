------------------------- MODULE OrdersFeed_proofs -------------------------
(* What the feed guarantees to every sink: facts about the records of the  *)
(* topic, for every set of orders and statuses.                            *)
EXTENDS OrdersFeed, KafkaConsumerBase_proofs

(* A record of the topic tells what the log says at its LSN. *)
FromWal(m, log) ==
    /\ m.lsn \in 1..Len(log)
    /\ m.order = log[m.lsn].order
    /\ m.op = log[m.lsn].op
    /\ m.after = log[m.lsn].after

TopicFromWal ==
    \A i \in Offsets :
        \/ topic[i].payload = "tombstone"
        \/ FromWal(topic[i], wal)

DeletesLeaveNoRow ==
    \A l \in 1..Len(wal) : wal[l].op = "d" => wal[l].after = NoRow

(* Only decodable records reach ProcessRecord, and tombstones are not.     *)
HeldIsEvent == pc \in {"attempt", "call"} => topic[msg].payload # "tombstone"

(* What Debezium counts as emitted is in the topic, whatever it repeats.   *)
TopicHoldsEmitted ==
    \A l \in 1..emitted :
        \E i \in Offsets :
            topic[i].payload # "tombstone" /\ topic[i].lsn = l

(* The table is the log applied: a row is what its last change left.       *)
RowIsLatest ==
    \A o \in Orders :
        \/ row[o] = NoRow /\ \A l \in 1..Len(wal) : wal[l].order # o
        \/ \E l \in 1..Len(wal) : IsLatest(o, l) /\ row[o] = wal[l].after

FeedInv ==
    /\ TypeOK
    /\ FeedTypeOK
    /\ TopicFromWal
    /\ TopicHoldsEmitted
    /\ DeletesLeaveNoRow
    /\ RowIsLatest
    /\ HeldIsEvent

(* What the records of the feed look like. *)
LEMMA MessageFields ==
  ASSUME NEW m \in Messages
  PROVE  /\ m.lsn \in Nat
         /\ m.order \in Orders
         /\ m.op \in Ops
         /\ m.after \in Statuses \union {NoRow}
  BY FeedAssumption DEF FeedMessages, EventRecord, TombstoneRecord, Ops

LEMMA EventIsMessage ==
  ASSUME NEW lsn \in 1..MaxWal, NEW change \in Changes
  PROVE  EventRecord(lsn, change.order, change.op, change.after) \in Messages
  BY FeedAssumption DEF FeedMessages, Changes

LEMMA TombstoneIsMessage ==
  ASSUME NEW o \in Orders
  PROVE  TombstoneRecord(o) \in Messages
  BY FeedAssumption DEF FeedMessages

(* Debezium only appends records of the feed.                              *)
LEMMA EmitPublishes ==
  ASSUME FeedTypeOK, Emit \/ EmitTombstone
  PROVE  \E m \in Messages : Publish(m)
<1>1. CASE Emit
  <2> DEFINE change == wal[emitted + 1]
  <2>0. emitted < Len(wal)
    BY <1>1 DEF Emit
  <2>1. emitted + 1 \in 1..MaxWal /\ change \in Changes
    BY <2>0, FeedAssumption DEF FeedTypeOK
  <2>2. Publish(EventRecord(emitted + 1, change.order, change.op,
                            change.after))
    BY <1>1 DEF Emit
  <2>3. EventRecord(emitted + 1, change.order, change.op, change.after)
          \in Messages
    BY <2>1, EventIsMessage
  <2>. QED  BY <2>2, <2>3
<1>2. CASE EmitTombstone
  <2>0. tombstoneDue
    BY <1>2 DEF EmitTombstone
  <2>1. wal[emitted] \in Changes
    BY <2>0 DEF FeedTypeOK
  <2>2. wal[emitted].order \in Orders
    BY <2>1 DEF Changes
  <2>3. Publish(TombstoneRecord(wal[emitted].order))
    BY <1>2 DEF EmitTombstone
  <2>4. TombstoneRecord(wal[emitted].order) \in Messages
    BY <2>2, TombstoneIsMessage
  <2>. QED  BY <2>3, <2>4
<1>. QED  BY <1>1, <1>2


LEMMA FeedStepIsConsumerStep ==
  ASSUME FeedTypeOK, FeedStep
  PROVE  [ConsumerNext]_consumerVars
<1>1. CASE Emit \/ EmitTombstone
  BY <1>1, EmitPublishes DEF ConsumerNext
<1>2. CASE ~(Emit \/ EmitTombstone)
  BY <1>2
  DEF FeedStep, CreateOrder, UpdateOrderStatus, DeleteOrder, CommitChange,
      ConnectorRestarts
<1>. QED  BY <1>1, <1>2

(* The log only grows, and the topic too.                                  *)
LEMMA LogsGrow ==
  ASSUME TypeOK, FeedTypeOK, FeedStep \/ UNCHANGED <<feedVars, topic>>
  PROVE  /\ Len(wal) <= Len(wal')
         /\ \A l \in 1..Len(wal) : wal'[l] = wal[l]
         /\ Offsets \subseteq Offsets'
         /\ \A i \in Offsets : topic'[i] = topic[i]
<1> USE DEF TypeOK, FeedTypeOK, Offsets
<1>1. ASSUME NEW o \in Orders, NEW op, NEW after, CommitChange(o, op, after)
      PROVE  /\ Len(wal) <= Len(wal')
             /\ \A l \in 1..Len(wal) : wal'[l] = wal[l]
             /\ topic' = topic
  <2>1. topic' = topic
    BY <1>1 DEF CommitChange, consumerVars
  <2>2. wal' = Append(wal, [order |-> o, op |-> op, after |-> after])
    BY <1>1 DEF CommitChange
  <2>. QED  BY <2>1, <2>2
<1>2. ASSUME NEW m, Publish(m)
      PROVE  Offsets \subseteq Offsets' /\ \A i \in Offsets : topic'[i] = topic[i]
  <2>1. topic' = Append(topic, m)
    BY <1>2 DEF Publish
  <2>. QED  BY <2>1
<1>3. CASE FeedStep
  BY <1>1, <1>2, <1>3
  DEF FeedStep, CreateOrder, UpdateOrderStatus, DeleteOrder, Emit,
      EmitTombstone, ConnectorRestarts, consumerVars
<1>4. CASE UNCHANGED <<feedVars, topic>>
  BY <1>4 DEF feedVars
<1>. QED  BY <1>3, <1>4
LEMMA FeedInvInit == ConsumerInit /\ FeedInit => FeedInv
<1> SUFFICES ASSUME ConsumerInit, FeedInit PROVE FeedInv
  OBVIOUS
<1>1. TypeOK  BY TypeInit
<1>2. Len(topic) = 0 /\ Len(wal) = 0 /\ pc = "down"
  BY DEF ConsumerInit, FeedInit
<1>0. emitted = 0 /\ \A o \in Orders : row[o] = NoRow
  BY DEF FeedInit
<1>3. FeedTypeOK
  <2>1. wal \in Seq(Changes) /\ Len(wal) = 0  BY DEF FeedInit
  <2>2. row \in [Orders -> Statuses \union {NoRow}]  BY DEF FeedInit
  <2>3. emitted = 0 /\ restarts = 0 /\ ~tombstoneDue /\ tombstoneDue \in BOOLEAN
    BY DEF FeedInit
  <2>. QED  BY <2>1, <2>2, <2>3, FeedAssumption DEF FeedTypeOK
<1>. QED
  BY <1>0, <1>1, <1>2, <1>3
  DEF FeedInv, TopicFromWal, DeletesLeaveNoRow, HeldIsEvent, Offsets,
      TopicHoldsEmitted, RowIsLatest

(* A change of the table, or of what Debezium remembers of it.             *)
LEMMA FeedTypeStep ==
  ASSUME FeedTypeOK, FeedStep \/ UNCHANGED feedVars
  PROVE  FeedTypeOK'
<1> USE FeedAssumption DEF FeedTypeOK
<1>1. ASSUME NEW o \in Orders, NEW op \in Ops,
             NEW after \in Statuses \union {NoRow}, CommitChange(o, op, after)
      PROVE  FeedTypeOK'
  <2>1. [order |-> o, op |-> op, after |-> after] \in Changes
    BY DEF Changes
  <2>2. wal' \in Seq(Changes) /\ Len(wal') = Len(wal) + 1
    BY <1>1, <2>1 DEF CommitChange
  <2>. QED  BY <1>1, <2>2 DEF CommitChange
<1>2. ASSUME NEW o \in Orders, CreateOrder(o) PROVE FeedTypeOK'
  BY <1>1, <1>2 DEF CreateOrder, Ops
<1>3. ASSUME NEW o \in Orders, NEW status \in Statuses,
             UpdateOrderStatus(o, status)
      PROVE  FeedTypeOK'
  BY <1>1, <1>3 DEF UpdateOrderStatus, Ops
<1>4. ASSUME NEW o \in Orders, DeleteOrder(o) PROVE FeedTypeOK'
  BY <1>1, <1>4 DEF DeleteOrder, Ops
<1>5. CASE Emit
  <2>1. tombstoneDue' \in BOOLEAN  BY <1>5 DEF Emit
  <2>2. emitted' = emitted + 1 /\ emitted < Len(wal)  BY <1>5 DEF Emit
  <2>3. row' = row /\ wal' = wal /\ restarts' = restarts  BY <1>5 DEF Emit
  <2>. QED  BY <2>1, <2>2, <2>3
<1>6. CASE EmitTombstone  BY <1>6 DEF EmitTombstone
<1>7. CASE ConnectorRestarts
  <2>1. /\ row' = row /\ wal' = wal
        /\ emitted' \in 0..(emitted - 1)
        /\ restarts' = restarts + 1
    BY <1>7 DEF ConnectorRestarts
  <2>2. tombstoneDue' = FALSE  BY <1>7 DEF ConnectorRestarts
  <2>3. tombstoneDue' \in BOOLEAN  BY <2>2, Zenon
  <2>4. emitted' \in 0..Len(wal')
    BY <2>1
  <2>5. restarts' \in Nat
    BY <2>1
  <2>6. ~tombstoneDue'  BY <2>2, Zenon
  <2>. QED  BY <2>1, <2>3, <2>4, <2>5, <2>6
<1>8. CASE UNCHANGED feedVars  BY <1>8 DEF feedVars
<1>. QED
  BY <1>2, <1>3, <1>4, <1>5, <1>6, <1>7, <1>8 DEF FeedStep

LEMMA DeletesStep ==
  ASSUME FeedTypeOK, DeletesLeaveNoRow, FeedStep \/ UNCHANGED feedVars
  PROVE  DeletesLeaveNoRow'
<1> USE DEF DeletesLeaveNoRow, FeedTypeOK
<1>1. ASSUME NEW o \in Orders, NEW op, NEW after, CommitChange(o, op, after),
             op = "d" => after = NoRow
      PROVE  DeletesLeaveNoRow'
  <2>1. wal' = Append(wal, [order |-> o, op |-> op, after |-> after])
    BY <1>1 DEF CommitChange
  <2>. QED  BY <1>1, <2>1
<1>2. CASE FeedStep
  BY <1>1, <1>2 DEF FeedStep, CreateOrder, UpdateOrderStatus, DeleteOrder,
                    Emit, EmitTombstone, ConnectorRestarts
<1>3. CASE UNCHANGED feedVars  BY <1>3 DEF feedVars
<1>. QED  BY <1>2, <1>3

LEMMA TopicStep ==
  ASSUME FeedInv, FeedStep \/ UNCHANGED <<feedVars, topic>>
  PROVE  TopicFromWal'
<1>1. TypeOK /\ FeedTypeOK /\ FeedTypeOK'
  BY FeedTypeStep DEF FeedInv, feedVars
<1>2. /\ Len(wal) \in Nat /\ Len(wal') \in Nat /\ Len(wal) <= Len(wal')
      /\ \A l \in 1..Len(wal) : wal'[l] = wal[l]
      /\ \A i \in Offsets : topic'[i] = topic[i]
  BY <1>1, LogsGrow DEF FeedTypeOK
<1>3. \A i \in Offsets :
         topic'[i].payload = "tombstone" \/ FromWal(topic'[i], wal')
  BY <1>2 DEF FeedInv, TopicFromWal, FromWal
<1>4. ASSUME NEW m, Publish(m), m.payload = "tombstone" \/ FromWal(m, wal')
      PROVE  TopicFromWal'
  <2>1. topic' = Append(topic, m)
    BY <1>4 DEF Publish
  <2>2. Offsets' = Offsets \union {Len(topic) + 1} /\ topic'[Len(topic) + 1] = m
    BY <1>1, <2>1 DEF TypeOK, Offsets
  <2>. QED  BY <1>3, <1>4, <2>2 DEF TopicFromWal
<1>5. CASE Emit
  <2> DEFINE change == wal[emitted + 1]
             m == EventRecord(emitted + 1, change.order, change.op, change.after)
  <2>0. wal' = wal /\ emitted < Len(wal)
    BY <1>5 DEF Emit
  <2>1. emitted + 1 \in 1..Len(wal)
    BY <2>0, <1>1 DEF FeedTypeOK
  <2>2. FromWal(m, wal')
    BY <2>0, <2>1 DEF FromWal, EventRecord
  <2>3. Publish(m)
    BY <1>5 DEF Emit
  <2> HIDE DEF m
  <2>. QED  BY <1>4, <2>2, <2>3
<1>6. CASE EmitTombstone
  <2>1. TombstoneRecord(wal[emitted].order).payload = "tombstone"
    BY DEF TombstoneRecord
  <2>2. Publish(TombstoneRecord(wal[emitted].order))
    BY <1>6 DEF EmitTombstone
  <2>. QED  BY <1>4, <2>1, <2>2
<1>7. CASE topic' = topic
  BY <1>3, <1>7 DEF TopicFromWal, Offsets
<1>8. Emit \/ EmitTombstone \/ topic' = topic
  BY DEF FeedStep, CreateOrder, UpdateOrderStatus, DeleteOrder, CommitChange,
         ConnectorRestarts, consumerVars
<1>. QED  BY <1>5, <1>6, <1>7, <1>8

(* An emitted change enters the topic in the step that counts it.          *)
LEMMA EmittedStep ==
  ASSUME FeedInv, FeedStep \/ UNCHANGED <<feedVars, topic>>
  PROVE  TopicHoldsEmitted'
<1> USE DEF TopicHoldsEmitted
<1>1. TypeOK /\ FeedTypeOK /\ TopicHoldsEmitted
  BY DEF FeedInv
<1>2. Offsets \subseteq Offsets' /\ \A i \in Offsets : topic'[i] = topic[i]
  BY <1>1, LogsGrow
<1>3. emitted \in Nat
  BY <1>1 DEF FeedTypeOK
<1>4. \A l \in 1..emitted :
         \E i \in Offsets' :
             topic'[i].payload # "tombstone" /\ topic'[i].lsn = l
  BY <1>1, <1>2
<1>5. CASE Emit
  <2> DEFINE change == wal[emitted + 1]
             m == EventRecord(emitted + 1, change.order, change.op, change.after)
  <2>1. emitted' = emitted + 1 /\ Publish(m)
    BY <1>5 DEF Emit
  <2>2. m.lsn = emitted + 1 /\ m.payload # "tombstone"
    BY DEF EventRecord
  <2> HIDE DEF m
  <2>3. topic' = Append(topic, m)
    BY <2>1 DEF Publish
  <2>4. Len(topic) + 1 \in Offsets' /\ topic'[Len(topic) + 1] = m
    BY <1>1, <2>3 DEF TypeOK, Offsets
  <2>. QED  BY <1>3, <1>4, <2>1, <2>2, <2>4
<1>6. CASE ~Emit
  <2>1. emitted' = emitted \/ emitted' \in 0..(emitted - 1)
    BY <1>6
    DEF FeedStep, CreateOrder, UpdateOrderStatus, DeleteOrder, CommitChange,
        EmitTombstone, ConnectorRestarts, feedVars
  <2>. QED  BY <1>3, <1>4, <2>1
<1>. QED  BY <1>5, <1>6

(* The row and the log change together.                                    *)
LEMMA RowStep ==
  ASSUME FeedTypeOK, RowIsLatest, FeedStep \/ UNCHANGED feedVars
  PROVE  RowIsLatest'
<1> USE DEF RowIsLatest, IsLatest
<1>1. ASSUME NEW o \in Orders, NEW op, NEW after, CommitChange(o, op, after)
      PROVE  RowIsLatest'
  <2> DEFINE change == [order |-> o, op |-> op, after |-> after]
  <2>1. wal' = Append(wal, change) /\ row' = [row EXCEPT ![o] = after]
    BY <1>1 DEF CommitChange
  <2>2. change.order = o /\ change.after = after
    OBVIOUS
  <2> HIDE DEF change
  <2>3. /\ Len(wal) \in Nat /\ Len(wal') = Len(wal) + 1
        /\ wal'[Len(wal) + 1] = change
        /\ \A l \in 1..Len(wal) : wal'[l] = wal[l]
    BY <2>1 DEF FeedTypeOK
  <2>4. row'[o] = after /\ \A p \in Orders \ {o} : row'[p] = row[p]
    BY <2>1 DEF FeedTypeOK
  <2>. PICK last \in Nat : last = Len(wal) + 1
    BY <2>3
  <2>5. IsLatest(o, last)' /\ row'[o] = wal'[last].after
    BY <2>2, <2>3, <2>4
  <2>6. ASSUME NEW p \in Orders \ {o}
        PROVE  \/ /\ row'[p] = NoRow
                  /\ \A l \in 1..Len(wal') : wal'[l].order # p
               \/ \E l \in 1..Len(wal') : /\ IsLatest(p, l)'
                                         /\ row'[p] = wal'[l].after
    BY <2>2, <2>3, <2>4
  <2>7. last \in 1..Len(wal')
    BY <2>3
  <2>. QED  BY <2>5, <2>6, <2>7
<1>2. CASE FeedStep
  BY <1>1, <1>2 DEF FeedStep, CreateOrder, UpdateOrderStatus, DeleteOrder,
                    Emit, EmitTombstone, ConnectorRestarts
<1>3. CASE UNCHANGED feedVars  BY <1>3 DEF feedVars
<1>. QED  BY <1>2, <1>3

(* The retry loop is entered only with a decodable record.                 *)
LEMMA HeldStep ==
  ASSUME TypeOK, HeldIsEvent, [ConsumerNext]_consumerVars
  PROVE  HeldIsEvent'
<1> USE DEF HeldIsEvent, groupVars, threadVars
<1>1. ASSUME NEW m \in Messages, Publish(m) PROVE HeldIsEvent'
  <2>1. \A i \in Offsets : topic'[i] = topic[i]
    BY <1>1 DEF Publish, TypeOK, Offsets
  <2>. QED  BY <1>1, <2>1 DEF Publish, TypeOK, InHand
<1>2. CASE DecodeSucceeds
  BY <1>2 DEF DecodeSucceeds, Decodable
<1>3. CASE pc' \notin {"attempt", "call"}
  BY <1>3
<1>4. CASE /\ topic' = topic /\ msg' = msg
           /\ pc \in {"attempt", "call"} \/ pc' = pc
  BY <1>4
<1>5. CASE DecodeFails \/ RetriesExhausted
  BY <1>3, <1>5 DEF DecodeFails, RetriesExhausted, RouteToDLQ
<1>6. CASE BeginAttempt \/ ProcessThrows
  BY <1>4, <1>6 DEF BeginAttempt, ProcessThrows
<1>7. CASE \/ RunBegins \/ LoopTest \/ ConsumeNothing \/ ConsumeMessage
           \/ Abandon \/ CommitSync \/ CommitFails \/ ExitLoop
           \/ ProcessReturns \/ Construct \/ Crash
  BY <1>3, <1>7
  DEF RunBegins, LoopTest, ConsumeNothing, ConsumeMessage, Abandon,
      CommitSync, CommitFails, ExitLoop, ProcessReturns, Construct, Crash
<1>8. CASE \/ Assign \/ LoseAssignment \/ Stop
           \/ \E o \in dlqQueue : DlqDelivered(o) \/ DlqExpires(o)
           \/ UNCHANGED consumerVars
  BY <1>4, <1>8
  DEF Assign, LoseAssignment, Stop, DlqDelivered, DlqExpires, consumerVars
<1>. QED
  BY <1>1, <1>2, <1>5, <1>6, <1>7, <1>8, ActionsOfNext DEF ConsumerAction

LEMMA FeedInvStep ==
  ASSUME FeedInv, [ConsumerNext]_consumerVars,
         FeedStep \/ UNCHANGED <<feedVars, topic>>
  PROVE  FeedInv'
<1>1. TypeOK'  BY TypeStep DEF FeedInv
<1>2. FeedTypeOK' /\ DeletesLeaveNoRow' /\ RowIsLatest'
  BY FeedTypeStep, DeletesStep, RowStep DEF FeedInv, feedVars
<1>3. TopicFromWal' /\ TopicHoldsEmitted'  BY TopicStep, EmittedStep
<1>4. HeldIsEvent'  BY HeldStep DEF FeedInv
<1>. QED  BY <1>1, <1>2, <1>3, <1>4 DEF FeedInv
----------------------------------------------------------------------------
(* Without lag the group has settled the last record of every order.       *)
LEMMA NoLagSettlesAll ==
  ASSUME TypeOK, CommittedIsSettled, NoLag
  PROVE  Offsets \subseteq Settled
<1>1. Len(topic) \in Nat /\ committed \in Nat
  BY DEF TypeOK
<1>2. CASE committed = 0
  BY <1>1, <1>2 DEF NoLag, ResumeOffset, Offsets
<1>3. CASE committed # 0
  BY <1>1, <1>3 DEF NoLag, ResumeOffset, Offsets, CommittedIsSettled
<1>. QED  BY <1>2, <1>3

(* A record that is no tombstone repeats the change at its LSN.            *)
LEMMA EventIsFromWal ==
  ASSUME FeedInv, NEW i \in Offsets, topic[i].payload # "tombstone"
  PROVE  topic[i] \in Messages /\ FromWal(topic[i], wal)
<1>1. topic[i] \in Messages  BY DEF FeedInv, TypeOK, Offsets
<1>. QED  BY <1>1 DEF FeedInv, TopicFromWal

(* Only tombstones have no LSN.                                            *)
LEMMA TombstonesHaveNoLsn ==
  ASSUME FeedInv, NEW i \in Offsets
  PROVE  topic[i].lsn > 0 <=> topic[i].payload # "tombstone"
<1>1. topic[i] \in Messages  BY DEF FeedInv, TypeOK, Offsets
<1>2. topic[i].payload = "tombstone" => topic[i].lsn = 0
  BY <1>1, FeedAssumption DEF FeedMessages, EventRecord, TombstoneRecord
<1>3. topic[i].payload # "tombstone" => topic[i].lsn > 0
  BY EventIsFromWal DEF FromWal, FeedInv, FeedTypeOK
<1>. QED  BY <1>2, <1>3

(* The last change of an order has its record in the topic.                *)
LEMMA LatestIsInTopic ==
  ASSUME FeedInv, emitted = Len(wal), NEW o \in Orders, NEW l, IsLatest(o, l)
  PROVE  \E i \in Offsets : /\ topic[i].payload # "tombstone"
                            /\ topic[i].lsn = l
                            /\ topic[i].order = o
                            /\ topic[i].after = wal[l].after
<1>1. PICK i \in Offsets : topic[i].payload # "tombstone" /\ topic[i].lsn = l
  BY DEF FeedInv, TopicHoldsEmitted, IsLatest
<1>2. FromWal(topic[i], wal)
  BY <1>1, EventIsFromWal
<1>. QED  BY <1>1, <1>2 DEF FromWal, IsLatest
=============================================================================
