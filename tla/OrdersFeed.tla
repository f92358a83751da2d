----------------------------- MODULE OrdersFeed -----------------------------
(***************************************************************************)
(* The consumer loop reading the records of the orders table, up to what a *)
(* sink does with them: the part that ESIndexer, RedisUpdater and Notifier *)
(* share.  The API writes the table (api/src/database_client.cpp) and      *)
(* Debezium turns the write-ahead log into records of the topic.           *)
(*                                                                         *)
(* Postgres and Debezium are not in this repository; what the consumers    *)
(* rely on is modelled: the LSN of a change is its place in the log, a     *)
(* delete is followed by a tombstone, and a connector that restarts emits  *)
(* again what it emitted since it last stored its place.                   *)
(***************************************************************************)
EXTENDS KafkaConsumerBase

CONSTANTS
    Orders,    \* ids of orders
    Statuses,  \* values of the status column
    Created,   \* the status CreateOrder inserts
    NoRow,     \* no such row
    MaxWal,    \* bound: changes of the table in a behaviour
    MaxRestarts \* bound: restarts of the connector

Ops == {"c", "u", "d"}

(* The records of the topic.  Timestamps and numbers make the Avro form of *)
(* an event bytes that are no UTF-8 text.                                  *)
EventRecord(lsn, order, op, after) ==
    [payload |-> "avro", utf8 |-> FALSE,
     lsn |-> lsn, order |-> order, op |-> op, after |-> after]

TombstoneRecord(order) ==
    [payload |-> "tombstone", utf8 |-> TRUE,
     lsn |-> 0, order |-> order, op |-> "d", after |-> NoRow]

FeedMessages ==
    {EventRecord(lsn, order, op, after) :
        lsn \in 1..MaxWal, order \in Orders, op \in Ops,
        after \in Statuses \union {NoRow}}
    \union {TombstoneRecord(order) : order \in Orders}

ASSUME FeedAssumption ==
    /\ Created \in Statuses
    /\ NoRow \notin Statuses
    /\ MaxWal \in Nat
    /\ MaxRestarts \in Nat
    /\ Messages = FeedMessages

VARIABLES
    row,          \* the orders table: status of each order
    wal,          \* the changes committed, in order
    emitted,      \* how many of them Debezium has emitted
    tombstoneDue, \* the last one emitted was a delete, its tombstone was not
    restarts      \* restarts of the connector so far

Changes == [order : Orders, op : Ops, after : Statuses \union {NoRow}]

feedVars == <<row, wal, emitted, tombstoneDue, restarts>>

FeedInit ==
    /\ row = [o \in Orders |-> NoRow]
    /\ wal = <<>>
    /\ emitted = 0
    /\ tombstoneDue = FALSE
    /\ restarts = 0

CommitChange(order, op, after) ==
    /\ Len(wal) < MaxWal
    /\ row' = [row EXCEPT ![order] = after]
    /\ wal' = Append(wal, [order |-> order, op |-> op, after |-> after])
    /\ UNCHANGED <<emitted, tombstoneDue, restarts, consumerVars>>

(* Ids are fresh UUIDs: no order is created twice. *)
CreateOrder(o) ==
    /\ \A i \in 1..Len(wal) : wal[i].order # o
    /\ CommitChange(o, "c", Created)

(* An UPDATE of no row changes nothing; one to the same status is logged.  *)
UpdateOrderStatus(o, status) ==
    /\ row[o] # NoRow
    /\ CommitChange(o, "u", status)

(* Nothing in the repository deletes orders; the consumers handle it. *)
DeleteOrder(o) ==
    /\ row[o] # NoRow
    /\ CommitChange(o, "d", NoRow)

Emit ==
    /\ emitted < Len(wal)
    /\ ~tombstoneDue
    /\ LET change == wal[emitted + 1] IN
         /\ Publish(EventRecord(emitted + 1, change.order, change.op,
                                change.after))
         /\ tombstoneDue' = (change.op = "d")
    /\ emitted' = emitted + 1
    /\ UNCHANGED <<row, wal, restarts>>

EmitTombstone ==
    /\ tombstoneDue
    /\ Publish(TombstoneRecord(wal[emitted].order))
    /\ tombstoneDue' = FALSE
    /\ UNCHANGED <<row, wal, emitted, restarts>>

ConnectorRestarts ==
    /\ restarts < MaxRestarts
    /\ restarts' = restarts + 1
    /\ emitted' \in 0..(emitted - 1)
    /\ tombstoneDue' = FALSE
    /\ UNCHANGED <<row, wal, consumerVars>>

FeedStep ==
    \/ \E o \in Orders :
          \/ CreateOrder(o)
          \/ \E status \in Statuses : UpdateOrderStatus(o, status)
          \/ DeleteOrder(o)
    \/ Emit
    \/ EmitTombstone
    \/ ConnectorRestarts

(* The record in hand, as the sinks read it. *)
Held == topic[msg]
IsDelete(m) == m.op = "d"

FeedTypeOK ==
    /\ row \in [Orders -> Statuses \union {NoRow}]
    /\ wal \in Seq(Changes)
    /\ Len(wal) <= MaxWal
    /\ emitted \in 0..Len(wal)
    /\ tombstoneDue \in BOOLEAN
    /\ tombstoneDue => emitted > 0
    /\ restarts \in Nat

(* Debezium has emitted the whole log, and the group's offset has reached  *)
(* the end of the topic: what an operator sees as a lag of 0.              *)
NoLag ==
    /\ emitted = Len(wal)
    /\ ResumeOffset = Len(topic) + 1

(* Change l is the last one of the order. *)
IsLatest(order, l) ==
    /\ l \in 1..Len(wal)
    /\ wal[l].order = order
    /\ \A k \in (l + 1)..Len(wal) : wal[k].order # order
=============================================================================
