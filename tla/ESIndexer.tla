----------------------------- MODULE ESIndexer -----------------------------
(***************************************************************************)
(* ESIndexer (consumers/src/es_indexer.cpp): the consumer that writes each *)
(* record to /orders/_doc/<id>.  Unlike the Redis scripts, PUT and DELETE  *)
(* carry no version: whatever Elasticsearch executes last stands.  A call  *)
(* that timed out may have been executed, may never be, or may be executed *)
(* after the retry, or the records, that followed it.                      *)
(***************************************************************************)
EXTENDS OrdersFeed

CONSTANTS
    MaxPending  \* bound: requests on their way at a time

ASSUME RequestsAssumption == MaxPending \in Nat

VARIABLES
    doc,          \* the index: the status in each order's document
    pendingReqs,  \* records whose request is still to be executed
    docLsn,       \* history: the change each document was last written from
    overtaken     \* history: orders whose document a late request wrote

sinkVars == <<doc, pendingReqs, docLsn, overtaken>>
esVars == <<consumerVars, feedVars, sinkVars>>

ESInit ==
    /\ ConsumerInit
    /\ FeedInit
    /\ doc = [o \in Orders |-> NoRow]
    /\ pendingReqs = {}
    /\ docLsn = [o \in Orders |-> 0]
    /\ overtaken = {}

----------------------------------------------------------------------------
(* ProcessRecord of ESIndexer *)

(* DELETE for a delete, PUT of `after` otherwise; 404 on DELETE is fine.   *)
Execute(m) ==
    /\ doc' = [doc EXCEPT ![m.order] = IF IsDelete(m) THEN NoRow ELSE m.after]
    /\ docLsn' = [docLsn EXCEPT ![m.order] = m.lsn]

RequestSucceeds ==
    /\ ProcessReturns
    /\ Execute(Held)
    /\ UNCHANGED <<feedVars, pendingReqs, overtaken>>

(* Mutant of RequestRejected: the status is not looked at. *)
RejectionIsIgnored ==
    /\ ProcessReturns
    /\ UNCHANGED <<feedVars, sinkVars>>

(* A status that is not 2xx, no connection, or a timeout (status 0).       *)
RequestRejected ==
    /\ ProcessThrows
    /\ UNCHANGED <<feedVars, sinkVars>>

RequestTimesOut ==
    /\ ProcessThrows
    /\ \/ Execute(Held) /\ UNCHANGED pendingReqs
       \/ /\ Cardinality(pendingReqs) < MaxPending
          /\ pendingReqs' = pendingReqs \union {Held}
          /\ UNCHANGED <<doc, docLsn>>
    /\ UNCHANGED <<feedVars, overtaken>>

ProcessRecord == RequestSucceeds \/ RequestRejected \/ RequestTimesOut

(* Elasticsearch gets round to a request whose client has given up.        *)
LateRequest(m) ==
    /\ m \in pendingReqs
    /\ Execute(m)
    /\ pendingReqs' = pendingReqs \ {m}
    /\ overtaken' = overtaken \union {m.order}
    /\ UNCHANGED <<consumerVars, feedVars>>

----------------------------------------------------------------------------
ESNext ==
    \/ FeedStep /\ UNCHANGED sinkVars
    \/ LoopStep /\ UNCHANGED <<feedVars, sinkVars>>
    \/ ProcessRecord
    \/ /\ Construct \/ Assign \/ LoseAssignment \/ Stop \/ Crash
       /\ UNCHANGED <<feedVars, sinkVars>>
    \/ /\ \E o \in dlqQueue : DlqDelivered(o) \/ DlqExpires(o)
       /\ UNCHANGED <<feedVars, sinkVars>>
    \/ \E m \in pendingReqs : LateRequest(m)

ESSpec == ESInit /\ [][ESNext]_esVars

(* As ConsumerFairness; Debezium keeps emitting what is in the log, and    *)
(* Elasticsearch gets round to what it has received.                       *)
ESFairness ==
    /\ WF_esVars((LoopStep /\ UNCHANGED <<feedVars, sinkVars>>)
                 \/ ProcessRecord)
    /\ SF_esVars(ConsumeMessage /\ UNCHANGED <<feedVars, sinkVars>>)
    /\ WF_esVars(pc = "down" /\ Construct /\ UNCHANGED <<feedVars, sinkVars>>)
    /\ WF_esVars(Assign /\ UNCHANGED <<feedVars, sinkVars>>)
    /\ WF_esVars((Emit \/ EmitTombstone) /\ UNCHANGED sinkVars)
    /\ WF_esVars(\E m \in pendingReqs : LateRequest(m))

FairESSpec == ESSpec /\ ESFairness

----------------------------------------------------------------------------
(* Properties *)

(* The values the index and its history may take. *)
ESTypeOK ==
    /\ TypeOK
    /\ FeedTypeOK
    /\ doc \in [Orders -> Statuses \union {NoRow}]
    /\ pendingReqs \subseteq Messages
    /\ docLsn \in [Orders -> 0..Len(wal)]
    /\ overtaken \subseteq Orders

DeadLettered == dlqQueue \union dlqTopic \union dropped

(* The offset Run reads from next; a thread that is stopping or dead only  *)
(* reads again after it has resumed from the group's offset.               *)
NextOffset ==
    IF assigned /\ running /\ pc # "dead" THEN position ELSE ResumeOffset

(* Change l of the order, or a later one, is still to be handled (by Run   *)
(* or, not yet emitted again, by Debezium) or has been dead-lettered.      *)
StillAhead(order, l) ==
    \/ emitted < l
    \/ \E j \in Offsets :
          /\ topic[j].order = order
          /\ topic[j].lsn >= l
          /\ \/ j >= NextOffset
             \/ pc \in InHand /\ j = msg
             \/ j \in DeadLettered

(* Redelivery makes a document go back to an earlier change, since nothing *)
(* guards the PUT.  It is always transient: as long as a document is older *)
(* than a record that was processed, that record or a newer one of the     *)
(* order will come again.  This rests on resuming from the committed       *)
(* offset, and breaks when re-joins are so frequent that the offset itself *)
(* moves back under a record in hand, which takes a third fault.           *)
RegressionIsRepaired ==
    faults < 3 =>
        \A i \in sunk :
            \/ docLsn[topic[i].order] >= topic[i].lsn
            \/ topic[i].order \in overtaken
            \/ StillAhead(topic[i].order, topic[i].lsn)

(* When Debezium has emitted the whole log and Run has nothing left to     *)
(* read, or to read again, the index shows the table, although nothing     *)
(* guards the PUTs on the way there.  A lag of 0 would not be enough: a    *)
(* loop that has re-joined may read old records again behind the group's   *)
(* offset.  Excused are orders that a late request wrote, or whose last    *)
(* change was dead-lettered.                                               *)
IndexShowsTable ==
    (/\ faults < 3
     /\ emitted = Len(wal)
     /\ NextOffset > Len(topic)
     /\ pc \notin InHand)
    => \A o \in Orders :
          \/ doc[o] = row[o]
          \/ o \in overtaken
          \/ \E i \in DeadLettered : IsLatest(o, topic[i].lsn)

(* PRD.md: the index is eventually consistent.  Dead-lettered records and  *)
(* a consumer that stays stopped or dead are excused.                      *)
DocsConverge ==
    \A o \in Orders :
        \/ <>[](pc = "stopped")
        \/ <>[](pc = "dead")
        \/ <>(DeadLettered # {})
        \/ <>[](doc[o] = row[o])
=============================================================================
