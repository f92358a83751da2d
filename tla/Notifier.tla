------------------------------ MODULE Notifier ------------------------------
(***************************************************************************)
(* Notifier (consumers/src/notifier.cpp): one e-mail when an order reaches *)
(* a status the customer is told of, deduplicated by SET NX on             *)
(* email_sent:<id>:<status>.  The key is set before the mail is sent, so a *)
(* reply that is lost in between costs the mail.                           *)
(***************************************************************************)
EXTENDS OrdersFeed

CONSTANTS
    Notified,   \* the statuses that are mailed: SHIPPED and DELIVERED
    MaxPending  \* bound: SETs on their way at a time

ASSUME NotifierAssumption ==
    /\ Notified \subseteq Statuses
    /\ MaxPending \in Nat

VARIABLES
    sentKeys,     \* email_sent:<id>:<status> keys that exist in Redis
    reply,        \* what SET NX answered to the attempt under way
    connected,    \* redis_ctx_ is usable
    pendingSets,  \* keys whose SET the server has still to execute
    mails,        \* history: e-mails sent for each key
    expired,      \* history: keys that reached their TTL
    orphaned      \* history: keys set by a call whose reply was lost

sinkVars == <<sentKeys, reply, connected, pendingSets, mails, expired,
              orphaned>>
notifierVars == <<consumerVars, feedVars, sinkVars>>

Keys == Orders \X Notified
Key(m) == <<m.order, m.after>>
(* Mutant of IsNotice: no filter on the status. *)
AnyStatusIsNotice(m) == ~IsDelete(m)

IsNotice(m) == ~IsDelete(m) /\ m.after \in Notified

NotifierInit ==
    /\ ConsumerInit
    /\ FeedInit
    /\ sentKeys = {}
    /\ reply = "none"
    /\ connected = FALSE
    /\ pendingSets = {}
    /\ mails = [k \in Keys |-> 0]
    /\ expired = {}
    /\ orphaned = {}

----------------------------------------------------------------------------
(* ProcessRecord of Notifier *)

ConstructNotifier ==
    /\ Construct
    /\ connected' = TRUE
    /\ UNCHANGED <<feedVars, sentKeys, reply, pendingSets, mails, expired,
                   orphaned>>

SkipRecord ==
    /\ ProcessReturns
    /\ ~IsNotice(Held)
    /\ UNCHANGED <<feedVars, sinkVars>>

(* A notice is in hand and SET NX has not been sent yet. *)
BeforeSet == pc = "call" /\ IsNotice(Held) /\ reply = "none"

ConnectFails ==
    /\ BeforeSet
    /\ ~connected
    /\ ProcessThrows
    /\ UNCHANGED <<feedVars, sinkVars>>

(* Mutant of SetReplies: SET without NX. *)
SetWithoutNX ==
    /\ BeforeSet
    /\ reply' = "ok"
    /\ sentKeys' = sentKeys \union {Key(Held)}
    /\ connected' = TRUE
    /\ UNCHANGED <<consumerVars, feedVars, pendingSets, mails, expired,
                   orphaned>>

SetReplies ==
    /\ BeforeSet
    /\ reply' = IF Key(Held) \in sentKeys THEN "nil" ELSE "ok"
    /\ sentKeys' = sentKeys \union {Key(Held)}
    /\ connected' = TRUE
    /\ UNCHANGED <<consumerVars, feedVars, pendingSets, mails, expired,
                   orphaned>>

(* Mutant of SetErrors: an error reply passes for a duplicate. *)
ErrorIsDuplicate ==
    /\ BeforeSet
    /\ ProcessReturns
    /\ connected' = TRUE
    /\ UNCHANGED <<feedVars, sentKeys, reply, pendingSets, mails, expired,
                   orphaned>>

SetErrors ==
    /\ BeforeSet
    /\ ProcessThrows
    /\ connected' = TRUE
    /\ UNCHANGED <<feedVars, sentKeys, reply, pendingSets, mails, expired,
                   orphaned>>

(* Executed with its reply lost, not executed, or to be executed later.    *)
SetTimesOut ==
    /\ BeforeSet
    /\ ProcessThrows
    /\ connected' = FALSE
    /\ \/ /\ sentKeys' = sentKeys \union {Key(Held)}
          /\ orphaned' = orphaned \union ({Key(Held)} \ sentKeys)
          /\ UNCHANGED pendingSets
       \/ UNCHANGED <<sentKeys, orphaned, pendingSets>>
       \/ /\ Cardinality(pendingSets) < MaxPending
          /\ pendingSets' = pendingSets \union {Key(Held)}
          /\ UNCHANGED <<sentKeys, orphaned>>
    /\ UNCHANGED <<feedVars, reply, mails, expired>>

SendMail ==
    /\ reply = "ok"
    /\ ProcessReturns
    /\ mails' = [mails EXCEPT ![Key(Held)] = @ + 1]
    /\ reply' = "none"
    /\ UNCHANGED <<feedVars, sentKeys, connected, pendingSets, expired,
                   orphaned>>

SkipDuplicate ==
    /\ reply = "nil"
    /\ ProcessReturns
    /\ reply' = "none"
    /\ UNCHANGED <<feedVars, sentKeys, connected, pendingSets, mails, expired,
                   orphaned>>

ProcessRecord ==
    \/ SkipRecord \/ ConnectFails \/ SetReplies \/ SetErrors \/ SetTimesOut
    \/ SendMail \/ SkipDuplicate

(* A crash between the reply and the mail orphans the key too. *)
CrashNotifier ==
    /\ Crash
    /\ reply' = "none"
    /\ orphaned' = IF reply = "ok" THEN orphaned \union {Key(Held)}
                                   ELSE orphaned
    /\ UNCHANGED <<feedVars, sentKeys, connected, pendingSets, mails, expired>>

----------------------------------------------------------------------------
(* Redis *)

LateSet(k) ==
    /\ k \in pendingSets
    /\ pendingSets' = pendingSets \ {k}
    /\ sentKeys' = sentKeys \union {k}
    /\ orphaned' = orphaned \union ({k} \ sentKeys)
    /\ UNCHANGED <<consumerVars, feedVars, reply, connected, mails, expired>>

(* EX 86400 *)
Expire(k) ==
    /\ k \in sentKeys
    /\ sentKeys' = sentKeys \ {k}
    /\ expired' = expired \union {k}
    /\ UNCHANGED <<consumerVars, feedVars, reply, connected, pendingSets,
                   mails, orphaned>>

----------------------------------------------------------------------------
NotifierNext ==
    \/ FeedStep /\ UNCHANGED sinkVars
    \/ LoopStep /\ UNCHANGED <<feedVars, sinkVars>>
    \/ ProcessRecord
    \/ ConstructNotifier
    \/ CrashNotifier
    \/ /\ Assign \/ LoseAssignment \/ Stop
       /\ UNCHANGED <<feedVars, sinkVars>>
    \/ /\ \E o \in dlqQueue : DlqDelivered(o) \/ DlqExpires(o)
       /\ UNCHANGED <<feedVars, sinkVars>>
    \/ \E k \in pendingSets : LateSet(k)
    \/ \E k \in sentKeys : Expire(k)

NotifierSpec == NotifierInit /\ [][NotifierNext]_notifierVars

(* As ConsumerFairness; Debezium keeps emitting what is in the log. *)
NotifierFairness ==
    /\ WF_notifierVars((LoopStep /\ UNCHANGED <<feedVars, sinkVars>>)
                       \/ ProcessRecord)
    /\ SF_notifierVars(ConsumeMessage /\ UNCHANGED <<feedVars, sinkVars>>)
    /\ WF_notifierVars(pc = "down" /\ ConstructNotifier)
    /\ WF_notifierVars(Assign /\ UNCHANGED <<feedVars, sinkVars>>)
    /\ WF_notifierVars((Emit \/ EmitTombstone) /\ UNCHANGED sinkVars)

FairNotifierSpec == NotifierSpec /\ NotifierFairness

----------------------------------------------------------------------------
(* Properties *)

(* The values the notifier's variables may take. *)
NotifierTypeOK ==
    /\ TypeOK
    /\ FeedTypeOK
    /\ sentKeys \subseteq Keys
    /\ reply \in {"none", "ok", "nil"}
    /\ connected \in BOOLEAN
    /\ pendingSets \subseteq Keys
    /\ mails \in [Keys -> Nat]
    /\ expired \subseteq Keys
    /\ orphaned \subseteq Keys

(* A customer is mailed once per order and status, however often Kafka     *)
(* redelivers or Debezium repeats the record, as long as the key lives.    *)
MailedAtMostOnce == \A k \in Keys : k \in expired \/ mails[k] <= 1

(* A processed notice was mailed, now or by an earlier delivery; only a    *)
(* key whose SET lost its reply stands for a mail nobody sent.             *)
ProcessedIsMailed ==
    \A i \in sunk :
        IsNotice(topic[i]) =>
            mails[Key(topic[i])] > 0 \/ Key(topic[i]) \in orphaned

(* Once there is no lag every change to a status that is notified has been *)
(* mailed, is one whose SET lost its reply, or was dead-lettered: from the *)
(* table to the customer nothing else gets lost.                           *)
NoNoticeIsForgotten ==
    NoLag =>
        \A l \in 1..Len(wal) :
            wal[l].after \in Notified =>
                LET key == <<wal[l].order, wal[l].after>>
                IN  \/ mails[key] > 0
                    \/ key \in orphaned
                    \/ \E i \in dlqQueue \union dlqTopic \union dropped :
                          topic[i].lsn = l

IsNoticed(l) == l <= Len(wal) /\ wal[l].after \in Notified

MailedNow(l) ==
    /\ IsNoticed(l)
    /\ \/ mails[<<wal[l].order, wal[l].after>>] > 0
       \/ \E i \in dlqQueue \union dlqTopic \union dropped :
             topic[i].lsn = l

(* PRD.md and ADR 4: every order that is shipped or delivered is mailed.   *)
(* Dead-lettered records and a consumer that stays stopped or dead are     *)
(* excused.                                                                *)
EveryNoticeIsMailed ==
    \A l \in 1..MaxWal :
        \/ <>[](pc = "stopped")
        \/ <>[](pc = "dead")
        \/ IsNoticed(l) ~> MailedNow(l)
=============================================================================
