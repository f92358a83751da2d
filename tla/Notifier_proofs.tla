-------------------------- MODULE Notifier_proofs --------------------------
(* Proofs about Notifier, for every set of orders, statuses and notified   *)
(* statuses and every value of the bounds.                                 *)
EXTENDS Notifier, OrdersFeed_proofs

(* The notifier takes only steps of the consumer loop.                     *)
LEMMA StepIsConsumerStep ==
  ASSUME FeedTypeOK, [NotifierNext]_notifierVars
  PROVE  [ConsumerNext]_consumerVars
<1>1. CASE FeedStep
  BY <1>1, FeedStepIsConsumerStep
<1>2. CASE ProcessRecord
  BY <1>2 DEF ProcessRecord, SkipRecord, ConnectFails, SetReplies, SetErrors,
              SetTimesOut, SendMail, SkipDuplicate, ConsumerNext
<1>3. CASE ConstructNotifier \/ CrashNotifier
  BY <1>3 DEF ConstructNotifier, CrashNotifier, ConsumerNext, EnvironmentStep
<1>4. CASE LoopStep \/ Assign \/ LoseAssignment \/ Stop
  BY <1>4 DEF ConsumerNext, EnvironmentStep
<1>5. CASE \E o \in dlqQueue : DlqDelivered(o) \/ DlqExpires(o)
  BY <1>5 DEF ConsumerNext, EnvironmentStep
<1>6. CASE \E k \in pendingSets : LateSet(k)
  BY <1>6 DEF LateSet
<1>7. CASE \E k \in sentKeys : Expire(k)
  BY <1>7 DEF Expire
<1>8. CASE UNCHANGED notifierVars
  BY <1>8 DEF notifierVars
<1>. QED
  BY <1>1, <1>2, <1>3, <1>4, <1>5, <1>6, <1>7, <1>8 DEF NotifierNext

LEMMA FeedPart ==
  ASSUME [NotifierNext]_notifierVars
  PROVE  FeedStep \/ UNCHANGED <<feedVars, topic>>
  BY DEF NotifierNext, ProcessRecord, SkipRecord, ConnectFails, SetReplies,
         SetErrors, SetTimesOut, SendMail, SkipDuplicate, ConstructNotifier,
         CrashNotifier, LateSet, Expire, LoopStep, RunBegins, LoopTest,
         ConsumeNothing, ConsumeMessage, DecodeSucceeds, DecodeFails,
         BeginAttempt, RetriesExhausted, Abandon, CommitSync, CommitFails,
         ExitLoop, ProcessReturns, ProcessThrows, Construct, Assign,
         LoseAssignment, Stop, Crash, DlqDelivered, DlqExpires, consumerVars,
         notifierVars

----------------------------------------------------------------------------
(* The inductive invariant: what the keys in Redis, the reply in hand and  *)
(* the mails know of each other.                                           *)

(* A reply belongs to the notice in hand.                                  *)
ReplyIsOfHeld == reply # "none" => pc = "call" /\ IsNotice(Held)

(* A mailed key is still there, or it has expired.                         *)
MailedIsKeyed == \A k \in Keys : mails[k] > 0 => k \in sentKeys \union expired

(* OK was the answer because nobody had mailed the notice.                 *)
OkMeansFresh ==
    reply = "ok" =>
        /\ Key(Held) \in sentKeys \union expired
        /\ mails[Key(Held)] = 0 \/ Key(Held) \in expired

Accounted(k) == mails[k] > 0 \/ k \in orphaned

NilMeansKnown == reply = "nil" => Accounted(Key(Held))

(* A key is there because of a mail, of a mail about to be sent, or of a   *)
(* SET whose reply nobody saw.                                             *)
KeysAreAccounted ==
    \A k \in sentKeys : Accounted(k) \/ (reply = "ok" /\ k = Key(Held))

NotifierInv ==
    /\ FeedInv
    /\ NotifierTypeOK
    /\ ReplyIsOfHeld
    /\ MailedIsKeyed
    /\ OkMeansFresh
    /\ NilMeansKnown
    /\ KeysAreAccounted
    /\ MailedAtMostOnce
    /\ ProcessedIsMailed

LEMMA NotifierInvInit == NotifierInit => NotifierInv
<1> SUFFICES ASSUME NotifierInit PROVE NotifierInv
  OBVIOUS
<1>1. FeedInv  BY FeedInvInit DEF NotifierInit
<1>2. /\ mails \in [Keys -> Nat] /\ \A k \in Keys : mails[k] = 0
      /\ reply = "none" /\ connected \in BOOLEAN
      /\ sentKeys = {} /\ pendingSets = {} /\ expired = {} /\ orphaned = {}
      /\ sunk = {}
  BY DEF NotifierInit, ConsumerInit
<1>. QED
  BY <1>1, <1>2
  DEF NotifierInv, FeedInv, NotifierTypeOK, ReplyIsOfHeld, MailedIsKeyed,
      OkMeansFresh, NilMeansKnown, KeysAreAccounted, MailedAtMostOnce,
      ProcessedIsMailed

----------------------------------------------------------------------------
(* Steps of the notifier, by what they do to the keys and the mails *)

KeyVars == <<sentKeys, reply, mails, expired, orphaned>>

(* A key is set and nobody hears of it.                                    *)
KeyAppears(k) ==
    /\ sentKeys' = sentKeys \union {k}
    /\ orphaned' = orphaned \union ({k} \ sentKeys)
    /\ UNCHANGED <<reply, mails, expired>>

LEMMA KeyIsKey ==
  ASSUME NEW m \in Messages, IsNotice(m)
  PROVE  Key(m) \in Keys
  BY MessageFields DEF Key, Keys, IsNotice

LEMMA HeldIsMessage ==
  ASSUME TypeOK, pc = "call"
  PROVE  Held \in Messages /\ msg \in Offsets
  BY DEF TypeOK, InHand, Held, Offsets

(* A reply in hand after a step is that of the record in hand before it.   *)
LEMMA ReplyStep ==
  ASSUME TypeOK, FeedTypeOK, ReplyIsOfHeld, [NotifierNext]_notifierVars,
         reply' # "none"
  PROVE  pc = "call" /\ pc' = "call" /\ IsNotice(Held) /\ Held' = Held
<1>1. CASE SetReplies
  BY <1>1 DEF SetReplies, BeforeSet, consumerVars, threadVars, Held
<1>2. CASE ~SetReplies
  <2>1. reply' = reply /\ ~ProcessRecord /\ ~CrashNotifier
    BY <1>2 DEF NotifierNext, ProcessRecord, SkipRecord, ConnectFails,
                SetErrors, SetTimesOut, SendMail, SkipDuplicate, BeforeSet,
                ConstructNotifier, CrashNotifier, LateSet, Expire, sinkVars,
                notifierVars, ReplyIsOfHeld
  <2>2. pc = "call" /\ IsNotice(Held)
    BY <2>1 DEF ReplyIsOfHeld
  <2>3. pc' = pc /\ msg' = msg
    BY <2>1, <2>2
    DEF NotifierNext, ConstructNotifier, LateSet, Expire, LoopStep, RunBegins,
        LoopTest, ConsumeNothing, ConsumeMessage, DecodeSucceeds, DecodeFails,
        BeginAttempt, RetriesExhausted, Abandon, CommitSync, CommitFails,
        ExitLoop, Construct, Assign, LoseAssignment, Stop, DlqDelivered,
        DlqExpires, FeedStep, CreateOrder, UpdateOrderStatus, DeleteOrder,
        CommitChange, Emit, EmitTombstone, ConnectorRestarts, Publish,
        consumerVars, threadVars, notifierVars
  <2>4. topic'[msg] = topic[msg]
    BY <2>2, HeldIsMessage, FeedPart, LogsGrow
  <2>. QED  BY <2>2, <2>3, <2>4 DEF Held
<1>. QED  BY <1>1, <1>2

LEMMA KeysPart ==
  ASSUME [NotifierNext]_notifierVars, TypeOK, pendingSets \subseteq Keys
  PROVE  \/ UNCHANGED KeyVars
         \/ SetReplies /\ Key(Held) \in Keys
         \/ SendMail
         \/ SkipDuplicate
         \/ CrashNotifier
         \/ \E k \in Keys : KeyAppears(k)
         \/ \E k \in sentKeys : Expire(k)
<1>1. CASE SetReplies \/ SetTimesOut
  <2>1. Key(Held) \in Keys
    BY <1>1, HeldIsMessage, KeyIsKey DEF SetReplies, SetTimesOut, BeforeSet
  <2>. QED
    BY <1>1, <2>1 DEF SetTimesOut, KeyAppears, KeyVars
<1>2. CASE \E k \in pendingSets : LateSet(k)
  BY <1>2 DEF LateSet, KeyAppears
<1>3. CASE ~(SetReplies \/ SetTimesOut \/ \E k \in pendingSets : LateSet(k))
  BY <1>3
  DEF NotifierNext, ProcessRecord, SkipRecord, ConnectFails, SetErrors,
      ConstructNotifier, KeyVars, sinkVars, notifierVars
<1>. QED  BY <1>1, <1>2, <1>3
----------------------------------------------------------------------------
(* The parts of the invariant about keys and mails *)

MailTypeOK ==
    /\ sentKeys \subseteq Keys
    /\ reply \in {"none", "ok", "nil"}
    /\ mails \in [Keys -> Nat]
    /\ expired \subseteq Keys
    /\ orphaned \subseteq Keys

KeysInv ==
    /\ MailTypeOK
    /\ ReplyIsOfHeld
    /\ MailedIsKeyed
    /\ OkMeansFresh
    /\ NilMeansKnown
    /\ KeysAreAccounted
    /\ MailedAtMostOnce

LEMMA KeysStep ==
  ASSUME NotifierInv, [NotifierNext]_notifierVars
  PROVE  /\ KeysInv'
         /\ orphaned \subseteq orphaned'
         /\ \A k \in Keys : mails'[k] >= mails[k]
<1> DEFINE h == Key(Held)
<1>0. /\ TypeOK /\ FeedTypeOK /\ KeysInv /\ pendingSets \subseteq Keys
  BY DEF NotifierInv, NotifierTypeOK, KeysInv, MailTypeOK
<1>1. reply' # "none" => pc' = "call" /\ IsNotice(Held)' /\ h' = h
  <2> SUFFICES ASSUME reply' # "none"
               PROVE  pc' = "call" /\ IsNotice(Held)' /\ h' = h
    OBVIOUS
  <2>1. pc' = "call" /\ IsNotice(Held) /\ Held' = Held
    BY <1>0, ReplyStep DEF KeysInv
  <2>. QED  BY <2>1 DEF IsNotice, IsDelete, Key
<1>2. ReplyIsOfHeld'
  BY <1>1 DEF ReplyIsOfHeld
<1>3. reply # "none" => h \in Keys
  BY <1>0, HeldIsMessage, KeyIsKey DEF KeysInv, ReplyIsOfHeld
<1>4. /\ MailTypeOK /\ MailedIsKeyed /\ MailedAtMostOnce
      /\ reply = "ok" => /\ h \in sentKeys \union expired
                         /\ mails[h] = 0 \/ h \in expired
      /\ reply = "nil" => Accounted(h)
      /\ \A k \in sentKeys : Accounted(k) \/ (reply = "ok" /\ k = h)
  BY <1>0 DEF KeysInv, OkMeansFresh, NilMeansKnown, KeysAreAccounted
<1> DEFINE Goal ==
      /\ MailTypeOK' /\ MailedIsKeyed' /\ MailedAtMostOnce'
      /\ reply' = "ok" => /\ h \in sentKeys' \union expired'
                          /\ mails'[h] = 0 \/ h \in expired'
      /\ reply' = "nil" => mails'[h] > 0 \/ h \in orphaned'
      /\ \A k \in sentKeys' :
            \/ mails'[k] > 0 \/ k \in orphaned'
            \/ reply' = "ok" /\ k = h
      /\ orphaned \subseteq orphaned'
      /\ \A k \in Keys : mails'[k] >= mails[k]
<1>5. ASSUME UNCHANGED KeyVars PROVE Goal
  BY <1>4, <1>5
  DEF KeyVars, MailTypeOK, MailedIsKeyed, MailedAtMostOnce, Accounted
<1>6. ASSUME SetReplies /\ h \in Keys PROVE Goal
  <2>1. /\ reply' = IF h \in sentKeys THEN "nil" ELSE "ok"
        /\ sentKeys' = sentKeys \union {h} /\ reply = "none"
        /\ UNCHANGED <<mails, expired, orphaned>>
    BY <1>6 DEF SetReplies, BeforeSet
  <2> HIDE DEF h
  <2>. QED
    BY <1>4, <1>6, <2>1
    DEF MailTypeOK, MailedIsKeyed, MailedAtMostOnce, Accounted
<1>7. ASSUME SendMail PROVE Goal
  <2>1. /\ reply = "ok" /\ reply' = "none" /\ h \in Keys
        /\ mails' = [mails EXCEPT ![h] = @ + 1]
        /\ UNCHANGED <<sentKeys, expired, orphaned>>
    BY <1>3, <1>7 DEF SendMail
  <2> HIDE DEF h
  <2>. QED
    BY <1>4, <2>1
    DEF MailTypeOK, MailedIsKeyed, MailedAtMostOnce, Accounted
<1>8. ASSUME SkipDuplicate PROVE Goal
  <2>1. /\ reply = "nil" /\ reply' = "none"
        /\ UNCHANGED <<sentKeys, mails, expired, orphaned>>
    BY <1>8 DEF SkipDuplicate
  <2> HIDE DEF h
  <2>. QED
    BY <1>4, <2>1
    DEF MailTypeOK, MailedIsKeyed, MailedAtMostOnce, Accounted
<1>9. ASSUME CrashNotifier PROVE Goal
  <2>1. /\ orphaned' = IF reply = "ok" THEN orphaned \union {h} ELSE orphaned
        /\ reply' = "none" /\ UNCHANGED <<sentKeys, mails, expired>>
    BY <1>9 DEF CrashNotifier
  <2> HIDE DEF h
  <2>. QED
    BY <1>3, <1>4, <2>1
    DEF MailTypeOK, MailedIsKeyed, MailedAtMostOnce, Accounted
<1>10. ASSUME \E k \in Keys : KeyAppears(k) PROVE Goal
  <2>1. PICK k \in Keys : KeyAppears(k)  BY <1>10
  <2> HIDE DEF h
  <2>. QED
    BY <1>4, <2>1
    DEF KeyAppears, MailTypeOK, MailedIsKeyed, MailedAtMostOnce, Accounted
<1>11. ASSUME \E k \in sentKeys : Expire(k) PROVE Goal
  <2>1. PICK k \in sentKeys :
           /\ sentKeys' = sentKeys \ {k} /\ expired' = expired \union {k}
           /\ UNCHANGED <<reply, mails, orphaned>>
    BY <1>11 DEF Expire
  <2> HIDE DEF h
  <2>. QED
    BY <1>4, <2>1
    DEF MailTypeOK, MailedIsKeyed, MailedAtMostOnce, Accounted
<1>12. Goal
  BY <1>0, <1>5, <1>6, <1>7, <1>8, <1>9, <1>10, <1>11, KeysPart
<1>13. OkMeansFresh' /\ NilMeansKnown'
  <2>1. OkMeansFresh'
    BY <1>1, <1>12 DEF OkMeansFresh
  <2>2. NilMeansKnown'
    <3>1. ASSUME reply' = "nil"
          PROVE  mails'[Key(Held)'] > 0 \/ Key(Held)' \in orphaned'
      BY <1>1, <1>12, <3>1
    <3>. QED  BY <3>1 DEF NilMeansKnown, Accounted
  <2>. QED  BY <2>1, <2>2
<1>14. KeysAreAccounted'
  <2>1. ASSUME NEW k \in sentKeys'
        PROVE  Accounted(k)' \/ (reply' = "ok" /\ k = Key(Held)')
    <3>1. \/ mails'[k] > 0 \/ k \in orphaned'
          \/ reply' = "ok" /\ k = h
      BY <1>12, <2>1
    <3>2. reply' = "ok" => h' = h  BY <1>1
    <3>. QED  BY <3>1, <3>2 DEF Accounted
  <2>. QED  BY <2>1 DEF KeysAreAccounted
<1>. QED
  BY <1>2, <1>12, <1>13, <1>14 DEF KeysInv

LEMMA PendingStep ==
  ASSUME TypeOK, pendingSets \subseteq Keys, connected \in BOOLEAN,
         [NotifierNext]_notifierVars
  PROVE  pendingSets' \subseteq Keys /\ connected' \in BOOLEAN
<1>1. connected' \in BOOLEAN
  BY DEF NotifierNext, ProcessRecord, SkipRecord, ConnectFails, SetReplies,
         SetErrors, SetTimesOut, SendMail, SkipDuplicate, ConstructNotifier,
         CrashNotifier, LateSet, Expire, sinkVars, notifierVars
<1>2. CASE SetTimesOut
  <2>1. Key(Held) \in Keys
    BY <1>2, HeldIsMessage, KeyIsKey DEF SetTimesOut, BeforeSet
  <2>. QED  BY <1>1, <1>2, <2>1 DEF SetTimesOut
<1>3. CASE ~SetTimesOut
  <2>1. pendingSets' \subseteq pendingSets
    BY <1>3
    DEF NotifierNext, ProcessRecord, SkipRecord, ConnectFails, SetReplies,
        SetErrors, SendMail, SkipDuplicate, ConstructNotifier, CrashNotifier,
        LateSet, Expire, sinkVars, notifierVars
  <2>. QED  BY <1>1, <2>1
<1>. QED  BY <1>2, <1>3

LEMMA ProcessedStep ==
  ASSUME NotifierInv, [NotifierNext]_notifierVars
  PROVE  ProcessedIsMailed'
<1>0. /\ FeedInv /\ TypeOK /\ FeedTypeOK /\ KeysInv /\ ProcessedIsMailed
      /\ topic \in Seq(Messages) /\ sunk \subseteq Offsets
  BY DEF NotifierInv, NotifierTypeOK, KeysInv, MailTypeOK, TypeOK, Settled
<1>1. /\ orphaned \subseteq orphaned' /\ \A k \in Keys : mails'[k] >= mails[k]
      /\ mails \in [Keys -> Nat] /\ mails' \in [Keys -> Nat]
  BY <1>0, KeysStep DEF KeysInv, MailTypeOK
<1>2. \A i \in Offsets : topic'[i] = topic[i]
  BY <1>0, FeedPart, LogsGrow
<1>3. ASSUME NEW i \in Offsets, IsNotice(topic[i]), Accounted(Key(topic[i]))
      PROVE  \/ mails'[Key(topic'[i])] > 0
             \/ Key(topic'[i]) \in orphaned'
  <2>1. topic[i] \in Messages /\ topic'[i] = topic[i]
    BY <1>0, <1>2 DEF Offsets
  <2>2. Key(topic[i]) \in Keys  BY <1>3, <2>1, KeyIsKey
  <2>. QED  BY <1>1, <1>3, <2>1, <2>2 DEF Accounted
<1>4. ASSUME NEW i \in sunk, IsNotice(topic'[i])
      PROVE  \/ mails'[Key(topic'[i])] > 0
             \/ Key(topic'[i]) \in orphaned'
  <2>1. i \in Offsets /\ topic'[i] = topic[i]
    BY <1>0, <1>2
  <2>2. IsNotice(topic[i]) /\ Accounted(Key(topic[i]))
    BY <1>0, <1>4, <2>1 DEF ProcessedIsMailed, Accounted
  <2>. QED  BY <1>3, <2>1, <2>2
(* ProcessRecord returns from a record that is no notice, or after a mail, *)
(* or after NIL.                                                           *)
<1>5. CASE SkipRecord
  <2>1. /\ sunk' = sunk \union {msg} /\ topic' = topic
        /\ ~IsNotice(topic[msg])
    BY <1>5 DEF SkipRecord, ProcessReturns, Held
  <2>. QED  BY <1>4, <2>1 DEF ProcessedIsMailed
<1>6. CASE SendMail
  <2>1. /\ sunk' = sunk \union {msg} /\ topic' = topic /\ pc = "call"
        /\ mails' = [mails EXCEPT ![Key(topic[msg])] = @ + 1]
        /\ reply = "ok"
    BY <1>6 DEF SendMail, ProcessReturns, Held
  <2>2. Key(topic[msg]) \in Keys
    BY <1>0, <2>1, HeldIsMessage, KeyIsKey DEF KeysInv, ReplyIsOfHeld, Held
  <2>3. mails'[Key(topic'[msg])] > 0
    BY <1>1, <2>1, <2>2
  <2>. QED  BY <1>4, <2>1, <2>3 DEF ProcessedIsMailed
<1>7. CASE SkipDuplicate
  <2>1. /\ sunk' = sunk \union {msg} /\ topic' = topic /\ pc = "call"
        /\ reply = "nil"
    BY <1>7 DEF SkipDuplicate, ProcessReturns
  <2>2. IsNotice(topic[msg]) /\ Accounted(Key(topic[msg])) /\ msg \in Offsets
    BY <1>0, <2>1, HeldIsMessage
    DEF KeysInv, ReplyIsOfHeld, NilMeansKnown, Held
  <2>. QED  BY <1>3, <1>4, <2>1, <2>2 DEF ProcessedIsMailed
<1>8. CASE sunk' = sunk
  BY <1>4, <1>8 DEF ProcessedIsMailed
<1>9. SkipRecord \/ SendMail \/ SkipDuplicate \/ sunk' = sunk
  BY DEF NotifierNext, ProcessRecord, ConnectFails, SetReplies, SetErrors,
         SetTimesOut, ConstructNotifier, CrashNotifier, LateSet, Expire,
         FeedStep, CreateOrder, UpdateOrderStatus, DeleteOrder, CommitChange,
         Emit, EmitTombstone, ConnectorRestarts, Publish, LoopStep, RunBegins,
         LoopTest, ConsumeNothing, ConsumeMessage, DecodeSucceeds,
         DecodeFails, BeginAttempt, RetriesExhausted, Abandon, CommitSync,
         CommitFails, ExitLoop, ProcessThrows, Construct, Assign,
         LoseAssignment, Stop, Crash, DlqDelivered, DlqExpires, consumerVars,
         notifierVars
<1>. QED  BY <1>5, <1>6, <1>7, <1>8, <1>9

LEMMA NotifierInvStep ==
  ASSUME NotifierInv, [NotifierNext]_notifierVars
  PROVE  NotifierInv'
<1>1. FeedInv'
  BY StepIsConsumerStep, FeedPart, FeedInvStep DEF NotifierInv, FeedInv
<1>2. NotifierTypeOK'
  <2>1. pendingSets' \subseteq Keys /\ connected' \in BOOLEAN
    BY PendingStep DEF NotifierInv, NotifierTypeOK
  <2>2. MailTypeOK'  BY KeysStep DEF KeysInv
  <2>. QED  BY <1>1, <2>1, <2>2 DEF NotifierTypeOK, MailTypeOK, FeedInv
<1>. QED
  BY <1>1, <1>2, KeysStep, ProcessedStep DEF NotifierInv, KeysInv

LEMMA NotifierInvariant == NotifierSpec => []NotifierInv
<1>1. NotifierInv /\ [NotifierNext]_notifierVars => NotifierInv'
  BY NotifierInvStep
<1>. QED  BY NotifierInvInit, <1>1, PTL DEF NotifierSpec

(* Every variable of the notifier keeps its type.                          *)
THEOREM NotifierTypeCorrect == NotifierSpec => []NotifierTypeOK
<1>1. NotifierInv => NotifierTypeOK  BY DEF NotifierInv
<1>. QED  BY NotifierInvariant, <1>1, PTL

(* As long as its key lives a notice is mailed once at most, whatever is   *)
(* redelivered, repeated by Debezium or executed late.                     *)
THEOREM OneMailPerNotice == NotifierSpec => []MailedAtMostOnce
<1>1. NotifierInv => MailedAtMostOnce  BY DEF NotifierInv
<1>. QED  BY NotifierInvariant, <1>1, PTL

(* A processed notice without a mail is one whose SET lost its reply, or   *)
(* whose process died between the reply and the mail.                      *)
THEOREM MailsAreLostByRepliesOnly == NotifierSpec => []ProcessedIsMailed
<1>1. NotifierInv => ProcessedIsMailed  BY DEF NotifierInv
<1>. QED  BY NotifierInvariant, <1>1, PTL

(* The notifier is an instance of the consumer loop ...                    *)
THEOREM NotifierIsConsumer == NotifierSpec => ConsumerSpec
<1>1. NotifierInit => ConsumerInit  BY DEF NotifierInit
<1>2. NotifierInv /\ [NotifierNext]_notifierVars
        => [ConsumerNext]_consumerVars
  BY StepIsConsumerStep DEF NotifierInv, NotifierTypeOK
<1>. QED
  BY NotifierInvariant, <1>1, <1>2, PTL DEF NotifierSpec, ConsumerSpec

(* ... and commits settled records only.                                   *)
THEOREM NotifierCommitIsSafe == NotifierSpec => []CommittedIsSettled
  BY NotifierIsConsumer, CommitIsSafe, PTL

(* And it implements the abstract consumer.                                *)
THEOREM NotifierDelivers == NotifierSpec => DeliverySpec
  BY NotifierIsConsumer, DeliveryIsImplemented, PTL
----------------------------------------------------------------------------
(* From the table to the customer *)

(* A notified change has a record, and that record is a notice.            *)
LEMMA ChangeIsNotice ==
  ASSUME FeedInv, emitted = Len(wal), NEW l \in 1..Len(wal),
         wal[l].after \in Notified
  PROVE  \E i \in Offsets : /\ topic[i].lsn = l
                            /\ IsNotice(topic[i])
                            /\ Key(topic[i]) = <<wal[l].order, wal[l].after>>
<1>1. PICK i \in Offsets : topic[i].payload # "tombstone" /\ topic[i].lsn = l
  BY DEF FeedInv, TopicHoldsEmitted
<1>2. /\ topic[i].order = wal[l].order
      /\ topic[i].after = wal[l].after
      /\ topic[i].op = wal[l].op
  BY <1>1, EventIsFromWal DEF FromWal
<1>3. wal[l].op # "d"
  BY FeedAssumption, NotifierAssumption DEF FeedInv, DeletesLeaveNoRow
<1>. QED  BY <1>1, <1>2, <1>3 DEF IsNotice, IsDelete, Key

(* Without lag a notified change has been mailed, or its SET lost its      *)
(* reply, or its record was dead-lettered.                                 *)
THEOREM NoLagMeansNoNoticeForgotten == NotifierSpec => []NoNoticeIsForgotten
<1>1. ASSUME NotifierInv, CommittedIsSettled PROVE NoNoticeIsForgotten
  <2> SUFFICES ASSUME NoLag, NEW l \in 1..Len(wal), wal[l].after \in Notified
               PROVE  \/ mails[<<wal[l].order, wal[l].after>>] > 0
                      \/ <<wal[l].order, wal[l].after>> \in orphaned
                      \/ \E i \in dlqQueue \union dlqTopic \union dropped :
                            topic[i].lsn = l
    BY DEF NoNoticeIsForgotten
  <2>1. FeedInv /\ TypeOK /\ ProcessedIsMailed
    BY <1>1 DEF NotifierInv, FeedInv
  <2>2. PICK i \in Offsets :
           /\ topic[i].lsn = l
           /\ IsNotice(topic[i])
           /\ Key(topic[i]) = <<wal[l].order, wal[l].after>>
    BY <2>1, ChangeIsNotice DEF NoLag
  <2>3. i \in Settled
    BY <1>1, <2>1, NoLagSettlesAll
  <2>4. CASE i \in sunk
    BY <2>1, <2>2, <2>4 DEF ProcessedIsMailed
  <2>. QED  BY <2>2, <2>3, <2>4 DEF Settled
<1>. QED  BY NotifierInvariant, NotifierCommitIsSafe, <1>1, PTL
=============================================================================
