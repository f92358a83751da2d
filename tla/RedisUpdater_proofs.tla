------------------------ MODULE RedisUpdater_proofs ------------------------
(* Proofs about RedisUpdater, for every set of orders and statuses and     *)
(* every value of the bounds.                                              *)
EXTENDS RedisUpdater, OrdersFeed_proofs, FiniteSetTheorems

PendingFromWal == \A m \in pendingEvals : FromWal(m, wal)

RedisInv ==
    /\ FeedInv
    /\ RedisTypeOK
    /\ PendingFromWal
    /\ CacheMatchesWatermark
    /\ ProcessedIsCached

(* The updater takes only steps of the consumer loop.                      *)
LEMMA StepIsConsumerStep ==
  ASSUME FeedTypeOK, [RedisNext]_redisVars
  PROVE  [ConsumerNext]_consumerVars
<1>1. CASE FeedStep
  BY <1>1, FeedStepIsConsumerStep
<1>2. CASE ProcessRecord
  BY <1>2 DEF ProcessRecord, ConnectFails, EvalReplies, EvalErrors,
              EvalTimesOut, ConsumerNext
<1>3. CASE ConstructUpdater
  BY <1>3 DEF ConstructUpdater, ConsumerNext, EnvironmentStep
<1>4. CASE LoopStep \/ Assign \/ LoseAssignment \/ Stop \/ Crash
  BY <1>4 DEF ConsumerNext, EnvironmentStep
<1>5. CASE \E o \in dlqQueue : DlqDelivered(o) \/ DlqExpires(o)
  BY <1>5 DEF ConsumerNext, EnvironmentStep
<1>6. CASE \E m \in pendingEvals : LateEval(m)
  BY <1>6 DEF LateEval
<1>7. CASE \E o \in Orders : Expire(o)
  BY <1>7 DEF Expire
<1>8. CASE UNCHANGED redisVars
  BY <1>8 DEF redisVars
<1>. QED
  BY <1>1, <1>2, <1>3, <1>4, <1>5, <1>6, <1>7, <1>8 DEF RedisNext
----------------------------------------------------------------------------
(* The scripts *)

WatermarkMoves ==
    \A o \in Orders :
        \/ lsnKey'[o] > lsnKey[o]
        \/ lsnKey'[o] = lsnKey[o] /\ cache'[o] = cache[o]

CacheTypeOK ==
    /\ cache \in [Orders -> Statuses \union {NoRow}]
    /\ lsnKey \in [Orders -> 0..Len(wal)]

(* Whichever record an EVAL carries, it moves the pair of keys forward.    *)
LEMMA EvalEffect ==
  ASSUME FeedInv, CacheTypeOK, CacheMatchesWatermark,
         NEW m \in Messages, FromWal(m, wal), Eval(m), wal' = wal
  PROVE  /\ CacheTypeOK'
         /\ CacheMatchesWatermark'
         /\ WatermarkMoves
         /\ lsnKey'[m.order] >= m.lsn
<1>1. /\ m.order \in Orders /\ m.after \in Statuses \union {NoRow}
      /\ m.lsn \in 1..Len(wal) /\ Len(wal) \in Nat
  BY MessageFields DEF FromWal, FeedInv, FeedTypeOK
<1>2. IsDelete(m) => m.after = NoRow
  BY DEF IsDelete, FeedInv, DeletesLeaveNoRow, FromWal
<1>3. \/ Stale(m) /\ UNCHANGED <<cache, lsnKey>>
      \/ /\ ~Stale(m)
         /\ cache' = [cache EXCEPT ![m.order] = m.after]
         /\ lsnKey' = [lsnKey EXCEPT ![m.order] = m.lsn]
  BY <1>2 DEF Eval, LuaDelete, LuaUpsert
<1>4. CASE Stale(m) /\ UNCHANGED <<cache, lsnKey>>
  BY <1>1, <1>4 DEF Stale, CacheTypeOK, CacheMatchesWatermark, WatermarkMoves
<1>5. CASE /\ ~Stale(m)
           /\ cache' = [cache EXCEPT ![m.order] = m.after]
           /\ lsnKey' = [lsnKey EXCEPT ![m.order] = m.lsn]
  <2>1. lsnKey[m.order] \in 0..Len(wal) /\ m.lsn > lsnKey[m.order]
    BY <1>1, <1>5 DEF Stale, CacheTypeOK
  <2>2. CacheTypeOK'
    BY <1>1, <1>5 DEF CacheTypeOK
  <2>3. /\ lsnKey'[m.order] = m.lsn /\ cache'[m.order] = m.after
        /\ \A o \in Orders \ {m.order} :
              lsnKey'[o] = lsnKey[o] /\ cache'[o] = cache[o]
    BY <1>1, <1>5 DEF CacheTypeOK
  <2>4. WatermarkMoves /\ lsnKey'[m.order] >= m.lsn
    BY <1>1, <2>1, <2>3 DEF WatermarkMoves
  <2>5. CacheMatchesWatermark'
    BY <1>1, <2>3 DEF CacheMatchesWatermark, FromWal
  <2>. QED  BY <2>2, <2>4, <2>5
<1>. QED  BY <1>3, <1>4, <1>5

----------------------------------------------------------------------------
(* Steps of the updater, by what they do to the keys *)

KeysUnchanged == UNCHANGED <<cache, lsnKey, expired>>

EvalStep ==
    /\ wal' = wal
    /\ expired' = expired
    /\ \E m \in Messages : FromWal(m, wal) /\ Eval(m)

ExpireStep == \E o \in Orders : Expire(o)

(* The record in hand is an event of the log.                              *)
LEMMA HeldFromWal ==
  ASSUME FeedInv, pc = "call"
  PROVE  Held \in Messages /\ FromWal(Held, wal) /\ msg \in Offsets
<1>1. msg \in Offsets /\ topic \in Seq(Messages)
  BY DEF FeedInv, TypeOK, InHand
<1>. QED
  BY <1>1 DEF FeedInv, HeldIsEvent, TopicFromWal, Held, Offsets

LEMMA FeedPart ==
  ASSUME [RedisNext]_redisVars
  PROVE  \/ FeedStep /\ UNCHANGED sinkVars
         \/ UNCHANGED <<feedVars, topic>>
  BY DEF RedisNext, ProcessRecord, ConnectFails, EvalReplies, EvalErrors,
         EvalTimesOut, ConstructUpdater, LateEval, Expire, LoopStep,
         RunBegins, LoopTest, ConsumeNothing, ConsumeMessage, DecodeSucceeds,
         DecodeFails, BeginAttempt, RetriesExhausted, Abandon, CommitSync, CommitFails,
         ExitLoop, ProcessReturns, ProcessThrows, Construct, Assign,
         LoseAssignment, Stop, Crash, DlqDelivered, DlqExpires, consumerVars,
         redisVars

LEMMA KeysPart ==
  ASSUME FeedInv, PendingFromWal, pendingEvals \subseteq Messages,
         [RedisNext]_redisVars
  PROVE  KeysUnchanged \/ EvalStep \/ ExpireStep
<1>1. CASE EvalReplies \/ EvalTimesOut
  <2>1. Held \in Messages /\ FromWal(Held, wal)
    BY <1>1, HeldFromWal DEF EvalReplies, EvalTimesOut, ProcessReturns,
                             ProcessThrows
  <2>. QED
    BY <1>1, <2>1 DEF EvalReplies, EvalTimesOut, EvalStep, KeysUnchanged,
                      feedVars
<1>2. CASE \E m \in pendingEvals : LateEval(m)
  BY <1>2 DEF LateEval, EvalStep, PendingFromWal, feedVars
<1>3. CASE \E o \in Orders : Expire(o)
  BY <1>3 DEF ExpireStep
<1>4. CASE ~(\/ EvalReplies \/ EvalTimesOut
             \/ \E m \in pendingEvals : LateEval(m)
             \/ \E o \in Orders : Expire(o))
  BY <1>4
  DEF RedisNext, ProcessRecord, ConnectFails, EvalErrors, ConstructUpdater,
      KeysUnchanged, sinkVars, redisVars
<1>. QED  BY <1>1, <1>2, <1>3, <1>4

----------------------------------------------------------------------------
(* The inductive invariant *)

LEMMA RedisInvInit == RedisInit => RedisInv
<1> SUFFICES ASSUME RedisInit PROVE RedisInv
  OBVIOUS
<1>1. FeedInv  BY FeedInvInit DEF RedisInit
<1>2. /\ cache \in [Orders -> Statuses \union {NoRow}]
      /\ pendingEvals \subseteq Messages
      /\ expired \subseteq Orders
  BY DEF RedisInit, FeedInit
<1>3. lsnKey \in [Orders -> 0..Len(wal)]
  <2>1. Len(wal) = 0  BY DEF RedisInit, FeedInit
  <2>. QED  BY <2>1 DEF RedisInit
<1>4. connected \in BOOLEAN
  BY DEF RedisInit
<1>5. sunk = {} /\ pendingEvals = {}
      /\ \A o \in Orders : lsnKey[o] = 0 /\ cache[o] = NoRow
  BY DEF RedisInit, ConsumerInit
<1>. QED
  BY <1>1, <1>2, <1>3, <1>4, <1>5
  DEF RedisInv, FeedInv, RedisTypeOK, PendingFromWal, CacheMatchesWatermark,
      ProcessedIsCached

(* What an EVAL or the TTL does to the pair of keys.                       *)
LEMMA KeysStep ==
  ASSUME RedisInv, [RedisNext]_redisVars
  PROVE  /\ CacheTypeOK' /\ expired' \subseteq Orders
         /\ CacheMatchesWatermark'
         /\ expired \subseteq expired'
         /\ \A o \in Orders :
               \/ lsnKey'[o] >= lsnKey[o]
               \/ lsnKey'[o] = 0 /\ cache'[o] = NoRow /\ o \in expired'
         /\ NoStaleOverwriteStep
<1>1. /\ FeedInv /\ TypeOK /\ FeedTypeOK /\ CacheTypeOK
      /\ CacheMatchesWatermark /\ expired \subseteq Orders
  BY DEF RedisInv, FeedInv, RedisTypeOK, CacheTypeOK
<1>2. /\ Len(wal) \in Nat /\ Len(wal') \in Nat /\ Len(wal) <= Len(wal')
      /\ \A l \in 1..Len(wal) : wal'[l] = wal[l]
  BY <1>1, FeedPart, LogsGrow, FeedTypeStep DEF FeedTypeOK, feedVars
<1>3. CASE KeysUnchanged
  BY <1>1, <1>2, <1>3
  DEF KeysUnchanged, CacheTypeOK, CacheMatchesWatermark, NoStaleOverwriteStep
<1>4. CASE EvalStep
  <2>1. CacheTypeOK' /\ CacheMatchesWatermark' /\ WatermarkMoves
    BY <1>1, <1>4, EvalEffect DEF EvalStep
  <2>. QED
    BY <1>1, <1>4, <2>1
    DEF EvalStep, WatermarkMoves, NoStaleOverwriteStep, CacheTypeOK
<1>5. CASE ExpireStep
  <2>1. PICK o \in Orders : Expire(o)  BY <1>5 DEF ExpireStep
  <2>2. /\ cache' = [cache EXCEPT ![o] = NoRow]
        /\ lsnKey' = [lsnKey EXCEPT ![o] = 0]
        /\ expired' = expired \union {o} /\ wal' = wal
    BY <2>1 DEF Expire, feedVars
  <2>. QED
    BY <1>1, <1>2, <2>2
    DEF CacheTypeOK, CacheMatchesWatermark, NoStaleOverwriteStep
<1>6. KeysUnchanged \/ EvalStep \/ ExpireStep
  BY KeysPart DEF RedisInv, RedisTypeOK
<1>. QED  BY <1>3, <1>4, <1>5, <1>6

LEMMA PendingStep ==
  ASSUME RedisInv, [RedisNext]_redisVars
  PROVE  pendingEvals' \subseteq Messages /\ PendingFromWal'
<1>1. /\ FeedInv /\ pendingEvals \subseteq Messages /\ PendingFromWal
      /\ TypeOK /\ FeedTypeOK
  BY DEF RedisInv, RedisTypeOK, FeedInv
<1>2. /\ Len(wal) \in Nat /\ Len(wal') \in Nat /\ Len(wal) <= Len(wal')
      /\ \A l \in 1..Len(wal) : wal'[l] = wal[l]
  BY <1>1, FeedPart, LogsGrow, FeedTypeStep DEF FeedTypeOK, feedVars
<1>3. \A m \in Messages : FromWal(m, wal) => FromWal(m, wal')
  BY <1>2 DEF FromWal
<1>4. CASE EvalTimesOut
  <2>1. Held \in Messages /\ FromWal(Held, wal)
    BY <1>1, <1>4, HeldFromWal DEF EvalTimesOut, ProcessThrows
  <2>2. pendingEvals' \subseteq pendingEvals \union {Held}
    BY <1>4 DEF EvalTimesOut
  <2>. QED  BY <1>1, <1>3, <2>1, <2>2 DEF PendingFromWal
<1>5. CASE pendingEvals' \subseteq pendingEvals
  BY <1>1, <1>3, <1>5 DEF PendingFromWal
<1>6. EvalTimesOut \/ pendingEvals' \subseteq pendingEvals
  BY DEF RedisNext, ProcessRecord, ConnectFails, EvalReplies, EvalErrors,
         ConstructUpdater, LateEval, Expire, sinkVars, redisVars
<1>. QED  BY <1>4, <1>5, <1>6
LEMMA ProcessedStep ==
  ASSUME RedisInv, [RedisNext]_redisVars
  PROVE  ProcessedIsCached'
<1>1. /\ FeedInv /\ TypeOK /\ FeedTypeOK /\ CacheTypeOK
      /\ CacheMatchesWatermark /\ ProcessedIsCached
      /\ topic \in Seq(Messages) /\ sunk \subseteq Offsets
  BY DEF RedisInv, FeedInv, RedisTypeOK, CacheTypeOK, TypeOK, Settled
<1>2. /\ expired \subseteq expired'
      /\ \A o \in Orders :
            \/ lsnKey'[o] >= lsnKey[o]
            \/ lsnKey'[o] = 0 /\ cache'[o] = NoRow /\ o \in expired'
      /\ CacheTypeOK'
  BY KeysStep
<1>3. \A i \in Offsets : topic'[i] = topic[i]
  BY <1>1, FeedPart, LogsGrow
<1>4. ASSUME NEW i \in sunk
      PROVE  \/ topic'[i].order \in expired'
             \/ lsnKey'[topic'[i].order] >= topic'[i].lsn
  <2>1. topic[i] \in Messages
    BY <1>1 DEF Offsets
  <2>2. topic[i].order \in Orders /\ topic[i].lsn \in Nat
    BY <2>1, MessageFields
  <2>3. \/ topic[i].order \in expired
        \/ lsnKey[topic[i].order] >= topic[i].lsn
    BY <1>1 DEF ProcessedIsCached
  <2>4. lsnKey[topic[i].order] \in Int /\ lsnKey'[topic[i].order] \in Int
    BY <1>1, <1>2, <2>2 DEF CacheTypeOK
  <2>. QED  BY <1>1, <1>2, <1>3, <2>2, <2>3, <2>4
<1>5. CASE EvalReplies
  <2>1. Held \in Messages /\ FromWal(Held, wal) /\ msg \in Offsets
    BY <1>1, <1>5, HeldFromWal DEF EvalReplies, ProcessReturns
  <2>2. lsnKey'[Held.order] >= Held.lsn
    BY <1>1, <1>5, <2>1, EvalEffect DEF EvalReplies, feedVars
  <2>3. sunk' = sunk \union {msg} /\ topic'[msg] = Held
    BY <1>3, <1>5, <2>1 DEF EvalReplies, ProcessReturns, Held
  <2>. QED  BY <1>4, <2>2, <2>3 DEF ProcessedIsCached
<1>6. CASE sunk' = sunk
  BY <1>4, <1>6 DEF ProcessedIsCached
<1>7. EvalReplies \/ sunk' = sunk
  BY DEF RedisNext, ProcessRecord, ConnectFails, EvalErrors, EvalTimesOut,
         ConstructUpdater, LateEval, Expire, FeedStep, CreateOrder,
         UpdateOrderStatus, DeleteOrder, CommitChange, Emit, EmitTombstone,
         ConnectorRestarts, Publish, LoopStep, RunBegins, LoopTest,
         ConsumeNothing, ConsumeMessage, DecodeSucceeds, DecodeFails,
         BeginAttempt, RetriesExhausted, Abandon, CommitSync, CommitFails, ExitLoop,
         ProcessThrows, Construct, Assign, LoseAssignment, Stop, Crash,
         DlqDelivered, DlqExpires, consumerVars, redisVars
<1>. QED  BY <1>5, <1>6, <1>7

LEMMA RedisInvStep ==
  ASSUME RedisInv, [RedisNext]_redisVars
  PROVE  RedisInv'
<1>1. FeedInv'
  BY StepIsConsumerStep, FeedPart, FeedInvStep DEF RedisInv, FeedInv
<1>2. connected' \in BOOLEAN
  BY DEF RedisInv, RedisTypeOK, RedisNext, ProcessRecord, ConnectFails,
         EvalReplies, EvalErrors, EvalTimesOut, ConstructUpdater, LateEval,
         Expire, sinkVars, redisVars
<1>3. RedisTypeOK'
  BY <1>1, <1>2, KeysStep, PendingStep
  DEF RedisTypeOK, FeedInv, CacheTypeOK
<1>. QED
  BY <1>1, <1>3, KeysStep, PendingStep, ProcessedStep DEF RedisInv

LEMMA RedisInvariant == RedisSpec => []RedisInv
<1>1. RedisInv /\ [RedisNext]_redisVars => RedisInv'
  BY RedisInvStep
<1>. QED  BY RedisInvInit, <1>1, PTL DEF RedisSpec

(* Every variable of the updater keeps its type.                           *)
THEOREM RedisTypeCorrect == RedisSpec => []RedisTypeOK
<1>1. RedisInv => RedisTypeOK  BY DEF RedisInv
<1>. QED  BY RedisInvariant, <1>1, PTL

(* The cached order and its watermark belong together.                     *)
THEOREM PairIsKept == RedisSpec => []CacheMatchesWatermark
<1>1. RedisInv => CacheMatchesWatermark  BY DEF RedisInv
<1>. QED  BY RedisInvariant, <1>1, PTL

(* What the loop counts as processed is in the cache.                      *)
THEOREM ProcessedIsNeverLost == RedisSpec => []ProcessedIsCached
<1>1. RedisInv => ProcessedIsCached  BY DEF RedisInv
<1>. QED  BY RedisInvariant, <1>1, PTL

(* A cached order never goes back to an earlier change.                    *)
THEOREM CacheMovesForward == RedisSpec => NoStaleOverwrite
<1>1. RedisInv /\ [RedisNext]_redisVars => [NoStaleOverwriteStep]_sinkVars
  BY KeysStep
<1>. QED  BY RedisInvariant, <1>1, PTL DEF RedisSpec, NoStaleOverwrite

(* The updater is an instance of the consumer loop, so that everything     *)
(* proved of the loop holds of it.                                         *)
THEOREM UpdaterIsConsumer == RedisSpec => ConsumerSpec
<1>1. RedisInit => ConsumerInit  BY DEF RedisInit
<1>2. RedisInv /\ [RedisNext]_redisVars => [ConsumerNext]_consumerVars
  BY StepIsConsumerStep DEF RedisInv, RedisTypeOK
<1>. QED  BY RedisInvariant, <1>1, <1>2, PTL DEF RedisSpec, ConsumerSpec

(* In particular the updater commits settled records only.                 *)
THEOREM UpdaterCommitIsSafe == RedisSpec => []CommittedIsSettled
  BY UpdaterIsConsumer, CommitIsSafe, PTL

(* And it implements the abstract consumer.                                *)
THEOREM UpdaterDelivers == RedisSpec => DeliverySpec
  BY UpdaterIsConsumer, DeliveryIsImplemented, PTL
----------------------------------------------------------------------------
(* What an operator relies on who sees a lag of 0 *)

(* The last change of an order is behind its watermark once the loop has   *)
(* processed its record, and no watermark is past the order's last change. *)
LEMMA SettledIsShown ==
  ASSUME RedisInv, CommittedIsSettled, NoLag, NEW o \in Orders, NEW l,
         IsLatest(o, l), row[o] = wal[l].after
  PROVE  \/ cache[o] = row[o]
         \/ o \in expired
         \/ \E i \in DeadLettered : IsLatest(o, topic[i].lsn)
<1>1. FeedInv /\ TypeOK /\ FeedTypeOK /\ RedisTypeOK
  BY DEF RedisInv, FeedInv
<1>2. PICK i \in Offsets : /\ topic[i].payload # "tombstone"
                          /\ topic[i].lsn = l
                          /\ topic[i].order = o
  BY <1>1, LatestIsInTopic DEF NoLag
<1>3. i \in sunk \/ i \in DeadLettered
  BY <1>1, NoLagSettlesAll DEF Settled, DeadLettered
<1>4. CASE i \in DeadLettered
  BY <1>2, <1>4
<1>5. CASE i \in sunk
  <2>1. o \in expired \/ lsnKey[o] >= l
    BY <1>2, <1>5 DEF RedisInv, ProcessedIsCached
  <2>2. /\ l \in 1..Len(wal) /\ Len(wal) \in Nat
        /\ lsnKey[o] \in 0..Len(wal)
    BY <1>1 DEF IsLatest, RedisTypeOK, FeedTypeOK
  <2>3. lsnKey[o] >= l => wal[lsnKey[o]].order = o /\ cache[o] = wal[lsnKey[o]].after
    BY <2>2 DEF RedisInv, CacheMatchesWatermark
  <2>4. lsnKey[o] >= l => lsnKey[o] = l
    BY <2>2, <2>3 DEF IsLatest
  <2>. QED  BY <2>1, <2>3, <2>4
<1>. QED  BY <1>3, <1>4, <1>5

(* An order without a row was never written, and is not in the cache.      *)
LEMMA UnknownIsNotCached ==
  ASSUME RedisInv, NEW o \in Orders, \A l \in 1..Len(wal) : wal[l].order # o
  PROVE  cache[o] = NoRow
<1>1. lsnKey[o] \in 0..Len(wal) /\ Len(wal) \in Nat
  BY DEF RedisInv, RedisTypeOK, FeedTypeOK
<1>2. lsnKey[o] = 0
  BY <1>1 DEF RedisInv, CacheMatchesWatermark
<1>. QED  BY <1>2 DEF RedisInv, CacheMatchesWatermark

(* Without lag the cache shows the table, but for expired keys and orders  *)
(* whose last change was dead-lettered.                                    *)
THEOREM NoLagMeansCacheShowsTable == RedisSpec => []CacheShowsTable
<1>1. ASSUME RedisInv, CommittedIsSettled PROVE CacheShowsTable
  <2> SUFFICES ASSUME NoLag, NEW o \in Orders
               PROVE  \/ cache[o] = row[o]
                      \/ o \in expired
                      \/ \E i \in DeadLettered : IsLatest(o, topic[i].lsn)
    BY DEF CacheShowsTable
  <2>1. \/ row[o] = NoRow /\ \A l \in 1..Len(wal) : wal[l].order # o
        \/ \E l \in 1..Len(wal) : IsLatest(o, l) /\ row[o] = wal[l].after
    BY <1>1 DEF RedisInv, FeedInv, RowIsLatest
  <2>. QED  BY <1>1, <2>1, SettledIsShown, UnknownIsNotCached
<1>. QED  BY RedisInvariant, UpdaterCommitIsSafe, <1>1, PTL
----------------------------------------------------------------------------
(* What the API relies on *)

(* How many changes of a log are changes of the order.                     *)
Count(log, o) == Cardinality({k \in 1..Len(log) : log[k].order = o})

LEMMA CountedIsFinite ==
  ASSUME NEW n \in Nat, NEW S \in SUBSET (1..n)
  PROVE  IsFiniteSet(S) /\ Cardinality(S) \in Nat
<1>1. IsFiniteSet(1..n)
  BY FS_Interval
<1>. QED  BY <1>1, FS_Subset, FS_CardinalityType

(* A change of an order is its next version.                               *)
LEMMA AppendCounts ==
  ASSUME NEW log \in Seq(Changes), NEW change \in Changes, NEW o
  PROVE  Count(Append(log, change), o)
           = IF change.order = o THEN Count(log, o) + 1 ELSE Count(log, o)
<1> DEFINE longer == Append(log, change)
           before == {k \in 1..Len(log) : log[k].order = o}
           after == {k \in 1..Len(longer) : longer[k].order = o}
<1>1. /\ Len(log) \in Nat /\ Len(longer) = Len(log) + 1
      /\ longer[Len(log) + 1] = change
      /\ \A k \in 1..Len(log) : longer[k] = log[k]
  OBVIOUS
<1>2. IsFiniteSet(before)
  <2>1. before \in SUBSET (1..Len(log))
    OBVIOUS
  <2> HIDE DEF before
  <2>. QED  BY <1>1, <2>1, CountedIsFinite
<1>3. Count(longer, o) = Cardinality(after) /\ Count(log, o) = Cardinality(before)
  BY DEF Count
<1> HIDE DEF longer
<1>4. CASE change.order = o
  <2>1. after = before \union {Len(log) + 1} /\ Len(log) + 1 \notin before
    BY <1>1, <1>4
  <2>2. Cardinality(after) = Cardinality(before) + 1
    <3> HIDE DEF before, after
    <3>. QED  BY <1>2, <2>1, FS_AddElement
  <2>. QED  BY <1>3, <1>4, <2>2 DEF longer
<1>5. CASE change.order # o
  <2>1. after = before
    BY <1>1, <1>5
  <2>. QED  BY <1>3, <1>5, <2>1 DEF longer
<1>. QED  BY <1>4, <1>5

(* A version in the cache is one the order has had.                        *)
VersionsInRange ==
    \A o \in Orders : CachedVersion(o) \in 0..Version(o, Len(wal))

LEMMA VersionsOfCache == RedisInv => VersionsInRange
<1> SUFFICES ASSUME RedisInv, NEW o \in Orders
             PROVE  CachedVersion(o) \in 0..Version(o, Len(wal))
  BY DEF VersionsInRange
<1>1. Len(wal) \in Nat /\ lsnKey[o] \in 0..Len(wal)
  BY DEF RedisInv, RedisTypeOK, FeedTypeOK
<1> DEFINE all == {k \in 1..Len(wal) : wal[k].order = o}
           some == {k \in 1..lsnKey[o] : wal[k].order = o}
<1>2. /\ IsFiniteSet(all) /\ some \in SUBSET all
      /\ Cardinality(all) \in Nat /\ Cardinality(some) \in Nat
  <2>1. /\ all \in SUBSET (1..Len(wal))
        /\ some \in SUBSET (1..lsnKey[o]) /\ some \in SUBSET all
    BY <1>1
  <2>2. lsnKey[o] \in Nat
    BY <1>1
  <2> HIDE DEF all, some
  <2>. QED  BY <1>1, <2>1, <2>2, CountedIsFinite
<1>3. Cardinality(some) <= Cardinality(all)
  <2> HIDE DEF all, some
  <2>. QED  BY <1>2, FS_Subset
<1>4. cache[o] # NoRow => lsnKey[o] # 0 /\ cache[o] = wal[lsnKey[o]].after
  BY DEF RedisInv, CacheMatchesWatermark
<1>5. /\ Version(o, Len(wal)) = Cardinality(all)
      /\ Version(o, lsnKey[o]) = Cardinality(some)
  BY DEF Version
<1> HIDE DEF all, some
<1>. QED  BY <1>2, <1>3, <1>4, <1>5 DEF CachedVersion

LEMMA NextVersionsOfCache == RedisInv' => VersionsInRange'
  BY VersionsOfCache, PTL

(* A change is a write; the cache stays as it is.                          *)
LEMMA CommitIsWrite ==
  ASSUME RedisInv, NEW o \in Orders, NEW op \in Ops,
         NEW status \in Statuses \union {NoRow},
         CommitChange(o, op, status), UNCHANGED sinkVars
  PROVE  Contract!Write(o)
<1> DEFINE change == [order |-> o, op |-> op, after |-> status]
<1>1. /\ wal' = Append(wal, change) /\ wal \in Seq(Changes)
      /\ change \in Changes /\ change.order = o
      /\ cache' = cache /\ lsnKey' = lsnKey
  BY DEF CommitChange, RedisInv, RedisTypeOK, FeedTypeOK, Changes, sinkVars
<1> HIDE DEF change
<1>2. ASSUME NEW p \in Orders
      PROVE  Version(p, Len(wal))' = IF p = o THEN Version(p, Len(wal)) + 1
                                              ELSE Version(p, Len(wal))
  <2>1. /\ Version(p, Len(wal)) = Count(wal, p)
        /\ Version(p, Len(wal))' = Count(wal', p)
    BY DEF Version, Count
  <2>. QED  BY <1>1, <2>1, AppendCounts
<1>3. ASSUME NEW p \in Orders PROVE CachedVersion(p)' = CachedVersion(p)
  <2>1. lsnKey[p] \in 0..Len(wal) /\ Len(wal) \in Nat
    BY DEF RedisInv, RedisTypeOK, FeedTypeOK
  <2>2. \A k \in 1..lsnKey[p] : wal'[k] = wal[k]
    BY <1>1, <2>1
  <2>3. {k \in 1..lsnKey[p] : wal'[k].order = p}
          = {k \in 1..lsnKey[p] : wal[k].order = p}
    BY <2>2
  <2>4. Version(p, lsnKey[p])' = Version(p, lsnKey[p])
    BY <1>1, <2>3 DEF Version
  <2>5. lsnKey[p] # 0 => wal'[lsnKey[p]] = wal[lsnKey[p]]
    BY <2>1, <2>2
  <2>. QED  BY <1>1, <2>4, <2>5 DEF CachedVersion
<1>. QED  BY <1>2, <1>3 DEF Contract!Write

(* An EVAL or the TTL refreshes one order.                                 *)
LEMMA KeysAreRefreshed ==
  ASSUME RedisInv, RedisInv', NEW o \in Orders, wal' = wal,
         \A p \in Orders \ {o} : cache'[p] = cache[p] /\ lsnKey'[p] = lsnKey[p]
  PROVE  Contract!Refresh(o)
<1>1. ASSUME NEW p \in Orders \ {o} PROVE CachedVersion(p)' = CachedVersion(p)
  BY <1>1 DEF CachedVersion, Version
<1>2. \A p \in Orders : Version(p, Len(wal))' = Version(p, Len(wal))
  BY DEF Version
<1>3. CachedVersion(o)' \in 0..Version(o, Len(wal))'
  BY NextVersionsOfCache DEF VersionsInRange
<1>. QED  BY <1>1, <1>2, <1>3 DEF Contract!Refresh

LEMMA EvalTouchesOneOrder ==
  ASSUME RedisInv, NEW m \in Messages, Eval(m)
  PROVE  \A p \in Orders \ {m.order} :
            cache'[p] = cache[p] /\ lsnKey'[p] = lsnKey[p]
BY DEF Eval, LuaDelete, LuaUpsert, RedisInv, RedisTypeOK

LEMMA ContractStep ==
  ASSUME RedisInv, [RedisNext]_redisVars
  PROVE  [Contract!Next]_(Contract!cacheVars)
<1>1. RedisInv'  BY RedisInvStep
<1>2. CASE /\ wal' = wal
           /\ \E m \in Messages : Eval(m)
  <2>1. PICK m \in Messages : Eval(m)  BY <1>2
  <2>2. m.order \in Orders  BY MessageFields
  <2>3. Contract!Refresh(m.order)
    BY <1>1, <1>2, <2>1, <2>2, EvalTouchesOneOrder, KeysAreRefreshed
  <2>. QED  BY <2>2, <2>3 DEF Contract!Next
<1>3. CASE ExpireStep
  <2>1. PICK o \in Orders : Expire(o)  BY <1>3 DEF ExpireStep
  <2>2. wal' = wal /\ \A p \in Orders \ {o} : cache'[p] = cache[p]
                                           /\ lsnKey'[p] = lsnKey[p]
    BY <2>1 DEF Expire, feedVars, RedisInv, RedisTypeOK
  <2>3. Contract!Refresh(o)
    BY <1>1, <2>2, KeysAreRefreshed
  <2>. QED  BY <2>3 DEF Contract!Next
<1>4. ASSUME NEW o \in Orders, NEW op \in Ops,
             NEW status \in Statuses \union {NoRow},
             CommitChange(o, op, status), UNCHANGED sinkVars
      PROVE  Contract!Next
  BY <1>4, CommitIsWrite DEF Contract!Next
<1>5. CASE UNCHANGED <<wal, cache, lsnKey>>
  BY <1>5 DEF Contract!cacheVars, CachedVersion, Version
<1>6. CASE FeedStep /\ UNCHANGED sinkVars
  <2>1. Created \in Statuses  BY FeedAssumption
  <2>2. UNCHANGED sinkVars => UNCHANGED <<cache, lsnKey>>
    BY DEF sinkVars
  <2>. QED
    BY <1>4, <1>5, <1>6, <2>1, <2>2
    DEF FeedStep, CreateOrder, UpdateOrderStatus, DeleteOrder, Ops, Emit,
        EmitTombstone, ConnectorRestarts
<1>7. CASE UNCHANGED <<feedVars, topic>>
  <2>1. wal' = wal  BY <1>7 DEF feedVars
  <2>2. KeysUnchanged \/ EvalStep \/ ExpireStep
    BY KeysPart DEF RedisInv, RedisTypeOK
  <2>. QED  BY <1>2, <1>3, <1>5, <2>1, <2>2 DEF KeysUnchanged, EvalStep
<1>. QED  BY <1>6, <1>7, FeedPart

(* The updater grants what the API relies on.                              *)
THEOREM UpdaterKeepsContract == RedisSpec => CacheContract
<1>1. RedisInit => Contract!Init
  <2> SUFFICES ASSUME RedisInit PROVE Contract!Init
    OBVIOUS
  <2>1. Len(wal) = 0 /\ \A o \in Orders : cache[o] = NoRow
    BY DEF RedisInit, FeedInit
  <2>2. \A o \in Orders : {k \in 1..0 : wal[k].order = o} = {}
    OBVIOUS
  <2>3. \A o \in Orders : Version(o, Len(wal)) = 0 /\ CachedVersion(o) = 0
    BY <2>1, <2>2, FS_EmptySet DEF Version, CachedVersion
  <2>. QED  BY <2>3 DEF Contract!Init
<1>2. RedisInv /\ [RedisNext]_redisVars => [Contract!Next]_(Contract!cacheVars)
  BY ContractStep
<1>. QED
  BY RedisInvariant, <1>1, <1>2, PTL DEF RedisSpec, CacheContract, Contract!Spec
=============================================================================
