---------------------------- MODULE RedisUpdater ----------------------------
(***************************************************************************)
(* RedisUpdater (consumers/src/redis_updater.cpp): the consumer that keeps *)
(* order:<id> in Redis, guarded by the LSN in order:<id>:lsn.  A call whose*)
(* reply never comes may have been executed, may never be, or may still    *)
(* sit in the server's socket buffer and be executed after the retry that  *)
(* replaced it.                                                            *)
(***************************************************************************)
EXTENDS OrdersFeed

CONSTANTS
    MaxPending  \* bound: EVALs on their way at a time

ASSUME PendingAssumption == MaxPending \in Nat

VARIABLES
    cache,         \* order:<id>
    lsnKey,        \* order:<id>:lsn, 0 when there is none
    connected,     \* redis_ctx_ is usable
    pendingEvals,  \* records whose EVAL the server has still to execute
    expired        \* history: orders whose keys reached their TTL

sinkVars == <<cache, lsnKey, connected, pendingEvals, expired>>
redisVars == <<consumerVars, feedVars, sinkVars>>

RedisInit ==
    /\ ConsumerInit
    /\ FeedInit
    /\ cache = [o \in Orders |-> NoRow]
    /\ lsnKey = [o \in Orders |-> 0]
    /\ connected = FALSE
    /\ pendingEvals = {}
    /\ expired = {}

----------------------------------------------------------------------------
(* The Lua scripts, executed by the server in one go *)

(* Mutants of Stale: no guard, and a guard like SET NX. *)
NothingIsStale(m) == FALSE
ExistingKeyIsStale(m) == lsnKey[m.order] # 0

Stale(m) == lsnKey[m.order] # 0 /\ m.lsn <= lsnKey[m.order]

(* Mutant of LuaDelete: the watermark is not moved. *)
DeleteForgetsLsn(m) ==
    /\ IsDelete(m)
    /\ IF Stale(m)
       THEN UNCHANGED <<cache, lsnKey>>
       ELSE /\ cache' = [cache EXCEPT ![m.order] = NoRow]
            /\ UNCHANGED lsnKey

LuaDelete(m) ==
    /\ IsDelete(m)
    /\ IF Stale(m)
       THEN UNCHANGED <<cache, lsnKey>>
       ELSE /\ cache' = [cache EXCEPT ![m.order] = NoRow]
            /\ lsnKey' = [lsnKey EXCEPT ![m.order] = m.lsn]

(* Mutant of LuaUpsert: the second SET is missing. *)
UpsertForgetsLsn(m) ==
    /\ ~IsDelete(m)
    /\ IF Stale(m)
       THEN UNCHANGED <<cache, lsnKey>>
       ELSE /\ cache' = [cache EXCEPT ![m.order] = m.after]
            /\ UNCHANGED lsnKey

LuaUpsert(m) ==
    /\ ~IsDelete(m)
    /\ IF Stale(m)
       THEN UNCHANGED <<cache, lsnKey>>
       ELSE /\ cache' = [cache EXCEPT ![m.order] = m.after]
            /\ lsnKey' = [lsnKey EXCEPT ![m.order] = m.lsn]

Eval(m) == LuaDelete(m) \/ LuaUpsert(m)

----------------------------------------------------------------------------
(* ProcessRecord of RedisUpdater *)

(* The constructor connects too, and throws when it cannot. *)
ConstructUpdater ==
    /\ Construct
    /\ connected' = TRUE
    /\ UNCHANGED <<feedVars, cache, lsnKey, pendingEvals, expired>>

(* redisConnect in EnsureConnected fails. *)
ConnectFails ==
    /\ ~connected
    /\ ProcessThrows
    /\ UNCHANGED <<feedVars, sinkVars>>

(* The reply is 1 or 0: a stale record counts as processed. *)
EvalReplies ==
    /\ ProcessReturns
    /\ Eval(Held)
    /\ connected' = TRUE
    /\ UNCHANGED <<feedVars, pendingEvals, expired>>

EvalErrors ==
    /\ ProcessThrows
    /\ connected' = TRUE
    /\ UNCHANGED <<feedVars, cache, lsnKey, pendingEvals, expired>>

(* No reply within the second redisSetTimeout allows, or the connection    *)
(* broke: hiredis marks the context, and the next call connects again.     *)
EvalTimesOut ==
    /\ ProcessThrows
    /\ connected' = FALSE
    /\ \/ Eval(Held) /\ UNCHANGED pendingEvals
       \/ UNCHANGED <<cache, lsnKey, pendingEvals>>
       \/ /\ Cardinality(pendingEvals) < MaxPending
          /\ pendingEvals' = pendingEvals \union {Held}
          /\ UNCHANGED <<cache, lsnKey>>
    /\ UNCHANGED <<feedVars, expired>>

ProcessRecord == ConnectFails \/ EvalReplies \/ EvalErrors \/ EvalTimesOut

----------------------------------------------------------------------------
(* Redis *)

LateEval(m) ==
    /\ m \in pendingEvals
    /\ Eval(m)
    /\ pendingEvals' = pendingEvals \ {m}
    /\ UNCHANGED <<consumerVars, feedVars, connected, expired>>

(* EX 86400: the two keys were written by one script and expire together,  *)
(* long after any call that is still on its way.                           *)
Expire(o) ==
    /\ lsnKey[o] # 0
    /\ \A m \in pendingEvals : m.order # o
    /\ cache' = [cache EXCEPT ![o] = NoRow]
    /\ lsnKey' = [lsnKey EXCEPT ![o] = 0]
    /\ expired' = expired \union {o}
    /\ UNCHANGED <<consumerVars, feedVars, connected, pendingEvals>>

----------------------------------------------------------------------------
RedisNext ==
    \/ FeedStep /\ UNCHANGED sinkVars
    \/ LoopStep /\ UNCHANGED <<feedVars, sinkVars>>
    \/ ProcessRecord
    \/ ConstructUpdater
    \/ /\ Assign \/ LoseAssignment \/ Stop \/ Crash
       /\ UNCHANGED <<feedVars, sinkVars>>
    \/ /\ \E o \in dlqQueue : DlqDelivered(o) \/ DlqExpires(o)
       /\ UNCHANGED <<feedVars, sinkVars>>
    \/ \E m \in pendingEvals : LateEval(m)
    \/ \E o \in Orders : Expire(o)

RedisSpec == RedisInit /\ [][RedisNext]_redisVars

(* As ConsumerFairness; Debezium keeps emitting what is in the log. *)
RedisFairness ==
    /\ WF_redisVars((LoopStep /\ UNCHANGED <<feedVars, sinkVars>>)
                    \/ ProcessRecord)
    /\ SF_redisVars(ConsumeMessage /\ UNCHANGED <<feedVars, sinkVars>>)
    /\ WF_redisVars(pc = "down" /\ ConstructUpdater)
    /\ WF_redisVars(Assign /\ UNCHANGED <<feedVars, sinkVars>>)
    /\ WF_redisVars((Emit \/ EmitTombstone) /\ UNCHANGED sinkVars)

FairRedisSpec == RedisSpec /\ RedisFairness

----------------------------------------------------------------------------
(* Properties *)

(* The values the feed and the cache may take. *)
RedisTypeOK ==
    /\ TypeOK
    /\ FeedTypeOK
    /\ cache \in [Orders -> Statuses \union {NoRow}]
    /\ lsnKey \in [Orders -> 0..Len(wal)]
    /\ connected \in BOOLEAN
    /\ pendingEvals \subseteq Messages
    /\ expired \subseteq Orders

(* The pair of keys of an order stays a pair: the cached order is what the *)
(* change at the watermark left of it, though two scripts write them and   *)
(* calls are repeated, executed late, or after a newer record.             *)
CacheMatchesWatermark ==
    \A o \in Orders :
        IF lsnKey[o] = 0
        THEN cache[o] = NoRow
        ELSE /\ wal[lsnKey[o]].order = o
             /\ cache[o] = wal[lsnKey[o]].after

(* The cache reflects every record the loop counts as processed, or a      *)
(* newer one of the same order, unless the order's keys have expired.      *)
ProcessedIsCached ==
    \A i \in sunk :
        \/ topic[i].order \in expired
        \/ lsnKey[topic[i].order] >= topic[i].lsn

NoStaleOverwriteStep ==
    \A o \in Orders :
        \/ lsnKey'[o] > lsnKey[o]
        \/ lsnKey'[o] = lsnKey[o] /\ cache'[o] = cache[o]
        \/ lsnKey'[o] = 0 /\ cache'[o] = NoRow /\ o \in expired'

(* An order in the cache never goes back to an earlier change (the Lua     *)
(* guard, redis_updater.cpp:163), whatever is replayed; only the TTL       *)
(* removes the watermark.                                                  *)
NoStaleOverwrite == [][NoStaleOverwriteStep]_sinkVars

(* How many of the first l changes were changes of the order. *)
Version(o, l) == Cardinality({k \in 1..l : wal[k].order = o})

(* The watermark tells the version, as long as the cached order is what    *)
(* the change at the watermark left.                                       *)
CachedVersion(o) ==
    IF cache[o] = NoRow THEN 0
    ELSE IF lsnKey[o] # 0 /\ cache[o] = wal[lsnKey[o]].after
         THEN Version(o, lsnKey[o])
         ELSE -1

Contract == INSTANCE OrderCache
                WITH version <- [o \in Orders |-> Version(o, Len(wal))],
                     cached <- [o \in Orders |-> CachedVersion(o)]

(* Whatever the updater does to the cache is what the API takes for        *)
(* granted of it: an order in the cache is a version it has had, under     *)
(* redelivery, late calls and expiry (redis_updater.cpp:163).              *)
CacheContract == Contract!Spec

(* Offsets whose record left the normal path. *)
DeadLettered == dlqQueue \union dlqTopic \union dropped

(* Once there is no lag the cache shows the table, order by order: what    *)
(* was redelivered, repeated by Debezium or executed late has left no      *)
(* trace.  Excused are orders whose keys have expired or whose last change *)
(* was dead-lettered (docs/PRD.md, consistency model).                     *)
CacheShowsTable ==
    NoLag =>
        \A o \in Orders :
            \/ cache[o] = row[o]
            \/ o \in expired
            \/ \E i \in DeadLettered : IsLatest(o, topic[i].lsn)

(* Change l is in the cache, if there is such a change.                    *)
Reflected(l) ==
    l <= Len(wal) =>
       \/ lsnKey[wal[l].order] >= l
       \/ wal[l].order \in expired
       \/ \E i \in DeadLettered : topic[i].lsn = l

(* Every change of the table reaches the cache in the end (or a newer one  *)
(* of the same order does), unless its record was dead-lettered, the       *)
(* order's keys expired, or the consumer stays stopped or dead.  A change  *)
(* is in the log for good, so that it cannot be missing from some time on. *)
ChangesReachCache ==
    \A l \in 1..MaxWal :
        \/ <>[](pc = "stopped")
        \/ <>[](pc = "dead")
        \/ []<>Reflected(l)
=============================================================================
