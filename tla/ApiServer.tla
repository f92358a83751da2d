----------------------------- MODULE ApiServer -----------------------------
(***************************************************************************)
(* The API process: its main (api/src/main.cpp), the handlers of           *)
(* api_server.cpp on httplib's thread pool, the Postgres connection and    *)
(* the Redis connection all of them share, and the load generator, which   *)
(* sends requests from threads of the same process.                        *)
(*                                                                         *)
(* A write of an order counts up its version in the table; 0 is no row.    *)
(* Postgres and what writes the cache (RedisUpdater, expiry, a restarted   *)
(* Redis) are the environment.                                             *)
(***************************************************************************)
EXTENDS Integers, FiniteSets

CONSTANTS
    Orders,       \* order ids
    Requests,     \* threads of the pool, each with at most one request
    NoRequest,
    MaxAttempts,  \* passes of the startup loop
    NumWorkers,   \* threads of the load generator
    MaxKnown,     \* bound: ids the workers keep to send PATCHes for
    MaxVersion    \* bound: writes of an order

ASSUME ApiAssumption ==
    /\ NoRequest \notin Requests
    /\ MaxAttempts \in Nat \ {0}
    /\ NumWorkers \in Nat
    /\ MaxKnown \in Nat \ {0}
    /\ MaxVersion \in Nat

VARIABLES
    process,    \* where main stands
    attempt,    \* the startup loop's counter
    row,        \* version of each order in Postgres
    limbo,      \* how many of each write Postgres may still commit although
                \* nobody waits for it
    cache,      \* version of each order that Redis holds
    dbConn,     \* conn_
    dbLock,     \* holder of db_mutex_
    redisConn,  \* context_ is not null
    req,        \* the request each thread of the pool works on
    known,      \* created_ids of the workers
    late,       \* workers past the test of running_ when it was cleared
    orphans     \* history: writes in doubt since conn_ was last opened

storageVars == <<row, limbo, cache>>
mainVars == <<process, attempt, late>>
apiVars == <<mainVars, storageVars, dbConn, dbLock, redisConn, req, known,
             orphans>>

Processes == {"down", "starting", "serving", "stopping"}
Connections == {"none", "open", "hung", "broken"}
Ops == {"create", "update", "read"}
Results == {"none", "ok", "current", "cached", "notfound", "bad", "error"}

(* A request waits for Redis ("cache"), for the mutex, for the statement   *)
(* ("exec") or its reply, or its answer is ready.                          *)
AtDatabase == {"exec", "reply"}
Places == {"idle", "cache", "mutex", "answer"} \union AtDatabase

Writes == [op : {"create", "update"}, order : Orders]
Write(r) == [op |-> req[r].op, order |-> req[r].order]

(* client: a load worker waits for the answer; or somebody else, or nobody *)
(* any more.                                                               *)
Idle == [at |-> "idle"]
RequestRecords ==
    [at : Places \ {"idle"}, op : Ops, order : Orders, floor : Nat,
     client : {"worker", "other"}, done : BOOLEAN, result : Results,
     seen : Nat]

----------------------------------------------------------------------------
(* The process *)

ApiInit ==
    /\ process = "down"
    /\ attempt = 0
    /\ late = 0
    /\ row = [o \in Orders |-> 0]
    /\ limbo = [w \in Writes |-> 0]
    /\ cache = [o \in Orders |-> 0]
    /\ dbConn = "none"
    /\ dbLock = NoRequest
    /\ redisConn = FALSE
    /\ req = [r \in Requests |-> Idle]
    /\ known = {}
    /\ orphans = 0

(* The logger could connect; if not, the process exits at once. *)
Start ==
    /\ process = "down"
    /\ process' = "starting"
    /\ attempt' = 1
    /\ UNCHANGED <<late, storageVars, dbConn, dbLock, redisConn, req, known, orphans>>

(* db is kept over the passes of the loop, whatever becomes of it. *)
ConnectDb ==
    /\ process = "starting"
    /\ dbConn = "none"
    /\ dbConn' = "open"
    /\ UNCHANGED <<mainVars, storageVars, dbLock, redisConn, req, known, orphans>>

ConnectRedis ==
    /\ process = "starting"
    /\ dbConn # "none"
    /\ redisConn' = TRUE
    /\ process' = "serving"
    /\ attempt' = 0
    /\ UNCHANGED <<late, storageVars, dbConn, dbLock, req, known, orphans>>

(* Mutant of AttemptFails: the loop runs once too often. *)
AttemptTooMany ==
    /\ process = "starting"
    /\ attempt <= MaxAttempts
    /\ attempt' = attempt + 1
    /\ UNCHANGED <<process, late, storageVars, dbConn, dbLock, redisConn, req,
                   known, orphans>>

AttemptFails ==
    /\ process = "starting"
    /\ attempt < MaxAttempts
    /\ attempt' = attempt + 1
    /\ UNCHANGED <<process, late, storageVars, dbConn, dbLock, redisConn, req,
                   known, orphans>>

(* A write nobody waits for any more: Postgres may have it already.        *)
LimboWith(r) ==
    IF req[r].at = "exec" /\ req[r].op # "read"
    THEN [limbo EXCEPT ![Write(r)] = @ + 1]
    ELSE limbo

ProcessEnds ==
    /\ process' = "down"
    /\ attempt' = 0
    /\ late' = 0
    /\ limbo' = IF dbLock = NoRequest THEN limbo ELSE LimboWith(dbLock)
    /\ dbConn' = "none"
    /\ dbLock' = NoRequest
    /\ redisConn' = FALSE
    /\ req' = [r \in Requests |-> Idle]
    /\ known' = {}
    /\ orphans' = 0
    /\ UNCHANGED <<row, cache>>

(* The twentieth pass throws; main returns 1. *)
GiveUp ==
    /\ process = "starting"
    /\ attempt = MaxAttempts
    /\ ProcessEnds

(* A crash, SIGKILL, or a signal that a load worker takes: Stop makes it   *)
(* join itself, and the exception that results ends the process.           *)
Crash ==
    /\ process # "down"
    /\ ProcessEnds

WorkersBusy == {r \in Requests : req[r].at # "idle" /\ req[r].client = "worker"}

(* SIGTERM on the main thread.  Before the load generator exists the       *)
(* handler exits at once; otherwise it clears running_, which any worker   *)
(* between two requests may just have tested, and joins.                   *)
Signal ==
    /\ process = "serving"
    /\ process' = "stopping"
    /\ late' \in 0..NumWorkers
    /\ late' + Cardinality(WorkersBusy) <= NumWorkers
    /\ UNCHANGED <<attempt, storageVars, dbConn, dbLock, redisConn, req, known,
                   orphans>>

SignalAtStartup ==
    /\ process = "starting"
    /\ ProcessEnds

(* The last worker is joined; exit(). *)
Exit ==
    /\ process = "stopping"
    /\ WorkersBusy = {}
    /\ late = 0
    /\ ProcessEnds

----------------------------------------------------------------------------
(* Requests *)

(* Bound: writes an order may still get. *)
OpenWrites(o) ==
    {r \in Requests : req[r].at # "idle" /\ req[r].op # "read"
                      /\ req[r].order = o /\ ~req[r].done}
Writable(o) ==
    row[o] + Cardinality(OpenWrites(o))
           + limbo[[op |-> "create", order |-> o]]
           + limbo[[op |-> "update", order |-> o]] < MaxVersion

(* A worker passed the test of running_ and sends: a POST, or a PATCH of   *)
(* an order it created itself.  Of those that passed it before the signal  *)
(* each sends once more.                                                   *)
WorkerSends(op, o) ==
    /\ op = "create" \/ (op = "update" /\ o \in known)
    /\ \/ /\ process = "serving"
          /\ Cardinality(WorkersBusy) < NumWorkers
          /\ UNCHANGED late
       \/ /\ process = "stopping"
          /\ late > 0
          /\ late' = late - 1

NewRequest(op, o, client, at, result) ==
    [at |-> at, op |-> op, order |-> o, floor |-> row[o], client |-> client,
     done |-> FALSE, result |-> result, seen |-> 0]

(* Mutant of Accept: the worker keeps the id when it sends its POST. *)
AcceptRemembering(r, op, o, client) ==
    /\ process \in {"serving", "stopping"}
    /\ req[r].at = "idle"
    /\ \/ client = "other" /\ UNCHANGED late
       \/ client = "worker" /\ WorkerSends(op, o)
    /\ op # "read" => Writable(o)
    /\ req' = [req EXCEPT ![r] =
                  NewRequest(op, o, client,
                             IF op = "read" THEN "cache" ELSE "mutex", "none")]
    /\ known' = IF client = "worker" /\ op = "create" THEN {o} ELSE known
    /\ UNCHANGED <<process, attempt, storageVars, dbConn, dbLock, redisConn, orphans>>

(* A thread of the pool takes a request.  For a POST, o is what            *)
(* generate_uuid draws: the generator is shared without a lock, so it may  *)
(* be an id that was drawn before.                                         *)
Accept(r, op, o, client) ==
    /\ process \in {"serving", "stopping"}
    /\ req[r].at = "idle"
    /\ \/ client = "other" /\ UNCHANGED late
       \/ client = "worker" /\ WorkerSends(op, o)
    /\ op # "read" => Writable(o)
    /\ req' = [req EXCEPT ![r] =
                  NewRequest(op, o, client,
                             IF op = "read" THEN "cache" ELSE "mutex", "none")]
    /\ UNCHANGED <<process, attempt, storageVars, dbConn, dbLock, redisConn,
                   known, orphans>>

(* No thread of the pool takes the last request of a worker, and its       *)
(* client gives up.                                                        *)
LateSendFails ==
    /\ process = "stopping"
    /\ late > 0
    /\ late' = late - 1
    /\ UNCHANGED <<process, attempt, storageVars, dbConn, dbLock, redisConn,
                   req, known, orphans>>

(* A body that is not JSON, or lacks a field: 400. *)
AcceptBad(r, op, o) ==
    /\ process \in {"serving", "stopping"}
    /\ req[r].at = "idle"
    /\ op # "read"
    /\ req' = [req EXCEPT ![r] = NewRequest(op, o, "other", "answer", "bad")]
    /\ UNCHANGED <<mainVars, storageVars, dbConn, dbLock, redisConn, known,
                   orphans>>

(* RedisClient::Get, which holds redis_mutex_ for one command. *)
CacheHit(r) ==
    /\ req[r].at = "cache"
    /\ redisConn
    /\ cache[req[r].order] > 0
    /\ req' = [req EXCEPT ![r].at = "answer", ![r].result = "cached",
                          ![r].seen = cache[req[r].order]]
    /\ UNCHANGED <<mainVars, storageVars, dbConn, dbLock, redisConn, known,
                   orphans>>

(* Mutant of FallBack: what Get throws reaches the outer handler. *)
GetThrowsThrough(r) ==
    /\ req[r].at = "cache"
    /\ redisConn' = FALSE
    /\ req' = [req EXCEPT ![r].at = "answer", ![r].result = "error"]
    /\ UNCHANGED <<mainVars, storageVars, dbConn, dbLock, known, orphans>>

(* No entry, an error reply, a value that does not parse; or no reply      *)
(* within 100 ms, which closes the connection for good; or closed already. *)
FallBack(r) ==
    /\ req[r].at = "cache"
    /\ redisConn' \in {redisConn, FALSE}
    /\ req' = [req EXCEPT ![r].at = "mutex"]
    /\ UNCHANGED <<mainVars, storageVars, dbConn, dbLock, known, orphans>>

(* Mutant of TakeLock: no lock_guard. *)
EnterUnlocked(r) ==
    /\ req[r].at = "mutex"
    /\ dbConn # "broken"
    /\ dbLock' = r
    /\ req' = [req EXCEPT ![r].at = "exec"]
    /\ UNCHANGED <<mainVars, storageVars, dbConn, redisConn, known, orphans>>

(* The lock is taken and the statement sent. *)
TakeLock(r) ==
    /\ req[r].at = "mutex"
    /\ dbLock = NoRequest
    /\ dbConn # "broken"
    /\ dbLock' = r
    /\ req' = [req EXCEPT ![r].at = "exec"]
    /\ UNCHANGED <<mainVars, storageVars, dbConn, redisConn, known, orphans>>

(* libpqxx opens a broken connection again when the next transaction       *)
(* begins.                                                                 *)
Reopens(r) ==
    /\ req[r].at = "mutex"
    /\ dbLock = NoRequest
    /\ dbConn = "broken"
    /\ dbConn' = "open"
    /\ dbLock' = r
    /\ req' = [req EXCEPT ![r].at = "exec"]
    /\ orphans' = 0
    /\ UNCHANGED <<mainVars, storageVars, redisConn, known>>

(* It could not: the transaction throws. *)
FailsFast(r) ==
    /\ req[r].at = "mutex"
    /\ dbLock = NoRequest
    /\ dbConn = "broken"
    /\ req' = [req EXCEPT ![r].at = "answer", ![r].result = "error"]
    /\ UNCHANGED <<mainVars, storageVars, dbConn, dbLock, redisConn, known,
                   orphans>>

----------------------------------------------------------------------------
(* The database calls *)

InPostgres(r) == req[r].at = "exec" /\ dbConn = "open"

Applicable(op, o) ==
    \/ op = "create" /\ row[o] = 0
    \/ op = "update" /\ row[o] > 0

(* Postgres commits an INSERT, or an UPDATE that met its row. *)
Commits(r) ==
    /\ InPostgres(r)
    /\ Applicable(req[r].op, req[r].order)
    /\ row' = [row EXCEPT ![req[r].order] = @ + 1]
    /\ req' = [req EXCEPT ![r].at = "reply", ![r].done = TRUE,
                          ![r].result = "ok"]
    /\ UNCHANGED <<mainVars, limbo, cache, dbConn, dbLock, redisConn, known,
                   orphans>>

(* Mutant of WritesNothing: ON CONFLICT DO UPDATE. *)
Upserts(r) ==
    /\ InPostgres(r)
    /\ req[r].op # "read"
    /\ ~Applicable(req[r].op, req[r].order)
    /\ req' = [req EXCEPT ![r].at = "reply",
                          ![r].result = IF req[r].op = "create" THEN "ok"
                                        ELSE "notfound"]
    /\ UNCHANGED <<mainVars, storageVars, dbConn, dbLock, redisConn, known,
                   orphans>>

(* The id is taken: exec throws, the connection stays.  Or no row has the  *)
(* id: the UPDATE affects nothing.                                         *)
WritesNothing(r) ==
    /\ InPostgres(r)
    /\ req[r].op # "read"
    /\ ~Applicable(req[r].op, req[r].order)
    /\ req' = [req EXCEPT ![r].at = "reply",
                          ![r].result = IF req[r].op = "create" THEN "error"
                                        ELSE "notfound"]
    /\ UNCHANGED <<mainVars, storageVars, dbConn, dbLock, redisConn, known,
                   orphans>>

Selects(r) ==
    /\ InPostgres(r)
    /\ req[r].op = "read"
    /\ req' = [req EXCEPT ![r].at = "reply",
                          ![r].result = IF row[req[r].order] = 0 THEN "notfound"
                                        ELSE "current",
                          ![r].seen = row[req[r].order]]
    /\ UNCHANGED <<mainVars, storageVars, dbConn, dbLock, redisConn, known,
                   orphans>>

(* Postgres refuses the statement: an id that is no UUID, an amount that   *)
(* does not fit its column, a disk that is full.  exec throws, the         *)
(* connection stays.                                                       *)
Rejects(r) ==
    /\ InPostgres(r)
    /\ req' = [req EXCEPT ![r].at = "reply", ![r].result = "error"]
    /\ UNCHANGED <<mainVars, storageVars, dbConn, dbLock, redisConn, known,
                   orphans>>

Returns(r) ==
    /\ req[r].at = "reply"
    /\ dbConn = "open"
    /\ dbLock' = NoRequest
    /\ req' = [req EXCEPT ![r].at = "answer"]
    /\ UNCHANGED <<mainVars, storageVars, dbConn, redisConn, known, orphans>>

(* Mutant of Throws: an exception leaves db_mutex_ locked. *)
ThrowsLocked(r) ==
    /\ req[r].at \in AtDatabase
    /\ dbConn = "broken"
    /\ req' = [req EXCEPT ![r].at = "answer", ![r].result = "error",
                          ![r].seen = 0]
    /\ UNCHANGED <<mainVars, storageVars, dbConn, dbLock, redisConn, known,
                   orphans>>

(* The connection broke under the call, which throws, commit() too when    *)
(* Postgres has committed (done), or has the COMMIT and is yet to execute  *)
(* it.                                                                     *)
Throws(r) ==
    /\ req[r].at \in AtDatabase
    /\ dbConn = "broken"
    /\ dbLock' = NoRequest
    /\ req' = [req EXCEPT ![r].at = "answer", ![r].result = "error",
                          ![r].seen = 0]
    /\ limbo' \in {limbo, LimboWith(r)}
    /\ orphans' = IF req[r].done \/ limbo' # limbo THEN orphans + 1 ELSE orphans
    /\ UNCHANGED <<mainVars, row, cache, dbConn, redisConn, known>>

----------------------------------------------------------------------------
(* Answers *)

(* The worker that gets the 201 of its POST keeps the id; a full list      *)
(* loses one.                                                              *)
Remember(o) ==
    IF Cardinality(known) < MaxKnown \/ o \in known
    THEN known' = known \union {o}
    ELSE \E oldest \in known : known' = (known \ {oldest}) \union {o}

Respond(r) ==
    /\ req[r].at = "answer"
    /\ IF req[r].client = "worker" /\ req[r].op = "create" /\ req[r].result = "ok"
       THEN Remember(req[r].order)
       ELSE UNCHANGED known
    /\ req' = [req EXCEPT ![r] = Idle]
    /\ UNCHANGED <<mainVars, storageVars, dbConn, dbLock, redisConn, orphans>>

(* Mutant of ClientGivesUp: no read timeout. *)
ClientWaitsForEver(r) == FALSE /\ UNCHANGED apiVars

(* set_read_timeout(5, 0): the worker goes on, and so does the handler.    *)
ClientGivesUp(r) ==
    /\ req[r].at # "idle"
    /\ req[r].client = "worker"
    /\ req' = [req EXCEPT ![r].client = "other"]
    /\ UNCHANGED <<mainVars, storageVars, dbConn, dbLock, redisConn, known,
                   orphans>>

----------------------------------------------------------------------------
(* Postgres and Redis *)

(* Postgres restarts, the network fails; or a statement waits for a lock   *)
(* or a disk, without a limit of time.                                     *)
ConnectionChanges ==
    /\ \/ dbConn \in {"open", "hung"} /\ dbConn' = "broken"
       \/ dbConn = "open" /\ dbConn' = "hung"
       \/ dbConn = "hung" /\ dbConn' = "open"
    /\ UNCHANGED <<mainVars, storageVars, dbLock, redisConn, req, known, orphans>>

ResolveLimbo(w) ==
    /\ limbo[w] > 0
    /\ limbo' = [limbo EXCEPT ![w] = @ - 1]
    /\ \/ UNCHANGED row
       \/ /\ Applicable(w.op, w.order)
          /\ row' = [row EXCEPT ![w.order] = @ + 1]
    /\ UNCHANGED <<mainVars, cache, dbConn, dbLock, redisConn, req, known,
                   orphans>>

(* RedisUpdater catches up, keys expire, a new Redis starts empty or from  *)
(* an old snapshot.                                                        *)
CacheChanges(o) ==
    /\ \E v \in 0..row[o] : cache' = [cache EXCEPT ![o] = v]
    /\ UNCHANGED <<mainVars, row, limbo, dbConn, dbLock, redisConn, req, known,
                   orphans>>

----------------------------------------------------------------------------
MainStep ==
    \/ Start \/ ConnectDb \/ ConnectRedis \/ AttemptFails \/ GiveUp
    \/ Crash \/ Signal \/ SignalAtStartup \/ Exit

(* What a thread does without waiting for db_mutex_. *)
HandlerStep(r) ==
    \/ CacheHit(r) \/ FallBack(r)
    \/ Commits(r) \/ WritesNothing(r) \/ Selects(r) \/ Rejects(r)
    \/ Returns(r) \/ Throws(r) \/ Respond(r)

(* What it does once db_mutex_ is free. *)
EntersDatabase(r) == TakeLock(r) \/ Reopens(r) \/ FailsFast(r)

ApiNext ==
    \/ MainStep
    \/ \E r \in Requests :
          \/ \E op \in Ops, o \in Orders :
                \/ \E client \in {"worker", "other"} : Accept(r, op, o, client)
                \/ AcceptBad(r, op, o)
          \/ EntersDatabase(r) \/ HandlerStep(r) \/ ClientGivesUp(r)
    \/ LateSendFails
    \/ ConnectionChanges
    \/ \E w \in Writes : ResolveLimbo(w)
    \/ \E o \in Orders : CacheChanges(o)

ApiSpec == ApiInit /\ [][ApiNext]_apiVars

(* Redis answers or times out, Postgres answers unless it hangs, a client  *)
(* of the load generator waits five seconds, and a thread that waits for   *)
(* db_mutex_ while it is released again and again gets it.                 *)
ApiFairness ==
    /\ \A r \in Requests :
          /\ WF_apiVars(HandlerStep(r))
          /\ SF_apiVars(EntersDatabase(r))
          /\ WF_apiVars(ClientGivesUp(r))
    /\ WF_apiVars(LateSendFails)
    /\ WF_apiVars(Exit)

FairApiSpec == ApiSpec /\ ApiFairness
----------------------------------------------------------------------------
(* Properties *)

(* The values every variable may take, and who holds the mutex. *)
ApiTypeOK ==
    /\ process \in Processes
    /\ attempt \in 0..MaxAttempts
    /\ late \in 0..NumWorkers
    /\ row \in [Orders -> Nat]
    /\ limbo \in [Writes -> Nat]
    /\ cache \in [Orders -> Nat]
    /\ dbConn \in Connections
    /\ dbLock \in Requests \union {NoRequest}
    /\ redisConn \in BOOLEAN
    /\ req \in [Requests -> RequestRecords \union {Idle}]
    /\ known \subseteq Orders
    /\ orphans \in Nat

(* A request as the call of a client: its answer counts when it is ready.  *)
CallOf(q) ==
    IF q.at = "idle"
    THEN [op |-> "none"]
    ELSE [op |-> q.op, order |-> q.order, floor |-> q.floor,
          effective |-> q.done,
          answer |-> IF q.at = "answer" THEN q.result ELSE "none",
          seen |-> IF q.at = "answer" THEN q.seen ELSE 0]

Store == INSTANCE OrderStore
             WITH Callers <- Requests,
                  version <- row,
                  call <- [r \in Requests |-> CallOf(req[r])],
                  stray <- limbo

(* The handlers implement the register of OrderStore: an order that was    *)
(* answered with 201 is there, once, for good; no 404 for an order that    *)
(* existed before the request; a GET that Postgres answers sees every      *)
(* write answered before it (api_server.cpp, database_client.cpp).         *)
StoreSpec == Store!Spec

(* What a GET may find in the cache, whoever wrote it there: a version the *)
(* order has had (api_server.cpp:88).  RedisUpdater guarantees it.         *)
Contract == INSTANCE OrderCache WITH version <- row, cached <- cache
CacheContract == Contract!Spec

(* Each time the connection is lost, at most one write is in doubt, the    *)
(* one that held db_mutex_: no second POST is answered with 500 although   *)
(* its order exists before the connection has been opened again            *)
(* (database_client.cpp:35, 46).                                           *)
OneWriteInDoubtPerLoss == orphans <= 1 /\ (orphans = 1 => dbConn = "broken")

GetFails(r) ==
    /\ req[r].at # "idle" /\ req[r].op = "read" /\ req[r].result # "error"
    /\ req'[r].at # "idle" /\ req'[r].result = "error"

(* docs/ARCHITECTURE.md:57: with Redis away, reads come from Postgres.  A  *)
(* GET turns into a 500 only while the database connection is lost, or     *)
(* because Postgres refuses its statement (api_server.cpp:86, :117).       *)
RedisOutageIsInvisible ==
    [][\A r \in Requests : GetFails(r) => dbConn = "broken" \/ dbLock = r]_req

(* The load generator never asks for an order that is not there: none of   *)
(* its PATCHes is answered with 404, across ids drawn twice, timeouts and  *)
(* lost connections (load_generator.cpp:71, api_server.cpp:68).            *)
WorkersPatchExistingOrders ==
    \A r \in Requests :
        req[r].at = "answer" /\ req[r].client = "worker" /\ req[r].op = "update"
            => req[r].result # "notfound"

(* No request stays open for ever, unless Postgres hangs: no timeout is    *)
(* set on statements, and db_mutex_ is held meanwhile                      *)
(* (database_client.cpp:35, 58, 82).                                       *)
EveryRequestIsAnswered ==
    \A r \in Requests : []<>(req[r].at = "idle" \/ dbConn = "hung")

(* A signal on the main thread ends the process, also when Postgres hangs  *)
(* and no handler ever returns: the workers it joins give up by themselves *)
(* (main.cpp:19, load_generator.cpp:48).                                   *)
SignalEndsProcess == []<>(process # "stopping")
=============================================================================
