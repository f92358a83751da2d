------------------------- MODULE ApiServer_proofs -------------------------
(* Proofs about ApiServer, for every set of orders, every size of the      *)
(* thread pool and every value of the bounds.                              *)
EXTENDS ApiServer, FiniteSetTheorems, TLAPS

LEMMA NewRequestType ==
  ASSUME row \in [Orders -> Nat], NEW op \in Ops, NEW o \in Orders,
         NEW client \in {"worker", "other"}, NEW at \in Places \ {"idle"},
         NEW result \in Results
  PROVE  NewRequest(op, o, client, at, result) \in RequestRecords
BY DEF NewRequest, RequestRecords

LEMMA RequestIsTyped ==
  ASSUME ApiTypeOK, NEW r \in Requests, req[r].at # "idle"
  PROVE  req[r] \in RequestRecords
BY DEF ApiTypeOK, Idle

HandlerActions(r) ==
    \/ HandlerStep(r) \/ EntersDatabase(r) \/ ClientGivesUp(r)

(* A write that is counted in limbo. *)
LEMMA LimboTypes ==
  ASSUME ApiTypeOK, NEW r \in Requests
  PROVE  LimboWith(r) \in [Writes -> Nat]
<1>1. CASE req[r].at = "exec" /\ req[r].op # "read"
  <2>1. req[r] \in RequestRecords  BY <1>1, RequestIsTyped
  <2>2. Write(r) \in Writes
    BY <1>1, <2>1 DEF Write, Writes, RequestRecords, Ops
  <2>. QED  BY <1>1, <2>2 DEF LimboWith, ApiTypeOK
<1>2. CASE ~(req[r].at = "exec" /\ req[r].op # "read")
  BY <1>2, Zenon DEF LimboWith, ApiTypeOK
<1>. QED  BY <1>1, <1>2

LEMMA HandlerTypes ==
  ASSUME ApiTypeOK, NEW r \in Requests, HandlerActions(r)
  PROVE  ApiTypeOK'
<1>1. PICK q \in RequestRecords \union {Idle} : req' = [req EXCEPT ![r] = q]
  <2>1. CASE Respond(r)  BY <2>1 DEF Respond
  <2>2. CASE ~Respond(r)
    <3>1. req[r] \in RequestRecords
      BY <2>2, RequestIsTyped DEF HandlerActions, HandlerStep, EntersDatabase,
         CacheHit, FallBack, Commits, WritesNothing, Selects, Rejects,
         InPostgres, Returns, Throws, TakeLock, Reopens, FailsFast,
         ClientGivesUp, AtDatabase
    <3>2. row \in [Orders -> Nat] /\ cache \in [Orders -> Nat]
          /\ req[r].order \in Orders
      BY <3>1 DEF ApiTypeOK, RequestRecords
    <3>3. CASE CacheHit(r)
      BY <3>1, <3>2, <3>3 DEF CacheHit, RequestRecords, Places, Results
    <3>4. CASE FallBack(r) \/ TakeLock(r) \/ Reopens(r) \/ Returns(r)
      BY <3>1, <3>4 DEF FallBack, TakeLock, Reopens, Returns, RequestRecords,
         Places, AtDatabase
    <3>5. CASE FailsFast(r) \/ Throws(r)
      BY <3>1, <3>5 DEF FailsFast, Throws, RequestRecords, Places, Results
    <3>9. CASE Rejects(r)
      BY <3>1, <3>9 DEF Rejects, RequestRecords, Places, AtDatabase, Results
    <3>6. CASE Commits(r) \/ WritesNothing(r)
      BY <3>1, <3>6 DEF Commits, WritesNothing, RequestRecords, Places,
         AtDatabase, Results
    <3>7. CASE Selects(r)
      <4> DEFINE found == IF row[req[r].order] = 0 THEN "notfound" ELSE "current"
                 q == [req[r] EXCEPT !.at = "reply", !.result = found,
                                     !.seen = row[req[r].order]]
      <4>1. row[req[r].order] \in Nat /\ found \in Results
        BY <3>2 DEF Results
      <4>2. req' = [req EXCEPT ![r] = q]  BY <3>7 DEF Selects
      <4> HIDE DEF found
      <4>3. q \in RequestRecords
        BY <3>1, <4>1 DEF RequestRecords, Places, AtDatabase
      <4>. QED  BY <4>2, <4>3
    <3>8. CASE ClientGivesUp(r)
      BY <3>1, <3>8 DEF ClientGivesUp, RequestRecords
    <3>. QED
      BY <2>2, <3>3, <3>4, <3>5, <3>6, <3>7, <3>8, <3>9
      DEF HandlerActions, HandlerStep, EntersDatabase
  <2>. QED  BY <2>1, <2>2
<1>2. req' \in [Requests -> RequestRecords \union {Idle}]
  BY <1>1 DEF ApiTypeOK
<1>3. row' \in [Orders -> Nat] /\ cache' = cache
  <2>1. row' = row \/ Commits(r)
    BY DEF HandlerActions, HandlerStep, EntersDatabase, CacheHit, FallBack,
       WritesNothing, Selects, Rejects, Returns, Throws, Respond, TakeLock,
       Reopens, FailsFast, ClientGivesUp, storageVars
  <2>2. ASSUME Commits(r) PROVE row' \in [Orders -> Nat]
    <3>1. req[r] \in RequestRecords
      BY <2>2, RequestIsTyped DEF Commits, InPostgres
    <3>2. req[r].order \in Orders /\ row[req[r].order] + 1 \in Nat
      BY <3>1 DEF RequestRecords, ApiTypeOK
    <3>. QED  BY <2>2, <3>2 DEF Commits, ApiTypeOK
  <2>3. cache' = cache
    BY DEF HandlerActions, HandlerStep, EntersDatabase, CacheHit, FallBack,
       Commits, WritesNothing, Selects, Rejects, Returns, Throws, Respond,
       TakeLock, Reopens, FailsFast, ClientGivesUp, storageVars
  <2>. QED  BY <2>1, <2>2, <2>3 DEF ApiTypeOK
<1>4. limbo' \in [Writes -> Nat]
  <2>1. CASE Throws(r)
    BY <2>1, LimboTypes DEF Throws, ApiTypeOK
  <2>2. CASE limbo' = limbo  BY <2>2 DEF ApiTypeOK
  <2>. QED
    BY <2>1, <2>2 DEF HandlerActions, HandlerStep, EntersDatabase, CacheHit,
       FallBack, Commits, WritesNothing, Selects, Rejects, Returns, Respond,
       TakeLock, Reopens, FailsFast, ClientGivesUp, storageVars
<1>5. process' = process /\ attempt' = attempt /\ late' = late
  BY DEF HandlerActions, HandlerStep, EntersDatabase, CacheHit, FallBack,
     Commits, WritesNothing, Selects, Rejects, Returns, Throws, Respond,
     TakeLock, Reopens, FailsFast, ClientGivesUp, mainVars
<1>10. dbConn' \in {dbConn, "open"}
  BY DEF HandlerActions, HandlerStep, EntersDatabase, CacheHit, FallBack,
     Commits, WritesNothing, Selects, Rejects, Returns, Throws, Respond,
     TakeLock, Reopens, FailsFast, ClientGivesUp
<1>6. dbLock' \in Requests \union {NoRequest}
  BY DEF ApiTypeOK, HandlerActions, HandlerStep, EntersDatabase, CacheHit,
     FallBack, Commits, WritesNothing, Selects, Rejects, Returns, Throws,
     Respond, TakeLock, Reopens, FailsFast, ClientGivesUp
<1>7. redisConn' \in BOOLEAN
  <2>1. CASE FallBack(r)
    <3>1. redisConn \in BOOLEAN  BY Zenon DEF ApiTypeOK
    <3>2. redisConn' \in {redisConn, FALSE}  BY <2>1, Zenon DEF FallBack
    <3>. QED  BY <3>1, <3>2, Zenon
  <2>2. CASE redisConn' = redisConn  BY <2>2, Zenon DEF ApiTypeOK
  <2>. QED
    BY <2>1, <2>2, Zenon DEF HandlerActions, HandlerStep, EntersDatabase,
       CacheHit, Commits, WritesNothing, Selects, Rejects, Returns, Throws,
       Respond, TakeLock, Reopens, FailsFast, ClientGivesUp
<1>8. known' \subseteq Orders
  <2>1. CASE Respond(r) /\ known' # known
    <3>1. req[r] \in RequestRecords  BY <2>1, RequestIsTyped DEF Respond
    <3>2. req[r].order \in Orders /\ Remember(req[r].order)
      BY <2>1, <3>1 DEF Respond, RequestRecords
    <3>. QED  BY <3>2 DEF Remember, ApiTypeOK
  <2>2. CASE known' = known  BY <2>2 DEF ApiTypeOK
  <2>. QED
    BY <2>1, <2>2 DEF HandlerActions, HandlerStep, EntersDatabase, CacheHit,
       FallBack, Commits, WritesNothing, Selects, Rejects, Returns, Throws,
       Respond, TakeLock, Reopens, FailsFast, ClientGivesUp
<1>9. orphans' \in Nat
  <2>1. orphans' = orphans \/ orphans' = orphans + 1 \/ orphans' = 0
    BY Zenon DEF HandlerActions, HandlerStep, EntersDatabase, CacheHit,
       FallBack, Commits, WritesNothing, Selects, Rejects, Returns, Throws,
       Respond, TakeLock, Reopens, FailsFast, ClientGivesUp
  <2>. QED  BY <2>1 DEF ApiTypeOK
<1>. QED
  BY <1>2, <1>3, <1>4, <1>5, <1>6, <1>7, <1>8, <1>9, <1>10
  DEF ApiTypeOK, Connections

LEMMA EndTypes ==
  ASSUME ApiTypeOK, ProcessEnds
  PROVE  ApiTypeOK'
<1>1. limbo' \in [Writes -> Nat]
  BY LimboTypes DEF ProcessEnds, ApiTypeOK
<1>2. req' \in [Requests -> RequestRecords \union {Idle}]
  BY DEF ProcessEnds
<1>3. attempt' \in 0..MaxAttempts /\ late' \in 0..NumWorkers
  BY ApiAssumption DEF ProcessEnds
<1>4. redisConn' \in BOOLEAN  BY Zenon DEF ProcessEnds
<1>. QED
  BY <1>1, <1>2, <1>3, <1>4 DEF ProcessEnds, ApiTypeOK, Processes, Connections

LEMMA OtherTypes ==
  ASSUME ApiTypeOK, ApiNext, ~ProcessEnds,
         ~ \E r \in Requests : HandlerActions(r)
  PROVE  ApiTypeOK'
<1>1. CASE Start \/ ConnectDb \/ AttemptFails \/ Signal
  BY <1>1, ApiAssumption DEF Start, ConnectDb, AttemptFails, Signal, ApiTypeOK,
     Processes, Connections, storageVars, mainVars
<1>2. CASE ConnectRedis
  <2>1. redisConn' \in BOOLEAN  BY <1>2, Zenon DEF ConnectRedis
  <2>. QED
    BY <1>2, <2>1, ApiAssumption DEF ConnectRedis, ApiTypeOK, Processes,
       storageVars
<1>3. CASE \E r \in Requests, op \in Ops, o \in Orders :
              \/ \E client \in {"worker", "other"} : Accept(r, op, o, client)
              \/ AcceptBad(r, op, o)
  <2>1. PICK r \in Requests, q \in RequestRecords : req' = [req EXCEPT ![r] = q]
    <3>1. PICK r \in Requests, op \in Ops, o \in Orders :
              \/ \E client \in {"worker", "other"} : Accept(r, op, o, client)
              \/ AcceptBad(r, op, o)
      BY <1>3
    <3>2. row \in [Orders -> Nat]  BY DEF ApiTypeOK
    <3>3. ASSUME NEW client \in {"worker", "other"}, Accept(r, op, o, client)
          PROVE  \E q \in RequestRecords : req' = [req EXCEPT ![r] = q]
      <4> DEFINE at == IF op = "read" THEN "cache" ELSE "mutex"
      <4>1. at \in Places \ {"idle"} /\ "none" \in Results
        BY DEF Places, Results
      <4>2. req' = [req EXCEPT ![r] = NewRequest(op, o, client, at, "none")]
        BY <3>3 DEF Accept
      <4> HIDE DEF at
      <4>. QED  BY <3>2, <4>1, <4>2, NewRequestType
    <3>4. CASE AcceptBad(r, op, o)
      BY <3>2, <3>4, NewRequestType DEF AcceptBad, Places, Results
    <3>. QED  BY <3>1, <3>3, <3>4
  <2>2. UNCHANGED <<process, attempt, storageVars, dbConn, dbLock, redisConn,
                    known, orphans>>
    BY <1>3 DEF Accept, AcceptBad, mainVars
  <2>3. req' \in [Requests -> RequestRecords \union {Idle}]
    BY <2>1 DEF ApiTypeOK
  <2>4. late' = late \/ (late > 0 /\ late' = late - 1)
    BY <1>3 DEF Accept, AcceptBad, WorkerSends, mainVars
  <2>5. late' \in 0..NumWorkers
    BY <2>4, ApiAssumption DEF ApiTypeOK
  <2>. QED  BY <2>2, <2>3, <2>5 DEF ApiTypeOK, storageVars
<1>4. CASE ConnectionChanges
  BY <1>4 DEF ConnectionChanges, ApiTypeOK, Connections, mainVars, storageVars
<1>5. CASE \E w \in Writes : ResolveLimbo(w)
  <2>1. PICK w \in Writes : ResolveLimbo(w)  BY <1>5
  <2>2. row' \in [Orders -> Nat]
    BY <2>1 DEF ResolveLimbo, ApiTypeOK, Writes
  <2>3. limbo' \in [Writes -> Nat]
    BY <2>1 DEF ResolveLimbo, ApiTypeOK
  <2>. QED  BY <2>1, <2>2, <2>3 DEF ResolveLimbo, ApiTypeOK, mainVars
<1>7. CASE LateSendFails
  BY <1>7, ApiAssumption DEF LateSendFails, ApiTypeOK, storageVars
<1>6. CASE \E o \in Orders : CacheChanges(o)
  <2>1. PICK o \in Orders : CacheChanges(o)  BY <1>6
  <2>2. PICK v \in 0..row[o] : cache' = [cache EXCEPT ![o] = v]
    BY <2>1 DEF CacheChanges
  <2>3. cache' \in [Orders -> Nat]  BY <2>2 DEF ApiTypeOK
  <2>. QED  BY <2>1, <2>3 DEF CacheChanges, ApiTypeOK, mainVars
<1>. QED
  BY <1>1, <1>2, <1>3, <1>4, <1>5, <1>6, <1>7
  DEF ApiNext, MainStep, HandlerActions, GiveUp, Crash, SignalAtStartup, Exit

LEMMA TypesStep ==
  ASSUME ApiTypeOK, [ApiNext]_apiVars
  PROVE  ApiTypeOK'
<1>1. CASE UNCHANGED apiVars
  BY <1>1 DEF apiVars, ApiTypeOK, mainVars, storageVars
<1>. QED  BY <1>1, HandlerTypes, EndTypes, OtherTypes

LEMMA TypesInit == ApiInit => ApiTypeOK
<1> SUFFICES ASSUME ApiInit PROVE ApiTypeOK
  OBVIOUS
<1>1. redisConn \in BOOLEAN  BY Zenon DEF ApiInit
<1>. QED
  BY <1>1, ApiAssumption DEF ApiInit, ApiTypeOK, Processes, Connections

(* Every variable of the API process keeps its type. *)
THEOREM ApiTypeCorrect == ApiSpec => []ApiTypeOK
BY TypesInit, TypesStep, PTL DEF ApiSpec

----------------------------------------------------------------------------
(* What is known of a request *)

BeforeDatabase == {"cache", "mutex", "exec"}

(* How far it is, and what it has done and found.                          *)
Consistent(q) ==
    /\ q.at \in BeforeDatabase <=> q.result = "none"
    /\ q.at = "cache" => q.op = "read"
    /\ q.result = "ok" => q.op # "read"
    /\ q.result \in {"current", "cached"} => q.op = "read"
    /\ q.result = "notfound" => q.op # "create"
    /\ q.result = "bad" => q.at = "answer"

(* Whether its write has taken effect.                                     *)
DoneWhenTold(q) ==
    /\ q.result = "ok" => q.done
    /\ q.result \in {"none", "notfound", "bad", "current", "cached"} => ~q.done
    /\ q.at = "reply" /\ q.result = "error" => ~q.done

(* The versions it has seen, in a table of orders.                         *)
InTable(q, table) ==
    /\ q.floor <= table[q.order]
    /\ q.seen <= table[q.order]
    /\ q.result = "current" => q.floor <= q.seen /\ q.seen > 0
    /\ q.result = "cached" => q.seen > 0
    /\ q.result = "notfound" => q.floor = 0
    /\ q.result = "ok" => table[q.order] > 0
    /\ q.client = "worker" /\ q.op = "update" => q.floor > 0

Busy == {r \in Requests : req[r].at # "idle"}

RequestsConsistent == \A r \in Busy : Consistent(req[r])
RequestsDone == \A r \in Busy : DoneWhenTold(req[r])
RequestsInTable == \A r \in Busy : InTable(req[r], row)

CacheBehind == \A o \in Orders : cache[o] <= row[o]
KnownExist == \A o \in known : row[o] > 0

(* The mutex is held by the one thread that uses the connection.           *)
LockIsExclusive ==
    \A r \in Requests : req[r].at \in AtDatabase <=> dbLock = r

(* A write in doubt has released the mutex, which nobody takes before the  *)
(* connection is open again.                                               *)
DoubtIsSettled ==
    /\ orphans <= 1
    /\ orphans = 1 => dbConn = "broken" /\ dbLock = NoRequest

LEMMA RowsGrow ==
  ASSUME ApiTypeOK, [ApiNext]_apiVars
  PROVE  \A o \in Orders : row[o] <= row'[o]
<1>1. \/ row' = row
      \/ \E o \in Orders : row' = [row EXCEPT ![o] = @ + 1]
  <2>1. CASE \E w \in Writes : ResolveLimbo(w)
    BY <2>1 DEF ResolveLimbo, ApiTypeOK, Writes
  <2>2. CASE \E r \in Requests : Commits(r)
    <3>1. PICK r \in Requests : Commits(r)  BY <2>2
    <3>2. req[r].order \in Orders
      BY <3>1, RequestIsTyped DEF Commits, InPostgres, RequestRecords
    <3>. QED  BY <3>1, <3>2 DEF Commits
  <2>3. CASE UNCHANGED row  BY <2>3
  <2>. QED
    BY <2>1, <2>2, <2>3
    DEF ApiNext, MainStep, HandlerStep, EntersDatabase, Start, ConnectDb,
        ConnectRedis, AttemptFails, GiveUp, Crash, Signal, SignalAtStartup,
        Exit, ProcessEnds, Accept, AcceptBad, TakeLock, Reopens, FailsFast,
        CacheHit, FallBack, WritesNothing, Selects, Rejects, Returns, Throws,
        Respond, ClientGivesUp, LateSendFails, ConnectionChanges, CacheChanges,
        apiVars, storageVars
<1>. QED  BY <1>1 DEF ApiTypeOK

(* Steps, by what they do to the requests.                                 *)
AcceptStep(r) ==
    \E op \in Ops, o \in Orders :
        \/ \E client \in {"worker", "other"} : Accept(r, op, o, client)
        \/ AcceptBad(r, op, o)

LEMMA RequestSteps ==
  ASSUME [ApiNext]_apiVars
  PROVE  \/ UNCHANGED req
         \/ ProcessEnds
         \/ \E r \in Requests : HandlerActions(r) \/ AcceptStep(r)
BY DEF ApiNext, MainStep, HandlerActions, AcceptStep, Start, ConnectDb,
   ConnectRedis, AttemptFails, GiveUp, Crash, Signal, SignalAtStartup, Exit,
   LateSendFails, ConnectionChanges, ResolveLimbo, CacheChanges, apiVars

LEMMA OthersStay ==
  ASSUME ApiTypeOK, NEW r \in Requests, HandlerActions(r) \/ AcceptStep(r),
         NEW s \in Requests, s # r
  PROVE  req'[s] = req[s]
<1>1. \E q : req' = [req EXCEPT ![r] = q]
  BY DEF HandlerActions, HandlerStep, EntersDatabase, AcceptStep, Accept,
     AcceptBad, CacheHit, FallBack, Commits, WritesNothing, Selects, Rejects,
     Returns, Throws, Respond, TakeLock, Reopens, FailsFast, ClientGivesUp
<1>. QED  BY <1>1 DEF ApiTypeOK

(* A request as it arrives.                                                *)
LEMMA AcceptedRequest ==
  ASSUME ApiTypeOK, NEW r \in Requests, AcceptStep(r)
  PROVE  /\ req'[r] \in RequestRecords
         /\ req'[r].floor = row[req'[r].order]
         /\ ~req'[r].done
         /\ req'[r].seen = 0
         /\ \/ /\ req'[r].result = "none"
               /\ \/ req'[r].at = "cache" /\ req'[r].op = "read"
                  \/ req'[r].at = "mutex" /\ req'[r].op # "read"
            \/ req'[r].result = "bad" /\ req'[r].at = "answer"
         /\ req'[r].client = "worker" /\ req'[r].op = "update"
               => req'[r].order \in known
<1>1. PICK op \in Ops, o \in Orders :
              \/ \E client \in {"worker", "other"} : Accept(r, op, o, client)
              \/ AcceptBad(r, op, o)
  BY DEF AcceptStep
<1>2. CASE AcceptBad(r, op, o)
  <2>1. req'[r] = NewRequest(op, o, "other", "answer", "bad")
    BY <1>2 DEF AcceptBad, ApiTypeOK
  <2>. QED
    BY <2>1 DEF NewRequest, ApiTypeOK, RequestRecords, Places, Results
<1>3. ASSUME NEW client \in {"worker", "other"}, Accept(r, op, o, client)
      PROVE  \E at \in {"cache", "mutex"} :
                /\ req'[r] = NewRequest(op, o, client, at, "none")
                /\ at = "cache" <=> op = "read"
                /\ client = "worker" /\ op = "update" => o \in known
  <2> DEFINE at == IF op = "read" THEN "cache" ELSE "mutex"
  <2>1. at \in {"cache", "mutex"} /\ (at = "cache" <=> op = "read")
    OBVIOUS
  <2>2. req' = [req EXCEPT ![r] = NewRequest(op, o, client, at, "none")]
    BY <1>3 DEF Accept
  <2> HIDE DEF at
  <2>3. req'[r] = NewRequest(op, o, client, at, "none")
    BY <2>2 DEF ApiTypeOK
  <2>4. client = "worker" /\ op = "update" => o \in known
    BY <1>3 DEF Accept, WorkerSends
  <2>. QED  BY <2>1, <2>3, <2>4
<1>4. ASSUME NEW client \in {"worker", "other"}, NEW at \in {"cache", "mutex"},
             req'[r] = NewRequest(op, o, client, at, "none")
      PROVE  /\ req'[r] \in RequestRecords
             /\ req'[r].floor = row[o] /\ ~req'[r].done /\ req'[r].seen = 0
             /\ req'[r].result = "none" /\ req'[r].at = at /\ req'[r].op = op
             /\ req'[r].order = o /\ req'[r].client = client
  BY <1>4 DEF NewRequest, ApiTypeOK, RequestRecords, Places, Results
<1>. QED  BY <1>1, <1>2, <1>3, <1>4

(* A handler changes neither the question nor, but for a giving up, the    *)
(* client.                                                                 *)
LEMMA QuestionStays ==
  ASSUME ApiTypeOK, NEW r \in Requests, HandlerActions(r), req'[r].at # "idle"
  PROVE  /\ req[r] \in RequestRecords /\ req'[r] \in RequestRecords
         /\ req'[r].op = req[r].op
         /\ req'[r].order = req[r].order
         /\ req'[r].floor = req[r].floor
         /\ req'[r].client \in {req[r].client, "other"}
<1>1. req[r].at # "idle"
  BY DEF HandlerActions, HandlerStep, EntersDatabase, CacheHit, FallBack,
     Commits, WritesNothing, Selects, Rejects, InPostgres, Returns, Throws,
     Respond, TakeLock, Reopens, FailsFast, ClientGivesUp, AtDatabase
<1>2. req[r] \in RequestRecords  BY <1>1, RequestIsTyped
<1>3. req'[r] \in RequestRecords
  BY HandlerTypes DEF ApiTypeOK, Idle
<1>4. ~Respond(r)  BY DEF Respond, Idle, ApiTypeOK
<1>5. SUFFICES /\ req'[r].op = req[r].op
               /\ req'[r].order = req[r].order
               /\ req'[r].floor = req[r].floor
               /\ req'[r].client \in {req[r].client, "other"}
  BY <1>2, <1>3
<1>6. req \in [Requests -> RequestRecords \union {Idle}]  BY DEF ApiTypeOK
<1> USE <1>2, <1>6 DEF RequestRecords
<1>7. CASE CacheHit(r)  BY <1>7 DEF CacheHit
<1>8. CASE FallBack(r)  BY <1>8 DEF FallBack
<1>9. CASE Commits(r)  BY <1>9 DEF Commits
<1>10. CASE WritesNothing(r)  BY <1>10 DEF WritesNothing
<1>11. CASE Selects(r)  BY <1>11 DEF Selects
<1>12. CASE Returns(r) \/ TakeLock(r) \/ Reopens(r)
  BY <1>12 DEF Returns, TakeLock, Reopens
<1>16. CASE Rejects(r)  BY <1>16 DEF Rejects
<1>13. CASE Throws(r)  BY <1>13 DEF Throws
<1>14. CASE FailsFast(r)  BY <1>14 DEF FailsFast
<1>15. CASE ClientGivesUp(r)  BY <1>15 DEF ClientGivesUp
<1>. QED
  BY <1>4, <1>7, <1>8, <1>9, <1>10, <1>11, <1>12, <1>13, <1>14, <1>15,
     <1>16
  DEF HandlerActions, HandlerStep, EntersDatabase

LEMMA ConsistentHandler ==
  ASSUME ApiTypeOK, NEW r \in Requests, HandlerActions(r),
         req'[r].at # "idle", Consistent(req[r])
  PROVE  Consistent(req'[r])
<1>1. req[r] \in RequestRecords  BY QuestionStays
<1>2. req \in [Requests -> RequestRecords \union {Idle}]  BY DEF ApiTypeOK
<1>3. ~Respond(r)  BY DEF Respond, Idle, ApiTypeOK
<1> USE <1>1, <1>2 DEF RequestRecords, Consistent, BeforeDatabase
<1>11. CASE CacheHit(r)  BY <1>11 DEF CacheHit
<1>12. CASE FallBack(r)  BY <1>12 DEF FallBack
<1>13. CASE Commits(r)  BY <1>13 DEF Commits, InPostgres, Applicable
<1>14. CASE WritesNothing(r)  BY <1>14 DEF WritesNothing, InPostgres
<1>15. CASE Selects(r)  BY <1>15 DEF Selects, InPostgres
<1>16. CASE Returns(r)  BY <1>16 DEF Returns
<1>17. CASE TakeLock(r)  BY <1>17 DEF TakeLock
<1>18. CASE Throws(r)  BY <1>18 DEF Throws, AtDatabase
<1>19. CASE FailsFast(r)  BY <1>19 DEF FailsFast
<1>20. CASE ClientGivesUp(r)  BY <1>20 DEF ClientGivesUp
<1>21. CASE Reopens(r)  BY <1>21 DEF Reopens
<1>22. CASE Rejects(r)  BY <1>22 DEF Rejects, InPostgres
<1>. QED
  BY <1>3, <1>11, <1>12, <1>13, <1>14, <1>15, <1>16,
     <1>17, <1>18, <1>19, <1>20, <1>21, <1>22
  DEF HandlerActions, HandlerStep, EntersDatabase

LEMMA ConsistentStep ==
  ASSUME ApiTypeOK, RequestsConsistent, [ApiNext]_apiVars
  PROVE  RequestsConsistent'
<1> SUFFICES ASSUME NEW s \in Requests, req'[s].at # "idle"
             PROVE  Consistent(req'[s])
  BY DEF RequestsConsistent, Busy
<1>1. CASE UNCHANGED req  BY <1>1 DEF RequestsConsistent, Busy
<1>2. CASE ProcessEnds  BY <1>2 DEF ProcessEnds, Idle
<1>3. ASSUME NEW r \in Requests, HandlerActions(r) \/ AcceptStep(r), s # r
      PROVE  Consistent(req'[s])
  BY <1>3, OthersStay DEF RequestsConsistent, Busy
<1>4. CASE AcceptStep(s)
  BY <1>4, AcceptedRequest DEF Consistent, BeforeDatabase, AtDatabase
<1>5. CASE HandlerActions(s)
  <2>1. req[s].at # "idle"  BY <1>5, QuestionStays DEF RequestRecords
  <2>. QED  BY <1>5, <2>1, ConsistentHandler DEF RequestsConsistent, Busy
<1>. QED  BY <1>1, <1>2, <1>3, <1>4, <1>5, RequestSteps


LEMMA DoneHandler ==
  ASSUME ApiTypeOK, RequestsConsistent, NEW r \in Requests, HandlerActions(r),
         req'[r].at # "idle", DoneWhenTold(req[r])
  PROVE  DoneWhenTold(req'[r])
<1>1. req[r] \in RequestRecords  BY QuestionStays
<1>2. req \in [Requests -> RequestRecords \union {Idle}]  BY DEF ApiTypeOK
<1>3. ~Respond(r)  BY DEF Respond, Idle, ApiTypeOK
<1>4. Consistent(req[r])
  BY <1>1 DEF RequestsConsistent, Busy, RequestRecords
<1> USE <1>4
<1> USE <1>1, <1>2 DEF RequestRecords, DoneWhenTold, Consistent, BeforeDatabase
<1>11. CASE CacheHit(r)  BY <1>11 DEF CacheHit
<1>12. CASE FallBack(r)  BY <1>12 DEF FallBack
<1>13. CASE Commits(r)  BY <1>13 DEF Commits, InPostgres, Applicable
<1>14. CASE WritesNothing(r)  BY <1>14 DEF WritesNothing, InPostgres
<1>15. CASE Selects(r)  BY <1>15 DEF Selects, InPostgres
<1>16. CASE Returns(r)  BY <1>16 DEF Returns
<1>17. CASE TakeLock(r)  BY <1>17 DEF TakeLock
<1>18. CASE Throws(r)  BY <1>18 DEF Throws, AtDatabase
<1>19. CASE FailsFast(r)  BY <1>19 DEF FailsFast
<1>20. CASE ClientGivesUp(r)  BY <1>20 DEF ClientGivesUp
<1>21. CASE Reopens(r)  BY <1>21 DEF Reopens
<1>22. CASE Rejects(r)  BY <1>22 DEF Rejects, InPostgres
<1>. QED
  BY <1>3, <1>11, <1>12, <1>13, <1>14, <1>15, <1>16,
     <1>17, <1>18, <1>19, <1>20, <1>21, <1>22
  DEF HandlerActions, HandlerStep, EntersDatabase

LEMMA DoneStep ==
  ASSUME ApiTypeOK, RequestsConsistent, RequestsDone, [ApiNext]_apiVars
  PROVE  RequestsDone'
<1> SUFFICES ASSUME NEW s \in Requests, req'[s].at # "idle"
             PROVE  DoneWhenTold(req'[s])
  BY DEF RequestsDone, Busy
<1>1. CASE UNCHANGED req  BY <1>1 DEF RequestsDone, Busy
<1>2. CASE ProcessEnds  BY <1>2 DEF ProcessEnds, Idle
<1>3. ASSUME NEW r \in Requests, HandlerActions(r) \/ AcceptStep(r), s # r
      PROVE  DoneWhenTold(req'[s])
  BY <1>3, OthersStay DEF RequestsDone, Busy
<1>4. CASE AcceptStep(s)
  BY <1>4, AcceptedRequest DEF DoneWhenTold
<1>5. CASE HandlerActions(s)
  <2>1. req[s].at # "idle"  BY <1>5, QuestionStays DEF RequestRecords
  <2>. QED  BY <1>5, <2>1, DoneHandler DEF RequestsDone, Busy
<1>. QED  BY <1>1, <1>2, <1>3, <1>4, <1>5, RequestSteps

LEMMA InTableGrows ==
  ASSUME NEW q \in RequestRecords, NEW t1 \in [Orders -> Nat],
         NEW t2 \in [Orders -> Nat], \A o \in Orders : t1[o] <= t2[o],
         InTable(q, t1)
  PROVE  InTable(q, t2)
BY DEF InTable, RequestRecords

(* A handler that finds something new finds it in the table of the moment. *)
LEMMA InTableHandler ==
  ASSUME ApiTypeOK, ApiTypeOK', RequestsConsistent, CacheBehind,
         NEW r \in Requests, HandlerActions(r), req'[r].at # "idle",
         InTable(req[r], row), \A o \in Orders : row[o] <= row'[o]
  PROVE  InTable(req'[r], row')
<1>1. req[r] \in RequestRecords /\ req'[r] \in RequestRecords
  BY QuestionStays
<1>2. req[r].order \in Orders /\ cache[req[r].order] <= row[req[r].order]
  BY <1>1 DEF RequestRecords, CacheBehind
<1>3. /\ req \in [Requests -> RequestRecords \union {Idle}]
      /\ row \in [Orders -> Nat] /\ row' \in [Orders -> Nat]
      /\ cache \in [Orders -> Nat]
  BY DEF ApiTypeOK
<1>4. InTable(req[r], row')  BY <1>1, <1>3, InTableGrows
<1>5. Consistent(req[r])
  BY <1>1 DEF RequestsConsistent, Busy, RequestRecords
<1>6. ~Respond(r)  BY DEF Respond, Idle, ApiTypeOK
<1>7. CASE CacheHit(r)
  <2>1. /\ req'[r].result = "cached" /\ req'[r].seen = cache[req[r].order]
        /\ cache[req[r].order] > 0
        /\ UNCHANGED row
    BY <1>1, <1>3, <1>7 DEF CacheHit, storageVars, RequestRecords
  <2>. QED
    BY <1>1, <1>2, <1>3, <1>4, <2>1, QuestionStays DEF InTable, RequestRecords
<1>8. CASE \/ FallBack(r) \/ Returns(r) \/ TakeLock(r) \/ Reopens(r)
            \/ ClientGivesUp(r)
  <2>1. req'[r].result = req[r].result /\ req'[r].seen = req[r].seen
    <3>1. CASE FallBack(r)
      BY <1>1, <1>3, <3>1 DEF FallBack, RequestRecords
    <3>2. CASE Returns(r) \/ TakeLock(r) \/ Reopens(r)
      BY <1>1, <1>3, <3>2 DEF Returns, TakeLock, Reopens, RequestRecords
    <3>3. CASE ClientGivesUp(r)
      BY <1>1, <1>3, <3>3 DEF ClientGivesUp, RequestRecords
    <3>. QED  BY <1>8, <3>1, <3>2, <3>3
  <2>. QED
    BY <1>1, <1>3, <1>4, <2>1, QuestionStays DEF InTable, RequestRecords
<1>9. CASE Throws(r) \/ FailsFast(r) \/ Rejects(r)
  <2>1. req'[r].result = "error" /\ req'[r].seen \in {req[r].seen, 0}
    BY <1>1, <1>3, <1>9 DEF Throws, FailsFast, Rejects, RequestRecords
  <2>. QED
    BY <1>1, <1>3, <1>4, <2>1, QuestionStays DEF InTable, RequestRecords
<1>10. CASE Commits(r)
  <2>1. /\ req'[r].result = "ok" /\ req'[r].seen = req[r].seen
        /\ row'[req[r].order] = row[req[r].order] + 1
    BY <1>1, <1>2, <1>3, <1>10 DEF Commits, RequestRecords
  <2>. QED
    BY <1>1, <1>2, <1>3, <1>4, <2>1, QuestionStays DEF InTable, RequestRecords
<1>11. CASE WritesNothing(r)
  <2>1. /\ req'[r].seen = req[r].seen
        /\ \/ req'[r].result = "error"
           \/ req'[r].result = "notfound" /\ row[req[r].order] = 0
    BY <1>1, <1>2, <1>3, <1>11
    DEF WritesNothing, Applicable, RequestRecords, Ops
  <2>2. row[req[r].order] = 0 => req[r].floor = 0
    BY <1>1, <1>2, <1>3 DEF InTable, RequestRecords
  <2>. QED
    BY <1>1, <1>3, <1>4, <2>1, <2>2, QuestionStays DEF InTable, RequestRecords
<1>12. CASE Selects(r)
  <2>1. /\ req'[r].seen = row[req[r].order]
        /\ \/ req'[r].result = "current" /\ row[req[r].order] > 0
           \/ req'[r].result = "notfound" /\ row[req[r].order] = 0
        /\ UNCHANGED row
    BY <1>1, <1>2, <1>3, <1>12 DEF Selects, storageVars, RequestRecords
  <2>2. req[r].floor <= row[req[r].order]
    BY <1>1, <1>2, <1>3 DEF InTable
  <2>. QED
    BY <1>1, <1>2, <1>3, <1>4, <2>1, <2>2, QuestionStays
    DEF InTable, RequestRecords
<1>. QED
  BY <1>6, <1>7, <1>8, <1>9, <1>10, <1>11, <1>12
  DEF HandlerActions, HandlerStep, EntersDatabase

LEMMA InTableStep ==
  ASSUME ApiTypeOK, ApiTypeOK', RequestsConsistent, RequestsInTable,
         CacheBehind, KnownExist, [ApiNext]_apiVars
  PROVE  RequestsInTable'
<1> SUFFICES ASSUME NEW s \in Requests, req'[s].at # "idle"
             PROVE  InTable(req'[s], row')
  BY DEF RequestsInTable, Busy
<1>1. \A o \in Orders : row[o] <= row'[o]  BY RowsGrow
<1>2. row \in [Orders -> Nat] /\ row' \in [Orders -> Nat]  BY DEF ApiTypeOK
<1>3. ASSUME req'[s] = req[s] PROVE InTable(req'[s], row')
  <2>1. req[s] \in RequestRecords /\ InTable(req[s], row)
    BY <1>3, RequestIsTyped DEF RequestsInTable, Busy
  <2>. QED  BY <1>1, <1>2, <1>3, <2>1, InTableGrows
<1>4. CASE ProcessEnds  BY <1>4 DEF ProcessEnds, Idle
<1>5. ASSUME NEW r \in Requests, HandlerActions(r) \/ AcceptStep(r), s # r
      PROVE  req'[s] = req[s]
  BY <1>5, OthersStay
<1>6. CASE AcceptStep(s)
  <2>1. req'[s].floor > 0 \/ ~(req'[s].client = "worker" /\ req'[s].op = "update")
    BY <1>6, <1>2, AcceptedRequest DEF KnownExist
  <2>2. req'[s].order \in Orders  BY <1>6, AcceptedRequest DEF RequestRecords
  <2>3. row' = row  BY <1>6 DEF AcceptStep, Accept, AcceptBad, storageVars
  <2>. QED  BY <1>2, <1>6, <2>1, <2>2, <2>3, AcceptedRequest DEF InTable
<1>7. CASE HandlerActions(s)
  <2>1. req[s].at # "idle"  BY <1>7, QuestionStays DEF RequestRecords
  <2>2. InTable(req[s], row)  BY <2>1 DEF RequestsInTable, Busy
  <2>. QED  BY <1>1, <1>7, <2>2, InTableHandler
<1>. QED  BY <1>3, <1>4, <1>5, <1>6, <1>7, RequestSteps
----------------------------------------------------------------------------
(* The mutex, the connection, the cache and the workers' ids *)

LEMMA LockStep ==
  ASSUME ApiTypeOK, LockIsExclusive, [ApiNext]_apiVars
  PROVE  LockIsExclusive'
<1>1. CASE UNCHANGED <<req, dbLock>>  BY <1>1 DEF LockIsExclusive
<1>2. CASE ProcessEnds
  BY <1>2, ApiAssumption DEF ProcessEnds, LockIsExclusive, AtDatabase, Idle
<1>3. ASSUME NEW r \in Requests, AcceptStep(r) PROVE LockIsExclusive'
  <2>1. dbLock' = dbLock /\ req[r].at = "idle"
    BY <1>3 DEF AcceptStep, Accept, AcceptBad
  <2>2. req'[r].at \notin AtDatabase
    BY <1>3, AcceptedRequest DEF AtDatabase
  <2>3. \A s \in Requests \ {r} : req'[s] = req[s]  BY <1>3, OthersStay
  <2>. QED  BY <2>1, <2>2, <2>3 DEF LockIsExclusive, AtDatabase
<1>4. ASSUME NEW r \in Requests, HandlerActions(r) PROVE LockIsExclusive'
  <2>1. \A s \in Requests \ {r} : req'[s] = req[s]  BY <1>4, OthersStay
  <2>2. req \in [Requests -> RequestRecords \union {Idle}]  BY DEF ApiTypeOK
  <2>3. CASE TakeLock(r) \/ Reopens(r)
    <3>1. req'[r].at = "exec" /\ dbLock = NoRequest /\ dbLock' = r
      BY <2>2, <2>3, RequestIsTyped DEF TakeLock, Reopens, RequestRecords
    <3>. QED
      BY <2>1, <3>1, ApiAssumption DEF LockIsExclusive, AtDatabase
  <2>4. CASE Returns(r) \/ Throws(r)
    <3>1. req'[r].at = "answer" /\ req[r].at \in AtDatabase /\ dbLock' = NoRequest
      BY <2>2, <2>4, RequestIsTyped DEF Returns, Throws, AtDatabase, RequestRecords
    <3>. QED
      BY <2>1, <3>1, ApiAssumption DEF LockIsExclusive, AtDatabase
  <2>5. CASE CacheHit(r) \/ FallBack(r) \/ FailsFast(r) \/ Respond(r)
    <3>1. /\ req'[r].at \notin AtDatabase /\ req[r].at \notin AtDatabase
          /\ dbLock' = dbLock
      <4>1. CASE Respond(r)
        BY <2>2, <4>1 DEF Respond, AtDatabase, Idle
      <4>2. CASE CacheHit(r)
        BY <2>2, <4>2, RequestIsTyped DEF CacheHit, AtDatabase, RequestRecords
      <4>3. CASE FallBack(r)
        BY <2>2, <4>3, RequestIsTyped DEF FallBack, AtDatabase, RequestRecords
      <4>4. CASE FailsFast(r)
        BY <2>2, <4>4, RequestIsTyped DEF FailsFast, AtDatabase, RequestRecords
      <4>. QED  BY <2>5, <4>1, <4>2, <4>3, <4>4
    <3>. QED  BY <2>1, <3>1 DEF LockIsExclusive
  <2>6. CASE Commits(r) \/ WritesNothing(r) \/ Selects(r) \/ Rejects(r)
    <3>1. /\ req'[r].at \in AtDatabase /\ req[r].at \in AtDatabase
          /\ dbLock' = dbLock
      BY <2>2, <2>6, RequestIsTyped
      DEF Commits, WritesNothing, Selects, Rejects, InPostgres, AtDatabase,
          RequestRecords
    <3>. QED  BY <2>1, <3>1 DEF LockIsExclusive
  <2>7. CASE ClientGivesUp(r)
    <3>1. req'[r].at = req[r].at /\ dbLock' = dbLock
      BY <2>2, <2>7, RequestIsTyped DEF ClientGivesUp, RequestRecords
    <3>. QED  BY <2>1, <3>1 DEF LockIsExclusive
  <2>. QED
    BY <1>4, <2>3, <2>4, <2>5, <2>6, <2>7
    DEF HandlerActions, HandlerStep, EntersDatabase
<1>. QED
  BY <1>1, <1>2, <1>3, <1>4
  DEF ApiNext, MainStep, HandlerActions, AcceptStep, Start, ConnectDb,
      ConnectRedis, AttemptFails, GiveUp, Crash, Signal, SignalAtStartup, Exit,
      LateSendFails, ConnectionChanges, ResolveLimbo, CacheChanges, apiVars

LEMMA DoubtStep ==
  ASSUME ApiTypeOK, LockIsExclusive, DoubtIsSettled, [ApiNext]_apiVars
  PROVE  DoubtIsSettled'
<1>1. CASE ProcessEnds  BY <1>1 DEF ProcessEnds, DoubtIsSettled
<1>2. ASSUME NEW r \in Requests, Throws(r) PROVE DoubtIsSettled'
  <2>1. dbLock = r  BY <1>2 DEF Throws, LockIsExclusive
  <2>2. orphans = 0
    BY <2>1, ApiAssumption DEF DoubtIsSettled, ApiTypeOK
  <2>3. dbConn' = "broken" /\ dbLock' = NoRequest  BY <1>2 DEF Throws
  <2>4. orphans' = orphans \/ orphans' = orphans + 1
    BY <1>2, Zenon DEF Throws
  <2>. QED  BY <2>2, <2>3, <2>4 DEF DoubtIsSettled
<1>4. CASE \E r \in Requests : Reopens(r)
  BY <1>4 DEF Reopens, DoubtIsSettled
<1>3. CASE /\ orphans' = orphans
           /\ dbConn = "broken" => dbConn' = "broken"
           /\ dbConn = "broken" /\ dbLock = NoRequest => dbLock' = NoRequest
  BY <1>3 DEF DoubtIsSettled, ApiTypeOK
<1>. QED
  BY <1>1, <1>2, <1>3, <1>4
  DEF ApiNext, MainStep, HandlerStep, EntersDatabase, Start, ConnectDb,
      ConnectRedis, AttemptFails, GiveUp, Crash, Signal, SignalAtStartup, Exit,
      Accept, AcceptBad, TakeLock, FailsFast, CacheHit, FallBack,
      Commits, WritesNothing, Selects, Rejects, Returns, Respond,
      ClientGivesUp, LateSendFails, ConnectionChanges, ResolveLimbo,
      CacheChanges, apiVars

LEMMA CacheStep ==
  ASSUME ApiTypeOK, CacheBehind, [ApiNext]_apiVars
  PROVE  CacheBehind'
<1>1. \A o \in Orders : row[o] <= row'[o]  BY RowsGrow
<1>2. CASE cache' = cache
  <2>. SUFFICES ASSUME NEW o \in Orders PROVE cache[o] <= row'[o]
    BY <1>2 DEF CacheBehind
  <2>1. cache[o] <= row[o] /\ row[o] <= row'[o]  BY <1>1 DEF CacheBehind
  <2>2. cache[o] \in Nat /\ row[o] \in Nat /\ row'[o] \in Nat
    BY TypesStep DEF ApiTypeOK
  <2>. QED  BY <2>1, <2>2
<1>3. CASE \E o \in Orders : CacheChanges(o)
  BY <1>3 DEF CacheChanges, CacheBehind, ApiTypeOK
<1>. QED
  BY <1>2, <1>3
  DEF ApiNext, MainStep, HandlerStep, EntersDatabase, Start, ConnectDb,
      ConnectRedis, AttemptFails, GiveUp, Crash, Signal, SignalAtStartup, Exit,
      ProcessEnds, Accept, AcceptBad, TakeLock, Reopens, FailsFast, CacheHit,
      FallBack, Commits, WritesNothing, Selects, Rejects, Returns, Throws,
      Respond, ClientGivesUp, LateSendFails, ConnectionChanges, ResolveLimbo,
      apiVars, storageVars

LEMMA KnownStep ==
  ASSUME ApiTypeOK, RequestsInTable, KnownExist, [ApiNext]_apiVars
  PROVE  KnownExist'
<1>1. \A o \in Orders : row[o] <= row'[o]  BY RowsGrow
<1>2. row \in [Orders -> Nat] /\ row' \in [Orders -> Nat] /\ known \subseteq Orders
  BY TypesStep DEF ApiTypeOK
<1>3. CASE known' \subseteq known
  BY <1>1, <1>2, <1>3 DEF KnownExist
<1>4. ASSUME NEW r \in Requests, Respond(r), req[r].result = "ok"
      PROVE  KnownExist'
  <2>1. req[r] \in RequestRecords /\ InTable(req[r], row)
    BY <1>4, RequestIsTyped DEF Respond, RequestsInTable, Busy
  <2>2. req[r].order \in Orders /\ row[req[r].order] > 0
    BY <1>4, <2>1 DEF InTable, RequestRecords
  <2>3. known' \subseteq known \union {req[r].order}
    BY <1>4 DEF Respond, Remember
  <2>. QED  BY <1>1, <1>2, <2>2, <2>3 DEF KnownExist
<1>. QED
  BY <1>3, <1>4
  DEF ApiNext, MainStep, HandlerStep, EntersDatabase, Start, ConnectDb,
      ConnectRedis, AttemptFails, GiveUp, Crash, Signal, SignalAtStartup, Exit,
      ProcessEnds, Accept, AcceptBad, TakeLock, Reopens, FailsFast, CacheHit,
      FallBack, Commits, WritesNothing, Selects, Rejects, Returns, Throws,
      Respond, ClientGivesUp, LateSendFails, ConnectionChanges, ResolveLimbo,
      CacheChanges, apiVars

(* Only Postgres fails a GET: it refuses the statement of the thread that  *)
(* holds the mutex, or the connection is lost.                             *)
LEMMA OutageStep ==
  ASSUME ApiTypeOK, LockIsExclusive, [ApiNext]_apiVars, NEW s \in Requests,
         GetFails(s)
  PROVE  dbConn = "broken" \/ dbLock = s
<1>1. /\ req[s].at # "idle" /\ req[s].op = "read" /\ req[s].result # "error"
      /\ req'[s].at # "idle" /\ req'[s].result = "error"
  BY DEF GetFails
<1>2. ~ProcessEnds  BY <1>1 DEF ProcessEnds, Idle
<1>3. req'[s] # req[s]  BY <1>1
<1>4. ~AcceptStep(s)  BY <1>1, AcceptedRequest
<1>5. HandlerActions(s)
  BY <1>2, <1>3, <1>4, RequestSteps, OthersStay
<1>6. req[s] \in RequestRecords  BY <1>1, RequestIsTyped
<1>7. req \in [Requests -> RequestRecords \union {Idle}]  BY DEF ApiTypeOK
<1>8. CASE Rejects(s) \/ Throws(s) \/ FailsFast(s)
  BY <1>8 DEF Rejects, Throws, FailsFast, InPostgres, AtDatabase,
     LockIsExclusive
<1>9. ~Returns(s) /\ ~ClientGivesUp(s)
  BY <1>1, <1>6, <1>7 DEF Returns, ClientGivesUp, RequestRecords
<1>10. ~Respond(s)  BY <1>1, <1>7 DEF Respond, Idle
<1>11. ~CacheHit(s) /\ ~FallBack(s)
  <2>1. CASE CacheHit(s)
    BY <1>1, <1>6, <1>7, <2>1 DEF CacheHit, RequestRecords
  <2>2. CASE FallBack(s)
    <3>1. req'[s].result = req[s].result
      BY <1>6, <1>7, <2>2 DEF FallBack, RequestRecords
    <3>. QED  BY <1>1, <3>1
  <2>. QED  BY <2>1, <2>2
<1>12. ~TakeLock(s) /\ ~Reopens(s)
  BY <1>1, <1>6, <1>7 DEF TakeLock, Reopens, RequestRecords
<1>13. ~Commits(s) /\ ~Selects(s) /\ ~WritesNothing(s)
  BY <1>1, <1>6, <1>7 DEF Commits, Selects, WritesNothing, RequestRecords
<1>. QED
  BY <1>5, <1>8, <1>9, <1>10, <1>11, <1>12, <1>13
  DEF HandlerActions, HandlerStep, EntersDatabase
----------------------------------------------------------------------------
(* The inductive invariant *)

ApiInv ==
    /\ ApiTypeOK
    /\ RequestsConsistent
    /\ RequestsDone
    /\ RequestsInTable
    /\ LockIsExclusive
    /\ DoubtIsSettled
    /\ CacheBehind
    /\ KnownExist

LEMMA ApiInvInit == ApiInit => ApiInv
<1> SUFFICES ASSUME ApiInit PROVE ApiInv
  OBVIOUS
<1>1. Busy = {} /\ \A r \in Requests : req[r].at = "idle"
  BY DEF ApiInit, Busy, Idle
<1>2. RequestsConsistent /\ RequestsDone /\ RequestsInTable
  BY <1>1 DEF RequestsConsistent, RequestsDone, RequestsInTable
<1>3. LockIsExclusive
  BY <1>1, ApiAssumption DEF ApiInit, LockIsExclusive, AtDatabase
<1>4. DoubtIsSettled /\ CacheBehind /\ KnownExist
  BY DEF ApiInit, DoubtIsSettled, CacheBehind, KnownExist
<1>. QED  BY <1>2, <1>3, <1>4, TypesInit DEF ApiInv

LEMMA ApiInvStep ==
  ASSUME ApiInv, [ApiNext]_apiVars
  PROVE  ApiInv'
<1> USE DEF ApiInv
<1>1. ApiTypeOK'  BY TypesStep
<1>2. RequestsConsistent'  BY ConsistentStep
<1>3. RequestsDone'  BY DoneStep
<1>4. RequestsInTable'  BY <1>1, InTableStep
<1>5. LockIsExclusive'  BY LockStep
<1>6. DoubtIsSettled'  BY DoubtStep
<1>7. CacheBehind'  BY CacheStep
<1>8. KnownExist'  BY KnownStep
<1>. QED  BY <1>1, <1>2, <1>3, <1>4, <1>5, <1>6, <1>7, <1>8

LEMMA ApiInvariant == ApiSpec => []ApiInv
<1>1. ApiInv /\ [ApiNext]_apiVars => ApiInv'  BY ApiInvStep
<1>. QED  BY ApiInvInit, <1>1, PTL DEF ApiSpec

(* Each time the connection is lost, at most one write is left in doubt    *)
(* before it is opened again.                                              *)
THEOREM DoubtIsBounded == ApiSpec => []OneWriteInDoubtPerLoss
<1>1. ApiInv => OneWriteInDoubtPerLoss
  BY DEF ApiInv, DoubtIsSettled, OneWriteInDoubtPerLoss
<1>. QED  BY ApiInvariant, <1>1, PTL

(* A GET turns into a 500 only while the database connection is lost, or   *)
(* in the thread whose statement Postgres is executing.                    *)
THEOREM ReadsOutliveRedis == ApiSpec => RedisOutageIsInvisible
<1>1. ApiInv /\ [ApiNext]_apiVars
        => [\A r \in Requests :
               GetFails(r) => dbConn = "broken" \/ dbLock = r]_req
  BY OutageStep DEF ApiInv
<1>. QED  BY ApiInvariant, <1>1, PTL DEF ApiSpec, RedisOutageIsInvisible

(* No PATCH of the load generator meets a missing order.                   *)
THEOREM WorkersKnowTheirOrders == ApiSpec => []WorkersPatchExistingOrders
<1>1. ASSUME ApiInv PROVE WorkersPatchExistingOrders
  <2> SUFFICES ASSUME NEW r \in Requests, req[r].at = "answer",
                      req[r].client = "worker", req[r].op = "update",
                      req[r].result = "notfound"
               PROVE  FALSE
    BY DEF WorkersPatchExistingOrders
  <2>1. req[r] \in RequestRecords /\ InTable(req[r], row)
    BY <1>1, RequestIsTyped DEF ApiInv, RequestsInTable, Busy
  <2>2. req[r].floor = 0 /\ req[r].floor > 0  BY <2>1 DEF InTable
  <2>. QED  BY <2>2
<1>. QED  BY ApiInvariant, <1>1, PTL
----------------------------------------------------------------------------
(* Refinement of OrderStore *)

Calls == [r \in Requests |-> CallOf(req[r])]

LEMMA StoreInit == ApiInit => Store!Init
<1> SUFFICES ASSUME ApiInit PROVE Store!Init
  OBVIOUS
<1>1. \A r \in Requests : CallOf(req[r]) = [op |-> "none"]
  BY DEF ApiInit, CallOf, Idle
<1>. QED  BY <1>1 DEF ApiInit, Store!Init, Store!NoCall, Store!Writes, Writes

(* One request changes: one call changes. *)
LEMMA OneCallChanges ==
  ASSUME ApiTypeOK, NEW r \in Requests, HandlerActions(r) \/ AcceptStep(r)
  PROVE  Calls' = [Calls EXCEPT ![r] = CallOf(req'[r])]
<1>1. \A s \in Requests \ {r} : req'[s] = req[s]  BY OthersStay
<1>. QED  BY <1>1 DEF Calls

LEMMA SameCall ==
  ASSUME ApiTypeOK, NEW r \in Requests, HandlerActions(r),
         CallOf(req'[r]) = CallOf(req[r])
  PROVE  Calls' = Calls
BY OneCallChanges DEF Calls

(* An open call, in the fields of its request.                             *)
LEMMA BusyCall ==
  ASSUME NEW q, q.at # "idle"
  PROVE  /\ CallOf(q) # [op |-> "none"]
         /\ CallOf(q).op = q.op /\ CallOf(q).order = q.order
         /\ CallOf(q).floor = q.floor
         /\ CallOf(q).effective = q.done
         /\ CallOf(q).answer = IF q.at = "answer" THEN q.result ELSE "none"
         /\ CallOf(q).seen = IF q.at = "answer" THEN q.seen ELSE 0
BY DEF CallOf

(* Steps inside the server that a client does not see.                     *)
LEMMA HiddenStep ==
  ASSUME ApiInv, NEW r \in Requests,
         FallBack(r) \/ TakeLock(r) \/ Reopens(r) \/ WritesNothing(r)
           \/ Selects(r) \/ Rejects(r) \/ ClientGivesUp(r)
  PROVE  UNCHANGED <<row, Calls, limbo>>
<1>1. HandlerActions(r) /\ UNCHANGED <<row, limbo>>
  BY DEF HandlerActions, HandlerStep, EntersDatabase, FallBack, TakeLock,
     Reopens, WritesNothing, Selects, Rejects, ClientGivesUp, storageVars
<1>2. req \in [Requests -> RequestRecords \union {Idle}] /\ ApiTypeOK
  BY DEF ApiInv, ApiTypeOK
<1>3. req[r] \in RequestRecords
  BY <1>2, RequestIsTyped DEF FallBack, TakeLock, Reopens, WritesNothing, Selects,
     Rejects, ClientGivesUp, InPostgres
<1>4. CallOf(req'[r]) = CallOf(req[r])
  <2> USE <1>2, <1>3 DEF RequestRecords, CallOf
  <2>1. CASE FallBack(r)  BY <2>1 DEF FallBack
  <2>2. CASE TakeLock(r)  BY <2>2 DEF TakeLock
  <2>3. CASE WritesNothing(r)  BY <2>3 DEF WritesNothing, InPostgres
  <2>4. CASE Selects(r)  BY <2>4 DEF Selects, InPostgres
  <2>5. CASE ClientGivesUp(r)  BY <2>5 DEF ClientGivesUp
  <2>6. CASE Reopens(r)  BY <2>6 DEF Reopens
  <2>7. CASE Rejects(r)  BY <2>7 DEF Rejects, InPostgres
  <2>. QED  BY <2>1, <2>2, <2>3, <2>4, <2>5, <2>6, <2>7
<1>. QED  BY <1>1, <1>2, <1>4, SameCall

LEMMA AcceptIsOpen ==
  ASSUME ApiInv, NEW r \in Requests, AcceptStep(r)
  PROVE  \E op \in Ops, o \in Orders : Store!Open(r, op, o)
<1>1. PICK op \in Ops, o \in Orders :
              \/ \E client \in {"worker", "other"} : Accept(r, op, o, client)
              \/ AcceptBad(r, op, o)
  BY DEF AcceptStep
<1>2. req[r].at = "idle" /\ UNCHANGED <<row, limbo>>
  BY <1>1 DEF Accept, AcceptBad, storageVars
<1>3. req \in [Requests -> RequestRecords \union {Idle}] /\ ApiTypeOK
  BY DEF ApiInv, ApiTypeOK
<1>4. PICK client \in {"worker", "other"}, at \in {"cache", "mutex", "answer"},
           result \in {"none", "bad"} :
         /\ req' = [req EXCEPT ![r] = NewRequest(op, o, client, at, result)]
         /\ at = "answer" <=> result = "bad"
  <2>1. CASE AcceptBad(r, op, o)  BY <2>1 DEF AcceptBad
  <2>2. ASSUME NEW client \in {"worker", "other"}, Accept(r, op, o, client)
        PROVE  \E at \in {"cache", "mutex"} :
                  req' = [req EXCEPT ![r] = NewRequest(op, o, client, at, "none")]
    BY <2>2 DEF Accept
  <2>. QED  BY <1>1, <2>1, <2>2
<1>5. req'[r] = NewRequest(op, o, client, at, result)  BY <1>3, <1>4
<1>6. CallOf(req'[r]) = Store!NewCall(op, o, result)
  <2> DEFINE q == NewRequest(op, o, client, at, result)
  <2>1. /\ q.at = at /\ q.op = op /\ q.order = o /\ q.floor = row[o]
        /\ q.result = result /\ q.seen = 0
    BY DEF NewRequest
  <2>2. q.done = FALSE  BY Zenon DEF NewRequest
  <2>3. q.at # "idle"  BY <2>1
  <2> HIDE DEF q
  <2>4. CallOf(q) = [op |-> q.op, order |-> q.order, floor |-> q.floor,
                     effective |-> q.done,
                     answer |-> IF q.at = "answer" THEN q.result ELSE "none",
                     seen |-> IF q.at = "answer" THEN q.seen ELSE 0]
    BY <2>3, Zenon DEF CallOf
  <2>5. /\ (IF q.at = "answer" THEN q.result ELSE "none") = result
        /\ (IF q.at = "answer" THEN q.seen ELSE 0) = 0
    BY <1>4, <2>1
  <2>6. CallOf(q) = Store!NewCall(op, o, result)
    BY <2>1, <2>2, <2>4, <2>5, Zenon DEF Store!NewCall
  <2>. QED  BY <1>5, <2>6 DEF q
<1>7. Calls' = [Calls EXCEPT ![r] = Store!NewCall(op, o, result)]
  BY <1>3, <1>6, OneCallChanges
<1>8. Calls[r] = Store!NoCall  BY <1>2 DEF Calls, CallOf, Store!NoCall
<1>9. Calls'[r] # Store!NoCall
  BY <1>4, <1>5, BusyCall DEF NewRequest, Calls, Store!NoCall
<1>. QED  BY <1>2, <1>4, <1>7, <1>8, <1>9 DEF Store!Open, Calls

(* A record update, for a field of any type.                               *)
LEMMA SetEffective ==
  ASSUME NEW op, NEW o, NEW f, NEW e, NEW a, NEW s, NEW t
  PROVE  [[op |-> op, order |-> o, floor |-> f, effective |-> e,
           answer |-> a, seen |-> s] EXCEPT !.effective = t]
           = [op |-> op, order |-> o, floor |-> f, effective |-> t,
              answer |-> a, seen |-> s]
OBVIOUS

LEMMA CommitIsEffect ==
  ASSUME ApiInv, NEW r \in Requests, Commits(r)
  PROVE  Store!TakeEffect(r)
<1>1. req \in [Requests -> RequestRecords \union {Idle}] /\ ApiTypeOK
  BY DEF ApiInv, ApiTypeOK
<1>2. req[r] \in RequestRecords /\ req[r].at = "exec"
  BY <1>1, RequestIsTyped DEF Commits, InPostgres
<1>3. Consistent(req[r]) /\ DoneWhenTold(req[r])
  BY <1>2 DEF ApiInv, RequestsConsistent, RequestsDone, Busy
<1>4. ~req[r].done
  BY <1>2, <1>3 DEF Consistent, DoneWhenTold, BeforeDatabase
<1>5. Calls[r] = CallOf(req[r])  BY DEF Calls
<1>6. CallOf(req'[r]) = [CallOf(req[r]) EXCEPT !.effective = TRUE]
  <2> DEFINE q == req[r]
             p == req'[r]
  <2>1. p.at = "reply"  BY <1>1, <1>2 DEF Commits, RequestRecords
  <2>2. p.op = q.op /\ p.order = q.order /\ p.floor = q.floor
    BY <1>1, <2>1, QuestionStays DEF HandlerActions, HandlerStep,
       EntersDatabase
  <2>3. p.done = TRUE
    <3>1. p = [req[r] EXCEPT !.at = "reply", !.done = TRUE, !.result = "ok"]
      BY <1>1 DEF Commits
    <3>. QED  BY <1>2, <3>1 DEF RequestRecords
  <2> HIDE DEF p
  <2>4. ASSUME NEW t, p.done = t
        PROVE  CallOf(p) = [CallOf(q) EXCEPT !.effective = t]
    <3>1. CallOf(p) = [op |-> q.op, order |-> q.order, floor |-> q.floor,
                       effective |-> t, answer |-> "none", seen |-> 0]
      BY <2>1, <2>2, <2>4 DEF CallOf
    <3>2. CallOf(q) = [op |-> q.op, order |-> q.order, floor |-> q.floor,
                       effective |-> q.done, answer |-> "none", seen |-> 0]
      BY <1>2 DEF CallOf
    <3>. QED  BY <3>1, <3>2, SetEffective
  <2>. QED  BY <2>3, <2>4, Zenon DEF p
<1>7. Calls' = [Calls EXCEPT ![r].effective = TRUE]
  BY <1>1, <1>5, <1>6, OneCallChanges DEF HandlerActions, HandlerStep,
     EntersDatabase
<1>8. /\ Calls[r] # Store!NoCall /\ Calls[r].answer = "none"
      /\ ~Calls[r].effective
      /\ Calls[r].op = req[r].op /\ Calls[r].order = req[r].order
  BY <1>2, <1>4, <1>5, BusyCall DEF Store!NoCall
<1>9. /\ Applicable(req[r].op, req[r].order) /\ limbo' = limbo
      /\ row' = [row EXCEPT ![req[r].order] = @ + 1]
  BY DEF Commits
<1>. QED
  BY <1>7, <1>8, <1>9
  DEF Store!TakeEffect, Store!Unanswered, Store!Applicable, Applicable, Calls

(* What a handler has found justifies its answer.                          *)
LEMMA AnswerIsJustified ==
  ASSUME NEW q \in RequestRecords, row \in [Orders -> Nat], q.at = "answer",
         q.result # "bad", Consistent(q), DoneWhenTold(q), InTable(q, row),
         NEW c, c.op = q.op, c.order = q.order, c.floor = q.floor,
         c.effective = q.done
  PROVE  /\ q.result \in {"ok", "current", "cached", "notfound", "error"}
         /\ q.seen \in 0..row[q.order]
         /\ Store!Justified(q.result, q.seen, c)
<1> USE DEF RequestRecords, Consistent, BeforeDatabase, DoneWhenTold, InTable
<1>1. q.result \in {"ok", "current", "cached", "notfound", "error"}
  BY DEF Results
<1>2. /\ q.seen \in Nat /\ q.floor \in Nat /\ row[q.order] \in Nat
      /\ q.floor <= row[q.order] /\ q.seen <= row[q.order]
  OBVIOUS
<1>3. CASE q.result = "ok"
  BY <1>3 DEF Store!Justified
<1>4. CASE q.result = "current"
  BY <1>2, <1>4 DEF Store!Justified
<1>5. CASE q.result = "cached"
  BY <1>2, <1>5 DEF Store!Justified
<1>6. CASE q.result = "notfound"
  BY <1>6 DEF Store!Justified
<1>7. CASE q.result = "error"
  BY <1>7 DEF Store!Justified
<1>. QED  BY <1>1, <1>2, <1>3, <1>4, <1>5, <1>6, <1>7

LEMMA AnswerIsAnswer ==
  ASSUME ApiInv, NEW r \in Requests,
         CacheHit(r) \/ Returns(r) \/ FailsFast(r) \/ Throws(r)
  PROVE  Store!Answer(r)
<1> DEFINE q == req[r]
           p == req'[r]
<1>1. req \in [Requests -> RequestRecords \union {Idle}] /\ ApiTypeOK
  BY DEF ApiInv, ApiTypeOK
<1>2. q \in RequestRecords /\ q.at \notin {"idle", "answer"}
  BY <1>1, RequestIsTyped
  DEF CacheHit, Returns, FailsFast, Throws, AtDatabase
<1>3. Consistent(q)
  BY <1>2 DEF ApiInv, RequestsConsistent, Busy
<1>4. p.at = "answer" /\ p.result # "bad" /\ p.done = q.done /\ row' = row
  <2> USE <1>1, <1>2 DEF RequestRecords, storageVars
  <2>1. CASE CacheHit(r)  BY <2>1 DEF CacheHit
  <2>2. CASE Returns(r)  BY <2>2, <1>3 DEF Returns, Consistent
  <2>3. CASE FailsFast(r)  BY <2>3 DEF FailsFast
  <2>4. CASE Throws(r)  BY <2>4 DEF Throws
  <2>. QED  BY <2>1, <2>2, <2>3, <2>4
<1>5. HandlerActions(r) /\ ApiInv'
  BY ApiInvStep DEF HandlerActions, ApiNext, HandlerStep, EntersDatabase
<1>6. /\ p \in RequestRecords /\ p.op = q.op /\ p.order = q.order
      /\ p.floor = q.floor
  BY <1>1, <1>4, <1>5, QuestionStays
<1>7. Consistent(p) /\ DoneWhenTold(p) /\ InTable(p, row)
  BY <1>4, <1>5 DEF ApiInv, RequestsConsistent, RequestsDone, RequestsInTable,
     Busy
<1>8. /\ Calls[r] # Store!NoCall /\ Calls[r].answer = "none"
      /\ Calls[r].op = q.op /\ Calls[r].order = q.order
      /\ Calls[r].floor = q.floor /\ Calls[r].effective = q.done
  BY <1>2, BusyCall DEF Store!NoCall, Calls
<1>9. /\ p.result \in {"ok", "current", "cached", "notfound", "error"}
      /\ p.seen \in 0..row[q.order]
      /\ Store!Justified(p.result, p.seen, Calls[r])
  <2>1. row \in [Orders -> Nat]  BY <1>1 DEF ApiTypeOK
  <2>. QED  BY <2>1, <1>4, <1>6, <1>7, <1>8, AnswerIsJustified
<1>10. CallOf(p) = [CallOf(q) EXCEPT !.answer = p.result, !.seen = p.seen]
  <2>1. CallOf(p) = [op |-> q.op, order |-> q.order, floor |-> q.floor,
                     effective |-> q.done, answer |-> p.result,
                     seen |-> p.seen]
    BY <1>4, <1>6, Zenon DEF CallOf
  <2>2. CallOf(q) = [op |-> q.op, order |-> q.order, floor |-> q.floor,
                     effective |-> q.done, answer |-> "none", seen |-> 0]
    BY <1>2 DEF CallOf
  <2> DEFINE before == CallOf(q)
             after == CallOf(p)
  <2> HIDE DEF before, after
  <2>3. after = [before EXCEPT !.answer = p.result, !.seen = p.seen]
    <3> DEFINE op == q.op
               o == q.order
               f == q.floor
               e == q.done
               a == "none"
               z == 0
               told == p.result
               seen == p.seen
    <3>1. /\ after = [op |-> op, order |-> o, floor |-> f, effective |-> e,
                      answer |-> told, seen |-> seen]
          /\ before = [op |-> op, order |-> o, floor |-> f, effective |-> e,
                       answer |-> a, seen |-> z]
      BY <2>1, <2>2 DEF before, after
    <3> HIDE DEF op, o, f, e, a, z, told, seen, p, q
    <3> DEFINE mid == [before EXCEPT !.answer = told]
    <3>2. [before EXCEPT !.answer = told, !.seen = seen]
            = [mid EXCEPT !.seen = seen]
      OBVIOUS
    <3> HIDE DEF mid
    <3>3. mid = [op |-> op, order |-> o, floor |-> f, effective |-> e,
                 answer |-> told, seen |-> z]
      BY <3>1 DEF mid
    <3>4. [mid EXCEPT !.seen = seen] = after  BY <3>1, <3>3
    <3>5. after = [before EXCEPT !.answer = told, !.seen = seen]
      BY <3>2, <3>4
    <3>. QED  BY <3>5 DEF told, seen
  <2>. QED  BY <2>3 DEF before, after
<1>11. Calls' = [Calls EXCEPT ![r].answer = p.result, ![r].seen = p.seen]
  <2>1. Calls' = [Calls EXCEPT ![r] = CallOf(p)]
    BY <1>1, <1>5, OneCallChanges
  <2>. QED  BY <1>10, <2>1 DEF Calls
<1>12. \/ UNCHANGED limbo
       \/ /\ p.result = "error" /\ ~q.done /\ q.op # "read"
          /\ limbo' = [limbo EXCEPT ![[op |-> q.op, order |-> q.order]] = @ + 1]
  <2>1. CASE CacheHit(r) \/ Returns(r) \/ FailsFast(r)
    BY <2>1 DEF CacheHit, Returns, FailsFast, storageVars
  <2>2. CASE Throws(r)
    <3>1. p.result = "error"  BY <1>1, <1>2, <2>2 DEF Throws, RequestRecords
    <3>2. q.at = "exec" => ~q.done
      BY <1>2, <1>3 DEF ApiInv, RequestsDone, Busy, Consistent, DoneWhenTold,
         BeforeDatabase
    <3>. QED  BY <2>2, <3>1, <3>2, Zenon DEF Throws, LimboWith, Write
  <2>. QED  BY <2>1, <2>2
<1>13. Calls'[r] # Calls[r]
  <2>1. CallOf(p).answer # "none"
    BY <1>4, <1>7, BusyCall DEF Consistent, BeforeDatabase
  <2>2. CallOf(q).answer = "none"  BY <1>2, BusyCall
  <2>. QED  BY <2>1, <2>2 DEF Calls
<1> HIDE DEF p, q
<1>. QED
  BY <1>4, <1>8, <1>9, <1>11, <1>12, <1>13
  DEF Store!Answer, Store!Unanswered, Store!Undecided, Store!WriteOf, Calls

LEMMA RespondIsClose ==
  ASSUME ApiInv, NEW r \in Requests, Respond(r)
  PROVE  Store!Close(r)
<1>1. req \in [Requests -> RequestRecords \union {Idle}] /\ ApiTypeOK
  BY DEF ApiInv, ApiTypeOK
<1>2. req[r].at = "answer" /\ UNCHANGED <<row, limbo>>
  BY DEF Respond, storageVars
<1>3. Consistent(req[r])
  BY <1>2 DEF ApiInv, RequestsConsistent, Busy
<1>4. Calls[r] # Store!NoCall /\ Calls[r].answer # "none"
  BY <1>2, <1>3, BusyCall DEF Consistent, BeforeDatabase, Store!NoCall, Calls
<1>5. CallOf(req'[r]) = Store!NoCall
  <2>1. req'[r] = Idle  BY <1>1 DEF Respond
  <2>. QED  BY <2>1 DEF CallOf, Idle, Store!NoCall
<1>6. Calls' = [Calls EXCEPT ![r] = Store!NoCall]
  BY <1>1, <1>5, OneCallChanges DEF HandlerActions, HandlerStep, EntersDatabase
<1>. QED  BY <1>2, <1>4, <1>6 DEF Store!Close, Calls

LEMMA SameCardinality ==
  ASSUME NEW S PROVE Store!Cardinality(S) = Cardinality(S)
BY Zenon DEF Store!Cardinality, Cardinality

(* Only the statement that holds the mutex can still be executed.          *)
LEMMA EndIsDie ==
  ASSUME ApiInv, ProcessEnds
  PROVE  Store!Die
<1> DEFINE sent(r) == req[r].at = "exec" /\ req[r].op # "read"
           left == {r \in Requests : dbLock = r /\ sent(r)}
           added(w) == {r \in left : Store!WriteOf(r) = w}
           number == [w \in Writes |-> Cardinality(added(w))]
<1>1. row' = row /\ ApiTypeOK
  BY DEF ProcessEnds, ApiInv
<1>2. Calls' = [r \in Requests |-> Store!NoCall]
  <2>1. \A r \in Requests : CallOf(req'[r]) = Store!NoCall
    BY DEF ProcessEnds, CallOf, Idle, Store!NoCall
  <2>. QED  BY <2>1 DEF Calls
<1>3. ASSUME NEW r \in Requests, sent(r)
      PROVE  Store!Undecided(r) /\ Store!WriteOf(r) = Write(r)
  <2>1. req[r] \in RequestRecords
    BY <1>1, <1>3, RequestIsTyped
  <2>2. Consistent(req[r]) /\ DoneWhenTold(req[r])
    BY <1>3 DEF ApiInv, RequestsConsistent, RequestsDone, Busy
  <2>3. ~req[r].done
    BY <1>3, <2>2 DEF Consistent, DoneWhenTold, BeforeDatabase
  <2>4. /\ Calls[r] # Store!NoCall /\ Calls[r].answer = "none"
        /\ ~Calls[r].effective
        /\ Calls[r].op = req[r].op /\ Calls[r].order = req[r].order
    BY <1>3, <2>3, BusyCall DEF Store!NoCall, Calls
  <2>. QED
    BY <1>3, <2>4
    DEF Store!Undecided, Store!Unanswered, Store!WriteOf, Calls, Write
<1>4. left \in SUBSET {r \in Requests : Store!Undecided(r)}
  BY <1>3
<1>5. limbo' = [w \in Writes |-> limbo[w] + number[w]]
  <2>1. limbo \in [Writes -> Nat]  BY <1>1 DEF ApiTypeOK
  <2>2. CASE left = {}
    <3>1. limbo' = limbo
      <4>1. dbLock = NoRequest \/ (dbLock \in Requests /\ ~sent(dbLock))
        BY <1>1, <2>2 DEF ApiTypeOK
      <4>. QED  BY <4>1, Zenon DEF ProcessEnds, LimboWith
    <3>2. \A w \in Writes : added(w) = {}  BY <2>2
    <3>3. \A w \in Writes : number[w] = 0  BY <3>2, FS_EmptySet
    <3> HIDE DEF number
    <3>. QED  BY <2>1, <3>1, <3>3
  <2>3. CASE left # {}
    <3>1. /\ dbLock \in Requests /\ dbLock # NoRequest
          /\ sent(dbLock) /\ left = {dbLock}
      BY <2>3, ApiAssumption
    <3>2. limbo' = [limbo EXCEPT ![Write(dbLock)] = @ + 1]
      BY <3>1, Zenon DEF ProcessEnds, LimboWith
    <3>3. Store!WriteOf(dbLock) = Write(dbLock)  BY <1>3, <3>1
    <3>4. \A w \in Writes :
             added(w) = IF w = Write(dbLock) THEN {dbLock} ELSE {}
      BY <3>1, <3>3
    <3>5. Cardinality({dbLock}) = 1 /\ Cardinality({}) = 0
      BY FS_EmptySet, FS_Singleton
    <3>6. \A w \in Writes :
             number[w] = IF w = Write(dbLock) THEN 1 ELSE 0
      BY <3>4, <3>5
    <3> HIDE DEF number
    <3>7. \A w \in Writes : limbo'[w] = limbo[w] + number[w]
      BY <2>1, <3>2, <3>6
    <3>8. limbo' = [w \in Writes |-> limbo'[w]]  BY <2>1, <3>2
    <3>. QED  BY <3>7, <3>8
  <2>. QED  BY <2>2, <2>3
<1> DEFINE those(w) == {c \in left : Store!WriteOf(c) = w}
<1>6. \A w \in Writes : number[w] = Store!Cardinality(those(w))
  BY SameCardinality
<1>7. limbo' = [w \in Store!Writes |-> limbo[w] + Store!Cardinality(those(w))]
  <2> HIDE DEF number, those
  <2>. QED  BY <1>5, <1>6 DEF Store!Writes, Writes
<1> HIDE DEF left
<1>. QED
  BY <1>1, <1>2, <1>4, <1>7 DEF Store!Die, Calls

LEMMA LimboIsStray ==
  ASSUME NEW w \in Writes, ResolveLimbo(w)
  PROVE  Store!ResolveStray(w)
<1>1. UNCHANGED Calls  BY DEF ResolveLimbo, Calls
<1>. QED
  BY <1>1 DEF ResolveLimbo, Store!ResolveStray, Store!Applicable, Applicable,
     Calls

LEMMA StoreStep ==
  ASSUME ApiInv, [ApiNext]_apiVars
  PROVE  [Store!Next]_<<row, Calls, limbo>>
<1>1. CASE UNCHANGED <<row, req, limbo>>
  BY <1>1 DEF Calls
<1>2. CASE ProcessEnds
  BY <1>2, EndIsDie DEF Store!Next
<1>3. ASSUME NEW w \in Writes, ResolveLimbo(w)
      PROVE  Store!Next
  BY <1>3, LimboIsStray DEF Store!Next, Store!Writes, Writes
<1>4. ASSUME NEW r \in Requests, AcceptStep(r)
      PROVE  Store!Next
  BY <1>4, AcceptIsOpen DEF Store!Next, Store!Ops, Ops
<1>5. ASSUME NEW r \in Requests, HandlerActions(r)
      PROVE  [Store!Next]_<<row, Calls, limbo>>
  <2>1. CASE Commits(r)  BY <2>1, CommitIsEffect DEF Store!Next
  <2>2. CASE CacheHit(r) \/ Returns(r) \/ FailsFast(r) \/ Throws(r)
    BY <2>2, AnswerIsAnswer DEF Store!Next
  <2>3. CASE Respond(r)  BY <2>3, RespondIsClose DEF Store!Next
  <2>4. CASE \/ FallBack(r) \/ TakeLock(r) \/ Reopens(r) \/ WritesNothing(r)
             \/ Selects(r) \/ Rejects(r) \/ ClientGivesUp(r)
    BY <2>4, HiddenStep
  <2>. QED  BY <1>5, <2>1, <2>2, <2>3, <2>4
  DEF HandlerActions, HandlerStep, EntersDatabase
<1>6. CASE ApiNext /\ ~ProcessEnds
  <2>1. CASE \/ Start \/ ConnectDb \/ ConnectRedis \/ AttemptFails \/ Signal
             \/ LateSendFails \/ ConnectionChanges
             \/ \E o \in Orders : CacheChanges(o)
    BY <1>1, <2>1
    DEF Start, ConnectDb, ConnectRedis, AttemptFails, Signal, LateSendFails,
        ConnectionChanges, CacheChanges, storageVars
  <2>. QED
    BY <1>3, <1>4, <1>5, <1>6, <2>1
    DEF ApiNext, MainStep, AcceptStep, HandlerActions, GiveUp, Crash,
        SignalAtStartup, Exit
<1>. QED  BY <1>1, <1>2, <1>6 DEF apiVars, storageVars

(* The API implements the order store, whatever becomes of its threads,    *)
(* its connections and its process.                                        *)
THEOREM StoreIsImplemented == ApiSpec => StoreSpec
<1>1. ApiInv /\ [ApiNext]_apiVars => [Store!Next]_<<row, Calls, limbo>>
  BY StoreStep
<1>2. ApiInv /\ [ApiNext]_apiVars => [Store!Next]_(Store!storeVars)
  BY <1>1 DEF Store!storeVars, Calls
<1>. QED
  BY <1>2, StoreInit, ApiInvariant, PTL DEF ApiSpec, StoreSpec, Store!Spec
----------------------------------------------------------------------------
(* The cache *)

(* Of the table and the cache a step changes one order in one of them.     *)
LEMMA ContractStep ==
  ASSUME ApiTypeOK, [ApiNext]_apiVars
  PROVE  [Contract!Next]_(Contract!cacheVars)
<1>1. CASE \E o \in Orders : CacheChanges(o)
  BY <1>1 DEF CacheChanges, Contract!Next, Contract!Refresh
<1>2. CASE \E w \in Writes : ResolveLimbo(w)
  BY <1>2 DEF ResolveLimbo, ApiTypeOK, Writes, Contract!Next, Contract!Write,
              Contract!cacheVars
<1>3. CASE \E r \in Requests : Commits(r)
  <2>1. PICK r \in Requests : Commits(r)  BY <1>3
  <2>2. req[r].order \in Orders
    BY <2>1, RequestIsTyped DEF Commits, InPostgres, RequestRecords
  <2>. QED  BY <2>1, <2>2 DEF Commits, Contract!Next, Contract!Write
<1>4. CASE row' = row /\ cache' = cache
  BY <1>4 DEF Contract!cacheVars
<1>5. ASSUME NEW r \in Requests,
             \/ \E op \in Ops, o \in Orders :
                   \/ \E client \in {"worker", "other"} : Accept(r, op, o, client)
                   \/ AcceptBad(r, op, o)
             \/ EntersDatabase(r) \/ HandlerStep(r) \/ ClientGivesUp(r)
      PROVE  Commits(r) \/ (row' = row /\ cache' = cache)
  BY <1>5
  DEF HandlerStep, EntersDatabase, Accept, AcceptBad, TakeLock, Reopens,
      FailsFast, CacheHit, FallBack, WritesNothing, Selects, Rejects, Returns,
      Throws, Respond, ClientGivesUp, storageVars
<1>6. ASSUME MainStep \/ LateSendFails \/ ConnectionChanges \/ UNCHANGED apiVars
      PROVE  row' = row /\ cache' = cache
  BY <1>6
  DEF MainStep, Start, ConnectDb, ConnectRedis, AttemptFails, GiveUp, Crash,
      Signal, SignalAtStartup, Exit, ProcessEnds, LateSendFails,
      ConnectionChanges, apiVars, storageVars
<1>. QED  BY <1>1, <1>2, <1>3, <1>4, <1>5, <1>6 DEF ApiNext

(* The table and the cache of the API take the steps of OrderCache only.   *)
THEOREM ApiKeepsContract == ApiSpec => CacheContract
<1>1. ApiInit => Contract!Init
  BY DEF ApiInit, Contract!Init
<1>2. ApiTypeOK /\ [ApiNext]_apiVars => [Contract!Next]_(Contract!cacheVars)
  BY ContractStep
<1>. QED
  BY ApiTypeCorrect, <1>1, <1>2, PTL DEF ApiSpec, CacheContract, Contract!Spec
=============================================================================
