----------------------------- MODULE OrderCache -----------------------------
(***************************************************************************)
(* Where the API and the cache updater meet, who never talk to each other: *)
(* orders are written, and whatever is cached of an order is a version it  *)
(* has had, or nothing (0).  How old the version is, and whether it ever   *)
(* gets newer, is left open: keys expire, Redis restarts, consumers lag.   *)
(*                                                                         *)
(* ApiServer takes no more than this for granted of the cache that GETs    *)
(* are answered from (api_server.cpp:88), and RedisUpdater grants it; both *)
(* are shown to implement this specification.                              *)
(***************************************************************************)
EXTENDS Naturals

CONSTANT Orders  \* order ids

VARIABLES
    version,  \* how often each order was written
    cached    \* the version of each order in the cache, 0: none

cacheVars == <<version, cached>>

Init ==
    /\ version = [o \in Orders |-> 0]
    /\ cached = [o \in Orders |-> 0]

Write(o) ==
    /\ version' = [version EXCEPT ![o] = @ + 1]
    /\ UNCHANGED cached

Refresh(o) ==
    /\ \E v \in 0..version[o] : cached' = [cached EXCEPT ![o] = v]
    /\ UNCHANGED version

Next == \E o \in Orders : Write(o) \/ Refresh(o)

Spec == Init /\ [][Next]_cacheVars
=============================================================================
