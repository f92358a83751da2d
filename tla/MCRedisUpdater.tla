--------------------------- MODULE MCRedisUpdater ---------------------------
(* Instances of RedisUpdater for TLC.                                      *)
EXTENDS RedisUpdater

CONSTANT o1

OneOrder == {o1}
MCStatuses == {"CREATED", "SHIPPED"}
MCMessages == FeedMessages
=============================================================================
