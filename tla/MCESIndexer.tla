---------------------------- MODULE MCESIndexer ----------------------------
(* Instances of ESIndexer for TLC.                                         *)
EXTENDS ESIndexer

CONSTANT o1

OneOrder == {o1}
MCStatuses == {"CREATED", "SHIPPED"}
MCMessages == FeedMessages
=============================================================================
