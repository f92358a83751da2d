----------------------------- MODULE MCNotifier -----------------------------
(* Instances of Notifier for TLC.                                          *)
EXTENDS Notifier

CONSTANT o1

OneOrder == {o1}
MCStatuses == {"CREATED", "SHIPPED"}
MCNotified == {"SHIPPED"}
MCMessages == FeedMessages
=============================================================================
