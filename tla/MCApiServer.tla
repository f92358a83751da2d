---------------------------- MODULE MCApiServer ----------------------------
(* Instances of ApiServer for TLC.                                         *)
EXTENDS ApiServer

CONSTANTS o1, r1, r2

OneOrder == {o1}
TwoThreads == {r1, r2}
=============================================================================
