----------------------------- MODULE OrderStore -----------------------------
(***************************************************************************)
(* What the order API promises a client, free of threads, locks, sockets   *)
(* and transactions.  An order is a register that is written once by the   *)
(* POST that creates it and then by PATCHes; only the number of its writes *)
(* (its version, 0: no such order) matters here.                           *)
(*                                                                         *)
(* A call that is told "ok" took effect, once, while it was open.  "error" *)
(* tells nothing: the write may have taken effect, may still do so, or     *)
(* never will, and so it is when the server dies under an open call.  A    *)
(* GET answered from the table sees every write that was answered before   *)
(* it was sent; one answered from the cache sees a version the order has   *)
(* had.  ApiServer is shown to implement this specification.               *)
(***************************************************************************)
EXTENDS Naturals, FiniteSets

CONSTANTS
    Orders,    \* order ids
    Callers    \* calls that can be open at a time

VARIABLES
    version,   \* version of each order
    call,      \* the call each caller has open
    stray      \* how many of each write have callers that were not told what
               \* became of it

storeVars == <<version, call, stray>>

Ops == {"create", "update", "read"}
Writes == [op : {"create", "update"}, order : Orders]
NoCall == [op |-> "none"]

Init ==
    /\ version = [o \in Orders |-> 0]
    /\ call = [c \in Callers |-> NoCall]
    /\ stray = [w \in Writes |-> 0]

NewCall(op, o, answer) ==
    [op |-> op, order |-> o, floor |-> version[o], effective |-> FALSE,
     answer |-> answer, seen |-> 0]

(* A call may be turned down at once. *)
Open(c, op, o) ==
    /\ call[c] = NoCall
    /\ call'[c] # NoCall
    /\ \E answer \in {"none", "bad"} :
          call' = [call EXCEPT ![c] = NewCall(op, o, answer)]
    /\ UNCHANGED <<version, stray>>

Unanswered(c) == call[c] # NoCall /\ call[c].answer = "none"

(* A create finds no order, an update finds one. *)
Applicable(op, o) ==
    \/ op = "create" /\ version[o] = 0
    \/ op = "update" /\ version[o] > 0

WriteOf(c) == [op |-> call[c].op, order |-> call[c].order]

(* A write that has not taken effect may still do so. *)
Undecided(c) == Unanswered(c) /\ ~call[c].effective /\ call[c].op # "read"

TakeEffect(c) ==
    /\ Unanswered(c)
    /\ ~call[c].effective
    /\ Applicable(call[c].op, call[c].order)
    /\ version' = [version EXCEPT ![call[c].order] = @ + 1]
    /\ call' = [call EXCEPT ![c].effective = TRUE]
    /\ UNCHANGED stray

(* What a call may be told, and the version it is shown.                   *)
Justified(told, seen, c) ==
    \/ told = "ok" /\ c.op # "read" /\ c.effective
    \/ /\ told = "current"
       /\ c.op = "read"
       /\ seen \in c.floor..version[c.order]
       /\ seen > 0
    \/ told = "cached" /\ c.op = "read" /\ seen \in 1..version[c.order]
    \/ told = "notfound" /\ c.op # "create" /\ c.floor = 0 /\ ~c.effective
    \/ told = "error"

Answer(c) ==
    /\ Unanswered(c)
    /\ call'[c] # call[c]
    /\ \E told \in {"ok", "current", "cached", "notfound", "error"},
          seen \in 0..version[call[c].order] :
          /\ Justified(told, seen, call[c])
          /\ call' = [call EXCEPT ![c].answer = told, ![c].seen = seen]
          /\ \/ UNCHANGED stray
             \/ /\ told = "error"
                /\ Undecided(c)
                /\ stray' = [stray EXCEPT ![WriteOf(c)] = @ + 1]
    /\ UNCHANGED version

(* An answer is delivered. *)
Close(c) ==
    /\ call[c] # NoCall
    /\ call[c].answer # "none"
    /\ call' = [call EXCEPT ![c] = NoCall]
    /\ UNCHANGED <<version, stray>>

(* The server dies, and any of the open writes with it. *)
Die ==
    /\ call' = [c \in Callers |-> NoCall]
    /\ \E left \in SUBSET {c \in Callers : Undecided(c)} :
          stray' = [w \in Writes |->
                       stray[w] + Cardinality({c \in left : WriteOf(c) = w})]
    /\ UNCHANGED version

ResolveStray(w) ==
    /\ stray[w] > 0
    /\ stray' = [stray EXCEPT ![w] = @ - 1]
    /\ UNCHANGED call
    /\ \/ UNCHANGED version
       \/ /\ Applicable(w.op, w.order)
          /\ version' = [version EXCEPT ![w.order] = @ + 1]

Next ==
    \/ \E c \in Callers :
          \/ \E op \in Ops, o \in Orders : Open(c, op, o)
          \/ TakeEffect(c) \/ Answer(c) \/ Close(c)
    \/ Die
    \/ \E w \in Writes : ResolveStray(w)

Spec == Init /\ [][Next]_storeVars
=============================================================================
