---------------------------- MODULE ConsumerMain ----------------------------
(***************************************************************************)
(* The process of the consumers (consumers/src/main.cpp): main builds the  *)
(* consumers in a retry loop, starts a thread for each, waits for a signal,*)
(* stops them and joins them.  What a thread does inside Run is            *)
(* KafkaConsumerBase; here only running_ counts, which Stop clears and Run *)
(* sets when it begins.                                                    *)
(*                                                                         *)
(* Consumers are numbered in the order main handles them: 1 is ESIndexer,  *)
(* 2 is RedisUpdater, 3 is Notifier.                                       *)
(***************************************************************************)
EXTENDS Naturals

CONSTANTS
    N,           \* consumers; 3
    MaxAttempts  \* passes of the startup loop; 20

ASSUME MainAssumption == N \in Nat \ {0} /\ MaxAttempts \in Nat \ {0}

VARIABLES
    mainPc,     \* where main stands
    attempt,    \* the startup loop's counter
    built,      \* how many consumers exist
    next,       \* the consumer main launches, stops or joins next
    thread,     \* what each consumer's thread has come to
    running,    \* running_ of each consumer
    shutdown,   \* g_shutdown_requested
    inFullRun   \* history: the signal came when every thread was in Run

mainVars == <<mainPc, attempt, built, next, thread, running, shutdown,
              inFullRun>>

Consumers == 1..N
Ended == {"returned", "died"}
MainStages == {"startup", "launch", "wait", "stop", "join", "exited"}

MainInit ==
    /\ mainPc = "startup"
    /\ attempt = 1
    /\ built = 0
    /\ next = 1
    /\ thread = [c \in Consumers |-> "none"]
    /\ running = [c \in Consumers |-> FALSE]
    /\ shutdown = FALSE
    /\ inFullRun = FALSE

----------------------------------------------------------------------------
(* The startup loop.  It does not look at g_shutdown_requested.            *)

Build ==
    /\ mainPc = "startup"
    /\ built < N
    /\ built' = built + 1
    /\ UNCHANGED <<mainPc, attempt, next, thread, running, shutdown, inFullRun>>

(* A constructor throws: what was built is kept, and the 20th failure      *)
(* leaves main with code 1.                                                *)
BuildFails ==
    /\ mainPc = "startup"
    /\ built < N
    /\ IF attempt = MaxAttempts
       THEN mainPc' = "exited" /\ UNCHANGED attempt
       ELSE attempt' = attempt + 1 /\ UNCHANGED mainPc
    /\ UNCHANGED <<built, next, thread, running, shutdown, inFullRun>>

StartupDone ==
    /\ mainPc = "startup"
    /\ built = N
    /\ mainPc' = "launch"
    /\ UNCHANGED <<attempt, built, next, thread, running, shutdown, inFullRun>>

----------------------------------------------------------------------------
(* main goes over the consumers in their order, three times.               *)

(* Mutant of Advance: the last consumer is not the last. *)
AdvancePastEnd(stage) ==
    IF next > N THEN mainPc' = stage /\ next' = 1
                ELSE next' = next + 1 /\ UNCHANGED mainPc

Advance(stage) ==
    IF next = N THEN mainPc' = stage /\ next' = 1
                ELSE next' = next + 1 /\ UNCHANGED mainPc

Launch ==
    /\ mainPc = "launch"
    /\ thread' = [thread EXCEPT ![next] = "created"]
    /\ Advance("wait")
    /\ UNCHANGED <<attempt, built, running, shutdown, inFullRun>>

WaitEnds ==
    /\ mainPc = "wait"
    /\ shutdown
    /\ mainPc' = "stop"
    /\ UNCHANGED <<attempt, built, next, thread, running, shutdown, inFullRun>>

(* Mutant of StopNext: Stop is not called. *)
StopNothing ==
    /\ mainPc = "stop"
    /\ Advance("join")
    /\ UNCHANGED <<attempt, built, thread, running, shutdown, inFullRun>>

StopNext ==
    /\ mainPc = "stop"
    /\ running' = [running EXCEPT ![next] = FALSE]
    /\ Advance("join")
    /\ UNCHANGED <<attempt, built, thread, shutdown, inFullRun>>

(* Mutants of JoinNext: threads left behind, and dead threads waited for. *)
JoinNothing ==
    /\ mainPc = "join"
    /\ Advance("exited")
    /\ UNCHANGED <<attempt, built, thread, running, shutdown, inFullRun>>

JoinReturnedOnly ==
    /\ mainPc = "join"
    /\ thread[next] = "returned"
    /\ Advance("exited")
    /\ UNCHANGED <<attempt, built, thread, running, shutdown, inFullRun>>

JoinNext ==
    /\ mainPc = "join"
    /\ thread[next] \in Ended
    /\ Advance("exited")
    /\ UNCHANGED <<attempt, built, thread, running, shutdown, inFullRun>>

MainStep ==
    \/ Build \/ BuildFails \/ StartupDone
    \/ Launch \/ WaitEnds \/ StopNext \/ JoinNext

----------------------------------------------------------------------------
(* The threads, and the operator *)

RunStarts(c) ==
    /\ thread[c] = "created"
    /\ thread' = [thread EXCEPT ![c] = "run"]
    /\ running' = [running EXCEPT ![c] = TRUE]
    /\ UNCHANGED <<mainPc, attempt, built, next, shutdown, inFullRun>>

RunReturns(c) ==
    /\ thread[c] = "run"
    /\ ~running[c]
    /\ thread' = [thread EXCEPT ![c] = "returned"]
    /\ UNCHANGED <<mainPc, attempt, built, next, running, shutdown, inFullRun>>

(* The thread's catch logs *_crashed and nothing else hears of it.         *)
RunThrows(c) ==
    /\ thread[c] = "run"
    /\ thread' = [thread EXCEPT ![c] = "died"]
    /\ UNCHANGED <<mainPc, attempt, built, next, running, shutdown, inFullRun>>

SignalHandler ==
    /\ mainPc # "exited"
    /\ ~shutdown
    /\ shutdown' = TRUE
    /\ inFullRun' = \A c \in Consumers : thread[c] \in {"run"} \union Ended
    /\ UNCHANGED <<mainPc, attempt, built, next, thread, running>>

MainNext ==
    \/ MainStep
    \/ \E c \in Consumers : RunStarts(c) \/ RunReturns(c) \/ RunThrows(c)
    \/ SignalHandler

MainSpec == MainInit /\ [][MainNext]_mainVars

(* Every thread is scheduled, and a consume() or a retry that Stop finds   *)
(* under way comes to an end.  Nobody has to send a signal.                *)
MainFairness ==
    /\ WF_mainVars(MainStep)
    /\ \A c \in Consumers : WF_mainVars(RunStarts(c) \/ RunReturns(c))

FairMainSpec == MainSpec /\ MainFairness

----------------------------------------------------------------------------
(* Properties *)

(* The values main's variables may take. *)
MainTypeOK ==
    /\ mainPc \in MainStages
    /\ attempt \in 1..MaxAttempts
    /\ built \in 0..N
    /\ next \in Consumers
    /\ thread \in [Consumers -> {"none", "created", "run"} \union Ended]
    /\ running \in [Consumers -> BOOLEAN]
    /\ shutdown \in BOOLEAN
    /\ inFullRun \in BOOLEAN

(* The threads hold references to the consumers, which main's scope owns:  *)
(* a thread that has started Run, or is about to, finds all the consumers  *)
(* built and main still inside that scope.                                 *)
NoThreadOutlivesMain ==
    \A c \in Consumers :
        thread[c] \in {"created", "run"} => built = N /\ mainPc # "exited"

(* Stop came before Run: Run has set running_ again and nobody clears it.  *)
StopWasLost(c) ==
    /\ mainPc = "join"
    /\ thread[c] = "run"
    /\ running[c]

(* A signal that finds every consumer in Run, or past it, loses no Stop,   *)
(* however the threads and main interleave between the signal and the join.*)
FullRunLosesNoStop == inFullRun => \A c \in Consumers : ~StopWasLost(c)

(* A signal that finds every consumer in Run ends the process, even when   *)
(* some of the threads have died.                                          *)
ShutdownCompletes == inFullRun ~> (mainPc = "exited")

(* Any other signal does so too, unless a Stop overtook the thread it was  *)
(* meant for; then main is stuck in join, and only a SIGKILL helps.        *)
ShutdownUnlessStopLost ==
    shutdown ~> \/ mainPc = "exited"
                \/ \E c \in Consumers : StopWasLost(c)
=============================================================================
