------------------------ MODULE ConsumerMain_proofs ------------------------
(***************************************************************************)
(* Proofs about ConsumerMain for any number of consumers and passes.       *)
(***************************************************************************)
EXTENDS ConsumerMain, TLAPS

Unfinished == {"created", "run"}

(* No thread exists before launch; while main joins, the threads it has    *)
(* passed have ended; when it has exited, all of them have.                *)
StageInv ==
    /\ mainPc = "startup" => \A c \in Consumers : thread[c] = "none"
    /\ mainPc \notin {"startup", "exited"} => built = N
    /\ mainPc = "join" =>
          \A c \in Consumers : c < next => thread[c] \notin Unfinished
    /\ mainPc = "exited" => \A c \in Consumers : thread[c] \notin Unfinished

MainInv == MainTypeOK /\ StageInv

LEMMA MainInvInit == MainInit => MainInv
<1> SUFFICES ASSUME MainInit PROVE MainInv
  OBVIOUS
<1>1. /\ mainPc \in MainStages
      /\ attempt \in 1..MaxAttempts
      /\ built \in 0..N
      /\ next \in Consumers
  BY MainAssumption DEF MainInit, MainStages, Consumers
<1>2. thread \in [Consumers -> {"none", "created", "run"} \union Ended]
  BY DEF MainInit, Ended
<1>3. /\ running \in [Consumers -> BOOLEAN]
      /\ shutdown \in BOOLEAN
      /\ inFullRun \in BOOLEAN
  BY Zenon DEF MainInit
<1>4. StageInv
  BY DEF MainInit, StageInv
<1> QED  BY <1>1, <1>2, <1>3, <1>4 DEF MainInv, MainTypeOK

(* main's own steps: the startup loop, launching, stopping and joining.    *)
LEMMA MainStepKeepsInv == MainInv /\ MainStep => MainInv'
<1> SUFFICES ASSUME MainInv, MainStep PROVE MainInv'
  OBVIOUS
<1> USE MainAssumption DEF MainInv, MainTypeOK, StageInv, Consumers, Ended,
        MainStages, Unfinished
<1>1. CASE Build
  BY <1>1 DEF Build
<1>2. CASE BuildFails
  BY <1>2 DEF BuildFails
<1>3. CASE StartupDone
  BY <1>3 DEF StartupDone
<1>4. CASE Launch
  BY <1>4 DEF Launch, Advance
<1>5. CASE WaitEnds
  BY <1>5 DEF WaitEnds
<1>6. CASE StopNext
  BY <1>6 DEF StopNext, Advance
<1>7. CASE JoinNext
  <2>1. /\ mainPc = "join"
        /\ thread[next] \in Ended
        /\ UNCHANGED <<attempt, built, thread, running, shutdown, inFullRun>>
    BY <1>7 DEF JoinNext
  <2>2. \A c \in Consumers : c <= next => thread[c] \notin Unfinished
    BY <2>1
  <2>3. CASE next = N
    <3>1. mainPc' = "exited" /\ next' = 1
      BY <1>7, <2>3 DEF JoinNext, Advance
    <3> QED  BY <2>1, <2>2, <2>3, <3>1
  <2>4. CASE next # N
    <3>1. mainPc' = "join" /\ next' = next + 1
      BY <1>7, <2>1, <2>4 DEF JoinNext, Advance
    <3> QED  BY <2>1, <2>2, <2>4, <3>1
  <2> QED  BY <2>3, <2>4
<1> QED
  BY <1>1, <1>2, <1>3, <1>4, <1>5, <1>6, <1>7 DEF MainStep

(* A thread only starts Run when main has launched it, and none does once  *)
(* main is past it.                                                        *)
LEMMA ThreadKeepsInv ==
    ASSUME MainInv, NEW c \in Consumers,
           RunStarts(c) \/ RunReturns(c) \/ RunThrows(c)
    PROVE  MainInv'
<1> USE MainAssumption DEF MainInv, MainTypeOK, StageInv, Consumers, Ended,
        MainStages, Unfinished
<1>1. CASE RunStarts(c)
  BY <1>1 DEF RunStarts
<1>2. CASE RunReturns(c)
  BY <1>2 DEF RunReturns
<1>3. CASE RunThrows(c)
  BY <1>3 DEF RunThrows
<1> QED  BY <1>1, <1>2, <1>3

LEMMA SignalKeepsInv == MainInv /\ SignalHandler => MainInv'
BY MainAssumption DEF SignalHandler, MainInv, MainTypeOK, StageInv, Consumers,
   Ended, MainStages, Unfinished

LEMMA MainInvariant == MainSpec => []MainInv
<1>1. MainInv /\ UNCHANGED mainVars => MainInv'
  BY DEF mainVars, MainInv, MainTypeOK, StageInv, Consumers, Ended,
         MainStages, Unfinished
<1>2. MainInv /\ [MainNext]_mainVars => MainInv'
  BY <1>1, MainStepKeepsInv, ThreadKeepsInv, SignalKeepsInv DEF MainNext
<1> QED  BY MainInvInit, <1>2, PTL DEF MainSpec

(* Every variable of main keeps its type (MainTypeOK).                     *)
THEOREM MainTypeCorrect == MainSpec => []MainTypeOK
<1>1. MainInv => MainTypeOK
  BY DEF MainInv
<1> QED  BY <1>1, MainInvariant, PTL

(* main never leaves the scope that owns the consumers while a thread that *)
(* uses them is alive (main.cpp:76-115): whatever the moment of the signal,*)
(* the failures of the startup loop and the deaths of threads.             *)
THEOREM ScopeOutlivesThreads == MainSpec => []NoThreadOutlivesMain
<1>1. MainInv => NoThreadOutlivesMain
  BY DEF MainInv, StageInv, NoThreadOutlivesMain, Unfinished
<1> QED  BY <1>1, MainInvariant, PTL
----------------------------------------------------------------------------
(* Signals and stops *)

(* main stops nobody before a signal; a signal that found every thread in  *)
(* Run leaves none to begin Run later, so that a running_ that Stop has    *)
(* cleared stays cleared.                                                  *)
StopInv ==
    /\ mainPc \in {"stop", "join"} => shutdown
    /\ mainPc \in {"startup", "wait"} => next = 1
    /\ mainPc = "launch" =>
          \A c \in Consumers : c >= next => thread[c] = "none"
    /\ inFullRun =>
          /\ shutdown
          /\ \A c \in Consumers : thread[c] \in {"run"} \union Ended
    /\ inFullRun /\ mainPc = "stop" =>
          \A c \in Consumers : c < next => ~running[c]
    /\ inFullRun /\ mainPc = "join" => \A c \in Consumers : ~running[c]

LEMMA StopInvInit == MainInit => StopInv
  BY DEF MainInit, StopInv

LEMMA MainStepKeepsStopInv == MainInv /\ StopInv /\ MainStep => StopInv'
<1> SUFFICES ASSUME MainInv, StopInv, MainStep PROVE StopInv'
  OBVIOUS
<1> USE MainAssumption DEF MainInv, MainTypeOK, StopInv, Consumers, Ended,
        MainStages
<1>1. CASE Build
  BY <1>1 DEF Build
<1>2. CASE BuildFails
  BY <1>2 DEF BuildFails
<1>3. CASE StartupDone
  BY <1>3 DEF StartupDone, StageInv
(* A launch is over before a signal can have found every thread in Run.    *)
<1>4. CASE Launch
  BY <1>4 DEF Launch, Advance, StageInv
<1>5. CASE WaitEnds
  BY <1>5 DEF WaitEnds
<1>6. CASE StopNext
  BY <1>6 DEF StopNext, Advance
<1>7. CASE JoinNext
  BY <1>7 DEF JoinNext, Advance
<1> QED
  BY <1>1, <1>2, <1>3, <1>4, <1>5, <1>6, <1>7 DEF MainStep

LEMMA ThreadKeepsStopInv ==
    ASSUME MainInv, StopInv, NEW c \in Consumers,
           RunStarts(c) \/ RunReturns(c) \/ RunThrows(c)
    PROVE  StopInv'
<1> USE DEF MainInv, MainTypeOK, StopInv, Ended
<1>1. CASE RunStarts(c)
  BY <1>1 DEF RunStarts
<1>2. CASE RunReturns(c)
  BY <1>2 DEF RunReturns
<1>3. CASE RunThrows(c)
  BY <1>3 DEF RunThrows
<1> QED  BY <1>1, <1>2, <1>3

LEMMA SignalKeepsStopInv == MainInv /\ StopInv /\ SignalHandler => StopInv'
  BY DEF SignalHandler, MainInv, MainTypeOK, StopInv, Ended

LEMMA StopInvariant == MainSpec => []StopInv
<1>1. StopInv /\ UNCHANGED mainVars => StopInv'
  BY DEF mainVars, StopInv
<1>2. MainInv /\ StopInv /\ [MainNext]_mainVars => StopInv'
  BY <1>1, MainStepKeepsStopInv, ThreadKeepsStopInv, SignalKeepsStopInv
  DEF MainNext
<1> QED  BY MainInvariant, StopInvInit, <1>2, PTL DEF MainSpec

(* A signal that finds every consumer in Run reaches every one of them     *)
(* (main.cpp:109): however main and the threads interleave afterwards, no  *)
(* Stop is undone by a Run that begins.                                    *)
THEOREM EveryStopIsHeard == MainSpec => []FullRunLosesNoStop
<1>1. StopInv => FullRunLosesNoStop
  BY DEF StopInv, FullRunLosesNoStop, StopWasLost
<1> QED  BY <1>1, StopInvariant, PTL
=============================================================================
