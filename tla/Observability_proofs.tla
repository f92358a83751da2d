------------------------ MODULE Observability_proofs ------------------------
(***************************************************************************)
(* Results about the scripts, the lines and the panels of Observability,   *)
(* for any number of runs and faults: types, what a dashboard refers to,   *)
(* the age of the benchmark files, and what the panels count.              *)
(***************************************************************************)
EXTENDS Observability, TLAPS

(* Every script stands at one of its steps.                                *)
Steps(s) == CASE s = "none" -> {0}
              [] s = "setup" -> 1..Len(DataViews)
              [] s = "build" -> 1..(Len(BuildOrder) + 1)
              [] s = "update" -> {1}
              [] s = "charts" -> 1..Len(ChartSteps)

ScriptTypeOK ==
    /\ script \in Scripts \union {"none"}
    /\ pos \in Steps(script)
    /\ runs \in 0..MaxRuns
    /\ spoiled \in BOOLEAN

KibanaTypeOK ==
    /\ views \subseteq {DataViews[i] : i \in 1..Len(DataViews)}
    /\ vis \subseteq References
    /\ board \in {"none", "built", "text"}
    /\ boardSpoiled \in BOOLEAN

LogTypeOK ==
    /\ received \subseteq Processes
    /\ logstash \in BOOLEAN
    /\ logger \in [Processes -> {"down", "tcp", "console"}]
    /\ faults \in 0..MaxFaults

ChartTypeOK == chart \in [ChartFiles -> 0..MaxRuns]

LEMMA TypeParts ==
  ObsTypeOK <=> ScriptTypeOK /\ KibanaTypeOK /\ LogTypeOK /\ ChartTypeOK
  BY DEF ObsTypeOK, ScriptTypeOK, KibanaTypeOK, LogTypeOK, ChartTypeOK, Steps

LEMMA TypePartsAfter ==
  ASSUME ScriptTypeOK', KibanaTypeOK', LogTypeOK', ChartTypeOK'
  PROVE  ObsTypeOK'
  BY DEF ObsTypeOK, ScriptTypeOK, KibanaTypeOK, LogTypeOK, ChartTypeOK, Steps

LEMMA Lengths ==
  /\ Len(DataViews) = 4 /\ Len(BuildOrder) = 22 /\ Len(ChartSteps) = 11
  BY DEF DataViews, BuildOrder, ChartSteps

LEMMA StepNumbers ==
  /\ Steps("none") = {0} /\ Steps("setup") = 1..4 /\ Steps("build") = 1..23
  /\ Steps("update") = {1} /\ Steps("charts") = 1..11
  BY Lengths DEF Steps

LEMMA ObsTypeInit == ObsInit => ObsTypeOK
<1> SUFFICES ASSUME ObsInit PROVE ObsTypeOK
  OBVIOUS
<1>1. ScriptTypeOK
  <2>1. /\ script = "none" /\ pos = 0 /\ runs = 0
    BY DEF ObsInit
  <2>2. spoiled \in BOOLEAN
    BY Zenon DEF ObsInit
  <2>3. runs \in 0..MaxRuns
    BY <2>1, ObsAssumption
  <2>. QED  BY <2>1, <2>2, <2>3, StepNumbers DEF ScriptTypeOK
<1>2. KibanaTypeOK
  BY DEF ObsInit, KibanaTypeOK
<1>3. LogTypeOK
  <2>1. logger \in [Processes -> {"down", "tcp", "console"}]
    BY DEF ObsInit
  <2>2. logstash \in BOOLEAN
    BY Zenon DEF ObsInit
  <2>3. faults \in 0..MaxFaults /\ received = {}
    BY ObsAssumption DEF ObsInit
  <2>. QED  BY <2>1, <2>2, <2>3 DEF LogTypeOK
<1>4. ChartTypeOK
  BY ObsAssumption DEF ObsInit, ChartTypeOK
<1>. QED  BY <1>1, <1>2, <1>3, <1>4, TypeParts

(* What a script that goes on or ends does to its counters.                *)
LEMMA ScriptGoesOn ==
  ASSUME ScriptTypeOK, script # "none",
         \/ Finish
         \/ Advance /\ pos + 1 \in Steps(script)
         \/ UNCHANGED runVars
         \/ UNCHANGED <<script, runs, spoiled>> /\ pos' \in Steps(script)
  PROVE  ScriptTypeOK'
  BY StepNumbers DEF ScriptTypeOK, Finish, Advance, runVars

LEMMA ViewStep ==
  ASSUME ObsTypeOK, CreateDataView
  PROVE  ObsTypeOK'
<1>1. ScriptTypeOK /\ KibanaTypeOK /\ LogTypeOK /\ ChartTypeOK
  BY TypeParts
<1>2. script = "setup" /\ pos \in 1..4
  BY <1>1, StepNumbers DEF CreateDataView, ScriptTypeOK
<1>3. ScriptTypeOK'
  BY <1>1, <1>2, Lengths, StepNumbers, ScriptGoesOn DEF CreateDataView
<1>4. KibanaTypeOK'
  BY <1>1, <1>2, Lengths DEF CreateDataView, KibanaTypeOK
<1>5. LogTypeOK' /\ ChartTypeOK'
  BY <1>1 DEF CreateDataView, LogTypeOK, ChartTypeOK, logVars
<1>. QED  BY <1>3, <1>4, <1>5, TypePartsAfter

(* What the build saves is referred to.                                    *)
LEMMA SavedIsReferred == \A i \in 1..22 : BuildOrder[i] \in References
  BY DEF BuildOrder, References

LEMMA BuildTypeStep ==
  ASSUME ObsTypeOK, SaveVisualization \/ SaveDashboard \/ UpdateDashboard
  PROVE  ObsTypeOK'
<1>1. ScriptTypeOK /\ KibanaTypeOK /\ LogTypeOK /\ ChartTypeOK
  BY TypeParts
<1>2. ScriptTypeOK'
  BY <1>1, Lengths, StepNumbers, ScriptGoesOn
  DEF SaveVisualization, SaveDashboard, UpdateDashboard
<1>3. KibanaTypeOK'
  BY <1>1, Lengths, SavedIsReferred
  DEF SaveVisualization, SaveDashboard, UpdateDashboard, KibanaTypeOK,
      ScriptTypeOK
<1>4. LogTypeOK' /\ ChartTypeOK'
  BY <1>1 DEF SaveVisualization, SaveDashboard, UpdateDashboard, LogTypeOK,
              ChartTypeOK, logVars
<1>. QED  BY <1>2, <1>3, <1>4, TypePartsAfter

(* The steps of the script that are no query write a chart file.           *)
LEMMA StepsAreFiles ==
  \A i \in 1..11 : i \notin {1, 4} => ChartSteps[i] \in ChartFiles
  BY DEF ChartSteps, ChartFiles

LEMMA ChartTypeStep ==
  ASSUME ObsTypeOK,
         SkipThroughput \/ QueryThroughput \/ QueryPercentiles \/ SaveFile
  PROVE  ObsTypeOK'
<1>1. ScriptTypeOK /\ KibanaTypeOK /\ LogTypeOK /\ ChartTypeOK
  BY TypeParts
<1>2. script = "charts" /\ pos \in 1..11 /\ runs \in 0..MaxRuns
  BY <1>1, StepNumbers
  DEF SkipThroughput, QueryThroughput, QueryPercentiles, SaveFile,
      ScriptTypeOK
<1>3. ScriptTypeOK'
  BY <1>1, <1>2, Lengths, StepNumbers, ScriptGoesOn
  DEF SkipThroughput, QueryThroughput, QueryPercentiles, SaveFile
<1>4. ChartTypeOK'
  <2>1. CASE SaveFile
    <3>1. ChartSteps[pos] \in ChartFiles
      BY <1>2, <2>1, StepsAreFiles DEF SaveFile
    <3>. QED  BY <1>1, <1>2, <2>1, <3>1 DEF SaveFile, ChartTypeOK
  <2>2. CASE ~SaveFile
    BY <1>1, <2>2
    DEF SkipThroughput, QueryThroughput, QueryPercentiles, ChartTypeOK
  <2>. QED  BY <2>1, <2>2
<1>5. KibanaTypeOK' /\ LogTypeOK'
  BY <1>1 DEF SkipThroughput, QueryThroughput, QueryPercentiles, SaveFile,
              KibanaTypeOK, LogTypeOK, kibanaVars, logVars
<1>. QED  BY <1>3, <1>4, <1>5, TypePartsAfter

LEMMA LogTypeStep ==
  ASSUME ObsTypeOK,
         \/ StartApi \/ StartConsumers \/ LogstashStarts \/ LogstashStops
         \/ \E p \in Processes : LinesArrive(p) \/ ServiceStops(p)
         \/ NewElasticsearch
  PROVE  ObsTypeOK'
<1>1. ScriptTypeOK /\ KibanaTypeOK /\ LogTypeOK /\ ChartTypeOK
  BY TypeParts
<1>2. ScriptTypeOK'
  BY <1>1 DEF StartApi, StartConsumers, LogstashStarts, LogstashStops,
              LinesArrive, ServiceStops, NewElasticsearch, ScriptTypeOK,
              runVars
<1>3. KibanaTypeOK' /\ ChartTypeOK'
  BY <1>1 DEF StartApi, StartConsumers, LogstashStarts, LogstashStops,
              LinesArrive, ServiceStops, NewElasticsearch, KibanaTypeOK,
              ChartTypeOK, kibanaVars
<1>4. LogTypeOK'
  <2> USE ObsAssumption, <1>1 DEF LogTypeOK
  <2>1. CASE StartApi \/ StartConsumers
    BY <2>1 DEF StartApi, StartConsumers
  <2>2. CASE LogstashStarts
    BY <2>2 DEF LogstashStarts
  <2>3. CASE LogstashStops
    <3>1. logstash' \in BOOLEAN
      BY <2>3, Zenon DEF LogstashStops
    <3>2. faults' \in 0..MaxFaults /\ UNCHANGED <<received, logger>>
      BY <2>3 DEF LogstashStops, Fault
    <3>. QED  BY <3>1, <3>2
  <2>4. ASSUME NEW p \in Processes, LinesArrive(p) \/ ServiceStops(p)
        PROVE  LogTypeOK'
    BY <2>4 DEF LinesArrive, ServiceStops, Fault
  <2>5. CASE NewElasticsearch
    BY <2>5 DEF NewElasticsearch, Fault
  <2>. QED  BY <2>1, <2>2, <2>3, <2>4, <2>5
<1>. QED  BY <1>2, <1>3, <1>4, TypePartsAfter

LEMMA ObsTypeStep ==
  ASSUME ObsTypeOK, [ObsNext]_obsVars
  PROVE  ObsTypeOK'
<1>1. ScriptTypeOK /\ KibanaTypeOK /\ LogTypeOK /\ ChartTypeOK
  BY TypeParts
<1>2. ASSUME NEW s \in Scripts, StartScript(s) PROVE ObsTypeOK'
  <2>1. ScriptTypeOK'
    <3>1. /\ script' = s /\ pos' = 1 /\ runs' = runs + 1 /\ runs < MaxRuns
          /\ runs \in 0..MaxRuns
      BY <1>1, <1>2 DEF StartScript, ScriptTypeOK
    <3>2. spoiled' \in BOOLEAN
      BY <1>2, Zenon DEF StartScript
    <3>3. runs' \in 0..MaxRuns
      BY <3>1, ObsAssumption
    <3>4. 1 \in Steps(s)
      BY StepNumbers DEF Scripts
    <3>. QED  BY <3>1, <3>2, <3>3, <3>4 DEF ScriptTypeOK
  <2>2. KibanaTypeOK' /\ LogTypeOK' /\ ChartTypeOK'
    BY <1>1, <1>2 DEF StartScript, KibanaTypeOK, LogTypeOK, ChartTypeOK,
                      kibanaVars, logVars
  <2>. QED  BY <2>1, <2>2, TypePartsAfter
<1>3. CASE Dies
  <2>1. ScriptTypeOK'
    BY <1>1, <1>3, ScriptGoesOn DEF Dies
  <2>2. KibanaTypeOK' /\ LogTypeOK' /\ ChartTypeOK'
    BY <1>1, <1>3 DEF Dies, KibanaTypeOK, LogTypeOK, ChartTypeOK,
                      kibanaVars, logVars
  <2>. QED  BY <2>1, <2>2, TypePartsAfter
<1>4. CASE UNCHANGED obsVars
  BY <1>1, <1>4, TypePartsAfter
  DEF obsVars, runVars, kibanaVars, logVars, ScriptTypeOK, KibanaTypeOK,
      LogTypeOK, ChartTypeOK
<1>. QED
  BY <1>2, <1>3, <1>4, ViewStep, BuildTypeStep, ChartTypeStep, LogTypeStep
  DEF ObsNext

(* Every variable keeps its type, and no script runs past its last step.   *)
THEOREM ObsTypeCorrect == ObsSpec => []ObsTypeOK
<1>1. ObsTypeOK /\ [ObsNext]_obsVars => ObsTypeOK'  BY ObsTypeStep
<1>. QED  BY ObsTypeInit, <1>1, PTL DEF ObsSpec
----------------------------------------------------------------------------
(* The build of the dashboard *)

(* main() saves what the dashboard refers to, no more and no less.         *)
LEMMA BuildOrderIsComplete ==
  /\ Len(BuildOrder) = 22
  /\ References \subseteq {BuildOrder[i] : i \in 1..22}
<1>1. Len(BuildOrder) = 22  BY DEF BuildOrder
<1>2. ASSUME NEW p \in References PROVE \E i \in 1..22 : p = BuildOrder[i]
  BY <1>2 DEF References, BuildOrder
<1>. QED  BY <1>1, <1>2

(* The build stands at a step, and what it saved before that step is there *)
(* unless Elasticsearch was emptied under it.                              *)
BuildInv ==
    /\ pos \in Nat
    /\ script = "build" /\ ~spoiled =>
          \A i \in 1..22 : i < pos => BuildOrder[i] \in vis
    /\ DashboardResolves

LEMMA BuildInit == ObsInit => BuildInv
BY DEF ObsInit, BuildInv, DashboardResolves

(* Steps that neither run the build nor touch Kibana.                      *)
LEMMA BuildUntouched ==
  ASSUME BuildInv, UNCHANGED <<vis, board, boardSpoiled>>, pos' \in Nat,
         script' # "build" \/ (UNCHANGED <<script, pos, spoiled>>)
  PROVE  BuildInv'
BY DEF BuildInv, DashboardResolves

LEMMA BuildStep ==
  ASSUME BuildInv, [ObsNext]_obsVars
  PROVE  BuildInv'
<1> USE DEF kibanaVars, runVars, logVars
<1>1. ASSUME NEW s \in Scripts, StartScript(s) PROVE BuildInv'
  BY <1>1 DEF StartScript, BuildInv, DashboardResolves
<1>2. CASE CreateDataView
  BY <1>2, BuildUntouched DEF CreateDataView, Finish, Advance, BuildInv
<1>3. CASE SaveVisualization
  <2>1. vis' = vis \union {BuildOrder[pos]} /\ UNCHANGED <<board, boardSpoiled>>
    BY <1>3 DEF SaveVisualization
  <2>2. DashboardResolves'  BY <2>1 DEF BuildInv, DashboardResolves
  <2>3. CASE Finish  BY <2>2, <2>3 DEF Finish, BuildInv
  <2>4. CASE Advance
    <3>1. /\ pos \in Nat /\ pos' = pos + 1 /\ script = "build"
          /\ UNCHANGED <<script, spoiled>>
      BY <1>3, <2>4 DEF SaveVisualization, Advance, BuildInv
    <3>2. ASSUME ~spoiled, NEW i \in 1..22, i < pos + 1
          PROVE  BuildOrder[i] \in vis \union {BuildOrder[pos]}
      <4>1. i < pos \/ i = pos  BY <3>1, <3>2
      <4>. QED  BY <3>1, <3>2, <4>1 DEF BuildInv
    <3>. QED  BY <2>1, <2>2, <3>1, <3>2 DEF BuildInv
  <2>. QED  BY <1>3, <2>3, <2>4 DEF SaveVisualization
<1>4. CASE SaveDashboard
  <2>1. pos = 23 /\ script = "build"
    BY <1>4, BuildOrderIsComplete DEF SaveDashboard
  <2>2. ~spoiled => \A i \in 1..22 : BuildOrder[i] \in vis
    BY <2>1 DEF BuildInv
  <2>3. ~spoiled => References \subseteq vis
    BY <2>2, BuildOrderIsComplete
  <2>. QED
    BY <1>4, <2>3 DEF SaveDashboard, Finish, BuildInv, DashboardResolves
<1>5. CASE UpdateDashboard
  BY <1>5 DEF UpdateDashboard, Finish, BuildInv, DashboardResolves
<1>6. CASE SkipThroughput
  BY <1>6, BuildUntouched DEF SkipThroughput, BuildInv
<1>7. CASE QueryThroughput \/ QueryPercentiles
  BY <1>7, BuildUntouched
  DEF QueryThroughput, QueryPercentiles, Advance, BuildInv
<1>8. CASE SaveFile
  BY <1>8, BuildUntouched DEF SaveFile, Finish, Advance, BuildInv
<1>9. CASE Dies
  BY <1>9, BuildUntouched DEF Dies, Finish, BuildInv
<1>10. CASE StartApi \/ StartConsumers \/ LogstashStarts \/ LogstashStops
  BY <1>10, BuildUntouched
  DEF StartApi, StartConsumers, LogstashStarts, LogstashStops, BuildInv
<1>11. ASSUME NEW p \in Processes, LinesArrive(p) \/ ServiceStops(p)
       PROVE  BuildInv'
  BY <1>11, BuildUntouched DEF LinesArrive, ServiceStops, BuildInv
<1>12. CASE NewElasticsearch
  BY <1>12 DEF NewElasticsearch, BuildInv, DashboardResolves
<1>13. CASE UNCHANGED obsVars
  BY <1>13, BuildUntouched DEF obsVars, BuildInv
<1>. QED
  BY <1>1, <1>2, <1>3, <1>4, <1>5, <1>6, <1>7, <1>8, <1>9, <1>10, <1>11,
     <1>12, <1>13 DEF ObsNext

(* A saved dashboard has no holes, unless Elasticsearch was emptied under  *)
(* its build.                                                              *)
THEOREM DashboardHasNoHoles == ObsSpec => []DashboardResolves
<1>1. BuildInv /\ [ObsNext]_obsVars => BuildInv'  BY BuildStep
<1>2. BuildInv => DashboardResolves  BY DEF BuildInv
<1>. QED  BY BuildInit, <1>1, <1>2, PTL DEF ObsSpec

----------------------------------------------------------------------------
(* The benchmark files *)

(* The files of charts 2 to 5 in the order main() writes them; the step of *)
(* the script that writes the i-th is i + 4.                               *)
File(i) == ChartSteps[i + 4]

LEMMA FilesInOrder ==
  /\ File(1) = <<2, "png">> /\ File(2) = <<2, "svg">>
  /\ File(3) = <<3, "png">> /\ File(4) = <<3, "svg">>
  /\ File(5) = <<4, "png">> /\ File(6) = <<4, "svg">>
  /\ File(7) = <<5, "svg">>
  /\ ChartSteps[2] = <<1, "png">> /\ ChartSteps[3] = <<1, "svg">>
  /\ Len(ChartSteps) = 11
BY DEF File, ChartSteps

LEMMA FilesDiffer ==
  ASSUME NEW i \in 1..7, NEW j \in 1..7, i # j
  PROVE  File(i) # File(j)
BY FilesInOrder

LEMMA FilesExist ==
  ASSUME NEW i \in 1..7
  PROVE  File(i) \in ChartFiles
BY FilesInOrder DEF ChartFiles

(* No file is from a later run, files get no newer along the order, and    *)
(* those the running script passed are of this run.                        *)
FilesInv ==
    /\ runs \in Nat /\ pos \in Nat
    /\ script = "charts" => pos \in 1..11
    /\ chart \in [ChartFiles -> Nat]
    /\ \A i \in 1..7 : chart[File(i)] <= runs
    /\ \A i, j \in 1..7 : i < j => chart[File(i)] >= chart[File(j)]
    /\ script = "charts" =>
          \A i \in 1..7 : i + 4 < pos => chart[File(i)] = runs

LEMMA FilesInit == ObsInit => FilesInv
<1> SUFFICES ASSUME ObsInit PROVE FilesInv
  OBVIOUS
<1>1. \A i \in 1..7 : chart[File(i)] = 0  BY FilesExist DEF ObsInit
<1>. QED  BY <1>1 DEF ObsInit, FilesInv

LEMMA FilesUntouched ==
  ASSUME FilesInv, chart' = chart, runs' = runs, pos' \in Nat,
         script' # "charts" \/ UNCHANGED <<script, pos>>
  PROVE  FilesInv'
BY DEF FilesInv

LEMMA FileSaved ==
  ASSUME FilesInv, SaveFile
  PROVE  FilesInv'
<1> USE FilesInOrder DEF kibanaVars, runVars, logVars
<1>1. /\ script = "charts" /\ pos \in 1..11 /\ pos \notin {1, 4}
      /\ chart' = [chart EXCEPT ![ChartSteps[pos]] = runs] /\ runs' = runs
      /\ runs \in Nat /\ chart \in [ChartFiles -> Nat]
  BY DEF SaveFile, FilesInv, Finish, Advance
<1>2. pos' \in Nat /\ (script' = "charts" => pos' = pos + 1 /\ pos' \in 1..11)
  BY <1>1 DEF SaveFile, Finish, Advance
<1>3. chart' \in [ChartFiles -> Nat]  BY <1>1
<1>4. CASE pos \in {2, 3}
  <2>1. \A i \in 1..7 : chart'[File(i)] = chart[File(i)]
    BY <1>1, <1>4, FilesExist
  <2>. QED  BY <1>1, <1>2, <1>3, <1>4, <2>1 DEF FilesInv
<1>5. CASE pos \in 5..11
  <2> DEFINE k == pos - 4
  <2>1. k \in 1..7 /\ ChartSteps[pos] = File(k)
    BY <1>5 DEF File
  <2>2. chart'[File(k)] = runs
    BY <1>1, <2>1, FilesExist
  <2>3. \A i \in 1..7 \ {k} : chart'[File(i)] = chart[File(i)]
    BY <1>1, <2>1, FilesExist, FilesDiffer
  <2>4. \A i \in 1..7 : i < k => chart'[File(i)] = runs
    BY <1>1, <2>3 DEF FilesInv
  <2>5. \A i \in 1..7 : chart'[File(i)] <= runs
    BY <1>1, <2>2, <2>3 DEF FilesInv
  <2>6. \A i \in 1..7 : chart'[File(i)] \in Nat
    BY <1>3, FilesExist
  <2> HIDE DEF k
  <2>7. \A i, j \in 1..7 : i < j => chart'[File(i)] >= chart'[File(j)]
    <3> SUFFICES ASSUME NEW i \in 1..7, NEW j \in 1..7, i < j
                 PROVE  chart'[File(i)] >= chart'[File(j)]
      OBVIOUS
    <3>1. CASE i < k  BY <1>1, <2>4, <2>5, <2>6, <3>1
    <3>2. CASE i = k  BY <1>1, <2>2, <2>5, <2>6, <3>2
    <3>3. CASE i > k
      BY <2>1, <2>3, <3>3 DEF FilesInv
    <3>. QED  BY <2>1, <3>1, <3>2, <3>3
  <2>8. script' = "charts" => \A i \in 1..7 : i + 4 < pos' => chart'[File(i)] = runs
    BY <1>1, <1>2, <2>2, <2>4 DEF k
  <2>. QED  BY <1>1, <1>2, <1>3, <2>5, <2>7, <2>8 DEF FilesInv
<1>. QED  BY <1>1, <1>4, <1>5

LEMMA FilesStep ==
  ASSUME FilesInv, [ObsNext]_obsVars
  PROVE  FilesInv'
<1> USE DEF kibanaVars, runVars, logVars
<1>1. ASSUME NEW s \in Scripts, StartScript(s) PROVE FilesInv'
  <2>1. /\ runs' = runs + 1 /\ pos' = 1 /\ chart' = chart
    BY <1>1 DEF StartScript
  <2>2. \A i \in 1..7 : chart[File(i)] \in Nat  BY FilesExist DEF FilesInv
  <2>. QED  BY <2>1, <2>2 DEF FilesInv
<1>2. CASE CreateDataView
  BY <1>2, FilesUntouched DEF CreateDataView, Finish, Advance, FilesInv
<1>3. CASE SaveVisualization
  BY <1>3, FilesUntouched DEF SaveVisualization, Finish, Advance, FilesInv
<1>4. CASE SaveDashboard \/ UpdateDashboard
  BY <1>4, FilesUntouched DEF SaveDashboard, UpdateDashboard, Finish, FilesInv
<1>5. CASE SkipThroughput
  BY <1>5 DEF SkipThroughput, FilesInv
<1>6. CASE QueryThroughput
  BY <1>6 DEF QueryThroughput, Advance, FilesInv
<1>7. CASE QueryPercentiles
  BY <1>7 DEF QueryPercentiles, Advance, FilesInv
<1>8. CASE SaveFile  BY <1>8, FileSaved
<1>9. CASE Dies
  BY <1>9, FilesUntouched DEF Dies, Finish, FilesInv
<1>10. CASE StartApi \/ StartConsumers \/ LogstashStarts \/ LogstashStops
  BY <1>10, FilesUntouched
  DEF StartApi, StartConsumers, LogstashStarts, LogstashStops, FilesInv
<1>11. ASSUME NEW p \in Processes, LinesArrive(p) \/ ServiceStops(p)
       PROVE  FilesInv'
  BY <1>11, FilesUntouched DEF LinesArrive, ServiceStops, FilesInv
<1>12. CASE NewElasticsearch
  BY <1>12, FilesUntouched DEF NewElasticsearch, FilesInv
<1>13. CASE UNCHANGED obsVars
  BY <1>13, FilesUntouched DEF obsVars, FilesInv
<1>. QED
  BY <1>1, <1>2, <1>3, <1>4, <1>5, <1>6, <1>7, <1>8, <1>9, <1>10, <1>11,
     <1>12, <1>13 DEF ObsNext

(* A fresh chart 5 means that the run drew charts 2 to 4 before it.        *)
THEOREM ChartsAreInOrder == ObsSpec => []LaterChartsAreNoNewer
<1>1. FilesInv /\ [ObsNext]_obsVars => FilesInv'  BY FilesStep
<1>2. ASSUME FilesInv PROVE LaterChartsAreNoNewer
  <2>1. \A i \in 1..7, j \in 1..7 : i < j => chart[File(i)] >= chart[File(j)]
    BY <1>2 DEF FilesInv
  <2>2. /\ chart[<<2, "png">>] >= chart[<<2, "svg">>]
        /\ chart[<<2, "svg">>] >= chart[<<3, "png">>]
        /\ chart[<<2, "svg">>] >= chart[<<3, "svg">>]
        /\ chart[<<3, "png">>] >= chart[<<3, "svg">>]
        /\ chart[<<3, "svg">>] >= chart[<<4, "png">>]
        /\ chart[<<3, "svg">>] >= chart[<<4, "svg">>]
        /\ chart[<<4, "png">>] >= chart[<<4, "svg">>]
        /\ chart[<<4, "svg">>] >= chart[<<5, "svg">>]
    BY <2>1, FilesInOrder
  <2>. QED  BY <2>2 DEF LaterChartsAreNoNewer
<1>. QED  BY FilesInit, <1>1, <1>2, PTL DEF ObsSpec
----------------------------------------------------------------------------
(* What the panels count *)

(* The lines one piece of work writes, and a mail that is not sent.        *)
RequestSent ==
    Line("api", "request_sent", "none", {"method", "status_code", "latency_ms"})
OrderCreated == Line("api", "api_order_created", "none", {"latency_ms"})
StatusUpdated == Line("api", "api_order_status_updated", "none", {"latency_ms"})
RedisUpdated ==
    Line("consumers", "redis_updated", "RedisUpdater", {"sink_latency_ms"})
ESIndexed ==
    Line("consumers", "es_indexed", "ESIndexer",
         {"status_code", "sink_latency_ms"})
MailSent == Line("consumers", "email_notification_sent", "Notifier", {})
MailSkipped ==
    Line("consumers", "email_notification_skipped_duplicate", "Notifier", {})
Processed(c) ==
    Line("consumers", "record_processed", c, {"processing_latency_ms"})

LEMMA WorkIsLogged ==
  /\ RequestSent \in Lines /\ OrderCreated \in Lines /\ StatusUpdated \in Lines
  /\ RedisUpdated \in Lines /\ ESIndexed \in Lines
  /\ MailSent \in Lines /\ MailSkipped \in Lines
  /\ \A c \in Consumers : Processed(c) \in Lines
<1>1. RequestSent \in LoadGeneratorLines
  BY DEF RequestSent, LoadGeneratorLines
<1>2. OrderCreated \in HandlerLines /\ StatusUpdated \in HandlerLines
  BY DEF OrderCreated, StatusUpdated, HandlerLines
<1>3. RedisUpdated \in RedisUpdaterLines /\ ESIndexed \in ESIndexerLines
  BY DEF RedisUpdated, RedisUpdaterLines, ESIndexed, ESIndexerLines
<1>4. MailSent \in NotifierLines /\ MailSkipped \in NotifierLines
  BY DEF MailSent, MailSkipped, NotifierLines
<1>5. \A c \in Consumers : Processed(c) \in LoopLines
  BY DEF Processed, LoopLines
<1>. QED  BY <1>1, <1>2, <1>3, <1>4, <1>5 DEF Lines

(* Where Logstash puts them, and what they carry.                          *)
LEMMA IndexOfWork ==
  /\ Index(RequestSent) = "cdc-api-logs"
  /\ Index(OrderCreated) = "cdc-api-logs"
  /\ Index(StatusUpdated) = "cdc-api-logs"
  /\ Index(RedisUpdated) = "cdc-consumer-logs"
  /\ Index(ESIndexed) = "cdc-consumer-logs"
  /\ Index(MailSent) = "cdc-consumer-logs"
  /\ Index(MailSkipped) = "cdc-system-logs"
  /\ \A c : Index(Processed(c)) = "cdc-consumer-logs"
  BY DEF Index, LogType, Line, RequestSent, OrderCreated, StatusUpdated,
         RedisUpdated, ESIndexed, MailSent, MailSkipped, Processed

LEMMA FieldsOfWork ==
  /\ RequestSent.fields = {"method", "status_code", "latency_ms", "level"}
  /\ OrderCreated.fields = {"latency_ms", "level"}
  /\ StatusUpdated.fields = {"latency_ms", "level"}
  /\ RedisUpdated.fields = {"sink_latency_ms", "level"}
  /\ ESIndexed.fields = {"status_code", "sink_latency_ms", "level"}
  /\ MailSent.fields = {"level"} /\ MailSkipped.fields = {"level"}
  /\ \A c : Processed(c).fields = {"processing_latency_ms", "level"}
  BY DEF Line, RequestSent, OrderCreated, StatusUpdated, RedisUpdated,
         ESIndexed, MailSent, MailSkipped, Processed

LEMMA NamesInWork ==
  /\ RequestSent.event = "request_sent" /\ RequestSent.consumer = "none"
  /\ OrderCreated.event = "api_order_created"
  /\ OrderCreated.consumer = "none"
  /\ StatusUpdated.event = "api_order_status_updated"
  /\ StatusUpdated.consumer = "none"
  /\ RedisUpdated.event = "redis_updated"
  /\ RedisUpdated.consumer = "RedisUpdater"
  /\ ESIndexed.event = "es_indexed" /\ ESIndexed.consumer = "ESIndexer"
  /\ MailSent.event = "email_notification_sent"
  /\ MailSent.consumer = "Notifier"
  /\ MailSkipped.event = "email_notification_skipped_duplicate"
  /\ MailSkipped.consumer = "Notifier"
  /\ \A c : /\ Processed(c).event = "record_processed"
            /\ Processed(c).consumer = c
  BY DEF Line, RequestSent, OrderCreated, StatusUpdated, RedisUpdated,
         ESIndexed, MailSent, MailSkipped, Processed

LEMMA EveryProcessLogs == \A l \in Lines : l.process \in Processes
  BY DEF Lines, LoadGeneratorLines, HandlerLines, LoopLines, DlqLines,
         RedisUpdaterLines, NotifierLines, ESIndexerLines, Garbled, Line,
         Processes

(* The queries of the panels that are no text, by the index they read.     *)
LEMMA ApiPanels ==
  ASSUME NEW panel \in Panels, panel.index = "cdc-api-logs"
  PROVE  /\ panel.key = "none"
         /\ \/ /\ panel.id \in {"vis-total-orders", "vis-figure1-throughput"}
               /\ panel.per = {}
            \/ /\ panel.id \in {"vis-p50-latency", "vis-p95-latency",
                                "vis-figure2-percentiles"}
               /\ panel.per = {"latency_ms"}
            \/ /\ panel.id = "vis-api-status-pie"
               /\ panel.per = {"status_code"}
            \/ /\ panel.id \in {"vis-api-method-pie", "vis-api-summary-table"}
               /\ panel.per = {"method"}
            \/ /\ panel.id = "vis-api-detailed-table"
               /\ panel.per = {"status_code", "method"}
  BY DEF Panels, Banner, SlaSummary, Text, Figure1, Figure2, Figure3, Figure4,
         ApiCards, ConsumerCards, Donuts, Tables, All, Some, Panel

LEMMA ConsumerPanels ==
  ASSUME NEW panel \in Panels, panel.index = "cdc-consumer-logs"
  PROVE  \/ /\ panel.id \in {"vis-total-consumer-events",
                             "vis-figure4-consumer-throughput"}
            /\ panel.key = "none" /\ panel.per = {}
         \/ /\ panel.id = "vis-consumer-summary-table"
            /\ panel.key = "consumer" /\ panel.values = Consumers
            /\ panel.per = {}
         \/ /\ panel.id \in {"vis-events-pie", "vis-consumer-detailed-table"}
            /\ panel.key = "consumer" /\ panel.values = Consumers
            /\ panel.per = {"event"}
         \/ /\ panel.id = "vis-redis-sink-latency"
            /\ panel.key = "consumer" /\ panel.values = {"RedisUpdater"}
            /\ panel.per = {"sink_latency_ms"}
         \/ /\ panel.id = "vis-es-sink-latency"
            /\ panel.key = "consumer" /\ panel.values = {"ESIndexer"}
            /\ panel.per = {"sink_latency_ms"}
         \/ /\ panel.id = "vis-figure3-dual-store"
            /\ panel.key = "consumer"
            /\ panel.values = {"RedisUpdater", "ESIndexer"}
            /\ panel.per = {}
  BY DEF Panels, Banner, SlaSummary, Text, Figure1, Figure2, Figure3, Figure4,
         ApiCards, ConsumerCards, Donuts, Tables, All, Some, Panel

LEMMA SystemPanels ==
  ASSUME NEW panel \in Panels, panel.index = "cdc-system-logs"
  PROVE  \/ /\ panel.id = "vis-idempotency-dedup"
            /\ panel.key = "event" /\ panel.per = {}
            /\ panel.values = {"email_notification_skipped_duplicate"}
         \/ /\ panel.id = "vis-dlq-count"
            /\ panel.key = "event" /\ panel.values = {"routed_to_dlq"}
            /\ panel.per = {}
         \/ /\ panel.id = "vis-system-severity-pie"
            /\ panel.key = "none" /\ panel.per = {"level"}
  BY DEF Panels, Banner, SlaSummary, Text, Figure1, Figure2, Figure3, Figure4,
         ApiCards, ConsumerCards, Donuts, Tables, All, Some, Panel

LEMMA PanelIndices ==
  ASSUME NEW panel \in Panels
  PROVE  /\ panel.index \in {"none", "cdc-api-logs", "cdc-consumer-logs",
                             "cdc-system-logs"}
         /\ panel.index = "none" => ~panel.view
         /\ panel.index = "none" => panel.id \in {"vis-header-banner",
                                                  "vis-architecture-summary"}
  BY DEF Panels, Banner, SlaSummary, Text, Figure1, Figure2, Figure3, Figure4,
         ApiCards, ConsumerCards, Donuts, Tables, All, Some, Panel

LEMMA PanelsAreReferred == \A panel \in Panels : panel.id \in References
<1> SUFFICES ASSUME NEW panel \in Panels PROVE panel.id \in References
  OBVIOUS
<1>1. CASE panel.index = "cdc-api-logs"
  BY <1>1, ApiPanels DEF References
<1>2. CASE panel.index = "cdc-consumer-logs"
  BY <1>2, ConsumerPanels DEF References
<1>3. CASE panel.index = "cdc-system-logs"
  BY <1>3, SystemPanels DEF References
<1>4. CASE panel.index = "none"
  BY <1>4, PanelIndices DEF References
<1>. QED  BY <1>1, <1>2, <1>3, <1>4, PanelIndices

(* Once everything is deployed a panel shows the lines its query counts.   *)
LEMMA CompleteShowsAll ==
  ASSUME Complete, NEW panel \in Panels
  PROVE  Shown(panel) = {l \in Lines : Counts(panel, l)}
<1>1. InElasticsearch = Lines
  BY EveryProcessLogs DEF Complete, InElasticsearch
<1>2. panel.id \in vis
  BY PanelsAreReferred DEF Complete
<1>3. /\ "cdc-api-logs" \in views /\ "cdc-consumer-logs" \in views
      /\ "cdc-system-logs" \in views
  <2>1. /\ DataViews[1] = "cdc-api-logs" /\ DataViews[2] = "cdc-consumer-logs"
        /\ DataViews[3] = "cdc-system-logs" /\ Len(DataViews) = 4
    BY DEF DataViews
  <2>. QED  BY <2>1 DEF Complete
<1>4. panel.view => panel.index \in views
  BY <1>3, PanelIndices
<1>. QED  BY <1>1, <1>2, <1>4 DEF Shown

(* Each query but one has a line to count.                                 *)
LEMMA QueriesFindLines ==
  ASSUME NEW panel \in Panels, ~IsText(panel), panel.id # "vis-dlq-count"
  PROVE  \E l \in Lines : Counts(panel, l)
<1> USE WorkIsLogged, IndexOfWork, FieldsOfWork, NamesInWork
    DEF Counts, Matches
<1>1. CASE panel.index = "cdc-api-logs"
  <2>1. Counts(panel, RequestSent)  BY <1>1, ApiPanels
  <2>. QED  BY <2>1
<1>2. CASE panel.index = "cdc-consumer-logs"
  <2>1. CASE panel.id = "vis-es-sink-latency"
    <3>1. Counts(panel, ESIndexed)  BY <1>2, <2>1, ConsumerPanels
    <3>. QED  BY <3>1
  <2>2. CASE panel.id # "vis-es-sink-latency"
    <3>1. Counts(panel, RedisUpdated)
      BY <1>2, <2>2, ConsumerPanels DEF Consumers
    <3>. QED  BY <3>1
  <2>. QED  BY <2>1, <2>2
<1>3. CASE panel.index = "cdc-system-logs"
  <2>1. Counts(panel, MailSkipped)  BY <1>3, SystemPanels
  <2>. QED  BY <2>1
<1>. QED  BY <1>1, <1>2, <1>3, PanelIndices DEF IsText

(* Logstash files the lines of dead letters with the consumers' lines.     *)
LEMMA DlqLinesAreElsewhere ==
  ASSUME NEW panel \in Panels, IsText(panel) \/ panel.id = "vis-dlq-count",
         NEW l \in Lines
  PROVE  ~Counts(panel, l)
<1>1. CASE IsText(panel)
  BY <1>1 DEF IsText, Counts, Index
<1>2. CASE panel.id = "vis-dlq-count"
  <2>1. /\ panel.index = "cdc-system-logs" /\ panel.key = "event"
        /\ panel.values = {"routed_to_dlq"}
    BY <1>2, PanelIndices, ApiPanels, ConsumerPanels, SystemPanels
  <2>2. l.event = "routed_to_dlq" => Index(l) = "cdc-consumer-logs"
    BY DEF Index, LogType
  <2>. QED  BY <2>1, <2>2 DEF Counts, Matches
<1>. QED  BY <1>1, <1>2

(* When everything is deployed and every service has logged, each panel    *)
(* with a query shows something, but for the DLQ card.                     *)
THEOREM OnlyTheDlqCardStaysEmpty == ObsSpec => []OnlyTheDlqCardIsBlind
<1>1. ASSUME Complete, NEW panel \in Panels
      PROVE  (Shown(panel) = {}) <=> \/ IsText(panel)
                                     \/ panel.id = "vis-dlq-count"
  BY <1>1, CompleteShowsAll, QueriesFindLines, DlqLinesAreElsewhere
<1>2. OnlyTheDlqCardIsBlind
  BY <1>1 DEF OnlyTheDlqCardIsBlind
<1>. QED  BY <1>2, PTL
----------------------------------------------------------------------------
(* What is counted twice *)

(* Each event of a piece of work is logged by one line of the code.        *)
LEMMA EventsAreDistinct ==
  ASSUME NEW l \in Lines
  PROVE  /\ l.event = "request_sent" => l = RequestSent
         /\ l.event = "api_order_created" => l = OrderCreated
         /\ l.event = "api_order_status_updated" => l = StatusUpdated
         /\ l.event = "redis_updated" => l = RedisUpdated
         /\ l.event = "es_indexed" => l = ESIndexed
         /\ l.event = "email_notification_sent" => l = MailSent
         /\ \A c : l.event = "record_processed" /\ l.consumer = c
                     => l = Processed(c)
<1> USE DEF Line, RequestSent, OrderCreated, StatusUpdated, RedisUpdated,
            ESIndexed, MailSent, Processed
<1>1. CASE l \in LoadGeneratorLines  BY <1>1 DEF LoadGeneratorLines
<1>2. CASE l \in HandlerLines  BY <1>2 DEF HandlerLines
<1>3. CASE l \in LoopLines  BY <1>3 DEF LoopLines
<1>4. CASE l \in DlqLines  BY <1>4 DEF DlqLines
<1>5. CASE l \in RedisUpdaterLines  BY <1>5 DEF RedisUpdaterLines
<1>6. CASE l \in NotifierLines  BY <1>6 DEF NotifierLines
<1>7. CASE l \in ESIndexerLines  BY <1>7 DEF ESIndexerLines
<1>8. CASE l = Garbled  BY <1>8 DEF Garbled
<1>. QED
  BY <1>1, <1>2, <1>3, <1>4, <1>5, <1>6, <1>7, <1>8 DEF Lines

LEMMA WorkIs ==
  Work = {{RequestSent, OrderCreated}, {RequestSent, StatusUpdated},
          {RedisUpdated, Processed("RedisUpdater")},
          {ESIndexed, Processed("ESIndexer")},
          {MailSent, Processed("Notifier")}}
<1> USE WorkIsLogged, NamesInWork, EventsAreDistinct
<1>1. (CHOOSE l \in Lines : l.event = "request_sent") = RequestSent
  OBVIOUS
<1>2. (CHOOSE l \in Lines : l.event = "api_order_created") = OrderCreated
  OBVIOUS
<1>3. (CHOOSE l \in Lines : l.event = "api_order_status_updated")
         = StatusUpdated
  OBVIOUS
<1>4. (CHOOSE l \in Lines : l.event = "redis_updated") = RedisUpdated
  OBVIOUS
<1>5. (CHOOSE l \in Lines : l.event = "es_indexed") = ESIndexed
  OBVIOUS
<1>6. (CHOOSE l \in Lines : l.event = "email_notification_sent") = MailSent
  OBVIOUS
<1>7. ASSUME NEW c \in Consumers
      PROVE  (CHOOSE l \in Lines : l.event = "record_processed"
                                   /\ l.consumer = c) = Processed(c)
  OBVIOUS
<1>. QED
  BY <1>1, <1>2, <1>3, <1>4, <1>5, <1>6, <1>7, Zenon DEF Work, Consumers

(* The two lines of a piece of work are of different events.               *)
LEMMA TwiceByPairs ==
  ASSUME NEW panel
  PROVE  CountsTwice(panel) <=>
           /\ "event" \notin panel.per
           /\ \/ Counts(panel, RequestSent) /\ Counts(panel, OrderCreated)
              \/ Counts(panel, RequestSent) /\ Counts(panel, StatusUpdated)
              \/ /\ Counts(panel, RedisUpdated)
                 /\ Counts(panel, Processed("RedisUpdater"))
              \/ /\ Counts(panel, ESIndexed)
                 /\ Counts(panel, Processed("ESIndexer"))
              \/ /\ Counts(panel, MailSent)
                 /\ Counts(panel, Processed("Notifier"))
<1> DEFINE Two(a, b) == \E l, m \in {a, b} :
               /\ l # m /\ Counts(panel, l) /\ Counts(panel, m)
               /\ "event" \in panel.per => l.event = m.event
<1>1. ASSUME NEW a, NEW b, a.event # b.event
      PROVE  Two(a, b) <=> /\ "event" \notin panel.per
                           /\ Counts(panel, a) /\ Counts(panel, b)
  BY <1>1
<1>2. CountsTwice(panel) <=>
        \/ Two(RequestSent, OrderCreated) \/ Two(RequestSent, StatusUpdated)
        \/ Two(RedisUpdated, Processed("RedisUpdater"))
        \/ Two(ESIndexed, Processed("ESIndexer"))
        \/ Two(MailSent, Processed("Notifier"))
  BY WorkIs DEF CountsTwice
<1> HIDE DEF Two
<1>. QED  BY <1>1, <1>2, NamesInWork

TotalPanels ==
    {"vis-total-orders", "vis-p50-latency", "vis-p95-latency",
     "vis-figure1-throughput", "vis-figure2-percentiles",
     "vis-figure3-dual-store",
     "vis-total-consumer-events", "vis-figure4-consumer-throughput",
     "vis-consumer-summary-table"}

LEMMA TotalsAreTwice ==
  ASSUME NEW panel \in Panels
  PROVE  CountsTwice(panel) <=> panel.id \in TotalPanels
<1> USE IndexOfWork, FieldsOfWork, NamesInWork, TwiceByPairs
    DEF Counts, Matches, TotalPanels
<1>1. CASE panel.index = "cdc-api-logs"
  BY <1>1, ApiPanels
<1>2. CASE panel.index = "cdc-consumer-logs"
  BY <1>2, ConsumerPanels DEF Consumers
<1>3. CASE panel.index = "cdc-system-logs"
  BY <1>3, SystemPanels
<1>4. CASE panel.index = "none"
  BY <1>4, PanelIndices
<1>. QED  BY <1>1, <1>2, <1>3, <1>4, PanelIndices

LEMMA SoakCountsTwice == CountsTwice(SoakRate)
<1>1. /\ SoakRate.index = "cdc-api-logs" /\ SoakRate.key = "none"
      /\ SoakRate.per = {}
  BY DEF SoakRate, Panel
<1>2. Counts(SoakRate, RequestSent) /\ Counts(SoakRate, OrderCreated)
  BY <1>1, IndexOfWork DEF Counts, Matches
<1>. QED  BY <1>1, <1>2, TwiceByPairs

(* The totals and the operations of figure 3, and no other panel, count a  *)
(* request or a record twice.                                              *)
THEOREM OnlyTotalsCountTwice == ObsSpec => []TotalsCountTwice
<1>1. TotalsCountTwice
  BY TotalsAreTwice, SoakCountsTwice DEF TotalsCountTwice, TotalPanels
<1>. QED  BY <1>1, PTL
=============================================================================
