---------------------------- MODULE Observability ----------------------------
(***************************************************************************)
(* The way of the log lines to Elasticsearch; Kibana's saved objects and   *)
(* the chart files of docs/benchmarks, and the scripts that write them one *)
(* after another: setup_kibana.py, build_full_kibana_dashboard.py,         *)
(* update_kibana_dashboard.py and generate_benchmark_charts.py.  A script  *)
(* may die at any request or file; what it wrote stays.  Elasticsearch     *)
(* holds the lines and Kibana's objects without a volume: a new container  *)
(* is empty.                                                               *)
(***************************************************************************)
EXTENDS Integers, KibanaContent

CONSTANTS
    MaxRuns,    \* bound: runs of scripts
    MaxFaults   \* bound: stops of Logstash or a service, new Elasticsearch

ASSUME ObsAssumption == MaxRuns \in Nat /\ MaxFaults \in Nat

VARIABLES
    script,     \* the script that runs
    pos,        \* its next step
    runs,       \* scripts started; also the number of the run
    views,      \* data views that exist
    vis,        \* visualizations that exist
    board,      \* what is saved as cdc-telemetry-dashboard
    chart,      \* run each chart file was written by, 0: it is in the repository
    logstash,   \* it takes connections
    logger,     \* the sinks of each process: with TCP, console only, not running
    received,   \* processes whose lines are in Elasticsearch
    faults,
    spoiled,    \* history: Elasticsearch was emptied during this build
    boardSpoiled    \* history: ... during the build of the saved dashboard

kibanaVars == <<views, vis, board, boardSpoiled>>
runVars == <<script, pos, runs, spoiled>>
logVars == <<logstash, logger, received, faults>>
obsVars == <<runVars, kibanaVars, chart, logVars>>

Scripts == {"setup", "build", "update", "charts"}

(* Charts 1 to 4 are a PNG, then an SVG; chart 5 is an SVG. *)
ChartSteps ==
    <<<<1, "query">>, <<1, "png">>, <<1, "svg">>,
      <<2, "query">>, <<2, "png">>, <<2, "svg">>,
      <<3, "png">>, <<3, "svg">>, <<4, "png">>, <<4, "svg">>, <<5, "svg">>>>
ChartFiles == {<<c, k>> : c \in 1..5, k \in {"png", "svg"}} \ {<<5, "png">>}

ObsInit ==
    /\ script = "none" /\ pos = 0 /\ runs = 0 /\ spoiled = FALSE
    /\ views = {} /\ vis = {} /\ board = "none" /\ boardSpoiled = FALSE
    /\ chart = [f \in ChartFiles |-> 0]
    /\ logstash = FALSE /\ logger = [p \in Processes |-> "down"]
    /\ received = {} /\ faults = 0

StartScript(s) ==
    /\ script = "none"
    /\ runs < MaxRuns
    /\ script' = s
    /\ pos' = 1
    /\ runs' = runs + 1
    /\ spoiled' = FALSE
    /\ UNCHANGED <<kibanaVars, chart, logVars>>

Finish == script' = "none" /\ pos' = 0 /\ UNCHANGED <<runs, spoiled>>
Advance == pos' = pos + 1 /\ UNCHANGED <<script, runs, spoiled>>

(* No connection, an HTTP error, no disk, Ctrl-C: the script ends.         *)
Dies ==
    /\ script # "none"
    /\ Finish
    /\ UNCHANGED <<kibanaVars, chart, logVars>>

(* Mutant of CreateDataView: the loop runs past the last view. *)
CreateOneViewTooMany ==
    /\ script = "setup"
    /\ views' \in {views, views \union {DataViews[pos]}}
    /\ IF pos > Len(DataViews) THEN Finish ELSE Advance
    /\ UNCHANGED <<vis, board, boardSpoiled, chart, logVars>>

(* setup_kibana.py prints an HTTP error, whether or not the view exists,   *)
(* and goes on to the next view.                                           *)
CreateDataView ==
    /\ script = "setup"
    /\ views' \in {views, views \union {DataViews[pos]}}
    /\ IF pos = Len(DataViews) THEN Finish ELSE Advance
    /\ UNCHANGED <<vis, board, boardSpoiled, chart, logVars>>

(* A reply that is lost ends the script, although the object is saved. *)
SaveVisualization ==
    /\ script = "build"
    /\ pos \in 1..Len(BuildOrder)
    /\ vis' = vis \union {BuildOrder[pos]}
    /\ Finish \/ Advance
    /\ UNCHANGED <<views, board, boardSpoiled, chart, logVars>>

(* Mutant of SaveDashboard: the dashboard comes first. *)
SaveDashboardFirst ==
    /\ script = "build"
    /\ pos = 1
    /\ board' = "built"
    /\ boardSpoiled' = spoiled
    /\ Finish \/ Advance
    /\ UNCHANGED <<views, vis, chart, logVars>>

SaveDashboard ==
    /\ script = "build"
    /\ pos = Len(BuildOrder) + 1
    /\ board' = "built"
    /\ boardSpoiled' = spoiled
    /\ Finish
    /\ UNCHANGED <<views, vis, chart, logVars>>

(* update_kibana_dashboard.py: three text panels, under the same id. *)
UpdateDashboard ==
    /\ script = "update"
    /\ board' = "text"
    /\ boardSpoiled' = FALSE
    /\ Finish
    /\ UNCHANGED <<views, vis, chart, logVars>>

----------------------------------------------------------------------------
(* The charts *)

InElasticsearch == {l \in Lines : l.process \in received}

Found(series) ==
    \E l \in InElasticsearch : Index(l) = series[1] /\ l.event = series[2]

(* No interval of 10 s has more than 100 requests: chart 1 stays as it is. *)
SkipThroughput ==
    /\ script = "charts"
    /\ pos = 1
    /\ pos' = 4
    /\ UNCHANGED <<script, runs, spoiled, kibanaVars, chart, logVars>>

(* A sink without a bucket counts 0. *)
QueryThroughput ==
    /\ script = "charts"
    /\ pos = 1
    /\ \E series \in ThroughputSeries :
          series[1] = "cdc-api-logs" /\ Found(series)
    /\ Advance
    /\ UNCHANGED <<kibanaVars, chart, logVars>>

(* Mutant of QueryPercentiles: a series without a value skips the chart.   *)
SkipPercentiles ==
    /\ script = "charts"
    /\ pos = 4
    /\ pos' = IF \A series \in PercentileSeries : Found(series) THEN 5 ELSE 7
    /\ UNCHANGED <<script, runs, spoiled, kibanaVars, chart, logVars>>

(* The percentiles of nothing are null, and a bar of null raises. *)
QueryPercentiles ==
    /\ script = "charts"
    /\ pos = 4
    /\ \A series \in PercentileSeries : Found(series)
    /\ Advance
    /\ UNCHANGED <<kibanaVars, chart, logVars>>

(* Charts 3 to 5 draw numbers that stand in the script. *)
SaveFile ==
    /\ script = "charts"
    /\ pos \notin {1, 4}
    /\ chart' = [chart EXCEPT ![ChartSteps[pos]] = runs]
    /\ IF pos = Len(ChartSteps) THEN Finish ELSE Advance
    /\ UNCHANGED <<kibanaVars, logVars>>

----------------------------------------------------------------------------
(* Log lines *)

(* Mutant of StartApi: without Logstash, the console alone, like the       *)
(* consumers.                                                              *)
StartApiLenient ==
    /\ logger["api"] = "down"
    /\ logger' = [logger EXCEPT !["api"] = IF logstash THEN "tcp" ELSE "console"]
    /\ UNCHANGED <<runVars, kibanaVars, chart, logstash, received, faults>>

(* Without Logstash, Init exits, and Docker starts the API again. *)
StartApi ==
    /\ logger["api"] = "down"
    /\ logstash
    /\ logger' = [logger EXCEPT !["api"] = "tcp"]
    /\ UNCHANGED <<runVars, kibanaVars, chart, logstash, received, faults>>

(* Without Logstash, the consumers keep a console logger for their life. *)
StartConsumers ==
    /\ logger["consumers"] = "down"
    /\ logger' = [logger EXCEPT !["consumers"] =
                      IF logstash THEN "tcp" ELSE "console"]
    /\ UNCHANGED <<runVars, kibanaVars, chart, logstash, received, faults>>

(* The TCP sink connects again when it has a line to send. *)
LinesArrive(p) ==
    /\ logger[p] = "tcp"
    /\ logstash
    /\ received' = received \union {p}
    /\ UNCHANGED <<runVars, kibanaVars, chart, logstash, logger, faults>>

LogstashStarts ==
    /\ ~logstash
    /\ logstash' = TRUE
    /\ UNCHANGED <<runVars, kibanaVars, chart, logger, received, faults>>

Fault == faults < MaxFaults /\ faults' = faults + 1

LogstashStops ==
    /\ Fault
    /\ logstash
    /\ logstash' = FALSE
    /\ UNCHANGED <<runVars, kibanaVars, chart, logger, received>>

ServiceStops(p) ==
    /\ Fault
    /\ logger[p] # "down"
    /\ logger' = [logger EXCEPT ![p] = "down"]
    /\ UNCHANGED <<runVars, kibanaVars, chart, logstash, received>>

NewElasticsearch ==
    /\ Fault
    /\ views' = {} /\ vis' = {} /\ board' = "none" /\ boardSpoiled' = FALSE
    /\ received' = {}
    /\ spoiled' = (script = "build")
    /\ UNCHANGED <<script, pos, runs, chart, logstash, logger>>

ObsNext ==
    \/ \E s \in Scripts : StartScript(s)
    \/ CreateDataView \/ SaveVisualization \/ SaveDashboard \/ UpdateDashboard
    \/ SkipThroughput \/ QueryThroughput \/ QueryPercentiles \/ SaveFile
    \/ Dies
    \/ StartApi \/ StartConsumers \/ LogstashStarts \/ LogstashStops
    \/ \E p \in Processes : LinesArrive(p) \/ ServiceStops(p)
    \/ NewElasticsearch

ObsSpec == ObsInit /\ [][ObsNext]_obsVars

(* Docker starts the services again; a running service logs.  Nothing      *)
(* starts Logstash again, and nobody has to run a script.                  *)
FairObsSpec ==
    /\ ObsSpec
    /\ WF_obsVars(StartApi) /\ WF_obsVars(StartConsumers)
    /\ \A p \in Processes : WF_obsVars(LinesArrive(p))

----------------------------------------------------------------------------
(* Properties *)

(* Types of the state, and that a script stands at one of its steps.       *)
ObsTypeOK ==
    /\ script \in Scripts \union {"none"}
    /\ pos \in CASE script = "none" -> {0}
                 [] script = "setup" -> 1..Len(DataViews)
                 [] script = "build" -> 1..(Len(BuildOrder) + 1)
                 [] script = "update" -> {1}
                 [] script = "charts" -> 1..Len(ChartSteps)
    /\ runs \in 0..MaxRuns
    /\ views \subseteq {DataViews[i] : i \in 1..Len(DataViews)}
    /\ vis \subseteq References
    /\ board \in {"none", "built", "text"}
    /\ chart \in [ChartFiles -> 0..MaxRuns]
    /\ received \subseteq Processes
    /\ logstash \in BOOLEAN
    /\ logger \in [Processes -> {"down", "tcp", "console"}]
    /\ faults \in 0..MaxFaults
    /\ spoiled \in BOOLEAN /\ boardSpoiled \in BOOLEAN

(* Every panel of the saved dashboard refers to a visualization that       *)
(* exists, however often the build died on the way and whatever ran in     *)
(* between: main() saves the dashboard last and create_saved_object does   *)
(* not catch.  Only an Elasticsearch that was emptied under the build      *)
(* leaves a dashboard with holes.                                          *)
DashboardResolves ==
    board = "built" /\ ~boardSpoiled => References \subseteq vis

(* Everything is deployed and every service has logged all it can.         *)
Complete ==
    /\ board = "built" /\ References \subseteq vis
    /\ views = {DataViews[i] : i \in 1..Len(DataViews)}
    /\ received = Processes

(* The lines a panel counts; none when it is not there, or its data view   *)
(* is not.                                                                 *)
Shown(panel) == {l \in InElasticsearch : /\ panel.id \in vis
                                         /\ panel.view => panel.index \in views
                                         /\ Counts(panel, l)}

(* What the C++ services log, what Logstash routes and what the panels     *)
(* query agree, but for one panel: the DLQ card looks into the system      *)
(* index for lines that Logstash puts into the consumer index.             *)
OnlyTheDlqCardIsBlind ==
    Complete => \A panel \in Panels :
                    (Shown(panel) = {}) <=> \/ IsText(panel)
                                            \/ panel.id = "vis-dlq-count"

(* A panel that groups by status, method or event, or that shows only the  *)
(* average latency of a sink, counts a request or a record once.  The      *)
(* totals do not, nor the operations per sink of figure 3, nor the rate    *)
(* check_soak_status.py prints: a request of the load generator and its    *)
(* handler write a line each, and so do a sink and the loop around it      *)
(* (build_full_kibana_dashboard.py:531, 574, 783).                         *)
TotalsCountTwice ==
    Complete =>
        /\ CountsTwice(SoakRate)
        /\ \A panel \in Panels :
              CountsTwice(panel) <=>
                panel.id \in
                  {"vis-total-orders", "vis-p50-latency", "vis-p95-latency",
                   "vis-figure1-throughput", "vis-figure2-percentiles",
                   "vis-figure3-dual-store", "vis-total-consumer-events",
                   "vis-figure4-consumer-throughput",
                   "vis-consumer-summary-table"}

(* The files of docs/benchmarks are never newer than those main() writes   *)
(* before them, the throughput chart apart, which a run may leave out: a   *)
(* fresh chart 5 means fresh charts 2 to 4, both files of each.            *)
LaterChartsAreNoNewer ==
    /\ \A c \in 2..4 : /\ chart[<<c, "png">>] >= chart[<<c, "svg">>]
                       /\ chart[<<c, "svg">>] >= chart[<<c + 1, "svg">>]
    /\ \A c \in 2..3 : chart[<<c, "svg">>] >= chart[<<c + 1, "png">>]

(* While Logstash is up, the lines of the API come to be in Elasticsearch  *)
(* whatever was down before, since the API does not run without its TCP    *)
(* sink.  The consumers' lines do only if the consumers found Logstash     *)
(* when they started: they do not look for it again.                       *)
TelemetryReturns ==
    /\ <>[]logstash => <>[]("api" \in received)
    /\ <>[](logstash /\ logger["consumers"] # "console")
          => <>[]("consumers" \in received)
=============================================================================
