SPECIFICATION FairObsSpec
CONSTANTS
    MaxRuns = 2
    MaxFaults = 2
INVARIANT ObsTypeOK
INVARIANT DashboardResolves
INVARIANT OnlyTheDlqCardIsBlind
INVARIANT TotalsCountTwice
INVARIANT LaterChartsAreNoNewer
PROPERTY TelemetryReturns
CHECK_DEADLOCK FALSE
