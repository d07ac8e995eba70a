SPECIFICATION Spec
CONSTANTS
    Configs <- MCConfigs
    enabled_tests <- MCModules
    ReportLines <- MCReportLines
INVARIANTS RequiredIsTracked TablesAreSound PassedRanEverything
CHECK_DEADLOCK FALSE
