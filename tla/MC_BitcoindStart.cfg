CONSTANTS
    Builds = {TRUE}
    Platforms = {"POSIX"}
    Environments <- ValidStart
    BenchmarkRuns = 10

SPECIFICATION Spec
\* The process ends: main returns.
CHECK_DEADLOCK FALSE

PROPERTIES
    NodeStarts
