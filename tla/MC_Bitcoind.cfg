CONSTANTS
    Builds = {TRUE, FALSE}
    Platforms = {"WIN32", "POSIX"}
    Environments <- MCEnvironments
    BenchmarkRuns = 10

SPECIFICATION Spec
\* The process ends: main returns or exit(1) is called.
CHECK_DEADLOCK FALSE

INVARIANTS
    TypeOK
    GroupStoppedBeforeShutdown

PROPERTIES
    ShutdownTerminates
