------------------------------- MODULE Bitcoind -------------------------------
(***************************************************************************)
(* The daemon entry point, src/src/bitcoind.cpp: main() calls AppInit(),  *)
(* which first runs a coin-selection benchmark and returns false, then     *)
(* (in a build without that block) parses the command line, reads or      *)
(* copies the configuration, selects the network, may fork into a daemon, *)
(* calls AppInit2 and either interrupts the thread group at once (start-  *)
(* up failure) or waits in WaitForShutdown until a shutdown is requested, *)
(* interrupts and joins the group, then calls Shutdown().                 *)
(*                                                                         *)
(* What the process cannot control is an input: the command line, the    *)
(* files and the outcome of the calls not in the repository (fork,        *)
(* AppInit2) are one record of Environments, fixed for a run.  Besides    *)
(* the process there are two actors: whoever requests the shutdown (a     *)
(* signal handler or the stop RPC) and the threads AppInit2 started.       *)
(***************************************************************************)
EXTENDS Naturals

CONSTANTS
    Builds,          \* TRUE: the benchmark block of AppInit is compiled in (as in the source)
    Platforms,       \* "WIN32" or "POSIX"
    Environments,    \* the possible inputs of one run, see EnvironmentType
    BenchmarkRuns    \* the benchmark loop bound (10 in the source)

EnvironmentType ==
    [help : BOOLEAN, dataDirExists : BOOLEAN, conf : {"present", "missing", "unreadable"},
     paramsOk : BOOLEAN, commandLine : BOOLEAN, daemon : BOOLEAN,
     forkOk : BOOLEAN, appInit2 : {"ok", "fails", "throws"}]

VARIABLES
    benchmark, platform, env,   \* the build, the machine and the inputs of this run
    pc,                 \* where the main (or, after fork, the child) process is
    benchRun,           \* the benchmark loop counter
    stdoutTo,           \* "console", or "myfile" after freopen
    fRet,               \* AppInit's result
    fShutdown,          \* WaitForShutdown's local copy of ShutdownRequested()
    shutdownRequested,  \* the flag StartShutdown raises
    threads,            \* the thread group: "none", "running", "interrupted", "exited"
    shutdownCalled,     \* Shutdown() has run
    exitCode,           \* main's return value, or exit(1), once pc = "exited"
    forked              \* fork() succeeded: the parent returned true and exited 0

inputs == <<benchmark, platform, env>>
vars == <<inputs, pc, benchRun, stdoutTo, fRet, fShutdown, shutdownRequested, threads,
          shutdownCalled, exitCode, forked>>

Return(v) == pc' = "returned" /\ fRet' = v

Init ==
    /\ benchmark \in Builds /\ platform \in Platforms /\ env \in Environments
    /\ pc = IF benchmark THEN "benchmark" ELSE "parse"
    /\ benchRun = 0
    /\ stdoutTo = "console"
    /\ fRet = FALSE
    /\ fShutdown = FALSE
    /\ shutdownRequested = FALSE
    /\ threads = "none"
    /\ shutdownCalled = FALSE
    /\ exitCode = 0
    /\ forked = FALSE

------------------------------------------------------------------------------
(* Mutant: the loop runs while run <= 10. *)
BenchmarkRun_OffByOne ==
    /\ pc = "benchmark" /\ benchRun <= BenchmarkRuns
    /\ stdoutTo' = "myfile"
    /\ benchRun' = benchRun + 1
    /\ UNCHANGED <<inputs, pc, fRet, fShutdown, shutdownRequested, threads, shutdownCalled,
                   exitCode, forked>>

(* The benchmark block: stdout goes to myfile.txt, then each run solves   *)
(* the same 99 coins with Sliding Window and Branch & Bound synchronously *)
(* and prints the time; the selections are discarded.                    *)
BenchmarkRun ==
    /\ pc = "benchmark" /\ benchRun < BenchmarkRuns
    /\ stdoutTo' = "myfile"
    /\ benchRun' = benchRun + 1
    /\ UNCHANGED <<inputs, pc, fRet, fShutdown, shutdownRequested, threads, shutdownCalled,
                   exitCode, forked>>

(* The block ends with return false, before the thread group exists. *)
BenchmarkReturn ==
    /\ pc = "benchmark" /\ benchRun = BenchmarkRuns
    /\ Return(FALSE)
    /\ UNCHANGED <<inputs, benchRun, stdoutTo, fShutdown, shutdownRequested, threads,
                   shutdownCalled, exitCode, forked>>

Unchanged(pcNext) ==
    /\ pc' = pcNext
    /\ UNCHANGED <<inputs, benchRun, stdoutTo, fRet, fShutdown, shutdownRequested, threads,
                   shutdownCalled, exitCode, forked>>

Sequential(ok, pcNext) ==
    \/ ok /\ Unchanged(pcNext)
    \/ ~ok /\ Return(FALSE)
           /\ UNCHANGED <<inputs, benchRun, stdoutTo, fShutdown, shutdownRequested, threads,
                          shutdownCalled, exitCode, forked>>

(* -?, -h, -help or -version print the usage and return false. *)
ParseParameters == pc = "parse" /\ Sequential(~env.help, "datadir")

CheckDataDir == pc = "datadir" /\ Sequential(env.dataDirExists, "config")

(* ReadConfigFile; missing_zcash_conf is handled apart, any other        *)
(* exception returns false.                                               *)
ReadConfigFile ==
    /\ pc = "config"
    /\ IF env.conf = "missing" THEN Unchanged("copyConfig")
       ELSE Sequential(env.conf = "present", "params")

(* A missing zen.conf: WIN32 explains and returns false; elsewhere the   *)
(* example file is copied and AppInit returns false asking for a restart, *)
(* or the copy fails and it returns false as well.                       *)
CopyConfigFile ==
    /\ pc = "copyConfig"
    /\ Return(FALSE)
    /\ UNCHANGED <<inputs, benchRun, stdoutTo, fShutdown, shutdownRequested, threads,
                   shutdownCalled, exitCode, forked>>

SelectParamsFromCommandLine == pc = "params" /\ Sequential(env.paramsOk, "cmdline")

(* A non-option argument: exit(1) at once, neither returning nor         *)
(* calling Shutdown.                                                      *)
CommandLine ==
    /\ pc = "cmdline"
    /\ IF env.commandLine
       THEN /\ pc' = "exited" /\ exitCode' = 1
            /\ UNCHANGED <<inputs, benchRun, stdoutTo, fRet, fShutdown, shutdownRequested,
                           threads, shutdownCalled, forked>>
       ELSE Unchanged("daemon")

(* -daemon outside WIN32: fork; the parent returns true and exits 0, the *)
(* child goes on (a failing setsid is only reported).                    *)
Daemonize ==
    /\ pc = "daemon"
    /\ IF platform = "POSIX" /\ env.daemon
       THEN IF env.forkOk
            THEN /\ forked' = TRUE /\ pc' = "appInit2"
                 /\ UNCHANGED <<inputs, benchRun, stdoutTo, fRet, fShutdown, shutdownRequested,
                                threads, shutdownCalled, exitCode>>
            ELSE Sequential(FALSE, "appInit2")
       ELSE Unchanged("appInit2")

(* AppInit2 may have started threads of the group before it fails; an    *)
(* exception is caught and leaves fRet false.                             *)
CallAppInit2 ==
    /\ pc = "appInit2"
    /\ IF env.appInit2 = "ok"
       THEN /\ fRet' = TRUE /\ threads' = "running" /\ pc' = "wait"
       ELSE /\ fRet' = FALSE /\ threads' \in {"none", "running"} /\ pc' = "interrupt"
    /\ UNCHANGED <<inputs, benchRun, stdoutTo, fShutdown, shutdownRequested, shutdownCalled,
                   exitCode, forked>>

Interrupted(t) == IF t = "running" THEN "interrupted" ELSE t

(* Start-up failed: Interrupt(threadGroup), deliberately without join.   *)
InterruptOnFailure ==
    /\ pc = "interrupt"
    /\ threads' = Interrupted(threads)
    /\ pc' = "shutdown"
    /\ UNCHANGED <<inputs, benchRun, stdoutTo, fRet, fShutdown, shutdownRequested,
                   shutdownCalled, exitCode, forked>>

(* WaitForShutdown, entered after a successful start: the flag is read   *)
(* once before the loop.                                                  *)
WaitForShutdown ==
    /\ pc = "wait"
    /\ fShutdown' = shutdownRequested
    /\ pc' = "polling"
    /\ UNCHANGED <<inputs, benchRun, stdoutTo, fRet, shutdownRequested, threads,
                   shutdownCalled, exitCode, forked>>

(* Mutant: the loop sleeps without reading the flag again. *)
Poll_Stale ==
    /\ pc = "polling" /\ ~fShutdown
    /\ fShutdown' = fShutdown
    /\ UNCHANGED <<inputs, pc, benchRun, stdoutTo, fRet, shutdownRequested, threads,
                   shutdownCalled, exitCode, forked>>

(* MilliSleep(200), then fShutdown = ShutdownRequested(). *)
Poll ==
    /\ pc = "polling" /\ ~fShutdown
    /\ fShutdown' = shutdownRequested
    /\ UNCHANGED <<inputs, pc, benchRun, stdoutTo, fRet, shutdownRequested, threads,
                   shutdownCalled, exitCode, forked>>

(* The loop is left: Interrupt on the group. *)
InterruptOnShutdown ==
    /\ pc = "polling" /\ fShutdown
    /\ threads' = Interrupted(threads)
    /\ pc' = "joining"
    /\ UNCHANGED <<inputs, benchRun, stdoutTo, fRet, fShutdown, shutdownRequested,
                   shutdownCalled, exitCode, forked>>

(* Mutant: join_all returns without waiting for the threads. *)
JoinAll_NoWait ==
    /\ pc = "joining"
    /\ Unchanged("shutdown")

(* threadGroup->join_all() returns once every thread has ended. *)
JoinAll ==
    /\ pc = "joining"
    /\ threads \in {"none", "exited"}
    /\ Unchanged("shutdown")

CallShutdown ==
    /\ pc = "shutdown"
    /\ shutdownCalled' = TRUE
    /\ Return(fRet)
    /\ UNCHANGED <<inputs, benchRun, stdoutTo, fShutdown, shutdownRequested, threads,
                   exitCode, forked>>

(* main: return AppInit(argc, argv) ? 0 : 1. *)
MainReturn ==
    /\ pc = "returned"
    /\ pc' = "exited"
    /\ exitCode' = IF fRet THEN 0 ELSE 1
    /\ UNCHANGED <<inputs, benchRun, stdoutTo, fRet, fShutdown, shutdownRequested, threads,
                   shutdownCalled, forked>>

AppInit ==
    \/ BenchmarkRun \/ BenchmarkReturn \/ ParseParameters \/ CheckDataDir
    \/ ReadConfigFile \/ CopyConfigFile \/ SelectParamsFromCommandLine \/ CommandLine
    \/ Daemonize \/ CallAppInit2 \/ InterruptOnFailure \/ WaitForShutdown \/ Poll
    \/ InterruptOnShutdown \/ JoinAll \/ CallShutdown \/ MainReturn

------------------------------------------------------------------------------
(* The other actors.  StartShutdown may be called at any time, from a     *)
(* signal handler or the stop RPC.                                        *)
StartShutdown ==
    /\ ~shutdownRequested
    /\ shutdownRequested' = TRUE
    /\ UNCHANGED <<inputs, pc, benchRun, stdoutTo, fRet, fShutdown, threads,
                   shutdownCalled, exitCode, forked>>

(* An interrupted thread reaches an interruption point and ends. *)
ThreadExits ==
    /\ threads = "interrupted"
    /\ threads' = "exited"
    /\ UNCHANGED <<inputs, pc, benchRun, stdoutTo, fRet, fShutdown, shutdownRequested,
                   shutdownCalled, exitCode, forked>>

Next == AppInit \/ StartShutdown \/ ThreadExits

(* The main thread runs its code to the end (WaitForShutdown's loop      *)
(* wakes every 200 ms), and the group's threads honour Interrupt.  No    *)
(* fairness for StartShutdown: nobody has to ask the daemon to stop.     *)
Spec == Init /\ [][Next]_vars /\ WF_vars(AppInit) /\ WF_vars(ThreadExits)

------------------------------------------------------------------------------
TypeOK ==
    /\ benchmark \in BOOLEAN /\ platform \in {"WIN32", "POSIX"} /\ env \in EnvironmentType
    /\ pc \in {"benchmark", "parse", "datadir", "config", "copyConfig", "params", "cmdline",
               "daemon", "appInit2", "interrupt", "wait", "polling", "joining", "shutdown",
               "returned", "exited"}
    /\ benchRun \in 0..BenchmarkRuns
    /\ stdoutTo \in {"console", "myfile"}
    /\ fRet \in BOOLEAN /\ fShutdown \in BOOLEAN /\ shutdownRequested \in BOOLEAN
    /\ threads \in {"none", "running", "interrupted", "exited"}
    /\ shutdownCalled \in BOOLEAN
    /\ exitCode \in {0, 1} /\ forked \in BOOLEAN

(* Shutdown() never tears the node down under a running thread of the   *)
(* group: after a successful start WaitForShutdown has interrupted and   *)
(* joined every thread AppInit2 started, whenever the shutdown was       *)
(* requested; after a failed start, where the code deliberately skips    *)
(* the join, every thread AppInit2 left behind has been interrupted.     *)
GroupStoppedBeforeShutdown ==
    pc = "shutdown" => IF fRet THEN threads \in {"none", "exited"} ELSE threads # "running"

(* A requested shutdown is honoured: whichever point of start-up the     *)
(* process is at, and even if the request came before WaitForShutdown   *)
(* began polling, the process ends.                                       *)
ShutdownTerminates == shutdownRequested ~> pc = "exited"

(* With a valid command line and configuration and a successful          *)
(* AppInit2, zend starts: it reaches WaitForShutdown.                    *)
NodeStarts == <>(pc = "polling")

==============================================================================
