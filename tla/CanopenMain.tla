---------------------------- MODULE CanopenMain ----------------------------
(***************************************************************************)
(* The application's life (src/main.cpp) with the boot wait of             *)
(* src/nmt_heartbeat.cpp, the ordered process runner of                    *)
(* src/canopen_process.cpp and the final reset of src/shutdown_process.cpp.*)
(*                                                                         *)
(* Three actors: the control thread (variable pc), the event-loop worker   *)
(* (variable worker) and the signal handler.  Lely's boot procedures are   *)
(* external: boot says whether the procedure that has not reported yet     *)
(* began before the final reset command ("early") or after it ("final"); a *)
(* new one replaces it.  What a validation process does is abstracted to   *)
(* its result; the process modules detail it.                              *)
(***************************************************************************)
EXTENDS Integers

CONSTANT MaxProcesses  \* bound: enabled validation processes of a build

ASSUME MainAssumption == MaxProcesses \in Nat

VARIABLES
    build,             \* the compile-time configuration, never changed
    pc,                \* control thread
    worker,            \* none, created, running, returned, gone
    g_loop_started,    \* g_canopen_loop_started
    g_loop_running,    \* g_canopen_loop_running
    g_stop_requested,
    shutdown,          \* context.shutdown() was called
    boot,              \* external: the boot procedure under way
    g_boot_received,
    g_boot_succeeded,
    bootOf,            \* history: the boot procedure reported last
    i,                 \* index of the process to run next
    error_count,
    startup_boot_succeeded,
    result,            \* exit status, 2 while running
    passed,            \* history: number of processes that passed
    resetStarted,      \* history: the final reset was begun
    resetVerified,     \* history: the final reset saw an accepted boot
    lostLoop           \* history: the loop ended before a stop request

loopVars == <<worker, g_loop_started, g_loop_running>>
bootVars == <<g_boot_received, g_boot_succeeded, bootOf>>
runVars == <<i, passed, startup_boot_succeeded>>
histVars == <<resetStarted, resetVerified, lostLoop>>
vars == <<build, pc, loopVars, g_stop_requested, shutdown, boot, bootVars, runVars,
          error_count, result, histVars>>

\* CANOPEN_ROLE, the number of enabled validation processes of that role
\* (kCanopenProcessCount; CANOPEN_ENABLE_NMT_MASTER_PROCESS for the slave) and
\* CANOPEN_ENABLE_FINAL_RESET_PROCESS.
Builds == [role       : {"master", "slave"},
           processes  : 0..MaxProcesses,
           finalReset : BOOLEAN]

Init ==
    /\ build \in Builds
    /\ pc = "start"
    /\ worker = "none"
    /\ g_loop_started = FALSE
    /\ g_loop_running = FALSE
    /\ g_stop_requested = FALSE
    /\ shutdown = FALSE
    /\ boot = "none"
    /\ g_boot_received = FALSE
    /\ g_boot_succeeded = FALSE
    /\ bootOf = "none"
    /\ i = 0
    /\ error_count = 0
    /\ startup_boot_succeeded = FALSE
    /\ result = 2
    /\ passed = 0
    /\ resetStarted = FALSE
    /\ resetVerified = FALSE
    /\ lostLoop = FALSE

-----------------------------------------------------------------------------
(* The signal handler and the worker thread.                               *)

signalHandler ==
    /\ pc # "exited"
    /\ g_stop_requested' = TRUE
    /\ UNCHANGED <<build, pc, loopVars, shutdown, boot, bootVars, runVars,
                   error_count, result, histVars>>

\* canopenWorker() publishes its start under g_canopen_loop_mutex.
WorkerStarts ==
    /\ worker = "created"
    /\ worker' = "running"
    /\ g_loop_started' = TRUE
    /\ g_loop_running' = TRUE
    /\ UNCHANGED <<build, pc, g_stop_requested, shutdown, boot, bootVars, runVars,
                   error_count, result, histVars>>

\* loop.run() returns: drained after Context shutdown, or on an I/O error.
LoopReturns ==
    /\ worker = "running"
    /\ worker' = "returned"
    /\ lostLoop' = (lostLoop \/ (~shutdown /\ ~g_stop_requested))
    /\ UNCHANGED <<build, pc, g_loop_started, g_loop_running, g_stop_requested,
                   shutdown, boot, bootVars, runVars, error_count, result,
                   resetStarted, resetVerified>>

\* The last stores of canopenWorker(); the thread is gone.
WorkerEnds ==
    /\ worker = "returned"
    /\ worker' = "gone"
    /\ g_loop_running' = FALSE
    /\ UNCHANGED <<build, pc, g_loop_started, g_stop_requested, shutdown, boot,
                   bootVars, runVars, error_count, result, histVars>>

-----------------------------------------------------------------------------
(* Boot procedures.                                                        *)

\* External: the node rebooted by itself, Lely starts to boot it again.
NodeReboots ==
    /\ build.role = "master"
    /\ worker = "running"
    /\ pc \notin {"start", "waitStart", "prepareBoot", "reset"}
    /\ boot' = IF pc = "finalWait" THEN "final" ELSE "early"
    /\ UNCHANGED <<build, pc, loopVars, g_stop_requested, shutdown, bootVars,
                   runVars, error_count, result, histVars>>

\* bootCallback() on the event loop; status 0 and 'L' are accepted.
bootCallback(accepted) ==
    /\ worker = "running"
    /\ boot # "none"
    /\ boot' = "none"
    /\ g_boot_received' = TRUE
    /\ g_boot_succeeded' = accepted
    /\ bootOf' = boot
    /\ UNCHANGED <<build, pc, loopVars, g_stop_requested, shutdown, runVars,
                   error_count, result, histVars>>

\* Both flags are cleared under g_boot_mutex.
prepareBootWait(from, to) ==
    /\ pc = from
    /\ pc' = to
    /\ g_boot_received' = FALSE
    /\ g_boot_succeeded' = FALSE
    /\ UNCHANGED <<build, loopVars, g_stop_requested, shutdown, boot, bootOf,
                   runVars, error_count, result, histVars>>

\* The result of waitForBootResult(): a boot that was reported decides; with
\* none reported the wait ends when its time is up.
waitForBootResult(accepted) == accepted = (g_boot_received /\ g_boot_succeeded)

-----------------------------------------------------------------------------
(* The control thread.                                                     *)

startCanopenWorker ==
    /\ pc = "start"
    /\ pc' = "waitStart"
    /\ worker' = "created"
    /\ g_loop_started' = FALSE
    /\ g_loop_running' = FALSE
    /\ UNCHANGED <<build, g_stop_requested, shutdown, boot, bootVars, runVars,
                   error_count, result, histVars>>

\* Startup was published in time.
StartObserved ==
    /\ pc = "waitStart"
    /\ g_loop_started
    /\ pc' = CASE build.role = "master" -> "prepareBoot"
               [] build.role = "slave" /\ build.processes > 0 -> "slave"
               [] build.role = "slave" /\ build.processes = 0 -> "poll"
    /\ UNCHANGED <<build, loopVars, g_stop_requested, shutdown, boot, bootVars,
                   runVars, error_count, result, histVars>>

\* The worker did not start in time: the role returns 1 after the join.
StartTimesOut ==
    /\ pc = "waitStart"
    /\ ~g_loop_started
    /\ pc' = "stop"
    /\ error_count' = error_count + 1
    /\ UNCHANGED <<build, loopVars, g_stop_requested, shutdown, boot, bootVars,
                   runVars, result, histVars>>

\* master.Reset() starts the first boot procedure.
MasterReset ==
    /\ pc = "reset"
    /\ pc' = "waitBoot"
    /\ boot' = "early"
    /\ UNCHANGED <<build, loopVars, g_stop_requested, shutdown, bootVars, runVars,
                   error_count, result, histVars>>

StartupBootWaited(accepted) ==
    /\ pc = "waitBoot"
    /\ waitForBootResult(accepted)
    /\ startup_boot_succeeded' = accepted
    /\ error_count' = IF accepted THEN error_count ELSE error_count + 1
    /\ pc' = IF accepted THEN "run" ELSE "poll"
    /\ UNCHANGED <<build, loopVars, g_stop_requested, shutdown, boot, bootVars,
                   i, passed, result, histVars>>

\* Mutant: a failed process is reported but the runner goes on.
RunOneNotFailFast(ok) ==
    /\ pc = "run"
    /\ i < build.processes
    /\ i' = i + 1
    /\ passed' = IF ok THEN passed + 1 ELSE passed
    /\ error_count' = error_count
    /\ UNCHANGED <<build, pc, loopVars, g_stop_requested, shutdown, boot, bootVars,
                   startup_boot_succeeded, result, histVars>>

\* Mutant: the loop runs one entry past the table.
RunPastTable(ok) ==
    /\ pc = "run"
    /\ i <= build.processes
    /\ i' = i + 1
    /\ passed' = IF ok THEN passed + 1 ELSE passed
    /\ error_count' = IF ok THEN error_count ELSE error_count + 1
    /\ pc' = IF ok THEN pc ELSE "poll"
    /\ UNCHANGED <<build, loopVars, g_stop_requested, shutdown, boot, bootVars,
                   startup_boot_succeeded, result, histVars>>

\* One iteration of canopenRunProcesses(): a failure ends the loop with 1.
RunProcess(ok) ==
    /\ pc = "run"
    /\ i < build.processes
    /\ i' = i + 1
    /\ passed' = IF ok THEN passed + 1 ELSE passed
    /\ error_count' = IF ok THEN error_count ELSE error_count + 1
    /\ pc' = IF ok THEN pc ELSE "poll"
    /\ UNCHANGED <<build, loopVars, g_stop_requested, shutdown, boot, bootVars,
                   startup_boot_succeeded, result, histVars>>

\* The table is exhausted (or empty).
ProcessesDone ==
    /\ pc = "run"
    /\ i = build.processes
    /\ pc' = "poll"
    /\ UNCHANGED <<build, loopVars, g_stop_requested, shutdown, boot, bootVars,
                   runVars, error_count, result, histVars>>

\* runCanopenSlave(): slave.Reset() and the NMT-master validation.
SlaveProcess(ok) ==
    /\ pc = "slave"
    /\ pc' = "check"
    /\ passed' = IF ok THEN build.processes ELSE 0
    /\ error_count' = IF ok THEN error_count ELSE error_count + 1
    /\ UNCHANGED <<build, loopVars, g_stop_requested, shutdown, boot, bootVars,
                   i, startup_boot_succeeded, result, histVars>>

\* The interactive loop, polled every 100 ms, ends.
PollEnds ==
    /\ pc = "poll"
    /\ g_stop_requested \/ ~g_loop_running
    /\ pc' = "check"
    /\ UNCHANGED <<build, loopVars, g_stop_requested, shutdown, boot, bootVars,
                   runVars, error_count, result, histVars>>

\* What follows the check of the flags: the final reset of a master build.
AfterCheck == IF build.role = "master" /\ build.finalReset THEN "final" ELSE "stop"

\* Both flags are read again after the loop, the stop flag first: a stop
\* request ends the check.
CheckStop ==
    /\ pc = "check"
    /\ pc' = IF g_stop_requested THEN AfterCheck ELSE "checkLoop"
    /\ UNCHANGED <<build, loopVars, g_stop_requested, shutdown, boot, bootVars,
                   runVars, error_count, result, histVars>>

\* Mutant: the check trusts the stop flag alone.
CheckLoopForgotten ==
    /\ pc = "checkLoop"
    /\ pc' = AfterCheck
    /\ UNCHANGED <<build, loopVars, g_stop_requested, shutdown, boot, bootVars,
                   runVars, error_count, result, histVars>>

\* A loop that does not run any more is an error.
CheckLoop ==
    /\ pc = "checkLoop"
    /\ error_count' = IF g_loop_running THEN error_count ELSE error_count + 1
    /\ pc' = AfterCheck
    /\ UNCHANGED <<build, loopVars, g_stop_requested, shutdown, boot, bootVars,
                   runVars, result, histVars>>

FinalResetDecision ==
    /\ pc = "final"
    /\ pc' = IF g_loop_running /\ startup_boot_succeeded
             THEN "finalPrepare" ELSE "stop"
    /\ resetStarted' = (pc' = "finalPrepare")
    /\ UNCHANGED <<build, loopVars, g_stop_requested, shutdown, boot, bootVars,
                   runVars, error_count, result, resetVerified, lostLoop>>

\* issueNmtCommand(RESET_COMM): Lely accepts the command or throws.
FinalCommand(accepted) ==
    /\ pc = "finalCommand"
    /\ pc' = IF accepted THEN "finalWait" ELSE "stop"
    /\ boot' = IF accepted THEN "final" ELSE boot
    /\ error_count' = IF accepted THEN error_count ELSE error_count + 1
    /\ UNCHANGED <<build, loopVars, g_stop_requested, shutdown, bootVars, runVars,
                   result, histVars>>

FinalBootWaited(accepted) ==
    /\ pc = "finalWait"
    /\ waitForBootResult(accepted)
    /\ resetVerified' = accepted
    /\ error_count' = IF accepted THEN error_count ELSE error_count + 1
    /\ pc' = "stop"
    /\ UNCHANGED <<build, loopVars, g_stop_requested, shutdown, boot, bootVars,
                   runVars, result, resetStarted, lostLoop>>

\* Mutant: stopCanopenWorker() joins without stopping the pending I/O.
StopWithoutShutdown ==
    /\ pc = "stop"
    /\ pc' = "join"
    /\ UNCHANGED <<build, loopVars, g_stop_requested, shutdown, boot, bootVars,
                   runVars, error_count, result, histVars>>

\* stopCanopenWorker(), first half: context.shutdown().
StopContext ==
    /\ pc = "stop"
    /\ shutdown' = TRUE
    /\ pc' = "join"
    /\ UNCHANGED <<build, loopVars, g_stop_requested, boot, bootVars, runVars,
                   error_count, result, histVars>>

\* Second half: join the worker; the role's objects leave scope.
JoinAndExit ==
    /\ pc = "join"
    /\ worker = "gone"
    /\ pc' = "exited"
    /\ result' = IF error_count = 0 THEN 0 ELSE 1
    /\ UNCHANGED <<build, loopVars, g_stop_requested, shutdown, boot, bootVars,
                   runVars, error_count, histVars>>

\* The process has ended.
Exited == pc = "exited" /\ UNCHANGED vars

Control ==
    \/ startCanopenWorker \/ StartObserved \/ StartTimesOut
    \/ prepareBootWait("prepareBoot", "reset")
    \/ MasterReset
    \/ \E ok \in BOOLEAN :
          \/ StartupBootWaited(ok) \/ RunProcess(ok) \/ SlaveProcess(ok)
          \/ FinalCommand(ok) \/ FinalBootWaited(ok)
    \/ ProcessesDone \/ PollEnds \/ CheckStop \/ CheckLoop \/ FinalResetDecision
    \/ prepareBootWait("finalPrepare", "finalCommand")
    \/ StopContext \/ JoinAndExit

Next ==
    \/ Control
    \/ signalHandler
    \/ WorkerStarts \/ LoopReturns \/ WorkerEnds
    \/ NodeReboots
    \/ \E ok \in BOOLEAN : bootCallback(ok)
    \/ Exited

\* Every wait of the control thread is bounded and the scheduler runs both
\* threads; loop.run() returns once the Context is shut down.
Fairness ==
    /\ WF_vars(Control)
    /\ WF_vars(WorkerStarts)
    /\ WF_vars(shutdown /\ LoopReturns)
    /\ WF_vars(WorkerEnds)

Spec == Init /\ [][Next]_vars /\ Fairness

-----------------------------------------------------------------------------
(* Properties.                                                             *)

Pcs == {"start", "waitStart", "prepareBoot", "reset", "waitBoot", "run",
        "slave", "poll", "check", "checkLoop", "final", "finalPrepare",
        "finalCommand", "finalWait", "stop", "join", "exited"}

Boots == {"none", "early", "final"}

\* Type correctness.
TypeOK ==
    /\ build \in Builds
    /\ pc \in Pcs
    /\ worker \in {"none", "created", "running", "returned", "gone"}
    /\ g_loop_started \in BOOLEAN /\ g_loop_running \in BOOLEAN
    /\ g_stop_requested \in BOOLEAN /\ shutdown \in BOOLEAN
    /\ boot \in Boots
    /\ g_boot_received \in BOOLEAN /\ g_boot_succeeded \in BOOLEAN
    /\ bootOf \in Boots
    /\ i \in 0..MaxProcesses
    /\ error_count \in Nat
    /\ startup_boot_succeeded \in BOOLEAN
    /\ result \in 0..2
    /\ passed \in Nat
    /\ resetStarted \in BOOLEAN /\ resetVerified \in BOOLEAN
    /\ lostLoop \in BOOLEAN

\* Exit status 0 is earned: the startup boot was accepted (master role), every
\* enabled process ran and passed, and a final reset that was started (the loop
\* still runs) ended in an accepted boot.
ZeroExitIsEarned ==
    (pc = "exited" /\ result = 0) =>
        /\ passed = build.processes
        /\ build.role = "master" => startup_boot_succeeded
        /\ resetStarted => resetVerified

\* Nobody asked the program to stop, and yet it ended with status 0: only the
\* slave build with its validation may do that.  Every other build stays until
\* Ctrl+C, so it ends unasked because the loop died or did not start in time, and
\* has to say so, however the worker's start and end and the signal fall between
\* the reads of the flags in startCanopenWorker(), in the poll loop and after it.
UnaskedExitIsFailure ==
    (pc = "exited" /\ result = 0 /\ ~g_stop_requested) =>
        build.role = "slave" /\ build.processes > 0

\* Whatever happens on the bus, a stop request, an event loop that died or a
\* worker that had not started in time (it may start later) ends the process: no wait of the control thread is unbounded, and the join is
\* preceded by the shutdown of the Context that makes loop.run() return.
StopLeadsToExit == (g_stop_requested \/ lostLoop \/ pc = "stop") ~> (pc = "exited")

\* Comment of prepareBootWait(): "no result from an earlier Boot procedure can
\* satisfy a later reset/startup wait".
ResetVerifiedByItsOwnBoot ==
    [][(resetVerified' /\ ~resetVerified) => bootOf = "final"]_vars
=============================================================================
