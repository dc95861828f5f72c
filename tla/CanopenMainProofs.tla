-------------------------- MODULE CanopenMainProofs --------------------------
(***************************************************************************)
(* Proofs about the application's life, for every number of validation     *)
(* processes, every interleaving of the threads and of the signal handler. *)
(*                                                                         *)
(* ZeroExitIsEarned speaks about the end only; the inductive invariant     *)
(* Earned says for each place of the control thread what a zero            *)
(* error_count has already established there.  UnaskedExitIsFailure needs  *)
(* that the loop flag cannot rise again once it was seen low: Asked says   *)
(* what the flags still tell at each place, whoever moved in between.      *)
(***************************************************************************)
EXTENDS CanopenMain, TLAPS

Early == {"start", "waitStart", "prepareBoot", "reset", "waitBoot"}
MasterOnly == {"prepareBoot", "reset", "waitBoot", "run", "final",
               "finalPrepare", "finalCommand", "finalWait"}
Resetting == {"finalPrepare", "finalCommand", "finalWait"}
Ending == {"stop", "join", "exited"}

Earned ==
    /\ pc \in MasterOnly => build.role = "master"
    /\ pc \in Early => i = 0 /\ passed = 0
    /\ (error_count = 0 /\ pc \notin Early /\ build.role = "master")
          => startup_boot_succeeded
    /\ (error_count = 0 /\ pc = "run") => passed = i
    /\ (error_count = 0 /\ pc \notin Early \cup {"run", "slave"})
          => passed = build.processes
    /\ pc \notin Resetting \cup Ending => ~resetStarted
    /\ (error_count = 0 /\ pc \in Ending /\ resetStarted) => resetVerified
    /\ i <= build.processes

Ended == (pc = "exited" /\ result = 0) => error_count = 0

\* The builds that end by themselves.
EndsAlone == build.role = "slave" /\ build.processes > 0

Asked ==
    /\ pc = "slave" => EndsAlone
    /\ worker \in {"none", "created"} => ~g_loop_started
    /\ pc \notin {"start", "waitStart"} \cup Ending => g_loop_started
    /\ (pc \in {"check", "checkLoop"} /\ ~EndsAlone)
          => (g_stop_requested \/ ~g_loop_running)
    /\ (error_count = 0 /\ pc \in {"final"} \cup Resetting \cup Ending /\ ~EndsAlone)
          => g_stop_requested

IInv == TypeOK /\ Earned /\ Ended /\ Asked

\* The program starts with the invariant.
LEMMA InitIInv == Init => IInv
  <1> SUFFICES ASSUME Init PROVE IInv
    OBVIOUS
  <1> USE MainAssumption DEF Init
  <1>0. i \in 0..MaxProcesses /\ error_count \in Nat /\ passed \in Nat /\ result \in 0..2
    BY SMT
  <1>1. TypeOK
    BY <1>0, ZenonT(60) DEF TypeOK, Pcs, Boots
  <1>2. Earned /\ Ended
    BY DEF Earned, Ended, Builds, Early, MasterOnly, Resetting, Ending
  <1>3. Asked
    BY DEF Asked, Resetting, Ending
  <1> QED
    BY <1>1, <1>2, <1>3 DEF IInv

\* The control thread's steps keep the invariant.
LEMMA ControlIInv == IInv /\ Control => IInv'
  <1> SUFFICES ASSUME IInv, Control PROVE IInv'
    OBVIOUS
  <1>0. TypeOK /\ Earned /\ Ended /\ Asked /\ MaxProcesses \in Nat
    BY MainAssumption DEF IInv
  <1> USE DEF loopVars, bootVars, runVars, histVars
  <1>1. CASE startCanopenWorker
    <2>1. TypeOK'
      BY <1>0, <1>1, ZenonT(60) DEF startCanopenWorker, TypeOK, Pcs
    <2>2. Earned'
      BY <1>0, <1>1
         DEF startCanopenWorker, Earned, TypeOK, Builds, Pcs, Boots, Early, MasterOnly, Resetting, Ending
    <2>3. Ended'
      BY <1>0, <1>1 DEF startCanopenWorker, Ended
    <2>4. Asked'
      BY <1>0, <1>1
         DEF startCanopenWorker, Asked, EndsAlone, TypeOK, Builds, Pcs, Early,
             MasterOnly, Resetting, Ending, Earned
    <2> QED
      BY <2>1, <2>2, <2>3, <2>4 DEF IInv
  <1>2. CASE StartObserved
    <2>1. TypeOK'
      BY <1>0, <1>2 DEF StartObserved, TypeOK, Builds, Pcs, Boots, waitForBootResult
    <2>2. Earned'
      BY <1>0, <1>2
         DEF StartObserved, Earned, TypeOK, Builds, Pcs, Boots, Early, MasterOnly, Resetting, Ending
    <2>3. Ended'
      BY <1>0, <1>2 DEF StartObserved, TypeOK, Builds, Ended
    <2>4. Asked'
      BY <1>0, <1>2
         DEF StartObserved, Asked, EndsAlone, TypeOK, Builds, Pcs, Early,
             MasterOnly, Resetting, Ending, Earned
    <2> QED
      BY <2>1, <2>2, <2>3, <2>4 DEF IInv
  <1>3. CASE StartTimesOut
    <2>1. TypeOK'
      BY <1>0, <1>3 DEF StartTimesOut, TypeOK, Builds, Pcs, Boots, waitForBootResult
    <2>2. Earned'
      BY <1>0, <1>3
         DEF StartTimesOut, Earned, TypeOK, Builds, Pcs, Boots, Early, MasterOnly, Resetting, Ending
    <2>3. Ended'
      BY <1>0, <1>3 DEF StartTimesOut, Ended
    <2>4. Asked'
      BY <1>0, <1>3
         DEF StartTimesOut, Asked, EndsAlone, TypeOK, Builds, Pcs, Early,
             MasterOnly, Resetting, Ending, Earned
    <2> QED
      BY <2>1, <2>2, <2>3, <2>4 DEF IInv
  <1>4. CASE MasterReset
    <2>1. TypeOK'
      BY <1>0, <1>4 DEF MasterReset, TypeOK, Builds, Pcs, Boots, waitForBootResult
    <2>2. Earned'
      BY <1>0, <1>4
         DEF MasterReset, Earned, TypeOK, Builds, Pcs, Boots, Early, MasterOnly, Resetting, Ending
    <2>3. Ended'
      BY <1>0, <1>4 DEF MasterReset, Ended
    <2>4. Asked'
      BY <1>0, <1>4
         DEF MasterReset, Asked, EndsAlone, TypeOK, Builds, Pcs, Early,
             MasterOnly, Resetting, Ending, Earned
    <2> QED
      BY <2>1, <2>2, <2>3, <2>4 DEF IInv
  <1>5. ASSUME NEW ok \in BOOLEAN, StartupBootWaited(ok)
        PROVE  IInv'
    <2>1. TypeOK'
      BY <1>0, <1>5 DEF StartupBootWaited, TypeOK, Builds, Pcs, Boots, waitForBootResult
    <2>2. Earned'
      BY <1>0, <1>5
         DEF StartupBootWaited, Earned, TypeOK, Builds, Pcs, Boots, Early, MasterOnly, Resetting, Ending
    <2>3. Ended'
      BY <1>0, <1>5 DEF StartupBootWaited, Ended
    <2>4. Asked'
      BY <1>0, <1>5
         DEF StartupBootWaited, Asked, EndsAlone, TypeOK, Builds, Pcs, Early,
             MasterOnly, Resetting, Ending, Earned
    <2> QED
      BY <2>1, <2>2, <2>3, <2>4 DEF IInv
  <1>6. ASSUME NEW ok \in BOOLEAN, RunProcess(ok)
        PROVE  IInv'
    <2>1. TypeOK'
      BY <1>0, <1>6 DEF RunProcess, TypeOK, Builds, Pcs, Boots, waitForBootResult
    <2>2. Earned'
      BY <1>0, <1>6
         DEF RunProcess, Earned, TypeOK, Builds, Pcs, Boots, Early, MasterOnly, Resetting, Ending
    <2>3. Ended'
      BY <1>0, <1>6 DEF RunProcess, Ended
    <2>4. Asked'
      BY <1>0, <1>6
         DEF RunProcess, Asked, EndsAlone, TypeOK, Builds, Pcs, Early,
             MasterOnly, Resetting, Ending, Earned
    <2> QED
      BY <2>1, <2>2, <2>3, <2>4 DEF IInv
  <1>7. ASSUME NEW ok \in BOOLEAN, SlaveProcess(ok)
        PROVE  IInv'
    <2>1. TypeOK'
      BY <1>0, <1>7 DEF SlaveProcess, TypeOK, Builds, Pcs, Boots, waitForBootResult
    <2>2. Earned'
      BY <1>0, <1>7
         DEF SlaveProcess, Earned, TypeOK, Builds, Pcs, Boots, Early, MasterOnly, Resetting, Ending
    <2>3. Ended'
      BY <1>0, <1>7 DEF SlaveProcess, Ended
    <2>4. Asked'
      BY <1>0, <1>7
         DEF SlaveProcess, Asked, EndsAlone, TypeOK, Builds, Pcs, Early,
             MasterOnly, Resetting, Ending, Earned
    <2> QED
      BY <2>1, <2>2, <2>3, <2>4 DEF IInv
  <1>8. ASSUME NEW ok \in BOOLEAN, FinalCommand(ok)
        PROVE  IInv'
    <2>1. TypeOK'
      BY <1>0, <1>8 DEF FinalCommand, TypeOK, Builds, Pcs, Boots, waitForBootResult
    <2>2. Earned'
      BY <1>0, <1>8
         DEF FinalCommand, Earned, TypeOK, Builds, Pcs, Boots, Early, MasterOnly, Resetting, Ending
    <2>3. Ended'
      BY <1>0, <1>8 DEF FinalCommand, Ended
    <2>4. Asked'
      BY <1>0, <1>8
         DEF FinalCommand, Asked, EndsAlone, TypeOK, Builds, Pcs, Early,
             MasterOnly, Resetting, Ending, Earned
    <2> QED
      BY <2>1, <2>2, <2>3, <2>4 DEF IInv
  <1>9. ASSUME NEW ok \in BOOLEAN, FinalBootWaited(ok)
        PROVE  IInv'
    <2>1. TypeOK'
      BY <1>0, <1>9 DEF FinalBootWaited, TypeOK, Builds, Pcs, Boots, waitForBootResult
    <2>2. Earned'
      BY <1>0, <1>9
         DEF FinalBootWaited, Earned, TypeOK, Builds, Pcs, Boots, Early, MasterOnly, Resetting, Ending
    <2>3. Ended'
      BY <1>0, <1>9 DEF FinalBootWaited, Ended
    <2>4. Asked'
      BY <1>0, <1>9
         DEF FinalBootWaited, Asked, EndsAlone, TypeOK, Builds, Pcs, Early,
             MasterOnly, Resetting, Ending, Earned
    <2> QED
      BY <2>1, <2>2, <2>3, <2>4 DEF IInv
  <1>10. CASE ProcessesDone
    <2>1. TypeOK'
      BY <1>0, <1>10 DEF ProcessesDone, TypeOK, Builds, Pcs, Boots, waitForBootResult
    <2>2. Earned'
      BY <1>0, <1>10
         DEF ProcessesDone, Earned, TypeOK, Builds, Pcs, Boots, Early, MasterOnly, Resetting, Ending
    <2>3. Ended'
      BY <1>0, <1>10 DEF ProcessesDone, Ended
    <2>4. Asked'
      BY <1>0, <1>10
         DEF ProcessesDone, Asked, EndsAlone, TypeOK, Builds, Pcs, Early,
             MasterOnly, Resetting, Ending, Earned
    <2> QED
      BY <2>1, <2>2, <2>3, <2>4 DEF IInv
  <1>11. CASE PollEnds
    <2>1. TypeOK'
      BY <1>0, <1>11 DEF PollEnds, TypeOK, Builds, Pcs, Boots, waitForBootResult
    <2>2. Earned'
      BY <1>0, <1>11
         DEF PollEnds, Earned, TypeOK, Builds, Pcs, Boots, Early, MasterOnly, Resetting, Ending
    <2>3. Ended'
      BY <1>0, <1>11 DEF PollEnds, Ended
    <2>4. Asked'
      BY <1>0, <1>11
         DEF PollEnds, Asked, EndsAlone, TypeOK, Builds, Pcs, Early,
             MasterOnly, Resetting, Ending, Earned
    <2> QED
      BY <2>1, <2>2, <2>3, <2>4 DEF IInv
  <1>12. CASE CheckLoop
    <2>1. TypeOK'
      BY <1>0, <1>12 DEF CheckLoop, AfterCheck, TypeOK, Builds, Pcs, Boots, waitForBootResult
    <2>2. Earned'
      BY <1>0, <1>12
         DEF CheckLoop, AfterCheck, Earned, TypeOK, Builds, Pcs, Boots, Early, MasterOnly, Resetting, Ending
    <2>3. Ended'
      BY <1>0, <1>12 DEF CheckLoop, AfterCheck, Ended
    <2>4. Asked'
      BY <1>0, <1>12
         DEF CheckLoop, AfterCheck, Asked, EndsAlone, TypeOK, Builds, Pcs, Early,
             MasterOnly, Resetting, Ending, Earned
    <2> QED
      BY <2>1, <2>2, <2>3, <2>4 DEF IInv
  <1>13. CASE FinalResetDecision
    <2>1. TypeOK'
      BY <1>0, <1>13 DEF FinalResetDecision, TypeOK, Builds, Pcs, Boots, waitForBootResult
    <2>2. Earned'
      BY <1>0, <1>13
         DEF FinalResetDecision, Earned, TypeOK, Builds, Pcs, Boots, Early, MasterOnly, Resetting, Ending
    <2>3. Ended'
      BY <1>0, <1>13 DEF FinalResetDecision, Ended
    <2>4. Asked'
      BY <1>0, <1>13
         DEF FinalResetDecision, Asked, EndsAlone, TypeOK, Builds, Pcs, Early,
             MasterOnly, Resetting, Ending, Earned
    <2> QED
      BY <2>1, <2>2, <2>3, <2>4 DEF IInv
  <1>14. CASE StopContext
    <2>1. TypeOK'
      BY <1>0, <1>14 DEF StopContext, TypeOK, Builds, Pcs, Boots, waitForBootResult
    <2>2. Earned'
      BY <1>0, <1>14
         DEF StopContext, Earned, TypeOK, Builds, Pcs, Boots, Early, MasterOnly, Resetting, Ending
    <2>3. Ended'
      BY <1>0, <1>14 DEF StopContext, Ended
    <2>4. Asked'
      BY <1>0, <1>14
         DEF StopContext, Asked, EndsAlone, TypeOK, Builds, Pcs, Early,
             MasterOnly, Resetting, Ending, Earned
    <2> QED
      BY <2>1, <2>2, <2>3, <2>4 DEF IInv
  <1>15. CASE JoinAndExit
    <2>1. TypeOK'
      BY <1>0, <1>15 DEF JoinAndExit, TypeOK, Builds, Pcs, Boots, waitForBootResult
    <2>2. Earned'
      BY <1>0, <1>15
         DEF JoinAndExit, Earned, TypeOK, Builds, Pcs, Boots, Early, MasterOnly, Resetting, Ending
    <2>3. Ended'
      BY <1>0, <1>15 DEF JoinAndExit, Ended
    <2>4. Asked'
      BY <1>0, <1>15
         DEF JoinAndExit, Asked, EndsAlone, TypeOK, Builds, Pcs, Early,
             MasterOnly, Resetting, Ending, Earned
    <2> QED
      BY <2>1, <2>2, <2>3, <2>4 DEF IInv
  <1>16. CASE prepareBootWait("prepareBoot", "reset")
    <2>1. TypeOK'
      BY <1>0, <1>16, ZenonT(60) DEF prepareBootWait, TypeOK, Pcs
    <2>2. Earned' /\ Ended'
      BY <1>0, <1>16
         DEF prepareBootWait, Earned, Ended, Early, MasterOnly, Resetting, Ending
    <2>3. Asked'
      BY <1>0, <1>16
         DEF prepareBootWait, Asked, EndsAlone, TypeOK, Builds, Pcs, Early,
             MasterOnly, Resetting, Ending, Earned
    <2> QED
      BY <2>1, <2>2, <2>3 DEF IInv
  <1>17. CASE prepareBootWait("finalPrepare", "finalCommand")
    <2>1. TypeOK'
      BY <1>0, <1>17, ZenonT(60) DEF prepareBootWait, TypeOK, Pcs
    <2>2. Earned' /\ Ended'
      BY <1>0, <1>17
         DEF prepareBootWait, Earned, Ended, Early, MasterOnly, Resetting, Ending
    <2>3. Asked'
      BY <1>0, <1>17
         DEF prepareBootWait, Asked, EndsAlone, TypeOK, Builds, Pcs, Early,
             MasterOnly, Resetting, Ending, Earned
    <2> QED
      BY <2>1, <2>2, <2>3 DEF IInv
  <1>18. CASE CheckStop
    <2>1. TypeOK'
      BY <1>0, <1>18 DEF CheckStop, AfterCheck, TypeOK, Builds, Pcs, Boots, waitForBootResult
    <2>2. Earned'
      BY <1>0, <1>18
         DEF CheckStop, AfterCheck, Earned, TypeOK, Builds, Pcs, Boots, Early, MasterOnly, Resetting, Ending
    <2>3. Ended'
      BY <1>0, <1>18 DEF CheckStop, AfterCheck, Ended
    <2>4. Asked'
      BY <1>0, <1>18
         DEF CheckStop, AfterCheck, Asked, EndsAlone, TypeOK, Builds, Pcs, Early,
             MasterOnly, Resetting, Ending, Earned
    <2> QED
      BY <2>1, <2>2, <2>3, <2>4 DEF IInv
  <1> QED
    BY <1>1, <1>2, <1>3, <1>4, <1>5, <1>6, <1>7, <1>8, <1>9, <1>10, <1>11, <1>12, <1>13, <1>14, <1>15, <1>16, <1>17, <1>18 DEF Control

\* The worker, the signal handler and the node do not disturb it.
LEMMA StepIInv == IInv /\ [Next]_vars => IInv'
  <1> SUFFICES ASSUME IInv, [Next]_vars PROVE IInv'
    OBVIOUS
  <1>0. TypeOK /\ Earned /\ Ended /\ Asked
    BY DEF IInv
  <1> USE DEF loopVars, bootVars, runVars, histVars
  <1>1. CASE signalHandler
    <2>1. TypeOK'
      BY <1>0, <1>1 DEF signalHandler, TypeOK, Boots
    <2>2. Earned'
      BY <1>0, <1>1 DEF signalHandler, Earned
    <2>3. Ended'
      BY <1>0, <1>1 DEF signalHandler, Ended
    <2>4. Asked'
      BY <1>0, <1>1
         DEF signalHandler, Asked, EndsAlone, TypeOK
    <2> QED
      BY <2>1, <2>2, <2>3, <2>4 DEF IInv
  <1>2. CASE WorkerStarts
    <2>1. TypeOK'
      BY <1>0, <1>2, ZenonT(60) DEF WorkerStarts, TypeOK, Boots
    <2>2. Earned'
      BY <1>0, <1>2 DEF WorkerStarts, Earned
    <2>3. Ended'
      BY <1>0, <1>2 DEF WorkerStarts, Ended
    <2>4. Asked'
      BY <1>0, <1>2
         DEF WorkerStarts, Asked, EndsAlone, Ending, Resetting
    <2> QED
      BY <2>1, <2>2, <2>3, <2>4 DEF IInv
  <1>3. CASE LoopReturns
    <2>1. TypeOK'
      BY <1>0, <1>3 DEF LoopReturns, TypeOK, Boots
    <2>2. Earned'
      BY <1>0, <1>3 DEF LoopReturns, Earned
    <2>3. Ended'
      BY <1>0, <1>3 DEF LoopReturns, Ended
    <2>4. Asked'
      BY <1>0, <1>3
         DEF LoopReturns, Asked, EndsAlone, TypeOK
    <2> QED
      BY <2>1, <2>2, <2>3, <2>4 DEF IInv
  <1>4. CASE WorkerEnds
    <2>1. TypeOK'
      BY <1>0, <1>4, ZenonT(60) DEF WorkerEnds, TypeOK, Boots
    <2>2. Earned'
      BY <1>0, <1>4 DEF WorkerEnds, Earned
    <2>3. Ended'
      BY <1>0, <1>4 DEF WorkerEnds, Ended
    <2>4. Asked'
      BY <1>0, <1>4
         DEF WorkerEnds, Asked, EndsAlone, TypeOK
    <2> QED
      BY <2>1, <2>2, <2>3, <2>4 DEF IInv
  <1>5. CASE NodeReboots
    <2>1. TypeOK'
      BY <1>0, <1>5 DEF NodeReboots, TypeOK, Boots
    <2>2. Earned'
      BY <1>0, <1>5 DEF NodeReboots, Earned
    <2>3. Ended'
      BY <1>0, <1>5 DEF NodeReboots, Ended
    <2>4. Asked'
      BY <1>0, <1>5
         DEF NodeReboots, Asked, EndsAlone, TypeOK
    <2> QED
      BY <2>1, <2>2, <2>3, <2>4 DEF IInv
  <1>6. ASSUME NEW ok \in BOOLEAN, bootCallback(ok)
        PROVE  IInv'
    <2>1. TypeOK'
      BY <1>0, <1>6, ZenonT(60) DEF bootCallback, TypeOK, Boots
    <2>2. Earned'
      BY <1>0, <1>6 DEF bootCallback, Earned
    <2>3. Ended'
      BY <1>0, <1>6 DEF bootCallback, Ended
    <2>4. Asked'
      BY <1>0, <1>6
         DEF bootCallback, Asked, EndsAlone, TypeOK
    <2> QED
      BY <2>1, <2>2, <2>3, <2>4 DEF IInv
  <1>7. CASE UNCHANGED vars
    BY <1>0, <1>7 DEF vars, IInv, TypeOK, Earned, Ended, Asked, EndsAlone
  <1> QED
    BY ControlIInv, <1>1, <1>2, <1>3, <1>4, <1>5, <1>6, <1>7 DEF Next, Exited

\* Type correctness, and in particular canopenRunProcesses() never runs past
\* its table.
THEOREM MainTypeOK == Spec => []TypeOK
  <1>1. IInv => TypeOK
    BY DEF IInv
  <1> QED
    BY <1>1, InitIInv, StepIInv, PTL DEF Spec

\* Exit status 0 of main() is earned: boot accepted, all processes passed, and
\* a final reset that was started was verified.
THEOREM ZeroExit == Spec => []ZeroExitIsEarned
  <1>1. IInv => ZeroExitIsEarned
    BY DEF IInv, Earned, Ended, ZeroExitIsEarned, Early, Ending
  <1> QED
    BY <1>1, InitIInv, StepIInv, PTL DEF Spec

\* A build that waits for Ctrl+C and ends without it reports a failure: its loop
\* died or did not start in time, and the check after the poll loop sees that.
THEOREM UnaskedExitFails == Spec => []UnaskedExitIsFailure
  <1>1. IInv => UnaskedExitIsFailure
    BY DEF IInv, Ended, Asked, EndsAlone, Ending, UnaskedExitIsFailure
  <1> QED
    BY <1>1, InitIInv, StepIInv, PTL DEF Spec
=============================================================================
