-------------------------- MODULE MCTimedProcesses --------------------------
(***************************************************************************)
(* Three validation processes that judge cyclic data while it keeps        *)
(* coming, checked in one run: PDO, synchronous PDO and TIME.              *)
(* canopenRunProcesses() runs one of the enabled ones at a time, and       *)
(* chosen is the one that runs; the variables of the others keep their     *)
(* values.                                                                 *)
(***************************************************************************)
EXTENDS Naturals, Sequences

CONSTANTS
    SampleCount, MaxFrames,        \* PdoProcess
    SyncSamples, MaxEvents,        \* SyncPdoProcess
    DayLength, Days, Tolerance, Wait, MaxTicks, MaxPolls,  \* TimeProcess
    RetryCount                     \* PdoProcess and TimeProcess

\* A comparison needs two attempts to see a change, a tolerance must be
\* shorter than the wait it is applied to, and a day longer than both.  A step
\* of the TIME test (kDiagnosticApplyTimeoutMs and the sleeps are seconds) is
\* over within a day.
ASSUME TimingAssumption ==
    /\ {SampleCount, SyncSamples, RetryCount} \subseteq Nat \ {0, 1}
    /\ {MaxFrames, MaxEvents, MaxTicks, MaxPolls, Tolerance} \subseteq Nat
    /\ {Wait, DayLength, Days} \subseteq Nat
    /\ Tolerance < Wait /\ Tolerance + Wait < DayLength
    /\ MaxTicks < DayLength
    /\ Days > 17

VARIABLES
    chosen,
    remote, late, reply, pc, result,  \* shared
    \* pdo
    op, mapped, calling, receive_state, rpdo, transmit_state, view,
    original_value, original_value_saved, completion_wait_timed_out, verdict,
    defect, wire, attempt, applied,  \* pdo, time
    nmt, pos, original, flags,  \* syncPdo, time
    \* syncPdo
    stored, period, observed, failed, refused, produced, tpdos, restored,
    time, rx, buffer, pending, host, sub, polls, diag, before,
    previous_count, lost  \* time

Pdo == INSTANCE PdoProcess
SyncPdo == INSTANCE SyncPdoProcess
Time == INSTANCE TimeProcess

pdoVars == <<op, mapped, calling, receive_state, rpdo, transmit_state, view,
             original_value, original_value_saved, completion_wait_timed_out,
             verdict>>
pdoTimeVars == <<defect, wire, attempt, applied>>
syncPdoTimeVars ==
    <<nmt, pos, original, flags>>
syncPdoVars == <<stored, period, observed, failed, refused, produced, tpdos,
                 restored>>
timeVars == <<time, rx, buffer, pending, host, sub, polls, diag, before,
              previous_count, lost>>
vars == <<chosen, remote, late, reply, pc, result, pdoVars, pdoTimeVars,
          syncPdoTimeVars, syncPdoVars, timeVars>>

\* What a process that does not run has in its own variables.
NoPdo ==
    /\ op = 0 /\ mapped = 0 /\ calling = 0 /\ receive_state = 0
    /\ rpdo = 0 /\ transmit_state = 0 /\ view = 0 /\ original_value = 0
    /\ original_value_saved = 0 /\ completion_wait_timed_out = 0 /\ verdict = 0
NoPdoTime ==
    /\ defect = 0 /\ wire = 0 /\ attempt = 0 /\ applied = 0
NoSyncPdoTime ==
    /\ nmt = 0 /\ pos = 0 /\ original = 0 /\ flags = 0
NoSyncPdo ==
    /\ stored = 0 /\ period = 0 /\ observed = 0 /\ failed = 0
    /\ refused = 0 /\ produced = 0 /\ tpdos = 0 /\ restored = 0
NoTime ==
    /\ time = 0 /\ rx = 0 /\ buffer = 0 /\ pending = 0 /\ host = 0
    /\ sub = 0 /\ polls = 0 /\ diag = 0 /\ before = 0 /\ previous_count = 0
    /\ lost = 0

Init ==
    \/ /\ chosen = "pdo" /\ Pdo!Init
       /\ NoSyncPdoTime /\ NoSyncPdo /\ NoTime
    \/ /\ chosen = "syncPdo" /\ SyncPdo!Init
       /\ NoPdo /\ NoPdoTime /\ NoTime
    \/ /\ chosen = "time" /\ Time!Init
       /\ NoPdo /\ NoSyncPdo

\* What each process leaves alone.
notPdo == <<chosen, syncPdoTimeVars, syncPdoVars, timeVars>>
notSyncPdo == <<chosen, pdoVars, pdoTimeVars, timeVars>>
notTime == <<chosen, pdoVars, syncPdoVars>>

RunPdo == chosen = "pdo" /\ Pdo!Next /\ UNCHANGED notPdo
RunSyncPdo == chosen = "syncPdo" /\ SyncPdo!Next /\ UNCHANGED notSyncPdo
RunTime == chosen = "time" /\ Time!Next /\ UNCHANGED notTime

Next == RunPdo \/ RunSyncPdo \/ RunTime

Spec == Init /\ [][Next]_vars

-----------------------------------------------------------------------------
(* The properties of the three processes.                                  *)

\* Type correctness of the process that runs (state of pdo_process.cpp,
\* sync_pdo_process.cpp, time_process.cpp).
TypeOK ==
    /\ chosen = "pdo" => Pdo!TypeOK
    /\ chosen = "syncPdo" => SyncPdo!TypeOK
    /\ chosen = "time" => Time!TypeOK

\* What is judged is the slave, not the moment: no TPDO that lands between
\* the samples of verifyTpdoOdConsistency() makes a good slave inconsistent or
\* a bad one consistent, and a snapshot that readTimeDiagnostic() accepts is
\* the slave's clock at one moment, midnight and the last day included.
ReadingsAreSound ==
    /\ chosen = "pdo" => Pdo!VerdictIsSound
    /\ chosen = "time" => Time!SnapshotCoherent

\* A pass rests on what the process is about: an RPDO the slave took, as
\* many TPDOs as SYNCs, every injected time.
PassHasEvidence ==
    /\ chosen = "pdo" => Pdo!PassHasEvidence
    /\ chosen = "syncPdo" => SyncPdo!PassHasEvidence
    /\ chosen = "time" => Time!PassHasEvidence

\* A pass leaves the slave as it was found, nothing under way that could
\* change it again; and whatever fails in syncPdoProcess(), the master's own
\* SYNC period is back unless a local write was refused.
PassMeansRestored ==
    /\ chosen = "pdo" => Pdo!PassMeansRestored
    /\ chosen = "syncPdo" => SyncPdo!PassMeansRestored /\ SyncPdo!SyncProducerRestored
    /\ chosen = "time" => Time!PassMeansRestored

\* A slave that syncPdoProcess() or timeProcess() has reconfigured is started
\* only with its own parameters, with no abandoned write left to change them.
StartedOnlyRestored ==
    [][/\ chosen = "syncPdo" => SyncPdo!StartedOnlyRestored
       /\ chosen = "time" => Time!StartedOnlyRestored]_vars
=============================================================================
