--------------------------- MODULE SyncPdoProcess ---------------------------
(***************************************************************************)
(* SYNC and synchronous PDO validation (src/sync_pdo_process.cpp).  The    *)
(* process makes the slave's TPDO synchronous over SDO, produces a fixed   *)
(* number of SYNCs, expects one TPDO for each, and puts the TPDO back; what*)
(* it cannot put back it tries to recover with a communication reset.  A   *)
(* slave whose TPDO parameters are not known to be restored must not be    *)
(* started.                                                                *)
(*                                                                         *)
(* A list of SDO calls that stops at the first failure is a script: one    *)
(* step per call.  The COB-ID (with its valid bit) and the transmission    *)
(* type are the sub-indices the process writes; 0x1005 stands for all      *)
(* objects it only reads.                                                  *)
(*                                                                         *)
(* External: an operational slave with a valid TPDO may send one at any    *)
(* time, whatever its type (it may be defective); a communication reset    *)
(* loads the stored parameters, and Lely's boot procedure may start the    *)
(* slave again.                                                            *)
(***************************************************************************)
EXTENDS Naturals, Sequences, FiniteSets

CONSTANTS
    SyncSamples,   \* kSyncSampleCount
    MaxEvents      \* bound: callbacks counted between two resetObservation()

VARIABLES
    remote, late, reply,    \* the SDO service
    nmt, stored,            \* external: slave state, its stored parameters
    period,                 \* local 0x1006: "0", "test" or "original"
    observed, failed,       \* SyncPdoObservation
    pc, pos, result,
    original,               \* TpdoCommSnapshot
    flags,                  \* the process's booleans
    refused,                \* history: a local write failed
    produced, tpdos,        \* history: SYNCs, TPDOs since the test period
    restored                \* history: TPDOs since the restored start

sdo == <<remote, late, reply>>
observation == <<observed, failed>>
slave == <<nmt, stored>>
history == <<refused, produced, tpdos, restored>>
vars == <<sdo, slave, period, observation, pc, pos, result, original, flags,
          history>>

Cob == "cob"
Type == "type"
SyncCob == "0x1005"
Objects == {Cob, Type, SyncCob}
Values == {"valid", "invalid", "event", "sync", "consumer"}

Sdo == INSTANCE SdoService

TpdoParameters == [cob : {"valid", "invalid"}, type : {"event", "sync"}]
OfSlave(p) == [o \in Objects |-> CASE o = Cob -> p.cob
                                   [] o = Type -> p.type
                                   [] o = SyncCob -> "consumer"]

FlagNames == {"snapshot_saved", "tpdo_modification_attempted",
              "temporary_configuration_completed", "restoration_verified",
              "completion_wait_timed_out", "callbacks_registered",
              "local_sync_period_touched", "slave_needs_start"}

\* The stored parameters may be others than the ones in force.
Init ==
    /\ \E p \in TpdoParameters : Sdo!SdoInit(OfSlave(p))
    /\ reply.value = "valid"
    /\ stored \in {remote, OfSlave([cob |-> "valid", type |-> "event"])}
    /\ nmt \in {"op", "preop"}
    /\ period = "original"
    /\ observed = <<>> /\ failed = FALSE
    /\ pc = "topology" /\ pos = 1 /\ result = 0
    /\ original = OfSlave([cob |-> "valid", type |-> "event"])
    /\ flags = [f \in FlagNames |-> FALSE]
    /\ refused = FALSE /\ produced = 0 /\ tpdos = 0 /\ restored = 0

-----------------------------------------------------------------------------
(* The event loop and the slave.                                           *)

thread == <<pc, pos, result, original, flags>>
InTest == pc \in {"samples", "silence"}

\* Between a resetObservation() and the check that reads the observation;
\* what is counted at other times nothing reads.
Listening == /\ flags.callbacks_registered /\ ~failed
             /\ pc \in {"quiet", "periodOn", "samples", "silence", "stopSync",
                        "start", "event"}
             /\ Len(observed) < MaxEvents

\* OnRpdo: a TPDO of the slave, in or out of its interval, or an invalid one.
OnRpdo ==
    /\ Listening /\ pc # "stopSync"
    /\ nmt = "op" /\ remote[Cob] = "valid"
    /\ \/ observed' = Append(observed, "T") /\ UNCHANGED failed
       \/ /\ observed # <<>> /\ observed' = Append(observed, "L")
          /\ UNCHANGED failed
       \/ failed' = TRUE /\ UNCHANGED observed
    /\ tpdos' = IF InTest THEN tpdos + 1 ELSE tpdos
    /\ restored' = IF pc = "event" /\ remote = original THEN restored + 1 ELSE restored
    /\ UNCHANGED <<sdo, slave, period, thread, refused, produced>>

SyncCount == Cardinality({i \in DOMAIN observed : observed[i] = "S"})
TpdoCount == Len(observed) - SyncCount

\* Mutant: the producer is stopped one SYNC too late.
OnSyncLate ==
    /\ Listening
    /\ period # "0"
    /\ observed' = Append(observed, "S")
    /\ \/ SyncCount # SyncSamples /\ UNCHANGED <<period, failed, refused>>
       \/ SyncCount = SyncSamples /\ period' = "0" /\ UNCHANGED <<failed, refused>>
       \/ /\ SyncCount = SyncSamples /\ UNCHANGED period
          /\ failed' = TRUE /\ refused' = TRUE
    /\ produced' = produced + 1
    /\ UNCHANGED <<sdo, slave, thread, tpdos, restored>>

\* OnSync: the callback itself stops the producer after the last SYNC.
OnSync ==
    /\ Listening
    /\ period # "0"
    /\ observed' = Append(observed, "S")
    /\ \/ SyncCount + 1 # SyncSamples /\ UNCHANGED <<period, failed, refused>>
       \/ SyncCount + 1 = SyncSamples /\ period' = "0" /\ UNCHANGED <<failed, refused>>
       \/ /\ SyncCount + 1 = SyncSamples /\ UNCHANGED period
          /\ failed' = TRUE /\ refused' = TRUE
    /\ produced' = produced + 1
    /\ UNCHANGED <<sdo, slave, thread, tpdos, restored>>

OnSyncError ==
    /\ Listening
    /\ failed' = TRUE
    /\ UNCHANGED <<sdo, slave, period, observed, thread, history>>

LateEffect ==
    /\ Sdo!LateWrite \/ Sdo!LateLoss
    /\ UNCHANGED <<slave, period, observation, thread, history>>

-----------------------------------------------------------------------------
(* Scripts of SDO calls.                                                   *)

Read(o) == [kind |-> "read", object |-> o, value |-> "any"]
Expect(o, v) == [kind |-> "expect", object |-> o, value |-> v]
Write(o, v) == [kind |-> "write", object |-> o, value |-> v]

readTpdoSnapshot == <<Read(Cob), Read(Type)>>
configureSynchronousTpdo ==
    <<Write(Cob, "invalid"), Write(Type, "sync"), Write(Cob, original[Cob])>>
restoreTpdoConfiguration ==
    <<Write(Cob, "invalid"), Write(Type, original[Type]), Write(Cob, original[Cob])>>
verifyRestoredTpdoState ==
    <<Expect(Cob, original[Cob]), Expect(Type, original[Type]),
      Expect(SyncCob, "consumer")>>

Script ==
    CASE pc = "topology"  -> <<Read(SyncCob)>>
      [] pc = "snapshot"  -> readTpdoSnapshot
      [] pc = "configure" -> configureSynchronousTpdo
      [] pc = "check"     -> <<Expect(Cob, original[Cob]), Expect(Type, "sync")>>
      [] pc = "restore"   -> restoreTpdoConfiguration
      [] pc \in {"verify", "recovered"} -> verifyRestoredTpdoState

Scripted == {"topology", "snapshot", "configure", "check", "restore",
             "verify", "recovered"}

\* Where the process goes when a script ends, and when a call fails.
OnSuccess ==
    [topology |-> "startMaster", snapshot |-> "conditions", configure |-> "check",
     check |-> "startSlave", restore |-> "verify", verify |-> "verdict",
     recovered |-> "verdict"]
OnFailure ==
    [topology |-> "stopSync", snapshot |-> "stopSync", configure |-> "stopSync",
     check |-> "stopSync", restore |-> "reset", verify |-> "reset",
     recovered |-> "verdict"]

\* A flag that the end of a script sets.
Completes ==
    [topology |-> {}, snapshot |-> {"snapshot_saved"},
     configure |-> {"temporary_configuration_completed"}, check |-> {},
     restore |-> {}, verify |-> {"restoration_verified"},
     recovered |-> {"restoration_verified"}]

Current == Script[pos]

Call == IF Current.kind = "write" THEN Sdo!SdoWrite(Current.object, Current.value)
        ELSE Sdo!SdoRead(Current.object)

Accepted == /\ reply'.class = "SUCCESS"
            /\ Current.kind = "expect" => reply'.value = Current.value

Set(fs) == flags' = [f \in FlagNames |-> flags[f] \/ f \in fs]
Abandoned == IF reply'.class = "WAIT_TIMEOUT" THEN {"completion_wait_timed_out"} ELSE {}
Attempt == IF pc = "configure" THEN {"tpdo_modification_attempted"} ELSE {}

SdoCall ==
    /\ pc \in Scripted
    /\ Call
    /\ original' = IF pc = "snapshot" /\ Accepted
                   THEN [original EXCEPT ![Current.object] = reply'.value]
                   ELSE original
    /\ \/ /\ Accepted /\ pos < Len(Script)
          /\ pos' = pos + 1 /\ Set(Attempt) /\ UNCHANGED <<pc, result>>
       \/ /\ Accepted /\ pos = Len(Script)
          /\ pos' = 1 /\ pc' = OnSuccess[pc] /\ Set(Attempt \cup Completes[pc])
          /\ UNCHANGED result
       \/ /\ ~Accepted
          /\ pos' = 1 /\ pc' = OnFailure[pc] /\ Set(Attempt \cup Abandoned)
          /\ result' = 1
    /\ UNCHANGED <<slave, period, observation, history>>

-----------------------------------------------------------------------------
(* The process thread, syncPdoProcess().                                   *)

Goto(next) == pc' = next /\ UNCHANGED <<pos, original>>
Pass(next) == Goto(next) /\ UNCHANGED result
FailTo(next) == Goto(next) /\ result' = 1

\* Topology conditions on 0x1005 and 0x1019 hold, and the master starts.
StartMaster ==
    /\ pc = "startMaster"
    /\ Pass("preop") \/ FailTo("stopSync")
    /\ UNCHANGED <<sdo, slave, period, observation, flags, history>>

\* issueNmtCommandAndWaitForState(ENTER_PREOP): a success is a seen state.
EnterPreop(ok, fail) ==
    \/ nmt' = "preop" /\ Pass(ok)
    \/ nmt' \in {nmt, "preop"} /\ FailTo(fail)

PreopFirst ==
    /\ pc = "preop"
    /\ Set({"slave_needs_start"})
    /\ EnterPreop("snapshot", "stopSync")
    /\ UNCHANGED <<sdo, stored, period, observation, history>>

\* The TPDO must be valid, event-driven and have an event timer.
CheckConditions ==
    /\ pc = "conditions"
    /\ \/ original[Cob] = "valid" /\ original[Type] = "event" /\ Pass("period0")
       \/ FailTo("stopSync")
    /\ UNCHANGED <<sdo, slave, period, observation, flags, history>>

\* writeLocalSyncPeriod(): a refused write changes nothing.
WritePeriod(v, ok, fail) ==
    \/ period' = v /\ Pass(ok) /\ UNCHANGED refused
    \/ UNCHANGED period /\ FailTo(fail) /\ refused' = TRUE

StopPeriod ==
    /\ pc = "period0"
    /\ WritePeriod("0", "configure", "stopSync")
    /\ Set(IF period' = "0" THEN {"local_sync_period_touched"} ELSE {})
    /\ UNCHANGED <<sdo, slave, observation, produced, tpdos, restored>>

resetObservation == observed' = <<>> /\ failed' = FALSE

\* registerCallbacks(), then START: the command may still be lost.
StartSlave ==
    /\ pc = "startSlave"
    /\ resetObservation
    /\ \/ /\ Pass("quiet") /\ nmt' \in {nmt, "op"}
          /\ flags' = [flags EXCEPT !.callbacks_registered = TRUE,
                                    !.slave_needs_start = FALSE]
       \/ /\ FailTo("stopSync") /\ UNCHANGED nmt
          /\ Set({"callbacks_registered"})
    /\ UNCHANGED <<sdo, stored, period, history>>

\* A passing step of the validation, or the first failing one.
Validate(from, condition, next) ==
    /\ pc = from
    /\ \/ condition /\ Pass(next)
       \/ ~condition /\ FailTo("stopSync")
    /\ UNCHANGED <<sdo, slave, period, observation, flags, history>>

verifyQuietWindow == Validate("quiet", ~failed /\ observed = <<>>, "periodOn")

\* The observation is reset, then the producer runs.
StartSync ==
    /\ pc = "periodOn"
    /\ resetObservation
    /\ WritePeriod("test", "samples", "stopSync")
    /\ produced' = 0 /\ tpdos' = 0
    /\ UNCHANGED <<sdo, slave, flags, restored>>

\* One on-time TPDO between every two SYNCs, and after the last.
Alternates ==
    observed = [i \in 1..(2 * SyncSamples) |-> IF i % 2 = 1 THEN "S" ELSE "T"]

\* waitForSynchronousSamples() and validateSynchronousTiming(); before the
\* samples are complete the wait times out.
waitForSynchronousSamples == Validate("samples", ~failed /\ Alternates, "silence")

verifyPostSyncSilence ==
    Validate("silence",
             ~failed /\ SyncCount = SyncSamples /\ TpdoCount = SyncSamples,
             "stopSync")

NeedsRestoration == flags.snapshot_saved /\ flags.tpdo_modification_attempted

\* Cleanup: the producer is stopped first.
StopSync ==
    /\ pc = "stopSync"
    /\ LET next == IF ~NeedsRestoration THEN "verdict"
                   ELSE IF flags.completion_wait_timed_out THEN "reset"
                   ELSE IF flags.slave_needs_start THEN "restore" ELSE "cleanPreop"
       IN  IF flags.local_sync_period_touched THEN WritePeriod("0", next, next)
           ELSE Pass(next) /\ UNCHANGED <<period, refused>>
    /\ UNCHANGED <<sdo, slave, observation, flags, produced, tpdos, restored>>

CleanPreop ==
    /\ pc = "cleanPreop"
    /\ EnterPreop("restore", "reset")
    /\ Set(IF pc' = "restore" THEN {"slave_needs_start"} ELSE {})
    /\ UNCHANGED <<sdo, stored, period, observation, history>>

\* recoverTpdoStateWithReset(): RESET_COMM and the boot wait.  The command
\* may be refused or lost, and the boot may go unseen.
ResetSlave ==
    /\ pc = "reset"
    /\ \/ FailTo("verdict") /\ UNCHANGED <<remote, nmt, flags>>
       \/ /\ Set({"slave_needs_start"})
          /\ FailTo("recoverPreop") \/ FailTo("verdict")
          /\ \/ UNCHANGED <<remote, nmt>>
             \/ remote' = stored /\ nmt' \in {"op", "preop"}
    /\ UNCHANGED <<late, reply, stored, period, observation, history>>

\* A confirmed Pre-operational makes the SDO channel trusted again.
RecoverPreop ==
    /\ pc = "recoverPreop"
    /\ EnterPreop("recovered", "verdict")
    /\ flags' = IF pc' = "recovered"
                THEN [flags EXCEPT !.completion_wait_timed_out = FALSE] ELSE flags
    /\ UNCHANGED <<sdo, stored, period, observation, history>>

verify_restored_event ==
    /\ flags.temporary_configuration_completed
    /\ flags.restoration_verified /\ flags.callbacks_registered

Verdict ==
    /\ pc = "verdict"
    /\ IF flags.completion_wait_timed_out THEN FailTo("start") ELSE Pass("start")
    /\ IF verify_restored_event THEN resetObservation ELSE UNCHANGED observation
    /\ UNCHANGED <<sdo, slave, period, flags, history>>

\* Mutant: the slave is started whatever became of its parameters.
SlaveStartAlwaysSafe == TRUE

slave_start_is_safe ==
    ~flags.tpdo_modification_attempted \/ flags.restoration_verified

RestartSlave ==
    /\ pc = "start"
    /\ \/ ~flags.slave_needs_start /\ Pass("event") /\ UNCHANGED <<nmt, flags>>
       \/ /\ flags.slave_needs_start /\ slave_start_is_safe
          /\ \/ /\ Pass("event") /\ nmt' \in {nmt, "op"}
                /\ flags' = [flags EXCEPT !.slave_needs_start = FALSE]
             \/ FailTo("event") /\ UNCHANGED <<nmt, flags>>
       \/ /\ flags.slave_needs_start /\ ~slave_start_is_safe
          /\ FailTo("event") /\ UNCHANGED <<nmt, flags>>
    /\ UNCHANGED <<sdo, stored, period, observation, history>>

\* Two TPDOs at the event timer's interval, and no SYNC.
EventTpdoSeen == /\ ~failed /\ Len(observed) >= 2
                 /\ SyncCount = 0 /\ observed[2] = "T"

\* verifyRestoredEventTpdo(), then clearCallbacks().
verifyRestoredEventTpdo ==
    /\ pc = "event"
    /\ IF /\ verify_restored_event /\ ~flags.slave_needs_start
          /\ ~EventTpdoSeen
       THEN FailTo("lastPeriod") ELSE Pass("lastPeriod")
    /\ flags' = [flags EXCEPT !.callbacks_registered = FALSE]
    /\ UNCHANGED <<sdo, slave, period, observation, history>>

RestorePeriod ==
    /\ pc = "lastPeriod"
    /\ IF flags.local_sync_period_touched
       THEN WritePeriod("original", "done", "done")
       ELSE Pass("done") /\ UNCHANGED <<period, refused>>
    /\ UNCHANGED <<sdo, slave, observation, flags, produced, tpdos, restored>>

Thread ==
    \/ SdoCall \/ StartMaster \/ PreopFirst \/ CheckConditions \/ StopPeriod
    \/ StartSlave \/ verifyQuietWindow \/ StartSync
    \/ waitForSynchronousSamples \/ verifyPostSyncSilence \/ StopSync
    \/ CleanPreop \/ ResetSlave \/ RecoverPreop \/ Verdict \/ RestartSlave
    \/ verifyRestoredEventTpdo \/ RestorePeriod

Done == pc = "done" /\ UNCHANGED vars

Next == OnRpdo \/ OnSync \/ OnSyncError \/ LateEffect \/ Thread \/ Done

-----------------------------------------------------------------------------
(* Properties.                                                             *)

\* Type correctness; at most one call of the test and one of the recovery
\* are ever abandoned.
TypeOK ==
    /\ remote \in [Objects -> Values]
    /\ Len(late) <= 2
    /\ nmt \in {"op", "preop"}
    /\ period \in {"0", "test", "original"}
    /\ Len(observed) <= MaxEvents
    /\ failed \in BOOLEAN /\ result \in {0, 1}
    /\ flags \in [FlagNames -> BOOLEAN]
    /\ pos \in 1..3

\* The process starts a slave it has reconfigured only when the slave has its
\* own TPDO parameters again and no abandoned write can change them.
StartedOnlyRestored ==
    (pc = "start" /\ flags.tpdo_modification_attempted /\ ~flags'.slave_needs_start
        /\ flags.slave_needs_start) => remote = original /\ late = <<>>

\* A pass rests on exactly the planned number of SYNCs, as many TPDOs while
\* they were counted, and event TPDOs of the restored slave afterwards.
PassHasEvidence ==
    (pc = "done" /\ result = 0) =>
        /\ produced = SyncSamples /\ tpdos = SyncSamples
        /\ restored >= 2

\* A pass leaves the TPDO as it was found, the slave running, and no
\* abandoned write under way.
PassMeansRestored ==
    (pc = "done" /\ result = 0) =>
        /\ remote = original /\ late = <<>> /\ nmt = "op"

\* Whatever fails, the master's SYNC producer is as it was, unless its object
\* dictionary refused a write; and TPDO parameters that are not restored are
\* never reported as a pass.
SyncProducerRestored == pc = "done" => period = "original" \/ refused
=============================================================================
