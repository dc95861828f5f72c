-------------------------- MODULE HeartbeatProcess --------------------------
(***************************************************************************)
(* Heartbeat validation in both directions (src/nmt_heartbeat.cpp):        *)
(* the master's own heartbeat is stopped until the slave reports EMCY      *)
(* 0x8130, then the slave's heartbeat is stopped over SDO until the        *)
(* master's consumer reports a timeout.  Three actors meet: the process    *)
(* thread, the event loop that delivers EMCY frames and heartbeat events,  *)
(* and the slave.  SDO calls are steps of SdoService.                      *)
(*                                                                         *)
(* External: the slave raises 0x8130 while the master is silent and clears *)
(* it (code 0) when the heartbeat is back; Lely resets a slave whose       *)
(* heartbeat is lost while it is assigned in 0x1F81, which brings 0x1017   *)
(* back to its default.                                                    *)
(***************************************************************************)
EXTENDS Naturals, Sequences

VARIABLES
    remote, late, reply,   \* the SDO service; remote: the slave's 0x1017
    masterHeartbeat,       \* local 0x1017: "0" or "500"
    assignment,            \* local 0x1F81: "enabled" or "disabled"
    fault, wire,           \* external: slave consumer error, EMCY in transit
    log,                   \* EMCY codes delivered so far (the EMCY observer)
    supervision, calling,  \* external: Lely consumer state, callback under way
    g_expected_heartbeat_occurred, g_expected_heartbeat_received,
    pc, fault_sequence, recovery_sequence, result,
    refused,               \* history: a local write of the process failed
    raised, cleared,       \* history: 0x8130 raised / cleared when it should
    lostSeen, backSeen,    \* history: timeout, then recovery, called back
    implicitReset          \* history: Lely reset the slave by itself

sdo == <<remote, late, reply>>
local == <<masterHeartbeat, assignment>>
slave == <<fault, wire>>
consumer == <<supervision, calling>>
flags == <<g_expected_heartbeat_occurred, g_expected_heartbeat_received>>
thread == <<fault_sequence, recovery_sequence>>
seen == <<lostSeen, backSeen>>
history == <<raised, cleared, seen, implicitReset>>
vars == <<sdo, local, slave, log, consumer, flags, pc, thread, result,
          refused, history>>

Periods == {"0", "500"}
Producer == "0x1017"
Fault == "0x8130"
Reset == "0x0000"

Sdo == INSTANCE SdoService WITH Objects <- {Producer}, Values <- Periods

\* The slave may still be about to clear a fault from before the run.
Init ==
    /\ Sdo!SdoInit([o \in {Producer} |-> "500"])
    /\ masterHeartbeat = "500" /\ assignment = "enabled"
    /\ fault \in BOOLEAN /\ wire = <<>> /\ log = <<>>
    /\ supervision = "ok" /\ calling = "none"
    /\ g_expected_heartbeat_occurred = FALSE
    /\ g_expected_heartbeat_received = FALSE
    /\ pc = "snapshot" /\ fault_sequence = 0 /\ recovery_sequence = 0
    /\ result = 0
    /\ refused = FALSE
    /\ raised = FALSE /\ cleared = FALSE
    /\ lostSeen = FALSE /\ backSeen = FALSE /\ implicitReset = FALSE

-----------------------------------------------------------------------------
(* The slave and the event loop.                                           *)

SlaveRaises ==
    /\ masterHeartbeat = "0" /\ ~fault
    /\ fault' = TRUE
    /\ wire' = Append(wire, Fault)
    /\ raised' = TRUE
    /\ UNCHANGED <<sdo, local, log, consumer, flags, pc, thread, result,
                   refused, cleared, seen, implicitReset>>

SlaveClears ==
    /\ masterHeartbeat = "500" /\ fault
    /\ fault' = FALSE
    /\ wire' = Append(wire, Reset)
    /\ cleared' = raised
    /\ UNCHANGED <<sdo, local, log, consumer, flags, pc, thread, result,
                   refused, raised, seen, implicitReset>>

\* The EMCY observer publishes the next frame.
DeliverEmcy ==
    /\ wire # <<>>
    /\ log' = Append(log, Head(wire))
    /\ wire' = Tail(wire)
    /\ UNCHANGED <<sdo, local, fault, consumer, flags, pc, thread, result,
                   refused, history>>

\* Lely's consumer gives up on the slave: a callback and, for an assigned
\* slave, a reset.
ConsumerTimeout ==
    /\ supervision = "ok" /\ calling = "none"
    /\ remote[Producer] = "0"
    /\ supervision' = "lost"
    /\ calling' = "timeout"
    /\ \/ assignment = "disabled" /\ UNCHANGED <<remote, implicitReset>>
       \/ /\ assignment = "enabled"
          /\ remote' = [remote EXCEPT ![Producer] = "500"]
          /\ implicitReset' = TRUE
    /\ UNCHANGED <<late, reply, local, slave, log, flags, pc, thread, result,
                   refused, raised, cleared, seen>>

ConsumerRecovers ==
    /\ supervision = "lost" /\ calling = "none"
    /\ remote[Producer] = "500"
    /\ supervision' = "ok"
    /\ calling' = "recovered"
    /\ UNCHANGED <<sdo, local, slave, log, flags, pc, thread, result, refused,
                   history>>

heartbeatCallback ==
    /\ calling # "none"
    /\ calling' = "none"
    /\ g_expected_heartbeat_received' =
         (\/ g_expected_heartbeat_received
          \/ (calling = "timeout") = g_expected_heartbeat_occurred)
    /\ lostSeen' = (lostSeen \/ calling = "timeout")
    /\ backSeen' = (backSeen \/ (lostSeen /\ calling = "recovered"))
    /\ UNCHANGED <<sdo, local, slave, log, supervision,
                   g_expected_heartbeat_occurred, pc, thread, result, refused,
                   raised, cleared, implicitReset>>

-----------------------------------------------------------------------------
(* The process thread, heartbeatProcess().                                 *)

env == <<slave, log, consumer>>

\* Mutant: the snapshot is the sequence of the next event.
SnapshotNext ==
    /\ pc = "snapshot"
    /\ fault_sequence' = Len(log) + 1
    /\ pc' = "stop"
    /\ UNCHANGED <<sdo, local, env, flags, recovery_sequence, result, refused,
                   history>>

\* Step 1 has slept; step 2 begins with the snapshot.
SnapshotFault ==
    /\ pc = "snapshot"
    /\ fault_sequence' = Len(log)
    /\ pc' = "stop"
    /\ UNCHANGED <<sdo, local, env, flags, recovery_sequence, result, refused,
                   history>>

\* A local write either takes effect or is refused.
StopMaster ==
    /\ pc = "stop"
    /\ \/ masterHeartbeat' = "0" /\ pc' = "waitFault" /\ UNCHANGED <<result, refused>>
       \/ /\ pc' = "done" /\ result' = 1 /\ refused' = TRUE
          /\ UNCHANGED masterHeartbeat
    /\ UNCHANGED <<sdo, assignment, env, flags, thread, history>>

\* waitForCanopenEmcyEvent() sees an event newer than the snapshot.
Fresh(after, code) == \E i \in (after + 1)..Len(log) : log[i] = code

WaitFault ==
    /\ pc = "waitFault"
    /\ pc' = "snapshotRecovery"
    /\ result' = IF Fresh(fault_sequence, Fault) THEN result ELSE 1
    /\ UNCHANGED <<sdo, local, env, flags, thread, refused, history>>

\* Mutant: the recovery wait reuses the snapshot taken before the stop.
SnapshotReused ==
    /\ pc = "snapshotRecovery"
    /\ recovery_sequence' = fault_sequence
    /\ pc' = "restore"
    /\ UNCHANGED <<sdo, local, env, flags, fault_sequence, result, refused,
                   history>>

SnapshotRecovery ==
    /\ pc = "snapshotRecovery"
    /\ recovery_sequence' = Len(log)
    /\ pc' = "restore"
    /\ UNCHANGED <<sdo, local, env, flags, fault_sequence, result, refused,
                   history>>

RestoreMaster ==
    /\ pc = "restore"
    /\ \/ masterHeartbeat' = "500" /\ pc' = "waitReset" /\ UNCHANGED <<result, refused>>
       \/ /\ pc' = "done" /\ result' = 1 /\ refused' = TRUE
          /\ UNCHANGED masterHeartbeat
    /\ UNCHANGED <<sdo, assignment, env, flags, thread, history>>

WaitReset ==
    /\ pc = "waitReset"
    /\ \/ Fresh(recovery_sequence, Reset) /\ pc' = "start" /\ UNCHANGED result
       \/ ~Fresh(recovery_sequence, Reset) /\ pc' = "done" /\ result' = 1
    /\ UNCHANGED <<sdo, local, env, flags, thread, refused, history>>

\* issueNmtCommand(START) succeeds or throws.
StartSlave ==
    /\ pc = "start"
    /\ \/ pc' = "disable" /\ UNCHANGED result
       \/ pc' = "done" /\ result' = 1
    /\ UNCHANGED <<sdo, local, env, flags, thread, refused, history>>

-----------------------------------------------------------------------------
(* The process thread, testSlaveProducerHeartbeat().                       *)

DisableAssignment ==
    /\ pc = "disable"
    /\ \/ /\ assignment' = "disabled" /\ pc' = "prepareTimeout"
          /\ UNCHANGED <<result, refused>>
       \/ /\ pc' = "done" /\ result' = 1 /\ refused' = TRUE
          /\ UNCHANGED assignment
    /\ UNCHANGED <<sdo, masterHeartbeat, env, flags, thread, history>>

prepareHeartbeatWait(occurred) ==
    /\ g_expected_heartbeat_occurred' = occurred
    /\ g_expected_heartbeat_received' = FALSE

PrepareTimeout ==
    /\ pc = "prepareTimeout"
    /\ prepareHeartbeatWait(TRUE)
    /\ pc' = "writeZero"
    /\ UNCHANGED <<sdo, local, env, thread, result, refused, history>>

\* Mutant: a failed write of step 2 forgets the assignment.
WriteZeroNoRestore ==
    /\ pc = "writeZero"
    /\ Sdo!SdoWrite(Producer, "0")
    /\ \/ reply'.class = "SUCCESS" /\ pc' = "waitTimeout" /\ UNCHANGED result
       \/ reply'.class # "SUCCESS" /\ pc' = "done" /\ result' = 1
    /\ UNCHANGED <<local, env, flags, thread, refused, history>>

\* A failed write of step 2 goes straight to the assignment.
WriteZero ==
    /\ pc = "writeZero"
    /\ Sdo!SdoWrite(Producer, "0")
    /\ \/ reply'.class = "SUCCESS" /\ pc' = "waitTimeout" /\ UNCHANGED result
       \/ reply'.class # "SUCCESS" /\ pc' = "enable" /\ result' = 1
    /\ UNCHANGED <<local, env, flags, thread, refused, history>>

WaitTimeout ==
    /\ pc = "waitTimeout"
    /\ result' = IF g_expected_heartbeat_received THEN result ELSE 1
    /\ pc' = "prepareRecovery"
    /\ UNCHANGED <<sdo, local, env, flags, thread, refused, history>>

PrepareRecovery ==
    /\ pc = "prepareRecovery"
    /\ prepareHeartbeatWait(FALSE)
    /\ pc' = "write500"
    /\ UNCHANGED <<sdo, local, env, thread, result, refused, history>>

Write500 ==
    /\ pc = "write500"
    /\ Sdo!SdoWrite(Producer, "500")
    /\ \/ reply'.class = "SUCCESS" /\ pc' = "waitRecovery" /\ UNCHANGED result
       \/ reply'.class # "SUCCESS" /\ pc' = "enable" /\ result' = 1
    /\ UNCHANGED <<local, env, flags, thread, refused, history>>

WaitRecovery ==
    /\ pc = "waitRecovery"
    /\ result' = IF g_expected_heartbeat_received THEN result ELSE 1
    /\ pc' = "enable"
    /\ UNCHANGED <<sdo, local, env, flags, thread, refused, history>>

EnableAssignment ==
    /\ pc = "enable"
    /\ pc' = "done"
    /\ \/ assignment' = "enabled" /\ UNCHANGED <<result, refused>>
       \/ result' = 1 /\ refused' = TRUE /\ UNCHANGED assignment
    /\ UNCHANGED <<sdo, masterHeartbeat, env, flags, thread, history>>

LateEffect ==
    /\ Sdo!LateWrite \/ Sdo!LateLoss
    /\ UNCHANGED <<local, env, flags, pc, thread, result, refused, history>>

Done == pc = "done" /\ UNCHANGED vars

Next ==
    \/ SlaveRaises \/ SlaveClears \/ DeliverEmcy
    \/ ConsumerTimeout \/ ConsumerRecovers \/ heartbeatCallback
    \/ SnapshotFault \/ StopMaster \/ WaitFault
    \/ SnapshotRecovery \/ RestoreMaster \/ WaitReset \/ StartSlave
    \/ DisableAssignment \/ PrepareTimeout \/ WriteZero \/ WaitTimeout
    \/ PrepareRecovery \/ Write500 \/ WaitRecovery \/ EnableAssignment
    \/ LateEffect
    \/ Done

Spec == Init /\ [][Next]_vars

-----------------------------------------------------------------------------
(* Properties.                                                             *)

\* Type correctness; EMCY frames alternate, so few are ever under way.
TypeOK ==
    /\ remote \in [{Producer} -> Periods]
    /\ late \in Seq({Producer} \X Periods)
    /\ reply \in [class : Sdo!Classes, value : Periods]
    /\ masterHeartbeat \in Periods
    /\ assignment \in {"enabled", "disabled"}
    /\ fault \in BOOLEAN
    /\ wire \in Seq({Fault, Reset}) /\ log \in Seq({Fault, Reset})
    /\ supervision \in {"ok", "lost"}
    /\ calling \in {"none", "timeout", "recovered"}
    /\ flags \in BOOLEAN \X BOOLEAN
    /\ fault_sequence \in 0..Len(log) /\ recovery_sequence \in 0..Len(log)
    /\ pc \in {"snapshot", "stop", "waitFault", "snapshotRecovery", "restore",
               "waitReset", "start", "disable", "prepareTimeout", "writeZero",
               "waitTimeout", "prepareRecovery", "write500", "waitRecovery",
               "enable", "done"}
    /\ result \in {0, 1}
    /\ refused \in BOOLEAN /\ raised \in BOOLEAN /\ cleared \in BOOLEAN
    /\ seen \in BOOLEAN \X BOOLEAN
    /\ implicitReset \in BOOLEAN

\* A pass is proof of both directions.  The slave raised 0x8130 because the
\* master fell silent and cleared it because the heartbeat came back; the
\* master's consumer reported the slave's silence and, after it, the return of
\* its heartbeat -- by the explicit 0x1017 write, not by a reset that Lely's
\* own NMT error handling caused.
PassMeansBothDirections ==
    (pc = "done" /\ result = 0) =>
        raised /\ cleared /\ lostSeen /\ backSeen /\ ~implicitReset

\* A pass leaves both heartbeats running, the slave assigned and no abandoned
\* SDO write that could stop the slave's heartbeat later.
PassMeansRestored ==
    (pc = "done" /\ result = 0) =>
        /\ masterHeartbeat = "500" /\ assignment = "enabled"
        /\ remote[Producer] = "500" /\ late = <<>>

\* Whatever fails, the process ends with its own heartbeat running and the
\* slave assigned, unless a local write of the master was refused.
LocalStateRestored ==
    pc = "done" =>
        \/ refused
        \/ masterHeartbeat = "500" /\ assignment = "enabled"
=============================================================================
