-------------------------- MODULE MCSlaveProcesses --------------------------
(***************************************************************************)
(* Seven validation processes that change the slave over SDO, checked in   *)
(* one run: heartbeat, SDO block, MCU SDO client, storage, EMCY producer,  *)
(* EMCY consumer and GFC. canopenRunProcesses() runs one of the enabled    *)
(* ones at a time, and chosen is the one that runs.  They share the SDO    *)
(* service and the control thread; the variables of the others keep their  *)
(* values.                                                                 *)
(***************************************************************************)
EXTENDS Integers, Sequences

CONSTANTS
    SeqRange, BlockRegression,   \* SdoClientProcess
    Modes,                       \* StorageProcess
    Capacity, MaxLate,           \* EmcyProcess
    CountRange, Retries, MaxForeign,   \* EmcyConsumerProcess
    GfcMaxLate                   \* GfcProcess

\* Sequence numbers other than the reserved zero must be able to change, a
\* fault and its recovery must fit into the history, and the MCU's receive
\* counter must not come round to its old value within one wait.
ASSUME SlaveAssumption ==
    /\ SeqRange \in Nat /\ SeqRange >= 3 /\ BlockRegression \in BOOLEAN
    /\ Modes \subseteq {"core", "restore", "corruption", "power-cycle",
                        "power-interruption"}
    /\ Capacity \in Nat /\ Capacity >= 2 /\ MaxLate \in Nat
    /\ MaxForeign \in Nat /\ Retries \in Nat \ {0}
    /\ CountRange \in Nat /\ CountRange > MaxForeign + 2
    /\ GfcMaxLate \in Nat

VARIABLES
    chosen,
    remote, reply,  \* heartbeat, block, client, emcy, gfc
    late, pc,  \* heartbeat, block, client, storage, emcy, gfc
    masterHeartbeat, assignment, fault, supervision,
    g_expected_heartbeat_occurred, g_expected_heartbeat_received,
    fault_sequence, recovery_sequence, raised, cleared, lostSeen, backSeen,
    implicitReset,  \* heartbeat
    wire,  \* heartbeat, emcy, emcyConsumer, gfc
    log,  \* heartbeat, emcy
    calling,  \* heartbeat, storage
    result,  \* heartbeat, block, client, emcy, emcyConsumer, gfc
    refused,  \* heartbeat, block, storage, emcy
    node, transfer, completed, original, channel_known, node_stopped, gaveUp,
    unconfirmed, held, timedOut,  \* block
    pos,  \* block, client, storage, emcy, emcyConsumer, gfc
    running, finished, u32, octets, installed, sequence, complete_before,
    fields, case_ok, original_local, trouble, ran,  \* client
    attempt,  \* client, emcyConsumer
    nv, backup, runtime, startup, resets, booting, g_boot, mode, outage,
    baseline, passed, dirty, booted,  \* storage
    consumer,  \* storage, emcy
    sub,  \* storage, emcyConsumer
    captured,  \* storage, gfc
    heartbeat, register, entries, ok, locals, troubled, emitted,  \* emcy
    defect,  \* emcy, gfc
    stack, rx_count, last, operational, foreign, host_error_active,
    expected_host_error_count, reset_communication_issued,
    remote_operational_restored, current, before, source, code, good,
    hindered,  \* emcyConsumer
    rx, safe, complete, nmt, state, count, seq, lost, produced  \* gfc

Heartbeat == INSTANCE HeartbeatProcess
SdoBlock == INSTANCE SdoBlockProcess
SdoClient == INSTANCE SdoClientProcess
Storage == INSTANCE StorageProcess
Emcy == INSTANCE EmcyProcess
EmcyConsumer == INSTANCE EmcyConsumerProcess
Gfc == INSTANCE GfcProcess WITH MaxLate <- GfcMaxLate

heartbeatBlockClientEmcyGfcVars ==
    <<remote, reply>>
heartbeatBlockClientStorageEmcyGfcVars ==
    <<late, pc>>
heartbeatVars == <<masterHeartbeat, assignment, fault, supervision,
                   g_expected_heartbeat_occurred,
                   g_expected_heartbeat_received, fault_sequence,
                   recovery_sequence, raised, cleared, lostSeen, backSeen,
                   implicitReset>>
blockVars == <<node, transfer, completed, original, channel_known,
               node_stopped, gaveUp, unconfirmed, held, timedOut>>
clientVars == <<running, finished, u32, octets, installed, sequence,
                complete_before, fields, case_ok, original_local, trouble,
                ran>>
storageVars == <<nv, backup, runtime, startup, resets, booting, g_boot, mode,
                 outage, baseline, passed, dirty, booted>>
emcyVars == <<heartbeat, register, entries, ok, locals, troubled, emitted>>
emcyConsumerVars ==
    <<stack, rx_count, last, operational, foreign, host_error_active,
      expected_host_error_count, reset_communication_issued,
      remote_operational_restored, current, before, source, code, good,
      hindered>>
gfcVars == <<rx, safe, complete, nmt, state, count, seq, lost, produced>>
vars == <<chosen, heartbeatBlockClientEmcyGfcVars,
          heartbeatBlockClientStorageEmcyGfcVars, heartbeatVars, wire, log,
          calling, result, refused, blockVars, pos, clientVars, attempt,
          storageVars, consumer, sub, captured, emcyVars, defect,
          emcyConsumerVars, gfcVars>>

\* What a process that does not run has in its own variables.
NoHeartbeatBlockClientEmcyGfc ==
    /\ remote = 0 /\ reply = 0
NoHeartbeatBlockClientStorageEmcyGfc ==
    /\ late = 0 /\ pc = 0
NoHeartbeat ==
    /\ masterHeartbeat = 0 /\ assignment = 0 /\ fault = 0
    /\ supervision = 0 /\ g_expected_heartbeat_occurred = 0
    /\ g_expected_heartbeat_received = 0 /\ fault_sequence = 0
    /\ recovery_sequence = 0 /\ raised = 0 /\ cleared = 0 /\ lostSeen = 0
    /\ backSeen = 0 /\ implicitReset = 0
NoBlock ==
    /\ node = 0 /\ transfer = 0 /\ completed = 0 /\ original = 0
    /\ channel_known = 0 /\ node_stopped = 0 /\ gaveUp = 0 /\ unconfirmed = 0
    /\ held = 0 /\ timedOut = 0
NoClient ==
    /\ running = 0 /\ finished = 0 /\ u32 = 0 /\ octets = 0
    /\ installed = 0 /\ sequence = 0 /\ complete_before = 0 /\ fields = 0
    /\ case_ok = 0 /\ original_local = 0 /\ trouble = 0 /\ ran = 0
NoStorage ==
    /\ nv = 0 /\ backup = 0 /\ runtime = 0 /\ startup = 0 /\ resets = 0
    /\ booting = 0 /\ g_boot = 0 /\ mode = 0 /\ outage = 0 /\ baseline = 0
    /\ passed = 0 /\ dirty = 0 /\ booted = 0
NoEmcy ==
    /\ heartbeat = 0 /\ register = 0 /\ entries = 0 /\ ok = 0
    /\ locals = 0 /\ troubled = 0 /\ emitted = 0
NoEmcyConsumer ==
    /\ stack = 0 /\ rx_count = 0 /\ last = 0 /\ operational = 0
    /\ foreign = 0 /\ host_error_active = 0 /\ expected_host_error_count = 0
    /\ reset_communication_issued = 0 /\ remote_operational_restored = 0
    /\ current = 0 /\ before = 0 /\ source = 0 /\ code = 0 /\ good = 0
    /\ hindered = 0
NoGfc ==
    /\ rx = 0 /\ safe = 0 /\ complete = 0 /\ nmt = 0 /\ state = 0
    /\ count = 0 /\ seq = 0 /\ lost = 0 /\ produced = 0

Init ==
    \/ /\ chosen = "heartbeat" /\ Heartbeat!Init
       /\ NoBlock /\ pos = 0 /\ NoClient /\ attempt = 0 /\ NoStorage
       /\ consumer = 0 /\ sub = 0 /\ captured = 0 /\ NoEmcy /\ defect = 0
       /\ NoEmcyConsumer /\ NoGfc
    \/ /\ chosen = "block" /\ SdoBlock!Init
       /\ NoHeartbeat /\ wire = 0 /\ log = 0 /\ calling = 0 /\ NoClient
       /\ attempt = 0 /\ NoStorage /\ consumer = 0 /\ sub = 0 /\ captured = 0
       /\ NoEmcy /\ defect = 0 /\ NoEmcyConsumer /\ NoGfc
    \/ /\ chosen = "client" /\ SdoClient!Init
       /\ NoHeartbeat /\ wire = 0 /\ log = 0 /\ calling = 0 /\ refused = 0
       /\ NoBlock /\ NoStorage /\ consumer = 0 /\ sub = 0 /\ captured = 0
       /\ NoEmcy /\ defect = 0 /\ NoEmcyConsumer /\ NoGfc
    \/ /\ chosen = "storage" /\ Storage!Init
       /\ NoHeartbeatBlockClientEmcyGfc /\ NoHeartbeat /\ wire = 0
       /\ log = 0 /\ result = 0 /\ NoBlock /\ NoClient /\ attempt = 0
       /\ NoEmcy /\ defect = 0 /\ NoEmcyConsumer /\ NoGfc
    \/ /\ chosen = "emcy" /\ Emcy!Init
       /\ NoHeartbeat /\ calling = 0 /\ NoBlock /\ NoClient /\ attempt = 0
       /\ NoStorage /\ sub = 0 /\ captured = 0 /\ NoEmcyConsumer /\ NoGfc
    \/ /\ chosen = "emcyConsumer" /\ EmcyConsumer!Init
       /\ NoHeartbeatBlockClientEmcyGfc
       /\ NoHeartbeatBlockClientStorageEmcyGfc /\ NoHeartbeat /\ log = 0
       /\ calling = 0 /\ refused = 0 /\ NoBlock /\ NoClient /\ NoStorage
       /\ consumer = 0 /\ captured = 0 /\ NoEmcy /\ defect = 0 /\ NoGfc
    \/ /\ chosen = "gfc" /\ Gfc!Init
       /\ NoHeartbeat /\ log = 0 /\ calling = 0 /\ refused = 0 /\ NoBlock
       /\ NoClient /\ attempt = 0 /\ NoStorage /\ consumer = 0 /\ sub = 0
       /\ NoEmcy /\ NoEmcyConsumer

\* What each process leaves alone.
notHeartbeat == <<chosen, blockVars, pos, clientVars, attempt, storageVars,
                  consumer, sub, captured, emcyVars, defect,
                  emcyConsumerVars, gfcVars>>
notSdoBlock == <<chosen, heartbeatVars, wire, log, calling, clientVars,
                 attempt, storageVars, consumer, sub, captured, emcyVars,
                 defect, emcyConsumerVars, gfcVars>>
notSdoClient == <<chosen, heartbeatVars, wire, log, calling, refused,
                  blockVars, storageVars, consumer, sub, captured, emcyVars,
                  defect, emcyConsumerVars, gfcVars>>
notStorage == <<chosen, heartbeatBlockClientEmcyGfcVars, heartbeatVars, wire,
                log, result, blockVars, clientVars, attempt, emcyVars,
                defect, emcyConsumerVars, gfcVars>>
notEmcy == <<chosen, heartbeatVars, calling, blockVars, clientVars, attempt,
             storageVars, sub, captured, emcyConsumerVars, gfcVars>>
notEmcyConsumer == <<chosen, heartbeatBlockClientEmcyGfcVars,
                     heartbeatBlockClientStorageEmcyGfcVars, heartbeatVars,
                     log, calling, refused, blockVars, clientVars,
                     storageVars, consumer, captured, emcyVars, defect,
                     gfcVars>>
notGfc == <<chosen, heartbeatVars, log, calling, refused, blockVars,
            clientVars, attempt, storageVars, consumer, sub, emcyVars,
            emcyConsumerVars>>

RunHeartbeat == chosen = "heartbeat" /\ Heartbeat!Next /\ UNCHANGED notHeartbeat
RunSdoBlock == chosen = "block" /\ SdoBlock!Next /\ UNCHANGED notSdoBlock
RunSdoClient == chosen = "client" /\ SdoClient!Next /\ UNCHANGED notSdoClient
RunStorage == chosen = "storage" /\ Storage!Next /\ UNCHANGED notStorage
RunEmcy == chosen = "emcy" /\ Emcy!Next /\ UNCHANGED notEmcy
RunEmcyConsumer == chosen = "emcyConsumer" /\ EmcyConsumer!Next /\ UNCHANGED notEmcyConsumer
RunGfc == chosen = "gfc" /\ Gfc!Next /\ UNCHANGED notGfc

Next == RunHeartbeat \/ RunSdoBlock \/ RunSdoClient \/ RunStorage \/ RunEmcy \/ RunEmcyConsumer \/ RunGfc

Spec == Init /\ [][Next]_vars

-----------------------------------------------------------------------------
(* The properties of the seven processes.                                  *)

\* Type correctness of the process that runs (state of nmt_heartbeat.cpp,
\* sdo_block_process.cpp, sdo_client_process.cpp, storage_process.cpp,
\* emcy_process.cpp, emcy_consumer_process.cpp, gfc_process.cpp).
TypeOK ==
    /\ chosen = "heartbeat" => Heartbeat!TypeOK
    /\ chosen = "block" => SdoBlock!TypeOK
    /\ chosen = "client" => SdoClient!TypeOK
    /\ chosen = "storage" => Storage!TypeOK
    /\ chosen = "emcy" => Emcy!TypeOK
    /\ chosen = "emcyConsumer" => EmcyConsumer!TypeOK
    /\ chosen = "gfc" => Gfc!TypeOK

\* A pass rests on what the process is about, and on this run of it: both
\* heartbeat directions failed and recovered, the MCU ran the requests, the
\* slave booted with each image of the mode, each phase had its own EMCYs,
\* exactly the EMCYs of the test reached the MCU, and the GFC slave has none
\* of the defects the cases look for, up to what a lost frame can hide.
PassHasEvidence ==
    /\ chosen = "heartbeat" => Heartbeat!PassMeansBothDirections
    /\ chosen = "client" => SdoClient!PassMeansExecuted
    /\ chosen = "storage" => Storage!PassMeansBooted
    /\ chosen = "emcy" => Emcy!PassHasEvidence
    /\ chosen = "emcyConsumer" => EmcyConsumer!PassMeansDelivered
    /\ chosen = "gfc" => Gfc!PassHasEvidence

\* A pass of any of them leaves the slave as it was found, with no abandoned
\* request under way; storageProcess() promises it whenever it does not
\* report the target as dirty.
PassMeansRestored ==
    /\ chosen = "heartbeat" => Heartbeat!PassMeansRestored
    /\ chosen = "block" => SdoBlock!PassMeansRestored
    /\ chosen = "client" => SdoClient!PassMeansRestored
    /\ chosen = "storage" => Storage!CleanMeansRestored
    /\ chosen = "emcy" => Emcy!PassMeansRestored
    /\ chosen = "emcyConsumer" => EmcyConsumer!PassMeansRestored
    /\ chosen = "gfc" => Gfc!PassMeansRestored

\* What a failure leaves behind: the master's heartbeat, its supervision of
\* the slave and the slave assignment are back unless a local write was
\* refused, sdoBlockProcess() does not leave the node stopped, and a wrong
\* result or a missing EMCY does not skip the cleanup of the slave or of the
\* Host's own error stack.
FailureStillRestores ==
    /\ chosen = "heartbeat" => Heartbeat!LocalStateRestored
    /\ chosen = "block" => SdoBlock!NotLeftStopped
    /\ chosen = "client" => SdoClient!FailureStillRestores
    /\ chosen = "storage" => Storage!SupervisionRestored
    /\ chosen = "emcy" => Emcy!FailureStillRestores
    /\ chosen = "emcyConsumer" => EmcyConsumer!HostStackRestored

\* sdoBlockProcess() makes no SDO call after one that was given up.
NoCallOnUnknownChannel ==
    chosen = "block" => SdoBlock!NoCallOnUnknownChannel

\* Nobody sends what nobody expects: emcyProcess() never leaves the slave
\* with an EMCY COB-ID the master does not listen to, as long as its calls
\* are answered, and when cleanupGfcValidation() restores 0x1300 no producer
\* request is left that would send one more GFC.
NoStrayFrame ==
    /\ chosen = "emcy" => Emcy!NoReceiverSwitchWindow
    /\ chosen = "gfc" => Gfc!NoFrameAfterRestore
=============================================================================
