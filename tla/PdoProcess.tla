----------------------------- MODULE PdoProcess -----------------------------
(***************************************************************************)
(* PDO validation (src/pdo_process.cpp).  TPDOs of the slave arrive while  *)
(* the process thread compares three views of the same data: the raw       *)
(* frame, Lely's mapped copy and the slave's object dictionary over SDO.   *)
(* Then an RPDO writes a probe to 0x2200, which must be read back and put  *)
(* back.                                                                   *)
(*                                                                         *)
(* A TPDO is known by its number, which stands for both mapped values.     *)
(* External: the slave refreshes its two mapped objects when it sends a    *)
(* TPDO; frames of one sender arrive in order, so an SDO answer comes after*)
(* the TPDOs sent before it; an RPDO leaves, and is called back, at any    *)
(* time after its event.                                                   *)
(* Lely's event loop updates the mapped copy and then calls back, and      *)
(* handles one frame at a time.  The slave under test may have a defect:   *)
(* mapped objects that are not what it sends (od), or a mapping of the     *)
(* master that does not fit the frame (map).                               *)
(***************************************************************************)
EXTENDS Naturals, Sequences

CONSTANTS
    SampleCount,   \* kTpdoSampleCount
    RetryCount,    \* kConsistencyRetryCount
    MaxFrames      \* bound: TPDOs the slave sends

VARIABLES
    remote, late, reply,   \* the SDO service
    op, defect,            \* external: slave operational, its defect
    wire, mapped, calling, \* external: TPDOs on the bus, Lely's mapped copy,
                           \* frame whose callback is under way
    receive_state,         \* TpdoReceiveState
    rpdo,                  \* external: RPDOs accepted and not yet sent
    transmit_state,        \* RpdoTransmitState
    view, attempt,         \* locals of verifyTpdoOdConsistency()
    original_value, original_value_saved, completion_wait_timed_out,
    pc, result,
    verdict,               \* history: what the comparison said
    applied                \* history: RPDO values the slave took since saved

sdo == <<remote, late, reply>>
bus == <<op, defect, wire, mapped, calling>>
saving == <<original_value, original_value_saved>>
local == <<view, attempt>>
vars == <<sdo, bus, receive_state, rpdo, transmit_state, local, saving,
          completion_wait_timed_out, pc, result, verdict, applied>>

Value1 == "value1"
Value2 == "value2"
Test == "0x2200"
Objects == {Value1, Value2, Test}
Original == 0
Probe == 1
Alternate == 2
TestValues == {Original, Probe, Alternate}
None == 0          \* no frame has this number

Sdo == INSTANCE SdoService WITH
           Objects <- Objects, Values <- 0..(MaxFrames + 2)

Frame(n, kind) == [n |-> n, kind |-> kind]
NoFrame == Frame(None, "none")
NoView == [generation |-> 0, raw |-> 0, mapped1 |-> 0, mapped2 |-> 0, sdo1 |-> 0]
Idle == [completed |-> FALSE, error |-> FALSE, payload |-> 0]

\* No RPDO is on its way: only this process triggers the master's event-driven
\* TPDO, and a failed run ends the table.
Init ==
    /\ \E v \in {Original, Probe} :
          Sdo!SdoInit([o \in Objects |-> IF o = Test THEN v ELSE None])
    /\ reply.value = 0
    /\ op \in BOOLEAN /\ defect \in {"none", "od", "map"}
    /\ wire = <<>> /\ mapped = None /\ calling = NoFrame
    /\ receive_state = [samples |-> <<>>, generation |-> 0, latest |-> None,
                        failed |-> FALSE]
    /\ rpdo = <<>>
    /\ transmit_state = Idle
    /\ view = NoView /\ attempt = 0
    /\ original_value = 0 /\ original_value_saved = FALSE
    /\ completion_wait_timed_out = FALSE
    /\ pc = "startMaster" /\ result = 0
    /\ verdict = "none" /\ applied = {}

-----------------------------------------------------------------------------
(* The bus, the slave and Lely's event loop.                               *)

Sent == remote[Value1]    \* number of the last TPDO

\* The slave sends a TPDO: on time, late, or with a wrong length.  Nothing
\* reads the ones that come after the comparison.
SlaveSendsTpdo ==
    /\ op /\ Sent < MaxFrames
    /\ pc \in {"startMaster", "startSlave", "samples", "snapshot", "mapped1",
               "mapped2", "stable", "sdo1", "sdo2", "compare"}
    /\ \E kind \in {"ok", "late", "bad"} : wire' = Append(wire, Frame(Sent + 1, kind))
    /\ remote' = [remote EXCEPT
                    ![Value1] = Sent + 1,
                    ![Value2] = IF defect = "od" THEN None ELSE Sent + 1]
    /\ UNCHANGED <<late, reply, op, defect, mapped, calling, receive_state,
                   rpdo, transmit_state, local, saving,
                   completion_wait_timed_out, pc, result, verdict, applied>>

\* Lely takes the frame and updates the mapped objects, callback to follow.
LelyMapsTpdo ==
    /\ wire # <<>> /\ calling = NoFrame
    /\ calling' = Head(wire)
    /\ wire' = Tail(wire)
    /\ mapped' = IF Head(wire).kind = "bad" THEN mapped
                 ELSE IF defect = "map" THEN None ELSE Head(wire).n
    /\ UNCHANGED <<sdo, op, defect, receive_state, rpdo, transmit_state, local,
                   saving, completion_wait_timed_out, pc, result, verdict,
                   applied>>

\* Mutant: the window is one sample too long.
SampledLate(samples, kind) ==
    IF Len(samples) <= SampleCount THEN Append(samples, kind) ELSE samples

\* Later frames no longer extend the window.
Sampled(samples, kind) ==
    IF Len(samples) < SampleCount THEN Append(samples, kind) ELSE samples

\* The OnRpdo callback that registerPdoCallbacks() installs; cleared at the end.
OnRpdo ==
    /\ calling # NoFrame
    /\ calling' = NoFrame
    /\ receive_state' =
         IF pc = "done" THEN receive_state
         ELSE IF calling.kind = "bad" THEN [receive_state EXCEPT !.failed = TRUE]
         ELSE [receive_state EXCEPT
                 !.latest = calling.n,
                 !.generation = @ + 1,
                 !.samples = Sampled(@, calling.kind)]
    /\ UNCHANGED <<sdo, op, defect, wire, mapped, rpdo, transmit_state, local,
                   saving, completion_wait_timed_out, pc, result, verdict,
                   applied>>

\* Lely sends the next RPDO and calls OnTpdo; the frame may fail or be lost.
OnTpdo ==
    /\ rpdo # <<>>
    /\ rpdo' = Tail(rpdo)
    /\ \E error \in BOOLEAN, arrives \in BOOLEAN :
          /\ transmit_state' =
               IF pc = "done" THEN transmit_state
               ELSE [completed |-> TRUE, error |-> error, payload |-> Head(rpdo)]
          /\ IF arrives /\ op /\ ~error
             THEN /\ remote' = [remote EXCEPT ![Test] = Head(rpdo)]
                  /\ applied' = IF original_value_saved
                                THEN applied \cup {Head(rpdo)} ELSE applied
             ELSE UNCHANGED <<remote, applied>>
    /\ UNCHANGED <<late, reply, bus, receive_state, local, saving,
                   completion_wait_timed_out, pc, result, verdict>>

LateEffect ==
    /\ Sdo!LateWrite \/ Sdo!LateLoss
    /\ UNCHANGED <<bus, receive_state, rpdo, transmit_state, local, saving,
                   completion_wait_timed_out, pc, result, verdict, applied>>

-----------------------------------------------------------------------------
(* The process thread: start, samples and the consistency check.           *)

env == <<defect, wire, mapped, calling, receive_state>>
rest == <<rpdo, transmit_state, saving, applied>>

\* Everything after the failed check is skipped but the cleanup.
FailTo(next) == pc' = next /\ result' = 1

StartMaster ==
    /\ pc = "startMaster"
    /\ \/ pc' = "startSlave" /\ UNCHANGED result
       \/ FailTo("cleanup")
    /\ UNCHANGED <<sdo, op, env, rest, local, completion_wait_timed_out, verdict>>

\* The command may be refused, or lost on its way.
StartSlave ==
    /\ pc = "startSlave"
    /\ \/ pc' = "samples" /\ op' \in {op, TRUE} /\ UNCHANGED result
       \/ FailTo("cleanup") /\ UNCHANGED op
    /\ UNCHANGED <<sdo, env, rest, local, completion_wait_timed_out, verdict>>

\* The window is full, without a receive error, at the right intervals.
SamplesValid ==
    /\ ~receive_state.failed
    /\ Len(receive_state.samples) = SampleCount
    /\ \A i \in 2..SampleCount : receive_state.samples[i] = "ok"

\* waitForTpdoSamples(), then validateTpdoSamples() on the intervals.
WaitForTpdoSamples ==
    /\ pc = "samples"
    /\ \/ SamplesValid /\ pc' = "snapshot" /\ UNCHANGED result
       \/ ~SamplesValid /\ FailTo("cleanup")
    /\ UNCHANGED <<sdo, op, env, rest, local, completion_wait_timed_out, verdict>>

\* getLatestTpdoSample(), at the start of every attempt.
GetLatestTpdoSample ==
    /\ pc = "snapshot"
    /\ \/ /\ receive_state.failed \/ receive_state.generation = 0 \/ attempt = RetryCount
          /\ FailTo("cleanup")
          /\ UNCHANGED local
       \/ /\ ~receive_state.failed /\ receive_state.generation > 0
          /\ attempt < RetryCount
          /\ attempt' = attempt + 1
          /\ view' = [NoView EXCEPT !.generation = receive_state.generation,
                                    !.raw = receive_state.latest]
          /\ pc' = "mapped1" /\ UNCHANGED result
    /\ UNCHANGED <<sdo, op, env, rest, completion_wait_timed_out, verdict>>

\* readMappedTpdoValue(); Lely's copy may be refused.
ReadMapped(from, next, field) ==
    /\ pc = from
    /\ \/ view' = [view EXCEPT ![field] = mapped] /\ pc' = next /\ UNCHANGED result
       \/ FailTo("cleanup") /\ UNCHANGED view
    /\ UNCHANGED <<sdo, op, env, rest, attempt, completion_wait_timed_out, verdict>>

ReadMappedTpdoValue ==
    ReadMapped("mapped1", "mapped2", "mapped1") \/ ReadMapped("mapped2", "stable", "mapped2")

IsTpdoGenerationStable ==
    ~receive_state.failed /\ receive_state.generation = view.generation

CheckMappedStable ==
    /\ pc = "stable"
    /\ pc' = IF IsTpdoGenerationStable THEN "sdo1" ELSE "snapshot"
    /\ UNCHANGED <<sdo, op, env, rest, local, result, completion_wait_timed_out,
                   verdict>>

\* An answer comes after all frames the slave sent before it.
InOrder == reply'.class = "SUCCESS" => wire = <<>> /\ calling = NoFrame

TimedOut == completion_wait_timed_out' =
                (completion_wait_timed_out \/ reply'.class = "WAIT_TIMEOUT")

ReadSdo1 ==
    /\ pc = "sdo1"
    /\ Sdo!SdoRead(Value1) /\ InOrder /\ TimedOut
    /\ \/ /\ reply'.class = "SUCCESS"
          /\ view' = [view EXCEPT !.sdo1 = reply'.value]
          /\ pc' = "sdo2" /\ UNCHANGED result
       \/ reply'.class # "SUCCESS" /\ FailTo("cleanup") /\ UNCHANGED view
    /\ UNCHANGED <<op, env, rest, attempt, verdict>>

ReadSdo2 ==
    /\ pc = "sdo2"
    /\ Sdo!SdoRead(Value2) /\ InOrder /\ TimedOut
    /\ \/ reply'.class = "SUCCESS" /\ pc' = "compare" /\ UNCHANGED result
       \/ reply'.class # "SUCCESS" /\ FailTo("cleanup")
    /\ UNCHANGED <<op, env, rest, local, verdict>>

Coherent == {view.mapped1, view.mapped2, view.sdo1, reply.value} = {view.raw}

\* Mutant: the comparison trusts the first stability check.
CompareUnchecked ==
    /\ pc = "compare"
    /\ \/ Coherent /\ pc' = "save" /\ UNCHANGED result /\ verdict' = "consistent"
       \/ ~Coherent /\ FailTo("cleanup") /\ verdict' = "mismatch"
    /\ UNCHANGED <<sdo, op, env, rest, local, completion_wait_timed_out>>

\* Second stability check, then the comparison of the samples.
Compare ==
    /\ pc = "compare"
    /\ \/ ~IsTpdoGenerationStable /\ pc' = "snapshot" /\ UNCHANGED <<result, verdict>>
       \/ /\ IsTpdoGenerationStable /\ Coherent
          /\ pc' = "save" /\ UNCHANGED result /\ verdict' = "consistent"
       \/ /\ IsTpdoGenerationStable /\ ~Coherent
          /\ FailTo("cleanup") /\ verdict' = "mismatch"
    /\ UNCHANGED <<sdo, op, env, rest, local, completion_wait_timed_out>>

-----------------------------------------------------------------------------
(* The process thread: the RPDO and the restoration of 0x2200.             *)

frozen == <<op, env, local, verdict>>

SaveOriginal ==
    /\ pc = "save"
    /\ Sdo!SdoRead(Test) /\ InOrder /\ TimedOut
    /\ \/ /\ reply'.class = "SUCCESS"
          /\ original_value' = reply'.value /\ original_value_saved' = TRUE
          /\ pc' = "clear" /\ UNCHANGED result
       \/ reply'.class # "SUCCESS" /\ FailTo("cleanup") /\ UNCHANGED saving
    /\ UNCHANGED <<frozen, rpdo, transmit_state, applied>>

ProbeValue == IF original_value = Probe THEN Alternate ELSE Probe

\* sendRpdoValue() is used for the probe and, as a last resort, the original.
SendValue == IF pc \in {"clear", "event", "wait"} THEN ProbeValue ELSE original_value

\* The first half of sendRpdoValue() clears the state, the second triggers.
ClearTransmitState ==
    /\ pc \in {"clear", "lastClear"}
    /\ transmit_state' = Idle
    /\ pc' = IF pc = "clear" THEN "event" ELSE "lastEvent"
    /\ UNCHANGED <<sdo, frozen, rpdo, saving, applied, result,
                   completion_wait_timed_out>>

WriteEvent ==
    /\ pc \in {"event", "lastEvent"}
    /\ \/ /\ rpdo' = Append(rpdo, SendValue)
          /\ pc' = IF pc = "event" THEN "wait" ELSE "lastWait"
          /\ UNCHANGED result
       \/ /\ FailTo(IF pc = "event" THEN "cleanup" ELSE "done")
          /\ UNCHANGED rpdo
    /\ UNCHANGED <<sdo, frozen, transmit_state, saving, applied,
                   completion_wait_timed_out>>

SendConfirmed == transmit_state = [completed |-> TRUE, error |-> FALSE, payload |-> SendValue]

\* Mutant: the probe that was not seen to leave ends the test, not the pass.
WaitTransmitForgotten ==
    /\ pc = "wait"
    /\ pc' = IF SendConfirmed THEN "readBack" ELSE "cleanup"
    /\ UNCHANGED <<sdo, frozen, rest, result, completion_wait_timed_out>>

WaitTransmit ==
    /\ pc = "wait"
    /\ \/ SendConfirmed /\ pc' = "readBack" /\ UNCHANGED result
       \/ ~SendConfirmed /\ FailTo("cleanup")
    /\ UNCHANGED <<sdo, frozen, rest, completion_wait_timed_out>>

ReadBack ==
    /\ pc = "readBack"
    /\ Sdo!SdoRead(Test) /\ InOrder /\ TimedOut
    /\ pc' = "cleanup"
    /\ result' = IF reply'.class = "SUCCESS" /\ reply'.value = ProbeValue
                 THEN result ELSE 1
    /\ UNCHANGED <<frozen, rest>>

Cleanup ==
    /\ pc = "cleanup"
    /\ pc' = IF ~original_value_saved THEN "done"
             ELSE IF completion_wait_timed_out THEN "lastClear" ELSE "restore"
    /\ UNCHANGED <<sdo, frozen, rest, result, completion_wait_timed_out>>

\* Mutant: an unanswered restoration write counts as done.
RestoreUnread ==
    /\ pc = "restore"
    /\ Sdo!SdoWrite(Test, original_value) /\ InOrder /\ TimedOut
    /\ \/ reply'.class = "WAIT_TIMEOUT" /\ FailTo("lastClear")
       \/ reply'.class = "FAILED" /\ FailTo("done")
       \/ reply'.class \in {"SUCCESS", "SDO_TIMEOUT"} /\ pc' = "done" /\ UNCHANGED result
    /\ UNCHANGED <<frozen, rest>>

\* restoreRpdoTestValue(), the write: only an abort skips the read-back.
RestoreWrite ==
    /\ pc = "restore"
    /\ Sdo!SdoWrite(Test, original_value) /\ InOrder /\ TimedOut
    /\ \/ reply'.class = "WAIT_TIMEOUT" /\ FailTo("lastClear")
       \/ reply'.class = "FAILED" /\ FailTo("done")
       \/ reply'.class \in {"SUCCESS", "SDO_TIMEOUT"} /\ pc' = "verify" /\ UNCHANGED result
    /\ UNCHANGED <<frozen, rest>>

RestoreVerify ==
    /\ pc = "verify"
    /\ Sdo!SdoRead(Test) /\ InOrder /\ TimedOut
    /\ \/ reply'.class = "WAIT_TIMEOUT" /\ FailTo("lastClear")
       \/ /\ reply'.class # "WAIT_TIMEOUT" /\ pc' = "done"
          /\ result' = IF reply'.class = "SUCCESS" /\ reply'.value = original_value
                       THEN result ELSE 1
    /\ UNCHANGED <<frozen, rest>>

LastWait ==
    /\ pc = "lastWait"
    /\ FailTo("done")
    /\ UNCHANGED <<sdo, frozen, rest, completion_wait_timed_out>>

Thread ==
    \/ StartMaster \/ StartSlave \/ WaitForTpdoSamples
    \/ GetLatestTpdoSample \/ ReadMappedTpdoValue \/ CheckMappedStable
    \/ ReadSdo1 \/ ReadSdo2 \/ Compare
    \/ SaveOriginal \/ ClearTransmitState \/ WriteEvent \/ WaitTransmit
    \/ ReadBack \/ Cleanup \/ RestoreWrite \/ RestoreVerify \/ LastWait

Done == pc = "done" /\ UNCHANGED vars

Next ==
    \/ SlaveSendsTpdo \/ LelyMapsTpdo \/ OnRpdo \/ OnTpdo \/ LateEffect
    \/ Thread \/ Done

-----------------------------------------------------------------------------
(* Properties.                                                             *)

\* Type correctness; the window never holds more than its samples.
TypeOK ==
    /\ remote \in [Objects -> 0..(MaxFrames + 2)]
    /\ Len(late) <= 1
    /\ op \in BOOLEAN /\ mapped \in 0..MaxFrames
    /\ Len(receive_state.samples) <= SampleCount
    /\ receive_state.generation \in 0..MaxFrames
    /\ Len(rpdo) <= 2
    /\ attempt \in 0..RetryCount
    /\ original_value \in TestValues
    /\ result \in {0, 1}
    /\ verdict \in {"none", "consistent", "mismatch"}

\* The verdict is about the slave, never about a TPDO that landed between
\* the samples: a slave without a defect is never reported inconsistent, and
\* one whose objects or mapping do not fit is never reported consistent.
VerdictIsSound ==
    /\ verdict = "mismatch" => defect # "none"
    /\ verdict = "consistent" => defect = "none"

\* A pass means that the slave really took the probe from an RPDO of this
\* run and that the three views agreed.
PassHasEvidence ==
    (pc = "done" /\ result = 0) =>
        /\ verdict = "consistent"
        /\ ProbeValue \in applied

\* A pass leaves 0x2200 as it was found: no abandoned write and no RPDO is
\* under way that could change it again.
PassMeansRestored ==
    (pc = "done" /\ result = 0) =>
        /\ remote[Test] = original_value
        /\ late = <<>> /\ rpdo = <<>>
=============================================================================
