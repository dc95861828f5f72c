----------------------------- MODULE GfcProcess -----------------------------
(***************************************************************************)
(* GFC validation (src/gfc_process.cpp).  The process sends global         *)
(* fail-safe frames on the wire and reads the slave's receive count, makes *)
(* the slave produce one by writing a new request sequence, resets its     *)
(* communication, and puts 0x1300 back.  A request the slave has not       *)
(* completed would produce a frame as soon as 0x1300 is enabled again, so  *)
(* the cleanup disables 0x1300 and waits for the request first.            *)
(*                                                                         *)
(* External: the slave counts a frame of length 0 while 0x1300 is 1; it    *)
(* takes up a new request in its main loop, sends the frame if 0x1300 is 1 *)
(* then, and reports the sequence as complete.  An SDO answer comes after  *)
(* the frames sent before its request; GFC has the highest CAN priority,   *)
(* so a produced frame is captured before the SDO answer that reports it.  *)
(* The slave under test may be defective.                                  *)
(***************************************************************************)
EXTENDS Naturals, Sequences

CONSTANT MaxLate       \* bound: abandoned SDO writes at any time

VARIABLES
    remote, late, reply,        \* the SDO service: 0x1300, 0x2302:03
    rx, safe, complete,         \* external: 0x2302:01, :02 and :04
    wire, captured,             \* external: frame to the slave, frames the
                                \* fixture's channel holds
    nmt, defect,                \* external: state, what is wrong
    pc, pos, result,
    state,                      \* GfcRuntimeState
    count, seq,                 \* diagnostic.rx_count, request_seq
    lost, produced              \* history: a frame was lost; the requests
                                \* that produced one

sdo == <<remote, late, reply>>
slave == <<rx, safe, complete, nmt, defect>>
can == <<wire, captured>>
control == <<pc, pos, result, state, count, seq>>
history == <<lost, produced>>
vars == <<sdo, slave, can, control, history>>

Valid == "0x1300"
Request == "0x2302:03"
Diagnostic == "0x2302"
Objects == {Valid, Request, Diagnostic}
Sdo == INSTANCE SdoService WITH Values <- 0..4

Defects == {"none", "ungated", "anylength", "noabort", "producesDisabled",
            "mute", "badframe", "badresult", "unbound"}

Init ==
    /\ \E v \in {0, 1}, r \in {0, 1} :
          Sdo!SdoInit([o \in Objects |-> CASE o = Valid -> v [] o = Request -> r
                                           [] OTHER -> 0])
    /\ reply.value = 0
    /\ rx = 0 /\ safe = FALSE
    /\ complete = 0         \* an earlier run may have left a request pending
    /\ wire = <<>> /\ captured = <<>>
    /\ nmt = "op" /\ defect \in Defects
    /\ pc = "validate" /\ pos = 1 /\ result = 0
    /\ state = [original_valid |-> 0, original_valid_saved |-> FALSE,
                reset_communication_issued |-> FALSE,
                remote_operational_restored |-> FALSE]
    /\ count = 0 /\ seq = 0
    /\ lost = FALSE /\ produced = {}

-----------------------------------------------------------------------------
(* The slave.                                                              *)

SlaveReceives ==
    /\ wire # <<>>
    /\ wire' = <<>>
    /\ LET counted == /\ remote[Valid] = 1 \/ defect = "ungated"
                      /\ wire[1] = 0 \/ defect = "anylength"
                      /\ ~(defect = "unbound" /\ state.reset_communication_issued)
       IN  /\ rx' = IF counted THEN rx + 1 ELSE rx
           /\ safe' = (safe \/ counted)
    /\ UNCHANGED <<sdo, complete, nmt, defect, captured, control, history>>

LoseFrame ==
    /\ wire # <<>>
    /\ wire' = <<>>
    /\ lost' = TRUE
    /\ UNCHANGED <<sdo, slave, captured, control, produced>>

Pending == remote[Request] # complete

SlaveProduces ==
    /\ Pending
    /\ complete' = remote[Request]
    /\ LET sends == IF remote[Valid] = 1 THEN defect # "mute" ELSE defect = "producesDisabled"
       IN  /\ captured' = IF sends
                          THEN Append(captured, IF defect = "badframe" THEN "bad" ELSE "good")
                          ELSE captured
           /\ produced' = IF sends THEN produced \cup {remote[Request]} ELSE produced
    /\ UNCHANGED <<sdo, rx, safe, nmt, defect, wire, control, lost>>

\* 0x2302:05, what CO_GFCsend() returned for the request that is complete.
ProducerResult == IF defect = "badresult" THEN 1 ELSE 0

LateEffect ==
    /\ Sdo!LateWrite \/ Sdo!LateLoss
    /\ UNCHANGED <<slave, can, control, history>>

-----------------------------------------------------------------------------
(* Scripts.                                                                *)

Op(kind, value) == [kind |-> kind, value |-> value]
Write(v) == Op("write", v)
Expect(v) == Op("expect", v)
Do(kind) == Op(kind, 0)
drain == Do("drain")

\* readDiagnostic() and the comparison of the two sequences after it.
readDiagnostic(first) == <<Do(first), Do("request"), Do("settled")>>

sendAndValidateConsumer == <<Op("send", 0), Do("increment"), Do("safe")>>
validateConsumerCases ==
    <<Write(1)>> \o sendAndValidateConsumer
    \o <<Write(0), Op("send", 0), Do("unchanged"), Do("invalid"), Expect(0),
         Write(1), Op("send", 1), Do("unchanged")>>
    \o sendAndValidateConsumer \o sendAndValidateConsumer \o sendAndValidateConsumer

waitForProducerCompletion == <<Do("complete"), Do("read"), Do("complete")>>
triggerProducer == <<Do("trigger")>> \o waitForProducerCompletion
validateProducerCases ==
    <<Write(0), drain>> \o triggerProducer \o <<Do("noframe"), Write(1), drain>>
    \o triggerProducer \o <<Do("frame")>>

validateResetRebind ==
    <<Do("reset"), Do("boot")>> \o readDiagnostic("unchanged")
    \o <<Do("enabled"), Write(1)>> \o sendAndValidateConsumer \o <<Do("start")>>

runGfcValidation ==
    <<drain, Do("original")>> \o readDiagnostic("rx")
    \o validateConsumerCases \o validateProducerCases \o validateResetRebind
    \o <<Do("read")>>

Restore == <<Op("restore", 0), Do("restored")>>

\* Mutant: 0x1300 is restored whatever the producer is doing.
settleNothing == <<Write(0)>> \o Restore

\* settlePendingProducer() and the restore after it; a request that is
\* already complete leaves out the wait.
settlePendingProducer ==
    <<Write(0), Do("request"), Do("pending")>> \o waitForProducerCompletion
    \o <<Do("same"), Do("complete")>> \o Restore

Script == IF pc = "validate" THEN runGfcValidation ELSE settlePendingProducer
Waited == 5            \* operations of the wait that "pending" passes over

Scripted == {"validate", "settle"}
Current == Script[pos]
At(kind) == pc \in Scripted /\ Current.kind = kind

-----------------------------------------------------------------------------
(* The process thread.                                                     *)

Done == "done"

Skip(n) ==
    /\ pos' = IF pos + n < Len(Script) THEN pos + n + 1 ELSE 1
    /\ pc' = IF pos + n < Len(Script) THEN pc
             ELSE IF pc = "validate" THEN "reopen" ELSE Done
    /\ UNCHANGED result

Advance == Skip(0)

Fail ==
    /\ pos' = 1
    /\ pc' = IF pc = "validate" THEN "reopen" ELSE Done
    /\ result' = 1

Check(condition) == IF condition THEN Advance ELSE Fail

Answered == reply'.class = "SUCCESS"
InOrder == Answered => wire = <<>>
Bounded == Len(late') <= MaxLate

\* A read whose answer must satisfy the condition.
ReadAndCheck(kind, object, condition) ==
    /\ At(kind)
    /\ Sdo!SdoRead(object) /\ InOrder
    /\ Check(Answered /\ condition)
    /\ UNCHANGED <<slave, can, state, count, seq, history>>

writeRemote ==
    /\ At("write")
    /\ Sdo!SdoWrite(Valid, Current.value) /\ InOrder /\ Bounded
    /\ Check(Answered)
    /\ UNCHANGED <<slave, can, state, count, seq, history>>

expectRemote == At("expect") /\ ReadAndCheck("expect", Valid, reply'.value = Current.value)
readRemote == ReadAndCheck("read", Diagnostic, TRUE)
readSafeRequested == ReadAndCheck("safe", Diagnostic, safe)

\* requireRxUnchanged(), and the count after the reset.
requireRxUnchanged == ReadAndCheck("unchanged", Diagnostic, rx = count)

\* producer_request_seq = producer_complete_seq.
CompareSequences == ReadAndCheck("settled", Diagnostic, complete = seq)

\* waitForProducerCompletion(), also its confirmation: the sequence is
\* complete, or the time is up.
PollComplete == ReadAndCheck("complete", Diagnostic, complete = seq)
ConfirmRequest == ReadAndCheck("same", Request, reply'.value = seq)

DrainFixture ==
    /\ At("drain")
    /\ \/ captured' = <<>> /\ Advance
       \/ captured' = captured /\ Fail
    /\ UNCHANGED <<sdo, slave, wire, state, count, seq, history>>

ReadOriginal ==
    /\ At("original")
    /\ Sdo!SdoRead(Valid)
    /\ IF Answered
       THEN /\ Advance
            /\ state' = [state EXCEPT !.original_valid = reply'.value,
                                      !.original_valid_saved = TRUE]
       ELSE Fail /\ UNCHANGED state
    /\ UNCHANGED <<slave, can, count, seq, history>>

ReadCount ==
    /\ At("rx")
    /\ Sdo!SdoRead(Diagnostic) /\ InOrder
    /\ Check(Answered)
    /\ count' = IF Answered THEN rx ELSE count
    /\ UNCHANGED <<slave, can, state, seq, history>>

ReadRequest ==
    /\ At("request")
    /\ Sdo!SdoRead(Request) /\ InOrder
    /\ Check(Answered)
    /\ seq' = IF Answered THEN reply'.value ELSE seq
    /\ UNCHANGED <<slave, can, state, count, history>>

send ==
    /\ At("send")
    /\ \/ wire' = <<Current.value>> /\ Advance
       \/ wire' = wire /\ Fail
    /\ UNCHANGED <<sdo, slave, captured, state, count, seq, history>>

waitForRxIncrement ==
    /\ At("increment")
    /\ Sdo!SdoRead(Diagnostic) /\ InOrder
    /\ Check(Answered /\ rx = count + 1)
    /\ count' = IF Answered THEN rx ELSE count
    /\ UNCHANGED <<slave, can, state, seq, history>>

\* Only the abort PARAM_VAL will do; a write the wait gave up on may still
\* reach a slave that does not check the value.
requireInvalidGfcParameterRejected ==
    /\ At("invalid")
    /\ IF defect = "noabort"
       THEN Sdo!SdoWrite(Valid, 2) /\ InOrder /\ Bounded /\ Fail
       ELSE /\ \E class \in Sdo!Classes : Sdo!Answer(class, reply.value) /\ InOrder
            /\ Check(Answered)
            /\ UNCHANGED <<remote, late>>
    /\ UNCHANGED <<slave, can, state, count, seq, history>>

triggerRequest ==
    /\ At("trigger")
    /\ seq' = seq + 1
    /\ Sdo!SdoWrite(Request, seq + 1) /\ InOrder /\ Bounded
    /\ Check(Answered)
    /\ UNCHANGED <<slave, can, state, count, history>>

\* waitForFrame(): FRAME, TIMEOUT or ERROR, and what each case wants; both cases
\* want the result zero that was read with the completion.
waitForFrame ==
    /\ At("noframe") \/ At("frame")
    /\ \/ /\ captured # <<>>
          /\ captured' = Tail(captured)
          /\ Check(Current.kind = "frame" /\ ProducerResult = 0 /\ captured[1] = "good")
       \/ /\ captured = <<>>
          /\ Check(Current.kind = "noframe" /\ ProducerResult = 0)
          /\ UNCHANGED captured
       \/ Fail /\ UNCHANGED captured
    /\ UNCHANGED <<sdo, slave, wire, state, count, seq, history>>

\* Reset Communication: refused, or sent; 0x1300 may come back either way.
ResetCommunication ==
    /\ At("reset")
    /\ \/ Fail /\ UNCHANGED <<remote, nmt, wire, state>>
       \/ /\ Advance
          /\ remote' \in {[remote EXCEPT ![Valid] = v] : v \in {0, 1}}
          /\ nmt' \in {"op", "preop"}
          /\ wire' = <<>>
          /\ state' = [state EXCEPT !.reset_communication_issued = TRUE,
                                    !.remote_operational_restored = FALSE]
    /\ UNCHANGED <<late, reply, rx, safe, complete, defect, captured, count, seq, history>>

waitForBoot ==
    /\ At("boot")
    /\ \/ /\ Advance
          /\ state' = [state EXCEPT !.remote_operational_restored = (nmt = "op")]
       \/ Fail /\ UNCHANGED state
    /\ UNCHANGED <<sdo, slave, can, count, seq, history>>

\* After the reset 0x1300 is written only if it is not 1.
ReadEnabled ==
    /\ At("enabled")
    /\ Sdo!SdoRead(Valid) /\ InOrder
    /\ IF ~Answered THEN Fail ELSE IF reply'.value = 1 THEN Skip(1) ELSE Advance
    /\ UNCHANGED <<slave, can, state, count, seq, history>>

\* issueNmtCommandAndWaitForState(): started and seen, or not.
Start(wanted, onSuccess, onFailure) ==
    \/ ~wanted /\ onSuccess /\ UNCHANGED <<nmt, state>>
    \/ /\ wanted /\ onSuccess
       /\ nmt' = "op"
       /\ state' = [state EXCEPT !.remote_operational_restored = TRUE]
    \/ wanted /\ onFailure /\ nmt' \in {nmt, "op"} /\ UNCHANGED state

StartAfterReset ==
    /\ At("start")
    /\ Start(~state.remote_operational_restored, Advance, Fail)
    /\ UNCHANGED <<sdo, rx, safe, complete, defect, can, count, seq, history>>

\* cleanupGfcValidation() up to the producer.
Reopen ==
    /\ pc = "reopen"
    /\ pc' = IF state.original_valid_saved THEN "settle" ELSE Done
    /\ Start(state.reset_communication_issued /\ ~state.remote_operational_restored,
             result' = result, result' = 1)
    /\ UNCHANGED <<sdo, rx, safe, complete, defect, can, pos, count, seq, history>>

PendingProducer ==
    /\ At("pending")
    /\ Sdo!SdoRead(Diagnostic) /\ InOrder
    /\ IF ~Answered THEN Fail ELSE IF complete = seq THEN Skip(Waited) ELSE Advance
    /\ UNCHANGED <<slave, can, state, count, seq, history>>

RestoreValid ==
    /\ At("restore")
    /\ Sdo!SdoWrite(Valid, state.original_valid) /\ InOrder /\ Bounded
    /\ Check(Answered)
    /\ UNCHANGED <<slave, can, state, count, seq, history>>

VerifyRestored == ReadAndCheck("restored", Valid, reply'.value = state.original_valid)

Thread ==
    \/ writeRemote \/ expectRemote \/ readRemote \/ readSafeRequested
    \/ requireRxUnchanged \/ CompareSequences \/ PollComplete \/ ConfirmRequest
    \/ DrainFixture \/ ReadOriginal \/ ReadCount \/ ReadRequest \/ send
    \/ waitForRxIncrement \/ requireInvalidGfcParameterRejected \/ triggerRequest
    \/ waitForFrame \/ ResetCommunication \/ waitForBoot \/ ReadEnabled
    \/ StartAfterReset \/ Reopen \/ PendingProducer \/ RestoreValid \/ VerifyRestored

Finished == pc = Done /\ UNCHANGED vars

Next ==
    \/ SlaveReceives \/ LoseFrame \/ SlaveProduces \/ LateEffect
    \/ Thread \/ Finished

-----------------------------------------------------------------------------
(* Properties.                                                             *)

\* Type correctness.
TypeOK ==
    /\ remote[Valid] \in 0..2 /\ remote[Request] \in 0..4 /\ Len(late) <= MaxLate
    /\ rx \in Nat /\ complete \in 0..4
    /\ Len(wire) <= 1 /\ Len(captured) <= 2
    /\ pc \in Scripted \cup {"reopen", Done} /\ result \in {0, 1}

\* Once the cleanup has begun to restore 0x1300, no request is pending and
\* none is under way: enabling 0x1300 makes the slave send nothing more.
NoFrameAfterRestore ==
    (At("restore") \/ At("restored")) =>
        /\ ~Pending
        /\ \A i \in DOMAIN late : late[i][1] # Request

\* A pass means that the slave has none of the defects the cases look for
\* and produced a frame for the last request and none for the one before; a
\* frame lost on its way can hide that the slave would have counted it.
PassHasEvidence ==
    (pc = Done /\ result = 0) =>
        /\ defect = "none" \/ (lost /\ defect \in {"ungated", "anylength"})
        /\ seq \in produced /\ seq - 1 \notin produced

\* A pass leaves 0x1300 as found, no request pending, no abandoned write and
\* the slave operational.
PassMeansRestored ==
    (pc = Done /\ result = 0) =>
        /\ remote[Valid] = state.original_valid /\ late = <<>>
        /\ ~Pending /\ nmt = "op"
=============================================================================
