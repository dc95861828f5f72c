---------------------------- MODULE TimeProcess ----------------------------
(***************************************************************************)
(* TIME consumer validation (src/time_process.cpp).  The process injects   *)
(* TIME frames and reads the slave's clock and receive count over SDO: a   *)
(* valid frame must be counted and applied, one with a wrong length        *)
(* neither, one sent while the consumer is disabled counted but not        *)
(* applied.  Then 0x1012 and the receive buffer are restored, with         *)
(* communication resets where a write alone does not do it.                *)
(*                                                                         *)
(* The clock is read in five SDO calls while it runs, across midnight and  *)
(* the end of the day counter.  Each phase is a script of operations.      *)
(*                                                                         *)
(* External, as the comments of the code describe CANopenNode: the receive *)
(* buffer is installed by a communication reset when 0x1012 enables the    *)
(* consumer; a received frame is counted at once and applied later by the  *)
(* main loop, if the consumer is enabled then.  An SDO answer comes after  *)
(* the frames sent before its request.  A sleep is longer than a cycle of  *)
(* the main loop.  The slave under test may be defective.                  *)
(***************************************************************************)
EXTENDS Naturals, Sequences

CONSTANTS
    DayLength, Days,   \* kMillisecondsPerDay, and the days of the cycle
    Tolerance,         \* kAppliedTimeToleranceMs, kContinuousToleranceMs
    Wait,              \* kContinuousWaitMs, kNegativeObservationWaitMs
    RetryCount,        \* kDiagnosticSnapshotRetryCount
    MaxTicks,          \* bound: time that passes between two operations
    MaxPolls           \* bound: polls until kDiagnosticApplyTimeoutMs

VARIABLES
    remote, late, reply,       \* the SDO service: 0x1012
    time, rx, buffer, pending, \* external: clock, receive count, receive
                               \* buffer, frame the main loop has not seen yet
    wire, nmt, defect,         \* external: frame under way, state, defect
    host,                      \* host clock since send_time, or since the
                               \* earlier snapshot of a comparison
    pc, pos, result, flags,
    sub, attempt, polls,       \* readTimeDiagnostic(), deadlines
    diag, before,              \* TimeDiagnostic of now and of earlier
    previous_count, original,
    applied, lost              \* history: injected times the slave took, and
                               \* whether a frame was lost

sdo == <<remote, late, reply>>
slave == <<time, rx, buffer, pending, wire, nmt, defect>>
reading == <<sub, attempt, polls, diag, before, previous_count>>
control == <<pc, pos, result, flags>>
history == <<applied, lost>>
vars == <<sdo, slave, host, control, reading, original, history>>

Cob == "0x1012"
Diagnostic == "0x2300"
Objects == {Cob, Diagnostic}
Sdo == INSTANCE SdoService WITH Values <- {"on", "off"}

Cycle == DayLength * Days
None == Cycle          \* no time
RxRange == 4           \* the receive count is read modulo this

timePosition(ms, days) == days * DayLength + ms

\* Mutant: elapsed time that does not wrap with the day counter.
plainTimeDelta(from, to) == IF to >= from THEN to - from ELSE 0

forwardTimeDelta(from, to) == IF to >= from THEN to - from ELSE Cycle - from + to

\* The slave's clock when ms was read is kept as history.
NoDiag == [count |-> 0, ms |-> 0, days |-> 0, at |-> 0, clock |-> 0]

FlagNames == {"cob_id_modification_attempted", "restoration_verified",
              "completion_wait_timed_out", "slave_needs_start",
              "reset_recovery_required", "consumer_enable_reset_performed"}

Init ==
    /\ \E c \in {"on", "off"} : Sdo!SdoInit([o \in Objects |-> c])
    /\ reply.value = "on"
    /\ time = 0 /\ rx = 0 /\ buffer = (remote[Cob] = "on") /\ pending = None
    /\ wire = <<>> /\ nmt = "op"
    /\ defect \in {"none", "noapply", "anylength", "ungated", "stopped"}
    /\ host = 0
    /\ pc = "capture" /\ pos = 1 /\ result = 0
    /\ flags = [f \in FlagNames |-> FALSE]
    /\ sub = 1 /\ attempt = 1 /\ polls = 0
    /\ diag = NoDiag /\ before = NoDiag /\ previous_count = 0
    /\ original = "on"
    /\ applied = {} /\ lost = FALSE

-----------------------------------------------------------------------------
(* The slave.                                                              *)

thread == <<sdo, control, reading, original>>

Tick ==
    /\ host < MaxTicks /\ pc = "test"
    /\ host' = host + 1
    /\ time' = IF defect = "stopped" THEN time ELSE (time + 1) % Cycle
    /\ UNCHANGED <<thread, rx, buffer, pending, wire, nmt, defect, history>>

\* A frame reaches the receive callback, or is lost.
Receive ==
    /\ wire # <<>>
    /\ wire' = <<>>
    /\ IF buffer /\ (wire[1].valid \/ defect = "anylength")
       THEN /\ rx' = (rx + 1) % RxRange
            /\ pending' = wire[1].time
       ELSE UNCHANGED <<rx, pending>>
    /\ UNCHANGED <<thread, time, buffer, nmt, defect, host, history>>

LoseFrame ==
    /\ wire # <<>>
    /\ wire' = <<>>
    /\ lost' = TRUE
    /\ UNCHANGED <<thread, time, rx, buffer, pending, nmt, defect, host, applied>>

Consumes == pending # None /\ (remote[Cob] = "on" \/ defect = "ungated")

\* CO_TIME_process() in the main loop.
ApplyTime ==
    /\ Consumes
    /\ pending' = None
    /\ IF defect = "noapply" THEN UNCHANGED <<time, applied>>
       ELSE time' = pending /\ applied' = applied \cup {pending}
    /\ UNCHANGED <<thread, rx, buffer, wire, nmt, defect, host, lost>>

LateEffect ==
    /\ Sdo!LateWrite \/ Sdo!LateLoss
    /\ UNCHANGED <<slave, host, control, reading, original, history>>

-----------------------------------------------------------------------------
(* Scripts.                                                                *)

Op(kind, value) == [kind |-> kind, value |-> value]

\* Injected times: at the end of a day, on the last day, and others.
LateInDay == timePosition(DayLength - 1, 2)
LastDay == timePosition(0, Days - 1)
Continuous == timePosition(1, 4)
Unwanted == timePosition(1, 11)
Again == timePosition(1, 16)

Frame(t, valid) == Op("send", [time |-> t, valid |-> valid])
Diag == Op("diag", "-")
Keep == Op("keep", "-")

injectAndVerifyTime(t) ==
    <<Op("count", "-"), Frame(t, TRUE), Op("poll", "-"), Diag, Op("applied", t)>>
verifyInvalidDlc ==
    <<Diag, Keep, Frame(Unwanted, FALSE), Op("sleep", "-"), Diag, Op("advance", 0)>>
writeAndVerifyTimeCobId(v) == <<Op("write", v), Op("expect", v)>>

Tests ==
    <<Diag>> \o injectAndVerifyTime(LateInDay) \o injectAndVerifyTime(LastDay)
    \o injectAndVerifyTime(Continuous)
    \o <<Keep, Op("sleep", "-"), Diag, Op("advance", 0)>>
    \o verifyInvalidDlc
    \o writeAndVerifyTimeCobId("off")
    \o <<Diag, Keep, Frame(Unwanted, TRUE), Op("sleep", "-"), Diag, Op("advance", 1)>>
    \o writeAndVerifyTimeCobId("on") \o injectAndVerifyTime(Again)

\* Mutant: cleanup restores the value but not the receive buffer.
RestoreValueOnly == writeAndVerifyTimeCobId(original)

\* Cleanup; a reset rebuilds the receive buffer the test had installed.
Restore ==
    writeAndVerifyTimeCobId(original)
    \o IF flags.consumer_enable_reset_performed
       THEN <<Op("reset", "-"), Op("expect", original)>> ELSE <<>>

recoverTimeCobIdWithReset ==
    <<Op("reset", "-")>> \o writeAndVerifyTimeCobId(original)
    \o <<Op("reset", "-"), Op("expect", original)>>

Script ==
    CASE pc = "capture" -> <<Diag, Op("original", "-")>>
      [] pc = "enable"  -> writeAndVerifyTimeCobId("on") \o <<Op("reset", "-"), Op("expect", "on")>>
      [] pc = "test"    -> Tests
      [] pc = "restore" -> Restore
      [] pc = "recover" -> recoverTimeCobIdWithReset

Scripted == {"capture", "enable", "test", "restore", "recover"}
Current == Script[pos]
At(kind) == pc \in Scripted /\ Current.kind = kind

-----------------------------------------------------------------------------
(* The process thread.                                                     *)

\* A phase that ends well.
Completed ==
    CASE pc = "capture" -> IF original' = "off" THEN "enable" ELSE "test"
      [] pc = "enable"  -> "test"
      [] pc = "test"    -> "cleanup"
      [] pc \in {"restore", "recover"} -> "verdict"

\* The phase after a failure; before 0x1012 is known there is no cleanup.
Broken ==
    CASE pc = "capture" -> "done"
      [] pc \in {"enable", "test"} -> "cleanup"
      [] pc = "restore" -> "recover"
      [] pc = "recover" -> "verdict"

Fresh == sub' = 1 /\ attempt' = 1 /\ polls' = 0

Flag(f, set) == f = [g \in FlagNames |-> flags[g] \/ g \in set]

\* The current operation succeeded; set: the flags it raises.  send_time is
\* taken after the count was read.
Advance(set) ==
    LET last == pos = Len(Script)
        raised == set \cup IF last /\ pc \in {"restore", "recover"}
                          THEN {"restoration_verified"} ELSE {}
        cleared == IF Current.kind = "reset" THEN {"completion_wait_timed_out"} ELSE {}
    IN  /\ Fresh
        /\ host' = CASE Current.kind = "count" -> 0
                     [] Current.kind = "keep" -> host - diag.at
                     [] OTHER -> host
        /\ pos' = IF last THEN 1 ELSE pos + 1
        /\ pc' = IF last THEN Completed ELSE pc
        /\ flags' = [g \in FlagNames |-> g \in raised \/ (flags[g] /\ g \notin cleared)]
        /\ UNCHANGED result

Fail(set) ==
    /\ Fresh /\ UNCHANGED host
    /\ pos' = 1 /\ pc' = Broken
    /\ result' = 1
    /\ Flag(flags', set)

\* An answer comes after the frames sent before its request.
InOrder == reply'.class = "SUCCESS" => wire = <<>>
Abandoned == IF reply'.class = "WAIT_TIMEOUT" THEN {"completion_wait_timed_out"} ELSE {}

ReadDiagnostic == Sdo!SdoRead(Diagnostic) /\ InOrder
ReadFails == reply'.class # "SUCCESS" /\ Fail(Abandoned)
NextRead == sub' = sub + 1 /\ UNCHANGED <<attempt, polls, host, control>>

DayNow == time \div DayLength
MsNow == time % DayLength

\* Mutant: the day is not read a second time.
SameUnread == diag.count = rx

\* Nothing changed around the milliseconds.
Same == diag.count = rx /\ diag.days = DayNow

\* readTimeDiagnostic(): count, days, milliseconds, days, count.
DiagnosticStep ==
    /\ At("diag")
    /\ ReadDiagnostic
    /\ \/ ReadFails /\ UNCHANGED diag
       \/ /\ reply'.class = "SUCCESS" /\ sub = 1 /\ NextRead
          /\ diag' = [NoDiag EXCEPT !.count = rx]
       \/ /\ reply'.class = "SUCCESS" /\ sub = 2 /\ NextRead
          /\ diag' = [diag EXCEPT !.days = DayNow]
       \/ /\ reply'.class = "SUCCESS" /\ sub = 3 /\ NextRead
          /\ diag' = [diag EXCEPT !.ms = MsNow, !.at = host, !.clock = time]
       \/ /\ reply'.class = "SUCCESS" /\ sub = 4
          /\ IF Same THEN Advance({})
             ELSE IF attempt < RetryCount
             THEN sub' = 1 /\ attempt' = attempt + 1 /\ UNCHANGED <<polls, host, control>>
             ELSE Fail({})
          /\ UNCHANGED diag
    /\ UNCHANGED <<slave, before, previous_count, original, history>>

ReadOriginal ==
    /\ At("original")
    /\ Sdo!SdoRead(Cob)
    /\ \/ /\ reply'.class = "SUCCESS" /\ original' = reply'.value
          /\ Advance(IF reply'.value = "off" THEN {"cob_id_modification_attempted"} ELSE {})
       \/ Fail(Abandoned) /\ UNCHANGED original   \* also an unsupported COB-ID
    /\ UNCHANGED <<slave, diag, before, previous_count, history>>

readRxCount ==
    /\ At("count")
    /\ ReadDiagnostic
    /\ \/ reply'.class = "SUCCESS" /\ previous_count' = rx /\ Advance({})
       \/ ReadFails /\ UNCHANGED previous_count
    /\ diag' = NoDiag
    /\ UNCHANGED <<slave, before, original, history>>

sendTimeFrame ==
    /\ At("send")
    /\ \/ wire' = <<Current.value>> /\ Advance({})
       \/ Fail({}) /\ UNCHANGED wire
    /\ UNCHANGED <<sdo, time, rx, buffer, pending, nmt, defect, diag, before,
                   previous_count, original, history>>

\* waitForRxCount(): exactly one more, or the time is up.
waitForRxCount ==
    /\ At("poll")
    /\ ReadDiagnostic
    /\ \/ reply'.class = "SUCCESS" /\ rx = (previous_count + 1) % RxRange /\ Advance({})
       \/ reply'.class = "SUCCESS" /\ rx # (previous_count + 1) % RxRange /\ Fail({})
       \/ ReadFails
    /\ UNCHANGED <<slave, diag, before, previous_count, original, history>>

\* waitForAppliedTime(), after a snapshot: the clock is at most the host's
\* elapsed time ahead of what was sent; otherwise another snapshot.
waitForAppliedTime ==
    /\ At("applied")
    /\ LET elapsed == forwardTimeDelta(Current.value, timePosition(diag.ms, diag.days))
           counted == diag.count = (previous_count + 1) % RxRange
       IN  \/ counted /\ elapsed <= diag.at + Tolerance /\ Advance({})
           \/ /\ counted /\ elapsed > diag.at + Tolerance /\ polls < MaxPolls
              /\ pos' = pos - 1 /\ sub' = 1 /\ attempt' = 1 /\ polls' = polls + 1
              /\ UNCHANGED <<pc, result, flags, host>>
           \/ ~counted /\ Fail({})
           \/ counted /\ elapsed > diag.at + Tolerance /\ polls = MaxPolls /\ Fail({})
    /\ UNCHANGED <<sdo, slave, diag, before, previous_count, original, history>>

KeepDiagnostic ==
    /\ At("keep")
    /\ before' = diag
    /\ Advance({})
    /\ UNCHANGED <<sdo, slave, diag, previous_count, original, history>>

\* The sleep ends at least Wait after the earlier snapshot; the main loop has
\* run during it.
Sleep ==
    /\ At("sleep")
    /\ wire = <<>> /\ ~Consumes
    /\ host >= Wait
    /\ Advance({})
    /\ UNCHANGED <<sdo, slave, diag, before, previous_count, original, history>>

\* validateContinuousAdvance(): the clock went on by what the host measured.
AdvancedNormally(delta) ==
    LET remote_elapsed == forwardTimeDelta(timePosition(before.ms, before.days),
                                           timePosition(diag.ms, diag.days))
    IN  /\ diag.count = (before.count + delta) % RxRange
        /\ remote_elapsed + Tolerance >= diag.at
        /\ remote_elapsed <= diag.at + Tolerance

validateContinuousAdvance ==
    /\ At("advance")
    /\ \/ AdvancedNormally(Current.value) /\ Advance({})
       \/ ~AdvancedNormally(Current.value) /\ Fail({})
    /\ diag' = NoDiag /\ before' = NoDiag
    /\ UNCHANGED <<sdo, slave, previous_count, original, history>>

WriteCobId ==
    /\ At("write")
    /\ Sdo!SdoWrite(Cob, Current.value)
    /\ LET attempted == IF pc = "test" THEN {"cob_id_modification_attempted"} ELSE {}
       IN  \/ reply'.class = "SUCCESS" /\ Advance(attempted)
           \/ reply'.class # "SUCCESS" /\ Fail(attempted \cup Abandoned)
    /\ UNCHANGED <<slave, diag, before, previous_count, original, history>>

\* The read-back of a write, and verifyTimeCobId().
ExpectCobId ==
    /\ At("expect")
    /\ Sdo!SdoRead(Cob)
    /\ \/ reply'.class = "SUCCESS" /\ reply'.value = Current.value /\ Advance({})
       \/ reply'.class = "SUCCESS" /\ reply'.value # Current.value /\ Fail({})
       \/ ReadFails
    /\ UNCHANGED <<slave, diag, before, previous_count, original, history>>

CommReset == /\ buffer' = (remote[Cob] = "on")
             /\ pending' = None
             /\ nmt' \in {"op", "preop"}

\* What a reset that was not seen to complete means for the cleanup.
ResetFailed ==
    CASE pc = "enable" -> {"reset_recovery_required"}
      [] pc = "recover" -> {"slave_needs_start"}
      [] OTHER -> {}

\* resetSlaveCommunication(): refused, unseen, or a boot after the reset.
ResetSlaveCommunication ==
    /\ At("reset")
    /\ \/ /\ CommReset
          /\ Advance({"slave_needs_start"} \cup
                     IF pc = "enable" THEN {"consumer_enable_reset_performed"} ELSE {})
       \/ CommReset /\ Fail(ResetFailed)
       \/ UNCHANGED <<buffer, pending, nmt>> /\ Fail(ResetFailed)
    /\ UNCHANGED <<sdo, time, rx, wire, defect, diag, before, previous_count,
                   original, history>>

\* timeProcess() after the tests.  Nothing below reads the clock: its state
\* and the evidence of a failed test are dropped.
Cleanup ==
    /\ pc = "cleanup"
    /\ pc' = IF ~flags.cob_id_modification_attempted THEN "verdict"
             ELSE IF flags.completion_wait_timed_out \/ flags.reset_recovery_required
             THEN "recover" ELSE "restore"
    /\ Flag(flags', IF flags.cob_id_modification_attempted THEN {}
                    ELSE {"restoration_verified"})
    /\ result' = IF pc' = "recover" THEN 1 ELSE result
    /\ time' = 0 /\ rx' = 0 /\ pending' = None /\ wire' = <<>> /\ host' = 0
    /\ diag' = NoDiag /\ before' = NoDiag /\ previous_count' = 0
    /\ applied' = IF result' = 0 THEN applied ELSE {}
    /\ lost' = (lost /\ result' = 0)
    /\ UNCHANGED <<sdo, buffer, nmt, defect, pos, sub, attempt, polls, original>>

Verdict ==
    /\ pc = "verdict"
    /\ pc' = "start"
    /\ result' = IF flags.completion_wait_timed_out THEN 1 ELSE result
    /\ UNCHANGED <<sdo, slave, host, pos, flags, reading, original, history>>

\* Only a slave whose 0x1012 is restored is started.
StartSlave ==
    /\ pc = "start"
    /\ pc' = "done"
    /\ \/ /\ flags.slave_needs_start /\ flags.restoration_verified
          /\ \/ /\ nmt' \in {nmt, "op"} /\ UNCHANGED result
                /\ flags' = [flags EXCEPT !.slave_needs_start = FALSE]
             \/ result' = 1 /\ UNCHANGED <<nmt, flags>>
       \/ /\ ~(flags.slave_needs_start /\ flags.restoration_verified)
          /\ UNCHANGED <<nmt, flags, result>>
    /\ UNCHANGED <<sdo, time, rx, buffer, pending, wire, defect, host, pos,
                   reading, original, history>>

Thread ==
    \/ DiagnosticStep \/ ReadOriginal \/ readRxCount \/ sendTimeFrame
    \/ waitForRxCount \/ waitForAppliedTime \/ KeepDiagnostic \/ Sleep
    \/ validateContinuousAdvance \/ WriteCobId \/ ExpectCobId
    \/ ResetSlaveCommunication \/ Cleanup \/ Verdict \/ StartSlave

Done == pc = "done" /\ UNCHANGED vars

Next ==
    \/ Tick \/ Receive \/ LoseFrame \/ ApplyTime \/ LateEffect
    \/ Thread \/ Done

-----------------------------------------------------------------------------
(* Properties.                                                             *)

\* Type correctness; the slave's clock stays within its cycle.
TypeOK ==
    /\ remote[Cob] \in {"on", "off"} /\ Len(late) <= 2
    /\ time \in 0..(Cycle - 1) /\ rx \in 0..(RxRange - 1)
    /\ buffer \in BOOLEAN /\ pending \in 0..Cycle
    /\ host \in 0..MaxTicks /\ sub \in 1..4 /\ attempt \in 1..RetryCount
    /\ flags \in [FlagNames -> BOOLEAN] /\ result \in {0, 1}

\* A snapshot that readTimeDiagnostic() accepts is the slave's clock at one
\* moment: no midnight and no applied frame came between its parts.
SnapshotCoherent ==
    (pc = "test" /\ pos > 1 /\ Script[pos - 1].kind = "diag" /\ sub = 1) =>
        timePosition(diag.ms, diag.days) = diag.clock

\* A pass means that the slave took every injected time and has none of the
\* defects the cases are there to find; only a frame of a wrong length that
\* never arrived can hide that the slave would have taken it.
PassHasEvidence ==
    (pc = "done" /\ result = 0) =>
        /\ {LateInDay, LastDay, Continuous, Again} \subseteq applied
        /\ defect = "none" \/ (defect = "anylength" /\ lost)

\* A pass leaves 0x1012 and the receive buffer as found, and no abandoned
\* write; a slave that was reset has been told to start.
PassMeansRestored ==
    (pc = "done" /\ result = 0) =>
        /\ remote[Cob] = original /\ buffer = (original = "on")
        /\ late = <<>> /\ ~flags.slave_needs_start

\* A slave whose 0x1012 was changed is started only when it is restored.
StartedOnlyRestored ==
    (pc = "start" /\ flags.slave_needs_start /\ ~flags'.slave_needs_start) =>
        remote[Cob] = original /\ late = <<>>
=============================================================================
