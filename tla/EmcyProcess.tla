---------------------------- MODULE EmcyProcess ----------------------------
(***************************************************************************)
(* EMCY producer validation (src/emcy_process.cpp).  The process stops the *)
(* master's heartbeat until the slave reports EMCY 0x8130 and restores it  *)
(* until the slave reports the error reset: with the slave's own COB-ID    *)
(* and no inhibit time, with a test COB-ID and inhibit time, and once more *)
(* after everything is restored.  Each phase is a script of operations; an *)
(* operation that fails skips a number of the following ones (all of them  *)
(* where the code returns, none where it goes on).                         *)
(*                                                                         *)
(* External: the slave raises the error while the master is silent, clears *)
(* it when the heartbeat is back, records both in 0x1003 (newest first, at *)
(* most Capacity entries) and sends an EMCY with its current COB-ID; the   *)
(* inhibit time may delay it.  The slave under test may be defective: it   *)
(* does not record, or it repeats an EMCY.                                 *)
(***************************************************************************)
EXTENDS Naturals, Sequences

CONSTANTS
    Capacity,   \* kErrorHistoryCapacity
    MaxLate     \* bound: abandoned SDO writes at any time

VARIABLES
    remote, late, reply,  \* the SDO service
    heartbeat, consumer,  \* local 0x1017 and 0x1028 (COB-ID)
    register, entries,    \* external: 0x1001 and 0x1003 of the slave
    wire, log,            \* external: EMCYs under way, the observer's events
    defect,               \* external: what is wrong with the slave
    pc, pos, result,
    ok,                   \* verdict of the phase
    locals,               \* of the phase: sequence snapshot, sequence of the
                          \* fault event, history count, COB-ID read
    refused, troubled,    \* history: a local write, an SDO call failed
    emitted               \* history: the EMCYs of each phase

sdo == <<remote, late, reply>>
slave == <<register, entries, wire, defect, emitted>>
local == <<heartbeat, consumer>>
control == <<pc, pos, result, ok, locals>>
vars == <<sdo, slave, log, local, control, refused, troubled>>

Cob == "0x1014"
Inhibit == "0x1015"
Register == "0x1001"
History == "0x1003"
DeviceType == "0x1000"
Objects == {Cob, Inhibit, Register, History, DeviceType}
Off == [saved |-> "savedOff", test |-> "testOff"]
Enabled == DOMAIN Off
Codes == {"fault", "reset"}

Sdo == INSTANCE SdoService WITH Values <- {"saved"}

NoLocals == [sequence |-> 0, fault |-> 0, baseline |-> 0, current |-> "saved"]

Tests == {"default", "inhibit", "smoke"}
Phases == {"capture", "default", "cob", "inhibit", "restore", "smoke", "last", "done"}

Init ==
    /\ Sdo!SdoInit([o \in Objects |-> "saved"])
    /\ register = "clear"
    /\ \E count \in {Capacity - 2, Capacity} :
          entries = [i \in 1..count |-> IF i % 2 = 1 THEN "reset" ELSE "fault"]
    /\ heartbeat = "saved" /\ consumer = "saved"
    /\ wire = <<>> /\ log = <<>>
    /\ defect \in {"none", "norecord", "repeats"}
    /\ pc = "capture" /\ pos = 1 /\ result = 0
    /\ ok = TRUE
    /\ locals = NoLocals
    /\ refused = FALSE /\ troubled = FALSE
    /\ emitted = {}

-----------------------------------------------------------------------------
(* The slave and the observer.                                             *)

Send(code) == IF remote[Cob] \in Enabled
              THEN Append(wire, [code |-> code, cob |-> remote[Cob]]) ELSE wire

\* The error becomes active or clears: register, history and EMCY.
SlaveReports(code, newRegister) ==
    /\ register' = newRegister
    /\ entries' = IF defect = "norecord" THEN entries
                  ELSE SubSeq(<<code>> \o entries, 1,
                              IF Len(entries) = Capacity THEN Capacity
                              ELSE Len(entries) + 1)
    /\ wire' = Send(code)
    /\ emitted' = IF pc \in Tests THEN emitted \cup {<<pc, code>>} ELSE emitted
    /\ UNCHANGED <<sdo, defect, log, local, control, refused, troubled>>

SlaveRaises ==
    heartbeat = "0" /\ register = "clear" /\ SlaveReports("fault", "comm")
SlaveClears ==
    heartbeat = "saved" /\ register = "comm" /\ SlaveReports("reset", "clear")

\* A defective slave sends the same fault again, once.
SlaveRepeats ==
    /\ defect = "repeats" /\ register = "comm"
    /\ defect' = "none"
    /\ wire' = Send("fault")
    /\ UNCHANGED <<sdo, register, entries, emitted, log, local,
                   control, refused, troubled>>

\* The master only receives the COB-ID its consumer is set to.
DeliverEmcy ==
    /\ wire # <<>>
    /\ wire' = Tail(wire)
    /\ log' = IF Head(wire).cob = consumer THEN Append(log, Head(wire).code) ELSE log
    /\ UNCHANGED <<sdo, register, entries, defect, emitted, local, control, refused, troubled>>

LateEffect ==
    /\ Sdo!LateWrite \/ Sdo!LateLoss
    /\ UNCHANGED <<slave, log, local, control, refused, troubled>>

-----------------------------------------------------------------------------
(* Scripts.  skip: operations passed over when this one fails.             *)

Op(kind, object, value, skip) ==
    [kind |-> kind, object |-> object, value |-> value, skip |-> skip]
All == 99
Read(o, skip) == Op("read", o, "any", skip)
Expect(o, v, skip) == Op("expect", o, v, skip)
Write(o, v, skip) == Op("write", o, v, skip)

readBaseline == <<Expect(Register, "clear", All), Op("baseline", History, "any", All)>>

triggerHeartbeatFault ==
    <<Op("snapshot", "-", "-", 0), Op("heartbeat", "-", "0", All),
      Op("wait", "-", "fault", All)>>
recoverHeartbeatFault ==
    <<Op("snapshot", "-", "-", 0), Op("heartbeat", "-", "saved", All),
      Op("wait", "-", "reset", All)>>

\* Three calls that end early when the producer is already disabled.
disableRemoteEmcyProducer(skip) ==
    <<Op("current", Cob, "any", skip + 2), Op("disable", Cob, "any", skip + 1),
      Op("expectOff", Cob, "any", skip)>>

\* Mutant: the consumer is moved while the producer still sends.
switchConsumerFirst ==
    <<Op("consumer", "-", "test", All)>> \o disableRemoteEmcyProducer(All)
    \o <<Write(Cob, "test", All), Expect(Cob, "test", All)>>

configureTestEmcyCobId ==
    disableRemoteEmcyProducer(All) \o <<Op("consumer", "-", "test", All)>>
    \o <<Write(Cob, "test", All), Expect(Cob, "test", All), Expect(Cob, "test", All)>>

runDefaultEmcyValidation ==
    readBaseline \o <<Write(Inhibit, "0", All), Expect(Inhibit, "0", All)>>
    \o triggerHeartbeatFault
    \o <<Expect(Register, "comm", 0), Op("added", History, 1, 0), Op("unique", "-", "-", 0)>>
    \o recoverHeartbeatFault
    \o <<Expect(Register, "clear", 1), Op("added", History, 2, 0)>>

runConfigurableInhibitValidation ==
    <<Write(Inhibit, "test", All), Expect(Inhibit, "test", All)>>
    \o readBaseline \o triggerHeartbeatFault \o <<Expect(Register, "comm", 0)>>
    \o recoverHeartbeatFault
    \o <<Expect(Register, "clear", 0), Op("interval", "-", "-", 0), Op("added", History, 2, 0)>>

\* Mutant: the test COB-ID is not undone on the slave.
restoreWithoutCobId ==
    <<Op("heartbeat", "-", "saved", 0), Expect(Register, "clear", 0),
      Write(Inhibit, "saved", 0), Op("consumer", "-", "saved", 0),
      Op("consumerRead", "-", "-", 1), Expect(Inhibit, "saved", 0)>>

\* Best effort: every part is tried, then everything is read back.
restoreEmcyConfiguration ==
    <<Op("heartbeat", "-", "saved", 0), Expect(Register, "clear", 0),
      Write(Inhibit, "saved", 0)>>
    \o disableRemoteEmcyProducer(0) \o <<Op("consumer", "-", "saved", 0)>>
    \o <<Write(Cob, "saved", 1), Expect(Cob, "saved", 0)>>
    \o <<Op("consumerRead", "-", "-", 2), Expect(Cob, "saved", 1), Expect(Inhibit, "saved", 0)>>

runRestoredPathSmoke ==
    triggerHeartbeatFault \o recoverHeartbeatFault
    \o <<Expect(Register, "clear", 0), Read(DeviceType, 0)>>

captureSavedState ==
    <<Read(Cob, All), Read(Inhibit, All), Expect(Register, "clear", All),
      Read(History, All)>>

Script ==
    CASE pc = "capture" -> captureSavedState
      [] pc = "default" -> runDefaultEmcyValidation
      [] pc = "cob" -> configureTestEmcyCobId
      [] pc = "inhibit" -> runConfigurableInhibitValidation
      [] pc \in {"restore", "last"} -> restoreEmcyConfiguration
      [] pc = "smoke" -> runRestoredPathSmoke

Current == Script[pos]
Running == pc # "done"

-----------------------------------------------------------------------------
(* The process thread.                                                     *)

\* emcyProcess(): the phase after this one.
NextPhase(good) ==
    CASE pc = "capture" -> IF good THEN "default" ELSE "done"
      [] pc = "default" -> IF good THEN "cob" ELSE "restore"
      [] pc = "cob"     -> IF good THEN "inhibit" ELSE "restore"
      [] pc = "inhibit" -> "restore"
      [] pc = "restore" -> IF good /\ result = 0 THEN "smoke" ELSE "last"
      [] pc = "smoke"   -> "last"
      [] pc = "last"    -> "done"

\* Go on after n operations; good tells whether the current one succeeded.
\* The locals go out of scope with their phase.
Step(n, good, scope) ==
    LET verdict == ok /\ good
    IN  IF pos + n <= Len(Script)
        THEN /\ pos' = pos + n /\ ok' = verdict /\ locals' = scope
             /\ UNCHANGED <<pc, result>>
        ELSE /\ pos' = 1 /\ ok' = TRUE /\ locals' = NoLocals
             /\ pc' = NextPhase(verdict)
             /\ result' = IF verdict THEN result ELSE 1

Advance == Step(1, TRUE, locals)
Fail == Step(1 + Current.skip, FALSE, locals)

\* What a read delivers.
Delivered == CASE Current.object = Register -> register
               [] Current.object = History -> entries
               [] OTHER -> reply'.value

\* expectedHistoryCount(): full stays full.
ExpectedHistoryCount(added) ==
    IF locals.baseline + added > Capacity THEN Capacity ELSE locals.baseline + added

Accepts(v) ==
    LET op == Current
    IN  CASE op.kind = "expect" -> v = op.value
          [] op.kind = "expectOff" -> v = Off[locals.current]
          [] op.kind = "added" ->
                /\ Len(v) = ExpectedHistoryCount(op.value)
                /\ Len(v) >= op.value
                /\ op.value = 1 => v[1] = "fault"
                /\ op.value = 2 => v[1] = "reset" /\ v[2] = "fault"
          [] OTHER -> TRUE

Calls == {"read", "expect", "write", "baseline", "current", "disable",
          "expectOff", "added"}

\* Outcomes the process can tell apart or that differ in what they leave
\* behind: it treats all failures alike, and an SDO_TIMEOUT leaves nothing
\* that a WAIT_TIMEOUT does not.
Distinct == IF Current.kind \in {"write", "disable"}
            THEN {"SUCCESS", "FAILED", "WAIT_TIMEOUT"} ELSE {"SUCCESS", "FAILED"}

SdoCall ==
    /\ Running /\ Current.kind \in Calls
    /\ CASE Current.kind = "write" -> Sdo!SdoWrite(Current.object, Current.value)
         [] Current.kind = "disable" -> Sdo!SdoWrite(Cob, Off[locals.current])
         [] OTHER -> Sdo!SdoRead(Current.object)
    /\ reply'.class \in Distinct
    /\ Len(late') <= MaxLate
    /\ IF reply'.class # "SUCCESS" THEN Fail /\ troubled' = TRUE
       ELSE /\ UNCHANGED troubled
            /\ CASE ~Accepts(Delivered) -> Fail
                 [] Current.kind = "baseline" ->
                      Step(1, TRUE, [locals EXCEPT !.baseline = Len(entries)])
                 [] Current.kind = "current" ->
                      IF reply'.value \in Enabled
                      THEN Step(1, TRUE, [locals EXCEPT !.current = reply'.value])
                      ELSE Step(3, TRUE, locals)
                 [] OTHER -> Advance
    /\ UNCHANGED <<slave, log, local, refused>>

snapshotCanopenEmcySequence ==
    /\ Running /\ Current.kind = "snapshot"
    /\ Step(1, TRUE, [locals EXCEPT !.sequence = Len(log)])
    /\ UNCHANGED <<sdo, slave, log, local, refused, troubled>>

writeMasterHeartbeat ==
    /\ Running /\ Current.kind = "heartbeat"
    /\ \/ heartbeat' = Current.value /\ Advance /\ UNCHANGED refused
       \/ UNCHANGED heartbeat /\ Fail /\ refused' = TRUE
    /\ UNCHANGED <<sdo, slave, log, consumer, troubled>>

Matching(code) == {i \in (locals.sequence + 1)..Len(log) : log[i] = code}
Oldest(indices) == CHOOSE i \in indices : \A j \in indices : i <= j

waitForCanopenEmcyEvent ==
    /\ Running /\ Current.kind = "wait"
    /\ LET found == Matching(Current.value)
       IN  CASE found = {} -> Fail
             [] found # {} /\ Current.value = "fault" ->
                   Step(1, TRUE, [locals EXCEPT !.fault = Oldest(found)])
             [] OTHER -> Advance
    /\ UNCHANGED <<sdo, slave, log, local, refused, troubled>>

\* No further EMCY during the guard time; the interval of the inhibit time.
CheckEvents ==
    /\ Running
    /\ \/ /\ Current.kind = "unique"
          /\ IF Len(log) = locals.fault THEN Advance ELSE Fail
       \/ Current.kind = "interval" /\ (Advance \/ Fail)
    /\ UNCHANGED <<sdo, slave, log, local, refused, troubled>>

\* switchLocalEmcyConsumerCobId(): disabled, set, read back; each may be refused.
SwitchConsumer ==
    /\ Running /\ Current.kind = "consumer"
    /\ \/ consumer' = Current.value /\ Advance /\ UNCHANGED refused
       \/ /\ consumer' \in {consumer, Current.value,
                            IF consumer \in Enabled THEN Off[consumer] ELSE consumer}
          /\ Fail /\ refused' = TRUE
    /\ UNCHANGED <<sdo, slave, log, heartbeat, troubled>>

\* The local half of the final read-back.
ReadLocal ==
    /\ Running /\ Current.kind = "consumerRead"
    /\ IF heartbeat = "saved" /\ consumer = "saved" THEN Advance ELSE Fail
    /\ UNCHANGED <<sdo, slave, log, local, refused, troubled>>

Thread ==
    \/ SdoCall \/ snapshotCanopenEmcySequence \/ writeMasterHeartbeat
    \/ waitForCanopenEmcyEvent \/ CheckEvents \/ SwitchConsumer \/ ReadLocal

Done == pc = "done" /\ UNCHANGED vars

Next ==
    \/ SlaveRaises \/ SlaveClears \/ SlaveRepeats \/ DeliverEmcy \/ LateEffect
    \/ Thread \/ Done

-----------------------------------------------------------------------------
(* Properties.                                                             *)

\* Type correctness; 0x1003 never holds more than its capacity.
TypeOK ==
    /\ remote[Cob] \in Enabled \cup {"savedOff", "testOff"}
    /\ remote[Inhibit] \in {"saved", "0", "test"}
    /\ register \in {"clear", "comm"}
    /\ Len(entries) <= Capacity
    /\ heartbeat \in {"saved", "0"}
    /\ consumer \in Enabled \cup {"savedOff", "testOff"}
    /\ pc \in Phases /\ result \in {0, 1}
    /\ locals.sequence <= Len(log) /\ locals.fault <= Len(log)
    /\ locals.baseline <= Capacity

\* A pass rests on a fault and a recovery of this phase, not of an earlier
\* one, for the saved COB-ID, the test COB-ID and the restored one; and the
\* slave recorded them in 0x1003, even when its history was full before.
PassHasEvidence ==
    (pc = "done" /\ result = 0) => Tests \X Codes \subseteq emitted /\ defect # "norecord"

\* A pass leaves COB-ID, inhibit time and heartbeat as found, and no
\* abandoned write under way.
PassMeansRestored ==
    (pc = "done" /\ result = 0) =>
        /\ remote[Cob] = "saved" /\ remote[Inhibit] = "saved" /\ late = <<>>
        /\ heartbeat = "saved" /\ consumer = "saved"

\* Whatever the slave reports, a run whose calls are all answered ends with
\* both sides restored: a wrong or missing EMCY never skips the cleanup.
FailureStillRestores ==
    (pc = "done" /\ ~troubled /\ ~refused) =>
        /\ remote[Cob] = "saved" /\ remote[Inhibit] = "saved"
        /\ heartbeat = "saved" /\ consumer = "saved"

\* The producer is disabled before either COB-ID changes: as long as every
\* call is answered, the slave never sends an EMCY the master cannot receive.
NoReceiverSwitchWindow ==
    (~troubled /\ ~refused /\ remote[Cob] \in Enabled) => consumer = remote[Cob]
=============================================================================
