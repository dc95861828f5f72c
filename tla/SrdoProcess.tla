---------------------------- MODULE SrdoProcess ----------------------------
(***************************************************************************)
(* SRDO validation (src/srdo_process.cpp).  The process sends pairs of RX  *)
(* frames (a normal frame and its bitwise inverse), captures the pairs the *)
(* slave transmits, and provokes the slave's faults with wrong frames and  *)
(* wrong configurations, repairing the configuration before each.  A       *)
(* worker thread keeps RX alive while the main thread does other work, and *)
(* an observer thread watches the wire while the slave must be silent.     *)
(* Each phase is a script; a failure leaves it, joining the thread of the  *)
(* scope it leaves.                                                        *)
(*                                                                         *)
(* External, as the code and its reference document describe the target: a *)
(* write to an SRDO parameter invalidates 0x13FE; the configuration is     *)
(* checked on the way to Operational; negative states are latched; natural *)
(* TX is a normal frame and then its inverse; a TX request between the two *)
(* is answered with BUSY; a communication reset puts 0x2306:03 and :04     *)
(* back.  SRVT and SCT may expire whenever RX frames are sent or the RX    *)
(* state is waited for, since host threads may be late; TX frames come     *)
(* while the process is about to read them.  The slave under test may be   *)
(* defective.                                                              *)
(***************************************************************************)
EXTENDS Naturals, Sequences

CONSTANTS
    MaxRetries,   \* kTxBusyMaxRetries
    Pairs,        \* kTxPairSamples, kResetNaturalPairSamples
    MaxQueue,     \* bound: TX frames the channel holds
    MaxLate       \* bound: abandoned SDO writes at any time

\* Two captured frames must fit into the queue to be paired.
ASSUME SrdoAssumption ==
    /\ {MaxRetries, Pairs} \subseteq Nat \ {0}
    /\ MaxQueue \in Nat /\ MaxQueue >= 2 /\ MaxLate \in Nat

VARIABLES
    remote, late, reply,     \* the SDO service: SRDO1 configuration, 0x2306
    stale,                   \* external: 0x13FE was invalidated
    nmt, rx, half, tx, phase, cycle,  \* external: states, normal RX frame
                                      \* pending, next TX frame and its cycle
    complete, outcome,       \* external: 0x2306:0A and :0B
    defect, txq,             \* external: what is wrong; frames captured
    thread,                  \* ScopedRxPairWorker or ScopedTxSilenceObserver
    pc, pos, result,
    seq, retries,            \* TxRequestOutcome
    sync,                    \* TxPairSynchronizer
    cleaned,                 \* prepareCleanOperational() ended the run
    lost                     \* history: a frame that was evidence was lost or
                             \* late

sdo == <<remote, late, reply, stale>>
receiver == <<rx, half>>
transmitter == <<tx, phase, cycle, complete, outcome>>
slave == <<nmt, receiver, transmitter, defect>>
locals == <<seq, retries, sync>>
control == <<pc, pos, result, cleaned>>
vars == <<sdo, slave, txq, thread, control, locals, lost>>

Direction == "0x1301:01"
Timing == "0x1301:02"      \* and :03, :04
Ids == "0x1301:05"         \* and :06
MapCount == "0x1381:00"
Map == "0x1381:01"         \* and :02
Checksum == "0x13FF:01"
Magic == "0x13FE"
TxData == "0x2306:03"      \* and :04
TxRequest == "0x2306:09"
Diagnostic == "0x2306"
Parameters == {Direction, Timing, Ids, MapCount, Map, Checksum}
Objects == Parameters \cup {Magic, TxData, TxRequest, Diagnostic}

\* Values of an object: 0, the baseline, one that differs, an illegal one.
Base == 1
Other == 2
Illegal == 3
Sdo == INSTANCE SdoService WITH Values <- 0..3

Defects == {"none", "noinverse", "nosrvt", "nosct", "noshort", "invfirst",
            "nochecksum", "keepsmagic", "takesids", "noids", "takesmap",
            "nolen", "txunchecked", "replay"}

Cycles == 2      \* cycles are told apart modulo this
NoCycle == Cycles
NoSync == [normal |-> NoCycle, mayResync |-> FALSE]
NoThread == [role |-> "none", at |-> "exit", running |-> FALSE, joined |-> TRUE]

Init ==
    /\ Sdo!SdoInit([o \in Objects |-> IF o = TxRequest THEN 0 ELSE Base])
    /\ reply.value = 0
    /\ stale = FALSE
    /\ nmt = "op" /\ rx = "init" /\ half = FALSE
    /\ tx = "established" /\ phase = "n" /\ cycle = 0
    /\ complete = 0 /\ outcome = "idle"
    /\ defect \in Defects /\ txq = <<>>
    /\ thread = NoThread
    /\ pc = "open" /\ pos = 1 /\ result = 0
    /\ seq = 0 /\ retries = 0 /\ sync = NoSync
    /\ cleaned = FALSE
    /\ lost = FALSE

-----------------------------------------------------------------------------
(* Scripts.  held: the thread whose scope the operation is in.             *)

Op(kind, object, value) == [kind |-> kind, object |-> object, value |-> value, held |-> "none"]
Do(kind) == Op(kind, Diagnostic, Base)
Wait(kind, state) == Op(kind, Diagnostic, state)
Write(o, v) == Op("write", o, v)
Expect(o, v) == Op("expect", o, v)
Reject(o) == Op("reject", o, Illegal)
Send(f) == Op("send", Diagnostic, f)

\* ops run while a thread of this role exists.
Scope(role, ops) ==
    <<Op("spawn", Diagnostic, role)>>
    \o [i \in 1..(Len(ops) + 1) |->
           [(IF i <= Len(ops) THEN ops[i] ELSE Do("join")) EXCEPT !.held = role]]

\* Mutant: the CAN-IDs are not written.
writeBaselineKeepsIds ==
    <<Write(Direction, 0), Write(MapCount, 0), Write(Map, Base), Write(MapCount, Base),
      Write(Timing, Base), Write(Direction, Base),
      Write(Checksum, Base), Write(Magic, Base)>>

writeSrdo1Baseline ==
    <<Write(Direction, 0), Write(MapCount, 0), Write(Map, Base), Write(MapCount, Base),
      Write(Timing, Base), Write(Ids, Base), Write(Direction, Base),
      Write(Checksum, Base), Write(Magic, Base)>>
resetCommunication == <<Do("reset"), Do("startIf")>>
prepareCleanOperational == <<Do("preop")>> \o writeSrdo1Baseline \o resetCommunication

sendPair(second) == <<Send("normal"), Send(second)>>

validateRxPair ==
    sendPair("inverted")
    \o Scope("worker", <<Wait("rx", "established"), Do("read"), Do("ok")>>)
validateEstablishedWindow ==
    Scope("worker", <<Wait("states", "established"), Do("ok"), Wait("states", "established")>>)

\* The retry loop: request, its completion, its result, the phase after BUSY.
requestTxWithBusyRetry == <<Do("request"), Do("complete"), Do("result"), Do("resync")>>
NextPair(mode) == Op("pair", Diagnostic, mode)
triggerTx ==
    <<Do("sequence"), Write(TxData, Base), Do("drain")>> \o requestTxWithBusyRetry
validateTxPair ==
    triggerTx \o <<Op("listen", Diagnostic, "triggered"), NextPair("triggered"),
                   Wait("tx", "established")>>
validateTxCycles ==
    <<Do("drain"), Op("listen", Diagnostic, "cycles")>>
    \o [i \in 1..Pairs |-> NextPair("cycles")] \o <<Wait("tx", "established")>>

witness == Scope("worker", <<Do("witness")>>) \o <<Do("ok")>>
validateResetRebind ==
    <<Do("sequence"), Do("preop"), Do("drain")>> \o resetCommunication \o witness
    \o <<Op("listen", Diagnostic, "natural")>> \o [i \in 1..Pairs |-> NextPair("natural")]
    \o witness \o validateRxPair \o validateEstablishedWindow \o validateTxPair

validateRegression == Scope("worker", <<Do("regression"), Do("ok"), Do("read")>>)

F01 == prepareCleanOperational \o sendPair("wrong") \o <<Wait("rx", "notInverted")>>
F02 == prepareCleanOperational \o <<Send("normal"), Wait("rx", "srvt")>>
F03 == prepareCleanOperational \o sendPair("inverted")
       \o <<Wait("rx", "established"), Wait("rx", "sct")>>
F04 == prepareCleanOperational \o <<Send("short"), Wait("rx", "short")>>
F05 == prepareCleanOperational \o <<Send("inverted"), Do("sample"), Wait("rx", "sct")>>
       \o prepareCleanOperational \o <<Send("normal"), Send("normal"), Wait("rx", "srvt")>>

\* A configuration the slave must refuse on its way to Operational.
Refused(writes) ==
    prepareCleanOperational \o <<Do("preop")>> \o writes
    \o <<Write(Magic, Base), Do("start"), Wait("rx", "config")>>
Repaired(o) == <<Write(o, Base), Write(Checksum, Base), Write(Magic, Base), Do("start")>>

F06 == Refused(<<Write(Checksum, Other)>>) \o <<Expect(Magic, 0)>>
F07 == prepareCleanOperational
       \o <<Do("preop"), Write(Timing, Other), Expect(Magic, 0)>> \o Repaired(Timing)
F08 == Refused(<<Reject(Ids), Expect(Ids, Base), Write(Ids, Other), Write(Checksum, Other)>>)
F09 == prepareCleanOperational
       \o <<Do("preop"), Write(Direction, 0), Reject(MapCount), Expect(MapCount, Base)>>
       \o Repaired(Direction)
F10 == Refused(<<Write(Direction, 0), Write(MapCount, 0), Write(Map, Other),
                 Write(MapCount, Base), Write(Direction, Base), Write(Checksum, Other)>>)
       \o <<Expect(Magic, 0)>>
F11 == prepareCleanOperational \o <<Do("preop"), Do("drain"), Write(TxData, Other)>>
       \o Scope("observer", <<Do("start"), Do("watch"), Do("silence")>>) \o <<Do("quiet")>>
F12 == prepareCleanOperational \o validateEstablishedWindow

Validation ==
    <<Do("start")>> \o validateRxPair \o validateEstablishedWindow \o validateTxPair
    \o validateTxCycles \o validateResetRebind \o validateRegression
    \o F01 \o F02 \o F03 \o F04 \o F05 \o F06 \o F07 \o F08 \o F09 \o F10 \o F11 \o F12

Opening ==
    <<Do("drain"), Do("preop"), Wait("states", "nonop"), Do("profile")>>

Script == CASE pc = "open"  -> Opening
            [] pc = "run"   -> Validation
            [] pc = "clean" -> prepareCleanOperational

Scripted == {"open", "run", "clean"}
Current == Script[pos]
At(kind) == pc \in Scripted /\ Current.kind = kind

-----------------------------------------------------------------------------
(* The slave.                                                              *)

\* Checks of the configuration on the way to Operational.
Mismatch ==
    \/ remote[Ids] = Other /\ defect # "noids"
    \/ remote[Map] = Other /\ defect # "nolen"
    \/ remote[Checksum] = Other /\ remote[Ids] = Base /\ remote[Map] = Base
       /\ defect # "nochecksum"
    \/ \E o \in {Direction, MapCount, Timing} : remote[o] # Base
MagicSet == remote[Magic] = Base /\ ~stale

Operate ==
    /\ nmt' = "op" /\ half' = FALSE /\ phase' = "n"
    /\ rx' = IF ~MagicSet THEN "unset" ELSE IF Mismatch THEN "config" ELSE "init"
    /\ tx' = IF MagicSet /\ ~Mismatch THEN "established" ELSE "unset"
    /\ stale' = (stale \/ (MagicSet /\ Mismatch))

Prepare == /\ nmt' = "preop" /\ rx' = "nonop" /\ half' = FALSE
           /\ tx' = "nonop" /\ phase' = "n"
           /\ UNCHANGED stale

\* States that end only with a reset or outside Operational.
Latched == rx \notin {"init", "established"}

\* The receiver after one frame.
Receive(frame) ==
    IF Latched THEN UNCHANGED receiver
    ELSE CASE frame = "normal" -> half' = TRUE /\ UNCHANGED rx
           [] frame = "short" ->
                  /\ rx' = IF defect = "noshort" THEN rx ELSE "short"
                  /\ UNCHANGED half
           [] frame = "inverted" ->
                  /\ rx' = IF half \/ defect = "invfirst" THEN "established" ELSE rx
                  /\ half' = FALSE
           [] frame = "wrong" ->
                  /\ rx' = IF ~half THEN rx
                           ELSE IF defect = "noinverse" THEN "established" ELSE "notInverted"
                  /\ half' = FALSE

RxTimeout ==
    /\ ~Latched /\ pc = "run" /\ Current.kind \in {"send", "rx", "states"}
    /\ rx' = IF half THEN "srvt" ELSE "sct"
    /\ defect # (IF half THEN "nosrvt" ELSE "nosct")
    /\ half' = FALSE
    /\ UNCHANGED <<sdo, nmt, transmitter, defect, txq, thread, control, locals, lost>>

Listening ==
    /\ pc = "run"
    /\ Current.kind \in {"drain", "request", "complete", "result", "resync", "listen",
                         "pair", "watch", "silence", "witness"}

\* One frame of natural TX: captured, or lost on the way.
TxEmit ==
    /\ Listening /\ nmt = "op" /\ tx = "established"
    /\ remote[TxData] = Base \/ defect = "txunchecked"
    /\ Len(txq) < MaxQueue
    /\ phase' = IF phase = "n" THEN "i" ELSE "n"
    /\ cycle' = IF phase = "n" THEN cycle ELSE (cycle + 1) % Cycles
    /\ \/ txq' = Append(txq, [id |-> phase, cycle |-> cycle]) /\ UNCHANGED lost
       \/ /\ Current.kind \in {"pair", "watch", "silence"}
          /\ UNCHANGED txq /\ lost' = (lost \/ remote[TxData] # Base)
    /\ UNCHANGED <<sdo, nmt, receiver, tx, complete, outcome, defect, thread,
                   control, locals>>

\* The transmitter finds its data not inverted.
TxFault ==
    /\ nmt = "op" /\ tx = "established" /\ remote[TxData] # Base
    /\ defect = "txunchecked" => phase = "i"
    /\ tx' = "notInverted"
    /\ UNCHANGED <<sdo, nmt, receiver, phase, cycle, complete, outcome, defect,
                   txq, thread, control, locals, lost>>

SlaveServes ==
    /\ nmt = "op" /\ tx = "established" /\ remote[TxRequest] # complete
    /\ complete' = remote[TxRequest]
    /\ outcome' = IF phase = "i" THEN "busy" ELSE "sent"
    /\ UNCHANGED <<sdo, nmt, receiver, tx, phase, cycle, defect, txq, thread,
                   control, locals, lost>>

LateEffect ==
    /\ \/ /\ Sdo!LateWrite
          /\ stale' = IF Head(late)[1] = Magic THEN FALSE
                      ELSE stale \/ (Head(late)[1] \in Parameters /\ defect # "keepsmagic")
       \/ Sdo!LateLoss /\ UNCHANGED stale
    /\ UNCHANGED <<slave, txq, thread, control, locals, lost>>

-----------------------------------------------------------------------------
(* The threads.                                                            *)

Alive == ~thread.joined
Ended == thread.at \in {"exit", "error", "seen"}

\* Mutant: the loop does not look at running_.
NeverToldToStop == FALSE

ToldToStop == ~thread.running

\* ScopedRxPairWorker::run(): the two frames of a pair, then a sleep.
WorkerSends ==
    /\ Alive /\ thread.role = "worker" /\ ~Ended
    /\ \/ /\ thread.at = "idle" /\ ~ToldToStop
          /\ thread' = [thread EXCEPT !.at = "between"]
          /\ Receive("normal") \/ UNCHANGED receiver
       \/ /\ thread.at = "between"
          /\ thread' = [thread EXCEPT !.at = "idle"]
          /\ Receive("inverted") \/ UNCHANGED receiver
       \/ /\ thread.at = "between" \/ ~ToldToStop
          /\ thread' = [thread EXCEPT !.at = "error"] /\ UNCHANGED receiver
       \/ /\ thread.at = "idle" /\ ToldToStop
          /\ thread' = [thread EXCEPT !.at = "exit"] /\ UNCHANGED receiver
    /\ UNCHANGED <<sdo, nmt, transmitter, defect, txq, control, locals, lost>>

\* ScopedTxSilenceObserver::run(): ends with the first frame.
ObserverReads ==
    /\ Alive /\ thread.role = "observer" /\ ~Ended
    /\ \/ /\ txq # <<>> /\ txq' = Tail(txq)
          /\ thread' = [thread EXCEPT !.at = "seen"]
       \/ thread' = [thread EXCEPT !.at = "error"] /\ UNCHANGED txq
       \/ ToldToStop /\ thread' = [thread EXCEPT !.at = "exit"] /\ UNCHANGED txq
    /\ UNCHANGED <<sdo, slave, control, locals, lost>>

-----------------------------------------------------------------------------
(* The main thread.                                                        *)

Following == CASE pc = "open" -> "run" [] OTHER -> "done"

\* Move n operations on; the end of a script is the end of its phase.
Move(n) ==
    LET last == pos + n > Len(Script)
    IN  /\ pos' = IF last THEN 1 ELSE pos + n
        /\ pc' = IF last THEN Following ELSE pc
        /\ cleaned' = (cleaned \/ (last /\ pc = "clean"))
        /\ UNCHANGED result

Advance == Move(1)

Fail ==
    /\ pos' = 1
    /\ pc' = IF pc = "run" THEN "unwind" ELSE "done"
    /\ result' = 1
    /\ UNCHANGED cleaned

Check(condition) == IF condition THEN Advance ELSE Fail
Answered == reply'.class = "SUCCESS"

\* A read whose answer, or a wait whose last answer, must be as expected.
ReadAndCheck(kind, object, condition) ==
    /\ At(kind)
    /\ Sdo!SdoRead(object)
    /\ Check(Answered /\ condition)
    /\ UNCHANGED <<stale, slave, txq, thread, locals, lost>>

readRemote == ReadAndCheck("read", Diagnostic, TRUE)
\* Mutant: the state that was read is not compared.
readRxState == ReadAndCheck("rx", Diagnostic, TRUE)

waitForRxState == ReadAndCheck("rx", Diagnostic, rx = Current.value)
waitForTxState == ReadAndCheck("tx", Diagnostic, tx = Current.value)
waitForDiagnosticState ==
    ReadAndCheck("states", Diagnostic, rx = Current.value /\ tx = Current.value)

\* F05 samples the state well before SCT can expire.
SampleRxState == ReadAndCheck("sample", Diagnostic, rx # "established")

\* readProfile() and validateProfile(): the exact profile and its checksum.
validateProfile ==
    ReadAndCheck("profile", Diagnostic, MagicSet /\ \A o \in Parameters : remote[o] = Base)

expectRemote ==
    /\ At("expect")
    /\ ReadAndCheck("expect", Current.object,
           IF Current.object = Magic THEN ~MagicSet ELSE reply'.value = Current.value)

writeRemote ==
    /\ At("write")
    /\ Sdo!SdoWrite(Current.object, Current.value) /\ Len(late') <= MaxLate
    /\ LET invalidates == Current.object \in Parameters /\ defect # "keepsmagic"
           written == IF Current.object = Magic THEN FALSE ELSE stale \/ invalidates
       IN  IF Answered THEN stale' = written
           ELSE stale' \in (IF reply'.class = "FAILED" THEN {stale} ELSE {stale, written})
    /\ Check(Answered)
    /\ UNCHANGED <<slave, txq, thread, locals, lost>>

\* Only the abort code the case names will do.
requireWriteRejected ==
    /\ At("reject")
    /\ IF defect = (IF Current.object = Ids THEN "takesids" ELSE "takesmap")
       THEN Sdo!SdoWrite(Current.object, Current.value) /\ Len(late') <= MaxLate /\ Fail
       ELSE /\ \E class \in Sdo!Classes : Sdo!Answer(class, reply.value)
            /\ Check(Answered /\ late = <<>>)
            /\ UNCHANGED <<remote, late>>
    /\ stale' \in {stale, TRUE}
    /\ UNCHANGED <<slave, txq, thread, locals, lost>>

enterPreOperational ==
    /\ At("preop")
    /\ \/ Prepare /\ Advance
       \/ Prepare /\ Fail
       \/ Fail /\ UNCHANGED <<nmt, receiver, tx, phase, stale>>
    /\ UNCHANGED <<remote, late, reply, cycle, complete, outcome, defect, txq,
                   thread, locals, lost>>

enterOperational ==
    /\ At("start")
    /\ \/ Operate /\ Advance
       \/ Operate /\ Fail
       \/ Fail /\ UNCHANGED <<nmt, receiver, tx, phase, stale>>
    /\ UNCHANGED <<remote, late, reply, cycle, complete, outcome, defect, txq,
                   thread, locals, lost>>

\* Reset Communication and its boot; the slave starts itself or does not.
ResetCommand ==
    /\ At("reset")
    /\ \/ Fail /\ UNCHANGED <<remote, nmt, receiver, tx, phase, stale, outcome>>
       \/ /\ Advance \/ Fail
          /\ remote' = [remote EXCEPT ![TxData] = Base]
          /\ Operate \/ Prepare
          /\ outcome' = IF defect = "replay" /\ complete # 0 THEN "sent" ELSE "idle"
    /\ UNCHANGED <<late, reply, cycle, complete, defect, txq, thread, locals, lost>>

StartAfterReset ==
    /\ At("startIf")
    /\ \/ nmt = "op" /\ Advance /\ UNCHANGED <<nmt, receiver, tx, phase, stale>>
       \/ nmt # "op" /\ Operate /\ (Advance \/ Fail)
       \/ nmt # "op" /\ Fail /\ UNCHANGED <<nmt, receiver, tx, phase, stale>>
    /\ UNCHANGED <<remote, late, reply, cycle, complete, outcome, defect, txq,
                   thread, locals, lost>>

drain ==
    /\ At("drain")
    /\ \/ txq' = <<>> /\ cycle' = 0 /\ Advance    \* cycles count from here
       \/ Fail /\ UNCHANGED <<txq, cycle>>
    /\ UNCHANGED <<sdo, nmt, receiver, tx, phase, complete, outcome, defect,
                   thread, locals, lost>>

\* sendRx(): received, lost, or refused by the channel.
sendRx ==
    /\ At("send")
    /\ LET single == Current.value = "inverted" /\ ~half
       IN  \/ Advance /\ Receive(Current.value) /\ lost' = (lost \/ (single /\ Latched))
           \/ Advance /\ UNCHANGED receiver /\ lost' = (lost \/ single)
           \/ Fail /\ UNCHANGED <<receiver, lost>>
    /\ UNCHANGED <<sdo, nmt, transmitter, defect, txq, thread, locals>>

\* The frames captured around the reset snapshot wait for nextPair(); elsewhere
\* nobody reads them before the next drain and they are dropped here.
Spawn ==
    /\ At("spawn")
    /\ txq' = IF Script[pos + 1].kind = "witness" THEN txq ELSE <<>>
    /\ thread' = [role |-> Current.value, at |-> "idle", running |-> TRUE, joined |-> FALSE]
    /\ Advance
    /\ UNCHANGED <<sdo, slave, locals, lost>>

\* Mutant: stop() does not join.
StopUnjoined ==
    /\ At("join")
    /\ thread' = [thread EXCEPT !.running = FALSE]
    /\ Advance
    /\ UNCHANGED <<sdo, slave, txq, locals, lost>>

\* stop(), also in the destructor: running_ is cleared, then the thread joined.
StopThread ==
    /\ At("join")
    /\ \/ /\ thread.running
          /\ thread' = [thread EXCEPT !.running = FALSE]
          /\ UNCHANGED control
       \/ /\ ~thread.running /\ Ended
          /\ thread' = [thread EXCEPT !.joined = TRUE]
          /\ Advance
    /\ UNCHANGED <<sdo, slave, txq, locals, lost>>

\* A failure leaves its scope, whose destructor runs before the cleanup.
\* Nothing in the cleanup reads 0x2306 or the wire: their state is dropped.
Unwind ==
    /\ pc = "unwind"
    /\ \/ /\ Alive /\ thread.running
          /\ thread' = [thread EXCEPT !.running = FALSE]
          /\ UNCHANGED <<sdo, slave, txq, pc, locals, lost>>
       \/ /\ Alive => ~thread.running /\ Ended
          /\ thread' = NoThread
          /\ pc' = "clean"
          /\ remote' = [remote EXCEPT ![TxRequest] = 0]
          /\ reply' = [class |-> "FAILED", value |-> 0]
          /\ rx' = "unset" /\ half' = FALSE /\ tx' = "unset" /\ phase' = "n" /\ cycle' = 0
          /\ complete' = 0 /\ outcome' = "idle"
          /\ txq' = <<>> /\ seq' = 0 /\ retries' = 0 /\ sync' = NoSync /\ lost' = FALSE
          /\ UNCHANGED <<late, stale, nmt, defect>>
    /\ UNCHANGED <<pos, result, cleaned>>

\* keepalive.ok(), and what the observer saw after it was joined.
WorkerOk ==
    /\ At("ok") \/ At("quiet")
    /\ Check(thread.at \notin {"error", "seen"})
    /\ UNCHANGED <<sdo, slave, txq, thread, locals, lost>>

\* F11 polls tx_state and the observer ...
WatchForFault ==
    ReadAndCheck("watch", Diagnostic, thread.at \notin {"error", "seen"} /\ tx = "notInverted")

\* ... and then the observer, which reads many times meanwhile.
SilenceHold ==
    /\ At("silence")
    /\ Ended \/ txq = <<>>
    /\ Check(thread.at \notin {"error", "seen"})
    /\ UNCHANGED <<sdo, slave, txq, thread, locals, lost>>

\* readDiagnostic() before a request: no request is outstanding.
ReadSequence ==
    /\ At("sequence")
    /\ Sdo!SdoRead(TxRequest)
    /\ Check(Answered /\ remote[TxRequest] = complete)
    /\ seq' = IF Answered THEN reply'.value ELSE seq
    /\ retries' = 0
    /\ UNCHANGED <<stale, slave, txq, thread, sync, lost>>

RequestTx ==
    /\ At("request")
    /\ seq' = seq + 1
    /\ Sdo!SdoWrite(TxRequest, seq + 1) /\ Len(late') <= MaxLate
    /\ Check(Answered)
    /\ UNCHANGED <<stale, slave, txq, thread, retries, sync, lost>>

\* Mutant: the completed sequence is not compared with the requested one.
waitForAnyCompletion == ReadAndCheck("complete", Diagnostic, TRUE)

waitForTxCompletion == ReadAndCheck("complete", Diagnostic, complete = seq)

\* Mutant: one retry too many.
MayRetryOnceMore == retries <= MaxRetries

MayRetry == retries < MaxRetries

\* Only BUSY is retried, and only MaxRetries times.
TxResult ==
    /\ At("result")
    /\ Sdo!SdoRead(Diagnostic)
    /\ \/ Answered /\ outcome = "sent" /\ Move(2) /\ UNCHANGED retries
       \/ /\ Answered /\ outcome = "busy" /\ MayRetry
          /\ retries' = retries + 1
          /\ Advance
       \/ /\ ~Answered \/ outcome \notin {"sent", "busy"} \/ ~MayRetry
          /\ ~(Answered /\ outcome = "sent")
          /\ Fail /\ UNCHANGED retries
    /\ sync' = NoSync
    /\ UNCHANGED <<stale, slave, txq, thread, seq, lost>>

\* The first step also refreshes RX; a loss there changes nothing here.
Refresh == rx' = (IF Latched THEN rx ELSE "established") /\ UNCHANGED half

\* synchronizeTxPhaseAfterBusy(): frames up to the pending inverted one.
ResyncPhase ==
    /\ At("resync")
    /\ \/ /\ txq # <<>> /\ txq[1].id = "i"
          /\ Refresh /\ txq' = Tail(txq) /\ sync' = NoSync
          /\ pos' = pos - 3 /\ UNCHANGED <<pc, result, cleaned>>
       \/ /\ txq # <<>> /\ txq[1].id = "n" /\ sync.normal = NoCycle
          /\ txq' = Tail(txq) /\ sync' = [sync EXCEPT !.normal = txq[1].cycle]
          /\ UNCHANGED <<receiver, control>>
       \/ Fail /\ UNCHANGED <<receiver, txq, sync>>
    /\ UNCHANGED <<sdo, nmt, transmitter, defect, thread, seq, retries, lost>>

\* A TxPairSynchronizer is made; a triggered pair allows no resync.
Listen ==
    /\ At("listen")
    /\ sync' = [normal |-> NoCycle, mayResync |-> (Current.value # "triggered")]
    /\ Advance
    /\ UNCHANGED <<sdo, slave, txq, thread, seq, retries, lost>>

\* TxPairSynchronizer::nextPair() and the checks of its caller: a pair whose
\* delay is measured, and is within kPairMaxUs, is of one cycle.
nextPair ==
    /\ At("pair")
    /\ IF Current.value = "natural" THEN Refresh ELSE UNCHANGED receiver
    /\ \/ /\ txq # <<>> /\ sync.normal = NoCycle /\ txq[1].id = "n"
          /\ sync' = [normal |-> txq[1].cycle, mayResync |-> FALSE]
          /\ txq' = Tail(txq) /\ UNCHANGED control
       \/ /\ txq # <<>> /\ sync.normal = NoCycle /\ txq[1].id = "i" /\ sync.mayResync
          /\ sync' = [sync EXCEPT !.mayResync = FALSE]
          /\ txq' = Tail(txq) /\ UNCHANGED control
       \/ /\ txq # <<>> /\ sync.normal # NoCycle /\ txq[1].id = "i"
          /\ sync' = NoSync /\ txq' = Tail(txq)
          /\ Check(Current.value # "natural" => sync.normal = txq[1].cycle)
       \/ Fail /\ UNCHANGED <<sync, txq>>   \* wrong order, deadline, error
    /\ UNCHANGED <<sdo, nmt, transmitter, defect, thread, seq, retries, lost>>

\* After a reset: sequences as before, and no request was processed.
Witness ==
    ReadAndCheck("witness", Diagnostic,
                 remote[TxRequest] = seq /\ complete = seq /\ outcome = "idle")

\* pdoProcess() and syncPdoProcess() run under the keepalive: both pass with the
\* slave Operational again; a failed one leaves it in whatever state it reached.
Regression ==
    /\ At("regression")
    /\ \/ Advance /\ Operate
       \/ Fail /\ (Operate \/ Prepare \/ UNCHANGED <<nmt, receiver, tx, phase, stale>>)
    /\ UNCHANGED <<remote, late, reply, cycle, complete, outcome, defect, txq, thread,
                   locals, lost>>

MainThread ==
    \/ readRemote \/ waitForRxState \/ waitForTxState \/ waitForDiagnosticState
    \/ SampleRxState \/ validateProfile \/ expectRemote \/ writeRemote \/ requireWriteRejected
    \/ enterPreOperational \/ enterOperational \/ ResetCommand \/ StartAfterReset
    \/ drain \/ sendRx \/ Spawn \/ StopThread \/ Unwind \/ WorkerOk \/ WatchForFault
    \/ SilenceHold \/ ReadSequence \/ RequestTx \/ waitForTxCompletion \/ TxResult
    \/ ResyncPhase \/ Listen \/ nextPair \/ Witness \/ Regression

ThreadSteps == WorkerSends \/ ObserverReads

Done == pc = "done" /\ UNCHANGED vars

Next ==
    \/ RxTimeout \/ TxEmit \/ TxFault \/ SlaveServes \/ LateEffect
    \/ ThreadSteps \/ MainThread \/ Done

\* The scheduler runs the control thread and the thread of a scope; the bus
\* and the slave owe nothing.
Spec ==
    /\ Init /\ [][Next]_vars
    /\ WF_vars(MainThread) /\ WF_vars(ThreadSteps)

-----------------------------------------------------------------------------
(* Properties.                                                             *)

\* Type correctness.
TypeOK ==
    /\ \A o \in Objects \ {TxRequest} : remote[o] \in 0..3
    /\ Len(late) <= MaxLate /\ Len(txq) <= MaxQueue
    /\ retries \in 0..MaxRetries /\ seq \in Nat /\ complete \in Nat
    /\ thread.at \in {"idle", "between", "exit", "error", "seen"}
    /\ pc \in Scripted \cup {"unwind", "done"} /\ result \in {0, 1}

\* A keepalive or observer thread exists only in its scope: it is joined
\* before the next case, the cleanup and the return, whichever way the scope
\* is left, so no frame of it reaches a slave whose fault is being provoked.
NoThreadOutsideScope ==
    Alive => pc = "unwind" \/ (pc \in Scripted /\ Current.held = thread.role)

\* A TX request, a retry after BUSY included, is made only when the slave has
\* processed every earlier one and none is still on its way: the completion
\* it waits for is its own.
OneRequestAtATime ==
    At("request") => /\ remote[TxRequest] = complete
                     /\ \A i \in DOMAIN late : late[i][1] # TxRequest

\* A pass means that the slave shows none of the faults the cases look for;
\* two of them can be hidden by a frame that is lost or comes too late.
PassHasEvidence ==
    (pc = "done" /\ result = 0) =>
        defect = "none" \/ (lost /\ defect \in {"invfirst", "txunchecked"})

\* After a pass, and after a failure whose cleanup went through, the SRDO
\* configuration is the baseline, valid, and the slave operational.
PassMeansRestored ==
    (pc = "done" /\ (result = 0 \/ cleaned)) =>
        /\ \A o \in Parameters : remote[o] = Base
        /\ MagicSet /\ late = <<>> /\ nmt = "op"
        /\ remote[TxData] = Base

\* srdoProcess() ends, whatever the slave sends and whatever calls fail: its
\* waits have deadlines, its retries counts, and a thread that is told to
\* stop can be joined.
Terminates == <>(pc = "done")
=============================================================================
