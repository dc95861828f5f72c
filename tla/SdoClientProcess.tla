-------------------------- MODULE SdoClientProcess --------------------------
(***************************************************************************)
(* MCU SDO client validation (src/sdo_client_process.cpp) with the Host    *)
(* Server-SDO fixture (src/host_sdo_server_fixture.cpp).  The process asks *)
(* the MCU, over its record 0x2303, to run SDO client requests against     *)
(* itself, against the Host's fixture objects or against an absent node.   *)
(* A request is written field by field and committed by request_seq; the   *)
(* MCU accepts it, runs it and publishes its result, complete_seq last.    *)
(*                                                                         *)
(* Everything remote is a number: a request (params) is the number of the  *)
(* request in Requests, a status one of the codes below, sequence numbers  *)
(* count modulo SeqRange (2^32 in the code).  Local access of the process  *)
(* to its own fixture is under the master lock, hence one step.            *)
(***************************************************************************)
EXTENDS Integers, Sequences

CONSTANTS SeqRange,         \* bound: number of sequence values
          BlockRegression   \* CANOPEN_ENABLE_SDO_CLIENT_BLOCK_REGRESSION

VARIABLES
    remote, late, reply,        \* the SDO service: 0x2303 and 0x2200
    running, finished,          \* external: the MCU's request, not yet published
    u32, octets, installed,     \* the Host's fixture objects
    pc, pos, sequence, complete_before, fields, attempt, case_ok,
    original_local, result,
    trouble,                    \* history: a call, a wait or the MCU failed
    ran                         \* history: number of requests the MCU ran to
                                \* their end in order, -1 once out of order

sdo == <<remote, late, reply>>
mcu == <<running, finished>>
fixture == <<u32, octets, installed>>
txn == <<sequence, complete_before, fields, attempt>>
vars == <<sdo, mcu, fixture, txn, pc, pos, case_ok, original_local, result,
          trouble, ran>>

Req(dir, target) == [dir |-> dir, target |-> target]

\* The requests in the order of sdoClientProcess(): the MCU's own objects, the
\* fixture, recovery after an abort, a timeout and a reset, block transfers.
LocalRequests ==
    <<Req("up", "local"), Req("down", "local"), Req("up", "missing"), Req("up", "local")>>
RemoteRequests ==
    <<Req("up", "u32"), Req("down", "u32"), Req("up", "octets"), Req("down", "octets")>>
RecoveryRequests ==
    <<Req("down", "readonly"), Req("up", "u32"), Req("up", "absent"), Req("up", "u32"),
      Req("up", "reset"), Req("up", "u32")>>
BlockRequests ==
    <<Req("up", "octets"), Req("down", "octets"), Req("up", "octets")>>

Requests ==
    LocalRequests \o RemoteRequests \o RecoveryRequests
    \o (IF BlockRegression THEN BlockRequests ELSE <<>>)

Request == Requests[pos]

\* Values: what the objects hold.
Base == 0       \* the saved value of 0x2200 or of a fixture object
Probe == 1      \* the probe value or the test payload
AsExpected == 1 \* the terminal result the request should have
Wrong == 2      \* any other terminal result
Cancelled == 3  \* RESET_CANCELLED
Torn == 0       \* request fields of two requests
Idle == -1      \* no request

Objects == {"params", "request", "active", "complete", "status", "local"}
Values == 0..(IF SeqRange > 17 THEN SeqRange ELSE 17)

Sdo == INSTANCE SdoService

Init ==
    /\ \E s \in 0..(SeqRange - 1) :
          remote = [o \in Objects |-> CASE o \in {"request", "active", "complete"} -> s
                                        [] OTHER -> 0]
    /\ late = <<>> /\ reply = [class |-> "SUCCESS", value |-> 0]
    /\ running = Idle /\ finished = FALSE
    /\ u32 = Base /\ octets = Base /\ installed = FALSE
    /\ pc = "preflight" /\ pos = 1 /\ sequence = 0 /\ complete_before = 0
    /\ fields = <<0, 0>> /\ attempt = 0 /\ case_ok = TRUE
    /\ original_local = 0 /\ result = 0
    /\ trouble = FALSE /\ ran = 0

-----------------------------------------------------------------------------
(* The MCU.                                                                *)

Ran(r) == IF ran # -1 /\ r = ran + 1 THEN r ELSE -1

McuAccepts ==
    /\ running = Idle /\ remote["request"] # remote["active"]
    /\ running' = remote["params"]
    /\ remote' = [remote EXCEPT !["active"] = remote["request"]]
    /\ UNCHANGED <<late, reply, finished, fixture, txn, pc, pos, case_ok,
                   original_local, result, trouble, ran>>

\* The request ends; a download has then reached its object, if that exists.
McuFinishes ==
    /\ running # Idle /\ ~finished
    /\ LET writes(t) == running # Torn /\ Requests[running] = Req("down", t)
       IN  /\ \E outcome \in {AsExpected, Wrong} :
                 remote' = [remote EXCEPT
                    !["status"] = outcome,
                    !["local"] = IF writes("local") THEN Probe ELSE @]
           /\ u32' = IF writes("u32") /\ installed THEN Probe ELSE u32
           /\ octets' = IF writes("octets") /\ installed THEN Probe ELSE octets
    /\ finished' = TRUE
    /\ ran' = Ran(running)
    /\ UNCHANGED <<late, reply, running, installed, txn, pc, pos, case_ok,
                   original_local, result, trouble>>

McuPublishes ==
    /\ finished
    /\ remote' = [remote EXCEPT !["complete"] = remote["active"]]
    /\ running' = Idle /\ finished' = FALSE
    /\ UNCHANGED <<late, reply, fixture, txn, pc, pos, case_ok,
                   original_local, result, trouble, ran>>

\* A communication reset cancels the active request.
McuReset ==
    /\ running' = Idle /\ finished' = FALSE
    /\ remote' = IF running = Idle \/ finished
                 THEN [remote EXCEPT !["complete"] = remote["active"]]
                 ELSE [remote EXCEPT !["complete"] = remote["active"],
                                     !["status"] = Cancelled]
    /\ ran' = IF running # Idle /\ ~finished THEN Ran(running) ELSE ran

LateEffect ==
    /\ Sdo!LateWrite \/ Sdo!LateLoss
    /\ UNCHANGED <<mcu, fixture, txn, pc, pos, case_ok, original_local, result,
                   trouble, ran>>

-----------------------------------------------------------------------------
(* Control flow.                                                           *)

\* Every return destroys the fixture: uninstallLocked().
Return(r) == pc' = "done" /\ result' = r /\ installed' = FALSE
Goto(label) == pc' = label /\ UNCHANGED <<result, installed>>

Succeeded == reply'.class = "SUCCESS"

\* The objects a request changes on purpose, restored whatever its result.
Restorable == Request \in {Req("down", "local"), Req("down", "u32"),
                          Req("up", "octets"), Req("down", "octets")}

\* Mutant: a failed transaction ends the process without a restore.
CaseFailedNoRestore == case_ok' = FALSE /\ Return(1)

\* The transaction or its check failed.
CaseFailed ==
    /\ case_ok' = FALSE
    /\ \/ Restorable /\ Goto(IF Request.target = "local" THEN "restoreWrite"
                             ELSE "restoreFixture")
       \/ ~Restorable /\ Return(1)

\* The request is done with: the next one, or the end.
NextRequest ==
    /\ case_ok' = TRUE
    /\ \/ pos < Len(Requests) /\ pos' = pos + 1 /\ Goto("setup")
       \/ pos = Len(Requests) /\ UNCHANGED pos /\ Return(0)

\* A call of the process; only success goes on.
Call(o, at, next) ==
    /\ pc = at
    /\ Sdo!SdoRead(o)
    /\ \/ Succeeded /\ next /\ UNCHANGED trouble
       \/ ~Succeeded /\ CaseFailed /\ UNCHANGED <<txn, pos>> /\ trouble' = TRUE
    /\ UNCHANGED <<mcu, u32, octets, original_local, ran>>

Store(o, v, at, next) ==
    /\ pc = at
    /\ Sdo!SdoWrite(o, v)
    /\ \/ Succeeded /\ next /\ UNCHANGED trouble
       \/ ~Succeeded /\ CaseFailed /\ trouble' = TRUE
    /\ UNCHANGED <<mcu, u32, octets, txn, pos, original_local, ran>>

OnTo(label) == Goto(label) /\ UNCHANGED <<txn, pos, case_ok>>

-----------------------------------------------------------------------------
(* The process.                                                            *)

\* verifyMissingNodePrecondition(): only a protocol timeout of the absent node.
Preflight ==
    /\ pc = "preflight"
    /\ \/ Goto("install") /\ UNCHANGED trouble
       \/ Return(1) /\ trouble' = TRUE
    /\ UNCHANGED <<sdo, mcu, u32, octets, txn, pos, case_ok, original_local, ran>>

\* fixture.install(): the three objects, all or none.
Install ==
    /\ pc = "install"
    /\ \/ pc' = "saveLocal" /\ installed' = TRUE /\ UNCHANGED <<result, trouble>>
       \/ Return(1) /\ trouble' = TRUE
    /\ UNCHANGED <<sdo, mcu, u32, octets, txn, pos, case_ok, original_local, ran>>

SaveLocal ==
    /\ pc = "saveLocal"
    /\ Sdo!SdoRead("local")
    /\ \/ /\ Succeeded /\ original_local' = reply'.value
          /\ Goto("setup") /\ UNCHANGED trouble
       \/ ~Succeeded /\ UNCHANGED original_local /\ Return(1) /\ trouble' = TRUE
    /\ UNCHANGED <<mcu, u32, octets, txn, pos, case_ok, ran>>

\* Local preparation of a request: read the fixture value to restore, and for
\* an upload of octets write the payload; a write that failed but changed the
\* value is undone.
SetUp ==
    /\ pc = "setup"
    /\ \/ /\ Goto("nextSequence") /\ UNCHANGED <<case_ok, trouble>>
          /\ octets' = IF Request = Req("up", "octets") THEN Probe ELSE octets
       \/ /\ Request.target = "octets" \/ pos = 5
          /\ Return(1) /\ trouble' = TRUE /\ UNCHANGED <<octets, case_ok>>
       \/ /\ Request = Req("up", "octets")
          /\ octets' \in {Base, Probe}
          /\ Goto("restoreFixture") /\ case_ok' = FALSE /\ UNCHANGED trouble
    /\ UNCHANGED <<sdo, mcu, u32, txn, pos, original_local, ran>>

\* nextRequestSequence(): zero is never used.
nextRequestSequence ==
    Call("request", "nextSequence",
         /\ sequence' = IF (reply'.value + 1) % SeqRange = 0 THEN 1
                        ELSE reply'.value + 1
         /\ Goto("writeParams")
         /\ UNCHANGED <<complete_before, fields, attempt, pos, case_ok>>)

AfterCommit == IF Request.target = "reset" THEN "pollActive" ELSE "poll"

\* Mutant: request_seq is written first, the fields after it.
CommitFirst ==
    \/ Store("request", sequence, "writeParams", OnTo("params"))
    \/ Store("params", pos, "params", OnTo(AfterCommit))

\* submitRequest(): the fields; a failure among them leaves them torn.
WriteParams ==
    \/ Store("params", pos, "writeParams", OnTo("commit"))
    \/ /\ pc = "writeParams"
       /\ remote' = [remote EXCEPT !["params"] = Torn]
       /\ CaseFailed /\ trouble' = TRUE
       /\ UNCHANGED <<late, reply, mcu, u32, octets, txn, pos, original_local, ran>>

\* submitRequest(): request_seq commits the request.
Commit == Store("request", sequence, "commit", OnTo(AfterCommit))

\* The end of a poll that did not see what it waits for: sleep and poll again,
\* or the deadline has passed.
Sleep(at, poll) ==
    /\ pc = at
    /\ \/ OnTo(poll) /\ UNCHANGED trouble
       \/ CaseFailed /\ UNCHANGED <<txn, pos>> /\ trouble' = TRUE
    /\ UNCHANGED <<sdo, mcu, u32, octets, original_local, ran>>

\* waitSequence() on complete_seq.
WaitSequence ==
    \/ Call("complete", "poll",
            OnTo(IF reply'.value = sequence THEN "statusBefore" ELSE "sleep"))
    \/ Sleep("sleep", "poll")

\* waitActivePending(): active_seq, then complete_seq; the request must be
\* accepted and not complete yet.
ReadActive ==
    \/ Call("active", "pollActive",
            /\ fields' = <<reply'.value, fields[2]>>
            /\ Goto("pollPending")
            /\ UNCHANGED <<sequence, complete_before, attempt, pos, case_ok>>)
    \/ Sleep("sleepActive", "pollActive")
ReadPending ==
    Call("complete", "pollPending",
         \/ /\ reply'.value # sequence
            /\ OnTo(IF fields[1] = sequence THEN "reset" ELSE "sleepActive")
         \/ reply'.value = sequence /\ CaseFailed /\ UNCHANGED <<txn, pos>>)

\* RESET_COMM and the boot wait.  Frames are in order: the MCU has reset
\* before it answers a later SDO request.
ResetAndWait ==
    /\ pc = "reset"
    /\ \/ McuReset /\ OnTo("poll") /\ UNCHANGED trouble
       \/ /\ (McuReset \/ UNCHANGED <<running, finished, remote, ran>>)
          /\ CaseFailed /\ UNCHANGED <<txn, pos>> /\ trouble' = TRUE
    /\ UNCHANGED <<late, reply, u32, octets, original_local>>

\* readStatus(): complete_seq, the fields, complete_seq again, three attempts.
StatusBefore ==
    Call("complete", "statusBefore",
         /\ complete_before' = reply'.value
         /\ Goto("statusActive")
         /\ UNCHANGED <<sequence, fields, attempt, pos, case_ok>>)
StatusActive ==
    Call("active", "statusActive",
         /\ fields' = <<reply'.value, fields[2]>>
         /\ Goto("statusResult")
         /\ UNCHANGED <<sequence, complete_before, attempt, pos, case_ok>>)
StatusResult ==
    Call("status", "statusResult",
         /\ fields' = <<fields[1], reply'.value>>
         /\ Goto("statusAfter")
         /\ UNCHANGED <<sequence, complete_before, attempt, pos, case_ok>>)
StatusAfter ==
    Call("complete", "statusAfter",
         /\ UNCHANGED <<sequence, complete_before, fields, pos>>
         /\ \/ /\ reply'.value = complete_before
               /\ attempt' = 0 /\ UNCHANGED case_ok /\ Goto("check")
            \/ /\ reply'.value # complete_before /\ attempt < 2
               /\ attempt' = attempt + 1 /\ UNCHANGED case_ok /\ Goto("statusBefore")
            \/ /\ reply'.value # complete_before /\ attempt = 2
               /\ attempt' = 0 /\ CaseFailed)

Expected == IF Request.target = "reset" THEN Cancelled ELSE AsExpected

\* The sequence numbers and the result must be those of this request.
CheckStatus ==
    /\ pc = "check"
    /\ UNCHANGED <<txn, trouble>>
    /\ LET good == complete_before = sequence /\ fields = <<sequence, Expected>>
       IN  \/ ~good /\ CaseFailed /\ UNCHANGED pos
           \/ /\ good /\ Request.dir = "down" /\ Restorable
              /\ Goto("readback") /\ UNCHANGED <<pos, case_ok>>
           \/ /\ good /\ Request = Req("up", "octets")
              /\ Goto("restoreFixture") /\ UNCHANGED <<pos, case_ok>>
           \/ /\ good /\ ~Restorable /\ NextRequest
    /\ UNCHANGED <<sdo, mcu, u32, octets, original_local, ran>>

\* The independent read-back of a download: over SDO for the MCU's object,
\* directly for the fixture.
ReadBackLocal ==
    /\ Request.target = "local"
    /\ Call("local", "readback",
            \/ reply'.value = Probe /\ OnTo("restoreWrite")
            \/ reply'.value # Probe /\ CaseFailed /\ UNCHANGED <<txn, pos>>)
ReadBackFixture ==
    /\ pc = "readback" /\ Request.target # "local"
    /\ LET value == IF Request.target = "u32" THEN u32 ELSE octets
       IN  \/ value = Probe /\ OnTo("restoreFixture") /\ UNCHANGED trouble
           \/ CaseFailed /\ UNCHANGED <<txn, pos>> /\ trouble' = TRUE
    /\ UNCHANGED <<sdo, mcu, u32, octets, original_local, ran>>

AfterRestore ==
    \/ case_ok /\ NextRequest
    \/ ~case_ok /\ UNCHANGED <<pos, case_ok>> /\ Return(1)

\* restoreLocalControl(): write and verify over SDO.
RestoreLocalWrite ==
    /\ pc = "restoreWrite"
    /\ Sdo!SdoWrite("local", original_local)
    /\ \/ Succeeded /\ Goto("restoreRead") /\ UNCHANGED trouble
       \/ ~Succeeded /\ Return(1) /\ trouble' = TRUE
    /\ UNCHANGED <<mcu, u32, octets, txn, pos, case_ok, original_local, ran>>
RestoreLocalRead ==
    /\ pc = "restoreRead"
    /\ Sdo!SdoRead("local")
    /\ \/ /\ Succeeded /\ reply'.value = original_local
          /\ AfterRestore /\ UNCHANGED trouble
       \/ /\ ~(Succeeded /\ reply'.value = original_local)
          /\ Return(1) /\ UNCHANGED <<pos, case_ok>> /\ trouble' = TRUE
    /\ UNCHANGED <<mcu, u32, octets, txn, original_local, ran>>

\* restoreFixtureU32() and restoreFixtureOctets().
RestoreFixture ==
    /\ pc = "restoreFixture"
    /\ \/ /\ u32' = IF Request.target = "u32" THEN Base ELSE u32
          /\ octets' = IF Request.target = "octets" THEN Base ELSE octets
          /\ AfterRestore /\ UNCHANGED trouble
       \/ /\ u32' \in {u32, IF Request.target = "u32" THEN Base ELSE u32}
          /\ octets' \in {octets, IF Request.target = "octets" THEN Base ELSE octets}
          /\ Return(1) /\ UNCHANGED <<pos, case_ok>> /\ trouble' = TRUE
    /\ UNCHANGED <<sdo, mcu, txn, original_local, ran>>

Done == pc = "done" /\ UNCHANGED vars

Next ==
    \/ McuAccepts \/ McuFinishes \/ McuPublishes \/ LateEffect
    \/ Preflight \/ Install \/ SaveLocal \/ SetUp \/ nextRequestSequence \/ WriteParams \/ Commit
    \/ WaitSequence \/ ReadActive \/ ReadPending \/ ResetAndWait
    \/ StatusBefore \/ StatusActive \/ StatusResult \/ StatusAfter \/ CheckStatus
    \/ ReadBackLocal \/ ReadBackFixture
    \/ RestoreLocalWrite \/ RestoreLocalRead \/ RestoreFixture
    \/ Done

Spec == Init /\ [][Next]_vars

-----------------------------------------------------------------------------
(* Properties.                                                             *)

\* Type correctness; sequence number zero is never committed by the process.
TypeOK ==
    /\ remote \in [Objects -> Values]
    /\ \A k \in 1..Len(late) : late[k] \in Objects \X Values
    /\ reply \in [class : Sdo!Classes, value : Values]
    /\ running \in {Idle, Torn} \cup 1..Len(Requests) /\ finished \in BOOLEAN
    /\ u32 \in {Base, Probe} /\ octets \in {Base, Probe}
    /\ installed = (pc \notin {"preflight", "install", "done"})
    /\ pos \in 1..Len(Requests)
    /\ sequence \in 0..(SeqRange - 1)
    /\ (pc \in {"writeParams", "commit"}) => sequence # 0
    /\ complete_before \in Values /\ fields \in Values \X Values
    /\ attempt \in 0..2 /\ case_ok \in BOOLEAN
    /\ original_local \in Values /\ result \in {0, 1}
    /\ trouble \in BOOLEAN
    /\ ran \in -1..Len(Requests)

\* PASS is evidence from the MCU: it ran the requests of the script, each of
\* them once and in order, so no result was that of an earlier request.
PassMeansExecuted ==
    (pc = "done" /\ result = 0) => ran = Len(Requests)

\* After a pass 0x2200 holds its saved value, the MCU is idle and no abandoned
\* write is under way.
PassMeansRestored ==
    (pc = "done" /\ result = 0) =>
        remote["local"] = original_local /\ running = Idle /\ late = <<>>

\* A run that fails only because a request had the wrong result has put back
\* what the requests changed on the MCU and in the fixture.
FailureStillRestores ==
    (pc = "done" /\ ~trouble) =>
        remote["local"] = original_local /\ u32 = Base /\ octets = Base
=============================================================================
