-------------------------- MODULE SdoBlockProcess --------------------------
(***************************************************************************)
(* SDO server block-transfer validation (src/sdo_block_process.cpp).  The  *)
(* cases are a script of operations; the first one that fails ends it.     *)
(* Two flags decide what cleanup may do then: channel_known (no SDO call   *)
(* was given up) and node_stopped (the process has stopped the node).      *)
(*                                                                         *)
(* A payload is identified by the case that writes it.  SDO calls are      *)
(* steps of SdoService; a stopped node serves none.  An NMT command with   *)
(* wait is one step: confirmed, refused by Lely (no effect), or not        *)
(* confirmed in time (the node may have obeyed).                           *)
(***************************************************************************)
EXTENDS Integers, Sequences

VARIABLES
    remote, late, reply,          \* the SDO service
    node,                         \* external: "PREOP" or "STOP"
    transfer,                     \* external: the request to be cancelled
    completed,                    \* AbortState
    pc, pos, original, channel_known, node_stopped, result,
    gaveUp,                       \* history: some request may be under way
    unconfirmed,                  \* history: NMT state of the node unknown
    refused,                      \* history: Lely refused to restore the node
    held, timedOut                \* history: payloads stored; a stopped node
                                  \* let the probe time out

sdo == <<remote, late, reply>>
abortVars == <<transfer, completed>>
nmtVars == <<node, node_stopped, unconfirmed, refused>>
history == <<gaveUp, held, timedOut>>
vars == <<sdo, abortVars, nmtVars, pc, pos, original, channel_known, result,
          history>>

Block == "0x2304:00"
ReadOnly == "0x1000:00"
Op(kind, arg) == [kind |-> kind, arg |-> arg]

\* runBlockRoundTrip()
RoundTrip(p) == <<Op("down", p), Op("up", p)>>

\* synchronizeSdoServerAfterAbort()
Barrier == <<Op("stop", "barrier"), Op("preop", "-")>>

\* The do-block of sdoBlockProcess(); two of the kStressIterations.
Script ==
    RoundTrip("32") \o RoundTrip("900") \o RoundTrip("1024")
    \o RoundTrip("1025") \o RoundTrip("2048")
    \o <<Op("illegal", "32ro")>> \o RoundTrip("illegal")
    \o <<Op("stop", "timeout"), Op("probe", "-"), Op("preop", "-"),
         Op("verdict", "-")>> \o RoundTrip("timeout")
    \o <<Op("submit", "cancelled"), Op("cancel", "-"), Op("await", "-")>>
    \o Barrier \o RoundTrip("abort")
    \o RoundTrip("expedited") \o <<Op("deviceType", "-")>>
    \o RoundTrip("segmented")
    \o RoundTrip("stress1") \o RoundTrip("stress2")

Payloads == {Script[k].arg : k \in {n \in 1..Len(Script) :
                                        Script[n].kind \in {"down", "illegal", "submit"}}}
Values == Payloads \cup {"original", "empty", "partial", "devtype"}

Sdo == INSTANCE SdoService WITH Objects <- {Block, ReadOnly}

Running(kind) == pc = "script" /\ Script[pos].kind = kind
Arg == Script[pos].arg

Init ==
    /\ \E v \in {"original", "empty", "32"} :
          Sdo!SdoInit([o \in {Block, ReadOnly} |->
                          IF o = Block THEN v ELSE "devtype"])
    /\ node = "PREOP" /\ transfer = "none" /\ completed = FALSE
    /\ pc = "readOriginal" /\ pos = 1 /\ original = "empty"
    /\ channel_known = TRUE /\ node_stopped = FALSE /\ result = 0
    /\ gaveUp = FALSE /\ unconfirmed = FALSE /\ refused = FALSE
    /\ held = {} /\ timedOut = FALSE

-----------------------------------------------------------------------------
(* Calls and control flow.                                                 *)

\* External: a stopped node does not serve.
Read(o) == Sdo!SdoRead(o) /\ (node = "STOP" => reply'.class # "SUCCESS")
Write(o, v) == /\ Sdo!SdoWrite(o, v)
               /\ node = "STOP" => reply'.class # "SUCCESS" /\ remote' = remote

\* updateChannelState(), after every call.
updateChannelState ==
    /\ channel_known' = (channel_known /\ reply'.class # "WAIT_TIMEOUT")
    /\ gaveUp' = (gaveUp \/ reply'.class = "WAIT_TIMEOUT")
    /\ held' = held \cup {remote'[Block]}

Succeeded == reply'.class = "SUCCESS"

\* Mutant: the cleanup does not bring a stopped node back.
AfterCasesForgetsNode == pc' = IF channel_known' THEN "restoreDown" ELSE "done"

\* What follows the cases, as the two flags allow.
AfterCases ==
    pc' = CASE node_stopped' -> "restoreNode"
            [] ~node_stopped' /\ channel_known' -> "restoreDown"
            [] OTHER -> "done"

Advance ==
    /\ \/ pos < Len(Script) /\ pos' = pos + 1 /\ UNCHANGED <<pc, result>>
       \/ /\ pos = Len(Script) /\ UNCHANGED pos
          /\ AfterCases
          /\ result' = IF pc' = "done" THEN 1 ELSE result

Fail == AfterCases /\ result' = 1 /\ UNCHANGED pos

\* "empty" stands for a payload of a size the process refuses to save.
ReadOriginal ==
    /\ pc = "readOriginal"
    /\ Read(Block)
    /\ updateChannelState
    /\ \/ /\ Succeeded /\ reply'.value # "empty"
          /\ original' = reply'.value
          /\ pc' = "script" /\ UNCHANGED result
       \/ /\ ~Succeeded \/ reply'.value = "empty"
          /\ pc' = "done" /\ result' = 1 /\ UNCHANGED original
    /\ UNCHANGED <<abortVars, nmtVars, pos, timedOut>>

Download ==
    /\ Running("down")
    /\ Write(Block, Arg)
    /\ updateChannelState
    /\ UNCHANGED nmtVars
    /\ (Succeeded /\ Advance) \/ (~Succeeded /\ Fail)
    /\ UNCHANGED <<abortVars, original, timedOut>>

\* Block upload, for the segmented regression a normal upload, and
\* validatePayload().
Upload ==
    /\ Running("up")
    /\ Read(Block)
    /\ updateChannelState
    /\ UNCHANGED nmtVars
    /\ \/ Succeeded /\ reply'.value = Arg /\ Advance
       \/ ~(Succeeded /\ reply'.value = Arg) /\ Fail
    /\ UNCHANGED <<abortVars, original, timedOut>>

\* runIllegalAccessCase(): only the abort code NO_WRITE passes.
IllegalDownload ==
    /\ Running("illegal")
    /\ Write(ReadOnly, Arg)
    /\ updateChannelState
    /\ UNCHANGED nmtVars
    /\ (reply'.class = "FAILED" /\ Advance) \/ Fail
    /\ UNCHANGED <<abortVars, original, timedOut>>

ReadDeviceType ==
    /\ Running("deviceType")
    /\ Read(ReadOnly)
    /\ updateChannelState
    /\ UNCHANGED nmtVars
    /\ (Succeeded /\ Advance) \/ (~Succeeded /\ Fail)
    /\ UNCHANGED <<abortVars, original, timedOut>>

-----------------------------------------------------------------------------
(* NMT: issueNmtCommandAndWaitForState().                                  *)

Confirmed(state) == node' = state /\ unconfirmed' = FALSE
NotConfirmed(state) ==
    \/ UNCHANGED <<node, unconfirmed>>
    \/ node' \in {node, state} /\ unconfirmed' = TRUE

\* An unconfirmed barrier makes the channel unknown; the timeout case just
\* fails.
StopNode ==
    /\ Running("stop")
    /\ \/ /\ Confirmed("STOP")
          /\ node_stopped' = TRUE
          /\ UNCHANGED channel_known
          /\ Advance
       \/ /\ NotConfirmed("STOP")
          /\ UNCHANGED node_stopped
          /\ channel_known' = (channel_known /\ Arg # "barrier")
          /\ Fail
    /\ UNCHANGED <<sdo, abortVars, original, refused, history>>

\* restorePreOperational() within a case.
RestoreWithinCase ==
    /\ Running("preop")
    /\ UNCHANGED channel_known
    /\ \/ Confirmed("PREOP") /\ node_stopped' = FALSE /\ Advance
       \/ NotConfirmed("PREOP") /\ UNCHANGED node_stopped /\ Fail
    /\ UNCHANGED <<sdo, abortVars, original, refused, history>>

\* runTimeoutRecoveryCase(): the read a stopped node must not answer; its
\* result is judged once the node is back.
Probe ==
    /\ Running("probe")
    /\ Read(Block)
    /\ updateChannelState
    /\ UNCHANGED nmtVars
    /\ timedOut' = (node = "STOP" /\ reply'.class = "SDO_TIMEOUT")
    /\ Advance
    /\ UNCHANGED <<abortVars, original>>

\* Mutant: any failure of the probe counts as the expected timeout.
VerdictAnyFailure ==
    /\ Running("verdict")
    /\ UNCHANGED <<nmtVars, channel_known>>
    /\ \/ reply.class # "SUCCESS" /\ Advance
       \/ reply.class = "SUCCESS" /\ Fail
    /\ UNCHANGED <<sdo, abortVars, original, history>>

Verdict ==
    /\ Running("verdict")
    /\ UNCHANGED <<nmtVars, channel_known>>
    /\ \/ reply.class = "SDO_TIMEOUT" /\ Advance
       \/ reply.class # "SDO_TIMEOUT" /\ Fail
    /\ UNCHANGED <<sdo, abortVars, original, history>>

-----------------------------------------------------------------------------
(* runClientAbortCase(): the request, its cancellation, its completion.    *)

SubmitAbortable ==
    /\ Running("submit")
    /\ UNCHANGED <<nmtVars, channel_known>>
    /\ \/ transfer' = "active" /\ Advance
       \/ UNCHANGED transfer /\ Fail
    /\ UNCHANGED <<sdo, completed, original, history>>

\* External: the block download ends by itself before it is cancelled.
TransferEnds ==
    /\ transfer = "active"
    /\ transfer' = "other"
    /\ \E v \in {remote[Block], "partial", "cancelled"} :
          /\ remote' = [remote EXCEPT ![Block] = v]
          /\ held' = held \cup {v}
    /\ UNCHANGED <<late, reply, completed, nmtVars, pc, pos, original,
                   channel_known, result, gaveUp, timedOut>>

\* The completion callback on the event loop.
AbortCallback ==
    /\ transfer \in {"ERROR", "other"} /\ ~completed
    /\ completed' = TRUE
    /\ UNCHANGED <<sdo, transfer, nmtVars, pc, pos, original, channel_known,
                   result, history>>

\* cancelRemoteSdoRequests(): no Client-SDO service, or CancelAll().
CancelRequests ==
    /\ Running("cancel")
    /\ UNCHANGED nmtVars
    /\ \/ channel_known' = FALSE /\ gaveUp' = TRUE
          /\ UNCHANGED <<remote, transfer, held>> /\ Fail
       \/ /\ UNCHANGED <<channel_known, gaveUp>>
          /\ \/ transfer # "active" /\ UNCHANGED <<remote, transfer, held>>
             \/ /\ transfer = "active" /\ transfer' = "ERROR"
                /\ \E v \in {remote[Block], "partial", "cancelled"} :
                      /\ remote' = [remote EXCEPT ![Block] = v]
                      /\ held' = held \cup {v}
          /\ Advance
    /\ UNCHANGED <<late, reply, completed, original, timedOut>>

AwaitAbort ==
    /\ Running("await")
    /\ UNCHANGED nmtVars
    /\ \/ /\ completed /\ UNCHANGED <<channel_known, gaveUp>>
          /\ \/ transfer = "ERROR" /\ Advance
             \/ transfer # "ERROR" /\ Fail
       \/ /\ ~completed /\ channel_known' = FALSE /\ gaveUp' = TRUE
          /\ Fail
    /\ UNCHANGED <<sdo, abortVars, original, held, timedOut>>

-----------------------------------------------------------------------------
(* After the cases.                                                        *)

\* Mutant: the SDO cleanup does not wait for the node.
RestoreNodeOptimistic ==
    /\ pc = "restoreNode"
    /\ \/ /\ Confirmed("PREOP") /\ node_stopped' = FALSE
          /\ UNCHANGED <<result, refused>>
       \/ /\ NotConfirmed("PREOP") /\ UNCHANGED <<node_stopped, result>>
          /\ refused' = (node' = node)
    /\ pc' = "restoreDown"
    /\ UNCHANGED <<sdo, abortVars, pos, original, channel_known, history>>

\* The second attempt to bring a stopped node back.
RestoreNode ==
    /\ pc = "restoreNode"
    /\ \/ /\ Confirmed("PREOP")
          /\ node_stopped' = FALSE
          /\ pc' = IF channel_known THEN "restoreDown" ELSE "done"
          /\ result' = IF channel_known THEN result ELSE 1
          /\ UNCHANGED refused
       \/ /\ NotConfirmed("PREOP") /\ UNCHANGED node_stopped
          /\ refused' = (refused \/ ~unconfirmed')
          /\ pc' = "done" /\ result' = 1
    /\ UNCHANGED <<sdo, abortVars, pos, original, channel_known, history>>

\* restoreOriginalPayload(): the download.
RestoreDownload ==
    /\ pc = "restoreDown"
    /\ Write(Block, original)
    /\ updateChannelState
    /\ \/ Succeeded /\ pc' = "restoreUp" /\ UNCHANGED result
       \/ ~Succeeded /\ pc' = "done" /\ result' = 1
    /\ UNCHANGED <<abortVars, nmtVars, pos, original, timedOut>>

\* restoreOriginalPayload(): the read-back.
RestoreUpload ==
    /\ pc = "restoreUp"
    /\ Read(Block)
    /\ updateChannelState
    /\ pc' = "done"
    /\ result' = IF Succeeded /\ reply'.value = original THEN result ELSE 1
    /\ UNCHANGED <<abortVars, nmtVars, pos, original, timedOut>>

\* An abandoned write lands, on a node that serves, or is lost.
LateEffect ==
    /\ (node # "STOP" /\ Sdo!LateWrite) \/ Sdo!LateLoss
    /\ held' = held \cup {remote'[Block]}
    /\ UNCHANGED <<abortVars, nmtVars, pc, pos, original, channel_known,
                   result, gaveUp, timedOut>>

Done == pc = "done" /\ UNCHANGED vars

Next ==
    \/ ReadOriginal \/ Download \/ Upload \/ IllegalDownload \/ ReadDeviceType
    \/ StopNode \/ RestoreWithinCase \/ Probe \/ Verdict
    \/ SubmitAbortable \/ CancelRequests \/ AwaitAbort
    \/ TransferEnds \/ AbortCallback
    \/ RestoreNode \/ RestoreDownload \/ RestoreUpload
    \/ LateEffect
    \/ Done

Spec == Init /\ [][Next]_vars

-----------------------------------------------------------------------------
(* Properties.                                                             *)

\* Type correctness.
TypeOK ==
    /\ remote \in [{Block, ReadOnly} -> Values]
    /\ late \in Seq({Block, ReadOnly} \X Values)
    /\ reply \in [class : Sdo!Classes, value : Values]
    /\ node \in {"PREOP", "STOP"}
    /\ transfer \in {"none", "active", "ERROR", "other"}
    /\ completed \in BOOLEAN
    /\ pc \in {"readOriginal", "script", "restoreNode", "restoreDown",
               "restoreUp", "done"}
    /\ pos \in 1..Len(Script)
    /\ original \in Values
    /\ channel_known \in BOOLEAN /\ node_stopped \in BOOLEAN
    /\ result \in {0, 1}
    /\ gaveUp \in BOOLEAN /\ unconfirmed \in BOOLEAN /\ refused \in BOOLEAN
    /\ held \subseteq Values /\ timedOut \in BOOLEAN

\* PASS is proof: the object holds its original payload again and no request
\* is left that could change it; the node is back in Pre-operational; the
\* server stored every payload, refused the read-only object, and the expected
\* timeout was that of a node that really was stopped.
PassMeansRestored ==
    (pc = "done" /\ result = 0) =>
        /\ remote[Block] = original /\ late = <<>> /\ transfer # "active"
        /\ node = "PREOP" /\ ~unconfirmed
        /\ Payloads \ {"32ro", "cancelled"} \subseteq held
        /\ remote[ReadOnly] = "devtype"
        /\ timedOut

\* Once a request was given up, no further SDO call is made: neither the rest
\* of the script nor the cleanup can race with it.
NoCallOnUnknownChannel ==
    gaveUp => /\ pc \notin {"readOriginal", "restoreDown", "restoreUp"}
              /\ pc = "script" => Script[pos].kind \in {"preop", "verdict"}

\* A node the process is known to have stopped is brought back on every path,
\* unless Lely refused the command or its outcome could not be confirmed.
NotLeftStopped == (pc = "done" /\ node = "STOP") => unconfirmed \/ refused

\* docs/zh/reference/api.md: the original payload is restored only when the
\* state of the Client-SDO callbacks and the NMT state needed for it are
\* certain; the cleanup is not attempted when remote readiness is unconfirmed.
CleanupOnlyWhenCertain == pc = "restoreDown" => ~gaveUp /\ ~unconfirmed
=============================================================================
