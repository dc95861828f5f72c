------------------------ MODULE EmcyConsumerProcess ------------------------
(***************************************************************************)
(* EMCY consumer validation (src/emcy_consumer_process.cpp with the local  *)
(* EMCY shim of include/canopen_master.h): the Host produces EMCY messages *)
(* from its own Lely error stack and reads back, over several SDO reads,   *)
(* what the MCU's consumer reported; then it clears the stack again.       *)
(*                                                                         *)
(* Other parties act at any time: Lely pushes faults of its own onto the   *)
(* Host stack ("F"), another node sends EMCY messages to the MCU ("N").    *)
(* A message is its test vector, "0" is the error reset.                   *)
(*                                                                         *)
(* External: the MCU updates its diagnostic 0x2301 for one message at a    *)
(* time and keeps it across a communication reset; frames arrive in order. *)
(***************************************************************************)
EXTENDS Integers, Sequences

CONSTANTS CountRange,   \* 2^32: rx_count is an unsigned 32-bit counter
          Retries,      \* kSnapshotRetryCount
          MaxForeign    \* bound: faults and messages of other parties

VARIABLES
    stack, wire,        \* external: Host error stack, frames under way
    rx_count, last,     \* external: MCU diagnostic 0x2301
    operational,        \* external: the MCU is in Operational
    foreign,            \* bound: messages of other parties so far
    pos, sub,           \* where the script is; "cleanup" steps come last
    host_error_active, expected_host_error_count,
    reset_communication_issued, remote_operational_restored,
    current,            \* the last validated snapshot
    before, source, attempt,    \* readStableSnapshot(): what it has so far
    code,
    result,
    good,               \* history: messages in step with the script, -1: not
    hindered            \* history: a foreign Host fault, or a local failure

env == <<stack, wire, rx_count, last, operational, foreign>>
state == <<host_error_active, expected_host_error_count,
           reset_communication_issued, remote_operational_restored>>
snapshot == <<current, before, source, code, attempt>>
vars == <<env, pos, sub, state, snapshot, result, good, hindered>>

Own == {"A", "B"}                 \* kVectorA, kVectorB
Messages == Own \cup {"0", "F", "N"}

\* runEmcyConsumerValidation() and validateResetRebind().
Script == <<"baseline", "A", "B", "clear", "A", "A", "clear", "health",
            "A", "reset", "B", "clear", "start">>
Op == Script[pos]

\* The messages the MCU must see, as a consequence of the script.
Expected == <<"A", "B", "0", "A", "A", "0", "A", "B", "0">>

\* The other node happens to send the same error code as vector A.
SourceOf(m) == IF m = "N" THEN "node" ELSE "host"
CodeOf(m) == IF m = "N" THEN "A" ELSE m

Snapshot(count, from, what) ==
    [rx_count |-> count, source_node_id |-> from, error_code |-> what]

Init ==
    /\ stack = <<>> /\ wire = <<>>
    /\ rx_count \in 0..(CountRange - 1) /\ last = "N"
    /\ operational = TRUE
    /\ foreign = 0
    /\ pos = 1 /\ sub = "preflight"
    /\ host_error_active = FALSE /\ expected_host_error_count = 0
    /\ reset_communication_issued = FALSE
    /\ remote_operational_restored = FALSE
    /\ current = Snapshot(0, "node", "A")
    /\ before = 0 /\ source = "node" /\ code = "A" /\ attempt = 0
    /\ result = 0
    /\ good = 0
    /\ hindered = FALSE

-----------------------------------------------------------------------------
(* Other parties.                                                          *)

\* Lely pushes a fault of the Host and sends its EMCY.
HostFault ==
    /\ foreign < MaxForeign /\ sub # "done"
    /\ foreign' = foreign + 1
    /\ stack' = Append(stack, "F")
    /\ wire' = Append(wire, "F")
    /\ hindered' = TRUE
    /\ UNCHANGED <<rx_count, last, operational, pos, sub, state, snapshot,
                   result, good>>

\* The history follows the MCU between the baseline and the last snapshot.
Follow(m) ==
    good' = IF Op \in {"baseline", "start"} \/ result = 1 THEN good
            ELSE IF good # -1 /\ good < Len(Expected) /\ m = Expected[good + 1]
                 THEN good + 1
                 ELSE -1

Consume(m) ==
    /\ rx_count' = (rx_count + 1) % CountRange
    /\ last' = m
    /\ Follow(m)

McuReceives ==
    /\ wire # <<>>
    /\ wire' = Tail(wire)
    /\ Consume(Head(wire))
    /\ UNCHANGED <<stack, operational, foreign, pos, sub, state, snapshot,
                   result, hindered>>

NodeEmcy ==
    /\ foreign < MaxForeign /\ sub # "done"
    /\ foreign' = foreign + 1
    /\ Consume("N")
    /\ UNCHANGED <<stack, wire, operational, pos, sub, state, snapshot, result,
                   hindered>>

-----------------------------------------------------------------------------
(* Control flow of the process thread.                                     *)

Goto(label) == sub' = label /\ UNCHANGED <<pos, result>>

FirstSub(op) ==
    CASE op \in Own -> "push"
      [] op = "clear" -> "depth"
      [] op = "health" -> "health"
      [] op = "reset" -> "reset"
      [] op = "start" -> "start"
      [] op = "baseline" -> "count"

NextOp == pos' = pos + 1 /\ sub' = FirstSub(Script[pos + 1]) /\ UNCHANGED result

\* A failure in the script leads to cleanup; in cleanup it is remembered.
Fail ==
    /\ result' = 1
    /\ sub' = CASE sub \in {"cleanDepth", "cleanPeek", "cleanClear"} -> "cleanStart"
                [] sub = "cleanStart" -> "done"
                [] sub = "preflight" -> "done"
                [] OTHER -> "cleanup"
    /\ UNCHANGED pos

\* validateProducerPreflight(): wrong configuration, or errors already there.
validateProducerPreflight ==
    /\ sub = "preflight"
    /\ \/ stack = <<>> /\ Goto("count")
       \/ Fail
    /\ UNCHANGED <<env, state, snapshot, good, hindered>>

\* pushLocalEmcy(), under the master lock: a push that fails ("unsent") may
\* have changed the stack all the same, and the shim finds out.
pushLocalEmcy(outcome) ==
    /\ stack' = IF outcome = "refused" THEN stack ELSE Append(stack, Op)
    /\ wire' = IF outcome = "sent" THEN Append(wire, Op) ELSE wire

\* Mutant: only a push that succeeds is counted.
EmitCountsSuccess ==
    /\ sub = "push"
    /\ \E outcome \in {"sent", "unsent", "refused"} :
         /\ pushLocalEmcy(outcome)
         /\ host_error_active' = (host_error_active \/ outcome = "sent")
         /\ expected_host_error_count' =
              expected_host_error_count + (IF outcome = "sent" THEN 1 ELSE 0)
         /\ IF outcome = "sent" THEN Goto("poll") ELSE Fail
    /\ UNCHANGED <<rx_count, last, operational, foreign,
                   reset_communication_issued, remote_operational_restored,
                   snapshot, good, hindered>>

emitTestEmcy ==
    /\ sub = "push"
    /\ \E outcome \in {"sent", "unsent", "refused"} :
         /\ pushLocalEmcy(outcome)
         /\ host_error_active' = (host_error_active \/ stack' # stack)
         /\ expected_host_error_count' =
              expected_host_error_count + (IF stack' # stack THEN 1 ELSE 0)
         /\ IF outcome = "sent" THEN Goto("poll") ELSE Fail
    /\ UNCHANGED <<rx_count, last, operational, foreign,
                   reset_communication_issued, remote_operational_restored,
                   snapshot, good, hindered>>

-----------------------------------------------------------------------------
(* clearLocalEmcy(): depth, top, clear -- three separate calls to Lely.    *)

LocalFailure == Fail /\ hindered' = TRUE

CheckDepth ==
    /\ sub \in {"depth", "cleanDepth"}
    /\ \/ /\ Len(stack) = expected_host_error_count
          /\ Goto(IF sub = "depth" THEN "peek" ELSE "cleanPeek")
          /\ UNCHANGED hindered
       \/ /\ Len(stack) # expected_host_error_count
          /\ Fail /\ UNCHANGED hindered
       \/ LocalFailure
    /\ UNCHANGED <<env, state, snapshot, good>>

Top == IF stack = <<>> THEN "none" ELSE stack[Len(stack)]

\* An empty stack needs no clearing; a foreign error on top is refused.
PeekTop ==
    /\ sub \in {"peek", "cleanPeek"}
    /\ \/ /\ Top # "F"
          /\ Goto(CASE Top \in Own /\ sub = "peek" -> "clear"
                    [] Top \in Own /\ sub = "cleanPeek" -> "cleanClear"
                    [] Top = "none" /\ sub = "peek" -> "poll"
                    [] Top = "none" /\ sub = "cleanPeek" -> "cleanStart")
          /\ host_error_active' = (host_error_active /\ Top # "none")
          /\ expected_host_error_count' =
               IF Top = "none" THEN 0 ELSE expected_host_error_count
          /\ UNCHANGED <<reset_communication_issued,
                         remote_operational_restored, hindered>>
       \/ Top = "F" /\ Fail /\ UNCHANGED <<state, hindered>>
       \/ LocalFailure /\ UNCHANGED state
    /\ UNCHANGED <<env, snapshot, good>>

\* Mutant: the number of test errors is not reset.
ClearKeepsCount ==
    /\ sub \in {"clear", "cleanClear"}
    /\ stack' = <<>>
    /\ host_error_active' = FALSE
    /\ wire' = Append(wire, "0")
    /\ Goto(IF sub = "clear" THEN "poll" ELSE "cleanStart")
    /\ UNCHANGED <<rx_count, last, operational, foreign,
                   expected_host_error_count, reset_communication_issued,
                   remote_operational_restored, snapshot, good, hindered>>

\* Lely empties the stack first; sending the error reset may then fail.
ClearStack ==
    /\ sub \in {"clear", "cleanClear"}
    /\ stack' = <<>>
    /\ host_error_active' = FALSE
    /\ expected_host_error_count' = 0
    /\ \/ wire' = Append(wire, "0")
          /\ Goto(IF sub = "clear" THEN "poll" ELSE "cleanStart")
       \/ UNCHANGED wire /\ Fail
    /\ UNCHANGED <<rx_count, last, operational, foreign,
                   reset_communication_issued, remote_operational_restored,
                   snapshot, good, hindered>>

-----------------------------------------------------------------------------
(* Observing the MCU: waitForNextRxCount() and readStableSnapshot().       *)

Next1 == (current.rx_count + 1) % CountRange

waitForNextRxCount ==
    /\ sub = "poll"
    /\ \/ rx_count = Next1 /\ Goto("count")
       \/ rx_count # Next1 /\ Fail   \* timeout, or a count out of step
    /\ UNCHANGED <<env, state, snapshot, good, hindered>>

ReadCountBefore ==
    /\ sub = "count"
    /\ before' = rx_count
    /\ Goto("fields")
    /\ UNCHANGED <<env, state, current, source, code, attempt, good, hindered>>

\* The fields come in separate SDO reads: the source and the COB-ID, then
\* the payload.
ReadSource ==
    /\ sub = "fields"
    /\ source' = SourceOf(last)
    /\ Goto("payload")
    /\ UNCHANGED <<env, state, current, before, code, attempt, good, hindered>>

ReadPayload ==
    /\ sub = "payload"
    /\ code' = CodeOf(last)
    /\ Goto("countAgain")
    /\ UNCHANGED <<env, state, current, before, source, attempt, good, hindered>>

\* validateVectorSnapshot(), validateRecoverySnapshot() and
\* validateResetPreservedSnapshot().
Valid(s) ==
    CASE Op = "baseline" -> TRUE
      [] Op \in Own -> s = Snapshot(Next1, "host", Op)
      [] Op = "clear" -> s = Snapshot(Next1, "host", "0")
      [] Op = "reset" -> s = current

\* Mutant: the counter is not compared with the one before the fields.
SnapshotUnstable ==
    /\ sub = "countAgain"
    /\ LET s == Snapshot(before, source, code)
       IN  \/ Valid(s) /\ current' = s /\ NextOp
           \/ ~Valid(s) /\ UNCHANGED current /\ Fail
    /\ attempt' = 0
    /\ UNCHANGED <<env, state, before, source, code, good, hindered>>

ReadCountAfter ==
    /\ sub = "countAgain"
    /\ \/ /\ rx_count = before
          /\ LET s == Snapshot(before, source, code)
             IN  \/ Valid(s) /\ current' = s /\ NextOp
                 \/ ~Valid(s) /\ UNCHANGED current /\ Fail
          /\ attempt' = 0
       \/ /\ rx_count # before /\ attempt + 1 < Retries
          /\ attempt' = attempt + 1
          /\ Goto("count")
          /\ UNCHANGED current
       \/ /\ rx_count # before /\ attempt + 1 = Retries
          /\ attempt' = 0
          /\ Fail
          /\ UNCHANGED current
    /\ UNCHANGED <<env, state, before, source, code, good, hindered>>

validateSdoHealth ==
    /\ sub = "health"
    /\ NextOp
    /\ UNCHANGED <<env, state, snapshot, good, hindered>>

\* Any SDO read of the three operators above may fail.
SdoFails ==
    /\ sub \in {"poll", "count", "fields", "payload", "countAgain", "health"}
    /\ Fail
    /\ attempt' = 0
    /\ UNCHANGED <<env, state, current, before, source, code, good, hindered>>

-----------------------------------------------------------------------------
(* Reset Communication and the return to Operational.                      *)

IssueReset ==
    /\ sub = "reset"
    /\ \/ /\ operational' = FALSE
          /\ reset_communication_issued' = TRUE
          /\ remote_operational_restored' = FALSE
          /\ Goto("boot")
       \/ /\ UNCHANGED <<operational, reset_communication_issued,
                         remote_operational_restored>>
          /\ Fail
    /\ UNCHANGED <<stack, wire, rx_count, last, foreign, host_error_active,
                   expected_host_error_count, snapshot, good, hindered>>

\* Mutant: a completed boot counts as Operational whatever its state.
WaitBootAssumesStart ==
    /\ sub = "boot"
    /\ operational' \in BOOLEAN
    /\ \/ remote_operational_restored' = TRUE /\ Goto("count")
       \/ UNCHANGED remote_operational_restored /\ Fail
    /\ UNCHANGED <<stack, wire, rx_count, last, foreign, host_error_active,
                   expected_host_error_count, reset_communication_issued,
                   snapshot, good, hindered>>

\* Lely's boot procedure starts the MCU or leaves it in Pre-operational.
WaitBoot ==
    /\ sub = "boot"
    /\ operational' \in BOOLEAN
    /\ \/ remote_operational_restored' = operational' /\ Goto("count")
       \/ UNCHANGED remote_operational_restored /\ Fail
    /\ UNCHANGED <<stack, wire, rx_count, last, foreign, host_error_active,
                   expected_host_error_count, reset_communication_issued,
                   snapshot, good, hindered>>

\* issueNmtCommandAndWaitForState(START), needed only when not yet started.
StartConfirmed(next) ==
    /\ operational' = TRUE
    /\ remote_operational_restored' = TRUE
    /\ Goto(next)

StartFailed ==
    /\ operational' \in {operational, TRUE}
    /\ UNCHANGED remote_operational_restored
    /\ Fail

NothingToStart(next) ==
    /\ UNCHANGED <<operational, remote_operational_restored>>
    /\ Goto(next)

FinalStart ==
    /\ sub = "start"
    /\ \/ remote_operational_restored /\ NothingToStart("cleanup")
       \/ ~remote_operational_restored /\ (StartConfirmed("cleanup") \/ StartFailed)
    /\ UNCHANGED <<stack, wire, rx_count, last, foreign, host_error_active,
                   expected_host_error_count, reset_communication_issued,
                   snapshot, good, hindered>>

-----------------------------------------------------------------------------
(* cleanupEmcyConsumerValidation().                                        *)

CleanupErrors ==
    /\ sub = "cleanup"
    /\ Goto(IF host_error_active THEN "cleanDepth" ELSE "cleanStart")
    /\ UNCHANGED <<env, state, snapshot, good, hindered>>

CleanupStart ==
    /\ sub = "cleanStart"
    /\ \/ /\ ~reset_communication_issued \/ remote_operational_restored
          /\ NothingToStart("done")
       \/ /\ reset_communication_issued /\ ~remote_operational_restored
          /\ StartConfirmed("done") \/ StartFailed
    /\ UNCHANGED <<stack, wire, rx_count, last, foreign, host_error_active,
                   expected_host_error_count, reset_communication_issued,
                   snapshot, good, hindered>>

Done == sub = "done" /\ UNCHANGED vars

Next ==
    \/ HostFault \/ McuReceives \/ NodeEmcy
    \/ validateProducerPreflight \/ emitTestEmcy
    \/ CheckDepth \/ PeekTop \/ ClearStack
    \/ waitForNextRxCount \/ ReadCountBefore
    \/ ReadSource \/ ReadPayload \/ ReadCountAfter
    \/ validateSdoHealth \/ SdoFails
    \/ IssueReset \/ WaitBoot \/ FinalStart
    \/ CleanupErrors \/ CleanupStart
    \/ Done

Spec == Init /\ [][Next]_vars

-----------------------------------------------------------------------------
(* Properties.                                                             *)

Subs == {"preflight", "push", "depth", "peek", "clear", "poll", "count",
         "fields", "payload", "countAgain", "health", "reset", "boot",
         "start", "cleanup", "cleanDepth", "cleanPeek", "cleanClear",
         "cleanStart", "done"}

\* Type correctness; the process never owns more than two Host errors.
TypeOK ==
    /\ stack \in Seq(Own \cup {"F"}) /\ wire \in Seq(Messages \ {"N"})
    /\ rx_count \in 0..(CountRange - 1) /\ last \in Messages
    /\ operational \in BOOLEAN
    /\ foreign \in 0..MaxForeign
    /\ pos \in 1..Len(Script) /\ sub \in Subs
    /\ host_error_active \in BOOLEAN
    /\ expected_host_error_count \in 0..2
    /\ reset_communication_issued \in BOOLEAN
    /\ remote_operational_restored \in BOOLEAN
    /\ current \in [rx_count : 0..(CountRange - 1),
                    source_node_id : {"host", "node"},
                    error_code : Own \cup {"0", "F"}]
    /\ before \in 0..(CountRange - 1)
    /\ source \in {"host", "node"} /\ code \in Own \cup {"0", "F"}
    /\ attempt \in 0..(Retries - 1)
    /\ result \in {0, 1}
    /\ good \in -1..Len(Expected)
    /\ hindered \in BOOLEAN

\* A pass is proof of delivery: between the baseline and the last snapshot
\* the MCU saw exactly the messages of the test, in order, none lost, none
\* doubled and none of another party, although every snapshot was put
\* together from separate reads and the counter may wrap.
PassMeansDelivered == (sub = "done" /\ result = 0) => good = Len(Expected)

\* A pass leaves the Host without test errors and the MCU in Operational.
PassMeansRestored ==
    (sub = "done" /\ result = 0) =>
        operational /\ \A i \in 1..Len(stack) : stack[i] = "F"

\* Passed or failed, no test error stays on the Host stack, not even one of
\* a push that reported failure, unless another fault or a failing local
\* access stood in the way.
HostStackRestored == sub = "done" => hindered \/ stack = <<>>

\* The cleanup promise: an error that is not the test's own is never cleared.
OnlyOwnErrorsCleared ==
    [][\A i \in 1..Len(stack) : stack[i] = "F" => stack' # <<>>]_vars
=============================================================================
