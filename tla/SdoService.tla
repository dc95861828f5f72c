----------------------------- MODULE SdoService -----------------------------
(***************************************************************************)
(* What readRemoteSdo() and writeRemoteSdo() (include/canopen_sdo.h)       *)
(* promise a validation process, each call taken as one step.              *)
(*                                                                         *)
(* SUCCESS      the transaction took place.                                *)
(* FAILED       it was not submitted, or the server aborted it: no effect. *)
(* SDO_TIMEOUT  Lely gave up: a write may or may not have taken effect,    *)
(*              but nothing is left under way.                             *)
(* WAIT_TIMEOUT the caller gave up: a write may have taken effect, may     *)
(*              take effect later (it is in late) or never.                *)
(* Requests are served in order, so a call can only get an answer from the *)
(* server when nothing earlier is left under way.                          *)
(***************************************************************************)
EXTENDS Integers, Sequences

CONSTANTS Objects,  \* object dictionary entries of the remote node
          Values    \* their values

VARIABLES remote,   \* external: the remote object dictionary
          late,     \* abandoned writes <<object, value>> that may still happen
          reply     \* class and value of the last call's answer

sdoVars == <<remote, late, reply>>

Classes == {"SUCCESS", "FAILED", "SDO_TIMEOUT", "WAIT_TIMEOUT"}

\* A call that delivers no value leaves the caller's variable as it was.
Answer(class, v) == reply' = [class |-> class, value |-> v]

Written(o, v) == [remote EXCEPT ![o] = v]

SdoInit(initial) ==
    /\ remote = initial
    /\ late = <<>>
    /\ \E v \in Values : reply = [class |-> "SUCCESS", value |-> v]

SdoRead(o) ==
    /\ \/ late = <<>> /\ Answer("SUCCESS", remote[o])
       \/ late = <<>> /\ Answer("SDO_TIMEOUT", reply.value)
       \/ Answer("FAILED", reply.value)
       \/ Answer("WAIT_TIMEOUT", reply.value)
    /\ UNCHANGED <<remote, late>>

SdoWrite(o, v) ==
    \/ /\ late = <<>>
       /\ Answer("SUCCESS", reply.value)
       /\ remote' = Written(o, v)
       /\ UNCHANGED late
    \/ /\ Answer("FAILED", reply.value)
       /\ UNCHANGED <<remote, late>>
    \/ /\ late = <<>>
       /\ Answer("SDO_TIMEOUT", reply.value)
       /\ remote' \in {remote, Written(o, v)}
       /\ UNCHANGED late
    \/ /\ late = <<>>
       /\ Answer("WAIT_TIMEOUT", reply.value)
       /\ remote' \in {remote, Written(o, v)}
       /\ UNCHANGED late
    \/ /\ Answer("WAIT_TIMEOUT", reply.value)
       /\ late' = Append(late, <<o, v>>)
       /\ UNCHANGED remote

\* The oldest abandoned write reaches the server after all.
LateWrite ==
    /\ late # <<>>
    /\ remote' = Written(Head(late)[1], Head(late)[2])
    /\ late' = Tail(late)
    /\ UNCHANGED reply

\* The oldest abandoned write is lost or aborted.
LateLoss ==
    /\ late # <<>>
    /\ late' = Tail(late)
    /\ UNCHANGED <<remote, reply>>

SdoNext ==
    \/ \E o \in Objects : SdoRead(o) \/ \E v \in Values : SdoWrite(o, v)
    \/ LateWrite
    \/ LateLoss

SdoSpec == (\E initial \in [Objects -> Values] : SdoInit(initial))
           /\ [][SdoNext]_sdoVars
=============================================================================
