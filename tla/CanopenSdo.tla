----------------------------- MODULE CanopenSdo -----------------------------
(***************************************************************************)
(* Blocking SDO calls over Lely's asynchronous client (canopen_sdo.h).     *)
(*                                                                         *)
(* A call allocates its own ReadState/WriteState, submits the request with *)
(* a completion callback that owns a share of that state, and blocks in    *)
(* wait_for() for the protocol timeout plus a margin.  The request outlives*)
(* a caller that gave up; its callback then completes a state nobody reads.*)
(* The block variants have the same control flow.                          *)
(*                                                                         *)
(* Lely's Client-SDO queue, the bus and the server are external: one       *)
(* request of a node is active at a time, in submission order; the request *)
(* or the answer may be lost; the server serves or aborts; an answer is    *)
(* matched with its own request; a request Lely timed out is aborted and   *)
(* not served afterwards.                                                  *)
(***************************************************************************)
EXTENDS Integers, Sequences

CONSTANTS Objects,   \* object dictionary entries of the remote node
          Values,    \* their values
          MaxCalls   \* bound: calls in one behaviour

ASSUME SdoAssumption == Objects # {} /\ Values # {} /\ MaxCalls \in Nat

VARIABLES
    remote,   \* external: the remote object dictionary
    req,      \* external: the requests in submission order
    state,    \* the shared ReadState/WriteState of each request
    pc,       \* caller: idle or waiting (for the newest request)
    reply,    \* class and value of the last return
    unknown,  \* history: some call returned WAIT_TIMEOUT
    late      \* history: the requests whose abandoned writes the server may
              \* still execute, oldest first

vars == <<remote, req, state, pc, reply, unknown, late>>

Errors == {"ok", "timeout", "abort"}

Request == [op : {"read", "write"}, object : Objects, value : Values,
            stage : {"queued", "sent", "served", "aborted", "finished",
                     "dispatched"},
            error  : Errors,   \* how Lely finished it
            served : BOOLEAN,  \* the server executed it
            found  : Values]   \* history: the entry's value when it was served

SharedState == [completed : BOOLEAN, error : Errors, value : Values]

Reply == [class : {"SUCCESS", "FAILED", "SDO_TIMEOUT", "WAIT_TIMEOUT"},
          value : Values]

Init ==
    /\ remote \in [Objects -> Values]
    /\ req = <<>>
    /\ state = <<>>
    /\ pc = "idle"
    /\ \E v \in Values : reply = [class |-> "SUCCESS", value |-> v]
    /\ unknown = FALSE
    /\ late = <<>>

-----------------------------------------------------------------------------
(* External: Lely's client, the bus and the server.                        *)

\* The history of a request that is no longer queued or under way.
Settle(k) == late' = IF late # <<>> /\ Head(late) = k THEN Tail(late) ELSE late

\* Lely starts a request when every earlier one is finished.
LelySends(k) ==
    /\ req[k].stage = "queued"
    /\ \A j \in 1..(k - 1) : req[j].stage \in {"finished", "dispatched"}
    /\ req' = [req EXCEPT ![k].stage = "sent"]
    /\ UNCHANGED <<remote, state, pc, reply, unknown, late>>

ServerServes(k) ==
    /\ req[k].stage = "sent"
    /\ req' = [req EXCEPT ![k].stage = "served", ![k].served = TRUE,
                          ![k].found = remote[req[k].object]]
    /\ remote' = IF req[k].op = "write"
                 THEN [remote EXCEPT ![req[k].object] = req[k].value]
                 ELSE remote
    /\ Settle(k)
    /\ UNCHANGED <<state, pc, reply, unknown>>

ServerAborts(k) ==
    /\ req[k].stage = "sent"
    /\ req' = [req EXCEPT ![k].stage = "aborted"]
    /\ Settle(k)
    /\ UNCHANGED <<remote, state, pc, reply, unknown>>

\* Lely gets the answer, or its protocol timeout strikes because the request
\* or the answer was lost, and posts the completion to the event loop.
LelyFinishes(k, e) ==
    /\ \/ req[k].stage = "served" /\ e = "ok"
       \/ req[k].stage = "aborted" /\ e = "abort"
       \/ req[k].stage \in {"sent", "served", "aborted"} /\ e = "timeout"
    /\ req' = [req EXCEPT ![k].stage = "finished", ![k].error = e]
    /\ Settle(k)
    /\ UNCHANGED <<remote, state, pc, reply, unknown>>

-----------------------------------------------------------------------------
(* Event-loop thread: the completion callback.                             *)

\* Mutant: one state is shared by all calls, so a late completion is taken for
\* the completion of the call that waits now.
CompletesCurrentCall(k) ==
    /\ req[k].stage = "finished"
    /\ req' = [req EXCEPT ![k].stage = "dispatched"]
    /\ state' = [state EXCEPT ![Len(state)] =
                    [completed |-> TRUE, error |-> req[k].error,
                     value |-> req[k].found]]
    /\ UNCHANGED <<remote, pc, reply, unknown, late>>

\* The callback publishes into the state it owns a share of.
CompletionCallback(k) ==
    /\ req[k].stage = "finished"
    /\ req' = [req EXCEPT ![k].stage = "dispatched"]
    /\ state' = [state EXCEPT ![k] =
                    [completed |-> TRUE, error |-> req[k].error,
                     value |-> req[k].found]]
    /\ UNCHANGED <<remote, pc, reply, unknown, late>>

-----------------------------------------------------------------------------
(* Process thread.                                                         *)

\* SubmitRead()/SubmitWrite() accepts the request; the caller blocks.
Submit(op, o, v) ==
    /\ pc = "idle"
    /\ Len(req) < MaxCalls
    /\ req' = Append(req, [op |-> op, object |-> o, value |-> v,
                           stage |-> "queued", error |-> "ok",
                           served |-> FALSE, found |-> v])
    /\ state' = Append(state, [completed |-> FALSE, error |-> "ok", value |-> v])
    /\ pc' = "waiting"
    /\ UNCHANGED <<remote, reply, unknown, late>>

\* Mutant: a failed submission leaves its shared state behind.
SubmitFailsLeaksState ==
    /\ pc = "idle"
    /\ reply' = [reply EXCEPT !.class = "FAILED"]
    /\ state' = Append(state, [completed |-> FALSE, error |-> "ok",
                               value |-> reply.value])
    /\ UNCHANGED <<remote, req, pc, unknown, late>>

\* The submission itself fails.
SubmitFails ==
    /\ pc = "idle"
    /\ reply' = [reply EXCEPT !.class = "FAILED"]
    /\ UNCHANGED <<remote, req, state, pc, unknown, late>>

current == Len(req)

\* The classification of a completed request.
ClassOf(error) ==
    CASE error = "ok"      -> "SUCCESS"
      [] error = "timeout" -> "SDO_TIMEOUT"
      [] error = "abort"   -> "FAILED"

\* The wait ends because the callback ran; a read copies its value only on
\* SUCCESS.
WaitCompletes ==
    /\ pc = "waiting"
    /\ state[current].completed
    /\ LET class == ClassOf(state[current].error)
       IN  reply' = [class |-> class,
                     value |-> IF class = "SUCCESS" /\ req[current].op = "read"
                               THEN state[current].value ELSE reply.value]
    /\ pc' = "idle"
    /\ UNCHANGED <<remote, req, state, unknown, late>>

\* A write the server may still execute.
Pending(k) == req[k].op = "write" /\ req[k].stage \in {"queued", "sent"}

\* The history of the wait for the newest request given up.
Abandon == late' = IF Pending(current) THEN Append(late, current) ELSE late

\* Mutant: an expired wait is reported like a protocol timeout.
WaitExpiresAsProtocolTimeout ==
    /\ pc = "waiting"
    /\ ~state[current].completed
    /\ reply' = [reply EXCEPT !.class = "SDO_TIMEOUT"]
    /\ pc' = "idle"
    /\ Abandon
    /\ UNCHANGED <<remote, req, state, unknown>>

\* sdo_timeout + completion_margin passed without a completion.
WaitExpires ==
    /\ pc = "waiting"
    /\ ~state[current].completed
    /\ reply' = [reply EXCEPT !.class = "WAIT_TIMEOUT"]
    /\ unknown' = TRUE
    /\ pc' = "idle"
    /\ Abandon
    /\ UNCHANGED <<remote, req, state>>

Next ==
    \/ \E k \in 1..Len(req) :
          \/ LelySends(k) \/ ServerServes(k) \/ ServerAborts(k)
          \/ \E e \in Errors : LelyFinishes(k, e)
          \/ CompletionCallback(k)
    \/ \E o \in Objects :
          \/ Submit("read", o, reply.value)
          \/ \E v \in Values : Submit("write", o, v)
    \/ SubmitFails
    \/ WaitCompletes
    \/ WaitExpires

Spec == Init /\ [][Next]_vars

-----------------------------------------------------------------------------
(* Properties.                                                             *)

\* Type correctness.
TypeOK ==
    /\ remote \in [Objects -> Values]
    /\ req \in Seq(Request)
    /\ state \in Seq(SharedState)
    /\ Len(state) = Len(req)
    /\ pc \in {"idle", "waiting"}
    /\ reply \in Reply
    /\ unknown \in BOOLEAN
    /\ late \in Seq(1..Len(req))

\* The channel state is known after every class but WAIT_TIMEOUT (comment of
\* SdoOperationResult): as long as no call gave up waiting, the remote object
\* dictionary never changes between two calls.
QuietBetweenCalls ==
    [][(pc = "idle" /\ ~unknown) => UNCHANGED remote]_vars

\* The object and value of each abandoned write that may still happen.
Late == [j \in 1..Len(late) |-> <<req[late[j]].object, req[late[j]].value>>]

\* The effect of a call counts from its return.
RemoteAtReturn ==
    IF pc = "waiting" /\ req[current].op = "write" /\ req[current].served
    THEN [remote EXCEPT ![req[current].object] = req[current].found]
    ELSE remote

Service == INSTANCE SdoService WITH
               remote <- RemoteAtReturn, late <- Late, reply <- reply

\* The blocking calls, with their late completions, implement the service the
\* validation processes rely on: each answer class means what it promises.
ImplementsService == Service!SdoSpec
=============================================================================
