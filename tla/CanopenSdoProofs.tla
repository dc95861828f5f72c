-------------------------- MODULE CanopenSdoProofs --------------------------
(***************************************************************************)
(* Proofs about CanopenSdo, for every set of objects and values and every  *)
(* number of calls: the remote object dictionary is quiet between calls    *)
(* until one gives up waiting, and the blocking calls implement SdoService.*)
(***************************************************************************)
EXTENDS CanopenSdo, TLAPS, SequenceTheorems

-----------------------------------------------------------------------------
(* The inductive invariant.                                                *)

\* Nobody waits for request k any more.
Abandoned(k) == k < Len(req) \/ pc = "idle"

\* Lely works on one request at a time, in the order of submission.
InOrder ==
    \A k \in 1..Len(req) :
      req[k].stage # "queued" =>
        \A j \in 1..(k - 1) : req[j].stage \in {"finished", "dispatched"}

\* What the server did, as far as Lely's result tells.
Effects ==
    \A k \in 1..Len(req) :
      /\ req[k].stage \in {"queued", "sent", "aborted"} => ~req[k].served
      /\ req[k].stage = "served" => req[k].served
      /\ req[k].stage \in {"finished", "dispatched"} =>
           /\ req[k].error = "ok" => req[k].served
           /\ req[k].error = "abort" => ~req[k].served

\* A shared state is completed by the callback of its own request only.
Published ==
    \A k \in 1..Len(req) :
      /\ state[k].completed <=> req[k].stage = "dispatched"
      /\ state[k].completed =>
           state[k].error = req[k].error /\ state[k].value = req[k].found

\* The history of abandoned writes: exactly the pending ones, in order.
Tracked ==
    /\ \A i, j \in 1..Len(late) : i < j => late[i] < late[j]
    /\ \A k \in 1..Len(req) :
         Pending(k) /\ Abandoned(k) <=> \E j \in 1..Len(late) : late[j] = k

\* Nothing else reaches the server between the request waited for and its
\* return.
Own ==
    pc = "waiting" =>
      /\ Len(req) > 0
      /\ req[Len(req)].served =>
           remote[req[Len(req)].object] =
             IF req[Len(req)].op = "write" THEN req[Len(req)].value
             ELSE req[Len(req)].found

\* As long as no call gave up, every earlier request is done with.
Settled ==
    ~unknown => \A k \in 1..Len(req) : Abandoned(k) => req[k].stage = "dispatched"

IInv ==
    TypeOK /\ InOrder /\ Effects /\ Published /\ Tracked /\ Own /\ Settled
-----------------------------------------------------------------------------
(* Lemmas.                                                                 *)

\* The fields of a request.
LEMMA RequestFields ==
    ASSUME TypeOK, NEW k \in 1..Len(req)
    PROVE  /\ req \in Seq(Request) /\ req[k] \in Request
           /\ req[k].op \in {"read", "write"}
           /\ req[k].object \in Objects /\ req[k].value \in Values
           /\ req[k].error \in Errors /\ req[k].found \in Values
           /\ req[k].served \in BOOLEAN
           /\ remote \in [Objects -> Values]
  <1>1. req \in Seq(Request) /\ req[k] \in Request
    BY DEF TypeOK
  <1> QED
    BY <1>1 DEF TypeOK, Request

\* Request k becomes r; the others stay as they are.
Becomes(k, r) ==
    /\ req' \in Seq(Request) /\ Len(req') = Len(req)
    /\ req'[k] = r
    /\ \A j \in 1..Len(req) : j # k => req'[j] = req[j]

\* ... which is what an EXCEPT on the requests does.
LEMMA ExceptBecomes ==
    ASSUME req \in Seq(Request), NEW k \in 1..Len(req), NEW r \in Request,
           req' = [req EXCEPT ![k] = r]
    PROVE  Becomes(k, r)
  BY ExceptSeq DEF Becomes

\* A request that is neither queued nor under way any more leaves the history
\* of abandoned writes, and it leaves it at the head.
LEMMA SettleKeeps ==
    ASSUME TypeOK, InOrder, Tracked, NEW k \in 1..Len(req), NEW r \in Request,
           Becomes(k, r), Settle(k), pc' = pc,
           req[k].stage # "queued", r.stage \notin {"queued", "sent"}
    PROVE  /\ late' \in Seq(1..Len(req'))
           /\ Tracked'
           /\ \/ /\ Pending(k) /\ Abandoned(k)
                 /\ late # <<>> /\ Head(late) = k /\ late' = Tail(late)
              \/ ~(Pending(k) /\ Abandoned(k)) /\ late' = late
  <1>1. late \in Seq(1..Len(req)) /\ Len(req) \in Nat /\ Len(late) \in Nat
    BY DEF TypeOK
  <1>2. /\ \A j \in 1..Len(req) : Abandoned(j)' <=> Abandoned(j)
        /\ \A j \in 1..Len(req) : j # k => (Pending(j)' <=> Pending(j))
        /\ ~Pending(k)'
    BY DEF Becomes, Abandoned, Pending
  <1>3. \A j \in 1..Len(late) : late[j] \in 1..Len(req)
    BY <1>1
  <1>4. CASE Pending(k) /\ Abandoned(k)
    <2>1. PICK n \in 1..Len(late) : late[n] = k
      BY <1>4 DEF Tracked
    <2>2. n = 1
      <3> SUFFICES ASSUME n > 1 PROVE FALSE
        BY <1>1, <2>1
      <3>1. 1 \in 1..Len(late) /\ late[1] < k /\ Pending(late[1])
        BY <1>1, <2>1 DEF Tracked
      <3>2. late[1] \in 1..(k - 1)
        BY <1>1, <1>3, <3>1
      <3> QED
        BY <3>1, <3>2 DEF InOrder, Pending
    <2>3. late # <<>> /\ Head(late) = k /\ late' = Tail(late)
      BY <1>1, <2>1, <2>2 DEF Settle
    <2>4. /\ late' \in Seq(1..Len(req)) /\ Len(late') = Len(late) - 1
          /\ \A i \in 1..Len(late') : late'[i] = late[i + 1]
      BY <1>1, <2>3, HeadTailProperties
    <2>5. ASSUME NEW i \in 1..Len(late')
          PROVE  /\ i + 1 \in 1..Len(late) /\ late'[i] = late[i + 1]
                 /\ late[i + 1] \in 1..Len(req) /\ late[i + 1] > k
      <3>1. i + 1 \in 1..Len(late) /\ 1 < i + 1 /\ late'[i] = late[i + 1]
        BY <1>1, <2>4
      <3>2. late[1] < late[i + 1] /\ late[1] = k
        BY <1>1, <2>1, <2>2, <3>1 DEF Tracked
      <3> QED
        BY <1>3, <3>1, <3>2
    <2>6. \A i, j \in 1..Len(late') : i < j => late'[i] < late'[j]
      <3> TAKE i, j \in 1..Len(late')
      <3>1. /\ i + 1 \in 1..Len(late) /\ late'[i] = late[i + 1]
            /\ j + 1 \in 1..Len(late) /\ late'[j] = late[j + 1]
        BY <2>5
      <3> QED
        BY <3>1 DEF Tracked
    <2>7. ASSUME NEW m \in 1..Len(req), NEW i \in 1..Len(late'), late'[i] = m
          PROVE  Pending(m)' /\ Abandoned(m)'
      <3>1. i + 1 \in 1..Len(late) /\ late[i + 1] = m /\ m # k
        BY <2>5, <2>7
      <3>2. Pending(m) /\ Abandoned(m)
        BY <3>1 DEF Tracked
      <3> QED
        BY <1>2, <3>1, <3>2
    <2>8. ASSUME NEW m \in 1..Len(req), Pending(m)', Abandoned(m)'
          PROVE  \E j \in 1..Len(late') : late'[j] = m
      <3>1. m # k /\ Pending(m) /\ Abandoned(m)
        BY <1>2, <2>8
      <3>2. PICK j \in 1..Len(late) : late[j] = m
        BY <3>1 DEF Tracked
      <3>3. j - 1 \in 1..Len(late') /\ late'[j - 1] = m
        <4>1. late[1] = k /\ Len(late) \in Nat
          BY <1>1, <2>1, <2>2
        <4>2. j # 1
          BY <3>1, <3>2, <4>1
        <4>3. j - 1 \in 1..Len(late') /\ (j - 1) + 1 = j
          BY <2>4, <4>1, <4>2
        <4> QED
          BY <2>4, <3>2, <4>3
      <3> QED
        BY <3>3
    <2>9. Tracked'
      <3>1. Len(req') = Len(req)
        BY DEF Becomes
      <3> QED
        BY <2>6, <2>7, <2>8, <3>1 DEF Tracked
    <2> QED
      BY <1>4, <2>3, <2>4, <2>9 DEF Becomes
  <1>5. CASE ~(Pending(k) /\ Abandoned(k))
    <2>1. \A j \in 1..Len(late) : late[j] # k
      BY <1>5 DEF Tracked
    <2>2. late' = late
      BY <1>1, <2>1 DEF Settle
    <2>3. Tracked'
      <3>1. Len(req') = Len(req)
        BY DEF Becomes
      <3>2. \A m \in 1..Len(req) :
              Pending(m)' /\ Abandoned(m)' <=> Pending(m) /\ Abandoned(m)
        BY <1>2, <1>5
      <3> QED
        BY <2>2, <3>1, <3>2 DEF Tracked
    <2> QED
      BY <1>1, <1>5, <2>2, <2>3 DEF Becomes
  <1> QED
    BY <1>4, <1>5
-----------------------------------------------------------------------------
(* The initial states and the steps.                                       *)

\* Before the first call nothing is under way.
LEMMA InitIInv == Init => IInv
  <1> SUFFICES ASSUME Init PROVE IInv
    OBVIOUS
  <1>1. /\ req = <<>> /\ state = <<>> /\ late = <<>> /\ pc = "idle"
        /\ Len(req) = 0 /\ Len(late) = 0
    BY DEF Init
  <1>2. TypeOK
    <2>1. req \in Seq(Request)
      BY <1>1
    <2>2. state \in Seq(SharedState)
      BY <1>1
    <2>3. late \in Seq(1..Len(req))
      BY <1>1
    <2>4. reply \in Reply
      BY DEF Init, Reply
    <2> QED
      BY <1>1, <2>1, <2>2, <2>3, <2>4 DEF Init, TypeOK
  <1> QED
    BY <1>1, <1>2
    DEF Init, IInv, InOrder, Effects, Published, Tracked, Own, Settled

\* Lely starts the oldest request that is not finished.
LEMMA SendStep ==
    ASSUME IInv, NEW k \in 1..Len(req), LelySends(k)
    PROVE  IInv'
  <1> DEFINE r == [req[k] EXCEPT !.stage = "sent"]
  <1>1. TypeOK /\ req \in Seq(Request) /\ req[k] \in Request /\ r \in Request
    BY RequestFields DEF IInv, Request
  <1>2. Becomes(k, r)
    BY <1>1, ExceptBecomes DEF LelySends
  <1>3. /\ r.op = req[k].op /\ r.object = req[k].object /\ r.value = req[k].value
        /\ r.stage = "sent" /\ r.served = req[k].served /\ r.found = req[k].found
        /\ req[k].stage = "queued" /\ r.error = req[k].error
        /\ \A j \in 1..(k - 1) : req[j].stage \in {"finished", "dispatched"}
        /\ UNCHANGED <<remote, state, pc, reply, unknown, late>>
    BY <1>1 DEF LelySends, Request
  <1> HIDE DEF r
  <1>4. TypeOK'
    BY <1>1, <1>2, <1>3 DEF TypeOK, Becomes
  <1>5. InOrder'
    BY <1>1, <1>2, <1>3 DEF IInv, InOrder, Becomes
  <1>6. Effects'
    BY <1>2, <1>3 DEF IInv, Effects, Becomes
  <1>7. Published'
    BY <1>2, <1>3 DEF IInv, Published, Becomes
  <1>8. Tracked'
    BY <1>2, <1>3 DEF IInv, Tracked, Becomes, Pending, Abandoned
  <1>9. Own'
    BY <1>2, <1>3 DEF IInv, Own, Becomes
  <1>10. Settled'
    BY <1>2, <1>3 DEF IInv, Settled, Becomes, Abandoned
  <1> QED
    BY <1>4, <1>5, <1>6, <1>7, <1>8, <1>9, <1>10 DEF IInv

\* The server executes the request on the bus.
LEMMA ServeStep ==
    ASSUME IInv, NEW k \in 1..Len(req), ServerServes(k)
    PROVE  IInv'
  <1> DEFINE r == [req[k] EXCEPT !.stage = "served", !.served = TRUE,
                                 !.found = remote[req[k].object]]
  <1>1. /\ TypeOK /\ InOrder /\ Tracked /\ req \in Seq(Request)
        /\ req[k] \in Request /\ req[k].object \in Objects
        /\ req[k].value \in Values /\ remote \in [Objects -> Values]
    BY RequestFields DEF IInv
  <1>2. r \in Request
    BY <1>1 DEF Request
  <1>3. Becomes(k, r)
    <2>1. req' = [req EXCEPT ![k] = r]
      BY <1>1 DEF ServerServes
    <2> QED
      BY <1>1, <1>2, <2>1, ExceptBecomes
  <1>4. /\ r.op = req[k].op /\ r.object = req[k].object /\ r.value = req[k].value
        /\ r.stage = "served" /\ r.served = TRUE
        /\ r.found = remote[req[k].object]
        /\ req[k].stage = "sent"
        /\ remote' = IF req[k].op = "write"
                     THEN [remote EXCEPT ![req[k].object] = req[k].value]
                     ELSE remote
        /\ Settle(k)
        /\ UNCHANGED <<state, pc, reply, unknown>>
    BY <1>1 DEF ServerServes, Request
  <1> HIDE DEF r
  <1>5. late' \in Seq(1..Len(req')) /\ Tracked'
    BY <1>1, <1>2, <1>3, <1>4, SettleKeeps
  <1>6. TypeOK'
    BY <1>1, <1>3, <1>4, <1>5 DEF TypeOK, Becomes
  <1>7. InOrder'
    BY <1>3, <1>4 DEF IInv, InOrder, Becomes
  <1>8. Effects'
    BY <1>3, <1>4 DEF IInv, Effects, Becomes
  <1>9. Published'
    BY <1>3, <1>4 DEF IInv, Published, Becomes
  <1>10. Own'
    <2> SUFFICES ASSUME pc = "waiting"
                 PROVE  Own'
      BY <1>4 DEF Own
    <2>1. Len(req) > 0 /\ Len(req) \in 1..Len(req) /\ Len(req') = Len(req)
      BY <1>3 DEF IInv, Own, Becomes
    <2>2. CASE k = Len(req)
      BY <1>1, <1>3, <1>4, <2>1, <2>2 DEF Own, Becomes
    <2>3. CASE k # Len(req)
      <3>1. k \in 1..(Len(req) - 1)
        BY <2>1, <2>3
      <3>2. req[Len(req)].stage = "queued"
        BY <1>4, <2>1, <3>1 DEF IInv, InOrder
      <3>3. ~req'[Len(req)].served
        BY <1>3, <2>1, <2>3, <3>2 DEF IInv, Effects, Becomes
      <3> QED
        BY <2>1, <3>3 DEF Own
    <2> QED
      BY <2>2, <2>3
  <1>11. Settled'
    BY <1>3, <1>4 DEF IInv, Settled, Becomes, Abandoned
  <1> QED
    BY <1>5, <1>6, <1>7, <1>8, <1>9, <1>10, <1>11 DEF IInv

\* The server refuses the request on the bus.
LEMMA AbortStep ==
    ASSUME IInv, NEW k \in 1..Len(req), ServerAborts(k)
    PROVE  IInv'
  <1> DEFINE r == [req[k] EXCEPT !.stage = "aborted"]
  <1>1. /\ TypeOK /\ InOrder /\ Tracked /\ req \in Seq(Request)
        /\ req[k] \in Request /\ r \in Request
    BY RequestFields DEF IInv, Request
  <1>2. Becomes(k, r)
    BY <1>1, ExceptBecomes DEF ServerAborts
  <1>3. /\ r.op = req[k].op /\ r.object = req[k].object /\ r.value = req[k].value
        /\ r.stage = "aborted" /\ r.served = req[k].served
        /\ r.found = req[k].found /\ req[k].stage = "sent" /\ Settle(k)
        /\ UNCHANGED <<remote, state, pc, reply, unknown>>
    BY <1>1 DEF ServerAborts, Request
  <1> HIDE DEF r
  <1>4. late' \in Seq(1..Len(req')) /\ Tracked'
    BY <1>1, <1>2, <1>3, SettleKeeps
  <1>5. TypeOK'
    BY <1>1, <1>2, <1>3, <1>4 DEF TypeOK, Becomes
  <1>6. InOrder'
    BY <1>2, <1>3 DEF IInv, InOrder, Becomes
  <1>7. Effects' /\ Published'
    BY <1>2, <1>3 DEF IInv, Effects, Published, Becomes
  <1>8. Own'
    BY <1>2, <1>3 DEF IInv, Own, Becomes
  <1>9. Settled'
    BY <1>2, <1>3 DEF IInv, Settled, Becomes, Abandoned
  <1> QED
    BY <1>4, <1>5, <1>6, <1>7, <1>8, <1>9 DEF IInv

\* Lely finishes the request on the bus: answered, aborted or timed out.
LEMMA FinishStep ==
    ASSUME IInv, NEW k \in 1..Len(req), NEW e \in Errors, LelyFinishes(k, e)
    PROVE  IInv'
  <1> DEFINE r == [req[k] EXCEPT !.stage = "finished", !.error = e]
  <1>1. /\ TypeOK /\ InOrder /\ Tracked /\ req \in Seq(Request)
        /\ req[k] \in Request /\ r \in Request
    BY RequestFields DEF IInv, Request
  <1>2. Becomes(k, r)
    <2>1. req' = [req EXCEPT ![k] = r]
      BY <1>1 DEF LelyFinishes
    <2> QED
      BY <1>1, <2>1, ExceptBecomes
  <1>3. /\ r.op = req[k].op /\ r.object = req[k].object /\ r.value = req[k].value
        /\ r.stage = "finished" /\ r.error = e
        /\ r.served = req[k].served /\ r.found = req[k].found
        /\ \/ req[k].stage = "served" /\ e = "ok"
           \/ req[k].stage = "aborted" /\ e = "abort"
           \/ req[k].stage \in {"sent", "served", "aborted"} /\ e = "timeout"
        /\ Settle(k)
        /\ UNCHANGED <<remote, state, pc, reply, unknown>>
    BY <1>1 DEF LelyFinishes, Request
  <1> HIDE DEF r
  <1>4. late' \in Seq(1..Len(req')) /\ Tracked'
    BY <1>1, <1>2, <1>3, SettleKeeps
  <1>5. TypeOK'
    BY <1>1, <1>2, <1>3, <1>4 DEF TypeOK, Becomes
  <1>6. InOrder'
    BY <1>2, <1>3 DEF IInv, InOrder, Becomes
  <1>7. Effects' /\ Published'
    BY <1>2, <1>3 DEF IInv, Effects, Published, Becomes
  <1>8. Own'
    BY <1>2, <1>3 DEF IInv, Own, Becomes
  <1>9. Settled'
    BY <1>2, <1>3 DEF IInv, Settled, Becomes, Abandoned
  <1> QED
    BY <1>4, <1>5, <1>6, <1>7, <1>8, <1>9 DEF IInv

\* The callback completes the state of its own request.
LEMMA CallbackStep ==
    ASSUME IInv, NEW k \in 1..Len(req), CompletionCallback(k)
    PROVE  IInv'
  <1> DEFINE r == [req[k] EXCEPT !.stage = "dispatched"]
             d == [completed |-> TRUE, error |-> req[k].error,
                   value |-> req[k].found]
  <1>1. /\ TypeOK /\ req \in Seq(Request) /\ req[k] \in Request
        /\ r \in Request /\ d \in SharedState /\ state \in Seq(SharedState)
        /\ Len(state) = Len(req)
    BY RequestFields DEF IInv, TypeOK, Request, SharedState
  <1>2. Becomes(k, r)
    BY <1>1, ExceptBecomes DEF CompletionCallback
  <1>3. /\ r.op = req[k].op /\ r.object = req[k].object /\ r.value = req[k].value
        /\ r.stage = "dispatched" /\ r.error = req[k].error
        /\ r.served = req[k].served /\ r.found = req[k].found
        /\ req[k].stage = "finished"
        /\ UNCHANGED <<remote, pc, reply, unknown, late>>
    BY <1>1 DEF CompletionCallback, Request
  <1>4. /\ state' \in Seq(SharedState) /\ Len(state') = Len(req)
        /\ state'[k] = d
        /\ \A j \in 1..Len(req) : j # k => state'[j] = state[j]
    <2>1. state' = [state EXCEPT ![k] = d]
      BY DEF CompletionCallback
    <2> HIDE DEF d
    <2> QED
      BY <1>1, <2>1, ExceptSeq
  <1> HIDE DEF r
  <1>5. TypeOK'
    BY <1>1, <1>2, <1>3, <1>4 DEF TypeOK, Becomes
  <1>6. InOrder' /\ Effects'
    BY <1>2, <1>3 DEF IInv, InOrder, Effects, Becomes
  <1>7. Published'
    BY <1>2, <1>3, <1>4 DEF IInv, Published, Becomes
  <1>8. Tracked'
    BY <1>2, <1>3 DEF IInv, Tracked, Becomes, Pending, Abandoned
  <1>9. Own' /\ Settled'
    BY <1>2, <1>3 DEF IInv, Own, Settled, Becomes, Abandoned
  <1> QED
    BY <1>5, <1>6, <1>7, <1>8, <1>9 DEF IInv

\* A new request queues up behind everything that is still under way.
LEMMA SubmitStep ==
    ASSUME IInv, NEW op \in {"read", "write"}, NEW o \in Objects,
           NEW v \in Values, Submit(op, o, v)
    PROVE  IInv'
  <1> DEFINE r == [op |-> op, object |-> o, value |-> v, stage |-> "queued",
                   error |-> "ok", served |-> FALSE, found |-> v]
             d == [completed |-> FALSE, error |-> "ok", value |-> v]
             n == Len(req) + 1
  <1>1. /\ TypeOK /\ req \in Seq(Request) /\ r \in Request /\ d \in SharedState
        /\ state \in Seq(SharedState) /\ Len(state) = Len(req)
        /\ Len(req) \in Nat /\ late \in Seq(1..Len(req)) /\ Len(late) \in Nat
    BY DEF IInv, TypeOK, Request, SharedState, Errors
  <1>2. /\ req' = Append(req, r) /\ state' = Append(state, d)
        /\ pc = "idle" /\ pc' = "waiting"
        /\ UNCHANGED <<remote, reply, unknown, late>>
    BY DEF Submit
  <1>3. /\ r.stage = "queued" /\ r.served = FALSE /\ r.error = "ok"
        /\ d.completed = FALSE
    OBVIOUS
  <1> HIDE DEF r, d
  <1>4. /\ req' \in Seq(Request) /\ Len(req') = n /\ req'[n] = r
        /\ \A j \in 1..Len(req) : req'[j] = req[j]
        /\ state' \in Seq(SharedState) /\ Len(state') = n /\ state'[n] = d
        /\ \A j \in 1..Len(req) : state'[j] = state[j]
    BY <1>1, <1>2, AppendProperties
  <1>5. \A k \in 1..n : k \in 1..Len(req) \/ k = n
    BY <1>1
  <1>6. late' \in Seq(1..Len(req'))
    BY <1>1, <1>2, <1>4
  <1>7. TypeOK'
    BY <1>1, <1>2, <1>4, <1>6 DEF TypeOK
  <1>8. InOrder' /\ Effects' /\ Published'
    <2>1. ASSUME NEW k \in 1..n, req'[k].stage # "queued"
          PROVE  \A j \in 1..(k - 1) : req'[j].stage \in {"finished", "dispatched"}
      <3>1. k \in 1..Len(req) /\ req[k].stage # "queued"
        BY <1>3, <1>4, <1>5, <2>1
      <3>2. \A j \in 1..(k - 1) : j \in 1..Len(req)
        BY <1>1, <3>1
      <3> QED
        BY <1>4, <3>1, <3>2 DEF IInv, InOrder
    <2>2. Effects'
      BY <1>3, <1>4, <1>5 DEF IInv, Effects
    <2>3. Published'
      BY <1>3, <1>4, <1>5 DEF IInv, Published
    <2> QED
      BY <1>4, <2>1, <2>2, <2>3 DEF InOrder
  <1>9. Tracked'
    <2>1. \A k \in 1..Len(req) :
            Pending(k)' /\ Abandoned(k)' <=> Pending(k) /\ Abandoned(k)
      BY <1>1, <1>2, <1>4 DEF Pending, Abandoned
    <2>2. \A k \in {n} : ~Abandoned(k)' /\ \A j \in 1..Len(late) : late[j] # k
      BY <1>1, <1>2, <1>4 DEF Abandoned
    <2>3. \A k \in 1..n : Pending(k)' /\ Abandoned(k)' <=>
                            \E j \in 1..Len(late) : late[j] = k
      BY <1>5, <2>1, <2>2 DEF IInv, Tracked
    <2> HIDE DEF n
    <2> QED
      BY <1>2, <1>4, <2>3 DEF IInv, Tracked
  <1>10. Own' /\ Settled'
    BY <1>1, <1>2, <1>3, <1>4, <1>5 DEF IInv, Own, Settled, Abandoned
  <1> QED
    BY <1>7, <1>8, <1>9, <1>10 DEF IInv

\* The wait ends with the completion, or the submission failed: the requests
\* do not change, and a completed request is not pending.
LEMMA ReturnStep ==
    ASSUME IInv, UNCHANGED <<remote, req, state, unknown, late>>,
           reply' \in Reply, pc' = "idle",
           pc = "waiting" => state[Len(req)].completed
    PROVE  IInv'
  <1>1. TypeOK' /\ InOrder' /\ Effects' /\ Published' /\ Own'
    BY DEF IInv, TypeOK, InOrder, Effects, Published, Own
  <1>2. pc = "waiting" => req[Len(req)].stage = "dispatched"
    <2> SUFFICES ASSUME pc = "waiting" PROVE req[Len(req)].stage = "dispatched"
      OBVIOUS
    <2>1. Len(req) \in 1..Len(req)
      BY DEF IInv, Own, TypeOK
    <2> QED
      BY <2>1 DEF IInv, Published
  <1>3. \A k \in 1..Len(req) :
          Abandoned(k)' <=> Abandoned(k) \/ (k = Len(req) /\ pc = "waiting")
    BY DEF Abandoned, IInv, TypeOK
  <1>4. Tracked'
    <2>1. \A k \in 1..Len(req) :
            Pending(k)' /\ Abandoned(k)' <=> Pending(k) /\ Abandoned(k)
      BY <1>2, <1>3 DEF Pending
    <2> QED
      BY <2>1 DEF IInv, Tracked
  <1>5. Settled'
    BY <1>2, <1>3 DEF IInv, Settled
  <1> QED
    BY <1>1, <1>4, <1>5 DEF IInv

\* A submission that fails changes the answer only.
LEMMA SubmitFailsStep == IInv /\ SubmitFails => IInv'
  <1> SUFFICES ASSUME IInv, SubmitFails PROVE IInv'
    OBVIOUS
  <1>1. reply' \in Reply
    BY DEF IInv, TypeOK, Reply, SubmitFails
  <1> QED
    BY <1>1, ReturnStep DEF SubmitFails

\* The answer of a completed call.
LEMMA CompletedReply ==
    ASSUME IInv, WaitCompletes
    PROVE  reply' \in Reply
  <1>1. Len(req) \in 1..Len(req) /\ current = Len(req)
    BY DEF IInv, Own, TypeOK, WaitCompletes, current
  <1>2. state[current] \in SharedState /\ reply \in Reply
    BY <1>1 DEF IInv, TypeOK
  <1>3. /\ state[current].error \in Errors /\ state[current].value \in Values
        /\ reply.value \in Values
    BY <1>2 DEF SharedState, Reply
  <1>4. ClassOf(state[current].error) \in {"SUCCESS", "FAILED", "SDO_TIMEOUT"}
    BY <1>3 DEF ClassOf, Errors
  <1> QED
    BY <1>3, <1>4 DEF WaitCompletes, Reply

\* The wait ends because the callback ran.
LEMMA WaitCompletesStep == IInv /\ WaitCompletes => IInv'
  BY CompletedReply, ReturnStep DEF WaitCompletes, current

\* A caller that gives up leaves its request behind; a write that may still be
\* executed becomes the youngest abandoned one.
LEMMA WaitExpiresStep == IInv /\ WaitExpires => IInv'
  <1> SUFFICES ASSUME IInv, WaitExpires PROVE IInv'
    OBVIOUS
  <1> DEFINE n == Len(req)
  <1>1. /\ n \in 1..n /\ n \in Nat /\ current = n /\ pc = "waiting"
        /\ late \in Seq(1..n) /\ Len(late) \in Nat
        /\ \A j \in 1..Len(late) : late[j] \in 1..n
    BY DEF IInv, Own, TypeOK, WaitExpires, current
  <1>2. /\ pc' = "idle" /\ unknown' = TRUE /\ UNCHANGED <<remote, req, state>>
        /\ late' = IF Pending(n) THEN Append(late, n) ELSE late
    BY <1>1 DEF WaitExpires, Abandon
  <1>3. reply' \in Reply
    BY DEF IInv, TypeOK, Reply, WaitExpires
  <1>4. late' \in Seq(1..n)
    BY <1>1, <1>2, AppendProperties
  <1>5. TypeOK' /\ InOrder' /\ Effects' /\ Published' /\ Own' /\ Settled'
    BY <1>2, <1>3, <1>4
    DEF IInv, TypeOK, InOrder, Effects, Published, Own, Settled
  <1>6. \A k \in 1..n : Abandoned(k)' /\ (Abandoned(k) <=> k # n)
                        /\ (Pending(k)' <=> Pending(k))
    BY <1>1, <1>2 DEF Abandoned, Pending
  <1>7. \A j \in 1..Len(late) : late[j] < n
    BY <1>1, <1>6 DEF IInv, Tracked
  <1>8. Tracked'
    <2>1. CASE ~Pending(n)
      <3>1. \A k \in 1..n :
              Pending(k)' /\ Abandoned(k)' <=> Pending(k) /\ Abandoned(k)
        BY <1>6, <2>1
      <3> QED
        BY <1>2, <2>1, <3>1 DEF IInv, Tracked
    <2>2. CASE Pending(n)
      <3> DEFINE m == Len(late) + 1
      <3>1. /\ Len(late') = m /\ late'[m] = n
            /\ \A j \in 1..Len(late) : late'[j] = late[j]
        BY <1>1, <1>2, <2>2, AppendProperties
      <3>2. \A j \in 1..m : j \in 1..Len(late) \/ j = m
        BY <1>1
      <3>3. \A i, j \in 1..m : i < j => late'[i] < late'[j]
        <4> SUFFICES ASSUME NEW i \in 1..m, NEW j \in 1..m, i < j
                     PROVE  late'[i] < late'[j]
          OBVIOUS
        <4>1. i \in 1..Len(late)
          BY <1>1
        <4>2. CASE j = m
          BY <1>7, <3>1, <4>1, <4>2
        <4>3. CASE j \in 1..Len(late)
          BY <3>1, <4>1, <4>3 DEF IInv, Tracked
        <4> QED
          BY <3>2, <4>2, <4>3
      <3>4. ASSUME NEW k \in 1..n
            PROVE  Pending(k)' /\ Abandoned(k)' <=> \E j \in 1..m : late'[j] = k
        <4>1. CASE k = n
          BY <1>1, <1>6, <2>2, <3>1, <4>1
        <4>2. CASE k # n
          <5>1. Pending(k)' /\ Abandoned(k)' <=>
                  \E j \in 1..Len(late) : late[j] = k
            BY <1>6, <4>2 DEF IInv, Tracked
          <5>2. (\E j \in 1..m : late'[j] = k) <=>
                  \E j \in 1..Len(late) : late[j] = k
            <6>1. \A j \in 1..Len(late) : j \in 1..m
              BY <1>1
            <6>2. late'[m] # k
              BY <3>1, <4>2
            <6> HIDE DEF m
            <6> QED
              BY <3>1, <3>2, <6>1, <6>2
          <5> QED
            BY <5>1, <5>2
        <4> QED
          BY <4>1, <4>2
      <3> HIDE DEF m
      <3> QED
        BY <1>2, <3>1, <3>3, <3>4 DEF Tracked
    <2> QED
      BY <2>1, <2>2
  <1> QED
    BY <1>5, <1>8 DEF IInv

\* A step that changes nothing.
LEMMA Stutter == IInv /\ UNCHANGED vars => IInv'
  BY
  DEF vars, IInv, TypeOK, InOrder, Effects, Published, Tracked, Own, Settled,
         Pending, Abandoned

\* The invariant is inductive.
LEMMA NextIInv == IInv /\ [Next]_vars => IInv'
  <1> SUFFICES ASSUME IInv, [Next]_vars PROVE IInv'
    OBVIOUS
  <1>1. ASSUME NEW k \in 1..Len(req),
               \/ LelySends(k) \/ ServerServes(k) \/ ServerAborts(k)
               \/ \E e \in Errors : LelyFinishes(k, e)
               \/ CompletionCallback(k)
        PROVE  IInv'
    BY <1>1, SendStep, ServeStep, AbortStep, FinishStep, CallbackStep
  <1>2. ASSUME NEW o \in Objects,
               \/ Submit("read", o, reply.value)
               \/ \E v \in Values : Submit("write", o, v)
        PROVE  IInv'
    <2>1. reply.value \in Values
      BY DEF IInv, TypeOK, Reply
    <2> QED
      BY <1>2, <2>1, SubmitStep
  <1> QED
    BY <1>1, <1>2, SubmitFailsStep, WaitCompletesStep, WaitExpiresStep,
        Stutter
    DEF Next

\* ... so it holds in every reachable state.
LEMMA SdoInvariant == Spec => []IInv
  BY InitIInv, NextIInv, PTL DEF Spec

-----------------------------------------------------------------------------
(* The theorems.                                                           *)

\* Type correctness: every request has its own shared state.
THEOREM SdoTypeOK == Spec => []TypeOK
  <1>1. IInv => TypeOK
    BY DEF IInv
  <1> QED
    BY <1>1, SdoInvariant, PTL

\* As long as no call returned WAIT_TIMEOUT, nothing changes the remote
\* object dictionary between two calls.
THEOREM QuietUntilGivenUp == Spec => QuietBetweenCalls
  <1>1. IInv /\ [Next]_vars => [(pc = "idle" /\ ~unknown) => UNCHANGED remote]_vars
    <2> SUFFICES ASSUME IInv, Next, pc = "idle", ~unknown
                 PROVE  UNCHANGED remote
      OBVIOUS
    <2>1. \A k \in 1..Len(req) : ~ServerServes(k)
      BY DEF IInv, Settled, Abandoned, ServerServes
    <2> QED
      BY <2>1
      DEF Next, LelySends, ServerAborts, LelyFinishes, CompletionCallback,
          Submit, SubmitFails, WaitCompletes, WaitExpires
  <1> QED
    BY <1>1, SdoInvariant, PTL DEF Spec, QuietBetweenCalls

-----------------------------------------------------------------------------
(* The refinement.                                                         *)

\* The abandoned writes as the service sees them.
LateShape ==
    /\ Late \in Seq(Objects \X Values) /\ Len(Late) = Len(late)
    /\ \A j \in 1..Len(late) :
         /\ late[j] \in 1..Len(req)
         /\ Late[j] = <<req[late[j]].object, req[late[j]].value>>

\* ... a sequence of object and value, one for each request in the history.
LEMMA LateFacts == TypeOK => LateShape
  <1> SUFFICES ASSUME TypeOK PROVE LateShape
    OBVIOUS
  <1>1. /\ late \in Seq(1..Len(req)) /\ Len(late) \in Nat
        /\ \A j \in 1..Len(late) : late[j] \in 1..Len(req)
    BY DEF TypeOK
  <1>2. \A j \in 1..Len(late) :
          <<req[late[j]].object, req[late[j]].value>> \in Objects \X Values
    BY <1>1, RequestFields
  <1>3. Late \in [1..Len(late) -> Objects \X Values]
    BY <1>2 DEF Late
  <1>4. \A j \in 1..Len(late) :
          Late[j] = <<req[late[j]].object, req[late[j]].value>>
    BY DEF Late
  <1>5. Late \in Seq(Objects \X Values) /\ Len(Late) = Len(late)
    <2>1. DOMAIN Late = 1..Len(late)
      BY DEF Late
    <2> HIDE DEF Late
    <2> QED
      BY <1>1, <1>3, <2>1
  <1> QED
    BY <1>1, <1>4, <1>5 DEF LateShape

\* No request changes its object or its value.
SameTargets ==
    /\ Len(req') >= Len(req)
    /\ \A k \in 1..Len(req) :
         req'[k].object = req[k].object /\ req'[k].value = req[k].value

\* With the history, the abandoned writes stay.
LEMMA LateKept ==
    ASSUME TypeOK, TypeOK', SameTargets, late' = late
    PROVE  Late' = Late
  <1>1. LateShape /\ LateShape'
    BY LateFacts, PTL
  <1>2. \A j \in 1..Len(Late) : Late'[j] = Late[j]
    <2> TAKE j \in 1..Len(Late)
    <2>1. j \in 1..Len(late) /\ late[j] \in 1..Len(req)
      BY <1>1 DEF LateShape
    <2>2. Late'[j] = <<req'[late[j]].object, req'[late[j]].value>>
      BY <1>1, <2>1 DEF LateShape
    <2>3. Late[j] = <<req[late[j]].object, req[late[j]].value>>
      BY <1>1, <2>1 DEF LateShape
    <2> QED
      BY <2>1, <2>2, <2>3 DEF SameTargets
  <1> QED
    BY <1>1, <1>2, SeqEqual DEF LateShape

\* The head of the history is the oldest abandoned write.
LEMMA LateLeaves ==
    ASSUME TypeOK, TypeOK', SameTargets, late # <<>>, late' = Tail(late)
    PROVE  /\ Late # <<>> /\ Late' = Tail(Late)
           /\ Head(Late) = <<req[Head(late)].object, req[Head(late)].value>>
  <1>1. /\ LateShape /\ LateShape' /\ late \in Seq(1..Len(req))
        /\ Len(late) \in Nat /\ Len(late) > 0
    <2>1. LateShape /\ LateShape'
      BY LateFacts, PTL
    <2> QED
      BY <2>1 DEF TypeOK
  <1>2. /\ Len(late') = Len(late) - 1
        /\ \A j \in 1..Len(late') : late'[j] = late[j + 1]
    BY <1>1, HeadTailProperties
  <1>3. Late \in Seq(Objects \X Values) /\ Len(Late) = Len(late) /\ Late # <<>>
    BY <1>1 DEF LateShape
  <1>4. /\ Tail(Late) \in Seq(Objects \X Values) /\ Len(Tail(Late)) = Len(late')
        /\ \A j \in 1..Len(late') : Tail(Late)[j] = Late[j + 1]
    BY <1>1, <1>2, <1>3, HeadTailProperties
  <1>5. \A j \in 1..Len(late') : Late'[j] = Tail(Late)[j]
    <2> TAKE j \in 1..Len(late')
    <2>1. j + 1 \in 1..Len(late) /\ late'[j] = late[j + 1]
      BY <1>1, <1>2
    <2>2. Late'[j] = <<req'[late'[j]].object, req'[late'[j]].value>>
      BY <1>1 DEF LateShape
    <2>3. /\ Late[j + 1] = <<req[late[j + 1]].object, req[late[j + 1]].value>>
          /\ late[j + 1] \in 1..Len(req)
      BY <1>1, <2>1 DEF LateShape
    <2> QED
      BY <1>4, <2>1, <2>2, <2>3 DEF SameTargets
  <1>6. Late' = Tail(Late)
    <2>1. Late' \in Seq(Objects \X Values) /\ Len(Late') = Len(late')
      BY <1>1 DEF LateShape
    <2> QED
      BY <1>4, <1>5, <2>1, SeqEqual
  <1>7. 1 \in 1..Len(late) /\ Head(late) = late[1] /\ Head(Late) = Late[1]
    BY <1>1, <1>3
  <1> QED
    BY <1>1, <1>3, <1>6, <1>7 DEF LateShape

\* Requests are served in order: once Lely has started the request waited
\* for, nothing abandoned is left.
LEMMA NothingLate ==
    ASSUME IInv, pc = "waiting", req[Len(req)].stage # "queued"
    PROVE  late = <<>> /\ Late = <<>>
  <1>1. Len(req) \in 1..Len(req) /\ late \in Seq(1..Len(req)) /\ LateShape
    BY LateFacts DEF IInv, Own, TypeOK
  <1>2. late = <<>>
    <2> SUFFICES ASSUME late # <<>> PROVE FALSE
      OBVIOUS
    <2>1. 1 \in 1..Len(late) /\ late[1] \in 1..Len(req)
      BY <1>1
    <2>2. Pending(late[1]) /\ Abandoned(late[1])
      BY <2>1 DEF IInv, Tracked
    <2>3. late[1] \in 1..(Len(req) - 1)
      BY <2>1, <2>2 DEF Abandoned
    <2> QED
      BY <1>1, <2>2, <2>3 DEF IInv, InOrder, Pending
  <1> QED
    BY <1>1, <1>2 DEF LateShape

\* A step that leaves remote and the answers as they are, and serves nothing
\* for the caller that waits, leaves the visible object dictionary alone.
LEMMA RemoteKept ==
    ASSUME Len(req') = Len(req), pc' = pc, remote' = remote,
           pc = "waiting" =>
             /\ req'[Len(req)].op = req[Len(req)].op
             /\ req'[Len(req)].object = req[Len(req)].object
             /\ req'[Len(req)].found = req[Len(req)].found
             /\ req'[Len(req)].served = req[Len(req)].served
    PROVE  RemoteAtReturn' = RemoteAtReturn
  BY DEF RemoteAtReturn, current

\* Before the request waited for is served, everything is visible.
LEMMA RemoteVisible ==
    ASSUME pc = "waiting" => ~req[Len(req)].served
    PROVE  RemoteAtReturn = remote
  BY DEF RemoteAtReturn, current

\* Sending, completing: nothing the service shows.
LEMMA SendIsInvisible ==
    ASSUME IInv, IInv', NEW k \in 1..Len(req),
           LelySends(k) \/ CompletionCallback(k)
    PROVE  UNCHANGED Service!sdoVars
  <1>1. /\ TypeOK /\ TypeOK' /\ req \in Seq(Request) /\ req[k] \in Request
        /\ Len(req) \in Nat
    BY RequestFields DEF IInv
  <1>2. PICK g \in {"sent", "dispatched"} : req' = [req EXCEPT ![k].stage = g]
    BY DEF LelySends, CompletionCallback
  <1>3. /\ Len(req') = Len(req)
        /\ \A j \in 1..Len(req) :
             /\ req'[j].op = req[j].op /\ req'[j].object = req[j].object
             /\ req'[j].value = req[j].value /\ req'[j].found = req[j].found
             /\ req'[j].served = req[j].served
    <2>1. [req[k] EXCEPT !.stage = g] \in Request
      BY <1>1 DEF Request
    <2>2. Becomes(k, [req[k] EXCEPT !.stage = g])
      BY <1>1, <1>2, <2>1, ExceptBecomes
    <2> QED
      BY <1>1, <2>2 DEF Becomes, Request
  <1>4. UNCHANGED <<late, remote, pc, reply>>
    BY DEF LelySends, CompletionCallback
  <1>5. SameTargets
    BY <1>1, <1>3 DEF SameTargets
  <1>6. Late' = Late
    BY <1>1, <1>4, <1>5, LateKept
  <1>7. pc = "waiting" => Len(req) \in 1..Len(req)
    BY <1>1 DEF IInv, Own
  <1>8. RemoteAtReturn' = RemoteAtReturn
    BY <1>3, <1>4, <1>7, RemoteKept
  <1> QED
    BY <1>4, <1>6, <1>8 DEF Service!sdoVars

\* What serving, aborting and finishing have in common.
LEMMA SettlingRequest ==
    ASSUME IInv, IInv', NEW k \in 1..Len(req),
           \/ ServerServes(k) \/ ServerAborts(k)
           \/ \E e \in Errors : LelyFinishes(k, e)
    PROVE  /\ \E r \in Request :
                /\ Becomes(k, r) /\ r.op = req[k].op
                /\ r.object = req[k].object /\ r.value = req[k].value
                /\ r.stage \notin {"queued", "sent"}
                /\ ~ServerServes(k) =>
                     r.served = req[k].served /\ r.found = req[k].found
                /\ ServerServes(k) =>
                     r.served = TRUE /\ r.found = remote[req[k].object]
           /\ req[k].stage # "queued"
           /\ \/ /\ Pending(k) /\ Abandoned(k) /\ Late # <<>>
                 /\ Head(Late) = <<req[k].object, req[k].value>>
                 /\ Late' = Tail(Late)
              \/ ~(Pending(k) /\ Abandoned(k)) /\ Late' = Late
  <1>1. /\ TypeOK /\ TypeOK' /\ InOrder /\ Tracked /\ req \in Seq(Request)
        /\ req[k] \in Request /\ req[k].object \in Objects
        /\ remote \in [Objects -> Values] /\ Len(req) \in Nat
    BY RequestFields DEF IInv
  <1>2. Settle(k) /\ pc' = pc /\ req[k].stage # "queued"
    BY DEF ServerServes, ServerAborts, LelyFinishes
  <1>3. PICK r \in Request :
          /\ Becomes(k, r) /\ r.op = req[k].op
          /\ r.object = req[k].object /\ r.value = req[k].value
          /\ r.stage \notin {"queued", "sent"}
          /\ ~ServerServes(k) =>
               r.served = req[k].served /\ r.found = req[k].found
          /\ ServerServes(k) =>
               r.served = TRUE /\ r.found = remote[req[k].object]
    <2>1. CASE ServerServes(k)
      <3> DEFINE r == [req[k] EXCEPT !.stage = "served", !.served = TRUE,
                                     !.found = remote[req[k].object]]
      <3>1. r \in Request /\ req' = [req EXCEPT ![k] = r]
        BY <1>1, <2>1 DEF ServerServes, Request
      <3>2. Becomes(k, r)
        BY <1>1, <3>1, ExceptBecomes
      <3>3. /\ r.op = req[k].op /\ r.object = req[k].object
            /\ r.value = req[k].value /\ r.stage = "served"
            /\ r.served = TRUE /\ r.found = remote[req[k].object]
        BY <1>1 DEF Request
      <3> HIDE DEF r
      <3> QED
        BY <2>1, <3>1, <3>2, <3>3
    <2>2. CASE ServerAborts(k)
      <3> DEFINE r == [req[k] EXCEPT !.stage = "aborted"]
      <3>1. r \in Request /\ req' = [req EXCEPT ![k] = r]
        BY <1>1, <2>2 DEF ServerAborts, Request
      <3>2. Becomes(k, r)
        BY <1>1, <3>1, ExceptBecomes
      <3>3. /\ r.op = req[k].op /\ r.object = req[k].object
            /\ r.value = req[k].value /\ r.stage = "aborted"
            /\ r.served = req[k].served /\ r.found = req[k].found
        BY <1>1 DEF Request
      <3> HIDE DEF r
      <3>4. ~ServerServes(k)
        <4>1. req'[k].stage = "aborted"
          BY <3>2, <3>3 DEF Becomes
        <4>2. ServerServes(k) => req'[k].stage = "served"
          BY <1>1 DEF ServerServes
        <4> QED
          BY <4>1, <4>2
      <3> QED
        BY <3>1, <3>2, <3>3, <3>4
    <2>3. CASE \E e \in Errors : LelyFinishes(k, e)
      <3>1. PICK e \in Errors : LelyFinishes(k, e)
        BY <2>3
      <3> DEFINE r == [req[k] EXCEPT !.stage = "finished", !.error = e]
      <3>2. r \in Request /\ req' = [req EXCEPT ![k] = r]
        BY <1>1, <3>1 DEF LelyFinishes, Request
      <3>3. Becomes(k, r)
        BY <1>1, <3>2, ExceptBecomes
      <3>4. /\ r.op = req[k].op /\ r.object = req[k].object
            /\ r.value = req[k].value /\ r.stage = "finished"
            /\ r.served = req[k].served /\ r.found = req[k].found
        BY <1>1 DEF Request
      <3> HIDE DEF r
      <3>5. ~ServerServes(k)
        <4>1. req'[k].stage = "finished"
          BY <3>3, <3>4 DEF Becomes
        <4>2. ServerServes(k) => req'[k].stage = "served"
          BY <1>1 DEF ServerServes
        <4> QED
          BY <4>1, <4>2
      <3> QED
        BY <3>2, <3>3, <3>4, <3>5
    <2> QED
      BY <2>1, <2>2, <2>3
  <1>4. SameTargets
    BY <1>1, <1>3 DEF SameTargets, Becomes
  <1>5. \/ /\ Pending(k) /\ Abandoned(k)
           /\ late # <<>> /\ Head(late) = k /\ late' = Tail(late)
        \/ ~(Pending(k) /\ Abandoned(k)) /\ late' = late
    BY <1>1, <1>2, <1>3, SettleKeeps
  <1>6. CASE late' = late /\ ~(Pending(k) /\ Abandoned(k))
    BY <1>1, <1>2, <1>3, <1>4, <1>6, LateKept
  <1>7. CASE /\ Pending(k) /\ Abandoned(k)
             /\ late # <<>> /\ Head(late) = k /\ late' = Tail(late)
    BY <1>1, <1>2, <1>3, <1>4, <1>7, LateLeaves
  <1> QED
    BY <1>5, <1>6, <1>7

\* Aborting and finishing lose an abandoned write, or show nothing.
LEMMA SettlingIsLoss ==
    ASSUME IInv, IInv', NEW k \in 1..Len(req),
           ServerAborts(k) \/ \E e \in Errors : LelyFinishes(k, e),
           ~ServerServes(k)
    PROVE  [Service!SdoNext]_Service!sdoVars
  <1>1. UNCHANGED <<remote, reply, pc>>
    BY DEF ServerAborts, LelyFinishes
  <1>2. PICK r \in Request :
          /\ Becomes(k, r) /\ r.op = req[k].op /\ r.object = req[k].object
          /\ r.served = req[k].served /\ r.found = req[k].found
    BY SettlingRequest
  <1>3. pc = "waiting" => Len(req) \in 1..Len(req)
    BY DEF IInv, Own, TypeOK
  <1>4. RemoteAtReturn' = RemoteAtReturn
    BY <1>1, <1>2, <1>3, RemoteKept DEF Becomes
  <1>5. \/ Late # <<>> /\ Late' = Tail(Late)
        \/ Late' = Late
    BY SettlingRequest
  <1> QED
    BY <1>1, <1>4, <1>5
    DEF Service!SdoNext, Service!LateLoss, Service!sdoVars

\* Serving the request waited for is hidden until the call returns; serving
\* an abandoned write is a late write.
LEMMA ServingIsLateWrite ==
    ASSUME IInv, IInv', NEW k \in 1..Len(req), ServerServes(k)
    PROVE  [Service!SdoNext]_Service!sdoVars
  <1>1. /\ UNCHANGED <<reply, pc>> /\ req[k].stage = "sent"
        /\ remote' = IF req[k].op = "write"
                     THEN [remote EXCEPT ![req[k].object] = req[k].value]
                     ELSE remote
    BY DEF ServerServes
  <1>2. /\ req[k].object \in Objects /\ req[k].value \in Values
        /\ req[k].op \in {"read", "write"}
        /\ remote \in [Objects -> Values] /\ Len(req) \in Nat
    BY RequestFields DEF IInv
  <1>3. PICK r \in Request :
          /\ Becomes(k, r) /\ r.op = req[k].op /\ r.object = req[k].object
          /\ r.served = TRUE /\ r.found = remote[req[k].object]
    BY SettlingRequest
  <1>4. ~req[k].served /\ \A j \in 1..Len(req) : j > k => ~req[j].served
    <2>1. ~req[k].served
      BY <1>1 DEF IInv, Effects
    <2>2. ASSUME NEW j \in 1..Len(req), j > k
          PROVE  ~req[j].served
      <3>1. k \in 1..(j - 1)
        BY <2>2
      <3>2. req[j].stage = "queued"
        BY <1>1, <3>1 DEF IInv, InOrder
      <3> QED
        BY <3>2 DEF IInv, Effects
    <2> QED
      BY <2>1, <2>2
  <1>5. RemoteAtReturn = remote
    <2>1. pc = "waiting" => Len(req) \in 1..Len(req) /\ Len(req) >= k
      BY <1>2 DEF IInv, Own
    <2> QED
      BY <1>2, <1>4, <2>1, RemoteVisible
  <1>6. CASE Abandoned(k)
    <2>1. RemoteAtReturn' = remote'
      <3>1. pc' = "waiting" => ~req'[Len(req')].served
        BY <1>1, <1>2, <1>3, <1>4, <1>6 DEF IInv, Own, Abandoned, Becomes
      <3> QED
        BY <3>1 DEF RemoteAtReturn, current
    <2>2. CASE req[k].op = "write"
      <3>1. /\ Late # <<>> /\ Head(Late) = <<req[k].object, req[k].value>>
            /\ Late' = Tail(Late)
        BY <1>1, <1>6, <2>2, SettlingRequest DEF Pending
      <3>2. /\ Head(Late)[1] = req[k].object /\ Head(Late)[2] = req[k].value
        BY <3>1
      <3>3. Service!LateWrite
        BY <1>1, <1>5, <2>1, <2>2, <3>1, <3>2
        DEF Service!LateWrite, Service!Written
      <3> QED
        BY <3>3 DEF Service!SdoNext
    <2>3. CASE req[k].op = "read"
      <3>1. Late' = Late
        BY <2>3, SettlingRequest DEF Pending
      <3> QED
        BY <1>1, <1>5, <2>1, <2>3, <3>1 DEF Service!sdoVars
    <2> QED
      BY <1>2, <2>2, <2>3
  <1>7. CASE ~Abandoned(k)
    <2>1. k = Len(req) /\ pc = "waiting"
      BY <1>2, <1>7 DEF Abandoned, IInv, TypeOK
    <2>2. Late' = Late
      BY <1>7, SettlingRequest
    <2>3. RemoteAtReturn' = remote
      <3>1. /\ req'[Len(req')].op = req[k].op /\ req'[Len(req')].served = TRUE
            /\ req'[Len(req')].object = req[k].object
            /\ req'[Len(req')].found = remote[req[k].object]
        BY <1>3, <2>1 DEF Becomes
      <3>2. CASE req[k].op = "write"
        <4>1. RemoteAtReturn' =
                [remote' EXCEPT ![req[k].object] = remote[req[k].object]]
          BY <1>1, <2>1, <3>1, <3>2 DEF RemoteAtReturn, current
        <4> QED
          BY <1>1, <1>2, <3>2, <4>1
      <3>3. CASE req[k].op = "read"
        BY <1>1, <2>1, <3>1, <3>3 DEF RemoteAtReturn, current
      <3> QED
        BY <1>2, <3>2, <3>3
    <2> QED
      BY <1>1, <1>5, <2>2, <2>3 DEF Service!sdoVars
  <1> QED
    BY <1>6, <1>7

\* A submission shows nothing until its call returns.
LEMMA SubmitIsInvisible ==
    ASSUME IInv, IInv', NEW op \in {"read", "write"}, NEW o \in Objects,
           NEW v \in Values, Submit(op, o, v)
    PROVE  UNCHANGED Service!sdoVars
  <1> DEFINE r == [op |-> op, object |-> o, value |-> v, stage |-> "queued",
                   error |-> "ok", served |-> FALSE, found |-> v]
  <1>1. /\ TypeOK /\ TypeOK' /\ req \in Seq(Request) /\ r \in Request
        /\ Len(req) \in Nat
    BY DEF IInv, TypeOK, Request, Errors
  <1>2. /\ req' = Append(req, r) /\ pc = "idle"
        /\ UNCHANGED <<remote, reply, late>>
    BY DEF Submit
  <1>3. r.served = FALSE
    OBVIOUS
  <1> HIDE DEF r
  <1>4. /\ Len(req') = Len(req) + 1 /\ req'[Len(req')] = r
        /\ \A j \in 1..Len(req) : req'[j] = req[j]
    BY <1>1, <1>2, AppendProperties
  <1>5. SameTargets
    BY <1>1, <1>4 DEF SameTargets
  <1>6. Late' = Late
    BY <1>1, <1>2, <1>5, LateKept
  <1>7. RemoteAtReturn' = RemoteAtReturn
    BY <1>2, <1>3, <1>4 DEF RemoteAtReturn, current
  <1> QED
    BY <1>2, <1>6, <1>7 DEF Service!sdoVars

\* A return that leaves the requests alone.
LEMMA ReturnKeepsLate ==
    ASSUME IInv, IInv', req' = req, late' = late
    PROVE  Late' = Late
  <1>1. TypeOK /\ TypeOK' /\ SameTargets
    BY DEF IInv, TypeOK, SameTargets
  <1> QED
    BY <1>1, LateKept

\* A failed submission answers FAILED.
LEMMA SubmitFailsIsFailure ==
    ASSUME IInv, IInv', SubmitFails
    PROVE  Service!SdoNext
  <1>1. PICK o \in Objects : TRUE
    BY SdoAssumption
  <1>2. /\ pc = "idle" /\ pc' = "idle" /\ UNCHANGED <<remote, req, late>>
        /\ reply' = [class |-> "FAILED", value |-> reply.value]
    BY DEF SubmitFails, IInv, TypeOK, Reply
  <1>3. Late' = Late /\ RemoteAtReturn' = RemoteAtReturn
    BY <1>2, ReturnKeepsLate DEF RemoteAtReturn
  <1>4. Service!SdoRead(o)
    BY <1>2, <1>3 DEF Service!SdoRead, Service!Answer
  <1> QED
    BY <1>4 DEF Service!SdoNext

\* The object dictionary the caller that waits will find at its return.
LEMMA RemoteAtTheReturn ==
    ASSUME IInv, pc = "waiting", pc' = "idle", remote' = remote
    PROVE  LET r == req[Len(req)]
           IN  /\ Len(req) \in 1..Len(req) /\ current = Len(req)
               /\ r.object \in Objects /\ r.value \in Values
               /\ r.op \in {"read", "write"}
               /\ RemoteAtReturn' = remote
               /\ ~r.served => RemoteAtReturn = remote
               /\ r.op = "read" => RemoteAtReturn = remote
               /\ r.op = "write" /\ r.served =>
                    remote = [RemoteAtReturn EXCEPT ![r.object] = r.value]
  <1> DEFINE n == Len(req)
  <1>1. n \in 1..n /\ current = n
    BY DEF IInv, Own, TypeOK, current
  <1>2. /\ req[n].object \in Objects /\ req[n].value \in Values
        /\ req[n].op \in {"read", "write"} /\ req[n].found \in Values
        /\ remote \in [Objects -> Values]
    BY <1>1, RequestFields DEF IInv
  <1>3. RemoteAtReturn' = remote
    BY DEF RemoteAtReturn
  <1>4. ~req[n].served \/ req[n].op = "read" => RemoteAtReturn = remote
    BY <1>1 DEF RemoteAtReturn
  <1>5. ASSUME req[n].op = "write", req[n].served
        PROVE  remote = [RemoteAtReturn EXCEPT ![req[n].object] = req[n].value]
    <2>1. RemoteAtReturn = [remote EXCEPT ![req[n].object] = req[n].found]
      BY <1>1, <1>5 DEF RemoteAtReturn
    <2>2. remote[req[n].object] = req[n].value
      BY <1>5 DEF IInv, Own
    <2> QED
      BY <1>2, <2>1, <2>2
  <1> QED
    BY <1>1, <1>2, <1>3, <1>4, <1>5

\* A completed call is the call the service describes.
LEMMA CompletionIsCall ==
    ASSUME IInv, IInv', WaitCompletes
    PROVE  Service!SdoNext
  <1> DEFINE n == Len(req)
             o == req[n].object
             v == req[n].value
             class == ClassOf(req[n].error)
  <1>1. /\ pc = "waiting" /\ pc' = "idle"
        /\ UNCHANGED <<remote, req, state, late>>
    BY DEF WaitCompletes
  <1>2. /\ n \in 1..n /\ current = n /\ o \in Objects /\ v \in Values
        /\ req[n].op \in {"read", "write"} /\ RemoteAtReturn' = remote
        /\ ~req[n].served => RemoteAtReturn = remote
        /\ req[n].op = "read" => RemoteAtReturn = remote
        /\ req[n].op = "write" /\ req[n].served =>
             remote = [RemoteAtReturn EXCEPT ![o] = v]
    BY <1>1, RemoteAtTheReturn
  <1>3. /\ req[n].stage = "dispatched" /\ state[n].completed
        /\ state[n].error = req[n].error /\ state[n].value = req[n].found
    BY <1>2 DEF WaitCompletes, IInv, Published
  <1>4. /\ Late = <<>> /\ Late' = <<>>
    BY <1>1, <1>3, NothingLate, ReturnKeepsLate
  <1>5. /\ req[n].error \in Errors
        /\ req[n].error = "ok" => req[n].served
        /\ req[n].error = "abort" => ~req[n].served
    BY <1>2, <1>3, RequestFields DEF IInv, Effects
  <1>6. reply' = [class |-> class,
                  value |-> IF class = "SUCCESS" /\ req[n].op = "read"
                            THEN req[n].found ELSE reply.value]
    BY <1>2, <1>3 DEF WaitCompletes
  <1>7. CASE req[n].op = "read"
    <2>1. RemoteAtReturn = remote /\ RemoteAtReturn' = remote
      BY <1>2, <1>7
    <2>2. CASE req[n].error = "ok"
      <3>1. remote[o] = req[n].found
        BY <1>1, <1>5, <1>7, <2>2 DEF IInv, Own
      <3>2. reply' = [class |-> "SUCCESS", value |-> RemoteAtReturn[o]]
        BY <1>6, <1>7, <2>1, <2>2, <3>1 DEF ClassOf
      <3>3. Service!SdoRead(o)
        BY <1>4, <2>1, <3>2 DEF Service!SdoRead, Service!Answer
      <3> QED
        BY <1>2, <3>3 DEF Service!SdoNext
    <2>3. CASE req[n].error = "timeout"
      <3>1. reply' = [class |-> "SDO_TIMEOUT", value |-> reply.value]
        BY <1>6, <2>3 DEF ClassOf
      <3>2. Service!SdoRead(o)
        BY <1>4, <2>1, <3>1 DEF Service!SdoRead, Service!Answer
      <3> QED
        BY <1>2, <3>2 DEF Service!SdoNext
    <2>4. CASE req[n].error = "abort"
      <3>1. reply' = [class |-> "FAILED", value |-> reply.value]
        BY <1>6, <2>4 DEF ClassOf
      <3>2. Service!SdoRead(o)
        BY <1>4, <2>1, <3>1 DEF Service!SdoRead, Service!Answer
      <3> QED
        BY <1>2, <3>2 DEF Service!SdoNext
    <2> QED
      BY <1>5, <2>2, <2>3, <2>4 DEF Errors
  <1>8. CASE req[n].op = "write"
    <2>1. CASE req[n].error = "ok"
      <3>1. /\ reply' = [class |-> "SUCCESS", value |-> reply.value]
            /\ RemoteAtReturn' = [RemoteAtReturn EXCEPT ![o] = v]
        BY <1>2, <1>5, <1>6, <1>8, <2>1 DEF ClassOf
      <3>2. Service!SdoWrite(o, v)
        BY <1>4, <3>1 DEF Service!SdoWrite, Service!Answer, Service!Written
      <3> QED
        BY <1>2, <3>2 DEF Service!SdoNext
    <2>2. CASE req[n].error = "timeout"
      <3>1. /\ reply' = [class |-> "SDO_TIMEOUT", value |-> reply.value]
            /\ RemoteAtReturn' \in
                 {RemoteAtReturn, [RemoteAtReturn EXCEPT ![o] = v]}
        BY <1>2, <1>6, <1>8, <2>2 DEF ClassOf
      <3>2. Service!SdoWrite(o, v)
        BY <1>4, <3>1 DEF Service!SdoWrite, Service!Answer, Service!Written
      <3> QED
        BY <1>2, <3>2 DEF Service!SdoNext
    <2>3. CASE req[n].error = "abort"
      <3>1. /\ reply' = [class |-> "FAILED", value |-> reply.value]
            /\ RemoteAtReturn' = RemoteAtReturn
        BY <1>2, <1>5, <1>6, <2>3 DEF ClassOf
      <3>2. Service!SdoWrite(o, v)
        BY <1>4, <3>1 DEF Service!SdoWrite, Service!Answer
      <3> QED
        BY <1>2, <3>2 DEF Service!SdoNext
    <2> QED
      BY <1>5, <2>1, <2>2, <2>3 DEF Errors
  <1> QED
    BY <1>2, <1>7, <1>8

\* A call given up is a WAIT_TIMEOUT of the service, whose write may have
\* happened, is lost, or is left behind.
LEMMA ExpiryIsCall ==
    ASSUME IInv, IInv', WaitExpires
    PROVE  Service!SdoNext
  <1> DEFINE n == Len(req)
             o == req[n].object
             v == req[n].value
  <1>1. /\ pc = "waiting" /\ pc' = "idle" /\ UNCHANGED <<remote, req, state>>
    BY DEF WaitExpires
  <1>2. /\ n \in 1..n /\ current = n /\ o \in Objects /\ v \in Values
        /\ req[n].op \in {"read", "write"} /\ RemoteAtReturn' = remote
        /\ ~req[n].served => RemoteAtReturn = remote
        /\ req[n].op = "read" => RemoteAtReturn = remote
        /\ req[n].op = "write" /\ req[n].served =>
             remote = [RemoteAtReturn EXCEPT ![o] = v]
    BY <1>1, RemoteAtTheReturn
  <1>3. /\ late' = IF Pending(n) THEN Append(late, n) ELSE late
        /\ reply' = [class |-> "WAIT_TIMEOUT", value |-> reply.value]
    BY <1>2 DEF WaitExpires, Abandon, IInv, TypeOK, Reply
  <1>4. CASE Pending(n)
    <2>1. ~req[n].served /\ req[n].op = "write"
      BY <1>2, <1>4 DEF IInv, Effects, Pending
    <2>2. Late' = Append(Late, <<o, v>>)
      <3>1. LateShape /\ LateShape' /\ late \in Seq(1..n) /\ Len(late) \in Nat
        <4>1. LateShape /\ LateShape'
          BY LateFacts, PTL DEF IInv
        <4> QED
          BY <4>1 DEF IInv, TypeOK
      <3> DEFINE m == Len(late) + 1
      <3>2. /\ Len(late') = m /\ late'[m] = n
            /\ \A j \in 1..Len(late) : late'[j] = late[j]
        BY <1>2, <1>3, <1>4, <3>1, AppendProperties
      <3>3. /\ Late \in Seq(Objects \X Values) /\ Len(Late) = Len(late)
            /\ Late' \in Seq(Objects \X Values) /\ Len(Late') = m
            /\ <<o, v>> \in Objects \X Values
        BY <1>2, <3>1, <3>2 DEF LateShape
      <3>4. /\ Append(Late, <<o, v>>) \in Seq(Objects \X Values)
            /\ Len(Append(Late, <<o, v>>)) = m
            /\ Append(Late, <<o, v>>)[m] = <<o, v>>
            /\ \A j \in 1..Len(late) : Append(Late, <<o, v>>)[j] = Late[j]
        BY <3>3, AppendProperties
      <3>5. \A j \in 1..m : Late'[j] = <<req[late'[j]].object, req[late'[j]].value>>
        BY <1>1, <3>1, <3>2 DEF LateShape
      <3>6. \A j \in 1..m : Late'[j] = Append(Late, <<o, v>>)[j]
        <4> TAKE j \in 1..m
        <4>1. CASE j = m
          BY <3>2, <3>4, <3>5, <4>1
        <4>2. CASE j # m
          <5>1. j \in 1..Len(late)
            BY <3>1, <4>2
          <5>2. Late[j] = <<req[late[j]].object, req[late[j]].value>>
            BY <3>1, <5>1 DEF LateShape
          <5> QED
            BY <3>2, <3>4, <3>5, <5>1, <5>2
        <4> QED
          BY <4>1, <4>2
      <3> QED
        BY <3>3, <3>4, <3>6, SeqEqual
    <2>3. Service!SdoWrite(o, v)
      BY <1>2, <1>3, <2>1, <2>2 DEF Service!SdoWrite, Service!Answer
    <2> QED
      BY <1>2, <2>3 DEF Service!SdoNext
  <1>5. CASE ~Pending(n)
    <2>1. Late' = Late
      BY <1>1, <1>3, <1>5, ReturnKeepsLate
    <2>2. CASE req[n].op = "read"
      <3>1. Service!SdoRead(o)
        BY <1>2, <1>3, <2>1, <2>2 DEF Service!SdoRead, Service!Answer
      <3> QED
        BY <1>2, <3>1 DEF Service!SdoNext
    <2>3. CASE req[n].op = "write"
      <3>1. Late = <<>>
        BY <1>1, <1>5, <2>3, NothingLate DEF Pending
      <3>2. RemoteAtReturn' \in {RemoteAtReturn, [RemoteAtReturn EXCEPT ![o] = v]}
        BY <1>2, <2>3
      <3>3. Service!SdoWrite(o, v)
        BY <1>3, <2>1, <3>1, <3>2
        DEF Service!SdoWrite, Service!Answer, Service!Written
      <3> QED
        BY <1>2, <3>3 DEF Service!SdoNext
    <2> QED
      BY <1>2, <2>2, <2>3
  <1> QED
    BY <1>4, <1>5

\* Every step is a step of the service or shows nothing.
LEMMA ServiceStep ==
    ASSUME IInv, IInv', [Next]_vars
    PROVE  [Service!SdoNext]_Service!sdoVars
  <1>1. ASSUME NEW k \in 1..Len(req),
               \/ LelySends(k) \/ ServerServes(k) \/ ServerAborts(k)
               \/ \E e \in Errors : LelyFinishes(k, e)
               \/ CompletionCallback(k)
        PROVE  [Service!SdoNext]_Service!sdoVars
    BY <1>1, SendIsInvisible, ServingIsLateWrite, SettlingIsLoss
  <1>2. ASSUME NEW o \in Objects,
               \/ Submit("read", o, reply.value)
               \/ \E v \in Values : Submit("write", o, v)
        PROVE  UNCHANGED Service!sdoVars
    <2>1. reply.value \in Values
      BY DEF IInv, TypeOK, Reply
    <2> QED
      BY <1>2, <2>1, SubmitIsInvisible
  <1>3. UNCHANGED vars => UNCHANGED Service!sdoVars
    BY DEF vars, Service!sdoVars, RemoteAtReturn, Late, current
  <1> QED
    BY <1>1, <1>2, <1>3, SubmitFailsIsFailure, CompletionIsCall, ExpiryIsCall
    DEF Next

\* The blocking calls implement the service the validation processes are
\* specified against: SUCCESS, FAILED, SDO_TIMEOUT and WAIT_TIMEOUT each mean
\* what SdoService says, whatever is lost, late or aborted.
THEOREM CallsImplementService == Spec => ImplementsService
  <1>1. Init => \E initial \in [Objects -> Values] : Service!SdoInit(initial)
    <2> SUFFICES ASSUME Init PROVE Service!SdoInit(remote)
      BY DEF Init
    <2>1. RemoteAtReturn = remote /\ Late = <<>>
      BY DEF Init, RemoteAtReturn, Late
    <2> QED
      BY <2>1 DEF Init, Service!SdoInit
  <1>2. IInv /\ IInv' /\ [Next]_vars => [Service!SdoNext]_Service!sdoVars
    BY ServiceStep
  <1> QED
    BY <1>1, <1>2, SdoInvariant, PTL
    DEF Spec, ImplementsService, Service!SdoSpec
=============================================================================
