-------------------------- MODULE CanopenNmtProofs --------------------------
(***************************************************************************)
(* Proofs about confirmed NMT commands, for all nodes and states and any   *)
(* number of reports in the receive queue.                                 *)
(***************************************************************************)
EXTENDS CanopenNmt, TLAPS

Submitted == pc \in {"readAfter", "waiting"}

\* What is known between Command() and the end of the wait: a node that is in
\* the state has been seen in it, a report of the state that is under way or
\* published rests on that or was under way before, and the last publication
\* since Command() is the one in the table.
Evidence ==
    /\ pc # "idle" => result = "none"
    /\ Submitted =>
        /\ remote[target[1]] = target[2] => reached
        /\ UnderWay(target[1], target[2]) => reached \/ stale
        /\ FreshMatch => reached \/ stale
        /\ since # <<>> =>
              /\ g_nmt_states[target[1]].generation > baseline_generation
              /\ since = <<g_nmt_states[target[1]].state>>

IInv == TypeOK /\ Evidence /\ ConfirmedHasEvidence

-----------------------------------------------------------------------------
(* The invariant.                                                          *)

\* The program starts with the invariant.
LEMMA InitIInv == Init => IInv
  <1> SUFFICES ASSUME Init PROVE IInv
    OBVIOUS
  <1>1. /\ wire \in Seq(Report) /\ dispatching \in Seq(Report) /\ Len(dispatching) <= 1
        /\ since \in Seq(States) /\ Len(since) <= 1
    BY DEF Init
  <1>2. /\ managed \in [Nodes -> States]
        /\ g_nmt_states \in [Nodes -> [generation : Nat, state : States]]
    BY NmtAssumption DEF Init
  <1>3. TypeOK
    BY <1>1, <1>2 DEF Init, TypeOK, Report, Results
  <1> QED
    BY <1>3 DEF Init, IInv, Evidence, Submitted, ConfirmedHasEvidence

\* Nodes and Lely: what a report under way says was true when it was sent.
LEMMA LelyKeeps ==
    ASSUME IInv,
           \/ \E n \in Nodes, s \in States : NodeEnters(n, s)
           \/ \E n \in Nodes : NodeReports(n)
           \/ LelyTakesReport
    PROVE  IInv'
  <1>0. TypeOK /\ Evidence /\ ConfirmedHasEvidence
    BY DEF IInv
  <1>1. ASSUME NEW n \in Nodes, NEW s \in States, NodeEnters(n, s) PROVE IInv'
    <2>1. TypeOK'
      BY <1>0, <1>1 DEF NodeEnters, TypeOK, callVars, Report
    <2>2. remote'[target'[1]] = target'[2] =>
              remote[target[1]] = target[2] \/ target = <<n, s>>
      BY <1>0, <1>1 DEF NodeEnters, TypeOK, callVars, Report
    <2>3. Evidence'
      BY <1>0, <1>1, <2>2
         DEF NodeEnters, Evidence, Submitted, UnderWay, FreshMatch, callVars
    <2>4. ConfirmedHasEvidence'
      BY <1>0, <1>1 DEF NodeEnters, ConfirmedHasEvidence, callVars
    <2> QED
      BY <2>1, <2>3, <2>4 DEF IInv
  <1>2. ASSUME NEW n \in Nodes, NodeReports(n) PROVE IInv'
    <2>1. TypeOK'
      BY <1>0, <1>2 DEF NodeReports, TypeOK, callVars, histVars, Report
    <2>2. wire \in Seq(Report) /\ <<n, remote[n]>> \in Report
      BY <1>0 DEF TypeOK, Report
    <2>3. UnderWay(target[1], target[2])' =>
              UnderWay(target[1], target[2]) \/ remote[target[1]] = target[2]
      <3>1. \A i \in 1..Len(wire') : \/ i \in 1..Len(wire) /\ wire'[i] = wire[i]
                                     \/ wire'[i] = <<n, remote[n]>>
        BY <1>2, <2>2 DEF NodeReports
      <3>2. UNCHANGED <<dispatching, target>>
        BY <1>2 DEF NodeReports, callVars
      <3> QED
        BY <3>1, <3>2 DEF UnderWay
    <2>4. Evidence'
      BY <1>0, <1>2, <2>3
         DEF NodeReports, Evidence, Submitted, FreshMatch, callVars, histVars
    <2>5. ConfirmedHasEvidence'
      BY <1>0, <1>2 DEF NodeReports, ConfirmedHasEvidence, callVars, histVars
    <2> QED
      BY <2>1, <2>4, <2>5 DEF IInv
  <1>3. ASSUME LelyTakesReport PROVE IInv'
    <2>1. wire \in Seq(Report) /\ wire # <<>>
      BY <1>0, <1>3 DEF TypeOK, LelyTakesReport
    <2>2. Head(wire) = wire[1] /\ Head(wire) \in Report /\ 1 \in 1..Len(wire)
      BY <2>1
    <2>3. dispatching' \in {<<>>, <<wire[1]>>} /\ wire' = Tail(wire)
      BY <1>3, <2>2 DEF LelyTakesReport
    <2>4. wire' \in Seq(Report) /\ dispatching' \in Seq(Report) /\ Len(dispatching') <= 1
      <3>1. wire' \in Seq(Report)
        BY <2>1, <2>3
      <3>2. /\ <<>> \in Seq(Report) /\ Len(<<>>) <= 1
            /\ <<wire[1]>> \in Seq(Report) /\ Len(<<wire[1]>>) <= 1
        BY <2>2
      <3> QED
        BY <2>3, <3>1, <3>2
    <2>5. managed' \in [Nodes -> States]
      BY <1>0, <1>3, <2>2 DEF TypeOK, LelyTakesReport, Report
    <2>6. TypeOK'
      BY <1>0, <1>3, <2>4, <2>5 DEF LelyTakesReport, TypeOK, callVars, histVars
    <2>7. \A i \in 1..Len(wire') : i + 1 \in 1..Len(wire) /\ wire'[i] = wire[i + 1]
      BY <2>1, <2>3
    <2>8. \A i \in 1..Len(dispatching') : dispatching'[i] = wire[1]
      BY <2>3
    <2>9. UnderWay(target[1], target[2])' => UnderWay(target[1], target[2])
      BY <1>3, <2>2, <2>7, <2>8 DEF LelyTakesReport, UnderWay, callVars
    <2>10. Evidence'
      BY <1>0, <1>3, <2>9
         DEF LelyTakesReport, Evidence, Submitted, FreshMatch, callVars, histVars
    <2>11. ConfirmedHasEvidence'
      BY <1>0, <1>3 DEF LelyTakesReport, ConfirmedHasEvidence, callVars, histVars
    <2> QED
      BY <2>6, <2>10, <2>11 DEF IInv
  <1> QED
    BY <1>1, <1>2, <1>3

\* The callback publishes a report that was under way.
LEMMA CallbackKeeps == ASSUME IInv, nmtStateCallback PROVE IInv'
  <1>0. TypeOK /\ Evidence /\ ConfirmedHasEvidence
    BY DEF IInv
  <1>1. /\ dispatching \in Seq(Report) /\ dispatching # <<>>
        /\ dispatching[1] \in Report /\ 1 \in 1..Len(dispatching)
    BY <1>0 DEF TypeOK, nmtStateCallback
  <1> DEFINE n == dispatching[1][1]
             s == dispatching[1][2]
  <1>2. n \in Nodes /\ s \in States /\ dispatching[1] = <<n, s>>
    BY <1>1 DEF Report
  <1>3. /\ target \in Report /\ target = <<target[1], target[2]>>
        /\ target[1] \in Nodes
    BY <1>0 DEF TypeOK, Report
  <1>4. IF registered
        THEN g_nmt_states' = [g_nmt_states EXCEPT
                 ![n] = [generation |-> g_nmt_states[n].generation + 1, state |-> s]]
        ELSE g_nmt_states' = g_nmt_states
    BY DEF nmtStateCallback
  <1>5. since' = IF registered /\ n = target[1] THEN <<s>> ELSE since
    BY DEF nmtStateCallback
  <1>6. UNCHANGED <<remote, wire, reports, managed, registered, callVars,
                    reached, stale>> /\ dispatching' = <<>>
    BY DEF nmtStateCallback
  <1> HIDE DEF n, s
  <1>7. /\ g_nmt_states' \in [Nodes -> [generation : Nat, state : States]]
        /\ g_nmt_states'[target[1]].generation >= g_nmt_states[target[1]].generation
    <2>1. g_nmt_states \in [Nodes -> [generation : Nat, state : States]]
      BY <1>0 DEF TypeOK
    <2>2. /\ g_nmt_states[n].generation \in Nat
          /\ g_nmt_states[target[1]].generation \in Nat
      BY <1>2, <1>3, <2>1
    <2>3. [generation |-> g_nmt_states[n].generation + 1, state |-> s]
              \in [generation : Nat, state : States]
      BY <1>2, <2>2
    <2>4. CASE registered
      BY <1>2, <1>3, <1>4, <2>1, <2>2, <2>3, <2>4
    <2>5. CASE ~registered
      BY <1>4, <2>1, <2>2, <2>5
    <2> QED
      BY <2>4, <2>5
  <1>8. since' \in Seq(States) /\ Len(since') <= 1
    BY <1>0, <1>2, <1>5 DEF TypeOK
  <1>9. TypeOK'
    BY <1>0, <1>3, <1>6, <1>7, <1>8 DEF TypeOK, callVars
  <1>10. UnderWay(target[1], target[2])' => UnderWay(target[1], target[2])
    BY <1>6 DEF UnderWay, callVars
  <1>11. CASE registered /\ n = target[1]
    <2>1. /\ g_nmt_states'[target[1]].generation = g_nmt_states[target[1]].generation + 1
          /\ g_nmt_states'[target[1]].state = s
      BY <1>0, <1>3, <1>4, <1>11 DEF TypeOK
    <2>2. s = target[2] => UnderWay(target[1], target[2])
      BY <1>1, <1>2, <1>11 DEF UnderWay
    <2>3. Submitted => g_nmt_states'[target[1]].generation > baseline_generation
      BY <1>0, <1>3, <2>1 DEF TypeOK, Submitted
    <2> QED
      BY <1>0, <1>5, <1>6, <1>9, <1>10, <1>11, <2>1, <2>2, <2>3
         DEF IInv, Evidence, Submitted, FreshMatch, ConfirmedHasEvidence, callVars
  <1>12. CASE ~(registered /\ n = target[1])
    <2>1. g_nmt_states'[target[1]] = g_nmt_states[target[1]] /\ since' = since
      BY <1>0, <1>2, <1>3, <1>4, <1>5, <1>12 DEF TypeOK
    <2> QED
      BY <1>0, <1>6, <1>9, <1>10, <2>1
         DEF IInv, Evidence, Submitted, FreshMatch, ConfirmedHasEvidence, callVars
  <1> QED
    BY <1>11, <1>12

\* The process thread: Command() opens the evidence, the wait uses it.
LEMMA ThreadKeeps ==
    ASSUME IInv,
           \/ registerNmtStateCallback
           \/ \E n \in Nodes, s \in States : CallHelper(n, s)
           \/ CallWithInvalidNode \/ ReadManagedBefore
           \/ SubmitCommand \/ SubmitRefused
           \/ IdempotentShortcut \/ BeginWait \/ WaitReaches \/ WaitTimesOut
    PROVE  IInv'
  <1>0. TypeOK /\ Evidence /\ ConfirmedHasEvidence
    BY DEF IInv
  <1>t. target[1] \in Nodes /\ target[2] \in States
    BY <1>0 DEF TypeOK, Report
  <1> USE DEF IInv, TypeOK, Evidence, Submitted, ConfirmedHasEvidence, Results,
              lelyVars, callVars, histVars
  <1>1. CASE registerNmtStateCallback
    BY <1>0, <1>1, NmtAssumption DEF registerNmtStateCallback
  <1>2. ASSUME NEW n \in Nodes, NEW s \in States, CallHelper(n, s) PROVE IInv'
    <2>1. <<>> \in Seq(States) /\ Len(<<>>) <= 1 /\ <<n, s>> \in Report
      BY DEF Report
    <2> QED
      BY <1>0, <1>2, <2>1 DEF CallHelper
  <1>3. CASE CallWithInvalidNode
    BY <1>0, <1>3 DEF CallWithInvalidNode
  <1>4. CASE ReadManagedBefore
    BY <1>0, <1>t, <1>4 DEF ReadManagedBefore
  <1>5. CASE SubmitCommand
    <2>1. <<>> \in Seq(States) /\ Len(<<>>) <= 1
      OBVIOUS
    <2>2. g_nmt_states[target[1]].generation \in Nat
      BY <1>0, <1>t
    <2>3. UnderWay(target[1], target[2])' = UnderWay(target[1], target[2])
      BY <1>5 DEF SubmitCommand, UnderWay
    <2>4. UnderWay(target[1], target[2]) \in BOOLEAN
      BY DEF UnderWay
    <2>5. ~FreshMatch'
      BY <1>5, <2>2 DEF SubmitCommand, FreshMatch
    <2>6. TypeOK'
      BY <1>0, <1>5, <2>1, <2>2, <2>4 DEF SubmitCommand
    <2>7. Evidence' /\ ConfirmedHasEvidence'
      BY <1>0, <1>5, <2>3, <2>5 DEF SubmitCommand
    <2> QED
      BY <2>6, <2>7
  <1>6. CASE SubmitRefused
    BY <1>0, <1>t, <1>6 DEF SubmitRefused
  <1>7. CASE IdempotentShortcut
    BY <1>0, <1>7 DEF IdempotentShortcut
  <1>8. CASE BeginWait
    BY <1>0, <1>8 DEF BeginWait, UnderWay, FreshMatch
  <1>9. CASE WaitReaches
    BY <1>0, <1>9 DEF WaitReaches
  <1>10. CASE WaitTimesOut
    BY <1>0, <1>10 DEF WaitTimesOut
  <1> QED
    BY <1>1, <1>2, <1>3, <1>4, <1>5, <1>6, <1>7, <1>8, <1>9, <1>10

\* Every step keeps the invariant.
LEMMA StepIInv == IInv /\ [Next]_vars => IInv'
  <1> SUFFICES ASSUME IInv, [Next]_vars PROVE IInv'
    OBVIOUS
  <1>1. CASE UNCHANGED vars
    BY <1>1 DEF IInv, TypeOK, Evidence, Submitted, ConfirmedHasEvidence, UnderWay,
                FreshMatch, vars, lelyVars, callVars, histVars
  <1> QED
    BY <1>1, LelyKeeps, CallbackKeeps, ThreadKeeps DEF Next

-----------------------------------------------------------------------------
(* The theorems.                                                           *)

\* Type correctness of the observer and the helper; the generation snapshot
\* of a submitted command is never ahead of the table.
THEOREM NmtTypeOK == Spec => []TypeOK
  <1>1. IInv => TypeOK
    BY DEF IInv
  <1> QED
    BY <1>1, InitIInv, StepIInv, PTL DEF Spec

\* issueNmtCommandAndWaitForState() never confirms a state the node was not in
\* since Command(), unless a report of it was already under way.
THEOREM ConfirmationIsHonest == Spec => []ConfirmedHasEvidence
  <1>1. IInv => ConfirmedHasEvidence
    BY DEF IInv
  <1> QED
    BY <1>1, InitIInv, StepIInv, PTL DEF Spec

\* It never times out on a confirmation that was published last.
THEOREM TimeoutIsHonest == Spec => TimeoutLosesNoConfirmation
  <1>1. IInv /\ [Next]_vars =>
            [(pc = "waiting" /\ result' = "timedOut") => since # <<target[2]>>]_vars
    <2> SUFFICES ASSUME IInv, Next, pc = "waiting", result' = "timedOut",
                        since = <<target[2]>>
                 PROVE  FALSE
      BY DEF vars
    <2>1. result = "none"
      BY DEF IInv, Evidence
    <2>2. WaitTimesOut
      BY <2>1
         DEF Next, NodeEnters, CallHelper, NodeReports, LelyTakesReport,
             nmtStateCallback, registerNmtStateCallback, CallWithInvalidNode,
             ReadManagedBefore, SubmitCommand, SubmitRefused, IdempotentShortcut,
             BeginWait, WaitReaches, callVars
    <2>3. FreshMatch
      <3>1. /\ g_nmt_states[target[1]].generation > baseline_generation
            /\ since = <<g_nmt_states[target[1]].state>>
        BY DEF IInv, Evidence, Submitted
      <3> QED
        BY <3>1 DEF FreshMatch
    <2> QED
      BY <2>2, <2>3 DEF WaitTimesOut
  <1> QED
    BY <1>1, InitIInv, StepIInv, PTL DEF Spec, TimeoutLosesNoConfirmation
=============================================================================
