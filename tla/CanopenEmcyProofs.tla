------------------------- MODULE CanopenEmcyProofs -------------------------
(***************************************************************************)
(* Proofs about the EMCY observer, for every set of producers and codes,   *)
(* every capacity of the deque and every number of events.                 *)
(*                                                                         *)
(* The inductive invariant is the type invariant, the shape of the deque   *)
(* and the fact that no snapshot lies ahead of the sequence number.        *)
(***************************************************************************)
EXTENDS CanopenEmcy, TLAPS

\* Snapshots and returns lie in the past.
NeverAhead == after_sequence <= g_emcy_sequence /\ returnedAt <= g_emcy_sequence

IInv == TypeOK /\ DequeIsNewestSuffix /\ NeverAhead

\* The observer before its first event satisfies the invariant.
LEMMA InitIInv == Init => IInv
  <1> SUFFICES ASSUME Init PROVE IInv
    OBVIOUS
  <1>1. TypeOK
    BY EmcyAssumption DEF Init, TypeOK
  <1>2. DequeIsNewestSuffix
    BY EmcyAssumption DEF Init, DequeIsNewestSuffix
  <1>3. NeverAhead
    BY DEF Init, NeverAhead
  <1> QED
    BY <1>1, <1>2, <1>3 DEF IInv

\* What emcyCallback() does to the deque: the newest events stay, shifted by
\* one position when the oldest had to leave.
LEMMA CallbackDeque ==
    ASSUME IInv, NEW n \in Nodes, NEW c \in Codes, emcyCallback(n, c)
    PROVE  TypeOK' /\ DequeIsNewestSuffix'
  <1> DEFINE kept == IF Len(g_emcy_events) >= Capacity
                     THEN Tail(g_emcy_events) ELSE g_emcy_events
             new == [sequence |-> g_emcy_sequence + 1, node_id |-> n,
                     error_code |-> c]
  <1>0. /\ TypeOK /\ DequeIsNewestSuffix
        /\ Capacity \in Nat \ {0}
        /\ g_emcy_sequence' = g_emcy_sequence + 1
        /\ g_emcy_events' = Append(kept, new)
        /\ published' = Append(published, <<n, c>>)
        /\ UNCHANGED <<pc, after_sequence, wanted, event, events, returnedAt>>
    BY EmcyAssumption DEF IInv, emcyCallback
  <1>1. /\ g_emcy_sequence \in Nat
        /\ g_emcy_events \in Seq(Event) /\ Len(g_emcy_events) \in Nat
        /\ published \in Seq(Nodes \X Codes)
        /\ g_emcy_sequence = Len(published)
        /\ Len(g_emcy_events) =
             IF g_emcy_sequence < Capacity THEN g_emcy_sequence ELSE Capacity
    BY <1>0 DEF TypeOK, DequeIsNewestSuffix
  <1>2. new \in Event
    BY <1>1 DEF Event
  <1>3. /\ kept \in Seq(Event)
        /\ Len(kept) = IF g_emcy_sequence < Capacity THEN g_emcy_sequence
                       ELSE Capacity - 1
        /\ \A i \in 1..Len(kept) :
             kept[i] = g_emcy_events[i + Len(g_emcy_events) - Len(kept)]
    <2>1. CASE g_emcy_sequence < Capacity
      <3>1. kept = g_emcy_events
        BY <1>0, <1>1, <2>1
      <3> HIDE DEF kept
      <3>2. \A i \in 1..Len(kept) : i + Len(g_emcy_events) - Len(kept) = i
        <4>1. Len(kept) = Len(g_emcy_events) /\ Len(g_emcy_events) \in Nat
          BY <1>1, <3>1
        <4>2. \A l \in Nat : \A i \in 1..l : i + l - l = i
          OBVIOUS
        <4> QED
          BY <4>1, <4>2
      <3> QED
        BY <1>0, <1>1, <2>1, <3>1, <3>2
    <2>2. CASE g_emcy_sequence >= Capacity
      <3>1. Len(g_emcy_events) = Capacity /\ g_emcy_events # <<>>
        BY <1>0, <1>1, <2>2
      <3>2. kept = Tail(g_emcy_events)
        BY <1>0, <3>1
      <3>3. /\ kept \in Seq(Event) /\ Len(kept) = Capacity - 1
            /\ \A i \in 1..Len(kept) : kept[i] = g_emcy_events[i + 1]
        BY <1>0, <1>1, <3>1, <3>2
      <3> HIDE DEF kept
      <3> QED
        BY <1>0, <1>1, <2>2, <3>1, <3>3
    <2> HIDE DEF kept
    <2>3. g_emcy_sequence < Capacity \/ g_emcy_sequence >= Capacity
      BY <1>0, <1>1
    <2> QED
      BY <2>1, <2>2, <2>3
  <1> HIDE DEF kept, new
  <1>4. /\ g_emcy_events' \in Seq(Event)
        /\ Len(g_emcy_events') = Len(kept) + 1
        /\ \A i \in 1..Len(kept) : g_emcy_events'[i] = kept[i]
        /\ g_emcy_events'[Len(kept) + 1] = new
    BY <1>0, <1>2, <1>3
  <1>5. /\ published' \in Seq(Nodes \X Codes)
        /\ Len(published') = Len(published) + 1
        /\ \A k \in 1..Len(published) : published'[k] = published[k]
        /\ published'[Len(published) + 1] = <<n, c>>
    BY <1>0, <1>1
  <1>6. TypeOK'
    BY <1>0, <1>1, <1>3, <1>4, <1>5 DEF TypeOK
  <1>7. Len(g_emcy_events') =
          IF g_emcy_sequence' < Capacity THEN g_emcy_sequence' ELSE Capacity
    BY <1>0, <1>1, <1>3, <1>4
  <1>a. /\ Len(kept) \in Nat /\ Len(g_emcy_events) \in Nat
        /\ Len(kept) <= Len(g_emcy_events)
        /\ Len(g_emcy_events) <= g_emcy_sequence
        /\ Len(published) = g_emcy_sequence
        /\ g_emcy_sequence \in Nat /\ g_emcy_sequence' = g_emcy_sequence + 1
        /\ Len(g_emcy_events') = Len(kept) + 1
    BY <1>0, <1>1, <1>3, <1>4
  <1>8. ASSUME NEW i \in 1..Len(g_emcy_events')
        PROVE  LET k == g_emcy_sequence' - Len(g_emcy_events') + i
               IN  /\ g_emcy_events'[i].sequence = k
                   /\ <<g_emcy_events'[i].node_id,
                        g_emcy_events'[i].error_code>> = published'[k]
    <2> DEFINE k == g_emcy_sequence' - Len(g_emcy_events') + i
               o == i + Len(g_emcy_events) - Len(kept)
    <2>0. i \in Nat /\ 1 <= i /\ i <= Len(kept) + 1
      BY <1>a
    <2>1. CASE i = Len(kept) + 1
      <3>1. k = g_emcy_sequence + 1 /\ g_emcy_events'[i] = new
        BY <1>4, <1>a, <2>0, <2>1
      <3> QED
        BY <1>1, <1>5, <3>1 DEF new, Event
    <2>2. CASE i # Len(kept) + 1
      <3>1. i \in 1..Len(kept) /\ o \in 1..Len(g_emcy_events)
        BY <1>a, <2>0, <2>2
      <3>2. k = g_emcy_sequence - Len(g_emcy_events) + o /\ k \in 1..Len(published)
        BY <1>a, <2>0, <3>1
      <3>3. g_emcy_events'[i] = g_emcy_events[o]
        BY <1>3, <1>4, <3>1
      <3>4. /\ g_emcy_events[o].sequence = k
            /\ <<g_emcy_events[o].node_id, g_emcy_events[o].error_code>>
                 = published[k]
        BY <1>0, <3>1, <3>2 DEF DequeIsNewestSuffix
      <3> QED
        BY <1>5, <3>2, <3>3, <3>4
    <2> QED
      BY <2>1, <2>2
  <1>9. DequeIsNewestSuffix'
    BY <1>0, <1>1, <1>5, <1>7, <1>8 DEF DequeIsNewestSuffix
  <1> QED
    BY <1>6, <1>9

\* The queries of the process thread leave the deque alone.
LEMMA QueryKeepsDeque ==
    ASSUME IInv, UNCHANGED <<g_emcy_sequence, g_emcy_events, published>>
    PROVE  DequeIsNewestSuffix'
  <1>1. DequeIsNewestSuffix
    BY DEF IInv
  <1> QED
    BY <1>1 DEF DequeIsNewestSuffix

\* Every step keeps the deque's shape and the snapshots in the past.
LEMMA StepIInv == IInv /\ [Next]_vars => IInv'
  <1> SUFFICES ASSUME IInv, [Next]_vars PROVE IInv'
    OBVIOUS
  <1>0. TypeOK /\ NeverAhead
    BY DEF IInv
  <1>1. ASSUME NEW n \in Nodes, NEW c \in Codes, emcyCallback(n, c)
        PROVE  IInv'
    <2>1. TypeOK' /\ DequeIsNewestSuffix'
      BY <1>1, CallbackDeque
    <2>2. NeverAhead'
      BY <1>0, <1>1 DEF emcyCallback, NeverAhead, TypeOK
    <2> QED
      BY <2>1, <2>2 DEF IInv
  <1>2. ASSUME NEW n \in Nodes, NEW c \in Codes, waitForCanopenEmcyEvent(n, c)
        PROVE  IInv'
    <2>1. TypeOK' /\ NeverAhead'
      BY <1>0, <1>2 DEF waitForCanopenEmcyEvent, TypeOK, NeverAhead
    <2>2. DequeIsNewestSuffix'
      BY <1>2, QueryKeepsDeque DEF waitForCanopenEmcyEvent
    <2> QED
      BY <2>1, <2>2 DEF IInv
  <1>3. ASSUME NEW n \in Nodes, getCanopenEmcyEventsAfter(n)
        PROVE  IInv'
    <2>1. TypeOK' /\ NeverAhead'
      BY <1>0, <1>3 DEF getCanopenEmcyEventsAfter, TypeOK, NeverAhead
    <2>2. DequeIsNewestSuffix'
      BY <1>3, QueryKeepsDeque DEF getCanopenEmcyEventsAfter
    <2> QED
      BY <2>1, <2>2 DEF IInv
  <1>4. CASE snapshotCanopenEmcySequence
    <2>1. TypeOK' /\ NeverAhead'
      BY <1>0, <1>4 DEF snapshotCanopenEmcySequence, TypeOK, NeverAhead
    <2>2. DequeIsNewestSuffix'
      BY <1>4, QueryKeepsDeque DEF snapshotCanopenEmcySequence
    <2> QED
      BY <2>1, <2>2 DEF IInv
  <1>6. CASE WaitTimesOut
    <2>1. TypeOK' /\ NeverAhead'
      BY <1>0, <1>6 DEF WaitTimesOut, TypeOK, NeverAhead
    <2>2. DequeIsNewestSuffix'
      BY <1>6, QueryKeepsDeque DEF WaitTimesOut
    <2> QED
      BY <2>1, <2>2 DEF IInv
  <1>7. CASE UNCHANGED vars
    <2>1. TypeOK' /\ NeverAhead'
      BY <1>0, <1>7 DEF vars, TypeOK, NeverAhead
    <2>2. DequeIsNewestSuffix'
      BY <1>7, QueryKeepsDeque DEF vars
    <2> QED
      BY <2>1, <2>2 DEF IInv
  <1>5. CASE WaitMatches
    <2>1. PICK i \in findEmcyEventLocked(after_sequence, wanted) :
              event' = g_emcy_events[i].sequence
      BY <1>5 DEF WaitMatches
    <2>2. i \in 1..Len(g_emcy_events) /\ g_emcy_events[i] \in Event
      BY <1>0, <2>1 DEF findEmcyEventLocked, TypeOK
    <2>3. event' \in Nat
      BY <2>1, <2>2 DEF Event
    <2>4. TypeOK' /\ NeverAhead'
      BY <1>0, <1>5, <2>3 DEF WaitMatches, TypeOK, NeverAhead
    <2>5. DequeIsNewestSuffix'
      BY <1>5, QueryKeepsDeque DEF WaitMatches
    <2> QED
      BY <2>4, <2>5 DEF IInv
  <1> QED
    BY <1>1, <1>2, <1>3, <1>4, <1>5, <1>6, <1>7 DEF Next

\* Type correctness of the observer of emcyCallback() and of the waits.
THEOREM ObserverTypeOK == Spec => []TypeOK
  <1>1. IInv => TypeOK
    BY DEF IInv
  <1> QED
    BY <1>1, InitIInv, StepIInv, PTL DEF Spec

\* The deque holds the newest events with consecutive sequence numbers, in
\* every reachable state of emcyCallback() and the waits.
THEOREM ObserverInvariant == Spec => []DequeIsNewestSuffix
  <1>1. IInv => DequeIsNewestSuffix
    BY DEF IInv
  <1> QED
    BY <1>1, InitIInv, StepIInv, PTL DEF Spec

-----------------------------------------------------------------------------
(* Positions of the deque and sequence numbers.                            *)

\* Position i of a window of l = min(s, cap) numbers that ends at s.
LEMMA WindowPosition ==
    ASSUME NEW s \in Nat, NEW cap \in Nat \ {0}, NEW l \in Nat,
           l = IF s < cap THEN s ELSE cap
    PROVE  /\ \A i \in 1..l : s - l + i \in 1..s /\ s - l + i + cap > s
           /\ \A k \in 1..s : k + cap > s =>
                 k - (s - l) \in 1..l /\ s - l + (k - (s - l)) = k
OBVIOUS

\* The numbers of the deque's window.
LEMMA DequeWindow ==
    ASSUME IInv
    PROVE  /\ g_emcy_sequence \in Nat /\ Capacity \in Nat \ {0}
           /\ Len(g_emcy_events) \in Nat
           /\ g_emcy_sequence = Len(published)
           /\ Len(g_emcy_events) =
                IF g_emcy_sequence < Capacity THEN g_emcy_sequence ELSE Capacity
BY EmcyAssumption DEF IInv, TypeOK, DequeIsNewestSuffix

\* Every retained event is one of the newest Capacity published ones.
LEMMA RetainedEvent ==
    ASSUME IInv, NEW i \in 1..Len(g_emcy_events)
    PROVE  /\ g_emcy_events[i].sequence = g_emcy_sequence - Len(g_emcy_events) + i
           /\ g_emcy_events[i].sequence \in 1..Len(published)
           /\ g_emcy_events[i].sequence + Capacity > Len(published)
           /\ published[g_emcy_events[i].sequence] =
                <<g_emcy_events[i].node_id, g_emcy_events[i].error_code>>
  <1> DEFINE k == g_emcy_sequence - Len(g_emcy_events) + i
  <1>1. /\ g_emcy_events[i].sequence = k
        /\ published[k] =
             <<g_emcy_events[i].node_id, g_emcy_events[i].error_code>>
    BY DEF IInv, DequeIsNewestSuffix
  <1>2. k \in 1..g_emcy_sequence /\ k + Capacity > g_emcy_sequence
    BY DequeWindow, WindowPosition
  <1>3. g_emcy_sequence = Len(published)
    BY DequeWindow
  <1> QED
    BY <1>1, <1>2, <1>3

\* Each of the newest Capacity events is retained.
LEMMA RetainedPosition ==
    ASSUME IInv, NEW k \in 1..Len(published), k + Capacity > Len(published)
    PROVE  \E i \in 1..Len(g_emcy_events) : g_emcy_events[i].sequence = k
  <1> DEFINE i == k - (g_emcy_sequence - Len(g_emcy_events))
  <1>1. /\ i \in 1..Len(g_emcy_events)
        /\ g_emcy_sequence - Len(g_emcy_events) + i = k
    <2>1. k \in 1..g_emcy_sequence /\ k + Capacity > g_emcy_sequence
      BY DequeWindow
    <2>2. \A m \in 1..g_emcy_sequence : m + Capacity > g_emcy_sequence =>
            /\ m - (g_emcy_sequence - Len(g_emcy_events))
                 \in 1..Len(g_emcy_events)
            /\ g_emcy_sequence - Len(g_emcy_events)
                 + (m - (g_emcy_sequence - Len(g_emcy_events))) = m
      BY DequeWindow, WindowPosition
    <2> QED
      BY <2>1, <2>2
  <1>2. g_emcy_events[i].sequence = g_emcy_sequence - Len(g_emcy_events) + i
    BY <1>1, RetainedEvent
  <1> QED
    BY <1>1, <1>2

\* The search over the deque finds exactly the answers of the abstract log.
LEMMA SearchFindsAnswers ==
    ASSUME IInv
    PROVE  Log!Answers = {g_emcy_events[i].sequence :
                            i \in findEmcyEventLocked(after_sequence, wanted)}
  <1>1. ASSUME NEW k \in Log!Answers
        PROVE  \E i \in findEmcyEventLocked(after_sequence, wanted) :
                  g_emcy_events[i].sequence = k
    <2>1. /\ k \in 1..Len(published) /\ k + Capacity > Len(published)
          /\ k > after_sequence /\ published[k] = wanted
      BY DEF Log!Answers, Log!Remembered
    <2>2. PICK i \in 1..Len(g_emcy_events) : g_emcy_events[i].sequence = k
      BY <2>1, RetainedPosition
    <2>3. published[k] = <<g_emcy_events[i].node_id, g_emcy_events[i].error_code>>
      BY <2>2, RetainedEvent
    <2> QED
      BY <2>1, <2>2, <2>3 DEF findEmcyEventLocked
  <1>2. ASSUME NEW i \in findEmcyEventLocked(after_sequence, wanted)
        PROVE  g_emcy_events[i].sequence \in Log!Answers
    <2>1. /\ i \in 1..Len(g_emcy_events)
          /\ g_emcy_events[i].sequence > after_sequence
          /\ <<g_emcy_events[i].node_id, g_emcy_events[i].error_code>> = wanted
      BY DEF findEmcyEventLocked
    <2> QED
      BY <2>1, RetainedEvent DEF Log!Answers, Log!Remembered
  <1> QED
    BY <1>1, <1>2

-----------------------------------------------------------------------------
(* Timeouts.                                                               *)

LEMMA StepTimeout ==
    IInv /\ TimeoutMeansNoMatch /\ [Next]_vars => TimeoutMeansNoMatch'
  <1> SUFFICES ASSUME IInv, TimeoutMeansNoMatch, [Next]_vars,
                      pc' = "timedOut", returnedAt' <= after_sequence' + Capacity,
                      NEW k \in (after_sequence' + 1)..returnedAt'
               PROVE  published'[k] # wanted'
    BY DEF TimeoutMeansNoMatch
  <1>0. /\ TypeOK /\ NeverAhead /\ Capacity \in Nat
        /\ g_emcy_sequence \in Nat /\ g_emcy_sequence = Len(published)
        /\ after_sequence \in Nat /\ returnedAt \in Nat
    BY EmcyAssumption DEF IInv, TypeOK, DequeIsNewestSuffix
  <1>1. ASSUME NEW n \in Nodes, NEW c \in Codes, emcyCallback(n, c)
        PROVE  published'[k] # wanted'
    <2>1. /\ published' = Append(published, <<n, c>>)
          /\ UNCHANGED <<pc, after_sequence, wanted, returnedAt>>
      BY <1>1 DEF emcyCallback
    <2>2. k \in 1..Len(published)
      BY <1>0, <2>1 DEF NeverAhead
    <2>3. published'[k] = published[k]
      BY <1>0, <2>1, <2>2 DEF TypeOK
    <2> QED
      BY <2>1, <2>3 DEF TimeoutMeansNoMatch
  <1>2. CASE WaitTimesOut
    <2>1. /\ findEmcyEventLocked(after_sequence, wanted) = {}
          /\ returnedAt' = g_emcy_sequence
          /\ UNCHANGED <<published, after_sequence, wanted>>
      BY <1>2 DEF WaitTimesOut
    <2>2. /\ k \in 1..Len(published) /\ k > after_sequence
          /\ k + Capacity > Len(published)
      BY <1>0, <2>1
    <2>3. k \notin Log!Answers
      BY <2>1, SearchFindsAnswers
    <2> QED
      BY <2>1, <2>2, <2>3 DEF Log!Answers, Log!Remembered
  <1>3. CASE UNCHANGED vars
    BY <1>3 DEF vars, TimeoutMeansNoMatch
  <1> QED
    BY <1>1, <1>2, <1>3
       DEF Next, waitForCanopenEmcyEvent, getCanopenEmcyEventsAfter,
           snapshotCanopenEmcySequence, WaitMatches

\* A wait that times out missed nothing, unless more than Capacity events
\* arrived since the snapshot: waitForCanopenEmcyEvent() for every capacity.
THEOREM TimeoutIsHonest == Spec => []TimeoutMeansNoMatch
  <1>1. Init => TimeoutMeansNoMatch
    BY DEF Init, TimeoutMeansNoMatch
  <1> QED
    BY <1>1, InitIInv, StepIInv, StepTimeout, PTL DEF Spec

-----------------------------------------------------------------------------
(* Refinement.                                                             *)

\* The bulk query lists what the abstract log lists.
LEMMA ListFindsAll ==
    ASSUME IInv, NEW n \in Nodes, getCanopenEmcyEventsAfter(n)
    PROVE  {e.sequence : e \in events'} =
             {k \in Log!Remembered : k > after_sequence /\ published[k][1] = n}
  <1> DEFINE picked == {j \in 1..Len(g_emcy_events) :
                          /\ g_emcy_events[j].sequence > after_sequence
                          /\ g_emcy_events[j].node_id = n}
  <1>0. events' = {g_emcy_events[i] : i \in picked}
    BY DEF getCanopenEmcyEventsAfter
  <1>1. ASSUME NEW i \in picked
        PROVE  g_emcy_events[i].sequence \in
                 {k \in Log!Remembered : k > after_sequence /\ published[k][1] = n}
    <2>1. i \in 1..Len(g_emcy_events)
      OBVIOUS
    <2> QED
      BY <2>1, RetainedEvent DEF Log!Remembered
  <1>2. ASSUME NEW k \in Log!Remembered, k > after_sequence, published[k][1] = n
        PROVE  \E i \in picked : g_emcy_events[i].sequence = k
    <2>1. k \in 1..Len(published) /\ k + Capacity > Len(published)
      BY DEF Log!Remembered
    <2>2. PICK i \in 1..Len(g_emcy_events) : g_emcy_events[i].sequence = k
      BY <2>1, RetainedPosition
    <2>3. published[k] = <<g_emcy_events[i].node_id, g_emcy_events[i].error_code>>
      BY <2>2, RetainedEvent
    <2> QED
      BY <1>2, <2>2, <2>3
  <1> HIDE DEF picked
  <1> QED
    BY <1>0, <1>1, <1>2

\* Every step of the observer is a step of the log, or leaves it alone.
LEMMA StepRefines == IInv /\ [Next]_vars => [Log!LogNext]_(Log!logVars)
  <1> SUFFICES ASSUME IInv, [Next]_vars PROVE [Log!LogNext]_(Log!logVars)
    OBVIOUS
  <1>1. ASSUME NEW n \in Nodes, NEW c \in Codes, emcyCallback(n, c)
        PROVE  Log!Publish(n, c)
    BY <1>1 DEF emcyCallback, Log!Publish
  <1>2. ASSUME NEW n \in Nodes, NEW c \in Codes, waitForCanopenEmcyEvent(n, c)
        PROVE  Log!Ask(n, c)
    BY <1>2 DEF waitForCanopenEmcyEvent, Log!Ask
  <1>3. ASSUME NEW n \in Nodes, getCanopenEmcyEventsAfter(n)
        PROVE  Log!List(n)
    BY <1>3, ListFindsAll DEF getCanopenEmcyEventsAfter, Log!List
  <1>4. ASSUME snapshotCanopenEmcySequence
        PROVE  Log!TakeMark
    <2>1. Len(published) = g_emcy_sequence
      BY DequeWindow
    <2> QED
      BY <1>4, <2>1 DEF snapshotCanopenEmcySequence, Log!TakeMark
  <1>5. ASSUME WaitMatches
        PROVE  Log!Answered
    <2>1. PICK i \in findEmcyEventLocked(after_sequence, wanted) :
             /\ \A j \in findEmcyEventLocked(after_sequence, wanted) : i <= j
             /\ event' = g_emcy_events[i].sequence
      BY <1>5 DEF WaitMatches
    <2>2. \A j \in findEmcyEventLocked(after_sequence, wanted) :
             /\ j \in 1..Len(g_emcy_events)
             /\ g_emcy_events[j].sequence
                  = g_emcy_sequence - Len(g_emcy_events) + j
      BY RetainedEvent DEF findEmcyEventLocked
    <2>3. g_emcy_sequence \in Nat /\ Len(g_emcy_events) \in Nat
      BY DequeWindow
    <2>4. \A j \in findEmcyEventLocked(after_sequence, wanted) :
             g_emcy_events[i].sequence <= g_emcy_events[j].sequence
      BY <2>1, <2>2, <2>3
    <2>5. event' \in Log!Answers /\ \A k \in Log!Answers : event' <= k
      BY <2>1, <2>4, SearchFindsAnswers
    <2> QED
      BY <1>5, <2>5 DEF WaitMatches, Log!Answered
  <1>6. ASSUME WaitTimesOut
        PROVE  Log!Unanswered
    <2>1. Log!Answers = {}
      BY <1>6, SearchFindsAnswers DEF WaitTimesOut
    <2> QED
      BY <1>6, <2>1 DEF WaitTimesOut, Log!Unanswered
  <1>7. CASE UNCHANGED vars
    BY <1>7 DEF vars, Log!logVars
  <1> QED
    BY <1>1, <1>2, <1>3, <1>4, <1>5, <1>6, <1>7 DEF Next, Log!LogNext

\* The bounded deque with sequence numbers of src/canopen_emcy.cpp implements
\* the sliding log: what the callers of the observer rely on.
THEOREM ObserverImplementsLog == Spec => ImplementsLog
  <1>1. Init => Log!LogInit
    BY DEF Init, Log!LogInit
  <1> QED
    BY <1>1, InitIInv, StepIInv, StepRefines, PTL
       DEF Spec, ImplementsLog, Log!LogSpec
=============================================================================
