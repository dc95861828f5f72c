---------------------------- MODULE CanopenEmcy ----------------------------
(***************************************************************************)
(* The shared EMCY observer (src/canopen_emcy.cpp).                        *)
(*                                                                         *)
(* Two threads meet here under g_emcy_mutex: the Lely event loop, which    *)
(* runs emcyCallback() for every EMCY frame, and the process thread, which *)
(* takes snapshots of the sequence number and waits for events newer than  *)
(* a snapshot.  g_emcy_events keeps only the newest Capacity events.       *)
(* An event carries its sequence, producer and error code; the error       *)
(* register, the manufacturer bytes and the time stamp are payload that no *)
(* code here looks at.                                                     *)
(***************************************************************************)
EXTENDS Integers, Sequences

CONSTANTS Nodes,     \* producers of EMCY messages
          Codes,     \* EMCY error codes
          Capacity,  \* kEmcyEventCapacity (32 in the code)
          MaxEvents  \* bound: EMCY callbacks in one behaviour

ASSUME EmcyAssumption ==
    /\ Nodes # {} /\ Codes # {}
    /\ Capacity \in Nat \ {0}
    /\ MaxEvents \in Nat

VARIABLES
    g_emcy_sequence, \* sequence of the newest event, 0 before the first
    g_emcy_events,   \* the retained events, oldest first
    published,       \* history: <<node, code>> of every callback so far
    pc,              \* process thread: idle, waiting, matched, timedOut, listed
    after_sequence,  \* the snapshot the caller passes to its next query
    wanted,          \* <<node_id, error_code>> of the current wait
    event,           \* sequence of the event a wait returned, 0 for none
    events,          \* what getCanopenEmcyEventsAfter() returned
    returnedAt       \* history: g_emcy_sequence when the last query returned

vars == <<g_emcy_sequence, g_emcy_events, published, pc, after_sequence,
          wanted, event, events, returnedAt>>

Event == [sequence : Nat, node_id : Nodes, error_code : Codes]

Init ==
    /\ g_emcy_sequence = 0
    /\ g_emcy_events = <<>>
    /\ published = <<>>
    /\ pc = "idle"
    /\ after_sequence = 0
    /\ wanted \in Nodes \X Codes
    /\ event = 0
    /\ events = {}
    /\ returnedAt = 0

-----------------------------------------------------------------------------
(* Event-loop thread.                                                      *)

\* Mutant: the eviction test is off by one, so the deque shrinks too early.
EmcyCallbackEarlyEviction(n, c) ==
    LET kept == IF Len(g_emcy_events) + 1 >= Capacity /\ g_emcy_events # <<>>
                THEN Tail(g_emcy_events) ELSE g_emcy_events
    IN  /\ g_emcy_sequence < MaxEvents
        /\ g_emcy_sequence' = g_emcy_sequence + 1
        /\ g_emcy_events' = Append(kept, [sequence   |-> g_emcy_sequence + 1,
                                          node_id    |-> n,
                                          error_code |-> c])
        /\ published' = Append(published, <<n, c>>)
        /\ UNCHANGED <<pc, after_sequence, wanted, event, events, returnedAt>>

\* Mutant: the sequence is incremented after it was copied into the event.
EmcyCallbackStaleSequence(n, c) ==
    LET kept == IF Len(g_emcy_events) >= Capacity
                THEN Tail(g_emcy_events) ELSE g_emcy_events
    IN  /\ g_emcy_sequence < MaxEvents
        /\ g_emcy_sequence' = g_emcy_sequence + 1
        /\ g_emcy_events' = Append(kept, [sequence   |-> g_emcy_sequence,
                                          node_id    |-> n,
                                          error_code |-> c])
        /\ published' = Append(published, <<n, c>>)
        /\ UNCHANGED <<pc, after_sequence, wanted, event, events, returnedAt>>

\* Mutant: the oldest event leaves one callback too late.
EmcyCallbackLateEviction(n, c) ==
    LET kept == IF Len(g_emcy_events) > Capacity
                THEN Tail(g_emcy_events) ELSE g_emcy_events
    IN  /\ g_emcy_sequence < MaxEvents
        /\ g_emcy_sequence' = g_emcy_sequence + 1
        /\ g_emcy_events' = Append(kept, [sequence   |-> g_emcy_sequence + 1,
                                          node_id    |-> n,
                                          error_code |-> c])
        /\ published' = Append(published, <<n, c>>)
        /\ UNCHANGED <<pc, after_sequence, wanted, event, events, returnedAt>>

\* The whole body runs under g_emcy_mutex; the notification afterwards only
\* lets a waiter re-evaluate its predicate.
emcyCallback(n, c) ==
    LET kept == IF Len(g_emcy_events) >= Capacity
                THEN Tail(g_emcy_events) ELSE g_emcy_events
    IN  /\ g_emcy_sequence < MaxEvents
        /\ g_emcy_sequence' = g_emcy_sequence + 1
        /\ g_emcy_events' = Append(kept, [sequence   |-> g_emcy_sequence + 1,
                                          node_id    |-> n,
                                          error_code |-> c])
        /\ published' = Append(published, <<n, c>>)
        /\ UNCHANGED <<pc, after_sequence, wanted, event, events, returnedAt>>

-----------------------------------------------------------------------------
(* Process thread.                                                         *)

\* Mutant: the comparison with the snapshot misses the event right after it.
FindMissesNext(after, want) ==
    {i \in 1..Len(g_emcy_events) :
        /\ g_emcy_events[i].sequence > after + 1
        /\ <<g_emcy_events[i].node_id, g_emcy_events[i].error_code>> = want}

\* The retained positions that satisfy the wait, all of them.
findEmcyEventLocked(after, want) ==
    {i \in 1..Len(g_emcy_events) :
        /\ g_emcy_events[i].sequence > after
        /\ <<g_emcy_events[i].node_id, g_emcy_events[i].error_code>> = want}

snapshotCanopenEmcySequence ==
    /\ pc # "waiting"
    /\ pc' = "idle"
    /\ after_sequence' = g_emcy_sequence
    /\ event' = 0
    /\ events' = {}
    /\ UNCHANGED <<g_emcy_sequence, g_emcy_events, published, wanted, returnedAt>>

\* waitForCanopenEmcyEvent() takes the mutex and blocks in wait_for().
waitForCanopenEmcyEvent(n, c) ==
    /\ pc # "waiting"
    /\ pc' = "waiting"
    /\ wanted' = <<n, c>>
    /\ event' = 0
    /\ events' = {}
    /\ UNCHANGED <<g_emcy_sequence, g_emcy_events, published, after_sequence,
                   returnedAt>>

\* The predicate holds under the mutex: the second search, with the mutex
\* still held, copies the first match.
WaitMatches ==
    LET found == findEmcyEventLocked(after_sequence, wanted)
    IN  /\ pc = "waiting"
        /\ \E i \in found :
             /\ \A j \in found : i <= j
             /\ event' = g_emcy_events[i].sequence
        /\ pc' = "matched"
        /\ returnedAt' = g_emcy_sequence
        /\ UNCHANGED <<g_emcy_sequence, g_emcy_events, published,
                       after_sequence, wanted, events>>

\* wait_for() evaluates the predicate once more when the time is up, so it
\* reports a timeout only in a state in which the predicate is false.
WaitTimesOut ==
    /\ pc = "waiting"
    /\ findEmcyEventLocked(after_sequence, wanted) = {}
    /\ pc' = "timedOut"
    /\ returnedAt' = g_emcy_sequence
    /\ UNCHANGED <<g_emcy_sequence, g_emcy_events, published, after_sequence,
                   wanted, event, events>>

\* The vector holds the selected events in deque order, that is by sequence.
getCanopenEmcyEventsAfter(n) ==
    /\ pc # "waiting"
    /\ pc' = "listed"
    /\ events' = {g_emcy_events[i] : i \in {j \in 1..Len(g_emcy_events) :
                     /\ g_emcy_events[j].sequence > after_sequence
                     /\ g_emcy_events[j].node_id = n}}
    /\ wanted' = <<n, wanted[2]>>
    /\ event' = 0
    /\ returnedAt' = g_emcy_sequence
    /\ UNCHANGED <<g_emcy_sequence, g_emcy_events, published, after_sequence>>

Next ==
    \/ \E n \in Nodes, c \in Codes :
          emcyCallback(n, c) \/ waitForCanopenEmcyEvent(n, c)
    \/ \E n \in Nodes : getCanopenEmcyEventsAfter(n)
    \/ snapshotCanopenEmcySequence
    \/ WaitMatches
    \/ WaitTimesOut

Spec == Init /\ [][Next]_vars

-----------------------------------------------------------------------------
(* Properties.                                                             *)

\* Type correctness of the observer's state.
TypeOK ==
    /\ g_emcy_sequence \in Nat
    /\ g_emcy_events \in Seq(Event) /\ Len(g_emcy_events) <= Capacity
    /\ published \in Seq(Nodes \X Codes)
    /\ pc \in {"idle", "waiting", "matched", "timedOut", "listed"}
    /\ after_sequence \in Nat
    /\ wanted \in Nodes \X Codes
    /\ event \in Nat
    /\ events \subseteq Event
    /\ returnedAt \in Nat

\* The deque holds exactly the newest min(Capacity, n) of the n events ever
\* published, with consecutive sequence numbers that end at g_emcy_sequence
\* (emcyCallback() assigns the sequence under the lock of the insertion).
DequeIsNewestSuffix ==
    /\ g_emcy_sequence = Len(published)
    /\ Len(g_emcy_events) =
          IF g_emcy_sequence < Capacity THEN g_emcy_sequence ELSE Capacity
    /\ \A i \in 1..Len(g_emcy_events) :
          LET k == g_emcy_sequence - Len(g_emcy_events) + i
          IN  /\ g_emcy_events[i].sequence = k
              /\ <<g_emcy_events[i].node_id,
                   g_emcy_events[i].error_code>> = published[k]

\* A wait that timed out missed nothing: if at most Capacity events arrived
\* between the snapshot and the return, none of them matched.  With more, an
\* early match may have been evicted before the waiter ran.
TimeoutMeansNoMatch ==
    (pc = "timedOut" /\ returnedAt <= after_sequence + Capacity) =>
        \A k \in (after_sequence + 1)..returnedAt : published[k] # wanted

Log == INSTANCE EmcyLog WITH
           log     <- published,
           phase   <- pc,
           mark    <- after_sequence,
           want    <- wanted,
           answer  <- event,
           listing <- {e.sequence : e \in events}

\* The bounded deque with its sequence numbers implements the sliding log: a
\* wait returns the earliest event after the snapshot that matches and is still
\* among the newest Capacity ones, times out only when there is none, and the
\* bulk query returns all of them.
ImplementsLog == Log!LogSpec
=============================================================================
