----------------------------- MODULE CanopenNmt -----------------------------
(***************************************************************************)
(* Confirmed NMT commands (src/canopen_nmt.cpp).                           *)
(*                                                                         *)
(* issueNmtCommandAndWaitForState() runs on the process thread; the Lely   *)
(* event loop publishes remote state changes through nmtStateCallback().   *)
(* They share g_nmt_states under g_nmt_state_mutex.  An action is one      *)
(* critical section or one call into Lely.                                 *)
(*                                                                         *)
(* Lely and the nodes are external: a node reports its state in heartbeat  *)
(* frames, Lely takes frames in order, updates its managed state (local    *)
(* object 0x1F82) and calls OnState() only when that state changed.        *)
(***************************************************************************)
EXTENDS Integers, Sequences

CONSTANTS Nodes,      \* managed remote nodes (node-IDs 1..127)
          States,     \* NMT states; a command is named by its target state
          BootUp,     \* NmtState::BOOTUP, the placeholder state
          MaxReports, \* bound: heartbeat frames in one behaviour
          MaxWire     \* bound: heartbeat frames waiting in the receive queue

ASSUME NmtAssumption ==
    /\ BootUp \in States
    /\ MaxReports \in Nat
    /\ MaxWire \in Nat

VARIABLES
    remote,      \* external: the state each node is in
    wire,        \* external: <<node, state>> reports Lely has not taken yet
    reports,     \* number of reports sent so far
    managed,     \* external: Lely's 0x1F82 entry per node
    dispatching, \* OnState calls entered but not yet published, 0 or 1 of them
    registered,  \* g_registered_master = &master
    g_nmt_states,\* [generation, state] per node
    pc,          \* process thread
    target,      \* node_id and expected_state of the current call
    already_expected_before,
    baseline_generation,
    result,      \* how the last call returned
    reached,     \* history: target node was in the state since Command()
    stale,       \* history: a report of that state was under way at Command()
    since        \* history: <<state published last for target since Command()>>

lelyVars == <<remote, wire, reports, managed, dispatching>>
callVars == <<pc, target, already_expected_before, baseline_generation, result>>
histVars == <<reached, stale, since>>
vars == <<lelyVars, registered, g_nmt_states, callVars, histVars>>

Results == {"none", "confirmed", "idempotent", "refused", "timedOut"}

Init ==
    /\ remote \in [Nodes -> States]
    /\ wire = <<>>
    /\ reports = 0
    /\ managed = [n \in Nodes |-> BootUp]
    /\ dispatching = <<>>
    /\ registered = FALSE
    /\ g_nmt_states = [n \in Nodes |-> [generation |-> 0, state |-> BootUp]]
    /\ pc = "idle"
    /\ target \in Nodes \X States
    /\ already_expected_before = FALSE
    /\ baseline_generation = 0
    /\ result = "none"
    /\ reached = FALSE
    /\ stale = FALSE
    /\ since = <<>>

-----------------------------------------------------------------------------
(* External: the nodes and Lely.                                           *)

\* A node enters state s: it obeys a command, or changes state on its own.
\* A command it never obeys was lost, or the node is off the bus.
NodeEnters(n, s) ==
    /\ remote' = [remote EXCEPT ![n] = s]
    /\ reached' = (reached \/ target = <<n, s>>)
    /\ UNCHANGED <<wire, reports, managed, dispatching, registered,
                   g_nmt_states, callVars, stale, since>>

\* A node reports its state in a heartbeat frame.
NodeReports(n) ==
    /\ reports < MaxReports
    /\ Len(wire) < MaxWire
    /\ wire' = Append(wire, <<n, remote[n]>>)
    /\ reports' = reports + 1
    /\ UNCHANGED <<remote, managed, dispatching, registered,
                   g_nmt_states, callVars, histVars>>

\* The event loop takes one frame; an unchanged state makes no callback.
LelyTakesReport ==
    /\ dispatching = <<>>
    /\ wire # <<>>
    /\ LET n == Head(wire)[1]
           s == Head(wire)[2]
       IN  /\ managed' = [managed EXCEPT ![n] = s]
           /\ dispatching' = IF managed[n] = s THEN <<>> ELSE <<Head(wire)>>
    /\ wire' = Tail(wire)
    /\ UNCHANGED <<remote, reports, registered, g_nmt_states,
                   callVars, histVars>>

-----------------------------------------------------------------------------
(* Event-loop thread.                                                      *)

nmtStateCallback ==
    /\ dispatching # <<>>
    /\ LET n == dispatching[1][1]
           s == dispatching[1][2]
       IN  g_nmt_states' = IF registered
             THEN [g_nmt_states EXCEPT
                     ![n] = [generation |-> @.generation + 1, state |-> s]]
             ELSE g_nmt_states
    /\ since' = IF registered /\ dispatching[1][1] = target[1]
                THEN <<dispatching[1][2]>> ELSE since
    /\ dispatching' = <<>>
    /\ UNCHANGED <<remote, wire, reports, managed, registered,
                   callVars, reached, stale>>

-----------------------------------------------------------------------------
(* Process thread.                                                         *)

\* OnState() is installed and the table cleared for the new master.
registerNmtStateCallback ==
    /\ ~registered
    /\ pc = "idle"
    /\ registered' = TRUE
    /\ g_nmt_states' = [n \in Nodes |-> [generation |-> 0, state |-> BootUp]]
    /\ UNCHANGED <<lelyVars, callVars, histVars>>

\* The call is entered with a valid node-ID.
CallHelper(n, s) ==
    /\ pc = "idle"
    /\ pc' = "readBefore"
    /\ target' = <<n, s>>
    /\ result' = "none"
    /\ reached' = FALSE
    /\ stale' = FALSE
    /\ since' = <<>>
    /\ UNCHANGED <<lelyVars, registered, g_nmt_states,
                   already_expected_before, baseline_generation>>

\* Broadcast and out-of-range node-IDs cannot be confirmed.
CallWithInvalidNode ==
    /\ pc = "idle"
    /\ result' = "refused"
    /\ UNCHANGED <<lelyVars, registered, g_nmt_states, pc, target,
                   already_expected_before, baseline_generation, histVars>>

\* The first read of 0x1F82; readManagedNmtState() may also fail.
ReadManagedBefore ==
    /\ pc = "readBefore"
    /\ already_expected_before' \in {FALSE, managed[target[1]] = target[2]}
    /\ pc' = "submit"
    /\ UNCHANGED <<lelyVars, registered, g_nmt_states, target,
                   baseline_generation, result, histVars>>

\* Reports of state s by node n that exist outside g_nmt_states.
UnderWay(n, s) ==
    \/ \E i \in 1..Len(wire) : wire[i] = <<n, s>>
    \/ \E i \in 1..Len(dispatching) : dispatching[i] = <<n, s>>

\* Mutant: the baseline of an earlier call is kept.
SubmitWithoutBaseline ==
    /\ pc = "submit"
    /\ registered
    /\ pc' = "readAfter"
    /\ reached' = (remote[target[1]] = target[2])
    /\ stale' = UnderWay(target[1], target[2])
    /\ since' = <<>>
    /\ UNCHANGED <<remote, wire, reports, managed, dispatching, registered,
                   g_nmt_states, target, already_expected_before,
                   baseline_generation, result>>

\* Mutant: the snapshot is one generation ahead of the table.
SubmitBaselineAhead ==
    /\ pc = "submit"
    /\ registered
    /\ baseline_generation' = g_nmt_states[target[1]].generation + 1
    /\ pc' = "readAfter"
    /\ reached' = (remote[target[1]] = target[2])
    /\ stale' = UnderWay(target[1], target[2])
    /\ since' = <<>>
    /\ UNCHANGED <<remote, wire, reports, managed, dispatching, registered,
                   g_nmt_states, target, already_expected_before, result>>

\* Under the mutex: the generation snapshot, then Command().
SubmitCommand ==
    /\ pc = "submit"
    /\ registered
    /\ baseline_generation' = g_nmt_states[target[1]].generation
    /\ pc' = "readAfter"
    /\ reached' = (remote[target[1]] = target[2])
    /\ stale' = UnderWay(target[1], target[2])
    /\ since' = <<>>
    /\ UNCHANGED <<remote, wire, reports, managed, dispatching, registered,
                   g_nmt_states, target, already_expected_before, result>>

\* The observer is not registered for this master, or Command() throws.
SubmitRefused ==
    /\ pc = "submit"
    /\ pc' = "idle"
    /\ result' = "refused"
    /\ baseline_generation' = IF registered
                              THEN g_nmt_states[target[1]].generation
                              ELSE baseline_generation
    /\ UNCHANGED <<lelyVars, registered, g_nmt_states, target,
                   already_expected_before, histVars>>

\* The idempotent shortcut: the second read of 0x1F82 agrees with the first.
IdempotentShortcut ==
    /\ pc = "readAfter"
    /\ already_expected_before
    /\ managed[target[1]] = target[2]
    /\ pc' = "idle"
    /\ result' = "idempotent"
    /\ UNCHANGED <<lelyVars, registered, g_nmt_states, target,
                   already_expected_before, baseline_generation, histVars>>

\* Mutant: the generation snapshot is taken after Command().
BeginWaitLateBaseline ==
    /\ pc = "readAfter"
    /\ pc' = "waiting"
    /\ baseline_generation' = g_nmt_states[target[1]].generation
    /\ UNCHANGED <<lelyVars, registered, g_nmt_states, target,
                   already_expected_before, result, histVars>>

\* No shortcut (the second read may also fail): block in wait_for().
BeginWait ==
    /\ pc = "readAfter"
    /\ pc' = "waiting"
    /\ UNCHANGED <<lelyVars, registered, g_nmt_states, target,
                   already_expected_before, baseline_generation, result,
                   histVars>>

\* The predicate of wait_for().
FreshMatch ==
    /\ g_nmt_states[target[1]].generation > baseline_generation
    /\ g_nmt_states[target[1]].state = target[2]

WaitReaches ==
    /\ pc = "waiting"
    /\ FreshMatch
    /\ pc' = "idle"
    /\ result' = "confirmed"
    /\ UNCHANGED <<lelyVars, registered, g_nmt_states, target,
                   already_expected_before, baseline_generation, histVars>>

WaitTimesOut ==
    /\ pc = "waiting"
    /\ ~FreshMatch
    /\ pc' = "idle"
    /\ result' = "timedOut"
    /\ UNCHANGED <<lelyVars, registered, g_nmt_states, target,
                   already_expected_before, baseline_generation, histVars>>

Next ==
    \/ \E n \in Nodes, s \in States : NodeEnters(n, s) \/ CallHelper(n, s)
    \/ \E n \in Nodes : NodeReports(n)
    \/ LelyTakesReport
    \/ nmtStateCallback
    \/ registerNmtStateCallback
    \/ CallWithInvalidNode
    \/ ReadManagedBefore
    \/ SubmitCommand
    \/ SubmitRefused
    \/ IdempotentShortcut
    \/ BeginWait
    \/ WaitReaches
    \/ WaitTimesOut

Spec == Init /\ [][Next]_vars

-----------------------------------------------------------------------------
(* Properties.                                                             *)

Report == Nodes \X States

\* Type correctness of the observer, the call and the external state; a
\* snapshot is never ahead of the table it was taken from.
TypeOK ==
    /\ remote \in [Nodes -> States]
    /\ wire \in Seq(Report)
    /\ reports \in Nat
    /\ managed \in [Nodes -> States]
    /\ dispatching \in Seq(Report) /\ Len(dispatching) <= 1
    /\ registered \in BOOLEAN
    /\ g_nmt_states \in [Nodes -> [generation : Nat, state : States]]
    /\ pc \in {"idle", "readBefore", "submit", "readAfter", "waiting"}
    /\ target \in Report
    /\ already_expected_before \in BOOLEAN
    /\ baseline_generation \in Nat
    /\ pc \in {"readAfter", "waiting"} =>
           baseline_generation <= g_nmt_states[target[1]].generation
    /\ result \in Results
    /\ reached \in BOOLEAN
    /\ stale \in BOOLEAN
    /\ since \in Seq(States) /\ Len(since) <= 1

\* A call that returns "confirmed" is right about the node: the node was in
\* the expected state at some moment since Command(), unless a report of that
\* state was already queued or in dispatch when the command was submitted (the
\* residual race include/canopen_nmt.h accepts).
ConfirmedHasEvidence ==
    result = "confirmed" => reached \/ stale

\* A publication made between Command() and wait_for() is never lost: the
\* helper gives up only if the state published last for the node since
\* Command() is not the expected one (an earlier match may be superseded).
TimeoutLosesNoConfirmation ==
    [][(pc = "waiting" /\ result' = "timedOut") => since # <<target[2]>>]_vars
=============================================================================
