-------------------------- MODULE NmtMasterProcess --------------------------
(***************************************************************************)
(* NMT-master validation (src/nmt_master_process.cpp): the device under    *)
(* test commands a Lely software slave, whose OnCommand callback fills a   *)
(* ring buffer on the event-loop thread; the control thread consumes it    *)
(* and requires one exact sequence, re-enabling the peer's heartbeat after *)
(* every reset.                                                            *)
(*                                                                         *)
(* External: the device sends any NMT command at any time.  Lely reports   *)
(* every state entry; a communication reset reloads 0x1017 between its     *)
(* RESET_COMM and ENTER_PREOP callbacks, and ends in Operational unless    *)
(* 0x1F80 bit 2 is set.  A callback may already be under way when          *)
(* OnCommand() replaces it.                                                *)
(***************************************************************************)
EXTENDS Integers, Sequences

CONSTANT Capacity   \* kNmtCommandQueueCapacity

ASSUME CapacityAssumption == Capacity \in Nat \ {0}

Commands == {"START", "STOP", "ENTER_PREOP", "RESET_NODE", "RESET_COMM"}

VARIABLES
    queue, head, count, overflow, active,   \* NmtCommandObserverState
    installed,   \* OnCommand slot holds nmtCommandCallback
    startup,     \* external: 0x1F80 of the EDS
    nmt, todo,   \* external: slave state; what is left of the current reset
    heartbeat,   \* external: 0x1017 is "test" (the test period) or "default"
    calling,     \* external: the command of the callback under way
    pc, step, result,   \* control thread; step: commands accepted so far
    good,        \* history: commands seen that match the sequence, -1: not
    gap          \* history: 0x1017 was lost after the final Start

observer == <<queue, head, count, overflow, active>>
slave == <<installed, startup, nmt, todo, calling>>
control == <<pc, step, result>>
vars == <<observer, slave, heartbeat, control, good, gap>>

autoStartAfterReset == startup # "manual"

Step(command, restoreHeartbeat) ==
    [command |-> command, restoreHeartbeat |-> restoreHeartbeat]

\* What follows a reset when Lely starts the slave by itself.
FixtureSteps == <<Step("START", FALSE), Step("ENTER_PREOP", FALSE)>>

FormalSteps(fixture) ==
    <<Step("START", FALSE), Step("STOP", FALSE), Step("ENTER_PREOP", FALSE),
      Step("RESET_COMM", FALSE), Step("ENTER_PREOP", TRUE)>>
    \o fixture
    \o <<Step("RESET_NODE", FALSE), Step("RESET_COMM", FALSE),
         Step("ENTER_PREOP", TRUE)>>
    \o fixture
    \o <<Step("START", FALSE)>>

\* Mutant: the heartbeat is restored on entry to the communication reset.
RestoreAtReset(auto) ==
    LET early(s) == Step(s.command, s.command = "RESET_COMM")
        steps == IF auto THEN <<Step("ENTER_PREOP", FALSE)>>
                              \o FormalSteps(FixtureSteps)
                 ELSE FormalSteps(<<>>)
    IN  [i \in DOMAIN steps |-> early(steps[i])]

\* The sequence nmtMasterProcess() and its helpers walk through.
ExpectedSteps(auto) ==
    IF auto THEN <<Step("ENTER_PREOP", FALSE)>> \o FormalSteps(FixtureSteps)
    ELSE FormalSteps(<<>>)

Steps == ExpectedSteps(autoStartAfterReset)
Finals == {"finalConfigure", "finalWindow", "finalRead"}

Init ==
    /\ queue \in [0..(Capacity - 1) -> {"START"}]
    /\ head = 0 /\ count = 0 /\ overflow = FALSE /\ active = FALSE
    /\ installed = FALSE
    /\ startup \in {"auto", "manual", "absent", "unreadable"}
    /\ nmt = IF autoStartAfterReset THEN "START" ELSE "ENTER_PREOP"
    /\ todo = <<>>
    /\ heartbeat = "default"
    /\ calling = "none"
    /\ pc = "register" /\ step = 0 /\ result = 1
    /\ good = 0
    /\ gap = FALSE

-----------------------------------------------------------------------------
(* The slave and its event loop.                                           *)

ResetSteps ==
    <<"RESET_COMM", "reload", "ENTER_PREOP">>
    \o (IF autoStartAfterReset THEN <<"START">> ELSE <<>>)

\* A command changes the state; a command to enter the present state does not.
DutCommand(c) ==
    /\ pc # "done"
    /\ todo = <<>> /\ calling = "none"
    /\ c # nmt
    /\ todo' = CASE c = "RESET_NODE" -> <<"RESET_NODE">> \o ResetSteps
                 [] c = "RESET_COMM" -> ResetSteps
                 [] OTHER -> <<c>>
    /\ UNCHANGED <<observer, installed, startup, nmt, calling, heartbeat,
                   control, good, gap>>

\* Entering a state: Lely looks up the OnCommand slot.
EnterState ==
    /\ todo # <<>> /\ calling = "none"
    /\ Head(todo) # "reload"
    /\ nmt' = Head(todo)
    /\ calling' = IF installed THEN Head(todo) ELSE "none"
    /\ todo' = Tail(todo)
    /\ UNCHANGED <<observer, installed, startup, heartbeat, control, good, gap>>

Reload ==
    /\ todo # <<>> /\ calling = "none"
    /\ Head(todo) = "reload"
    /\ heartbeat' = "default"
    /\ gap' = (gap \/ pc \in Finals)
    /\ todo' = Tail(todo)
    /\ UNCHANGED <<observer, installed, startup, nmt, calling, control, good>>

\* The histories follow the callbacks up to the end of the final window.
Follow(c) ==
    good' = IF pc \in {"finalRead", "deactivate", "remove", "clear", "done"}
            THEN good
            ELSE IF good # -1 /\ good < Len(Steps) /\ c = Steps[good + 1].command
                 THEN good + 1
                 ELSE -1

Enqueue(c, tail) ==
    /\ queue' = [queue EXCEPT ![tail] = c]
    /\ count' = count + 1

\* Mutant: a full queue drops the command without a trace.
CallbackSilentDrop ==
    /\ calling # "none"
    /\ calling' = "none"
    /\ \/ /\ active /\ count < Capacity
          /\ Enqueue(calling, (head + count) % Capacity)
          /\ Follow(calling)
       \/ /\ active /\ count >= Capacity
          /\ Follow(calling)
          /\ UNCHANGED <<queue, count>>
       \/ ~active /\ UNCHANGED <<queue, count, good>>
    /\ UNCHANGED <<head, overflow, active, installed, startup, nmt, todo,
                   heartbeat, control, gap>>

\* Mutant: the ring's tail ignores where its head is.
CallbackTailFromZero ==
    /\ calling # "none"
    /\ calling' = "none"
    /\ \/ /\ active /\ count < Capacity
          /\ Enqueue(calling, count % Capacity)
          /\ Follow(calling)
          /\ UNCHANGED overflow
       \/ /\ active /\ count >= Capacity
          /\ overflow' = TRUE
          /\ Follow(calling)
          /\ UNCHANGED <<queue, count>>
       \/ ~active /\ UNCHANGED <<queue, count, overflow, good>>
    /\ UNCHANGED <<head, active, installed, startup, nmt, todo, heartbeat,
                   control, gap>>

\* Mutant: off by one, a full queue still takes a command.
CallbackOverfills ==
    /\ calling # "none"
    /\ calling' = "none"
    /\ \/ /\ active /\ count <= Capacity
          /\ Enqueue(calling, (head + count) % Capacity)
          /\ Follow(calling)
          /\ UNCHANGED overflow
       \/ /\ active /\ count > Capacity
          /\ overflow' = TRUE
          /\ Follow(calling)
          /\ UNCHANGED <<queue, count>>
       \/ ~active /\ UNCHANGED <<queue, count, overflow, good>>
    /\ UNCHANGED <<head, active, installed, startup, nmt, todo, heartbeat,
                   control, gap>>

nmtCommandCallback ==
    /\ calling # "none"
    /\ calling' = "none"
    /\ \/ /\ active /\ count < Capacity
          /\ Enqueue(calling, (head + count) % Capacity)
          /\ Follow(calling)
          /\ UNCHANGED overflow
       \/ /\ active /\ count >= Capacity
          /\ overflow' = TRUE
          /\ Follow(calling)
          /\ UNCHANGED <<queue, count>>
       \/ ~active /\ UNCHANGED <<queue, count, overflow, good>>
    /\ UNCHANGED <<head, active, installed, startup, nmt, todo, heartbeat,
                   control, gap>>

-----------------------------------------------------------------------------
(* The control thread.                                                     *)

Goto(label) == pc' = label /\ UNCHANGED <<step, result>>

\* goto cleanup with result still 1.
Cleanup == Goto("deactivate")

registerNmtCommandObserver ==
    /\ pc = "register"
    /\ head' = 0 /\ count' = 0 /\ overflow' = FALSE /\ active' = TRUE
    /\ Goto("install")
    /\ UNCHANGED <<queue, slave, heartbeat, good, gap>>

InstallCallback ==
    /\ pc = "install"
    /\ installed' = TRUE
    /\ Goto("readStartup")
    /\ UNCHANGED <<observer, startup, nmt, todo, calling, heartbeat, good, gap>>

peerAutoStartsAfterReset ==
    /\ pc = "readStartup"
    /\ \/ startup = "unreadable" /\ Cleanup
       \/ startup # "unreadable" /\ Goto("configure")
    /\ UNCHANGED <<observer, slave, heartbeat, good, gap>>

\* configurePeerHeartbeat(): the local write of 0x1017 may fail.
configurePeerHeartbeat(next) ==
    \/ heartbeat' = "test" /\ Goto(next)
    \/ UNCHANGED heartbeat /\ Cleanup

Configure ==
    /\ \/ pc = "configure" /\ configurePeerHeartbeat("wait")
       \/ pc = "restore" /\ configurePeerHeartbeat("wait")
       \/ pc = "finalConfigure" /\ configurePeerHeartbeat("finalWindow")
    /\ UNCHANGED <<observer, slave, good, gap>>

Observed == count > 0 \/ overflow

Consume ==
    /\ head' = (head + 1) % Capacity
    /\ count' = count - 1
    /\ UNCHANGED <<queue, overflow, active>>

\* The next command is the expected one: waitForNmtMasterStep() and
\* enterPreOperational().
StepPassed ==
    /\ pc = "wait"
    /\ Observed /\ ~overflow
    /\ queue[head] = Steps[step + 1].command
    /\ Consume
    /\ step' = step + 1
    /\ pc' = CASE step' = Len(Steps) -> "finalConfigure"
               [] Steps[step'].restoreHeartbeat -> "restore"
               [] OTHER -> "wait"
    /\ UNCHANGED <<result, slave, heartbeat, good, gap>>

\* Timeout, overflow or the wrong command.
StepFailed ==
    /\ pc = "wait"
    /\ \/ ~Observed /\ UNCHANGED observer
       \/ overflow /\ UNCHANGED observer
       \/ /\ Observed /\ ~overflow
          /\ queue[head] # Steps[step + 1].command
          /\ Consume
    /\ Cleanup
    /\ UNCHANGED <<slave, heartbeat, good, gap>>

\* keepPeerAliveForFinalHeartbeat(): the window passes in silence or not.
FinalWindow ==
    /\ pc = "finalWindow"
    /\ \/ ~Observed /\ UNCHANGED observer /\ Goto("finalRead")
       \/ overflow /\ UNCHANGED observer /\ Cleanup
       \/ Observed /\ ~overflow /\ Consume /\ Cleanup
    /\ UNCHANGED <<slave, heartbeat, good, gap>>

FinalRead ==
    /\ pc = "finalRead"
    /\ pc' = "deactivate"
    /\ \/ heartbeat = "test" /\ result' = 0
       \/ UNCHANGED result   \* read error or a changed period
    /\ UNCHANGED <<step, observer, slave, heartbeat, good, gap>>

\* Mutant: the observer stays active while its callback is removed.
DeactivateForgotten ==
    /\ pc = "deactivate"
    /\ Goto("remove")
    /\ UNCHANGED <<observer, slave, heartbeat, good, gap>>

\* unregisterNmtCommandObserver(): deactivate, remove the callback, clear.
Deactivate ==
    /\ pc = "deactivate"
    /\ active' = FALSE
    /\ Goto("remove")
    /\ UNCHANGED <<queue, head, count, overflow, slave, heartbeat, good, gap>>

RemoveCallback ==
    /\ pc = "remove"
    /\ installed' = FALSE
    /\ Goto("clear")
    /\ UNCHANGED <<observer, startup, nmt, todo, calling, heartbeat, good, gap>>

ClearObserver ==
    /\ pc = "clear"
    /\ head' = 0 /\ count' = 0 /\ overflow' = FALSE
    /\ Goto("done")
    /\ UNCHANGED <<queue, active, slave, heartbeat, good, gap>>

Done == pc = "done" /\ todo = <<>> /\ calling = "none" /\ UNCHANGED vars

Next ==
    \/ \E c \in Commands : DutCommand(c)
    \/ EnterState \/ Reload \/ nmtCommandCallback
    \/ registerNmtCommandObserver \/ InstallCallback
    \/ peerAutoStartsAfterReset \/ Configure
    \/ StepPassed \/ StepFailed \/ FinalWindow \/ FinalRead
    \/ Deactivate \/ RemoveCallback \/ ClearObserver
    \/ Done

Spec == Init /\ [][Next]_vars

-----------------------------------------------------------------------------
(* Properties.                                                             *)

\* Type correctness; the ring never holds more than its capacity.
TypeOK ==
    /\ queue \in [0..(Capacity - 1) -> Commands]
    /\ head \in 0..(Capacity - 1) /\ count \in 0..Capacity
    /\ overflow \in BOOLEAN /\ active \in BOOLEAN /\ installed \in BOOLEAN
    /\ startup \in {"auto", "manual", "absent", "unreadable"}
    /\ nmt \in Commands
    /\ todo \in Seq(Commands \cup {"reload"})
    /\ heartbeat \in {"default", "test"}
    /\ calling \in Commands \cup {"none"}
    /\ pc \in {"register", "install", "readStartup", "configure", "wait",
               "restore", "deactivate", "remove", "clear", "done"} \cup Finals
    /\ step \in 0..Len(Steps)
    /\ result \in {0, 1}
    /\ good \in -1..Len(Steps)
    /\ gap \in BOOLEAN

\* The ring buffer behaves as the bounded queue of CommandQueue.
Fifo == INSTANCE CommandQueue WITH
    items <- [i \in 1..count |-> queue[(head + i - 1) % Capacity]],
    lost <- overflow, open <- active

\* The observer of nmtCommandCallback() and its waiters implements that
\* queue: order kept across wrap-around, nothing lost without overflow.
ImplementsCommandQueue == Fifo!QueueSpec

\* A pass is proof: the commands the slave went through, up to the end of the
\* final window, are exactly the expected sequence, none missing, none added,
\* and no reset took the peer's heartbeat away after the final Start.
PassMeansExactSequence == result = 0 => good = Len(Steps) /\ ~gap

\* After a reset of the sequence, whenever the control thread has handled
\* everything the peer reported and no reset is half-way, the peer produces
\* its heartbeat again: the device must not lose a peer that only waits for
\* its next command.
HeartbeatWhileWaiting ==
    (/\ pc = "wait" /\ good = step
     /\ todo = <<>> /\ calling = "none"
     /\ \E i \in 1..step : Steps[i].restoreHeartbeat)
        => heartbeat = "test"

\* After a run the observer is empty, and a callback that was under way when
\* the run ended leaves no trace in it.
CleanAfterRun == pc = "done" => count = 0 /\ ~overflow /\ ~active
=============================================================================
