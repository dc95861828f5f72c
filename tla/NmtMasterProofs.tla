-------------------------- MODULE NmtMasterProofs --------------------------
(***************************************************************************)
(* Proofs about NmtMasterProcess, for every capacity of the ring buffer:   *)
(* a pass implies the exact command sequence, the heartbeat is back while  *)
(* the control thread waits, nothing is left behind after a run, and the   *)
(* ring buffer implements CommandQueue.                                    *)
(***************************************************************************)
EXTENDS NmtMasterProcess, TLAPS

-----------------------------------------------------------------------------
(* The inductive invariant.                                                *)

\* The pcs in which a callback still counts: Follow() changes good.
Watched == pc \notin {"finalRead", "deactivate", "remove", "clear", "done"}

\* The i-th command the ring buffer holds, oldest first.
Item(i) == queue[(head + i - 1) % Capacity]

\* What each stage of the control thread knows of the observer and the slot.
Stages ==
    /\ active <=> pc \notin {"register", "remove", "clear", "done"}
    /\ pc \in {"register", "install"} =>
         /\ ~installed /\ calling = "none"
         /\ count = 0 /\ ~overflow /\ good = 0
    /\ pc \notin {"register", "install", "clear", "done"} => installed
    /\ pc \in {"register", "install", "readStartup", "configure"} => step = 0
    /\ pc \in {"wait", "restore"} => step < Len(Steps)
    /\ pc \in Finals => step = Len(Steps)
    /\ pc = "done" => count = 0 /\ ~overflow

\* The queue holds the commands between step and good as long as they match
\* the sequence; once they do not, the mismatch is still in the queue.
Track ==
    Watched =>
      /\ ~overflow =>
           \/ /\ good = step + count
              /\ \A i \in 1..count : Item(i) = Steps[step + i].command
           \/ /\ good = -1
              /\ \E i \in 1..count :
                   step + i > Len(Steps) \/ Item(i) # Steps[step + i].command
      /\ overflow => good = -1 \/ good > step + count

\* A reset in progress: 0x1017 is reloaded after the RESET_COMM callback and
\* before the last state entry, so the last command followed was RESET_COMM.
ResetOrder ==
    /\ \A i \in 2..Len(todo) : todo[i] = "reload" => todo[i - 1] = "RESET_COMM"
    /\ todo # <<>> => todo[Len(todo)] # "reload"
    /\ todo # <<>> /\ Head(todo) = "reload" /\ calling # "none" =>
         calling = "RESET_COMM"
    /\ Watched /\ todo # <<>> /\ Head(todo) = "reload" /\ calling = "none"
         /\ good > 0 => Steps[good].command = "RESET_COMM"

\* A heartbeat lost after the final Start shows in the queue before the final
\* read, and in 0x1017 at the final read.
Loss ==
    /\ pc \notin Finals \cup {"deactivate", "remove", "clear", "done"} => ~gap
    /\ pc \in {"finalConfigure", "finalWindow"} /\ gap => good = -1
    /\ pc = "finalRead" => good = Len(Steps)
    /\ pc = "finalRead" /\ gap => heartbeat = "default"

\* The control thread waits on a peer without heartbeat only while a reset is
\* queued that it has not handled or that is still in progress.
Waiting ==
    (/\ pc = "wait" /\ heartbeat = "default" /\ good # -1
     /\ \E i \in 1..step : Steps[i].restoreHeartbeat)
       => \E g \in step..good :
            /\ g > 0 /\ Steps[g].command = "RESET_COMM"
            /\ g = good => todo # <<>> \/ calling # "none"

Verdict ==
    /\ result = 0 => pc \in {"deactivate", "remove", "clear", "done"}
    /\ PassMeansExactSequence

IInv ==
    TypeOK /\ Stages /\ Track /\ ResetOrder /\ Loss /\ Waiting /\ Verdict

-----------------------------------------------------------------------------
(* The sequence of expected steps.                                         *)

\* What the proofs need of a sequence of steps: it ends with a Start that
\* restores nothing, and the step after a communication reset restores the
\* heartbeat.
WellFormed(s) ==
    /\ Len(s) \in Nat /\ Len(s) > 1
    /\ s[Len(s)].command = "START" /\ ~s[Len(s)].restoreHeartbeat
    /\ \A i \in 1..(Len(s) - 1) :
         s[i].command = "RESET_COMM" => s[i + 1].restoreHeartbeat

\* The steps of a peer that stays in Pre-operational after a reset.
LEMMA ManualSteps == WellFormed(FormalSteps(<<>>))
  <1> DEFINE s == FormalSteps(<<>>)
  <1>1. Len(s) = 9 /\ s[9].command = "START" /\ ~s[9].restoreHeartbeat
    BY DEF FormalSteps, Step
  <1>2. /\ s[1].command = "START" /\ s[2].command = "STOP"
        /\ s[3].command = "ENTER_PREOP" /\ s[4 + 1].restoreHeartbeat = TRUE
        /\ s[5].command = "ENTER_PREOP" /\ s[6].command = "RESET_NODE"
        /\ s[7 + 1].restoreHeartbeat = TRUE /\ s[8].command = "ENTER_PREOP"
    BY DEF FormalSteps, Step
  <1> HIDE DEF s
  <1>3. \A i \in 1..8 : s[i].command = "RESET_COMM" => s[i + 1].restoreHeartbeat
    BY <1>2
  <1>4. WellFormed(s)
    BY <1>1, <1>3 DEF WellFormed
  <1> QED
    BY <1>4 DEF s

\* The steps of a peer that Lely starts after a reset.
LEMMA AutoSteps ==
    WellFormed(<<Step("ENTER_PREOP", FALSE)>> \o FormalSteps(FixtureSteps))
  <1> DEFINE s == <<Step("ENTER_PREOP", FALSE)>> \o FormalSteps(FixtureSteps)
  <1>1. Len(s) = 14 /\ s[14].command = "START" /\ ~s[14].restoreHeartbeat
    BY DEF FormalSteps, FixtureSteps, Step
  <1>2. /\ s[1].command = "ENTER_PREOP" /\ s[2].command = "START"
        /\ s[3].command = "STOP" /\ s[4].command = "ENTER_PREOP"
        /\ s[5 + 1].restoreHeartbeat = TRUE /\ s[6].command = "ENTER_PREOP"
        /\ s[7].command = "START"
    BY DEF FormalSteps, FixtureSteps, Step
  <1>3. /\ s[8].command = "ENTER_PREOP" /\ s[9].command = "RESET_NODE"
        /\ s[10 + 1].restoreHeartbeat = TRUE /\ s[11].command = "ENTER_PREOP"
        /\ s[12].command = "START" /\ s[13].command = "ENTER_PREOP"
    BY DEF FormalSteps, FixtureSteps, Step
  <1> HIDE DEF s
  <1>4. \A i \in 1..13 : s[i].command = "RESET_COMM" => s[i + 1].restoreHeartbeat
    BY <1>2, <1>3
  <1>5. WellFormed(s)
    BY <1>1, <1>4 DEF WellFormed
  <1> QED
    BY <1>5 DEF s

\* ... so the steps are well formed whatever the peer's 0x1F80 says.
LEMMA StepsWellFormed == WellFormed(Steps)
  BY ManualSteps, AutoSteps DEF Steps, ExpectedSteps

\* 0x1F80 does not change, and neither do the steps.
LEMMA StepsFixed == UNCHANGED startup => Steps' = Steps
  BY DEF Steps, ExpectedSteps, autoStartAfterReset

-----------------------------------------------------------------------------
(* The ring buffer.                                                        *)

\* A slot counted from the head wraps around at most once.
LEMMA Wrap ==
    ASSUME NEW h \in 0..(Capacity - 1), NEW i \in 1..Capacity
    PROVE  (h + i - 1) % Capacity =
             IF h + i - 1 < Capacity THEN h + i - 1 ELSE h + i - 1 - Capacity
  <1>1. CASE h + i - 1 < Capacity
    BY <1>1, CapacityAssumption
  <1>2. CASE h + i - 1 >= Capacity
    BY <1>2, CapacityAssumption
  <1> QED
    BY <1>1, <1>2, CapacityAssumption

\* The slot after the head, as the consumers compute it.
LEMMA NextHead ==
    ASSUME NEW h \in 0..(Capacity - 1)
    PROVE  /\ (h + 1) % Capacity \in 0..(Capacity - 1)
           /\ (h + 1) % Capacity = IF h + 1 = Capacity THEN 0 ELSE h + 1
  <1>1. CASE h + 1 < Capacity
    BY <1>1, CapacityAssumption
  <1>2. CASE h + 1 = Capacity
    BY <1>2, CapacityAssumption
  <1> QED
    BY <1>1, <1>2, CapacityAssumption

\* A command put at the tail of a queue that is not full disturbs no other.
LEMMA PutItems ==
    ASSUME TypeOK, NEW c \in Commands, count < Capacity,
           Enqueue(c, (head + count) % Capacity), head' = head
    PROVE  /\ queue' \in [0..(Capacity - 1) -> Commands]
           /\ count' = count + 1 /\ count' \in 0..Capacity
           /\ \A i \in 1..count : Item(i)' = Item(i)
           /\ \A i \in {count'} : Item(i)' = c
  <1> DEFINE t == (head + count) % Capacity
  <1>1. /\ count + 1 \in 1..Capacity /\ count' = count + 1
        /\ head + count = head + (count + 1) - 1
    BY CapacityAssumption DEF TypeOK, Enqueue
  <1>2. t = IF head + count < Capacity THEN head + count
            ELSE head + count - Capacity
    BY <1>1, Wrap DEF TypeOK
  <1>3. t \in 0..(Capacity - 1)
    BY <1>2, CapacityAssumption DEF TypeOK
  <1>4. queue' = [queue EXCEPT ![t] = c]
    BY DEF Enqueue
  <1>5. \A i \in 1..count : (head + i - 1) % Capacity \in 0..(Capacity - 1)
                              /\ (head + i - 1) % Capacity # t
    <2> TAKE i \in 1..count
    <2>1. i \in 1..Capacity
      BY CapacityAssumption DEF TypeOK
    <2> DEFINE u == (head + i - 1) % Capacity
    <2>2. u = IF head + i - 1 < Capacity THEN head + i - 1
              ELSE head + i - 1 - Capacity
      BY <2>1, Wrap DEF TypeOK
    <2>3. /\ head \in Nat /\ head < Capacity /\ count \in Nat
          /\ count < Capacity /\ Capacity \in Nat
      BY CapacityAssumption DEF TypeOK
    <2> HIDE DEF t, u
    <2>4. u \in 0..(Capacity - 1) /\ u # t
      BY <1>2, <2>2, <2>3
    <2> QED
      BY <2>4 DEF t, u
  <1> HIDE DEF t
  <1>6. \A i \in 1..count : Item(i)' = Item(i)
    BY <1>4, <1>5 DEF TypeOK, Item
  <1>7. \A i \in {count'} : Item(i)' = c
    <2> TAKE i \in {count'}
    <2>1. (head' + i - 1) % Capacity = t
      BY <1>1 DEF t, TypeOK
    <2> QED
      BY <1>3, <1>4, <2>1 DEF TypeOK, Item
  <1> QED
    BY <1>1, <1>3, <1>4, <1>6, <1>7 DEF TypeOK

\* A command taken from the head leaves the others in their order.
LEMMA TakeItems ==
    ASSUME TypeOK, count > 0, Consume
    PROVE  /\ head' \in 0..(Capacity - 1)
           /\ count' = count - 1 /\ count' \in 0..Capacity
           /\ \A i \in 1..count' : Item(i)' = Item(i + 1)
           /\ Item(1) = queue[head]
  <1>1. head' \in 0..(Capacity - 1)
    BY NextHead DEF TypeOK, Consume
  <1>2. count' = count - 1 /\ count' \in 0..Capacity
    BY CapacityAssumption DEF TypeOK, Consume
  <1>3. \A i \in 1..count' : Item(i)' = Item(i + 1)
    <2> TAKE i \in 1..count'
    <2>1. i \in 1..Capacity /\ i + 1 \in 1..Capacity
      BY <1>2, CapacityAssumption DEF TypeOK
    <2>2. head' = IF head + 1 = Capacity THEN 0 ELSE head + 1
      BY NextHead DEF TypeOK, Consume
    <2>3. (head' + i - 1) % Capacity = (head + (i + 1) - 1) % Capacity
      <3>1. (head' + i - 1) % Capacity =
              IF head' + i - 1 < Capacity THEN head' + i - 1
              ELSE head' + i - 1 - Capacity
        BY <1>1, <2>1, Wrap
      <3>2. (head + (i + 1) - 1) % Capacity =
              IF head + (i + 1) - 1 < Capacity THEN head + (i + 1) - 1
              ELSE head + (i + 1) - 1 - Capacity
        BY <2>1, Wrap DEF TypeOK
      <3> QED
        BY <2>1, <2>2, <3>1, <3>2, CapacityAssumption DEF TypeOK
    <2> QED
      BY <2>3 DEF Item, Consume
  <1>4. Item(1) = queue[head]
    <2>1. (head + 1 - 1) % Capacity = head
      BY Wrap, CapacityAssumption DEF TypeOK
    <2> QED
      BY <2>1 DEF Item
  <1> QED
    BY <1>1, <1>2, <1>3, <1>4
-----------------------------------------------------------------------------
(* The initial states and the steps.                                       *)

\* The initial states: an empty, inactive observer, no callback installed.
LEMMA InitIInv == Init => IInv
  <1> SUFFICES ASSUME Init PROVE IInv
    OBVIOUS
  <1>1. TypeOK
    <2>1. nmt \in Commands /\ queue \in [0..(Capacity - 1) -> Commands]
      BY DEF Init, Commands
    <2>2. head \in 0..(Capacity - 1) /\ count \in 0..Capacity
      BY CapacityAssumption DEF Init
    <2>3. todo \in Seq(Commands \cup {"reload"})
      BY DEF Init
    <2>4. step \in 0..Len(Steps) /\ good \in -1..Len(Steps)
      BY StepsWellFormed DEF Init, WellFormed
    <2> QED
      BY <2>1, <2>2, <2>3, <2>4 DEF Init, TypeOK
  <1>2. Stages /\ Loss /\ Verdict
    BY StepsWellFormed
    DEF Init, Stages, Loss, Verdict, PassMeansExactSequence, Finals,
        WellFormed
  <1>3. Track
    BY DEF Init, Track
  <1>4. ResetOrder /\ Waiting
    BY DEF Init, ResetOrder, Waiting
  <1> QED
    BY <1>1, <1>2, <1>3, <1>4 DEF IInv

\* What follows a reset keeps the order of its callbacks and the reload.
LEMMA ResetStepsOrder ==
    /\ ResetSteps \in Seq(Commands \cup {"reload"})
    /\ Len(ResetSteps) \in {3, 4}
    /\ ResetSteps[1] = "RESET_COMM" /\ ResetSteps[2] = "reload"
    /\ ResetSteps[3] = "ENTER_PREOP"
    /\ Len(ResetSteps) = 4 => ResetSteps[4] = "START"
  <1>1. CASE autoStartAfterReset
    BY <1>1 DEF ResetSteps, Commands
  <1>2. CASE ~autoStartAfterReset
    BY <1>2 DEF ResetSteps, Commands
  <1> QED
    BY <1>1, <1>2

\* A command of the device starts a state change only when none is under way.
LEMMA DutCommandStep ==
    ASSUME IInv, NEW c \in Commands, DutCommand(c)
    PROVE  IInv'
  <1> DEFINE All == Commands \cup {"reload"}
  <1>1. Steps' = Steps
    BY StepsFixed DEF DutCommand
  <1>2. /\ todo' \in Seq(All) /\ todo' # <<>> /\ todo'[1] # "reload"
        /\ \A i \in 2..Len(todo') :
             todo'[i] = "reload" => todo'[i - 1] = "RESET_COMM"
        /\ todo'[Len(todo')] # "reload"
    <2>1. CASE c = "RESET_NODE"
      <3>1. todo' = <<"RESET_NODE">> \o ResetSteps
        BY <2>1 DEF DutCommand
      <3>2. /\ <<"RESET_NODE">> \in Seq(All) /\ Len(<<"RESET_NODE">>) = 1
            /\ <<"RESET_NODE">>[1] = "RESET_NODE"
        BY DEF Commands
      <3> DEFINE n == <<"RESET_NODE">>
      <3> HIDE DEF n, All
      <3>3. /\ todo' \in Seq(All) /\ Len(todo') = 1 + Len(ResetSteps)
            /\ todo'[1] = "RESET_NODE"
            /\ \A i \in 1..Len(ResetSteps) : todo'[i + 1] = ResetSteps[i]
        BY <3>1, <3>2, ResetStepsOrder DEF n, All
      <3> QED
        BY <3>3, ResetStepsOrder
    <2>2. CASE c = "RESET_COMM"
      <3>1. todo' = ResetSteps
        BY <2>2 DEF DutCommand
      <3>2. /\ todo' \in Seq(All) /\ Len(todo') \in {3, 4}
            /\ todo'[1] = "RESET_COMM" /\ todo'[2] = "reload"
            /\ todo'[3] = "ENTER_PREOP" /\ (Len(todo') = 4 => todo'[4] = "START")
        BY <3>1, ResetStepsOrder
      <3> HIDE DEF All
      <3> QED
        BY <3>2
    <2>3. CASE c \notin {"RESET_NODE", "RESET_COMM"}
      <3>1. todo' = <<c>>
        BY <2>3 DEF DutCommand
      <3> QED
        BY <3>1 DEF Commands
    <2> QED
      BY <2>1, <2>2, <2>3
  <1>3. TypeOK'
    BY <1>1, <1>2 DEF IInv, TypeOK, DutCommand, observer, control
  <1>4. Stages' /\ Loss' /\ Verdict'
    BY <1>1
    DEF IInv, Stages, Loss, Verdict, PassMeansExactSequence, DutCommand,
                observer, control
  <1>5. Track'
    BY <1>1 DEF IInv, Track, Watched, Item, DutCommand, observer, control
  <1>6. ResetOrder'
    BY <1>2 DEF ResetOrder
  <1>7. Waiting'
    BY <1>1, <1>2 DEF IInv, Waiting, DutCommand, observer, control
  <1> QED
    BY <1>3, <1>4, <1>5, <1>6, <1>7 DEF IInv

\* The state entry that starts a callback, or runs none before installation.
LEMMA EnterStateStep == IInv /\ EnterState => IInv'
  <1> SUFFICES ASSUME IInv, EnterState PROVE IInv'
    OBVIOUS
  <1>1. Steps' = Steps
    BY StepsFixed DEF EnterState
  <1>2. /\ todo \in Seq(Commands \cup {"reload"}) /\ todo # <<>>
        /\ todo' = Tail(todo) /\ Head(todo) \in Commands
    BY DEF EnterState, IInv, TypeOK
  <1>3. /\ todo' \in Seq(Commands \cup {"reload"})
        /\ Len(todo') = Len(todo) - 1
        /\ \A i \in 1..Len(todo') : todo'[i] = todo[i + 1]
        /\ Head(todo) = todo[1] /\ Len(todo) > 0
    BY <1>2
  <1>4. TypeOK'
    BY <1>1, <1>2, <1>3 DEF IInv, TypeOK, EnterState, observer, control
  <1>5. Stages' /\ Loss' /\ Verdict'
    BY <1>1
    DEF IInv, Stages, Loss, Verdict, PassMeansExactSequence, EnterState,
                observer, control
  <1>6. Track'
    BY <1>1 DEF IInv, Track, Watched, Item, EnterState, observer, control
  <1>7. ResetOrder'
    <2>1. \A i \in 2..Len(todo') :
            todo'[i] = "reload" => todo'[i - 1] = "RESET_COMM"
      BY <1>3 DEF IInv, ResetOrder
    <2>2. todo' # <<>> => todo'[Len(todo')] # "reload"
      BY <1>3 DEF IInv, ResetOrder
    <2>3. ASSUME todo' # <<>>, Head(todo') = "reload"
          PROVE  Head(todo) = "RESET_COMM"
      <3>1. todo'[1] = "reload" /\ Len(todo) > 1
        BY <1>3, <2>3
      <3>2. todo[2] = "reload" /\ 2 \in 2..Len(todo)
        BY <1>3, <3>1
      <3> QED
        BY <1>3, <3>2 DEF IInv, ResetOrder
    <2>4. calling' = IF installed THEN Head(todo) ELSE "none"
      BY DEF EnterState
    <2>5. ASSUME Watched', calling' = "none"
          PROVE  good' = 0
      BY <2>4, <2>5, <1>2
      DEF IInv, Stages, Watched, EnterState, control, Commands
    <2> QED
      BY <2>1, <2>2, <2>3, <2>4, <2>5 DEF ResetOrder
  <1>8. Waiting'
    BY <1>1, <1>2
    DEF IInv, Waiting, Stages, EnterState, observer, control, Commands
  <1> QED
    BY <1>4, <1>5, <1>6, <1>7, <1>8 DEF IInv

\* The reload of 0x1017 takes the test period away; the RESET_COMM callback
\* it follows is in the queue, or has already spoilt the sequence.
LEMMA ReloadStep == IInv /\ Reload => IInv'
  <1> SUFFICES ASSUME IInv, Reload PROVE IInv'
    OBVIOUS
  <1>1. Steps' = Steps
    BY StepsFixed DEF Reload
  <1>2. /\ todo \in Seq(Commands \cup {"reload"}) /\ todo # <<>>
        /\ todo' = Tail(todo) /\ todo[1] = "reload" /\ calling = "none"
    BY DEF Reload, IInv, TypeOK
  <1>3. /\ todo' \in Seq(Commands \cup {"reload"})
        /\ Len(todo') = Len(todo) - 1 /\ Len(todo) > 0
        /\ \A i \in 1..Len(todo') : todo'[i] = todo[i + 1]
    BY <1>2
  <1>4. Watched /\ good > 0 => Steps[good].command = "RESET_COMM"
    BY <1>2 DEF IInv, ResetOrder, Reload
  <1>5. TypeOK'
    BY <1>1, <1>3 DEF IInv, TypeOK, Reload, observer, control
  <1>6. Stages' /\ Verdict'
    BY <1>1
    DEF IInv, Stages, Verdict, PassMeansExactSequence, Reload, observer,
                control, Finals
  <1>7. Track'
    BY <1>1 DEF IInv, Track, Watched, Item, Reload, observer, control
  <1>8. ResetOrder'
    <2>1. \A i \in 2..Len(todo') :
            todo'[i] = "reload" => todo'[i - 1] = "RESET_COMM"
      BY <1>3 DEF IInv, ResetOrder
    <2>2. todo' # <<>> => todo'[Len(todo')] # "reload"
      BY <1>3 DEF IInv, ResetOrder
    <2>3. todo' # <<>> => Head(todo') # "reload"
      <3> SUFFICES ASSUME todo' # <<>> PROVE todo'[1] # "reload"
        BY <1>3
      <3>1. 2 \in 2..Len(todo) /\ todo'[1] = todo[2]
        BY <1>3
      <3> QED
        BY <1>2, <3>1 DEF IInv, ResetOrder
    <2> QED
      BY <2>1, <2>2, <2>3 DEF ResetOrder
  <1>9. Loss'
    <2>1. ASSUME pc \in {"finalConfigure", "finalWindow"}
          PROVE  good = -1
      <3>1. good \in -1..Len(Steps) /\ step = Len(Steps) /\ count \in Nat /\ Watched
        BY <2>1 DEF IInv, TypeOK, Stages, Finals, Watched
      <3>2. good = -1 \/ good = Len(Steps)
        BY <3>1, StepsWellFormed DEF IInv, Track, WellFormed
      <3> QED
        BY <1>4, <3>1, <3>2, StepsWellFormed DEF WellFormed
    <2> QED
      BY <1>1, <2>1 DEF IInv, Loss, Reload, control, Finals
  <1>10. Waiting'
    <2> SUFFICES ASSUME pc = "wait", good # -1, step > 0
                 PROVE  good \in step..good /\ good > 0
                        /\ Steps[good].command = "RESET_COMM" /\ todo' # <<>>
      BY <1>1 DEF Waiting, IInv, TypeOK, Reload, control
    <2>1. good \in Int /\ step \in Nat /\ count \in Nat /\ Watched
      BY DEF IInv, TypeOK, Watched
    <2>2. good >= step
      BY <2>1 DEF IInv, Track
    <2>3. Len(todo) > 1
      BY <1>2, <1>3 DEF IInv, ResetOrder
    <2> QED
      BY <1>3, <1>4, <2>1, <2>2, <2>3
  <1> QED
    BY <1>5, <1>6, <1>7, <1>8, <1>9, <1>10 DEF IInv

\* What following the callback of command c does to the history.
LEMMA FollowGood ==
    ASSUME IInv, NEW c \in Commands, Follow(c), Watched
    PROVE  \/ /\ good # -1 /\ good < Len(Steps)
              /\ c = Steps[good + 1].command /\ good' = good + 1
           \/ /\ good = -1 \/ good >= Len(Steps) \/ c # Steps[good + 1].command
              /\ good' = -1
  BY DEF Follow, Watched, IInv, TypeOK

\* The callback appends to the queue, notes the overflow, or does nothing.
LEMMA CallbackStep == IInv /\ nmtCommandCallback => IInv'
  <1> SUFFICES ASSUME IInv, nmtCommandCallback PROVE IInv'
    OBVIOUS
  <1>1. Steps' = Steps
    BY StepsFixed DEF nmtCommandCallback
  <1>2. /\ calling \in Commands /\ calling' = "none"
        /\ UNCHANGED <<head, active, installed, startup, nmt, todo, heartbeat,
                       pc, step, result, gap>>
        /\ Watched' <=> Watched
    BY DEF nmtCommandCallback, IInv, TypeOK, control, Watched
  <1>3. pc \notin {"register", "install"}
    BY DEF nmtCommandCallback, IInv, Stages
  <1>4. CASE ~active
    <2>1. UNCHANGED <<queue, count, overflow, good>> /\ ~Watched
      BY <1>3, <1>4 DEF nmtCommandCallback, IInv, Stages, Watched
    <2>2. TypeOK' /\ Stages' /\ Loss' /\ Verdict'
      BY <1>1, <1>2, <2>1
      DEF IInv, TypeOK, Stages, Loss, Verdict, PassMeansExactSequence
    <2>3. Track' /\ ResetOrder' /\ Waiting'
      BY <1>1, <1>2, <2>1 DEF IInv, Track, ResetOrder, Waiting, Watched
    <2> QED
      BY <2>2, <2>3 DEF IInv
  <1>5. CASE active
    <2>1. /\ Follow(calling)
          /\ \/ /\ count < Capacity /\ overflow' = overflow
                /\ Enqueue(calling, (head + count) % Capacity)
             \/ count = Capacity /\ overflow' = TRUE /\ UNCHANGED <<queue, count>>
      BY <1>5, CapacityAssumption DEF nmtCommandCallback, IInv, TypeOK
    <2>2. ~Watched => good' = good
      BY <2>1 DEF Watched, Follow
    <2>3. Watched => \/ /\ good # -1 /\ good < Len(Steps)
                        /\ calling = Steps[good + 1].command /\ good' = good + 1
                     \/ /\ \/ good = -1 \/ good >= Len(Steps)
                           \/ calling # Steps[good + 1].command
                        /\ good' = -1
      BY <1>2, <2>1, FollowGood
    <2>4. good' \in -1..Len(Steps)
      BY <2>2, <2>3 DEF IInv, TypeOK
    <2>5. /\ queue' \in [0..(Capacity - 1) -> Commands] /\ count' \in 0..Capacity
          /\ count' = count + 1 \/ count' = count
          /\ overflow' \in BOOLEAN
      BY <1>2, <2>1, PutItems, CapacityAssumption DEF IInv, TypeOK
    <2>6. TypeOK'
      BY <1>1, <1>2, <2>4, <2>5 DEF IInv, TypeOK
    <2>7. pc # "done"
      BY <1>5 DEF IInv, Stages
    <2>8. Stages'
      BY <1>1, <1>2, <1>3, <2>7 DEF IInv, Stages
    <2>9. Track'
      <3> SUFFICES ASSUME Watched PROVE Track'
        BY <1>2 DEF Track
      <3>1. CASE count < Capacity
        <4>1. /\ overflow' = overflow
              /\ Enqueue(calling, (head + count) % Capacity)
          BY <2>1, <3>1, CapacityAssumption DEF IInv, TypeOK
        <4>2. /\ count' = count + 1
              /\ \A i \in 1..count : Item(i)' = Item(i)
              /\ \A i \in {count'} : Item(i)' = calling
          BY <1>2, <3>1, <4>1, PutItems DEF IInv
        <4>3. /\ count \in Nat /\ step \in Nat /\ good \in Int
              /\ Len(Steps) \in Nat
          BY StepsWellFormed DEF IInv, TypeOK, WellFormed
        <4>4. CASE overflow
          BY <1>2, <2>3, <4>1, <4>2, <4>3, <4>4 DEF IInv, Track
        <4>5. CASE ~overflow /\ good = step + count
          <5>1. \A i \in 1..count : Item(i) = Steps[step + i].command
            BY <4>3, <4>5 DEF IInv, Track
          <5>2. CASE good' = good + 1
            <6>1. \A i \in 1..count' : Item(i)' = Steps[step + i].command
              BY <2>3, <4>2, <4>3, <4>5, <5>1, <5>2
            <6> QED
              BY <1>1, <1>2, <4>1, <4>2, <4>3, <4>5, <5>2, <6>1 DEF Track
          <5>3. CASE good' = -1
            <6>1. /\ count' \in 1..count'
                  /\ \A i \in {count'} :
                       step + i > Len(Steps) \/ Item(i)' # Steps[step + i].command
              BY <2>3, <4>2, <4>3, <4>5, <5>3
            <6>2. \E i \in 1..count' :
                    step + i > Len(Steps) \/ Item(i)' # Steps[step + i].command
              BY <6>1
            <6> QED
              BY <1>1, <1>2, <4>1, <4>5, <5>3, <6>2 DEF Track
          <5> QED
            BY <2>3, <5>2, <5>3
        <4>6. CASE ~overflow /\ good = -1
          <5>1. PICK i \in 1..count :
                  step + i > Len(Steps) \/ Item(i) # Steps[step + i].command
            BY <4>3, <4>6 DEF IInv, Track
          <5>2. /\ i \in 1..count'
                /\ step + i > Len(Steps) \/ Item(i)' # Steps[step + i].command
            BY <4>2, <4>3, <5>1
          <5>3. good' = -1
            BY <2>3, <4>6
          <5> QED
            BY <1>1, <1>2, <4>1, <4>6, <5>2, <5>3 DEF Track
        <4> QED
          BY <4>4, <4>5, <4>6 DEF IInv, Track
      <3>2. CASE count = Capacity
        <4>1. count' = count /\ overflow' = TRUE
          BY <2>1, <3>2, CapacityAssumption
        <4>2. good' = -1 \/ good' > step + count
          BY <2>3 DEF IInv, Track, TypeOK
        <4> QED
          BY <1>2, <4>1, <4>2 DEF Track
      <3> QED
        BY <3>1, <3>2, CapacityAssumption DEF IInv, TypeOK
    <2>10. ResetOrder'
      <3>1. ASSUME Watched, todo # <<>>, Head(todo) = "reload", good' > 0
            PROVE  Steps[good'].command = "RESET_COMM"
        BY <1>2, <2>3, <3>1 DEF IInv, ResetOrder, Commands, TypeOK
      <3> QED
        BY <1>1, <1>2, <3>1 DEF IInv, ResetOrder
    <2>11. Loss'
      <3>1. pc \in {"finalConfigure", "finalWindow"} /\ gap => good' = -1
        BY <2>3 DEF IInv, Loss, Watched
      <3> QED
        BY <1>1, <1>2, <2>2, <3>1 DEF IInv, Loss, Watched
    <2>12. Waiting'
      <3> SUFFICES ASSUME pc = "wait", heartbeat = "default", good' # -1,
                          \E i \in 1..step : Steps[i].restoreHeartbeat
                   PROVE  \E g \in step..good' :
                            /\ g > 0 /\ Steps[g].command = "RESET_COMM"
                            /\ g # good'
        BY <1>1, <1>2 DEF Waiting
      <3>1. good # -1 /\ good' = good + 1
        BY <2>3 DEF Watched
      <3>2. PICK g \in step..good : g > 0 /\ Steps[g].command = "RESET_COMM"
        BY <3>1 DEF IInv, Waiting
      <3> QED
        BY <3>1, <3>2 DEF IInv, TypeOK
    <2>13. Verdict'
      BY <1>1, <1>2, <2>2 DEF IInv, Verdict, PassMeansExactSequence, Watched
    <2> QED
      BY <2>6, <2>8, <2>9, <2>10, <2>11, <2>12, <2>13 DEF IInv
  <1> QED
    BY <1>4, <1>5

\* Registration empties the queue before the callback is installed.
LEMMA RegisterStep == IInv /\ registerNmtCommandObserver => IInv'
  <1> SUFFICES ASSUME IInv, registerNmtCommandObserver PROVE IInv'
    OBVIOUS
  <1>1. Steps' = Steps
    BY StepsFixed DEF registerNmtCommandObserver, slave
  <1>2. TypeOK'
    <2>1. head' \in 0..(Capacity - 1) /\ count' \in 0..Capacity
      BY CapacityAssumption DEF registerNmtCommandObserver
    <2> QED
      BY <1>1, <2>1
      DEF IInv, TypeOK, registerNmtCommandObserver, Goto, slave, Finals
  <1>3. Stages'
    BY <1>1
    DEF IInv, TypeOK, Stages, registerNmtCommandObserver, Goto, slave, Finals
  <1>4. Track'
    BY <1>1
    DEF IInv, TypeOK, Stages, Track, Watched, Item,
        registerNmtCommandObserver, Goto, slave
  <1>5. ResetOrder'
    BY <1>1
    DEF IInv, ResetOrder, Watched, registerNmtCommandObserver, Goto, slave
  <1>6. Loss' /\ Verdict'
    BY <1>1 DEF IInv, Loss, Verdict, PassMeansExactSequence, Stages, Finals,
                registerNmtCommandObserver, Goto, slave
  <1>7. Waiting'
    BY <1>1
    DEF IInv, TypeOK, Stages, Waiting, registerNmtCommandObserver, Goto, slave
  <1> QED
    BY <1>2, <1>3, <1>4, <1>5, <1>6, <1>7 DEF IInv

\* From its installation on, every state entry calls the callback.
LEMMA InstallStep == IInv /\ InstallCallback => IInv'
  <1> SUFFICES ASSUME IInv, InstallCallback PROVE IInv'
    OBVIOUS
  <1>1. Steps' = Steps
    BY StepsFixed DEF InstallCallback, slave
  <1>2. TypeOK'
    BY <1>1 DEF IInv, TypeOK, InstallCallback, Goto, observer, Finals
  <1>3. Stages'
    BY <1>1 DEF IInv, TypeOK, Stages, InstallCallback, Goto, observer, Finals
  <1>4. Track'
    BY <1>1
    DEF IInv, TypeOK, Stages, Track, Watched, Item, InstallCallback, Goto,
        observer
  <1>5. ResetOrder'
    BY <1>1 DEF IInv, ResetOrder, Watched, InstallCallback, Goto, observer
  <1>6. Loss' /\ Verdict'
    BY <1>1 DEF IInv, Loss, Verdict, PassMeansExactSequence, Stages, Finals,
                InstallCallback, Goto, observer
  <1>7. Waiting'
    BY <1>1 DEF IInv, TypeOK, Stages, Waiting, InstallCallback, Goto, observer
  <1> QED
    BY <1>2, <1>3, <1>4, <1>5, <1>6, <1>7 DEF IInv

\* An unreadable 0x1F80 ends the run before the first step.
LEMMA ReadStartupStep == IInv /\ peerAutoStartsAfterReset => IInv'
  <1> SUFFICES ASSUME IInv, peerAutoStartsAfterReset PROVE IInv'
    OBVIOUS
  <1>1. Steps' = Steps
    BY StepsFixed DEF peerAutoStartsAfterReset, slave
  <1>2. TypeOK'
    BY <1>1
    DEF IInv, TypeOK, peerAutoStartsAfterReset, Goto, Cleanup, observer,
        slave, Finals
  <1>3. Stages'
    BY <1>1
    DEF IInv, TypeOK, Stages, peerAutoStartsAfterReset, Goto, Cleanup,
        observer, slave, Finals
  <1>4. Track'
    BY <1>1
    DEF IInv, TypeOK, Stages, Track, Watched, Item, peerAutoStartsAfterReset,
        Goto, Cleanup, observer, slave
  <1>5. ResetOrder'
    BY <1>1
    DEF IInv, ResetOrder, Watched, peerAutoStartsAfterReset, Goto, Cleanup,
        observer, slave
  <1>6. Loss' /\ Verdict'
    BY <1>1 DEF IInv, Loss, Verdict, PassMeansExactSequence, Stages, Finals,
                peerAutoStartsAfterReset, Goto, Cleanup, observer, slave
  <1>7. Waiting'
    BY <1>1
    DEF IInv, TypeOK, Stages, Waiting, peerAutoStartsAfterReset, Goto,
        Cleanup, observer, slave
  <1> QED
    BY <1>2, <1>3, <1>4, <1>5, <1>6, <1>7 DEF IInv

\* Writing 0x1017 brings the test period back or ends the run.
LEMMA ConfigureStep == IInv /\ Configure => IInv'
  <1> SUFFICES ASSUME IInv, Configure PROVE IInv'
    OBVIOUS
  <1>1. Steps' = Steps
    BY StepsFixed DEF Configure, slave
  <1>2. TypeOK'
    BY <1>1
    DEF IInv, TypeOK, Configure, configurePeerHeartbeat, Goto, Cleanup,
        observer, slave, Finals
  <1>3. Stages'
    BY <1>1, StepsWellFormed
    DEF IInv, TypeOK, Stages, Configure, configurePeerHeartbeat, Goto,
        Cleanup, observer, slave, Finals,
        WellFormed
  <1>4. Track'
    BY <1>1
    DEF IInv, TypeOK, Stages, Track, Watched, Item, Configure,
        configurePeerHeartbeat, Goto, Cleanup, observer, slave
  <1>5. ResetOrder'
    BY <1>1
    DEF IInv, ResetOrder, Watched, Configure, configurePeerHeartbeat, Goto,
        Cleanup, observer, slave
  <1>6. Loss' /\ Verdict'
    BY <1>1 DEF IInv, Loss, Verdict, PassMeansExactSequence, Stages, Finals,
                Configure, configurePeerHeartbeat, Goto, Cleanup, observer, slave
  <1>7. Waiting'
    BY <1>1
    DEF IInv, TypeOK, Stages, Waiting, Configure, configurePeerHeartbeat,
        Goto, Cleanup, observer, slave
  <1> QED
    BY <1>2, <1>3, <1>4, <1>5, <1>6, <1>7 DEF IInv

\* Only the final read decides on a pass.
LEMMA FinalReadStep == IInv /\ FinalRead => IInv'
  <1> SUFFICES ASSUME IInv, FinalRead PROVE IInv'
    OBVIOUS
  <1>1. Steps' = Steps
    BY StepsFixed DEF FinalRead, slave
  <1>2. TypeOK'
    BY <1>1 DEF IInv, TypeOK, FinalRead, observer, slave, Finals
  <1>3. Stages'
    BY <1>1 DEF IInv, TypeOK, Stages, FinalRead, observer, slave, Finals
  <1>4. Track'
    BY <1>1
    DEF IInv, TypeOK, Stages, Track, Watched, Item, FinalRead, observer, slave
  <1>5. ResetOrder'
    BY <1>1 DEF IInv, ResetOrder, Watched, FinalRead, observer, slave
  <1>6. Loss' /\ Verdict'
    BY <1>1 DEF IInv, Loss, Verdict, PassMeansExactSequence, Stages, Finals,
                FinalRead, observer, slave
  <1>7. Waiting'
    BY <1>1 DEF IInv, TypeOK, Stages, Waiting, FinalRead, observer, slave
  <1> QED
    BY <1>2, <1>3, <1>4, <1>5, <1>6, <1>7 DEF IInv

\* From here on a late callback changes nothing.
LEMMA DeactivateStep == IInv /\ Deactivate => IInv'
  <1> SUFFICES ASSUME IInv, Deactivate PROVE IInv'
    OBVIOUS
  <1>1. Steps' = Steps
    BY StepsFixed DEF Deactivate, slave
  <1>2. TypeOK'
    BY <1>1 DEF IInv, TypeOK, Deactivate, Goto, slave, Finals
  <1>3. Stages'
    BY <1>1 DEF IInv, TypeOK, Stages, Deactivate, Goto, slave, Finals
  <1>4. Track'
    BY <1>1
    DEF IInv, TypeOK, Stages, Track, Watched, Item, Deactivate, Goto, slave
  <1>5. ResetOrder'
    BY <1>1 DEF IInv, ResetOrder, Watched, Deactivate, Goto, slave
  <1>6. Loss' /\ Verdict'
    BY <1>1 DEF IInv, Loss, Verdict, PassMeansExactSequence, Stages, Finals,
                Deactivate, Goto, slave
  <1>7. Waiting'
    BY <1>1 DEF IInv, TypeOK, Stages, Waiting, Deactivate, Goto, slave
  <1> QED
    BY <1>2, <1>3, <1>4, <1>5, <1>6, <1>7 DEF IInv

\* Removal of the callback.
LEMMA RemoveStep == IInv /\ RemoveCallback => IInv'
  <1> SUFFICES ASSUME IInv, RemoveCallback PROVE IInv'
    OBVIOUS
  <1>1. Steps' = Steps
    BY StepsFixed DEF RemoveCallback, slave
  <1>2. TypeOK'
    BY <1>1 DEF IInv, TypeOK, RemoveCallback, Goto, observer, Finals
  <1>3. Stages'
    BY <1>1 DEF IInv, TypeOK, Stages, RemoveCallback, Goto, observer, Finals
  <1>4. Track'
    BY <1>1
    DEF IInv, TypeOK, Stages, Track, Watched, Item, RemoveCallback, Goto,
        observer
  <1>5. ResetOrder'
    BY <1>1 DEF IInv, ResetOrder, Watched, RemoveCallback, Goto, observer
  <1>6. Loss' /\ Verdict'
    BY <1>1 DEF IInv, Loss, Verdict, PassMeansExactSequence, Stages, Finals,
                RemoveCallback, Goto, observer
  <1>7. Waiting'
    BY <1>1 DEF IInv, TypeOK, Stages, Waiting, RemoveCallback, Goto, observer
  <1> QED
    BY <1>2, <1>3, <1>4, <1>5, <1>6, <1>7 DEF IInv

\* Clearing the observer that no callback can fill any more.
LEMMA ClearStep == IInv /\ ClearObserver => IInv'
  <1> SUFFICES ASSUME IInv, ClearObserver PROVE IInv'
    OBVIOUS
  <1>1. Steps' = Steps
    BY StepsFixed DEF ClearObserver, slave
  <1>2. TypeOK'
    <2>1. head' \in 0..(Capacity - 1) /\ count' \in 0..Capacity
      BY CapacityAssumption DEF ClearObserver
    <2> QED
      BY <1>1, <2>1 DEF IInv, TypeOK, ClearObserver, Goto, slave, Finals
  <1>3. Stages'
    BY <1>1 DEF IInv, TypeOK, Stages, ClearObserver, Goto, slave, Finals
  <1>4. Track'
    BY <1>1
    DEF IInv, TypeOK, Stages, Track, Watched, Item, ClearObserver, Goto, slave
  <1>5. ResetOrder'
    BY <1>1 DEF IInv, ResetOrder, Watched, ClearObserver, Goto, slave
  <1>6. Loss' /\ Verdict'
    BY <1>1 DEF IInv, Loss, Verdict, PassMeansExactSequence, Stages, Finals,
                ClearObserver, Goto, slave
  <1>7. Waiting'
    BY <1>1 DEF IInv, TypeOK, Stages, Waiting, ClearObserver, Goto, slave
  <1> QED
    BY <1>2, <1>3, <1>4, <1>5, <1>6, <1>7 DEF IInv

\* A run that takes a command and leaves the loop keeps the invariant: what
\* the queue still holds no longer matters.
LEMMA LeaveStep ==
    ASSUME IInv, Cleanup, UNCHANGED <<slave, heartbeat, good, gap>>,
           \/ UNCHANGED observer
           \/ count > 0 /\ Consume,
           pc \in {"wait", "finalWindow"}
    PROVE  IInv'
  <1>1. Steps' = Steps /\ ~Watched' /\ pc' = "deactivate"
    BY StepsFixed DEF slave, Cleanup, Goto, Watched
  <1>2. /\ head' \in 0..(Capacity - 1) /\ count' \in 0..Capacity
        /\ UNCHANGED <<queue, overflow, active>>
    BY TakeItems DEF IInv, TypeOK, observer, Consume
  <1>3. TypeOK'
    BY <1>1, <1>2 DEF IInv, TypeOK, Cleanup, Goto, slave
  <1>4. Stages'
    BY <1>1, <1>2 DEF IInv, Stages, Cleanup, Goto, slave, Finals
  <1>5. Track' /\ ResetOrder' /\ Waiting'
    BY <1>1 DEF IInv, Track, ResetOrder, Waiting, slave
  <1>6. Loss' /\ Verdict'
    BY <1>1
    DEF IInv, Loss, Verdict, PassMeansExactSequence, Cleanup, Goto, Finals
  <1> QED
    BY <1>3, <1>4, <1>5, <1>6 DEF IInv

\* A timeout, an overflow or the wrong command ends the run.
LEMMA StepFailedStep == IInv /\ StepFailed => IInv'
  BY LeaveStep, CapacityAssumption DEF StepFailed, Observed, IInv, TypeOK

\* The final window ends in silence with exactly the expected commands seen.
LEMMA FinalWindowStep == IInv /\ FinalWindow => IInv'
  <1> SUFFICES ASSUME IInv, FinalWindow PROVE IInv'
    OBVIOUS
  <1>1. CASE Cleanup
    BY <1>1, LeaveStep DEF FinalWindow, Observed, Goto, Cleanup, IInv, TypeOK
  <1>2. CASE ~Observed /\ UNCHANGED observer /\ Goto("finalRead")
    <2>1. Steps' = Steps /\ ~Watched' /\ pc' = "finalRead" /\ pc = "finalWindow"
      BY <1>2, StepsFixed DEF FinalWindow, slave, Goto, Watched
    <2>2. good = Len(Steps) /\ ~gap
      <3>1. /\ count = 0 /\ ~overflow /\ step = Len(Steps) /\ Watched
            /\ Len(Steps) \in Nat
        BY <1>2, <2>1, StepsWellFormed
        DEF Observed, IInv, TypeOK, Stages, Finals, Watched, WellFormed
      <3> QED
        BY <2>1, <3>1 DEF IInv, Track, Loss
    <2>3. TypeOK' /\ Stages'
      BY <1>2, <2>1
      DEF IInv, TypeOK, Stages, FinalWindow, Goto, observer, slave, Finals
    <2>4. Track' /\ Waiting'
      BY <2>1 DEF Track, Waiting
    <2>5. ResetOrder'
      BY <2>1 DEF IInv, ResetOrder, FinalWindow, slave
    <2>6. Loss' /\ Verdict'
      BY <1>2, <2>1, <2>2
      DEF IInv, Loss, Verdict, PassMeansExactSequence, FinalWindow, Goto,
          Finals
    <2> QED
      BY <2>3, <2>4, <2>5, <2>6 DEF IInv
  <1> QED
    BY <1>1, <1>2 DEF FinalWindow

\* An accepted step moves on by one command; a restoring step goes through
\* the heartbeat write before the next wait.
LEMMA StepPassedStep == IInv /\ StepPassed => IInv'
  <1> SUFFICES ASSUME IInv, StepPassed PROVE IInv'
    OBVIOUS
  <1>1. Steps' = Steps
    BY StepsFixed DEF StepPassed, slave
  <1>2. /\ pc = "wait" /\ ~overflow /\ count > 0 /\ Consume
        /\ queue[head] = Steps[step + 1].command /\ step' = step + 1
        /\ UNCHANGED <<queue, overflow, active, result, heartbeat, good, gap>>
        /\ UNCHANGED <<installed, startup, nmt, todo, calling>>
    BY DEF StepPassed, Observed, Consume, slave
  <1>3. /\ head' \in 0..(Capacity - 1)
        /\ count' = count - 1 /\ count' \in 0..Capacity
        /\ \A i \in 1..count' : Item(i)' = Item(i + 1)
        /\ Item(1) = queue[head]
    BY <1>2, TakeItems DEF IInv
  <1>4. /\ step \in Nat /\ step + 1 <= Len(Steps) /\ count \in Nat
        /\ Len(Steps) \in Nat /\ good \in Int /\ Watched
    BY <1>2, StepsWellFormed DEF IInv, TypeOK, Stages, WellFormed, Watched
  <1>5. /\ pc' \in {"finalConfigure", "restore", "wait"}
        /\ pc' = "finalConfigure" <=> step' = Len(Steps)
        /\ pc' = "wait" => ~Steps[step'].restoreHeartbeat
    <2>1. CASE step' = Len(Steps)
      BY <2>1, StepsWellFormed DEF StepPassed, WellFormed
    <2>2. CASE step' # Len(Steps) /\ Steps[step'].restoreHeartbeat
      BY <2>2 DEF StepPassed
    <2>3. CASE step' # Len(Steps) /\ ~Steps[step'].restoreHeartbeat
      BY <2>3 DEF StepPassed
    <2> QED
      BY <2>1, <2>2, <2>3
  <1>6. TypeOK'
    BY <1>1, <1>2, <1>3, <1>4, <1>5 DEF IInv, TypeOK, Finals
  <1>7. Stages'
    BY <1>1, <1>2, <1>3, <1>4, <1>5 DEF IInv, Stages, Finals
  <1>8. Track'
    <2> SUFFICES ASSUME Watched'
                 PROVE  \/ /\ good = step' + count'
                           /\ \A i \in 1..count' :
                                Item(i)' = Steps[step' + i].command
                        \/ /\ good = -1
                           /\ \E i \in 1..count' :
                                \/ step' + i > Len(Steps)
                                \/ Item(i)' # Steps[step' + i].command
      BY <1>1, <1>2 DEF Track
    <2>1. CASE /\ good = step + count
               /\ \A i \in 1..count : Item(i) = Steps[step + i].command
      <3>1. \A i \in 1..count' :
              Item(i)' = Steps[step' + i].command
        <4> TAKE i \in 1..count'
        <4>1. i + 1 \in 1..count /\ step + (i + 1) = step' + i
          BY <1>2, <1>3, <1>4
        <4>2. Item(i + 1) = Steps[step + (i + 1)].command
          BY <2>1, <4>1
        <4> QED
          BY <1>3, <4>1, <4>2
      <3> QED
        BY <1>2, <1>3, <1>4, <2>1, <3>1
    <2>2. CASE /\ good = -1
               /\ \E i \in 1..count : \/ step + i > Len(Steps)
                                      \/ Item(i) # Steps[step + i].command
      <3>1. PICK i \in 1..count : \/ step + i > Len(Steps)
                                  \/ Item(i) # Steps[step + i].command
        BY <2>2
      <3>2. i # 1
        BY <1>2, <1>3, <1>4, <3>1
      <3>3. i - 1 \in 1..count' /\ step' + (i - 1) = step + i /\ (i - 1) + 1 = i
        BY <1>2, <1>3, <1>4, <3>2
      <3>4. \/ step' + (i - 1) > Len(Steps)
            \/ Item(i - 1)' # Steps[step' + (i - 1)].command
        BY <1>3, <3>1, <3>3
      <3> QED
        BY <2>2, <3>3, <3>4
    <2> QED
      BY <1>2, <1>4, <2>1, <2>2 DEF IInv, Track
  <1>9. ResetOrder'
    BY <1>1, <1>2, <1>4 DEF IInv, ResetOrder
  <1>10. Loss' /\ Verdict'
    BY <1>1, <1>2, <1>5
    DEF IInv, Loss, Verdict, PassMeansExactSequence, Finals
  <1>11. Waiting'
    <2> SUFFICES ASSUME pc' = "wait", heartbeat = "default", good # -1,
                        \E i \in 1..step' : Steps[i].restoreHeartbeat
                 PROVE  \E g \in step'..good :
                          /\ g > 0 /\ Steps[g].command = "RESET_COMM"
                          /\ g = good => todo # <<>> \/ calling # "none"
      BY <1>1, <1>2 DEF Waiting
    <2>1. \E i \in 1..step : Steps[i].restoreHeartbeat
      BY <1>2, <1>4, <1>5
    <2>2. PICK g \in step..good :
            /\ g > 0 /\ Steps[g].command = "RESET_COMM"
            /\ g = good => todo # <<>> \/ calling # "none"
      BY <1>2, <2>1 DEF IInv, Waiting
    <2>3. g # step
      BY <1>2, <1>4, <1>5, <2>2, StepsWellFormed DEF WellFormed
    <2> QED
      BY <1>2, <1>4, <2>2, <2>3
  <1> QED
    BY <1>6, <1>7, <1>8, <1>9, <1>10, <1>11 DEF IInv

\* A step that changes nothing.
LEMMA Stutter == IInv /\ UNCHANGED vars => IInv'
  <1> SUFFICES ASSUME IInv, UNCHANGED vars PROVE IInv'
    OBVIOUS
  <1>1. /\ UNCHANGED <<queue, head, count, overflow, active, installed>>
        /\ UNCHANGED <<startup, nmt, todo, heartbeat, calling, pc, step>>
        /\ UNCHANGED <<result, good, gap>> /\ Steps' = Steps
    BY StepsFixed DEF vars, observer, slave, control
  <1>2. TypeOK' /\ Stages' /\ Loss' /\ Verdict'
    BY <1>1
    DEF IInv, TypeOK, Stages, Loss, Verdict, PassMeansExactSequence
  <1>3. Track' /\ ResetOrder' /\ Waiting'
    BY <1>1 DEF IInv, Track, ResetOrder, Waiting, Watched, Item
  <1> QED
    BY <1>2, <1>3 DEF IInv

\* The invariant is inductive.
LEMMA NextIInv == IInv /\ [Next]_vars => IInv'
  BY DutCommandStep, EnterStateStep, ReloadStep, CallbackStep, RegisterStep,
     InstallStep, ReadStartupStep, ConfigureStep, StepPassedStep,
     StepFailedStep, FinalWindowStep, FinalReadStep, DeactivateStep,
     RemoveStep, ClearStep, Stutter
  DEF Next, Done

\* ... so it holds in every reachable state.
LEMMA MasterInvariant == Spec => []IInv
  BY InitIInv, NextIInv, PTL DEF Spec

-----------------------------------------------------------------------------
(* The theorems.                                                           *)

\* Type correctness: in every reachable state the ring's head and count stay
\* within its capacity, whatever the device and the event loop do.
THEOREM MasterTypeOK == Spec => []TypeOK
  <1>1. IInv => TypeOK
    BY DEF IInv
  <1> QED
    BY <1>1, MasterInvariant, PTL

\* A pass of nmtMasterProcess() proves the exact command sequence.
THEOREM PassIsExact == Spec => []PassMeansExactSequence
  <1>1. IInv => PassMeansExactSequence
    BY DEF IInv, Verdict
  <1> QED
    BY <1>1, MasterInvariant, PTL

\* While the control thread waits with everything handled, the heartbeat a
\* reset took away has been restored.
THEOREM HeartbeatIsRestored == Spec => []HeartbeatWhileWaiting
  <1>1. IInv => HeartbeatWhileWaiting
    <2> SUFFICES ASSUME IInv, pc = "wait", good = step, todo = <<>>,
                        calling = "none",
                        \E i \in 1..step : Steps[i].restoreHeartbeat
                 PROVE  heartbeat = "test"
      BY DEF HeartbeatWhileWaiting
    <2>1. step \in Nat /\ heartbeat \in {"default", "test"}
      BY StepsWellFormed DEF IInv, TypeOK, WellFormed
    <2> QED
      BY <2>1 DEF IInv, Waiting
  <1> QED
    BY <1>1, MasterInvariant, PTL

\* unregisterNmtCommandObserver() leaves nothing behind, even when a callback
\* was under way while it ran.
THEOREM RunLeavesNothing == Spec => []CleanAfterRun
  <1>1. IInv => CleanAfterRun
    BY DEF IInv, Stages, CleanAfterRun
  <1> QED
    BY <1>1, MasterInvariant, PTL

-----------------------------------------------------------------------------
(* The ring buffer implements CommandQueue.                                *)

\* The queue the ring buffer stands for.
Ring == [i \in 1..count |-> queue[(head + i - 1) % Capacity]]

\* It is a sequence of commands, the i-th of which is Item(i).
RingHoldsItems ==
    /\ Ring \in Seq(Commands) /\ Len(Ring) = count
    /\ \A i \in 1..count : Ring[i] = Item(i)

\* ... because every slot counted from the head lies in the ring.
LEMMA RingFacts == TypeOK => RingHoldsItems
  <1> SUFFICES ASSUME TypeOK PROVE RingHoldsItems
    OBVIOUS
  <1>1. \A i \in 1..count : Item(i) \in Commands
    <2> TAKE i \in 1..count
    <2>1. (head + i - 1) % Capacity \in 0..(Capacity - 1)
      BY CapacityAssumption DEF TypeOK
    <2> QED
      BY <2>1 DEF TypeOK, Item
  <1>2. Ring \in [1..count -> Commands] /\ count \in Nat
    BY <1>1, CapacityAssumption DEF Ring, Item, TypeOK
  <1> QED
    BY <1>2 DEF RingHoldsItems, Ring, Item

\* An empty ring stands for the empty queue.
LEMMA EmptyRing == count = 0 => Ring = <<>>
  BY DEF Ring

\* A step that leaves the observer alone leaves the queue alone.
LEMMA QueueUntouched ==
    UNCHANGED <<queue, head, count, overflow, active>>
      => UNCHANGED Fifo!queueVars
  BY DEF Fifo!queueVars

\* The callback puts its command, or notes that it was dropped.
LEMMA CallbackPuts ==
    ASSUME TypeOK, TypeOK', nmtCommandCallback, active
    PROVE  calling \in Commands /\ Fifo!Put(calling)
  <1>1. calling \in Commands /\ head' = head /\ active' = active
    BY DEF nmtCommandCallback, TypeOK
  <1>2. Len(Ring) = count /\ Ring \in Seq(Commands) /\ count \in Nat
    BY RingFacts, CapacityAssumption DEF TypeOK, RingHoldsItems
  <1>3. CASE count < Capacity
    <2>1. Enqueue(calling, (head + count) % Capacity) /\ overflow' = overflow
      BY <1>3, CapacityAssumption DEF nmtCommandCallback, TypeOK
    <2>2. /\ count' = count + 1
          /\ \A i \in 1..count : Item(i)' = Item(i)
          /\ \A i \in {count'} : Item(i)' = calling
      BY <1>1, <1>3, <2>1, PutItems
    <2>3. RingHoldsItems'
      BY RingFacts, PTL
    <2>4. Ring' = Append(Ring, calling)
      BY <1>1, <1>2, <2>2, <2>3, RingFacts DEF RingHoldsItems
    <2> QED
      BY <1>1, <1>2, <1>3, <2>1, <2>4 DEF Fifo!Put, Ring
  <1>4. CASE count >= Capacity
    <2>1. overflow' = TRUE /\ UNCHANGED <<queue, count>>
      BY <1>4, CapacityAssumption DEF nmtCommandCallback, TypeOK
    <2>2. Ring' = Ring
      BY <1>1, <2>1 DEF Ring
    <2>3. ~(Len(Ring) < Capacity)
      BY <1>2, <1>4, CapacityAssumption
    <2>4. Fifo!Put(calling)
      BY <1>1, <2>1, <2>2, <2>3 DEF Fifo!Put, Ring
    <2> QED
      BY <1>1, <2>4
  <1> QED
    BY <1>2, <1>3, <1>4, CapacityAssumption

\* A consumer takes the oldest command.
LEMMA ConsumeTakes ==
    ASSUME TypeOK, TypeOK', count > 0, ~overflow, Consume
    PROVE  Fifo!Take
  <1>1. /\ count' = count - 1
        /\ \A i \in 1..count' : Item(i)' = Item(i + 1)
    BY TakeItems
  <1>2. RingHoldsItems /\ RingHoldsItems'
    BY RingFacts, PTL
  <1>3. Ring # <<>> /\ Ring' = Tail(Ring)
    <2>1. /\ Ring \in Seq(Commands) /\ Len(Ring) = count /\ count \in Nat
          /\ Ring' \in Seq(Commands) /\ Len(Ring') = count'
      BY <1>2, CapacityAssumption DEF RingHoldsItems, TypeOK
    <2>2. /\ Tail(Ring) \in Seq(Commands) /\ Len(Tail(Ring)) = count'
          /\ \A i \in 1..count' : Tail(Ring)[i] = Ring[i + 1]
      BY <1>1, <2>1
    <2>3. \A i \in 1..count' : Ring'[i] = Tail(Ring)[i]
      BY <1>1, <1>2, <2>1, <2>2 DEF RingHoldsItems
    <2> QED
      BY <2>1, <2>2, <2>3
  <1> QED
    BY <1>3 DEF Fifo!Take, Consume, Ring

\* Every step is a step of the queue or leaves it alone.
LEMMA QueueStep ==
    ASSUME IInv, IInv', [Next]_vars
    PROVE  [Fifo!QueueNext]_Fifo!queueVars
  <1> USE DEF observer, slave
  <1>1. TypeOK /\ TypeOK' /\ Stages
    BY DEF IInv
  <1>2. CASE nmtCommandCallback
    <2>1. CASE active
      BY <1>1, <1>2, <2>1, CallbackPuts DEF Fifo!QueueNext, Fifo!Put
    <2>2. CASE ~active
      BY <1>2, <2>2, QueueUntouched DEF nmtCommandCallback
    <2> QED
      BY <2>1, <2>2
  <1>3. CASE registerNmtCommandObserver
    <2>1. Ring' = <<>> /\ overflow' = FALSE /\ active' = TRUE
      BY <1>3 DEF registerNmtCommandObserver, Ring
    <2> QED
      BY <2>1 DEF Fifo!QueueNext, Fifo!Open, Ring
  <1>4. CASE StepPassed
    <2>1. count > 0 /\ ~overflow /\ Consume
      BY <1>4 DEF StepPassed, Observed
    <2> QED
      BY <1>1, <2>1, ConsumeTakes DEF Fifo!QueueNext
  <1>5. CASE StepFailed \/ FinalWindow
    <2>1. CASE UNCHANGED observer
      BY <2>1, QueueUntouched
    <2>2. CASE count > 0 /\ ~overflow /\ Consume
      BY <1>1, <2>2, ConsumeTakes DEF Fifo!QueueNext
    <2> QED
      BY <1>5, <2>1, <2>2 DEF StepFailed, FinalWindow, Observed
  <1>6. CASE Deactivate
    BY <1>6 DEF Deactivate, Fifo!QueueNext, Fifo!Close
  <1>7. CASE ClearObserver
    <2>1. ~active /\ Ring' = <<>> /\ overflow' = FALSE /\ active' = active
      BY <1>1, <1>7 DEF ClearObserver, Stages, Ring
    <2> QED
      BY <2>1 DEF Fifo!QueueNext, Fifo!Clear, Ring
  <1>8. CASE \/ \E c \in Commands : DutCommand(c)
             \/ EnterState \/ Reload \/ InstallCallback
             \/ peerAutoStartsAfterReset \/ Configure \/ FinalRead
             \/ RemoveCallback \/ Done \/ UNCHANGED vars
    <2>1. UNCHANGED observer
      BY <1>8
      DEF DutCommand, EnterState, Reload, InstallCallback,
          peerAutoStartsAfterReset, Configure, FinalRead, RemoveCallback, Done,
          vars
    <2> QED
      BY <2>1, QueueUntouched
  <1> QED
    BY <1>2, <1>3, <1>4, <1>5, <1>6, <1>7, <1>8 DEF Next

\* The observer of nmtCommandCallback() and its waiters is a bounded queue:
\* no command overtakes another or is lost unnoticed, for every capacity.
THEOREM RingIsQueue == Spec => ImplementsCommandQueue
  <1>1. Init => Fifo!QueueInit
    <2> SUFFICES ASSUME Init PROVE Fifo!QueueInit
      OBVIOUS
    <2>1. Ring = <<>>
      BY EmptyRing DEF Init
    <2> QED
      BY <2>1 DEF Init, Fifo!QueueInit, Ring
  <1>2. IInv /\ IInv' /\ [Next]_vars => [Fifo!QueueNext]_Fifo!queueVars
    BY QueueStep
  <1> QED
    BY <1>1, <1>2, MasterInvariant, PTL
    DEF Spec, ImplementsCommandQueue, Fifo!QueueSpec
=============================================================================
