---------------------------- MODULE CommandQueue ----------------------------
(***************************************************************************)
(* What the NMT command observer promises the validation thread: while a   *)
(* run is open, a bounded queue that hands out the commands in the order   *)
(* of their callbacks and, once a command had to be dropped, says so and   *)
(* hands out nothing more.                                                 *)
(***************************************************************************)
EXTENDS Naturals, Sequences

CONSTANTS Commands, Capacity

VARIABLES items,   \* commands not yet consumed, oldest first
          lost,    \* a command was dropped
          open     \* a validation run owns the queue

queueVars == <<items, lost, open>>

QueueInit == items = <<>> /\ lost = FALSE /\ open = FALSE

Open == items' = <<>> /\ lost' = FALSE /\ open' = TRUE

Put(c) ==
    /\ open
    /\ IF Len(items) < Capacity
       THEN items' = Append(items, c) /\ UNCHANGED lost
       ELSE lost' = TRUE /\ UNCHANGED items
    /\ UNCHANGED open

Take ==
    /\ items # <<>> /\ ~lost
    /\ items' = Tail(items)
    /\ UNCHANGED <<lost, open>>

Close == open' = FALSE /\ UNCHANGED <<items, lost>>

Clear == ~open /\ items' = <<>> /\ lost' = FALSE /\ UNCHANGED open

QueueNext ==
    \/ Open \/ Take \/ Close \/ Clear
    \/ \E c \in Commands : Put(c)

QueueSpec == QueueInit /\ [][QueueNext]_queueVars
=============================================================================
