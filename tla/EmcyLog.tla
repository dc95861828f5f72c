------------------------------ MODULE EmcyLog ------------------------------
(***************************************************************************)
(* What the shared EMCY observer promises its callers.                     *)
(*                                                                         *)
(* EMCY messages form one totally ordered log.  A caller takes a mark (the *)
(* length of the log) and later asks for the first message after the mark  *)
(* that matches a producer and an error code, or for every message of one  *)
(* producer after the mark.  Only the newest Capacity messages can be      *)
(* answered from: an older one is forgotten even if it lies after the mark.*)
(***************************************************************************)
EXTENDS Integers, Sequences

CONSTANTS Nodes,     \* producers of EMCY messages
          Codes,     \* EMCY error codes
          Capacity   \* how many messages are remembered

VARIABLES log,       \* every message, in order: <<node, code>>
          phase,     \* what the calling thread is doing
          mark,      \* the caller's last snapshot of the log length
          want,      \* the <<node, code>> the caller waits for
          answer,    \* position in the log of the last answer, 0 for none
          listing    \* positions returned by the last bulk query

logVars == <<log, phase, mark, want, answer, listing>>

Remembered == {k \in 1..Len(log) : k + Capacity > Len(log)}

Answers == {k \in Remembered : k > mark /\ log[k] = want}

LogInit ==
    /\ log = <<>>
    /\ phase = "idle"
    /\ mark = 0
    /\ want \in Nodes \X Codes
    /\ answer = 0
    /\ listing = {}

Publish(n, c) ==
    /\ log' = Append(log, <<n, c>>)
    /\ UNCHANGED <<phase, mark, want, answer, listing>>

TakeMark ==
    /\ phase # "waiting"
    /\ mark' = Len(log)
    /\ phase' = "idle"
    /\ answer' = 0
    /\ listing' = {}
    /\ UNCHANGED <<log, want>>

Ask(n, c) ==
    /\ phase # "waiting"
    /\ phase' = "waiting"
    /\ want' = <<n, c>>
    /\ answer' = 0
    /\ listing' = {}
    /\ UNCHANGED <<log, mark>>

Answered ==
    /\ phase = "waiting"
    /\ \E k \in Answers :
         /\ \A j \in Answers : k <= j
         /\ answer' = k
    /\ phase' = "matched"
    /\ UNCHANGED <<log, mark, want, listing>>

Unanswered ==
    /\ phase = "waiting"
    /\ Answers = {}
    /\ phase' = "timedOut"
    /\ UNCHANGED <<log, mark, want, answer, listing>>

List(n) ==
    /\ phase # "waiting"
    /\ phase' = "listed"
    /\ listing' = {k \in Remembered : k > mark /\ log[k][1] = n}
    /\ want' = <<n, want[2]>>
    /\ answer' = 0
    /\ UNCHANGED <<log, mark>>

LogNext ==
    \/ \E n \in Nodes, c \in Codes : Publish(n, c) \/ Ask(n, c)
    \/ \E n \in Nodes : List(n)
    \/ TakeMark \/ Answered \/ Unanswered

LogSpec == LogInit /\ [][LogNext]_logVars
=============================================================================
