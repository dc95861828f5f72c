---------------------------- MODULE SrdoProofs ----------------------------
(***************************************************************************)
(* Proofs about SrdoProcess, for every number of retries, of captured      *)
(* pairs and every bound: no helper thread outlives its scope, a TX        *)
(* request is made only when no earlier one is outstanding, a run that     *)
(* passes or cleans up leaves the baseline behind, and a run that passes   *)
(* has shown each fault it looks for to be absent.                         *)
(*                                                                         *)
(* The scripts are long concatenations.  What the proofs need of them is   *)
(* stated as a property of a script that concatenation preserves, shown    *)
(* for each piece, and so for the whole.                                   *)
(***************************************************************************)
EXTENDS SrdoProcess, TLAPS, SequenceTheorems

-----------------------------------------------------------------------------
(* Scripts.                                                                *)

PlainKinds ==
    {"start", "preop", "reset", "startIf", "read", "rx", "tx", "states", "sample",
     "profile", "expect", "write", "reject", "drain", "send", "ok", "quiet", "watch",
     "silence", "sequence", "listen", "pair", "witness", "regression"}
RequestKinds == {"request", "complete", "result", "resync"}
Kinds == PlainKinds \cup RequestKinds \cup {"spawn", "join"}
Roles == {"worker", "observer"}
Levels == 0..3
RxFrames == {"normal", "short", "inverted", "wrong"}
Values == Levels \cup Roles
          \cup {"established", "notInverted", "srvt", "sct", "short", "config", "nonop",
                "triggered", "cycles", "natural", "normal", "inverted", "wrong"}
Ops == [kind : Kinds, object : Objects, value : Values, held : Roles \cup {"none"}]

\* The thread that exists after the operation was carried out.
Exit(op) == IF op.kind = "spawn" THEN op.value
            ELSE IF op.kind = "join" THEN "none" ELSE op.held

\* Restrictions on single operations: only a TX request writes 0x2306:09, and
\* the TX request loop runs outside the scopes.
Legal(op) ==
    /\ op.kind \in {"write", "reject"} => op.object # TxRequest /\ op.value \in Levels
    /\ op.kind = "spawn" => op.value \in Roles
    /\ op.kind = "send" => op.value \in RxFrames
    /\ op.kind \in RequestKinds \cup {"spawn"} => op.held = "none"

\* A script that starts and ends without a thread, whose operations know
\* which thread exists, and whose TX requests are followed by the wait for
\* their completion and retried from their start.
Sound(s) ==
    /\ s \in Seq(Ops) /\ Len(s) > 0
    /\ s[1].held = "none" /\ Exit(s[Len(s)]) = "none"
    /\ \A i \in 1..Len(s) :
         /\ Legal(s[i])
         /\ i < Len(s) => s[i + 1].held = Exit(s[i])
         /\ s[i].kind = "request" => i < Len(s) /\ s[i + 1].kind = "complete"
         /\ s[i].kind = "result" => i < Len(s) /\ s[i + 1].kind = "resync"
         /\ s[i].kind = "resync" =>
              i > 3 /\ \A k \in (i - 3)..(i - 1) : s[k].kind \in RequestKinds

\* Sound scripts may follow one another.
LEMMA SoundConcat ==
    ASSUME NEW s, NEW t, Sound(s), Sound(t)
    PROVE  Sound(s \o t)
  <1> DEFINE u == s \o t
  <1>1. /\ s \in Seq(Ops) /\ t \in Seq(Ops) /\ Len(s) \in Nat /\ Len(t) \in Nat
        /\ Len(s) > 0 /\ Len(t) > 0
    BY DEF Sound
  <1>2. /\ u \in Seq(Ops) /\ Len(u) = Len(s) + Len(t)
        /\ \A i \in 1..(Len(s) + Len(t)) :
             u[i] = IF i <= Len(s) THEN s[i] ELSE t[i - Len(s)]
    BY <1>1, ConcatProperties
  <1> HIDE DEF u
  <1>3. /\ \A i \in 1..Len(s) : u[i] = s[i]
        /\ \A i \in 1..Len(t) : u[Len(s) + i] = t[i]
    <2>1. ASSUME NEW i \in 1..Len(t)
          PROVE  u[Len(s) + i] = t[i]
      <3>1. /\ Len(s) + i \in 1..(Len(s) + Len(t)) /\ ~(Len(s) + i <= Len(s))
            /\ (Len(s) + i) - Len(s) = i
        BY <1>1
      <3> QED
        BY <1>2, <3>1
    <2>2. ASSUME NEW i \in 1..Len(s)
          PROVE  u[i] = s[i]
      <3>1. i \in 1..(Len(s) + Len(t)) /\ i <= Len(s)
        BY <1>1
      <3> QED
        BY <1>2, <3>1
    <2> QED
      BY <2>1, <2>2
  <1>4. u[1].held = "none" /\ Exit(u[Len(u)]) = "none"
    <2>1. u[1] = s[1] /\ u[Len(u)] = t[Len(t)]
      BY <1>1, <1>2, <1>3
    <2> QED
      BY <2>1 DEF Sound
  <1>5. ASSUME NEW i \in 1..Len(u)
        PROVE  /\ Legal(u[i])
               /\ i < Len(u) => u[i + 1].held = Exit(u[i])
               /\ u[i].kind = "request" =>
                    i < Len(u) /\ u[i + 1].kind = "complete"
               /\ u[i].kind = "result" => i < Len(u) /\ u[i + 1].kind = "resync"
               /\ u[i].kind = "resync" =>
                    i > 3 /\ \A k \in (i - 3)..(i - 1) : u[k].kind \in RequestKinds
    <2>1. CASE i < Len(s)
      <3>1. u[i] = s[i] /\ u[i + 1] = s[i + 1] /\ i \in 1..Len(s) /\ i < Len(u)
        BY <1>1, <1>2, <1>3, <2>1
      <3>2. i > 3 => \A k \in (i - 3)..(i - 1) : u[k] = s[k]
        <4>1. i > 3 => \A k \in (i - 3)..(i - 1) : k \in 1..Len(s)
          BY <1>1, <2>1
        <4> QED
          BY <1>3, <4>1
      <3> QED
        BY <2>1, <3>1, <3>2 DEF Sound
    <2>2. CASE i = Len(s)
      <3>1. u[i] = s[i] /\ u[i + 1] = t[1] /\ i \in 1..Len(s) /\ i < Len(u)
        BY <1>1, <1>2, <1>3, <2>2
      <3>2. u[i].kind \notin {"request", "result"}
        BY <1>1, <2>2, <3>1 DEF Sound
      <3>3. i > 3 => \A k \in (i - 3)..(i - 1) : u[k] = s[k]
        <4>1. i > 3 => \A k \in (i - 3)..(i - 1) : k \in 1..Len(s)
          BY <1>1, <2>2
        <4> QED
          BY <1>3, <4>1
      <3> QED
        BY <2>2, <3>1, <3>2, <3>3 DEF Sound
    <2>3. CASE i > Len(s)
      <3> DEFINE j == i - Len(s)
      <3>1. /\ j \in 1..Len(t) /\ u[i] = t[j] /\ (i < Len(u) <=> j < Len(t))
            /\ j < Len(t) => u[i + 1] = t[j + 1]
            /\ j > 3 => i > 3
        BY <1>1, <1>2, <2>3
      <3>2. ASSUME j > 3, NEW k \in (i - 3)..(i - 1)
            PROVE  k - Len(s) \in (j - 3)..(j - 1) /\ u[k] = t[k - Len(s)]
        <4>1. /\ k - Len(s) \in 1..Len(t) /\ Len(s) + (k - Len(s)) = k
              /\ k - Len(s) \in (j - 3)..(j - 1)
          BY <1>1, <1>2, <2>3, <3>2
        <4> QED
          BY <1>3, <4>1
      <3> HIDE DEF j
      <3>3. ASSUME t[j].kind = "resync", NEW k \in (i - 3)..(i - 1)
            PROVE  u[k].kind \in RequestKinds
        <4>1. j > 3 /\ \A l \in (j - 3)..(j - 1) : t[l].kind \in RequestKinds
          BY <3>1, <3>3 DEF Sound
        <4> QED
          BY <3>2, <4>1
      <3> QED
        BY <3>1, <3>3 DEF Sound
    <2> QED
      BY <1>1, <1>2, <2>1, <2>2, <2>3
  <1> QED
    BY <1>1, <1>2, <1>4, <1>5 DEF Sound, u

\* Operations that need no thread and belong to no TX request.
Plain ==
    {op \in Ops : op.held = "none" /\ Legal(op) /\ op.kind \in PlainKinds}

\* The operations the scripts are written with.
LEMMA PlainOp ==
    ASSUME NEW k \in PlainKinds, NEW o \in Objects, NEW v \in Values,
           k \in {"write", "reject"} => o # TxRequest /\ v \in Levels,
           k = "send" => v \in RxFrames
    PROVE  Op(k, o, v) \in Plain
  <1>1. Op(k, o, v) \in Ops
    BY DEF Op, Ops, Kinds
  <1>2. k \notin RequestKinds \cup {"spawn"}
    BY DEF PlainKinds, RequestKinds
  <1> QED
    BY <1>1, <1>2 DEF Op, Plain, Legal

\* A script of plain operations.
LEMMA PlainSound ==
    ASSUME NEW s \in Seq(Plain), Len(s) > 0
    PROVE  Sound(s)
  <1>1. s \in Seq(Ops) /\ Len(s) \in Nat /\ \A i \in 1..Len(s) : s[i] \in Plain
    BY DEF Plain
  <1>2. \A i \in 1..Len(s) : s[i].held = "none" /\ Exit(s[i]) = "none"
                             /\ Legal(s[i])
    BY <1>1 DEF Plain, PlainKinds, Exit
  <1>3. \A i \in 1..Len(s) : s[i].kind \notin {"request", "result", "resync"}
    BY <1>1 DEF Plain, PlainKinds
  <1>4. \A i \in 1..Len(s) : i < Len(s) => i + 1 \in 1..Len(s)
    BY <1>1
  <1> QED
    BY <1>1, <1>2, <1>3, <1>4 DEF Sound

\* A function on 1..n is a sequence of length n.
LEMMA FunctionSeq ==
    ASSUME NEW n \in Nat, NEW S, NEW f \in [1..n -> S]
    PROVE  f \in Seq(S) /\ Len(f) = n
  <1>1. f \in Seq(S)
    BY SeqDef
  <1>2. DOMAIN f = 1..n /\ DOMAIN f = 1..Len(f) /\ Len(f) \in Nat
    BY <1>1, LenProperties
  <1>3. 1..n = 1..Len(f)
    BY <1>2
  <1>4. n \in 1..n \/ n = 0
    OBVIOUS
  <1>5. Len(f) \in 1..Len(f) \/ Len(f) = 0
    BY <1>2
  <1>6. n <= Len(f) /\ Len(f) <= n
    BY <1>2, <1>3, <1>4, <1>5
  <1> QED
    BY <1>1, <1>2, <1>6

\* Plain operations in the scope of a thread.
LEMMA ScopeSound ==
    ASSUME NEW role \in Roles, NEW ops \in Seq(Plain)
    PROVE  Sound(Scope(role, ops))
  <1> DEFINE m == Len(ops)
             first == Op("spawn", Diagnostic, role)
             last == Do("join")
             b == [i \in 1..(m + 1) |->
                     [(IF i <= m THEN ops[i] ELSE last) EXCEPT !.held = role]]
             s == <<first>> \o b
  <1>1. m \in Nat /\ \A i \in 1..m : ops[i] \in Plain
    OBVIOUS
  <1>2. Diagnostic \in Objects /\ role \in Values /\ Base \in Values
    BY DEF Diagnostic, Objects, Values, Base, Levels
  <1>3. first \in Ops /\ Legal(first) /\ first.held = "none" /\ Exit(first) = role
    <2>1. first \in Ops
      BY <1>2 DEF Op, Ops, Kinds
    <2> QED
      BY <2>1 DEF Op, Legal, Exit, RequestKinds
  <1>4. last \in Ops /\ last.kind = "join"
    BY <1>2 DEF Do, Op, Ops, Kinds
  <1> HIDE DEF first, last, m
  <1>5. ASSUME NEW i \in 1..(m + 1)
        PROVE  /\ b[i] \in Ops /\ b[i].held = role /\ Legal(b[i])
               /\ b[i].kind \notin RequestKinds \cup {"spawn"}
               /\ Exit(b[i]) = IF i = m + 1 THEN "none" ELSE role
    <2>1. CASE i <= m
      <3>1. i \in 1..m /\ ops[i] \in Plain /\ b[i] = [ops[i] EXCEPT !.held = role]
            /\ i # m + 1
        BY <1>1, <2>1
      <3>2. /\ b[i] \in Ops /\ b[i].held = role /\ b[i].kind = ops[i].kind
            /\ b[i].object = ops[i].object /\ b[i].value = ops[i].value
        BY <3>1 DEF Plain, Ops, Roles
      <3> QED
        BY <3>1, <3>2 DEF Plain, Legal, Exit, PlainKinds, RequestKinds
    <2>2. CASE ~(i <= m)
      <3>1. i = m + 1 /\ b[i] = [last EXCEPT !.held = role]
        BY <1>1, <2>2
      <3>2. b[i] \in Ops /\ b[i].held = role /\ b[i].kind = "join"
        BY <1>4, <3>1 DEF Ops, Roles
      <3> QED
        BY <3>1, <3>2 DEF Legal, Exit, RequestKinds
    <2> QED
      BY <2>1, <2>2
  <1>6. b \in Seq(Ops) /\ Len(b) = m + 1
    <2>1. b = [i \in 1..(m + 1) |-> b[i]]
      OBVIOUS
    <2> HIDE DEF b
    <2>2. m + 1 \in Nat /\ b \in [1..(m + 1) -> Ops]
      BY <1>1, <1>5, <2>1
    <2> QED
      BY <2>2, FunctionSeq
  <1> HIDE DEF b
  <1>7. /\ s \in Seq(Ops) /\ Len(s) = m + 2 /\ s[1] = first
        /\ \A i \in 1..(m + 1) : s[i + 1] = b[i]
    <2>1. /\ <<first>> \in Seq(Ops) /\ Len(<<first>>) = 1 /\ <<first>>[1] = first
      BY <1>3
    <2>2. /\ s \in Seq(Ops) /\ Len(s) = 1 + (m + 1)
          /\ \A i \in 1..(1 + (m + 1)) :
               s[i] = IF i <= 1 THEN <<first>>[i] ELSE b[i - 1]
      BY <1>6, <2>1, ConcatProperties
    <2> HIDE DEF s
    <2>3. ASSUME NEW i \in 1..(m + 1)
          PROVE  s[i + 1] = b[i]
      <3>1. i + 1 \in 1..(1 + (m + 1)) /\ ~(i + 1 <= 1) /\ (i + 1) - 1 = i
        BY <1>1
      <3> QED
        BY <2>2, <3>1
    <2> QED
      BY <1>1, <2>1, <2>2, <2>3
  <1> HIDE DEF s
  <1>8. ASSUME NEW i \in 1..(m + 2)
        PROVE  /\ Legal(s[i])
               /\ i < m + 2 => s[i + 1].held = Exit(s[i])
               /\ s[i].kind \notin RequestKinds
    <2>1. CASE i = 1
      <3>1. s[i] = first /\ s[i + 1] = b[1] /\ 1 \in 1..(m + 1)
        BY <1>1, <1>7, <2>1
      <3> QED
        BY <1>3, <1>5, <3>1 DEF first, Op, RequestKinds
    <2>2. CASE i # 1
      <3> DEFINE j == i - 1
      <3>1. /\ j \in 1..(m + 1) /\ s[i] = b[j]
            /\ i < m + 2 => j + 1 \in 1..(m + 1) /\ s[i + 1] = b[j + 1] /\ j # m + 1
        <4>1. j \in 1..(m + 1) /\ j + 1 = i /\ (i < m + 2 => j + 1 \in 1..(m + 1) /\ j # m + 1)
          BY <1>1, <2>2
        <4> HIDE DEF j
        <4> QED
          BY <1>7, <4>1
      <3> HIDE DEF j
      <3> QED
        BY <1>5, <3>1
    <2> QED
      BY <2>1, <2>2
  <1>9. s[1].held = "none" /\ Exit(s[Len(s)]) = "none"
    <2>1. m + 1 \in 1..(m + 1) /\ (m + 1) + 1 = m + 2
      BY <1>1
    <2> QED
      BY <1>3, <1>5, <1>7, <2>1
  <1>10. Sound(s)
    BY <1>1, <1>7, <1>8, <1>9 DEF Sound, RequestKinds
  <1> QED
    BY <1>10 DEF s, b, first, last, m, Scope

\* The constructors of operations, each with what it needs of its arguments.
LEMMA PlainOps ==
    /\ \A k \in PlainKinds \ {"write", "reject", "send"} : Do(k) \in Plain
    /\ \A k \in PlainKinds \ {"write", "reject", "send"}, v \in Values :
         Op(k, Diagnostic, v) \in Plain /\ Wait(k, v) \in Plain
    /\ \A o \in Objects \ {TxRequest}, v \in Levels : Write(o, v) \in Plain
    /\ \A o \in Objects \ {TxRequest}, v \in Levels : Expect(o, v) \in Plain
    /\ \A o \in Objects \ {TxRequest} : Reject(o) \in Plain
    /\ \A v \in RxFrames : Send(v) \in Plain
    /\ \A v \in Values : NextPair(v) \in Plain
  <1>1. /\ Diagnostic \in Objects /\ Base \in Values /\ Illegal \in Levels
        /\ \A v \in Levels : v \in Values
    BY DEF Diagnostic, Objects, Values, Base, Illegal, Levels
  <1>2. {"write", "reject", "expect", "send", "pair"} \subseteq PlainKinds
    BY DEF PlainKinds
  <1>3. \A k \in PlainKinds \ {"write", "reject", "send"}, o \in Objects, v \in Values :
          Op(k, o, v) \in Plain
    BY PlainOp
  <1>4. \A k \in {"write", "reject"}, o \in Objects \ {TxRequest}, v \in Levels :
          Op(k, o, v) \in Plain
    BY <1>1, <1>2, PlainOp
  <1>5. \A k \in PlainKinds \ {"write", "reject", "send"} : Do(k) \in Plain
    BY <1>1, <1>3 DEF Do
  <1>6. \A k \in PlainKinds \ {"write", "reject", "send"}, v \in Values :
          Op(k, Diagnostic, v) \in Plain /\ Wait(k, v) \in Plain
    BY <1>1, <1>3 DEF Wait
  <1>7. ASSUME NEW o \in Objects \ {TxRequest}
        PROVE  /\ \A v \in Levels : Write(o, v) \in Plain /\ Expect(o, v) \in Plain
               /\ Reject(o) \in Plain
    BY <1>1, <1>2, <1>3, <1>4 DEF Write, Expect, Reject
  <1>8. \A v \in Values : NextPair(v) \in Plain
    BY <1>1, <1>2, <1>3 DEF NextPair
  <1>9. \A v \in RxFrames : Send(v) \in Plain
    BY <1>1, <1>2, PlainOp DEF Send, RxFrames, Values
  <1> QED
    BY <1>5, <1>6, <1>7, <1>8, <1>9

\* The objects the scripts name.
LEMMA ScriptArguments ==
    /\ {Direction, Timing, Ids, MapCount, Map, Checksum, Magic, TxData}
          \subseteq Objects \ {TxRequest}
    /\ {0, Base, Other, Illegal} \subseteq Levels
  BY DEF Direction, Timing, Ids, MapCount, Map, Checksum, Magic, TxData, TxRequest,
         Parameters, Objects, Base, Other, Illegal, Levels

\* The cleanup, a script of plain operations.
LEMMA CleanPlain ==
    /\ prepareCleanOperational \in Seq(Plain) /\ Len(prepareCleanOperational) = 12
    /\ prepareCleanOperational[1] = Do("preop")
    /\ \A i \in 1..9 : prepareCleanOperational[i + 1] = writeSrdo1Baseline[i]
    /\ prepareCleanOperational[11] = Do("reset")
    /\ prepareCleanOperational[12] = Do("startIf")
  <1> DEFINE a == <<Do("preop")>>
             b == writeSrdo1Baseline
             c == resetCommunication
             ab == a \o b
             abc == ab \o c
  <1>1. \A k \in {"preop", "reset", "startIf"} : Do(k) \in Plain
    BY PlainOps DEF PlainKinds
  <1>2. \A o \in {Direction, Timing, Ids, MapCount, Map, Checksum, Magic}, v \in {0, Base} :
          Write(o, v) \in Plain
    BY PlainOps, ScriptArguments
  <1>3. a \in Seq(Plain) /\ Len(a) = 1 /\ a[1] = Do("preop")
    BY <1>1
  <1>4. b \in Seq(Plain) /\ Len(b) = 9
    BY <1>2 DEF writeSrdo1Baseline
  <1>5. c \in Seq(Plain) /\ Len(c) = 2 /\ c[1] = Do("reset") /\ c[2] = Do("startIf")
    BY <1>1 DEF resetCommunication
  <1> HIDE DEF a, b, c
  <1>6. /\ ab \in Seq(Plain) /\ Len(ab) = 10
        /\ \A i \in 1..10 : ab[i] = IF i <= 1 THEN a[i] ELSE b[i - 1]
    <2>1. /\ ab \in Seq(Plain) /\ Len(ab) = Len(a) + Len(b)
          /\ \A i \in 1..(Len(a) + Len(b)) :
               ab[i] = IF i <= Len(a) THEN a[i] ELSE b[i - Len(a)]
      BY <1>3, <1>4, ConcatProperties
    <2>2. Len(a) = 1 /\ Len(a) + Len(b) = 10
      BY <1>3, <1>4
    <2> HIDE DEF ab
    <2> QED
      BY <2>1, <2>2
  <1> HIDE DEF ab
  <1>7. /\ abc \in Seq(Plain) /\ Len(abc) = 12
        /\ \A i \in 1..12 : abc[i] = IF i <= 10 THEN ab[i] ELSE c[i - 10]
    <2>1. /\ abc \in Seq(Plain) /\ Len(abc) = Len(ab) + Len(c)
          /\ \A i \in 1..(Len(ab) + Len(c)) :
               abc[i] = IF i <= Len(ab) THEN ab[i] ELSE c[i - Len(ab)]
      BY <1>5, <1>6, ConcatProperties
    <2>2. Len(ab) = 10 /\ Len(ab) + Len(c) = 12
      BY <1>5, <1>6
    <2> HIDE DEF abc
    <2> QED
      BY <2>1, <2>2
  <1> HIDE DEF abc
  <1>8. /\ abc[1] = Do("preop") /\ abc[11] = Do("reset") /\ abc[12] = Do("startIf")
    BY <1>3, <1>5, <1>6, <1>7
  <1>9. \A i \in 1..9 : abc[i + 1] = b[i]
    BY <1>6, <1>7
  <1> QED
    BY <1>7, <1>8, <1>9 DEF abc, ab, a, b, c, prepareCleanOperational

\* The pieces of the validation.
LEMMA PiecesSound ==
    /\ Sound(prepareCleanOperational) /\ Sound(resetCommunication)
    /\ Sound(sendPair("inverted")) /\ Sound(sendPair("wrong"))
    /\ Sound(validateRxPair) /\ Sound(validateEstablishedWindow)
    /\ Sound(requestTxWithBusyRetry) /\ Sound(witness) /\ Sound(validateRegression)
    /\ \A m \in {"cycles", "natural"} : Sound([i \in 1..Pairs |-> NextPair(m)])
  <1>1. \A k \in PlainKinds \ {"write", "reject", "send"} : Do(k) \in Plain
    BY PlainOps
  <1>2. /\ \A k \in {"rx", "states"} : Wait(k, "established") \in Plain
        /\ \A f \in {"normal", "inverted", "wrong"} : Send(f) \in Plain
        /\ \A m \in {"cycles", "natural"} : NextPair(m) \in Plain
    BY PlainOps DEF PlainKinds, Values, RxFrames
  <1>3. {"reset", "startIf", "read", "ok", "witness", "regression"}
           \subseteq PlainKinds \ {"write", "reject", "send"}
    BY DEF PlainKinds
  <1>4. "worker" \in Roles
    BY DEF Roles
  <1>5. Sound(prepareCleanOperational)
    <2>1. prepareCleanOperational \in Seq(Plain) /\ Len(prepareCleanOperational) > 0
      BY CleanPlain
    <2> QED
      BY <2>1, PlainSound
  <1>6. Sound(resetCommunication)
    <2>1. resetCommunication \in Seq(Plain) /\ Len(resetCommunication) > 0
      BY <1>1, <1>3 DEF resetCommunication
    <2> QED
      BY <2>1, PlainSound
  <1>7. ASSUME NEW f \in {"inverted", "wrong"}
        PROVE  Sound(sendPair(f))
    <2>1. sendPair(f) \in Seq(Plain) /\ Len(sendPair(f)) > 0
      BY <1>2 DEF sendPair
    <2> QED
      BY <2>1, PlainSound
  <1>8. Sound(validateRxPair)
    <2>1. <<Wait("rx", "established"), Do("read"), Do("ok")>> \in Seq(Plain)
      BY <1>1, <1>2, <1>3
    <2> QED
      BY <1>4, <1>7, <2>1, ScopeSound, SoundConcat DEF validateRxPair
  <1>9. Sound(validateEstablishedWindow)
    <2>1. <<Wait("states", "established"), Do("ok"), Wait("states", "established")>>
            \in Seq(Plain)
      BY <1>1, <1>2, <1>3
    <2> QED
      BY <1>4, <2>1, ScopeSound DEF validateEstablishedWindow
  <1>10. Sound(witness)
    <2>1. <<Do("witness")>> \in Seq(Plain) /\ <<Do("ok")>> \in Seq(Plain)
          /\ Len(<<Do("ok")>>) > 0
      BY <1>1, <1>3
    <2> QED
      BY <1>4, <2>1, ScopeSound, PlainSound, SoundConcat DEF witness
  <1>11. Sound(validateRegression)
    <2>1. <<Do("regression"), Do("ok"), Do("read")>> \in Seq(Plain)
      BY <1>1, <1>3
    <2> QED
      BY <1>4, <2>1, ScopeSound DEF validateRegression
  <1>12. Sound(requestTxWithBusyRetry)
    <2> DEFINE s == requestTxWithBusyRetry
    <2>1. /\ Len(s) = 4 /\ s[1] = Do("request") /\ s[2] = Do("complete")
          /\ s[3] = Do("result") /\ s[4] = Do("resync")
      BY DEF requestTxWithBusyRetry
    <2>2. ASSUME NEW k \in RequestKinds
          PROVE  /\ Do(k) \in Ops /\ Do(k).kind = k /\ Do(k).held = "none"
                 /\ Legal(Do(k)) /\ Exit(Do(k)) = "none"
      <3>1. Diagnostic \in Objects /\ Base \in Values /\ k \in Kinds
        BY DEF Diagnostic, Objects, Values, Base, Levels, Kinds
      <3>2. Do(k) \in Ops
        BY <3>1 DEF Do, Op, Ops
      <3> QED
        BY <3>2 DEF Do, Op, Legal, Exit, RequestKinds
    <2>3. s \in Seq(Ops)
      BY <2>2 DEF requestTxWithBusyRetry, RequestKinds
    <2>4. {"request", "complete", "result", "resync"} = RequestKinds
      BY DEF RequestKinds
    <2> HIDE DEF s
    <2>5. ASSUME NEW i \in 1..4
          PROVE  /\ Legal(s[i]) /\ Exit(s[i]) = "none" /\ s[i].held = "none"
                 /\ s[i].kind \in RequestKinds
                 /\ s[i].kind = "request" => i = 1
                 /\ s[i].kind = "result" => i = 3
                 /\ s[i].kind = "resync" => i = 4
      <3>1. CASE i = 1
        BY <2>1, <2>2, <2>4, <3>1
      <3>2. CASE i = 2
        BY <2>1, <2>2, <2>4, <3>2
      <3>3. CASE i = 3
        BY <2>1, <2>2, <2>4, <3>3
      <3>4. CASE i = 4
        BY <2>1, <2>2, <2>4, <3>4
      <3> QED
        BY <3>1, <3>2, <3>3, <3>4
    <2>6. s[2].kind = "complete" /\ s[4].kind = "resync"
      BY <2>1, <2>2, <2>4
    <2>7. /\ \A i \in 1..4 : i < 4 => i + 1 \in 1..4
          /\ \A k \in (4 - 3)..(4 - 1) : k \in 1..4
      OBVIOUS
    <2>8. Sound(s)
      BY <2>1, <2>3, <2>5, <2>6, <2>7 DEF Sound
    <2> QED
      BY <2>8 DEF s
  <1>13. ASSUME NEW m \in {"cycles", "natural"}
         PROVE  Sound([i \in 1..Pairs |-> NextPair(m)])
    <2> DEFINE s == [i \in 1..Pairs |-> NextPair(m)]
    <2>1. Pairs \in Nat /\ Pairs > 0
      BY SrdoAssumption
    <2>2. s \in Seq(Plain) /\ Len(s) = Pairs
      BY <1>2, <2>1
    <2> HIDE DEF s
    <2>3. Sound(s)
      BY <2>1, <2>2, PlainSound
    <2> QED
      BY <2>3 DEF s
  <1> QED
    BY <1>5, <1>6, <1>7, <1>8, <1>9, <1>10, <1>11, <1>12, <1>13

\* Short scripts of plain operations.
LEMMA TupleSound ==
    /\ \A a \in Plain : Sound(<<a>>)
    /\ \A a, b \in Plain : Sound(<<a, b>>)
    /\ \A a, b, c \in Plain : Sound(<<a, b, c>>)
    /\ \A a, b, c, d \in Plain : Sound(<<a, b, c, d>>)
    /\ \A a, b, c, d, e, f \in Plain : Sound(<<a, b, c, d, e, f>>)
  <1>1. ASSUME NEW a \in Plain
        PROVE  Sound(<<a>>)
    <2>1. <<a>> \in Seq(Plain) /\ Len(<<a>>) > 0
      OBVIOUS
    <2> QED
      BY <2>1, PlainSound
  <1>2. ASSUME NEW a \in Plain, NEW b \in Plain
        PROVE  Sound(<<a, b>>)
    <2>1. <<a, b>> \in Seq(Plain) /\ Len(<<a, b>>) > 0
      OBVIOUS
    <2> QED
      BY <2>1, PlainSound
  <1>3. ASSUME NEW a \in Plain, NEW b \in Plain, NEW c \in Plain
        PROVE  Sound(<<a, b, c>>)
    <2>1. <<a, b, c>> \in Seq(Plain) /\ Len(<<a, b, c>>) > 0
      OBVIOUS
    <2> QED
      BY <2>1, PlainSound
  <1>4. ASSUME NEW a \in Plain, NEW b \in Plain, NEW c \in Plain, NEW d \in Plain
        PROVE  Sound(<<a, b, c, d>>)
    <2>1. <<a, b, c, d>> \in Seq(Plain) /\ Len(<<a, b, c, d>>) > 0
      OBVIOUS
    <2> QED
      BY <2>1, PlainSound
  <1>5. ASSUME NEW a \in Plain, NEW b \in Plain, NEW c \in Plain, NEW d \in Plain,
               NEW e \in Plain, NEW f \in Plain
        PROVE  Sound(<<a, b, c, d, e, f>>)
    <2>1. <<a, b, c, d, e, f>> \in Seq(Plain) /\ Len(<<a, b, c, d, e, f>>) > 0
      OBVIOUS
    <2> QED
      BY <2>1, PlainSound
  <1> QED
    BY <1>1, <1>2, <1>3, <1>4, <1>5

\* The steps on TX frames.
LEMMA TxSound ==
    Sound(validateTxPair) /\ Sound(validateTxCycles) /\ Sound(validateResetRebind)
  <1>1. \A k \in {"sequence", "preop", "drain"} : Do(k) \in Plain
    BY PlainOps DEF PlainKinds
  <1>2. /\ Wait("tx", "established") \in Plain /\ NextPair("triggered") \in Plain
        /\ \A m \in {"triggered", "cycles", "natural"} : Op("listen", Diagnostic, m) \in Plain
    BY PlainOps DEF PlainKinds, Values
  <1>3. Write(TxData, Base) \in Plain
    BY PlainOps, ScriptArguments
  <1>4. Sound(validateTxPair)
    <2>1. Sound(<<Do("sequence"), Write(TxData, Base), Do("drain")>>)
      BY <1>1, <1>3, TupleSound
    <2>2. Sound(triggerTx)
      BY <2>1, PiecesSound, SoundConcat DEF triggerTx
    <2>3. Sound(<<Op("listen", Diagnostic, "triggered"), NextPair("triggered"),
                  Wait("tx", "established")>>)
      BY <1>2, TupleSound
    <2> QED
      BY <2>2, <2>3, SoundConcat DEF validateTxPair
  <1>5. Sound(validateTxCycles)
    <2> DEFINE a == <<Do("drain"), Op("listen", Diagnostic, "cycles")>>
               b == [i \in 1..Pairs |-> NextPair("cycles")]
               c == <<Wait("tx", "established")>>
    <2>1. Sound(a) /\ Sound(b) /\ Sound(c)
      BY <1>1, <1>2, PiecesSound, TupleSound
    <2> HIDE DEF a, b, c
    <2>2. Sound((a \o b) \o c)
      BY <2>1, SoundConcat
    <2> QED
      BY <2>2 DEF a, b, c, validateTxCycles
  <1>6. Sound(validateResetRebind)
    <2> DEFINE a == <<Do("sequence"), Do("preop"), Do("drain")>>
               b == <<Op("listen", Diagnostic, "natural")>>
               c == [i \in 1..Pairs |-> NextPair("natural")]
    <2>1. Sound(a) /\ Sound(b) /\ Sound(c)
      BY <1>1, <1>2, PiecesSound, TupleSound
    <2> HIDE DEF a, b, c
    <2>2. Sound(((a \o resetCommunication) \o witness) \o b)
      BY <2>1, PiecesSound, SoundConcat
    <2>3. Sound((((a \o resetCommunication) \o witness) \o b) \o c)
      BY <2>1, <2>2, SoundConcat
    <2>4. Sound((((((a \o resetCommunication) \o witness) \o b) \o c) \o witness)
                \o validateRxPair)
      BY <2>3, PiecesSound, SoundConcat
    <2>5. Sound((((((((a \o resetCommunication) \o witness) \o b) \o c) \o witness)
                \o validateRxPair) \o validateEstablishedWindow) \o validateTxPair)
      BY <1>4, <2>4, PiecesSound, SoundConcat
    <2> QED
      BY <2>5 DEF a, b, c, validateResetRebind
  <1> QED
    BY <1>4, <1>5, <1>6

\* The fault cases that send wrong frames.
LEMMA FrameFaultsSound ==
    /\ Sound(F01) /\ Sound(F02) /\ Sound(F03) /\ Sound(F04) /\ Sound(F05)
  <1>1. \A v \in {"notInverted", "srvt", "sct", "short", "established"} : Wait("rx", v) \in Plain
    BY PlainOps DEF PlainKinds, Values
  <1>2. \A f \in {"normal", "short", "inverted"} : Send(f) \in Plain
    BY PlainOps DEF RxFrames
  <1>3. Do("sample") \in Plain
    BY PlainOps DEF PlainKinds
  <1>4. Sound(F01)
    BY <1>1, PiecesSound, TupleSound, SoundConcat DEF F01
  <1>5. Sound(F02)
    BY <1>1, <1>2, PiecesSound, TupleSound, SoundConcat DEF F02
  <1>6. Sound(F03)
    BY <1>1, PiecesSound, TupleSound, SoundConcat DEF F03
  <1>7. Sound(F04)
    BY <1>1, <1>2, PiecesSound, TupleSound, SoundConcat DEF F04
  <1>8. Sound(F05)
    <2>1. /\ Sound(<<Send("inverted"), Do("sample"), Wait("rx", "sct")>>)
          /\ Sound(<<Send("normal"), Send("normal"), Wait("rx", "srvt")>>)
      BY <1>1, <1>2, <1>3, TupleSound
    <2> QED
      BY <2>1, PiecesSound, SoundConcat DEF F05
  <1> QED
    BY <1>4, <1>5, <1>6, <1>7, <1>8

\* The fault cases that write wrong configurations.
LEMMA ConfigurationFaultsSound ==
    /\ Sound(F06) /\ Sound(F07) /\ Sound(F08) /\ Sound(F09) /\ Sound(F10)
  <1>1. /\ \A o \in Objects \ {TxRequest}, v \in {0, Base, Other} :
             Write(o, v) \in Plain /\ Expect(o, v) \in Plain
        /\ \A o \in Objects \ {TxRequest} : Reject(o) \in Plain
    BY PlainOps, ScriptArguments
  <1>2. /\ \A k \in {"preop", "start"} : Do(k) \in Plain
        /\ Wait("rx", "config") \in Plain
    BY PlainOps DEF PlainKinds, Values
  <1>3. ASSUME NEW writes, Sound(writes)
        PROVE  Sound(Refused(writes))
    <2>1. /\ Sound(<<Do("preop")>>)
          /\ Sound(<<Write(Magic, Base), Do("start"), Wait("rx", "config")>>)
      BY <1>1, <1>2, ScriptArguments, TupleSound
    <2> QED
      BY <1>3, <2>1, PiecesSound, SoundConcat DEF Refused
  <1>4. ASSUME NEW o \in Objects \ {TxRequest}
        PROVE  Sound(Repaired(o))
    BY <1>1, <1>2, ScriptArguments, TupleSound DEF Repaired
  <1>5. Sound(F06)
    <2>1. Sound(<<Write(Checksum, Other)>>) /\ Sound(<<Expect(Magic, 0)>>)
      BY <1>1, ScriptArguments, TupleSound
    <2> QED
      BY <1>3, <2>1, SoundConcat DEF F06
  <1>6. Sound(F07)
    <2>1. Sound(<<Do("preop"), Write(Timing, Other), Expect(Magic, 0)>>)
      BY <1>1, <1>2, ScriptArguments, TupleSound
    <2>2. Sound(Repaired(Timing))
      BY <1>4, ScriptArguments
    <2> QED
      BY <2>1, <2>2, PiecesSound, SoundConcat DEF F07
  <1>7. Sound(F08)
    <2>1. Sound(<<Reject(Ids), Expect(Ids, Base), Write(Ids, Other), Write(Checksum, Other)>>)
      BY <1>1, ScriptArguments, TupleSound
    <2> QED
      BY <1>3, <2>1 DEF F08
  <1>8. Sound(F09)
    <2>1. Sound(<<Do("preop"), Write(Direction, 0), Reject(MapCount),
                  Expect(MapCount, Base)>>)
      BY <1>1, <1>2, ScriptArguments, TupleSound
    <2>2. Sound(Repaired(Direction))
      BY <1>4, ScriptArguments
    <2> QED
      BY <2>1, <2>2, PiecesSound, SoundConcat DEF F09
  <1>9. Sound(F10)
    <2>1. /\ Sound(<<Write(Direction, 0), Write(MapCount, 0), Write(Map, Other),
                     Write(MapCount, Base), Write(Direction, Base), Write(Checksum, Other)>>)
          /\ Sound(<<Expect(Magic, 0)>>)
      BY <1>1, ScriptArguments, TupleSound
    <2> QED
      BY <1>3, <2>1, SoundConcat DEF F10
  <1> QED
    BY <1>5, <1>6, <1>7, <1>8, <1>9

\* The whole validation, and its last case.
LEMMA ValidationSound ==
    /\ Sound(Validation) /\ Sound(F11) /\ Sound(F12)
    /\ \E s : Sound(s) /\ Validation = s \o F12
  <1>1. Sound(<<Do("start")>>)
    BY PlainOps, TupleSound DEF PlainKinds
  <1>2. Sound(F11)
    <2>1. \A k \in {"preop", "drain", "start", "watch", "silence", "quiet"} : Do(k) \in Plain
      BY PlainOps DEF PlainKinds
    <2>2. Write(TxData, Other) \in Plain
      BY PlainOps, ScriptArguments
    <2>3. <<Do("start"), Do("watch"), Do("silence")>> \in Seq(Plain)
      BY <2>1
    <2>4. Sound(Scope("observer", <<Do("start"), Do("watch"), Do("silence")>>))
      BY <2>3, ScopeSound DEF Roles
    <2>5. /\ Sound(<<Do("preop"), Do("drain"), Write(TxData, Other)>>)
          /\ Sound(<<Do("quiet")>>)
      BY <2>1, <2>2, TupleSound
    <2> QED
      BY <2>4, <2>5, PiecesSound, SoundConcat DEF F11
  <1>3. Sound(F12)
    BY PiecesSound, SoundConcat DEF F12
  <1> DEFINE a == (((<<Do("start")>> \o validateRxPair) \o validateEstablishedWindow)
                   \o validateTxPair)
             b == ((a \o validateTxCycles) \o validateResetRebind) \o validateRegression
             c == (((b \o F01) \o F02) \o F03) \o F04
             d == (((c \o F05) \o F06) \o F07) \o F08
             e == ((d \o F09) \o F10) \o F11
  <1>4. Sound(a)
    BY <1>1, PiecesSound, TxSound, SoundConcat
  <1> HIDE DEF a
  <1>5. Sound(b)
    BY <1>4, PiecesSound, TxSound, SoundConcat
  <1> HIDE DEF b
  <1>6. Sound(c)
    BY <1>5, FrameFaultsSound, SoundConcat
  <1> HIDE DEF c
  <1>7. Sound(d)
    BY <1>6, FrameFaultsSound, ConfigurationFaultsSound, SoundConcat
  <1> HIDE DEF d
  <1>8. Sound(e)
    BY <1>2, <1>7, ConfigurationFaultsSound, SoundConcat
  <1> HIDE DEF e
  <1>9. Sound(e \o F12)
    BY <1>3, <1>8, SoundConcat
  <1>10. Validation = e \o F12
    BY DEF Validation, a, b, c, d, e
  <1> QED
    BY <1>2, <1>3, <1>8, <1>9, <1>10

\* The opening and the cleanup run without a thread and request nothing.
LEMMA OpeningPlain ==
    Opening \in Seq(Plain) /\ Len(Opening) > 0
  <1>1. Do("drain") \in Plain /\ Do("preop") \in Plain /\ Do("profile") \in Plain
        /\ Wait("states", "nonop") \in Plain
    BY PlainOps DEF PlainKinds, Values
  <1> QED
    BY <1>1 DEF Opening

\* What the operation at place p of the repair and of the window after it is.
Ending == prepareCleanOperational \o validateEstablishedWindow

\* The kinds of the operations of a script's ending.
LEMMA EndingKinds ==
    /\ Len(Ending) = 17 /\ Len(Validation) \in Nat /\ Len(Validation) >= 17
    /\ \A p \in 1..17 : Validation[(Len(Validation) - 17) + p] = Ending[p]
    /\ \A p \in 1..12 : Ending[p] = prepareCleanOperational[p]
    /\ Ending[1].kind = "preop"
    /\ \A p \in 2..10 : Ending[p] = writeSrdo1Baseline[p - 1]
    /\ Ending[11].kind = "reset" /\ Ending[12].kind = "startIf"
    /\ Ending[13].kind = "spawn" /\ Ending[14].kind = "states"
    /\ Ending[15].kind = "ok" /\ Ending[16].kind = "states" /\ Ending[17].kind = "join"
  <1> DEFINE ops == <<Wait("states", "established"), Do("ok"), Wait("states", "established")>>
             one == <<Op("spawn", Diagnostic, "worker")>>
             b == [i \in 1..(Len(ops) + 1) |->
                     [(IF i <= Len(ops) THEN ops[i] ELSE Do("join")) EXCEPT !.held = "worker"]]
             w == validateEstablishedWindow
             c == prepareCleanOperational
  <1>1. /\ w = one \o b /\ Len(ops) = 3 /\ ops[1] = Wait("states", "established")
        /\ ops[2] = Do("ok") /\ ops[3] = Wait("states", "established")
    BY DEF validateEstablishedWindow, Scope
  <1>2. /\ \A k \in {"states", "ok"} : [Wait(k, "established") EXCEPT !.held = "worker"].kind = k
        /\ [Do("ok") EXCEPT !.held = "worker"].kind = "ok"
        /\ [Do("join") EXCEPT !.held = "worker"].kind = "join"
        /\ Op("spawn", Diagnostic, "worker").kind = "spawn"
        /\ Do("preop").kind = "preop" /\ Do("reset").kind = "reset"
        /\ Do("startIf").kind = "startIf"
    BY DEF Wait, Do, Op
  <1> HIDE DEF ops
  <1>3. /\ b[1].kind = "states" /\ b[2].kind = "ok" /\ b[3].kind = "states"
        /\ b[4].kind = "join"
    <2>1. /\ \A i \in 1..3 : b[i] = [ops[i] EXCEPT !.held = "worker"]
          /\ b[4] = [Do("join") EXCEPT !.held = "worker"]
      BY <1>1
    <2>2. /\ b[1] = [Wait("states", "established") EXCEPT !.held = "worker"]
          /\ b[2] = [Do("ok") EXCEPT !.held = "worker"]
          /\ b[3] = [Wait("states", "established") EXCEPT !.held = "worker"]
      BY <1>1, <2>1
    <2> HIDE DEF b
    <2> QED
      BY <1>2, <2>1, <2>2
  <1>4. /\ one = <<Op("spawn", Diagnostic, "worker")>> /\ Len(one) = 1
        /\ one[1].kind = "spawn"
    BY <1>2
  <1>5. b = [i \in 1..4 |-> b[i]]
    BY <1>1
  <1> HIDE DEF one, b
  <1>6. /\ Len(w) = 5 /\ w[1].kind = "spawn" /\ w[2].kind = "states"
        /\ w[3].kind = "ok" /\ w[4].kind = "states" /\ w[5].kind = "join"
    <2>1. b \in Seq({b[i] : i \in 1..4} \cup {one[1]}) /\ Len(b) = 4
      BY <1>5
    <2>2. one \in Seq({b[i] : i \in 1..4} \cup {one[1]})
      BY <1>4
    <2>3. /\ Len(w) = Len(one) + Len(b)
          /\ \A i \in 1..(Len(one) + Len(b)) :
               w[i] = IF i <= Len(one) THEN one[i] ELSE b[i - Len(one)]
      BY <1>1, <2>1, <2>2, ConcatProperties
    <2> QED
      BY <1>3, <1>4, <2>1, <2>3
  <1>7. c \in Seq(Ops) /\ w \in Seq(Ops) /\ Len(c) = 12
    BY CleanPlain, PiecesSound DEF Sound
  <1> HIDE DEF w, c
  <1> DEFINE e == c \o w
  <1>8. /\ e \in Seq(Ops) /\ Len(e) = 17
        /\ \A p \in 1..17 : e[p] = IF p <= 12 THEN c[p] ELSE w[p - 12]
    <2>1. /\ e \in Seq(Ops) /\ Len(e) = Len(c) + Len(w)
          /\ \A i \in 1..(Len(c) + Len(w)) :
               e[i] = IF i <= Len(c) THEN c[i] ELSE w[i - Len(c)]
      BY <1>7, ConcatProperties
    <2>2. Len(c) = 12 /\ Len(w) = 5 /\ Len(c) + Len(w) = 17
      BY <1>6, <1>7
    <2> HIDE DEF e
    <2> QED
      BY <2>1, <2>2
  <1>9. e = Ending /\ e = F12
    BY DEF c, w, Ending, F12
  <1> HIDE DEF e
  <1>10. /\ e[13].kind = "spawn" /\ e[14].kind = "states" /\ e[15].kind = "ok"
         /\ e[16].kind = "states" /\ e[17].kind = "join"
         /\ e[1] = c[1] /\ e[11] = c[11] /\ e[12] = c[12]
         /\ \A p \in 1..12 : e[p] = c[p]
    BY <1>6, <1>8
  <1>11. \A p \in 2..10 : e[p] = writeSrdo1Baseline[p - 1]
    <2>1. \A i \in 1..9 : c[i + 1] = writeSrdo1Baseline[i]
      BY CleanPlain DEF c
    <2>2. \A p \in 2..10 : p - 1 \in 1..9 /\ (p - 1) + 1 = p /\ p \in 1..12
      OBVIOUS
    <2> QED
      BY <1>10, <2>1, <2>2
  <1>12. e[1].kind = "preop" /\ e[11].kind = "reset" /\ e[12].kind = "startIf"
    BY <1>2, <1>10, CleanPlain DEF c
  <1>13. /\ Len(Validation) \in Nat /\ Len(Validation) >= 17
         /\ \A p \in 1..17 : Validation[(Len(Validation) - 17) + p] = e[p]
    <2>1. PICK s : Sound(s) /\ Validation = s \o F12
      BY ValidationSound
    <2>2. s \in Seq(Ops) /\ Len(s) \in Nat
      BY <2>1 DEF Sound
    <2>3. /\ Len(Validation) = Len(s) + 17
          /\ \A i \in 1..(Len(s) + 17) :
               Validation[i] = IF i <= Len(s) THEN s[i] ELSE e[i - Len(s)]
      <3>1. Validation = s \o e
        BY <1>9, <2>1
      <3>2. /\ Len(s \o e) = Len(s) + Len(e)
            /\ \A i \in 1..(Len(s) + Len(e)) :
                 (s \o e)[i] = IF i <= Len(s) THEN s[i] ELSE e[i - Len(s)]
        BY <1>8, <2>2, ConcatProperties
      <3> QED
        BY <1>8, <3>1, <3>2
    <2>4. ASSUME NEW p \in 1..17
          PROVE  Validation[(Len(Validation) - 17) + p] = e[p]
      <3>1. /\ (Len(Validation) - 17) + p = Len(s) + p /\ Len(s) + p \in 1..(Len(s) + 17)
            /\ ~(Len(s) + p <= Len(s)) /\ (Len(s) + p) - Len(s) = p
        BY <2>2, <2>3
      <3> QED
        BY <2>3, <3>1
    <2> QED
      BY <2>2, <2>3, <2>4
  <1> QED
    BY <1>8, <1>9, <1>10, <1>11, <1>12, <1>13 DEF c

-----------------------------------------------------------------------------
(* The inductive invariant.                                                *)

\* The script a phase runs.
ScriptOf(c) == CASE c = "open"  -> Opening
                 [] c = "run"   -> Validation
                 [] c = "clean" -> prepareCleanOperational

\* Where the process is, and what it has decided.
Control ==
    /\ pc \in Scripted \cup {"unwind", "done"} /\ pos \in Nat
    /\ pc \in Scripted => pos \in 1..Len(ScriptOf(pc))
    /\ pc = "unwind" => pos = 1
    /\ result \in {0, 1} /\ cleaned \in BOOLEAN
    /\ pc \in {"open", "run"} => result = 0 /\ ~cleaned
    /\ pc \in {"unwind", "clean"} => result = 1 /\ ~cleaned

\* An abandoned write.
Writes == {w \in Objects \X Nat : w[1] # TxRequest => w[2] \in Levels}
Frames == [id : {"n", "i"}, cycle : Nat]

\* The data the operations work on.
Data ==
    /\ remote \in [Objects -> Nat]
    /\ \A o \in Objects \ {TxRequest} : remote[o] \in Levels
    /\ late \in Seq(Writes) /\ Len(late) <= MaxLate /\ reply.value \in Nat
    /\ phase \in {"n", "i"} /\ cycle \in Nat
    /\ txq \in Seq(Frames) /\ Len(txq) <= MaxQueue
    /\ seq \in Nat /\ complete \in Nat /\ retries \in 0..MaxRetries

\* The thread of a scope.
Threads ==
    /\ thread \in [role : Roles \cup {"none"},
                   at : {"idle", "between", "exit", "error", "seen"},
                   running : BOOLEAN, joined : BOOLEAN]
    /\ Alive => /\ thread.role \in Roles
                /\ \/ pc = "unwind"
                   \/ pc \in Scripted /\ ScriptOf(pc)[pos].held = thread.role

\* While no call was lost, the last TX request has been processed, or is the
\* one whose completion is being waited for.
Requests ==
    pc \in {"open", "run"} =>
        /\ late = <<>>
        /\ \/ remote[TxRequest] = complete
           \/ remote[TxRequest] = seq /\ ScriptOf(pc)[pos].kind = "complete"

\* At the p-th operation of the repair that ends the validation or is the
\* cleanup.
Place(p) == \/ pc = "clean" /\ pos = p
            \/ pc = "run" /\ pos = (Len(Validation) - 17) + p

\* What the operations before the p-th have put back.
Restored(p) ==
    /\ p > 2 => late = <<>>
    /\ p > 4 => remote[Map] = Base
    /\ p > 5 => remote[MapCount] = Base
    /\ p > 6 => remote[Timing] = Base
    /\ p > 7 => remote[Ids] = Base
    /\ p > 8 => remote[Direction] = Base
    /\ p > 9 => remote[Checksum] = Base
    /\ p > 10 => remote[Magic] = Base /\ ~stale
    /\ p > 11 => remote[TxData] = Base
    /\ p > 12 => nmt = "op"

Restoring == \A p \in 1..17 : Place(p) => Restored(p)

Finished == (pc = "done" /\ (result = 0 \/ cleaned)) => Restored(18)

IInv == Control /\ Data /\ Threads /\ Requests /\ Restoring /\ Finished

-----------------------------------------------------------------------------
(* Moving through a script.                                                *)

\* What is known of the operation to be carried out next.
LEMMA Here ==
    ASSUME Control, pc \in Scripted
    PROVE  /\ Script = ScriptOf(pc) /\ Current = ScriptOf(pc)[pos]
           /\ Sound(ScriptOf(pc)) /\ Len(ScriptOf(pc)) \in Nat
           /\ Current \in Ops /\ Legal(Current)
           /\ pc # "run" => Current.held = "none" /\ Current.kind \in PlainKinds
           /\ pc = "run" => ScriptOf(pc) = Validation
           /\ pc = "clean" => ScriptOf(pc) = prepareCleanOperational
  <1>1. Script = ScriptOf(pc) /\ Current = ScriptOf(pc)[pos]
    BY DEF Script, ScriptOf, Current, Scripted
  <1>2. /\ pc = "open" => ScriptOf(pc) = Opening
        /\ pc = "run" => ScriptOf(pc) = Validation
        /\ pc = "clean" => ScriptOf(pc) = prepareCleanOperational
    BY DEF ScriptOf
  <1>3. pc # "run" => ScriptOf(pc) \in Seq(Plain)
    BY <1>2, OpeningPlain, CleanPlain DEF Scripted
  <1>4. Sound(ScriptOf(pc))
    BY <1>2, OpeningPlain, PlainSound, PiecesSound, ValidationSound DEF Scripted
  <1>5. Len(ScriptOf(pc)) \in Nat /\ pos \in 1..Len(ScriptOf(pc))
    BY <1>4 DEF Sound, Control
  <1>6. Current \in Ops /\ Legal(Current)
    BY <1>1, <1>4, <1>5 DEF Sound
  <1>7. pc # "run" => Current \in Plain
    BY <1>1, <1>3, <1>5
  <1> QED
    BY <1>1, <1>2, <1>4, <1>5, <1>6, <1>7 DEF Plain

\* Advance leads to the next operation, or to the next phase.
LEMMA AdvanceControl ==
    ASSUME Control, pc \in Scripted, Advance
    PROVE  /\ Control'
           /\ \/ /\ pc' = pc /\ pos' = pos + 1 /\ pos < Len(ScriptOf(pc))
                 /\ cleaned' = cleaned
              \/ /\ pos = Len(ScriptOf(pc)) /\ pos' = 1
                 /\ pc' = IF pc = "open" THEN "run" ELSE "done"
                 /\ cleaned' = (cleaned \/ pc = "clean")
           /\ result' = result
  <1>1. /\ Script = ScriptOf(pc) /\ Len(ScriptOf(pc)) \in Nat
        /\ pos \in 1..Len(ScriptOf(pc))
    BY Here DEF Control
  <1>2. Following = IF pc = "open" THEN "run" ELSE "done"
    BY DEF Following
  <1>3. cleaned \in BOOLEAN /\ result \in {0, 1}
    BY DEF Control
  <1>4. CASE pos + 1 > Len(Script)
    <2>1. /\ pos' = 1 /\ pc' = Following /\ cleaned' = (cleaned \/ pc = "clean")
          /\ result' = result
      BY <1>4 DEF Advance, Move
    <2>2. pos = Len(ScriptOf(pc))
      BY <1>1, <1>4
    <2>3. Control'
      <3>1. CASE pc = "open"
        <4>1. pc' = "run" /\ pos' = 1 /\ result' = 0 /\ cleaned' = FALSE
          BY <1>2, <1>3, <2>1, <3>1 DEF Control
        <4>2. ScriptOf(pc') = Validation /\ 1 \in 1..Len(Validation)
          BY <4>1, EndingKinds DEF ScriptOf
        <4> QED
          BY <4>1, <4>2 DEF Control, Scripted
      <3>2. CASE pc # "open"
        <4>1. pc' = "done" /\ pos' = 1 /\ result' \in {0, 1} /\ cleaned' \in BOOLEAN
          BY <1>2, <1>3, <2>1, <3>2
        <4> QED
          BY <4>1 DEF Control, Scripted
      <3> QED
        BY <3>1, <3>2
    <2> QED
      BY <1>2, <2>1, <2>2, <2>3
  <1>5. CASE ~(pos + 1 > Len(Script))
    <2>1. pos' = pos + 1 /\ pc' = pc /\ result' = result /\ cleaned' = cleaned
      BY <1>3, <1>5 DEF Advance, Move
    <2>2. pos < Len(ScriptOf(pc)) /\ pos + 1 \in 1..Len(ScriptOf(pc))
      BY <1>1, <1>5
    <2>3. Control'
      BY <2>1, <2>2 DEF Control, Scripted
    <2> QED
      BY <2>1, <2>2, <2>3
  <1> QED
    BY <1>4, <1>5

\* A scope's thread is known to the operations of the scope.
LEMMA AdvanceThread ==
    ASSUME Control, Threads, pc \in Scripted, Advance, thread' = thread,
           Current.kind \notin {"spawn", "join"}
    PROVE  Threads'
  <1>1. Alive' => Alive
    BY DEF Alive
  <1>2. CASE ~Alive
    BY <1>1, <1>2 DEF Threads
  <1>3. CASE Alive
    <2>1. thread.role \in Roles /\ Current.held = thread.role /\ thread.role # "none"
      BY <1>3, Here DEF Threads, Scripted, Roles
    <2>2. Exit(Current) = thread.role
      BY <2>1 DEF Exit
    <2>3. pos # Len(ScriptOf(pc))
      BY <2>1, <2>2, Here DEF Sound
    <2>4. pc' = pc /\ pos' = pos + 1 /\ pos < Len(ScriptOf(pc))
      BY <2>3, AdvanceControl
    <2>5. ScriptOf(pc)[pos + 1].held = Exit(Current)
      BY <2>4, Here DEF Sound, Control
    <2> QED
      BY <2>1, <2>2, <2>4, <2>5 DEF Threads, Alive
  <1> QED
    BY <1>2, <1>3

\* The operation at a place of the repair that ends a run.
LEMMA AtPlace ==
    ASSUME Control, NEW p \in 1..17, Place(p)
    PROVE  Current = Ending[p] /\ pc \in {"run", "clean"} /\ (pc = "clean" => p <= 12)
  <1> DEFINE L == Len(Validation)
  <1>1. pc \in Scripted
    BY DEF Place, Scripted
  <1>2. CASE pc = "clean" /\ pos = p
    <2>1. Len(ScriptOf(pc)) = 12 /\ p \in 1..Len(ScriptOf(pc))
      BY <1>1, <1>2, CleanPlain, Here DEF Control
    <2>2. p \in 1..12 /\ p <= 12
      <3> DEFINE n == Len(ScriptOf(pc))
      <3>1. n = 12 /\ p \in 1..n
        BY <2>1
      <3> HIDE DEF n
      <3> QED
        BY <3>1
    <2>3. Current = prepareCleanOperational[p]
      BY <1>1, <1>2, Here
    <2> QED
      BY <1>2, <2>2, <2>3, EndingKinds
  <1>3. CASE pc = "run" /\ pos = (L - 17) + p
    BY <1>1, <1>3, Here, EndingKinds
  <1> QED
    BY <1>2, <1>3 DEF Place

\* The kinds of operations of that repair.
LEMMA EndingIs ==
    ASSUME NEW p \in 1..17
    PROVE  /\ p \in 1..12 => Ending[p].kind \in {"preop", "write", "reset", "startIf"}
           /\ Ending[p].kind \in {"preop", "write", "reset", "startIf", "spawn", "states",
                                  "ok", "join"}
           /\ Ending[p].kind = "preop" => p = 1
           /\ Ending[p].kind = "write" => p \in 2..10
           /\ Ending[p].kind = "reset" => p = 11
           /\ Ending[p].kind = "startIf" => p = 12
  <1>1. \A i \in 1..9 : writeSrdo1Baseline[i].kind = "write"
    BY DEF writeSrdo1Baseline, Write, Op
  <1>2. \A q \in 2..10 : q - 1 \in 1..9
    OBVIOUS
  <1>3. \A q \in 2..10 : Ending[q].kind = "write"
    <2>1. \A q \in 2..10 : Ending[q] = writeSrdo1Baseline[q - 1]
      BY EndingKinds
    <2> QED
      BY <1>1, <1>2, <2>1
  <1>4. \/ p = 1 \/ p \in 2..10 \/ p = 11 \/ p = 12
        \/ p = 13 \/ p = 14 \/ p = 15 \/ p = 16 \/ p = 17
    OBVIOUS
  <1>5. CASE p \in 2..10
    BY <1>3, <1>5
  <1>6. CASE p = 1 \/ p = 11 \/ p = 12
    BY <1>6, EndingKinds
  <1>7. CASE p \in {13, 14, 15, 16, 17}
    <2>1. Ending[p].kind \in {"spawn", "states", "ok", "join"}
      BY <1>7, EndingKinds
    <2>2. p \notin 1..12
      BY <1>7
    <2> QED
      BY <2>1, <2>2
  <1> QED
    BY <1>4, <1>5, <1>6, <1>7

\* Advance through that repair.
LEMMA AdvancePlace ==
    ASSUME Control, pc \in Scripted, Advance
    PROVE  /\ \A p \in 1..17 :
                Place(p)' => p = 1 \/ (p - 1 \in 1..16 /\ Place(p - 1)
                                      /\ Current = Ending[p - 1])
           /\ (pc' = "done" /\ (result' = 0 \/ cleaned')) =>
                \/ Place(12) /\ Current.kind = "startIf"
                \/ Place(17) /\ Current.kind = "join"
  <1> DEFINE L == Len(Validation)
  <1>1. L \in Nat /\ L >= 17
    BY EndingKinds
  <1>2. pos \in 1..Len(ScriptOf(pc)) /\ Len(ScriptOf(pc)) \in Nat
    BY Here DEF Control
  <1>3. pc = "clean" => Len(ScriptOf(pc)) = 12
    BY CleanPlain, Here
  <1>4. pc = "run" => Len(ScriptOf(pc)) = L
    BY Here
  <1>5. ASSUME NEW p \in 1..17, Place(p)
        PROVE  Current = Ending[p]
    BY <1>5, AtPlace
  <1>6. ASSUME NEW p \in 1..17, Place(p)', p # 1
        PROVE  p - 1 \in 1..16 /\ Place(p - 1) /\ Current = Ending[p - 1]
    <2> HIDE DEF L
    <2>1. p - 1 \in 1..16 /\ p - 1 \in 1..17
      BY <1>6
    <2>2. \/ pc' = "clean" /\ pos' = p
          \/ pc' = "run" /\ pos' = (L - 17) + p
      BY <1>6 DEF Place, L
    <2>3. pos' # 1
      BY <1>1, <1>6, <2>2
    <2>4. pc' = pc /\ pos' = pos + 1
      BY <2>3, AdvanceControl
    <2>5. \/ pc = "clean" /\ pos = p - 1
          \/ pc = "run" /\ pos = (L - 17) + (p - 1)
      BY <1>1, <1>2, <2>2, <2>4
    <2>6. Place(p - 1)
      BY <2>5 DEF Place, L
    <2> QED
      BY <1>5, <2>1, <2>6
  <1>7. ASSUME pc' = "done", result' = 0 \/ cleaned'
        PROVE  \/ Place(12) /\ Current.kind = "startIf"
               \/ Place(17) /\ Current.kind = "join"
    <2>1. pos = Len(ScriptOf(pc)) /\ pc # "open"
      BY <1>7, AdvanceControl DEF Scripted
    <2>2. CASE pc = "clean"
      <3>1. Place(12)
        BY <1>3, <2>1, <2>2 DEF Place
      <3> QED
        BY <1>5, <3>1, EndingKinds
    <2>3. CASE pc = "run"
      <3> HIDE DEF L
      <3>1. pos = (L - 17) + 17
        BY <1>1, <1>4, <2>1, <2>3
      <3>2. Place(17)
        BY <2>3, <3>1 DEF Place, L
      <3> QED
        BY <1>5, <3>2, EndingKinds
    <2> QED
      BY <2>1, <2>2, <2>3 DEF Scripted
  <1> QED
    BY <1>6, <1>7

\* An operation that is none of the repair's changes nothing of it.
LEMMA AdvanceQuiet ==
    ASSUME Control, Restoring, pc \in Scripted, Advance,
           Current.kind \notin {"preop", "write", "reset", "startIf"},
           UNCHANGED <<remote, late, stale, nmt>>
    PROVE  Restoring' /\ Finished'
  <1>1. \A p \in 1..18 : Restored(p) => Restored(p)'
    BY DEF Restored
  <1>2. \A p \in 1..12 : Ending[p].kind \in {"preop", "write", "reset", "startIf"}
    BY EndingIs
  <1>3. ASSUME NEW p \in 1..17, Place(p)'
        PROVE  Restored(p)'
    <2>1. CASE p = 1
      BY <2>1 DEF Restored
    <2>2. CASE p # 1
      <3>1. p - 1 \in 1..16 /\ Place(p - 1) /\ Current = Ending[p - 1]
        BY <1>3, <2>2, AdvancePlace
      <3>2. Restored(p - 1) /\ p - 1 > 12
        BY <1>2, <3>1 DEF Restoring
      <3>3. Restored(p)
        BY <3>2 DEF Restored
      <3> QED
        BY <1>1, <3>3
    <2> QED
      BY <2>1, <2>2
  <1>4. Finished'
    <2>1. (pc' = "done" /\ (result' = 0 \/ cleaned')) => Place(17)
      BY AdvancePlace
    <2>2. Restored(17) => Restored(18)'
      BY <1>1 DEF Restored
    <2> QED
      BY <2>1, <2>2 DEF Finished, Restoring
  <1> QED
    BY <1>3, <1>4 DEF Restoring

\* An operation of a kind that the repair does not use is outside it.
LEMMA AdvanceOutside ==
    ASSUME Control, pc \in Scripted, Advance,
           Current.kind \notin {"preop", "write", "reset", "startIf", "spawn", "states",
                               "ok", "join"}
    PROVE  Restoring' /\ Finished'
  <1>1. ASSUME NEW p \in 1..17, Place(p)'
        PROVE  Restored(p)'
    <2>1. p # 1 => p - 1 \in 1..17 /\ Current = Ending[p - 1]
      BY <1>1, AdvancePlace
    <2>2. p = 1
      BY <2>1, EndingIs
    <2> QED
      BY <2>2 DEF Restored
  <1>2. Finished'
    BY AdvancePlace DEF Finished
  <1> QED
    BY <1>1, <1>2 DEF Restoring

\* A TX request stays the only one.
LEMMA AdvanceRequests ==
    ASSUME Control, Requests, pc \in Scripted, Advance,
           UNCHANGED <<remote, late, complete>>,
           Current.kind = "complete" => complete = seq
    PROVE  Requests'
  <1>1. pc' \in {"open", "run"} => pc \in {"open", "run"}
    BY AdvanceControl DEF Scripted
  <1>2. Current = ScriptOf(pc)[pos]
    BY Here
  <1> QED
    BY <1>1, <1>2 DEF Requests

\* A failure leaves the script: the thread, if there is one, is joined next.
LEMMA FailStep ==
    ASSUME Control, Threads, pc \in Scripted, Fail, thread' = thread
    PROVE  Control' /\ Threads' /\ Requests' /\ Restoring' /\ Finished'
  <1>1. /\ pos' = 1 /\ pc' = IF pc = "run" THEN "unwind" ELSE "done"
        /\ result' = 1 /\ cleaned' = cleaned
    BY DEF Fail
  <1>2. ~cleaned /\ cleaned \in BOOLEAN
    BY DEF Control, Scripted
  <1>3. Control'
    BY <1>1, <1>2 DEF Control, Scripted
  <1>4. pc # "run" => ~Alive
    BY Here DEF Threads, Roles, Scripted
  <1>5. Threads'
    BY <1>1, <1>4 DEF Threads, Alive
  <1>6. Requests' /\ Restoring' /\ Finished'
    BY <1>1, <1>2 DEF Requests, Restoring, Place, Finished
  <1> QED
    BY <1>3, <1>5, <1>6

\* A step that stays where it is, and its data.
LEMMA StayStep ==
    ASSUME Control, Restoring, Finished, UNCHANGED control,
           UNCHANGED <<remote, late, stale, nmt>>
    PROVE  Control' /\ Restoring' /\ Finished'
  BY DEF control, Control, Restoring, Finished, Place, Restored

-----------------------------------------------------------------------------
(* The steps of the slave and of the threads.                              *)

\* The data that no step of the thread or the receiver touches.
dataVars == <<remote, late, reply, phase, cycle, txq, seq, complete, retries>>

\* Unchanged data.
LEMMA DataKept ==
    ASSUME Data, UNCHANGED dataVars
    PROVE  Data'
  BY DEF Data, dataVars

\* The queue of captured frames when one is taken, or all are dropped.
LEMMA QueueShrinks ==
    ASSUME Data, \/ txq' = txq \/ txq' = <<>>
                 \/ txq # <<>> /\ txq' = Tail(txq)
    PROVE  txq' \in Seq(Frames) /\ Len(txq') <= MaxQueue
  <1>1. txq \in Seq(Frames) /\ Len(txq) \in Nat /\ Len(txq) <= MaxQueue /\ MaxQueue \in Nat
    BY SrdoAssumption DEF Data
  <1>2. CASE txq # <<>> /\ txq' = Tail(txq)
    <2>1. Tail(txq) \in Seq(Frames) /\ Len(Tail(txq)) = Len(txq) - 1
      BY <1>1, <1>2, HeadTailProperties
    <2>2. Len(Tail(txq)) <= MaxQueue
      BY <1>1, <2>1
    <2> QED
      BY <1>2, <2>1, <2>2, Zenon
  <1>3. CASE txq' = <<>>
    BY <1>1, <1>3
  <1> QED
    BY <1>1, <1>2, <1>3

\* Frames, requests and late writes of the slave.
LEMMA SlaveStep ==
    ASSUME IInv, RxTimeout \/ TxEmit \/ TxFault \/ SlaveServes \/ LateEffect
    PROVE  IInv'
  <1> USE DEF IInv
  <1>1. CASE RxTimeout \/ TxFault
    <2>1. /\ UNCHANGED dataVars /\ UNCHANGED control /\ UNCHANGED <<stale, nmt, thread>>
          /\ UNCHANGED <<remote, late, seq, complete>>
      BY <1>1 DEF RxTimeout, TxFault, dataVars, sdo, transmitter, locals, control
    <2>2. Control' /\ Restoring' /\ Finished'
      BY <2>1, StayStep
    <2>3. Threads' /\ Requests'
      BY <2>1 DEF Threads, Alive, Requests, control
    <2> QED
      BY <2>1, <2>2, <2>3, DataKept
  <1>2. CASE TxEmit
    <2>1. /\ UNCHANGED control /\ UNCHANGED <<remote, late, reply, stale, nmt, thread>>
          /\ UNCHANGED <<seq, complete, retries>>
          /\ Len(txq) < MaxQueue
          /\ phase' = IF phase = "n" THEN "i" ELSE "n"
          /\ cycle' = IF phase = "n" THEN cycle ELSE (cycle + 1) % Cycles
          /\ txq' = Append(txq, [id |-> phase, cycle |-> cycle]) \/ txq' = txq
      BY <1>2 DEF TxEmit, sdo, locals, control
    <2>2. Control' /\ Restoring' /\ Finished'
      BY <2>1, StayStep
    <2>3. Threads' /\ Requests'
      BY <2>1 DEF Threads, Alive, Requests, control
    <2>4. txq' \in Seq(Frames) /\ Len(txq') <= MaxQueue
      <3>1. [id |-> phase, cycle |-> cycle] \in Frames
        BY DEF Data, Frames
      <3>2. txq \in Seq(Frames) /\ Len(txq) <= MaxQueue /\ MaxQueue \in Nat
        BY SrdoAssumption DEF Data
      <3>3. CASE txq' = Append(txq, [id |-> phase, cycle |-> cycle])
        BY <2>1, <3>1, <3>2, <3>3, AppendProperties
      <3> QED
        BY <2>1, <3>2, <3>3
    <2>5. cycle' \in Nat /\ phase' \in {"n", "i"}
      BY <2>1 DEF Data, Cycles
    <2>6. Data'
      BY <2>1, <2>4, <2>5 DEF Data
    <2> QED
      BY <2>2, <2>3, <2>6
  <1>3. CASE SlaveServes
    <2>1. /\ UNCHANGED control /\ UNCHANGED <<remote, late, reply, stale, nmt, thread>>
          /\ UNCHANGED <<seq, retries, txq, phase, cycle>> /\ complete' = remote[TxRequest]
      BY <1>3 DEF SlaveServes, sdo, locals, control
    <2>2. Control' /\ Restoring' /\ Finished'
      BY <2>1, StayStep
    <2>3. Threads' /\ Requests'
      BY <2>1 DEF Threads, Alive, Requests, control
    <2>4. TxRequest \in Objects
      BY DEF Objects, TxRequest
    <2>5. Data'
      BY <2>1, <2>4 DEF Data
    <2> QED
      BY <2>2, <2>3, <2>5
  <1>4. CASE LateEffect
    <2>1. /\ late # <<>> /\ late' = Tail(late) /\ reply' = reply
          /\ \/ remote' = remote
             \/ remote' = [remote EXCEPT ![Head(late)[1]] = Head(late)[2]]
          /\ UNCHANGED control /\ UNCHANGED <<nmt, thread>>
          /\ UNCHANGED <<seq, complete, retries, txq, phase, cycle>>
      BY <1>4 DEF LateEffect, Sdo!LateWrite, Sdo!LateLoss, Sdo!Written, slave, transmitter,
                  locals, control
    <2>2. /\ late \in Seq(Writes) /\ Head(late) \in Writes
          /\ late' \in Seq(Writes) /\ Len(late') <= MaxLate
      <3>1. /\ late \in Seq(Writes) /\ Len(late) \in Nat /\ Len(late) <= MaxLate
            /\ MaxLate \in Nat
        BY SrdoAssumption DEF Data
      <3>2. Head(late) \in Writes /\ Tail(late) \in Seq(Writes)
            /\ Len(Tail(late)) = Len(late) - 1
        BY <2>1, <3>1, HeadTailProperties
      <3> QED
        BY <2>1, <3>1, <3>2
    <2>3. /\ Head(late)[1] \in Objects /\ Head(late)[2] \in Nat
          /\ Head(late)[1] # TxRequest => Head(late)[2] \in Levels
      BY <2>2 DEF Writes
    <2>4. Data'
      BY <2>1, <2>2, <2>3 DEF Data
    <2>5. pc \notin {"open", "run"}
      BY <2>1 DEF Requests
    <2>6. Control' /\ Threads' /\ Requests'
      BY <2>1, <2>5 DEF Control, Threads, Alive, Requests, control
    <2>7. \A p \in 3..18 : ~Restored(p)
      BY <2>1 DEF Restored
    <2>8. Restoring'
      <3>1. \A p \in 1..17 : Place(p)' => Place(p)
        BY <2>1 DEF Place, control
      <3>2. \A p \in 1..17 : Place(p) => p \in 1..2
        <4>1. \A p \in 1..17 : p \in 1..2 \/ p \in 3..18
          OBVIOUS
        <4> QED
          BY <2>7, <4>1 DEF Restoring
      <3>3. \A p \in 1..2 : Restored(p)'
        BY DEF Restored
      <3> QED
        BY <3>1, <3>2, <3>3 DEF Restoring
    <2>9. Finished'
      BY <2>1, <2>7 DEF Finished, control
    <2> QED
      BY <2>4, <2>6, <2>8, <2>9
  <1> QED
    BY <1>1, <1>2, <1>3, <1>4

\* The loops of the worker and of the observer.
LEMMA ThreadStep ==
    ASSUME IInv, ThreadSteps
    PROVE  IInv'
  <1> USE DEF IInv
  <1> DEFINE Places == {"idle", "between", "exit", "error", "seen"}
  <1>1. /\ \E a \in Places : thread' = [thread EXCEPT !.at = a]
        /\ UNCHANGED control /\ UNCHANGED <<remote, late, reply, stale, nmt>>
        /\ UNCHANGED <<seq, complete, retries, phase, cycle>>
        /\ txq' = txq \/ (txq # <<>> /\ txq' = Tail(txq))
    <2>1. CASE WorkerSends
      BY <2>1 DEF WorkerSends, sdo, transmitter, locals, control
    <2>2. CASE ObserverReads
      BY <2>2 DEF ObserverReads, sdo, slave, transmitter, locals, control
    <2> QED
      BY <2>1, <2>2 DEF ThreadSteps
  <1>2. Control' /\ Restoring' /\ Finished'
    BY <1>1, StayStep
  <1>3. PICK a \in Places : thread' = [thread EXCEPT !.at = a]
    BY <1>1
  <1>4. thread' \in [role : Roles \cup {"none"}, at : Places,
                    running : BOOLEAN, joined : BOOLEAN]
        /\ thread'.role = thread.role /\ thread'.joined = thread.joined
    BY <1>3 DEF Threads
  <1>5. Threads' /\ Requests'
    BY <1>1, <1>4 DEF Threads, Alive, Requests, control
  <1>6. txq' \in Seq(Frames) /\ Len(txq') <= MaxQueue
    BY <1>1, QueueShrinks
  <1>7. Data'
    BY <1>1, <1>6 DEF Data
  <1> QED
    BY <1>2, <1>5, <1>7

-----------------------------------------------------------------------------
(* The steps of the main thread.                                           *)

\* Kinds of the operations that restore the slave or start or stop a thread.
Restorers == {"preop", "write", "reset", "startIf", "spawn", "join"}

\* An operation that touches neither configuration nor request nor thread.
LEMMA QuietStep ==
    ASSUME IInv, pc \in Scripted, Data', Current.kind \notin Restorers,
           UNCHANGED <<remote, late, stale, nmt, complete, thread>>,
           Fail \/ (Advance /\ (Current.kind = "complete" => complete = seq))
    PROVE  IInv'
  <1> USE DEF IInv
  <1>1. CASE Fail
    BY <1>1, FailStep
  <1>2. CASE Advance /\ (Current.kind = "complete" => complete = seq)
    <2>1. Control'
      BY <1>2, AdvanceControl
    <2>2. Threads'
      BY <1>2, AdvanceThread DEF Restorers
    <2>3. Requests'
      BY <1>2, AdvanceRequests
    <2>4. Restoring' /\ Finished'
      BY <1>2, AdvanceQuiet DEF Restorers
    <2> QED
      BY <2>1, <2>2, <2>3, <2>4
  <1> QED
    BY <1>1, <1>2

\* An operation that only reads.
Reads(k) ==
    /\ At(k) /\ \E o \in Objects : Sdo!SdoRead(o)
    /\ Fail \/ (Advance /\ (k = "complete" => complete = seq))
    /\ UNCHANGED <<stale, slave, txq, thread, lost>>
    /\ seq' \in Nat /\ retries' \in 0..MaxRetries

\* Reads keep the invariant.
LEMMA ReadStep ==
    ASSUME IInv, NEW k, Reads(k), k \notin Restorers
    PROVE  IInv'
  <1> USE DEF IInv
  <1>1. PICK o \in Objects : Sdo!SdoRead(o)
    BY DEF Reads
  <1>2. remote[o] \in Nat /\ reply.value \in Nat
    BY DEF Data
  <1>3. UNCHANGED <<remote, late>> /\ reply'.value \in Nat
    BY <1>1, <1>2 DEF Sdo!SdoRead, Sdo!Answer
  <1>4. Data'
    BY <1>3 DEF Reads, slave, transmitter, Data
  <1>5. /\ pc \in Scripted /\ Current.kind = k
        /\ UNCHANGED <<remote, late, stale, nmt, complete, thread>>
        /\ Fail \/ (Advance /\ (Current.kind = "complete" => complete = seq))
    BY <1>3 DEF Reads, At, slave, transmitter
  <1> QED
    BY <1>4, <1>5, QuietStep

\* The reads of the code.
LEMMA ReadActions ==
    ASSUME IInv,
           \/ readRemote \/ waitForRxState \/ waitForTxState \/ waitForDiagnosticState
           \/ SampleRxState \/ validateProfile \/ expectRemote \/ WatchForFault \/ Witness
           \/ waitForTxCompletion \/ ReadSequence
    PROVE  IInv'
  <1> DEFINE kinds == {"read", "rx", "tx", "states", "sample", "profile", "watch", "witness"}
  <1>1. /\ Diagnostic \in Objects /\ TxRequest \in Objects
        /\ seq \in Nat /\ retries \in 0..MaxRetries /\ 0 \in 0..MaxRetries
        /\ reply.value \in Nat /\ remote[TxRequest] \in Nat
    BY SrdoAssumption DEF IInv, Data, Objects, Diagnostic, TxRequest
  <1>2. CASE \/ readRemote \/ waitForRxState \/ waitForTxState \/ waitForDiagnosticState
             \/ SampleRxState \/ validateProfile \/ WatchForFault \/ Witness
    <2>1. \E k \in kinds :
            /\ At(k) /\ Sdo!SdoRead(Diagnostic) /\ (Fail \/ Advance)
            /\ UNCHANGED <<stale, slave, txq, thread, locals, lost>>
      BY <1>2 DEF readRemote, waitForRxState, waitForTxState, waitForDiagnosticState,
                  SampleRxState, validateProfile, WatchForFault, Witness, ReadAndCheck, Check
    <2>2. \E k \in kinds : Reads(k)
      BY <1>1, <2>1 DEF Reads, locals
    <2>3. kinds \cap Restorers = {}
      BY DEF Restorers
    <2> QED
      BY <2>2, <2>3, ReadStep
  <1>3. CASE expectRemote
    <2>1. At("expect") /\ Current.object \in Objects
      BY <1>3, Here DEF expectRemote, At, IInv, Ops
    <2>2. Reads("expect")
      BY <1>1, <1>3, <2>1 DEF expectRemote, ReadAndCheck, Check, Reads, locals
    <2> QED
      BY <2>2, ReadStep DEF Restorers
  <1>4. CASE waitForTxCompletion
    <2>1. Reads("complete")
      BY <1>1, <1>4 DEF waitForTxCompletion, ReadAndCheck, Check, Reads, locals
    <2> QED
      BY <2>1, ReadStep DEF Restorers
  <1>5. CASE ReadSequence
    <2>1. reply'.value \in Nat
      BY <1>1, <1>5 DEF ReadSequence, Sdo!SdoRead, Sdo!Answer
    <2>2. seq' \in Nat /\ retries' \in 0..MaxRetries
      BY <1>1, <1>5, <2>1 DEF ReadSequence
    <2>3. Reads("sequence")
      BY <1>1, <1>5, <2>2 DEF ReadSequence, Check, Reads
    <2> QED
      BY <2>3, ReadStep DEF Restorers
  <1> QED
    BY <1>2, <1>3, <1>4, <1>5

\* Frames, waits without a call, and the keepalive's state.
LEMMA QuietActions ==
    ASSUME IInv, drain \/ sendRx \/ WorkerOk \/ SilenceHold \/ Listen
    PROVE  IInv'
  <1> DEFINE kinds == {"drain", "send", "ok", "quiet", "silence", "listen"}
  <1>1. /\ pc \in Scripted /\ Current.kind \in kinds /\ (Fail \/ Advance)
        /\ UNCHANGED <<remote, late, reply, stale, nmt, complete, thread>>
        /\ UNCHANGED <<phase, seq, retries>>
        /\ cycle' = cycle \/ cycle' = 0
        /\ txq' = txq \/ txq' = <<>>
    <2>1. CASE drain
      BY <2>1 DEF drain, At, sdo, locals
    <2>2. CASE sendRx
      BY <2>2 DEF sendRx, At, sdo, transmitter, locals
    <2>3. CASE WorkerOk
      BY <2>3 DEF WorkerOk, At, Check, sdo, slave, transmitter, locals
    <2>4. CASE SilenceHold
      BY <2>4 DEF SilenceHold, At, Check, sdo, slave, transmitter, locals
    <2>5. CASE Listen
      BY <2>5 DEF Listen, At, sdo, slave, transmitter
    <2> QED
      BY <2>1, <2>2, <2>3, <2>4, <2>5
  <1>2. txq' \in Seq(Frames) /\ Len(txq') <= MaxQueue
    BY <1>1, QueueShrinks DEF IInv
  <1>3. Data'
    BY <1>1, <1>2 DEF IInv, Data
  <1>4. Current.kind \notin Restorers /\ Current.kind # "complete"
    BY <1>1 DEF Restorers
  <1> QED
    BY <1>1, <1>3, <1>4, QuietStep

\* The pairing of captured frames.
LEMMA PairStep ==
    ASSUME IInv, nextPair
    PROVE  IInv'
  <1> USE DEF IInv
  <1>1. /\ pc \in Scripted /\ Current.kind = "pair"
        /\ UNCHANGED <<remote, late, reply, stale, nmt, complete, thread>>
        /\ UNCHANGED <<phase, cycle, seq, retries>>
        /\ UNCHANGED control \/ Fail \/ Advance
        /\ txq' = txq \/ (txq # <<>> /\ txq' = Tail(txq))
    BY DEF nextPair, At, Check, sdo, transmitter
  <1>2. txq' \in Seq(Frames) /\ Len(txq') <= MaxQueue
    BY <1>1, QueueShrinks
  <1>3. Data'
    BY <1>1, <1>2 DEF Data
  <1>4. CASE UNCHANGED control
    <2>1. Control' /\ Restoring' /\ Finished'
      BY <1>1, <1>4, StayStep
    <2>2. Threads' /\ Requests'
      BY <1>1, <1>4 DEF Threads, Alive, Requests, control
    <2> QED
      BY <1>3, <2>1, <2>2
  <1>5. CASE Fail \/ Advance
    BY <1>1, <1>3, <1>5, QuietStep DEF Restorers
  <1> QED
    BY <1>1, <1>4, <1>5

\* The TX request loop runs in the validation, outside every scope and
\* before the repair that ends it.
LEMMA InLoop ==
    ASSUME IInv, pc \in Scripted, Current.kind \in RequestKinds
    PROVE  /\ pc = "run" /\ ~Alive
           /\ \A p \in 1..17 : ~Place(p)
           /\ Current.kind = "resync" =>
                /\ pos - 3 \in 1..Len(Validation)
                /\ \A k \in (pos - 3)..(pos - 1) : Validation[k].kind \in RequestKinds
           /\ Current.kind = "request" =>
                pos < Len(Validation) /\ Validation[pos + 1].kind = "complete"
           /\ Current.kind = "result" =>
                pos < Len(Validation) /\ Validation[pos + 1].kind = "resync"
  <1> USE DEF IInv
  <1>1. pc = "run"
    BY Here DEF PlainKinds, RequestKinds
  <1>2. ~Alive
    <2>1. Current.held = "none"
      BY Here DEF Legal
    <2> QED
      BY <1>1, <2>1, Here DEF Threads, Roles
  <1>3. \A p \in 1..17 : ~Place(p)
    BY AtPlace, EndingIs DEF RequestKinds
  <1>4. /\ ScriptOf(pc) = Validation /\ Sound(Validation) /\ pos \in 1..Len(Validation)
        /\ Current = Validation[pos] /\ Len(Validation) \in Nat
    BY <1>1, Here DEF Control
  <1>5. Current.kind = "resync" =>
          pos > 3 /\ \A k \in (pos - 3)..(pos - 1) : Validation[k].kind \in RequestKinds
    BY <1>4 DEF Sound
  <1>6. pos > 3 => pos - 3 \in 1..Len(Validation)
    BY <1>4
  <1> QED
    BY <1>1, <1>2, <1>3, <1>4, <1>5, <1>6 DEF Sound

\* A request is written only when the last one has been processed.
LEMMA RequestStep ==
    ASSUME IInv, RequestTx
    PROVE  IInv'
  <1> USE DEF IInv
  <1>1. /\ pc \in Scripted /\ Current.kind = "request" /\ seq' = seq + 1
        /\ Sdo!SdoWrite(TxRequest, seq + 1) /\ Len(late') <= MaxLate
        /\ Fail \/ (Advance /\ reply'.class = "SUCCESS")
        /\ UNCHANGED <<stale, nmt, txq, thread, retries, phase, cycle, complete>>
    BY DEF RequestTx, At, Check, Answered, slave, transmitter
  <1>2. "request" \in RequestKinds
    BY DEF RequestKinds
  <1>3. /\ pc = "run" /\ pos < Len(Validation) /\ Validation[pos + 1].kind = "complete"
        /\ \A p \in 1..17 : ~Place(p)
    BY <1>1, <1>2, InLoop
  <1>4. late = <<>>
    BY <1>3 DEF Requests
  <1>5. seq + 1 \in Nat /\ TxRequest \in Objects /\ <<TxRequest, seq + 1>> \in Writes
    BY DEF Data, Objects, TxRequest, Writes
  <1>6. Data'
    <2>1. \/ remote' = remote
          \/ remote' = [remote EXCEPT ![TxRequest] = seq + 1]
      BY <1>1 DEF Sdo!SdoWrite, Sdo!Written
    <2>2. late' = late \/ late' = Append(late, <<TxRequest, seq + 1>>)
      BY <1>1 DEF Sdo!SdoWrite
    <2>3. reply'.value \in Nat
      BY <1>1 DEF Sdo!SdoWrite, Sdo!Answer, Data
    <2>4. late' \in Seq(Writes)
      <3>1. late \in Seq(Writes)
        BY DEF Data
      <3>2. Append(late, <<TxRequest, seq + 1>>) \in Seq(Writes)
        BY <1>5, <3>1, AppendProperties
      <3> QED
        BY <2>2, <3>1, <3>2
    <2>5. remote' \in [Objects -> Nat] /\ \A o \in Objects \ {TxRequest} : remote'[o] \in Levels
      BY <1>5, <2>1 DEF Data
    <2> QED
      BY <1>1, <1>5, <2>3, <2>4, <2>5 DEF Data
  <1>7. CASE Fail
    BY <1>1, <1>6, <1>7, FailStep
  <1>8. CASE Advance /\ reply'.class = "SUCCESS"
    <2>1. Control' /\ Threads' /\ Restoring' /\ Finished'
      BY <1>1, <1>8, AdvanceControl, AdvanceThread, AdvanceOutside
    <2>2. remote' = [remote EXCEPT ![TxRequest] = seq + 1] /\ late' = late
      BY <1>1, <1>8 DEF Sdo!SdoWrite, Sdo!Written, Sdo!Answer
    <2>3. remote'[TxRequest] = seq'
      BY <1>1, <1>5, <2>2 DEF Data
    <2>4. pc' = "run" /\ pos' = pos + 1 /\ ScriptOf(pc') = Validation
      <3>1. ScriptOf(pc) = Validation
        BY <1>3 DEF ScriptOf
      <3>2. pos # Len(ScriptOf(pc))
        BY <1>3, <3>1, EndingKinds DEF Control
      <3> QED
        BY <1>1, <1>3, <1>8, <3>1, <3>2, AdvanceControl
    <2>5. Requests'
      BY <1>3, <1>4, <2>2, <2>3, <2>4 DEF Requests
    <2> QED
      BY <1>6, <2>1, <2>5
  <1> QED
    BY <1>1, <1>7, <1>8

\* The result of a request: go on, synchronize and retry, or give up.
LEMMA ResultStep ==
    ASSUME IInv, TxResult
    PROVE  IInv'
  <1> USE DEF IInv
  <1>1. /\ pc \in Scripted /\ Current.kind = "result" /\ Sdo!SdoRead(Diagnostic)
        /\ UNCHANGED <<stale, nmt, txq, thread, phase, cycle, complete, seq>>
        /\ \/ Move(2) /\ retries' = retries
           \/ Advance /\ retries < MaxRetries /\ retries' = retries + 1
           \/ Fail /\ retries' = retries
    BY DEF TxResult, MayRetry, At, slave, transmitter
  <1>2. /\ Diagnostic \in Objects /\ MaxRetries \in Nat /\ retries \in 0..MaxRetries
        /\ remote[Diagnostic] \in Nat /\ reply.value \in Nat
    BY SrdoAssumption DEF Data, Objects, Diagnostic
  <1>3. UNCHANGED <<remote, late>> /\ reply'.value \in Nat /\ retries' \in 0..MaxRetries
    BY <1>1, <1>2 DEF Sdo!SdoRead, Sdo!Answer
  <1>4. Data'
    BY <1>1, <1>3 DEF Data
  <1>5. CASE Advance \/ Fail
    BY <1>1, <1>3, <1>4, <1>5, QuietStep DEF Restorers
  <1>6. CASE Move(2)
    <2> DEFINE L == Len(Validation)
    <2>1. "result" \in RequestKinds
      BY DEF RequestKinds
    <2>2. pc = "run" /\ ~Alive /\ pos < L /\ Validation[pos + 1].kind = "resync"
      BY <1>1, <2>1, InLoop
    <2>3. Script = Validation /\ L \in Nat /\ L >= 17 /\ pos \in Nat /\ pos >= 1
      BY <1>1, <2>2, Here, EndingKinds DEF Control
    <2>4. pos + 1 <= L - 17
      <3>1. SUFFICES ASSUME ~(pos + 1 <= L - 17) PROVE FALSE
        OBVIOUS
      <3> DEFINE q == (pos + 1) - (L - 17)
      <3> HIDE DEF L
      <3>2. q \in 1..17 /\ (L - 17) + q = pos + 1
        BY <2>2, <2>3, <3>1
      <3> HIDE DEF q
      <3>3. Validation[pos + 1] = Ending[q]
        BY <3>2, EndingKinds DEF L
      <3> QED
        BY <2>2, <3>2, <3>3, EndingIs
    <2> HIDE DEF L
    <2>5. ~(pos + 2 > L) /\ pos + 2 \in 1..L /\ pos + 2 <= L - 16 /\ pos + 2 \in Nat
      BY <2>3, <2>4
    <2>6. /\ pos' = pos + 2 /\ pc' = pc /\ result' = result
          /\ cleaned' = (cleaned \/ (FALSE /\ pc = "clean"))
      BY <1>6, <2>3, <2>5 DEF Move, L
    <2>7. cleaned' = cleaned
      BY <2>6 DEF Control
    <2>8. ScriptOf(pc) = Validation /\ ScriptOf(pc') = Validation
      BY <2>2, <2>6 DEF ScriptOf
    <2>9. Control'
      BY <2>2, <2>5, <2>6, <2>7, <2>8 DEF Control, L
    <2>10. Threads' /\ Finished'
      BY <1>1, <2>2, <2>6 DEF Threads, Alive, Finished
    <2>11. Requests'
      <3>1. Current = ScriptOf(pc)[pos]
        BY <1>1, Here
      <3> QED
        BY <1>1, <1>3, <2>2, <2>6, <3>1 DEF Requests
    <2>12. ASSUME NEW p \in 1..17, Place(p)'
           PROVE  Restored(p)'
      <3>1. pos + 2 = (L - 17) + p
        BY <2>2, <2>6, <2>12 DEF Place, L
      <3>2. p = 1
        BY <2>3, <2>5, <3>1
      <3> QED
        BY <3>2 DEF Restored
    <2> QED
      BY <1>4, <2>9, <2>10, <2>11, <2>12 DEF Restoring
  <1> QED
    BY <1>1, <1>5, <1>6

\* The phase after BUSY: the request is made again.
LEMMA ResyncStep ==
    ASSUME IInv, ResyncPhase
    PROVE  IInv'
  <1> USE DEF IInv
  <1>1. /\ pc \in Scripted /\ Current.kind = "resync"
        /\ UNCHANGED <<remote, late, reply, stale, nmt, complete, thread>>
        /\ UNCHANGED <<phase, cycle, seq, retries>>
        /\ \/ pos' = pos - 3 /\ UNCHANGED <<pc, result, cleaned>>
           \/ UNCHANGED control \/ Fail
        /\ txq' = txq \/ (txq # <<>> /\ txq' = Tail(txq))
    BY DEF ResyncPhase, At, sdo, transmitter
  <1>2. txq' \in Seq(Frames) /\ Len(txq') <= MaxQueue
    BY <1>1, QueueShrinks
  <1>3. Data'
    BY <1>1, <1>2 DEF Data
  <1>4. CASE Fail
    BY <1>1, <1>3, <1>4, FailStep
  <1>5. CASE UNCHANGED control
    <2>1. Control' /\ Restoring' /\ Finished'
      BY <1>1, <1>5, StayStep
    <2>2. Threads' /\ Requests'
      BY <1>1, <1>5 DEF Threads, Alive, Requests, control
    <2> QED
      BY <1>3, <2>1, <2>2
  <1>6. CASE pos' = pos - 3 /\ UNCHANGED <<pc, result, cleaned>>
    <2> DEFINE L == Len(Validation)
    <2>1. "resync" \in RequestKinds
      BY DEF RequestKinds
    <2>2. pc = "run" /\ ~Alive /\ pos - 3 \in 1..L /\ \A p \in 1..17 : ~Place(p)
      BY <1>1, <2>1, InLoop
    <2>3. ScriptOf(pc) = Validation /\ ScriptOf(pc') = Validation
      BY <1>6, <2>2 DEF ScriptOf
    <2>4. L \in Nat /\ pos \in 1..L
      BY <2>2, <2>3, EndingKinds DEF Control, Scripted
    <2>5. Control'
      BY <1>6, <2>2, <2>3, <2>4 DEF Control
    <2>6. Threads' /\ Finished'
      BY <1>1, <1>6, <2>2 DEF Threads, Alive, Finished
    <2>7. Requests'
      <3>1. Current = ScriptOf(pc)[pos]
        BY <1>1, Here
      <3> QED
        BY <1>1, <1>6, <2>2, <3>1 DEF Requests
    <2>8. ASSUME NEW p \in 1..17
          PROVE  ~Place(p)'
      <3>1. SUFFICES ASSUME Place(p)' PROVE FALSE
        OBVIOUS
      <3> HIDE DEF L
      <3>2. pos - 3 = (L - 17) + p
        BY <1>6, <2>2, <3>1 DEF Place, L
      <3>3. p + 3 \in 1..17 /\ pos = (L - 17) + (p + 3)
        BY <2>4, <3>2
      <3>4. Place(p + 3)
        BY <2>2, <3>3 DEF Place, L
      <3> QED
        BY <2>2, <3>3, <3>4
    <2> QED
      BY <1>3, <2>5, <2>6, <2>7, <2>8 DEF Restoring
  <1> QED
    BY <1>1, <1>4, <1>5, <1>6

\* The data after a write of a level to an object other than 0x2306:09.
LEMMA WriteData ==
    ASSUME Data, NEW o \in Objects \ {TxRequest}, NEW v \in Levels, Sdo!SdoWrite(o, v),
           Len(late') <= MaxLate,
           UNCHANGED <<phase, cycle, txq, seq, complete, retries>>
    PROVE  Data'
  <1>1. remote' = remote \/ remote' = [remote EXCEPT ![o] = v]
    BY DEF Sdo!SdoWrite, Sdo!Written
  <1>2. late' = late \/ late' = Append(late, <<o, v>>)
    BY DEF Sdo!SdoWrite
  <1>3. reply'.value \in Nat
    BY DEF Sdo!SdoWrite, Sdo!Answer, Data
  <1>4. v \in Nat /\ <<o, v>> \in Writes
    BY DEF Writes, Levels
  <1>5. late' \in Seq(Writes)
    <2>1. late \in Seq(Writes)
      BY DEF Data
    <2>2. Append(late, <<o, v>>) \in Seq(Writes)
      BY <1>4, <2>1, AppendProperties
    <2> QED
      BY <1>2, <2>1, <2>2
  <1>6. remote' \in [Objects -> Nat] /\ \A x \in Objects \ {TxRequest} : remote'[x] \in Levels
    BY <1>1, <1>4 DEF Data
  <1> QED
    BY <1>3, <1>5, <1>6 DEF Data

\* A configuration write; in the repair, it is the one the place asks for.
LEMMA WriteStep ==
    ASSUME IInv, writeRemote
    PROVE  IInv'
  <1> USE DEF IInv
  <1> DEFINE o == Current.object
             v == Current.value
  <1>1. /\ pc \in Scripted /\ Current.kind = "write"
        /\ Sdo!SdoWrite(o, v) /\ Len(late') <= MaxLate
        /\ Fail \/ (Advance /\ reply'.class = "SUCCESS")
        /\ UNCHANGED <<nmt, txq, thread, retries, seq, phase, cycle, complete>>
    BY DEF writeRemote, At, Check, Answered, slave, transmitter, locals
  <1>2. o \in Objects \ {TxRequest} /\ v \in Levels
    BY <1>1, Here DEF Ops, Legal
  <1>3. reply'.class = "SUCCESS" /\ o = Magic => ~stale'
    BY DEF writeRemote, Answered
  <1>4. Current = ScriptOf(pc)[pos]
    BY <1>1, Here
  <1> HIDE DEF o, v
  <1>5. Data'
    BY <1>1, <1>2, WriteData
  <1>6. CASE Fail
    BY <1>1, <1>5, <1>6, FailStep
  <1>7. CASE Advance /\ reply'.class = "SUCCESS"
    <2>1. Control' /\ Threads'
      BY <1>1, <1>7, AdvanceControl, AdvanceThread
    <2>2. remote' = [remote EXCEPT ![o] = v] /\ late = <<>> /\ late' = <<>>
      BY <1>1, <1>7 DEF Sdo!SdoWrite, Sdo!Written, Sdo!Answer
    <2>3. remote'[TxRequest] = remote[TxRequest]
      BY <1>2, <2>2 DEF Data
    <2>4. Requests'
      <3>1. pc' \in {"open", "run"} => pc \in {"open", "run"}
        BY <1>1, <1>7, AdvanceControl DEF Scripted
      <3> QED
        BY <1>1, <1>4, <2>2, <2>3, <3>1 DEF Requests
    <2>5. Finished'
      BY <1>1, <1>7, AdvancePlace DEF Finished
    <2>6. ASSUME NEW p \in 1..17, Place(p)'
          PROVE  Restored(p)'
      <3>1. CASE p = 1
        BY <3>1 DEF Restored
      <3>2. CASE p # 1
        <4> DEFINE q == p - 1
        <4>1. q \in 1..16 /\ Place(q) /\ Current = Ending[q]
          BY <1>1, <1>7, <2>6, <3>2, AdvancePlace
        <4>2. q \in 2..10 /\ Current = writeSrdo1Baseline[q - 1] /\ p = q + 1
          <5>1. p = q + 1 /\ q \in 1..17
            BY <4>1
          <5> HIDE DEF q
          <5>2. Ending[q].kind = "write"
            BY <1>1, <4>1
          <5>3. q \in 2..10
            BY <5>1, <5>2, EndingIs
          <5> QED
            BY <4>1, <5>1, <5>3, EndingKinds
        <4>3. Restored(q)
          BY <4>1 DEF Restoring
        <4> HIDE DEF q
        <4>4. /\ q = 2 => o = Direction /\ v = 0
              /\ q = 3 => o = MapCount /\ v = 0
              /\ q = 4 => o = Map /\ v = Base
              /\ q = 5 => o = MapCount /\ v = Base
              /\ q = 6 => o = Timing /\ v = Base
              /\ q = 7 => o = Ids /\ v = Base
              /\ q = 8 => o = Direction /\ v = Base
              /\ q = 9 => o = Checksum /\ v = Base
              /\ q = 10 => o = Magic /\ v = Base
          BY <4>2 DEF o, v, writeSrdo1Baseline, Write, Op
        <4>5. remote'[o] = v /\ \A x \in Objects : x # o => remote'[x] = remote[x]
          BY <1>2, <2>2 DEF Data
        <4>6. {Direction, Timing, Ids, MapCount, Map, Checksum, Magic} \subseteq Objects
          BY ScriptArguments
        <4>7. q \in 2..10 /\ p = q + 1
          BY <4>2
        <4>8. Restored(q + 1)'
          <5>1. CASE q \in {2, 3}
            BY <2>2, <5>1 DEF Restored
          <5>2. CASE q \in {4, 5, 6}
            BY <2>2, <4>3, <4>4, <4>5, <4>6, <5>2
               DEF Restored, Direction, Timing, Ids, MapCount, Map, Checksum, Magic
          <5>3. CASE q \in {7, 8}
            BY <2>2, <4>3, <4>4, <4>5, <4>6, <5>3
               DEF Restored, Direction, Timing, Ids, MapCount, Map, Checksum, Magic
          <5>4. CASE q \in {9, 10}
            BY <1>3, <1>7, <2>2, <4>3, <4>4, <4>5, <4>6, <5>4
               DEF Restored, Direction, Timing, Ids, MapCount, Map, Checksum, Magic
          <5> QED
            BY <4>7, <5>1, <5>2, <5>3, <5>4
        <4> QED
          BY <4>7, <4>8
      <3> QED
        BY <3>1, <3>2
    <2> QED
      BY <1>5, <2>1, <2>4, <2>5, <2>6 DEF Restoring
  <1> QED
    BY <1>1, <1>6, <1>7

\* A write that the slave must refuse.
LEMMA RejectStep ==
    ASSUME IInv, requireWriteRejected
    PROVE  IInv'
  <1> USE DEF IInv
  <1> DEFINE o == Current.object
             v == Current.value
  <1>1. /\ pc \in Scripted /\ Current.kind = "reject"
        /\ \/ Sdo!SdoWrite(o, v) /\ Len(late') <= MaxLate /\ Fail
           \/ /\ \E class \in Sdo!Classes : Sdo!Answer(class, reply.value)
              /\ Fail \/ Advance
              /\ UNCHANGED <<remote, late>>
        /\ UNCHANGED <<nmt, txq, thread, retries, seq, phase, cycle, complete>>
    BY DEF requireWriteRejected, At, Check, slave, transmitter, locals
  <1>2. o \in Objects \ {TxRequest} /\ v \in Levels
    BY <1>1, Here DEF Ops, Legal
  <1> HIDE DEF o, v
  <1>3. CASE Sdo!SdoWrite(o, v) /\ Len(late') <= MaxLate /\ Fail
    <2>1. Data'
      BY <1>1, <1>2, <1>3, WriteData
    <2> QED
      BY <1>1, <1>3, <2>1, FailStep
  <1>4. CASE /\ \E class \in Sdo!Classes : Sdo!Answer(class, reply.value)
             /\ Fail \/ Advance
             /\ UNCHANGED <<remote, late>>
    <2>1. reply'.value = reply.value
      BY <1>4 DEF Sdo!Answer
    <2>2. Data'
      BY <1>1, <1>4, <2>1 DEF Data
    <2>3. CASE Fail
      BY <1>1, <2>2, <2>3, FailStep
    <2>4. CASE Advance
      BY <1>1, <1>4, <2>2, <2>4, AdvanceControl, AdvanceThread, AdvanceOutside,
         AdvanceRequests
    <2> QED
      BY <1>4, <2>3, <2>4
  <1> QED
    BY <1>1, <1>3, <1>4

\* NMT commands: the way to Pre-operational and to Operational, taken also by
\* the processes of the regression.
LEMMA CommandStep ==
    ASSUME IInv, enterPreOperational \/ enterOperational \/ Regression
    PROVE  IInv'
  <1> USE DEF IInv
  <1>1. /\ pc \in Scripted /\ Current.kind \in {"preop", "start", "regression"}
        /\ Fail \/ Advance
        /\ UNCHANGED <<remote, late, reply, cycle, complete, txq, thread, seq, retries>>
        /\ phase' = phase \/ phase' = "n"
    BY DEF enterPreOperational, enterOperational, Regression, At, Prepare, Operate, locals
  <1>2. Data'
    BY <1>1 DEF Data
  <1>3. CASE Fail
    BY <1>1, <1>2, <1>3, FailStep
  <1>4. CASE Advance
    <2>1. Control' /\ Threads'
      BY <1>1, <1>4, AdvanceControl, AdvanceThread
    <2>2. Requests'
      BY <1>1, <1>4, AdvanceRequests
    <2>3. Finished'
      BY <1>1, <1>4, AdvancePlace DEF Finished
    <2>4. ASSUME NEW p \in 1..17, Place(p)'
          PROVE  Restored(p)'
      <3>1. p # 1 => p - 1 \in 1..17 /\ Current = Ending[p - 1]
        BY <1>1, <1>4, <2>4, AdvancePlace
      <3>2. p # 1 => p - 1 = 1
        BY <1>1, <3>1, EndingIs
      <3>3. p \in {1, 2}
        BY <3>2
      <3> QED
        BY <3>3 DEF Restored
    <2> QED
      BY <1>2, <2>1, <2>2, <2>3, <2>4 DEF Restoring
  <1> QED
    BY <1>1, <1>3, <1>4

\* A complete configuration does not fail the checks of the slave.
LEMMA NoMismatch ==
    ASSUME Restored(11)
    PROVE  ~Mismatch
  BY DEF Restored, Mismatch, Base, Other

\* Reset Communication.
LEMMA ResetStep ==
    ASSUME IInv, ResetCommand
    PROVE  IInv'
  <1> USE DEF IInv
  <1> DEFINE effect == /\ remote' = [remote EXCEPT ![TxData] = Base]
                       /\ stale' = stale \/ stale' = (stale \/ (MagicSet /\ Mismatch))
  <1>1. /\ pc \in Scripted /\ Current.kind = "reset"
        /\ UNCHANGED <<late, reply, cycle, complete, txq, thread, seq, retries>>
        /\ phase' = phase \/ phase' = "n"
        /\ remote' = remote \/ remote' = [remote EXCEPT ![TxData] = Base]
        /\ Fail \/ (Advance /\ effect)
    BY DEF ResetCommand, At, Prepare, Operate, locals
  <1>2. TxData \in Objects /\ TxData # TxRequest /\ Base \in Levels /\ Base \in Nat
    BY DEF TxData, TxRequest, Objects, Base, Levels
  <1>3. Data'
    BY <1>1, <1>2 DEF Data
  <1>4. CASE Fail
    BY <1>1, <1>3, <1>4, FailStep
  <1>5. CASE Advance /\ effect
    <2>1. Control' /\ Threads'
      BY <1>1, <1>5, AdvanceControl, AdvanceThread
    <2>2. /\ remote'[TxData] = Base
          /\ \A x \in Objects : x # TxData => remote'[x] = remote[x]
      BY <1>2, <1>5 DEF Data
    <2>3. TxRequest \in Objects /\ remote'[TxRequest] = remote[TxRequest]
      BY <1>2, <2>2 DEF Objects
    <2>4. Requests'
      <3>1. pc' \in {"open", "run"} => pc \in {"open", "run"}
        BY <1>1, <1>5, AdvanceControl DEF Scripted
      <3>2. Current = ScriptOf(pc)[pos]
        BY <1>1, Here
      <3> QED
        BY <1>1, <2>3, <3>1, <3>2 DEF Requests
    <2>5. Restored(11) => Restored(12)'
      <3>1. Restored(11) => ~stale'
        <4>1. Restored(11) => ~stale
          BY DEF Restored
        <4> QED
          BY <1>5, <4>1, NoMismatch
      <3>2. {Direction, Timing, Ids, MapCount, Map, Checksum, Magic} \subseteq Objects \ {TxData}
        BY ScriptArguments DEF Direction, Timing, Ids, MapCount, Map, Checksum, Magic, TxData
      <3> QED
        BY <1>1, <2>2, <3>1, <3>2 DEF Restored
    <2>6. Finished'
      BY <1>1, <1>5, AdvancePlace DEF Finished
    <2>7. ASSUME NEW p \in 1..17, Place(p)'
          PROVE  Restored(p)'
      <3>1. p # 1 => p - 1 \in 1..17 /\ Current = Ending[p - 1] /\ Place(p - 1)
        BY <1>1, <1>5, <2>7, AdvancePlace
      <3>2. p # 1 => p - 1 = 11
        BY <1>1, <3>1, EndingIs
      <3>3. CASE p = 1
        BY <3>3 DEF Restored
      <3>4. CASE p # 1
        <4>1. p = 12 /\ Place(11)
          BY <3>1, <3>2, <3>4
        <4> QED
          BY <2>5, <4>1 DEF Restoring
      <3> QED
        BY <3>3, <3>4
    <2> QED
      BY <1>3, <2>1, <2>4, <2>6, <2>7 DEF Restoring
  <1> QED
    BY <1>1, <1>4, <1>5

\* The start after a reset.
LEMMA StartStep ==
    ASSUME IInv, StartAfterReset
    PROVE  IInv'
  <1> USE DEF IInv
  <1> DEFINE effect == \/ nmt = "op" /\ nmt' = nmt /\ stale' = stale
                       \/ nmt' = "op" /\ stale' = (stale \/ (MagicSet /\ Mismatch))
  <1>1. /\ pc \in Scripted /\ Current.kind = "startIf"
        /\ UNCHANGED <<remote, late, reply, cycle, complete, txq, thread, seq, retries>>
        /\ phase' = phase \/ phase' = "n"
        /\ Fail \/ (Advance /\ effect)
    BY DEF StartAfterReset, At, Operate, locals
  <1>2. Data'
    BY <1>1 DEF Data
  <1>3. CASE Fail
    BY <1>1, <1>2, <1>3, FailStep
  <1>4. CASE Advance /\ effect
    <2>1. Control' /\ Threads'
      BY <1>1, <1>4, AdvanceControl, AdvanceThread
    <2>2. Requests'
      BY <1>1, <1>4, AdvanceRequests
    <2>3. Restored(12) => Restored(13)' /\ Restored(18)'
      <3>1. Restored(12) => ~stale'
        <4>1. Restored(12) => Restored(11)
          BY DEF Restored
        <4>2. Restored(11) => ~stale
          BY DEF Restored
        <4> QED
          BY <1>4, <4>1, <4>2, NoMismatch
      <3> QED
        BY <1>1, <1>4, <3>1 DEF Restored
    <2>4. Finished'
      BY <1>1, <1>4, <2>3, AdvancePlace DEF Finished, Restoring
    <2>5. ASSUME NEW p \in 1..17, Place(p)'
          PROVE  Restored(p)'
      <3>1. p # 1 => p - 1 \in 1..17 /\ Current = Ending[p - 1] /\ Place(p - 1)
        BY <1>1, <1>4, <2>5, AdvancePlace
      <3>2. p # 1 => p - 1 = 12
        BY <1>1, <3>1, EndingIs
      <3>3. CASE p = 1
        BY <3>3 DEF Restored
      <3>4. CASE p # 1
        <4>1. p = 13 /\ Place(12)
          BY <3>1, <3>2, <3>4
        <4> QED
          BY <2>3, <4>1 DEF Restoring
      <3> QED
        BY <3>3, <3>4
    <2> QED
      BY <1>2, <2>1, <2>2, <2>4, <2>5 DEF Restoring
  <1> QED
    BY <1>1, <1>3, <1>4

\* A scope begins: its thread is the one its operations know.
LEMMA SpawnStep ==
    ASSUME IInv, Spawn
    PROVE  IInv'
  <1> USE DEF IInv
  <1>1. /\ pc \in Scripted /\ Current.kind = "spawn" /\ Advance
        /\ txq' = txq \/ txq' = <<>>
        /\ thread' = [role |-> Current.value, at |-> "idle", running |-> TRUE,
                      joined |-> FALSE]
        /\ UNCHANGED <<remote, late, reply, stale, nmt, cycle, phase, complete, seq, retries>>
    BY DEF Spawn, At, sdo, slave, transmitter, locals
  <1>2. Data'
    <2>1. txq' \in Seq(Frames) /\ Len(txq') <= MaxQueue
      BY <1>1, QueueShrinks
    <2> QED
      BY <1>1, <2>1 DEF Data
  <1>3. Current.value \in Roles /\ Exit(Current) = Current.value
    BY <1>1, Here DEF Legal, Exit
  <1>4. pos # Len(ScriptOf(pc))
    BY <1>1, <1>3, Here DEF Sound, Roles
  <1>5. pc' = pc /\ pos' = pos + 1 /\ pos < Len(ScriptOf(pc))
    BY <1>1, <1>4, AdvanceControl
  <1>6. ScriptOf(pc)[pos + 1].held = Exit(Current)
    BY <1>1, <1>5, Here DEF Sound, Control
  <1>7. /\ thread' \in [role : Roles \cup {"none"},
                        at : {"idle", "between", "exit", "error", "seen"},
                        running : BOOLEAN, joined : BOOLEAN]
        /\ thread'.role = Current.value
    BY <1>1, <1>3
  <1>8. Threads'
    BY <1>1, <1>3, <1>5, <1>6, <1>7 DEF Threads
  <1>9. Control' /\ Requests' /\ Restoring' /\ Finished'
    BY <1>1, AdvanceControl, AdvanceRequests, AdvanceQuiet
  <1> QED
    BY <1>2, <1>8, <1>9

\* A scope ends: the thread is told to stop and then joined.
LEMMA StopStep ==
    ASSUME IInv, StopThread
    PROVE  IInv'
  <1> USE DEF IInv
  <1>1. /\ pc \in Scripted /\ Current.kind = "join"
        /\ UNCHANGED dataVars /\ UNCHANGED <<remote, late, stale, nmt, complete, seq>>
        /\ \/ thread' = [thread EXCEPT !.running = FALSE] /\ UNCHANGED control
           \/ thread' = [thread EXCEPT !.joined = TRUE] /\ Advance
    BY DEF StopThread, At, sdo, slave, transmitter, locals, dataVars
  <1>2. Data'
    BY <1>1, DataKept
  <1>3. CASE thread' = [thread EXCEPT !.running = FALSE] /\ UNCHANGED control
    <2>1. Control' /\ Restoring' /\ Finished'
      BY <1>1, <1>3, StayStep
    <2>2. /\ thread' \in [role : Roles \cup {"none"},
                          at : {"idle", "between", "exit", "error", "seen"},
                          running : BOOLEAN, joined : BOOLEAN]
          /\ thread'.role = thread.role /\ thread'.joined = thread.joined
      BY <1>3 DEF Threads
    <2>3. Threads' /\ Requests'
      BY <1>1, <1>3, <2>2 DEF Threads, Alive, Requests, control
    <2> QED
      BY <1>2, <2>1, <2>3
  <1>4. CASE thread' = [thread EXCEPT !.joined = TRUE] /\ Advance
    <2>1. /\ thread' \in [role : Roles \cup {"none"},
                          at : {"idle", "between", "exit", "error", "seen"},
                          running : BOOLEAN, joined : BOOLEAN]
          /\ thread'.joined
      BY <1>4 DEF Threads
    <2>2. Threads'
      BY <2>1 DEF Threads, Alive
    <2>3. Control' /\ Requests' /\ Restoring' /\ Finished'
      BY <1>1, <1>4, AdvanceControl, AdvanceRequests, AdvanceQuiet
    <2> QED
      BY <1>2, <2>2, <2>3
  <1> QED
    BY <1>1, <1>3, <1>4

\* A failure leaves its scope and goes on to the cleanup.
LEMMA UnwindStep ==
    ASSUME IInv, Unwind
    PROVE  IInv'
  <1> USE DEF IInv
  <1>1. pc = "unwind" /\ pos' = pos /\ pos = 1 /\ result' = result /\ cleaned' = cleaned
    BY DEF Unwind, Control
  <1>2. CASE /\ thread' = [thread EXCEPT !.running = FALSE]
             /\ UNCHANGED <<sdo, slave, txq, pc, locals, lost>>
    <2>1. /\ UNCHANGED dataVars /\ UNCHANGED control
          /\ UNCHANGED <<remote, late, stale, nmt>>
      BY <1>1, <1>2 DEF sdo, slave, transmitter, locals, dataVars, control
    <2>2. Data' /\ Control' /\ Restoring' /\ Finished'
      BY <2>1, DataKept, StayStep
    <2>3. /\ thread' \in [role : Roles \cup {"none"},
                          at : {"idle", "between", "exit", "error", "seen"},
                          running : BOOLEAN, joined : BOOLEAN]
          /\ thread'.role = thread.role /\ thread'.joined = thread.joined
      BY <1>2 DEF Threads
    <2>4. Threads' /\ Requests'
      BY <1>1, <2>1, <2>3 DEF Threads, Alive, Requests, control
    <2> QED
      BY <2>2, <2>4
  <1>3. CASE /\ thread' = NoThread /\ pc' = "clean"
             /\ remote' = [remote EXCEPT ![TxRequest] = 0]
             /\ reply' = [class |-> "FAILED", value |-> 0]
             /\ phase' = "n" /\ cycle' = 0 /\ complete' = 0
             /\ txq' = <<>> /\ seq' = 0 /\ retries' = 0 /\ late' = late
    <2>1. Control'
      <3>1. ScriptOf(pc') = prepareCleanOperational /\ 1 \in 1..Len(prepareCleanOperational)
        BY <1>3, CleanPlain DEF ScriptOf
      <3> QED
        BY <1>1, <1>3, <3>1 DEF Control, Scripted
    <2>2. Threads'
      BY <1>3 DEF Threads, NoThread, Alive
    <2>3. Data'
      <3>1. txq' \in Seq(Frames) /\ Len(txq') <= MaxQueue
        BY <1>3, QueueShrinks
      <3>2. 0 \in 0..MaxRetries
        BY SrdoAssumption
      <3> QED
        BY <1>3, <3>1, <3>2 DEF Data
    <2>4. Requests' /\ Finished'
      BY <1>3 DEF Requests, Finished
    <2>5. Restoring'
      <3>1. \A p \in 1..17 : Place(p)' => p = 1
        BY <1>1, <1>3 DEF Place
      <3>2. Restored(1)'
        BY DEF Restored
      <3> QED
        BY <3>1, <3>2 DEF Restoring
    <2> QED
      BY <2>1, <2>2, <2>3, <2>4, <2>5
  <1> QED
    BY <1>2, <1>3 DEF Unwind

-----------------------------------------------------------------------------
(* The theorems.                                                           *)

\* The initial state.
LEMMA InitIInv == Init => IInv
  <1> SUFFICES ASSUME Init PROVE IInv
    OBVIOUS
  <1>1. /\ remote = [o \in Objects |-> IF o = TxRequest THEN 0 ELSE Base]
        /\ late = <<>> /\ reply.value = 0
        /\ pc = "open" /\ pos = 1 /\ result = 0 /\ cleaned = FALSE
        /\ thread = NoThread /\ phase = "n" /\ cycle = 0 /\ complete = 0
        /\ txq = <<>> /\ seq = 0 /\ retries = 0
    BY DEF Init, Sdo!SdoInit
  <1>2. Control
    <2>1. ScriptOf(pc) = Opening /\ 1 \in 1..Len(Opening)
      BY <1>1, OpeningPlain DEF ScriptOf
    <2> QED
      BY <1>1, <2>1 DEF Control, Scripted
  <1>3. Data
    <2>1. 0 \in 0..MaxRetries /\ MaxLate \in Nat /\ MaxQueue \in Nat
      BY SrdoAssumption
    <2>2. remote \in [Objects -> Nat] /\ \A o \in Objects \ {TxRequest} : remote[o] \in Levels
      BY <1>1 DEF Base, Levels
    <2> QED
      BY <1>1, <2>1, <2>2 DEF Data
  <1>4. Threads
    BY <1>1 DEF Threads, NoThread, Alive
  <1>5. Requests /\ Restoring /\ Finished
    <2>1. TxRequest \in Objects
      BY DEF TxRequest, Objects
    <2> QED
      BY <1>1, <2>1 DEF Requests, Restoring, Place, Finished
  <1> QED
    BY <1>2, <1>3, <1>4, <1>5 DEF IInv

\* Every step keeps the invariant.
LEMMA NextIInv == IInv /\ [Next]_vars => IInv'
  <1> SUFFICES ASSUME IInv, [Next]_vars PROVE IInv'
    OBVIOUS
  <1>1. CASE UNCHANGED vars
    <2>1. /\ UNCHANGED dataVars /\ UNCHANGED control
          /\ UNCHANGED <<remote, late, stale, nmt, thread, seq, complete>>
      BY <1>1 DEF vars, sdo, slave, transmitter, locals, control, dataVars
    <2>2. Data' /\ Control' /\ Restoring' /\ Finished'
      BY <2>1, DataKept, StayStep DEF IInv
    <2>3. Threads' /\ Requests'
      BY <2>1 DEF IInv, Threads, Alive, Requests, control
    <2> QED
      BY <2>2, <2>3 DEF IInv
  <1>2. CASE RxTimeout \/ TxEmit \/ TxFault \/ SlaveServes \/ LateEffect
    BY <1>2, SlaveStep
  <1>3. CASE ThreadSteps
    BY <1>3, ThreadStep
  <1>4. CASE MainThread
    BY <1>4, ReadActions, QuietActions, PairStep, RequestStep, ResultStep, ResyncStep,
       WriteStep, RejectStep, CommandStep, ResetStep, StartStep, SpawnStep, StopStep,
       UnwindStep DEF MainThread
  <1> QED
    BY <1>1, <1>2, <1>3, <1>4 DEF Next, Done

\* The inductive invariant holds in every reachable state.
LEMMA SrdoInvariant == Spec => []IInv
  BY InitIInv, NextIInv, PTL DEF Spec

\* The variables of srdo_process.cpp keep their types: the retry counter, the
\* queue of captured frames and the abandoned writes stay within their bounds.
THEOREM SrdoTypeOK == Spec => []TypeOK
  <1>1. IInv => TypeOK
    BY SrdoAssumption DEF IInv, Control, Data, Threads, Levels, TypeOK
  <1> QED
    BY <1>1, SrdoInvariant, PTL

\* A ScopedRxPairWorker or ScopedTxSilenceObserver lives only in its scope,
\* for every number of pairs and retries, whichever way the scope is left.
THEOREM ScopesOwnTheirThreads == Spec => []NoThreadOutsideScope
  <1>1. IInv => NoThreadOutsideScope
    BY Here DEF IInv, Threads, NoThreadOutsideScope
  <1> QED
    BY <1>1, SrdoInvariant, PTL

\* requestTxWithBusyRetry() never makes a request while an earlier one may
\* still be processed, however often BUSY is answered.
THEOREM RequestsDoNotOverlap == Spec => []OneRequestAtATime
  <1>1. ASSUME IInv, At("request")
        PROVE  remote[TxRequest] = complete /\ late = <<>>
    <2>1. pc \in Scripted /\ Current.kind = "request"
      BY <1>1 DEF At
    <2>2. pc = "run" /\ Current = ScriptOf(pc)[pos]
      BY <1>1, <2>1, InLoop, Here DEF RequestKinds, IInv
    <2> QED
      BY <1>1, <2>1, <2>2 DEF IInv, Requests
  <1>2. IInv => OneRequestAtATime
    BY <1>1 DEF OneRequestAtATime
  <1> QED
    BY <1>2, SrdoInvariant, PTL

\* A pass of srdoProcess(), and a cleanup that went through, leave the SRDO
\* configuration at its baseline and valid, and the slave operational.
THEOREM SrdoRestores == Spec => []PassMeansRestored
  <1>1. IInv => PassMeansRestored
    BY DEF IInv, Finished, Restored, PassMeansRestored, MagicSet, Parameters
  <1> QED
    BY <1>1, SrdoInvariant, PTL

-----------------------------------------------------------------------------
(* Evidence.  What passing an operation of the validation says about the   *)
(* slave depends on the operations before it: on what they have written    *)
(* last, on whether they have left 0x13FE valid, on what they have sent.   *)

Kind(i) == Validation[i].kind

\* An operation after which an object may have another value.
Touches(op, o) == \/ op.kind = "write" /\ op.object = o
                  \/ op.kind = "reset" /\ o = TxData

\* Of the operations before the i-th, the last that touched o wrote v.
Holds(i, o, v) ==
    \E j \in 1..(i - 1) :
        /\ Kind(j) = "write" /\ Validation[j].object = o /\ Validation[j].value = v
        /\ \A k \in (j + 1)..(i - 1) : ~Touches(Validation[k], o)

\* The parameters outside X were last written with the baseline.
BaseOutside(i, X) == \A o \in Parameters \ X : Holds(i, o, Base)

\* An operation that leaves 0x13FE valid in a slave that does not invalidate it
\* when a parameter is written.
Harmless(i) ==
    \/ Kind(i) = "preop"
    \/ Kind(i) = "write" /\ Validation[i].object \in Parameters
    \/ Kind(i) \in {"reset", "startIf"} /\ BaseOutside(i, {})

\* 0x13FE was written, and only such operations followed.
Valid(i) ==
    \E j \in 1..(i - 1) :
        /\ Kind(j) = "write" /\ Validation[j].object = Magic /\ Validation[j].value = Base
        /\ \A k \in (j + 1)..(i - 1) : Harmless(k)
Kept(i) == Kind(i) \notin RequestKinds /\ Valid(i)

\* No normal frame is pending: the slave was reset, and nothing sent yet.
Cleared(i) ==
    /\ i > 1 /\ Validation[i].held = "none"
    /\ \/ Kind(i) = "startIf" /\ Kind(i - 1) = "reset"
       \/ i > 2 /\ Kind(i) = "send" /\ Kind(i - 1) = "startIf" /\ Kind(i - 2) = "reset"

\* F05: the first frame after a reset was an inverted one.
Sampled(i) ==
    /\ i > 1 /\ Kind(i) = "sample" /\ Validation[i].held = "none"
    /\ Cleared(i - 1) /\ Kind(i - 1) = "send" /\ Validation[i - 1].value = "inverted"

\* F06, F08, F10: the slave was sent to Operational.
Refusal(i) == i > 1 /\ Kind(i) = "rx" /\ Kind(i - 1) = "start"

\* F11: the slave was sent to Operational with TX data that is not inverted.
Watched(i) ==
    i > 1 /\ Kind(i) = "watch" /\ Kind(i - 1) = "start" /\ Holds(i, TxData, Other)
Silent(i) ==
    i > 1 /\ Kind(i) = "silence" /\ Validation[i].held # "none" /\ Watched(i - 1)

\* A defect, and the RX state that a slave with it never reports.
Hides == {<<"noinverse", "notInverted">>, <<"nosrvt", "srvt">>, <<"nosct", "sct">>,
          <<"noshort", "short">>}

\* A configuration that a slave with defect d, and only it, accepts.
Accepted(d, i) ==
    \/ d = "nochecksum" /\ BaseOutside(i, {Checksum})
    \/ d = "noids" /\ BaseOutside(i, {Checksum, Ids}) /\ Holds(i, Ids, Other)
    \/ d = "nolen" /\ BaseOutside(i, {Checksum, Map}) /\ Holds(i, Map, Other)

\* The i-th operation cannot be passed with a slave that has defect d.
Refutes(d, i) ==
    \/ Kind(i) = "rx" /\ <<d, Validation[i].value>> \in Hides
    \/ Refusal(i) /\ Validation[i].value = "config" /\ Accepted(d, i)
    \/ d = "invfirst" /\ Sampled(i)
    \/ d = "keepsmagic" /\ Kind(i) = "expect" /\ Validation[i].object = Magic /\ Kept(i)
    \/ Kind(i) = "reject" /\ d = IF Validation[i].object = Ids THEN "takesids" ELSE "takesmap"
    \/ d = "txunchecked" /\ Silent(i)
    \/ d = "replay" /\ Kind(i) = "witness" /\ \E j \in 1..(i - 1) : Kind(j) = "request"

-----------------------------------------------------------------------------
(* The invariant behind the evidence.                                      *)

\* What a defective slave never shows, whatever is sent to it.
Honest ==
    /\ defect \in Defects
    /\ <<defect, rx>> \notin Hides
    /\ defect = "replay" /\ complete # 0 => outcome # "idle"

\* After the first TX request the sequence is not 0.
Asked ==
    (\E j \in 1..(pos - 1) : Kind(j) = "request") => remote[TxRequest] >= 1 /\ seq >= 1

\* The slave has what was written to it.
Written == \A o \in Objects \ {TxRequest}, v \in Levels : Holds(pos, o, v) => remote[o] = v

Sealed == Kept(pos) /\ defect = "keepsmagic" => MagicSet

Refusing == Refusal(pos) /\ rx = "config" => Mismatch

Clearing ==
    /\ Cleared(pos) => ~half
    /\ Sampled(pos) /\ defect = "invfirst" => lost \/ rx = "established"

\* The thread of a scope runs until it is told to stop.
Scoped ==
    Validation[pos].held # "none" /\ Kind(pos) # "join" => thread.running /\ thread.at # "exit"

\* A frame the slave should not have sent was lost, is there or has been seen.
Evident == lost \/ txq # <<>> \/ thread.at \in {"seen", "error"}
Watching ==
    defect = "txunchecked" =>
        /\ Watched(pos) => Evident \/ (phase = "n" /\ tx # "notInverted")
        /\ Silent(pos) => Evident

\* The i-th operation of the validation has been passed.
Past(i) == (pc = "run" /\ i < pos) \/ (pc = "done" /\ result = 0)

\* The operations that were passed have shown what they refute.
Shown ==
    \A d \in Defects, i \in 1..Len(Validation) :
        Past(i) /\ Refutes(d, i) =>
            defect # d \/ (lost /\ d \in {"invfirst", "txunchecked"})

Running == pc = "run" => Asked /\ Written /\ Sealed /\ Refusing /\ Clearing /\ Scoped /\ Watching

EInv == Honest /\ Running /\ Shown

-----------------------------------------------------------------------------
(* What an operation adds to what the operations before it have done.      *)

\* A value held after the i-th operation was written by it or held before.
LEMMA HoldsBefore ==
    ASSUME NEW i \in Nat \ {0}, NEW o, NEW v, Holds(i + 1, o, v)
    PROVE  \/ Kind(i) = "write" /\ Validation[i].object = o /\ Validation[i].value = v
           \/ Holds(i, o, v) /\ ~Touches(Validation[i], o)
  <1>1. PICK j \in 1..i :
          /\ Kind(j) = "write" /\ Validation[j].object = o /\ Validation[j].value = v
          /\ \A k \in (j + 1)..i : ~Touches(Validation[k], o)
    BY DEF Holds
  <1>2. CASE j # i
    <2>1. j \in 1..(i - 1) /\ i \in (j + 1)..i /\ \A k \in (j + 1)..(i - 1) : k \in (j + 1)..i
      BY <1>1, <1>2
    <2> QED
      BY <1>1, <2>1 DEF Holds
  <1> QED
    BY <1>1, <1>2

\* An operation that does not touch an object leaves what it holds.
LEMMA HoldsAfter ==
    ASSUME NEW i \in Nat \ {0}, NEW o, NEW v, Holds(i, o, v), ~Touches(Validation[i], o)
    PROVE  Holds(i + 1, o, v)
  <1>1. PICK j \in 1..(i - 1) :
          /\ Kind(j) = "write" /\ Validation[j].object = o /\ Validation[j].value = v
          /\ \A k \in (j + 1)..(i - 1) : ~Touches(Validation[k], o)
    BY DEF Holds
  <1>2. j \in 1..((i + 1) - 1) /\ \A k \in (j + 1)..((i + 1) - 1) : k \in (j + 1)..(i - 1) \/ k = i
    BY <1>1
  <1> QED
    BY <1>1, <1>2 DEF Holds

\* A write.
LEMMA HoldsWritten ==
    ASSUME NEW i \in Nat \ {0}, Kind(i) = "write"
    PROVE  Holds(i + 1, Validation[i].object, Validation[i].value)
  <1>1. i \in 1..((i + 1) - 1) /\ \A k \in (i + 1)..((i + 1) - 1) : FALSE
    OBVIOUS
  <1> QED
    BY <1>1 DEF Holds

\* 0x13FE is valid after the i-th operation if that wrote it, or left it valid.
LEMMA ValidBefore ==
    ASSUME NEW i \in Nat \ {0}, Valid(i + 1)
    PROVE  \/ Kind(i) = "write" /\ Validation[i].object = Magic /\ Validation[i].value = Base
           \/ Valid(i) /\ Harmless(i)
  <1>1. PICK j \in 1..i :
          /\ Kind(j) = "write" /\ Validation[j].object = Magic /\ Validation[j].value = Base
          /\ \A k \in (j + 1)..i : Harmless(k)
    BY DEF Valid
  <1>2. CASE j # i
    <2>1. j \in 1..(i - 1) /\ i \in (j + 1)..i /\ \A k \in (j + 1)..(i - 1) : k \in (j + 1)..i
      BY <1>1, <1>2
    <2> QED
      BY <1>1, <2>1 DEF Valid
  <1> QED
    BY <1>1, <1>2

\* A harmless operation.
LEMMA ValidAfter ==
    ASSUME NEW i \in Nat \ {0}, Valid(i), Harmless(i)
    PROVE  Valid(i + 1)
  <1>1. PICK j \in 1..(i - 1) :
          /\ Kind(j) = "write" /\ Validation[j].object = Magic /\ Validation[j].value = Base
          /\ \A k \in (j + 1)..(i - 1) : Harmless(k)
    BY DEF Valid
  <1>2. j \in 1..((i + 1) - 1) /\ \A k \in (j + 1)..((i + 1) - 1) : k \in (j + 1)..(i - 1) \/ k = i
    BY <1>1
  <1> QED
    BY <1>1, <1>2 DEF Valid

\* The write of 0x13FE.
LEMMA ValidWritten ==
    ASSUME NEW i \in Nat \ {0}, Kind(i) = "write", Validation[i].object = Magic,
           Validation[i].value = Base
    PROVE  Valid(i + 1)
  <1>1. i \in 1..((i + 1) - 1) /\ \A k \in (i + 1)..((i + 1) - 1) : FALSE
    OBVIOUS
  <1> QED
    BY <1>1 DEF Valid

-----------------------------------------------------------------------------
(* Moving through the validation.                                          *)

\* Where an operation that is passed leads.
LEMMA RunAdvance ==
    ASSUME Control, pc = "run", Advance
    PROVE  /\ Current = Validation[pos] /\ Current.kind = Kind(pos)
           /\ Len(Validation) \in Nat /\ pos \in 1..Len(Validation) /\ pos \in Nat \ {0}
           /\ pc' = "run" => pos' = pos + 1 /\ pos + 1 \in 1..Len(Validation)
           /\ pc' \in {"run", "done"} /\ (pc' = "done" => pos = Len(Validation))
  <1>1. /\ Current = Validation[pos] /\ ScriptOf(pc) = Validation
        /\ Len(Validation) \in Nat
    BY Here DEF Scripted
  <1>2. pos \in 1..Len(Validation)
    BY <1>1 DEF Control, Scripted
  <1>3. \/ pc' = pc /\ pos' = pos + 1 /\ pos < Len(Validation)
        \/ pc' = "done" /\ pos = Len(Validation)
    BY <1>1, AdvanceControl DEF Scripted
  <1> QED
    BY <1>1, <1>2, <1>3 DEF Kind

\* Requests: only a request adds to them.
LEMMA AdvanceAsked ==
    ASSUME Control, Asked, pc = "run", Advance,
           \/ Current.kind # "request" /\ remote'[TxRequest] = remote[TxRequest]
              /\ seq' \in {seq, remote[TxRequest]}
           \/ remote'[TxRequest] >= 1 /\ seq' >= 1
    PROVE  pc' = "run" => Asked'
  <1>1. SUFFICES ASSUME pc' = "run", NEW j \in 1..(pos' - 1), Kind(j) = "request"
                 PROVE  remote'[TxRequest] >= 1 /\ seq' >= 1
    BY DEF Asked, Kind
  <1>2. pos' = pos + 1 /\ pos \in Nat /\ Current.kind = Kind(pos)
    BY <1>1, RunAdvance
  <1>3. j \in 1..(pos - 1) \/ j = pos
    BY <1>1, <1>2
  <1>4. CASE j = pos
    BY <1>1, <1>2, <1>4
  <1>5. CASE j \in 1..(pos - 1)
    BY <1>1, <1>5 DEF Asked
  <1> QED
    BY <1>3, <1>4, <1>5

\* Writes: what the slave holds follows what the operation does.
LEMMA AdvanceWritten ==
    ASSUME Control, Written, pc = "run", Advance,
           \A o \in Objects \ {TxRequest} :
               \/ Current.kind = "write" /\ Current.object = o /\ remote'[o] = Current.value
               \/ Touches(Current, o) /\ Current.kind = "reset"
               \/ ~Touches(Current, o) /\ remote'[o] = remote[o]
    PROVE  pc' = "run" => Written'
  <1>1. SUFFICES ASSUME pc' = "run", NEW o \in Objects \ {TxRequest}, NEW v \in Levels,
                        Holds(pos', o, v)
                 PROVE  remote'[o] = v
    BY DEF Written, Holds, Kind
  <1>2. /\ pos' = pos + 1 /\ pos \in Nat \ {0} /\ Current = Validation[pos]
        /\ Current.kind = Kind(pos)
    BY <1>1, RunAdvance
  <1>3. \/ Kind(pos) = "write" /\ Validation[pos].object = o /\ Validation[pos].value = v
        \/ Holds(pos, o, v) /\ ~Touches(Validation[pos], o)
    BY <1>1, <1>2, HoldsBefore
  <1>4. CASE Kind(pos) = "write" /\ Validation[pos].object = o /\ Validation[pos].value = v
    BY <1>2, <1>4 DEF Touches
  <1>5. CASE Holds(pos, o, v) /\ ~Touches(Validation[pos], o)
    <2>1. remote[o] = v
      BY <1>5 DEF Written
    <2> QED
      BY <1>2, <1>5, <2>1 DEF Touches
  <1> QED
    BY <1>3, <1>4, <1>5

\* 0x13FE: it becomes valid by its write, and stays so.
LEMMA AdvanceSealed ==
    ASSUME Control, Sealed, pc = "run", Advance, defect' = defect,
           defect = "keepsmagic" =>
               \/ Current.kind = "write" /\ Current.object = Magic
                  /\ (Current.value = Base => MagicSet')
               \/ ~Harmless(pos) /\ ~(Current.kind = "write" /\ Current.object = Magic)
               \/ Current.kind \notin RequestKinds /\ (MagicSet => MagicSet')
                  /\ ~(Current.kind = "write" /\ Current.object = Magic)
    PROVE  pc' = "run" => Sealed'
  <1>1. SUFFICES ASSUME pc' = "run", Valid(pos'), defect = "keepsmagic"
                 PROVE  MagicSet'
    BY DEF Sealed, Kept, Valid, Harmless, BaseOutside, Holds, Kind
  <1>2. /\ pos' = pos + 1 /\ pos \in Nat \ {0} /\ Current = Validation[pos]
        /\ Current.kind = Kind(pos)
    BY <1>1, RunAdvance
  <1>3. \/ Kind(pos) = "write" /\ Validation[pos].object = Magic /\ Validation[pos].value = Base
        \/ Valid(pos) /\ Harmless(pos)
    BY <1>1, <1>2, ValidBefore
  <1>4. CASE Kind(pos) = "write" /\ Validation[pos].object = Magic /\ Validation[pos].value = Base
    BY <1>1, <1>2, <1>4
  <1>5. CASE Valid(pos) /\ Harmless(pos)
    <2>1. ~(Current.kind = "write" /\ Current.object = Magic)
      BY <1>2, <1>5 DEF Harmless, Magic, Parameters, Direction, Timing, Ids, MapCount, Map,
         Checksum
    <2>2. Current.kind \notin RequestKinds /\ (MagicSet => MagicSet')
      BY <1>1, <1>5, <2>1
    <2>3. MagicSet
      BY <1>1, <1>2, <1>5, <2>2 DEF Sealed, Kept
    <2> QED
      BY <2>2, <2>3
  <1> QED
    BY <1>3, <1>4, <1>5

\* What the operation says of the next one: only the start leads to a refusal
\* and to a watch, only the reset, the start after it and a frame to a sample.
LEMMA AdvanceQuietly ==
    ASSUME Control, pc = "run", Advance,
           Current.kind \notin {"start", "reset", "startIf", "send", "watch"}
    PROVE  pc' = "run" => Refusing' /\ Clearing' /\ Watching'
  <1>1. SUFFICES ASSUME pc' = "run"
                 PROVE  Refusing' /\ Clearing' /\ Watching'
    OBVIOUS
  <1>2. /\ pos' = pos + 1 /\ pos \in Nat \ {0} /\ Current.kind = Kind(pos) /\ pos' - 1 = pos
    BY <1>1, RunAdvance
  <1>3. /\ ~Refusal(pos') /\ ~Cleared(pos') /\ ~Sampled(pos') /\ ~Watched(pos')
        /\ ~Silent(pos')
    <2>1. ~Refusal(pos') /\ ~Cleared(pos') /\ ~Sampled(pos') /\ ~Watched(pos')
      BY <1>2 DEF Refusal, Cleared, Sampled, Watched
    <2>2. ~Watched(pos)
      BY <1>2 DEF Watched
    <2> QED
      BY <1>2, <2>1, <2>2 DEF Silent
  <1>4. /\ Refusal(pos)' = Refusal(pos') /\ Cleared(pos)' = Cleared(pos')
        /\ Sampled(pos)' = Sampled(pos') /\ Watched(pos)' = Watched(pos')
        /\ Silent(pos)' = Silent(pos')
    BY DEF Refusal, Cleared, Sampled, Watched, Silent, Holds, Kind
  <1> QED
    BY <1>3, <1>4 DEF Refusing, Clearing, Watching

\* A scope: its operations leave the thread to run.
LEMMA AdvanceScoped ==
    ASSUME Control, Scoped, pc = "run", Advance,
           \/ thread' = thread /\ Current.kind \notin {"spawn", "join"}
           \/ thread'.running /\ thread'.at # "exit"
           \/ Exit(Current) = "none"
    PROVE  pc' = "run" => Scoped'
  <1>1. SUFFICES ASSUME pc' = "run", Validation[pos'].held # "none"
                 PROVE  thread'.running /\ thread'.at # "exit"
    BY DEF Scoped
  <1>2. /\ pos' = pos + 1 /\ pos \in 1..Len(Validation) /\ pos < Len(Validation)
        /\ Current = Validation[pos] /\ Current.kind = Kind(pos)
    BY <1>1, RunAdvance
  <1>3. Validation[pos + 1].held = Exit(Current)
    BY <1>2, ValidationSound DEF Sound
  <1>4. CASE thread' = thread /\ Current.kind \notin {"spawn", "join"}
    <2>1. Validation[pos].held # "none" /\ Kind(pos) # "join"
      BY <1>1, <1>2, <1>3, <1>4 DEF Exit
    <2> QED
      BY <1>4, <2>1 DEF Scoped
  <1> QED
    BY <1>1, <1>2, <1>3, <1>4

\* The kinds of operations that refute a defect.
EvidenceKinds == {"rx", "reject", "witness", "sample", "silence", "expect"}

\* Only these do.
LEMMA EvidenceIs ==
    ASSUME NEW d, NEW i, Refutes(d, i)
    PROVE  Kind(i) \in EvidenceKinds
  BY DEF Refutes, Refusal, Sampled, Silent, EvidenceKinds

\* An operation is passed: what it shows joins what was shown.
LEMMA AdvanceShown ==
    ASSUME Control, Shown, pc = "run", Advance, defect' = defect, lost => lost',
           \A d \in Defects :
               Refutes(d, pos) => defect # d \/ (lost' /\ d \in {"invfirst", "txunchecked"})
    PROVE  Shown'
  <1>1. SUFFICES ASSUME NEW d \in Defects, NEW i \in 1..Len(Validation), Past(i)', Refutes(d, i)
                 PROVE  defect' # d \/ (lost' /\ d \in {"invfirst", "txunchecked"})
    BY DEF Shown, Refutes, Refusal, Accepted, Sampled, Cleared, Kept, Valid, Harmless,
       BaseOutside, Silent, Watched, Holds, Kind, Past
  <1>2. i = pos \/ i < pos
    <2>1. /\ pos \in 1..Len(Validation) /\ Len(Validation) \in Nat
          /\ pc' = "run" => pos' = pos + 1
          /\ pc' \in {"run", "done"} /\ (pc' = "done" => pos = Len(Validation))
      BY RunAdvance
    <2>2. CASE pc' = "run"
      BY <1>1, <2>1, <2>2 DEF Past
    <2>3. CASE pc' = "done"
      BY <2>1, <2>3
    <2> QED
      BY <2>1, <2>2, <2>3
  <1>3. CASE i = pos
    BY <1>1, <1>3
  <1>4. CASE i < pos
    <2>1. Past(i)
      BY <1>4 DEF Past
    <2> QED
      BY <1>1, <2>1 DEF Shown
  <1> QED
    BY <1>2, <1>3, <1>4

\* A primed place is the place the step leads to.
LEMMA PlacesPrimed ==
    /\ Refusal(pos)' = Refusal(pos') /\ Cleared(pos)' = Cleared(pos')
    /\ Sampled(pos)' = Sampled(pos') /\ Watched(pos)' = Watched(pos')
    /\ Silent(pos)' = Silent(pos') /\ Kept(pos)' = Kept(pos')
    /\ \A o, v : Holds(pos, o, v)' = Holds(pos', o, v)
    /\ \A d, i : Refutes(d, i)' = Refutes(d, i)
  BY DEF Refusal, Cleared, Sampled, Watched, Silent, Kept, Valid, Harmless, BaseOutside,
     Holds, Kind, Refutes, Accepted

\* The validation begins.
LEMMA BeginEvidence ==
    ASSUME pc' = "run", pos' = 1
    PROVE  Running' /\ Shown'
  <1>1. Asked'
    BY DEF Asked
  <1>2. Written'
    BY PlacesPrimed DEF Written, Holds
  <1>3. Sealed'
    BY PlacesPrimed DEF Sealed, Kept, Valid
  <1>4. Refusing' /\ Clearing' /\ Watching'
    <2>1. ~Refusal(1) /\ ~Cleared(1) /\ ~Sampled(1) /\ ~Watched(1) /\ ~Silent(1)
      BY DEF Refusal, Cleared, Sampled, Watched, Silent
    <2> QED
      BY <2>1, PlacesPrimed DEF Refusing, Clearing, Watching
  <1>5. Scoped'
    BY ValidationSound DEF Sound, Scoped
  <1>6. Shown'
    <2>1. \A i \in 1..Len(Validation) : ~Past(i)'
      <3>1. Len(Validation) \in Nat
        BY ValidationSound DEF Sound
      <3> QED
        BY <3>1 DEF Past
    <2> QED
      BY <2>1 DEF Shown
  <1> QED
    BY <1>1, <1>2, <1>3, <1>4, <1>5, <1>6 DEF Running

\* The process is not in the validation and has not passed it.
LEMMA NoEvidence ==
    ASSUME pc' # "run", pc' = "done" => result' # 0
    PROVE  Running' /\ Shown'
  BY DEF Running, Shown, Past

\* An operation fails.
LEMMA FailEvidence ==
    ASSUME Fail
    PROVE  Running' /\ Shown'
  <1>1. pc' \in {"unwind", "done"} /\ result' = 1
    BY DEF Fail
  <1> QED
    BY <1>1, NoEvidence

\* An operation of another script is passed.
LEMMA OutsideEvidence ==
    ASSUME Control, pc \in {"open", "clean"}, Advance
    PROVE  Running' /\ Shown'
  <1>1. /\ \/ pc' = pc
           \/ pos' = 1 /\ pc' = IF pc = "open" THEN "run" ELSE "done"
        /\ result' = result
    BY AdvanceControl DEF Scripted
  <1>2. pc = "clean" => result = 1
    BY DEF Control
  <1>3. CASE pc' = "run"
    BY <1>1, <1>3, BeginEvidence
  <1>4. CASE pc' # "run"
    BY <1>1, <1>2, <1>4, NoEvidence
  <1> QED
    BY <1>3, <1>4

\* The operations that touch nothing the evidence rests on.
QuietKinds == Kinds \ {"request", "write", "preop", "reset", "startIf", "start", "send",
                       "watch", "spawn", "join"}

\* Such an operation is passed.
LEMMA QuietEvidence ==
    ASSUME IInv, Running, Shown, pc \in Scripted, Current.kind \in QuietKinds,
           UNCHANGED <<remote, thread, defect, lost>>,
           \/ Fail
           \/ /\ Advance /\ seq' \in {seq, remote[TxRequest]}
              /\ \A d \in Defects : pc = "run" /\ Refutes(d, pos) =>
                   defect # d \/ (lost /\ d \in {"invfirst", "txunchecked"})
    PROVE  Running' /\ Shown'
  <1> USE DEF IInv
  <1>1. CASE Fail
    BY <1>1, FailEvidence
  <1>2. CASE pc # "run" /\ Advance
    BY <1>2, OutsideEvidence DEF Scripted
  <1>3. CASE /\ pc = "run" /\ Advance /\ seq' \in {seq, remote[TxRequest]}
             /\ \A d \in Defects : pc = "run" /\ Refutes(d, pos) =>
                  defect # d \/ (lost /\ d \in {"invfirst", "txunchecked"})
    <2>1. Current.kind \notin {"request", "write", "preop", "reset", "startIf", "start",
                               "send", "watch", "spawn", "join"}
      BY DEF QuietKinds
    <2>2. Current.kind = Kind(pos)
      BY <1>3, RunAdvance
    <2>3. pc' = "run" => Asked'
      BY <1>3, <2>1, AdvanceAsked DEF Running
    <2>4. pc' = "run" => Written'
      <3>1. \A o \in Objects : ~Touches(Current, o)
        BY <2>1 DEF Touches
      <3> QED
        BY <1>3, <3>1, AdvanceWritten DEF Running
    <2>5. pc' = "run" => Sealed'
      <3>1. ~Harmless(pos)
        BY <2>1, <2>2 DEF Harmless
      <3> QED
        BY <1>3, <2>1, <3>1, AdvanceSealed DEF Running
    <2>6. pc' = "run" => Refusing' /\ Clearing' /\ Watching'
      BY <1>3, <2>1, AdvanceQuietly
    <2>7. pc' = "run" => Scoped'
      BY <1>3, <2>1, AdvanceScoped DEF Running
    <2>8. Shown'
      BY <1>3, AdvanceShown
    <2> QED
      BY <2>3, <2>4, <2>5, <2>6, <2>7, <2>8 DEF Running
  <1> QED
    BY <1>1, <1>2, <1>3

\* Nothing is shown by an operation of another kind.
LEMMA NothingShown ==
    ASSUME Control, pc \in Scripted, Current.kind \notin EvidenceKinds
    PROVE  \A d \in Defects : pc = "run" => ~Refutes(d, pos)
  <1>1. pc = "run" => Current.kind = Kind(pos)
    BY Here DEF Kind
  <1> QED
    BY <1>1, EvidenceIs

\* The process stays at its operation.
LEMMA StayEvidence ==
    ASSUME IInv, Running, Shown, UNCHANGED control, defect' = defect, lost => lost',
           pc = "run" => /\ UNCHANGED <<remote, stale, seq>>
                         /\ Refusing' /\ Clearing' /\ Scoped' /\ Watching'
    PROVE  Running' /\ Shown'
  <1>1. pc' = pc /\ pos' = pos /\ result' = result
    BY DEF control
  <1>2. Shown'
    <2>1. \A i : Past(i)' => Past(i)
      BY <1>1 DEF Past
    <2> QED
      BY <2>1, PlacesPrimed DEF Shown
  <1>3. ASSUME pc = "run"
        PROVE  Asked' /\ Written' /\ Sealed'
    <2>1. Asked'
      BY <1>1, <1>3 DEF Running, Asked, Kind
    <2>2. Written'
      BY <1>1, <1>3, PlacesPrimed DEF Running, Written
    <2>3. Sealed'
      BY <1>1, <1>3, PlacesPrimed DEF Running, Sealed, MagicSet
    <2> QED
      BY <2>1, <2>2, <2>3
  <1> QED
    BY <1>1, <1>2, <1>3 DEF Running

\* At most operations nothing is claimed of the receiver and the frames.
LEMMA StayQuietly ==
    ASSUME pos' = pos, Kind(pos) \notin {"rx", "startIf", "send", "sample", "watch", "silence"}
    PROVE  Refusing' /\ Clearing' /\ Watching'
  <1>1. ~Refusal(pos) /\ ~Cleared(pos) /\ ~Sampled(pos) /\ ~Watched(pos) /\ ~Silent(pos)
    BY DEF Refusal, Cleared, Sampled, Watched, Silent
  <1> QED
    BY <1>1, PlacesPrimed DEF Refusing, Clearing, Watching

-----------------------------------------------------------------------------
(* The steps of the slave and of the threads.                              *)

\* SRVT or SCT expires.
LEMMA TimeoutEvidence ==
    ASSUME IInv, Running, Shown, RxTimeout
    PROVE  Running' /\ Shown'
  <1>1. /\ pc = "run" /\ Current.kind \in {"send", "rx", "states"}
        /\ rx' \in {"srvt", "sct"} /\ half' = FALSE
        /\ UNCHANGED <<remote, stale, seq, tx, phase, defect, txq, thread, control, lost>>
    BY DEF RxTimeout, sdo, transmitter, locals
  <1>2. pos' = pos /\ Current.kind = Kind(pos)
    BY <1>1, Here DEF IInv, control, Kind, Scripted
  <1>3. Refusing' /\ Clearing' /\ Scoped' /\ Watching'
    <2>1. Refusing'
      BY <1>1 DEF Refusing
    <2>2. ~Sampled(pos) /\ ~Watched(pos) /\ ~Silent(pos)
      BY <1>1, <1>2 DEF Sampled, Watched, Silent
    <2>3. Clearing' /\ Watching'
      BY <1>1, <1>2, <2>2, PlacesPrimed DEF Clearing, Watching
    <2>4. Scoped'
      BY <1>1, <1>2 DEF Running, Scoped, Kind
    <2> QED
      BY <2>1, <2>3, <2>4
  <1> QED
    BY <1>1, <1>3, StayEvidence

\* A frame of TX: with TX data that is not inverted it is evidence.
LEMMA EmitEvidence ==
    ASSUME IInv, Running, Shown, TxEmit
    PROVE  Running' /\ Shown'
  <1>1. /\ pc = "run" /\ (lost => lost')
        /\ UNCHANGED <<remote, stale, seq, rx, half, tx, defect, thread, control>>
        /\ \/ txq' = Append(txq, [id |-> phase, cycle |-> cycle])
           \/ txq' = txq /\ lost' = (lost \/ remote[TxData] # Base)
    <2>1. /\ pc = "run"
          /\ UNCHANGED <<remote, stale, seq, rx, half, tx, defect, thread, control>>
      BY DEF TxEmit, Listening, sdo, receiver, locals
    <2>2. \/ txq' = Append(txq, [id |-> phase, cycle |-> cycle]) /\ UNCHANGED lost
          \/ txq' = txq /\ lost' = (lost \/ remote[TxData] # Base)
      BY DEF TxEmit
    <2>3. (lost' = (lost \/ remote[TxData] # Base) \/ lost' = lost) => (lost => lost')
      BY Zenon
    <2> QED
      BY <2>1, <2>2, <2>3
  <1>2. pos' = pos
    BY <1>1 DEF control
  <1>3. /\ Append(txq, [id |-> phase, cycle |-> cycle]) # <<>>
        /\ txq # <<>> => txq' # <<>>
    <2>1. txq \in Seq(Frames) /\ [id |-> phase, cycle |-> cycle] \in Frames
      BY DEF IInv, Data, Frames
    <2>2. Append(txq, [id |-> phase, cycle |-> cycle]) # <<>>
      BY <2>1, AppendProperties
    <2> QED
      BY <1>1, <2>2
  <1>4. Evident => Evident'
    BY <1>1, <1>3 DEF Evident
  <1>5. ASSUME Watched(pos)
        PROVE  Evident'
    <2>1. remote[TxData] = Other
      <3>1. Holds(pos, TxData, Other)
        BY <1>5 DEF Watched
      <3>2. TxData \in Objects \ {TxRequest} /\ Other \in Levels
        BY ScriptArguments
      <3> QED
        BY <1>1, <3>1, <3>2 DEF Running, Written
    <2>2. remote[TxData] # Base
      BY <2>1 DEF Other, Base
    <2>3. txq' # <<>> \/ lost'
      BY <1>1, <1>3, <2>2, Zenon
    <2> QED
      BY <2>3 DEF Evident
  <1>6. Refusing' /\ Clearing' /\ Scoped' /\ Watching'
    <2>1. Refusing'
      BY <1>1, <1>2, PlacesPrimed DEF Running, Refusing, Mismatch
    <2>2. Clearing'
      BY <1>1, <1>2, PlacesPrimed DEF Running, Clearing
    <2>3. Scoped'
      BY <1>1, <1>2 DEF Running, Scoped, Kind
    <2>4. Watching'
      BY <1>1, <1>2, <1>4, <1>5, PlacesPrimed DEF Running, Watching
    <2> QED
      BY <2>1, <2>2, <2>3, <2>4
  <1> QED
    BY <1>1, <1>6, StayEvidence

\* The transmitter notices its fault: a defective one, only after a frame.
LEMMA FaultEvidence ==
    ASSUME IInv, Running, Shown, TxFault
    PROVE  Running' /\ Shown'
  <1>1. /\ UNCHANGED <<remote, stale, seq, rx, half, phase, defect, txq, thread, control, lost>>
        /\ defect = "txunchecked" => phase = "i"
    BY DEF TxFault, sdo, receiver, locals
  <1>2. pos' = pos
    BY <1>1 DEF control
  <1>3. ASSUME pc = "run"
        PROVE  Refusing' /\ Clearing' /\ Scoped' /\ Watching'
    <2>1. Refusing'
      BY <1>1, <1>2, <1>3, PlacesPrimed DEF Running, Refusing, Mismatch
    <2>2. Clearing'
      BY <1>1, <1>2, <1>3, PlacesPrimed DEF Running, Clearing
    <2>3. Scoped'
      BY <1>1, <1>2, <1>3 DEF Running, Scoped, Kind
    <2>4. Watching'
      BY <1>1, <1>2, <1>3, PlacesPrimed DEF Running, Watching, Evident
    <2> QED
      BY <2>1, <2>2, <2>3, <2>4
  <1> QED
    BY <1>1, <1>3, StayEvidence

\* A request is processed, or an abandoned write takes effect: the latter not
\* during the validation.
LEMMA ServiceEvidence ==
    ASSUME IInv, Running, Shown, SlaveServes \/ LateEffect \/ UNCHANGED vars
    PROVE  Running' /\ Shown'
  <1>1. /\ UNCHANGED <<seq, rx, half, tx, phase, defect, txq, thread, control, lost>>
        /\ pc = "run" => UNCHANGED <<remote, stale>>
    <2>1. CASE SlaveServes \/ UNCHANGED vars
      BY <2>1 DEF SlaveServes, vars, sdo, slave, receiver, transmitter, locals
    <2>2. CASE LateEffect
      <3>1. UNCHANGED <<seq, rx, half, tx, phase, defect, txq, thread, control, lost>>
        BY <2>2 DEF LateEffect, slave, receiver, transmitter, locals
      <3>2. late # <<>>
        BY <2>2 DEF LateEffect, Sdo!LateWrite, Sdo!LateLoss
      <3> QED
        BY <3>1, <3>2 DEF IInv, Requests
    <2> QED
      BY <2>1, <2>2
  <1>2. pos' = pos
    BY <1>1 DEF control
  <1>3. ASSUME pc = "run"
        PROVE  Refusing' /\ Clearing' /\ Scoped' /\ Watching'
    <2>1. Refusing'
      BY <1>1, <1>2, <1>3, PlacesPrimed DEF Running, Refusing, Mismatch
    <2>2. Clearing'
      BY <1>1, <1>2, <1>3, PlacesPrimed DEF Running, Clearing
    <2>3. Scoped'
      BY <1>1, <1>2, <1>3 DEF Running, Scoped, Kind
    <2>4. Watching'
      BY <1>1, <1>2, <1>3, PlacesPrimed DEF Running, Watching, Evident
    <2> QED
      BY <2>1, <2>2, <2>3, <2>4
  <1> QED
    BY <1>1, <1>3, StayEvidence

\* A frame never makes the receiver report a wrong configuration.
LEMMA ReceiveConfig ==
    ASSUME NEW f \in {"normal", "short", "inverted", "wrong"},
           Receive(f) \/ UNCHANGED receiver
    PROVE  rx' = "config" => rx = "config"
  BY DEF Receive, receiver

\* A thread sends or reads: only in its scope, where no sample is taken, and
\* a frame it takes is one it has seen.
LEMMA ThreadEvidence ==
    ASSUME IInv, Running, Shown, ThreadSteps
    PROVE  Running' /\ Shown'
  <1>1. /\ UNCHANGED <<remote, stale, seq, tx, phase, defect, control, lost>>
        /\ Alive /\ ~Ended /\ thread'.running = thread.running
        /\ thread'.at = "exit" => ~thread.running
        /\ rx' = "config" => rx = "config"
        /\ txq' = txq \/ thread'.at = "seen"
    <2> USE DEF IInv
    <2>1. thread \in [role : Roles \cup {"none"},
                      at : {"idle", "between", "exit", "error", "seen"},
                      running : BOOLEAN, joined : BOOLEAN]
      BY DEF Threads
    <2>2. CASE WorkerSends
      <3>1. /\ UNCHANGED <<remote, stale, seq, tx, phase, defect, control, lost, txq>>
            /\ Alive /\ ~Ended
        BY <2>2 DEF WorkerSends, sdo, transmitter, locals
      <3>2. rx' = "config" => rx = "config"
        BY <2>2, ReceiveConfig DEF WorkerSends
      <3>3. \E a \in {"between", "idle", "error", "exit"} :
              thread' = [thread EXCEPT !.at = a] /\ (a = "exit" => ~thread.running)
        BY <2>2 DEF WorkerSends, ToldToStop
      <3> QED
        BY <2>1, <3>1, <3>2, <3>3
    <2>3. CASE ObserverReads
      <3>1. /\ UNCHANGED <<remote, stale, seq, tx, phase, defect, control, lost, rx>>
            /\ Alive /\ ~Ended
        BY <2>3 DEF ObserverReads, sdo, slave, receiver, transmitter, locals
      <3>2. \E a \in {"seen", "error", "exit"} :
              /\ thread' = [thread EXCEPT !.at = a] /\ (a = "exit" => ~thread.running)
              /\ txq' = txq \/ a = "seen"
        BY <2>3 DEF ObserverReads, ToldToStop
      <3> QED
        BY <2>1, <3>1, <3>2
    <2> QED
      BY <2>2, <2>3 DEF ThreadSteps
  <1>2. pos' = pos
    BY <1>1 DEF control
  <1>3. ASSUME pc = "run"
        PROVE  Refusing' /\ Clearing' /\ Scoped' /\ Watching'
    <2>1. Validation[pos].held # "none"
      <3>1. thread.role \in Roles /\ ScriptOf(pc)[pos].held = thread.role
        BY <1>1, <1>3 DEF IInv, Threads
      <3>2. ScriptOf(pc) = Validation
        BY <1>3 DEF ScriptOf
      <3> QED
        BY <3>1, <3>2 DEF Roles
    <2>2. Kind(pos) # "join" => thread.running
      BY <1>3, <2>1 DEF Running, Scoped
    <2>3. Refusing'
      BY <1>1, <1>2, <1>3, PlacesPrimed DEF Running, Refusing, Mismatch
    <2>4. Clearing'
      <3>1. ~Cleared(pos) /\ ~Sampled(pos)
        BY <2>1 DEF Cleared, Sampled
      <3> QED
        BY <1>2, <3>1, PlacesPrimed DEF Clearing
    <2>5. Scoped'
      BY <1>1, <1>2, <2>2 DEF Scoped, Kind
    <2>6. Watching'
      <3>1. Evident => Evident'
        BY <1>1 DEF Evident, Ended
      <3> QED
        BY <1>1, <1>2, <1>3, <3>1, PlacesPrimed DEF Running, Watching
    <2> QED
      BY <2>3, <2>4, <2>5, <2>6
  <1> QED
    BY <1>1, <1>3, StayEvidence

-----------------------------------------------------------------------------
(* The steps of the main thread that read.                                 *)

\* A read passes its check, or fails.
LEMMA ReadEffect ==
    ASSUME NEW k, NEW o, NEW condition, ReadAndCheck(k, o, condition)
    PROVE  /\ pc \in Scripted /\ Current.kind = k
           /\ UNCHANGED <<remote, stale, slave, txq, thread, locals, lost>>
           /\ Fail \/ (Advance /\ reply'.class = "SUCCESS" /\ condition)
  BY DEF ReadAndCheck, At, Check, Answered, Sdo!SdoRead

\* A read that has passed, with what it has shown.
LEMMA ReadEvidence ==
    ASSUME IInv, Running, Shown, NEW k \in QuietKinds, NEW o, NEW condition,
           ReadAndCheck(k, o, condition),
           ASSUME condition, reply'.class = "SUCCESS", pc = "run", Current.kind = k, Advance
           PROVE  \A d \in Defects : Refutes(d, pos) =>
                    defect # d \/ (lost /\ d \in {"invfirst", "txunchecked"})
    PROVE  Running' /\ Shown'
  <1>1. /\ pc \in Scripted /\ Current.kind = k
        /\ UNCHANGED <<remote, thread, defect, lost, seq>>
        /\ Fail \/ (Advance /\ reply'.class = "SUCCESS" /\ condition)
    BY ReadEffect DEF slave, locals
  <1>2. CASE Fail
    BY <1>2, FailEvidence
  <1>3. CASE Advance /\ reply'.class = "SUCCESS" /\ condition
    <2>1. \A d \in Defects : pc = "run" /\ Refutes(d, pos) =>
            defect # d \/ (lost /\ d \in {"invfirst", "txunchecked"})
      BY <1>1, <1>3
    <2> QED
      BY <1>1, <1>3, <2>1, QuietEvidence
  <1> QED
    BY <1>1, <1>2, <1>3

\* Reads that are no evidence.
LEMMA PlainReadEvidence ==
    ASSUME IInv, Running, Shown,
           \/ readRemote \/ waitForTxState \/ waitForDiagnosticState \/ validateProfile
           \/ waitForTxCompletion \/ ReadSequence
    PROVE  Running' /\ Shown'
  <1> DEFINE kinds == {"read", "tx", "states", "profile", "complete", "sequence"}
  <1>1. /\ kinds \subseteq QuietKinds /\ kinds \cap EvidenceKinds = {}
    BY DEF QuietKinds, Kinds, PlainKinds, RequestKinds, EvidenceKinds
  <1>2. /\ pc \in Scripted /\ Current.kind \in kinds
        /\ UNCHANGED <<remote, thread, defect, lost>>
        /\ Fail \/ (Advance /\ seq' \in {seq, remote[TxRequest]})
    <2>1. CASE readRemote
      BY <2>1, ReadEffect DEF readRemote, slave, locals
    <2>2. CASE waitForTxState
      BY <2>2, ReadEffect DEF waitForTxState, slave, locals
    <2>3. CASE waitForDiagnosticState
      BY <2>3, ReadEffect DEF waitForDiagnosticState, slave, locals
    <2>4. CASE validateProfile
      BY <2>4, ReadEffect DEF validateProfile, slave, locals
    <2>5. CASE waitForTxCompletion
      BY <2>5, ReadEffect DEF waitForTxCompletion, slave, locals
    <2>6. CASE ReadSequence
      <3>1. /\ pc \in Scripted /\ Current.kind = "sequence"
            /\ UNCHANGED <<remote, thread, defect, lost>> /\ Sdo!SdoRead(TxRequest)
            /\ Fail \/ (Advance /\ reply'.class = "SUCCESS" /\ seq' = reply'.value)
        BY <2>6 DEF ReadSequence, At, Check, Answered, slave, Sdo!SdoRead
      <3>2. reply'.class = "SUCCESS" => reply'.value = remote[TxRequest]
        BY <3>1 DEF Sdo!SdoRead, Sdo!Answer
      <3> QED
        BY <3>1, <3>2
    <2> QED
      BY <2>1, <2>2, <2>3, <2>4, <2>5, <2>6
  <1>3. \A d \in Defects : pc = "run" => ~Refutes(d, pos)
    BY <1>1, <1>2, NothingShown DEF IInv
  <1> QED
    BY <1>1, <1>2, <1>3, QuietEvidence

\* What the parameters are where a configuration must be refused.
LEMMA AcceptedRefuted ==
    ASSUME Written, NEW d, Accepted(d, pos), Mismatch
    PROVE  defect # d
  <1>1. /\ {Direction, Timing, Ids, MapCount, Map, Checksum} \subseteq Objects \ {TxRequest}
        /\ {Base, Other} \subseteq Levels /\ Base # Other
    BY ScriptArguments DEF Base, Other
  <1>2. \A o \in {Direction, Timing, Ids, MapCount, Map}, v \in {Base, Other} :
          Holds(pos, o, v) => remote[o] = v
    BY <1>1 DEF Written
  <1>3. ASSUME NEW X \in {{Checksum}, {Checksum, Ids}, {Checksum, Map}}, BaseOutside(pos, X)
        PROVE  /\ \A o \in {Direction, MapCount, Timing} : remote[o] = Base
               /\ Ids \notin X => remote[Ids] = Base
               /\ Map \notin X => remote[Map] = Base
    <2>1. \A o \in {Direction, MapCount, Timing} : o \in Parameters \ X
      BY DEF Parameters, Direction, MapCount, Timing, Ids, Map, Checksum
    <2>2. Ids \in Parameters /\ Map \in Parameters
      BY DEF Parameters
    <2> QED
      BY <1>2, <1>3, <2>1, <2>2 DEF BaseOutside
  <1>4. Ids # Checksum /\ Map # Checksum /\ Ids # Map
    BY DEF Ids, Map, Checksum
  <1>5. CASE d = "nochecksum" /\ BaseOutside(pos, {Checksum})
    BY <1>1, <1>3, <1>4, <1>5 DEF Mismatch
  <1>6. CASE d = "noids" /\ BaseOutside(pos, {Checksum, Ids}) /\ Holds(pos, Ids, Other)
    BY <1>1, <1>2, <1>3, <1>4, <1>6 DEF Mismatch
  <1>7. CASE d = "nolen" /\ BaseOutside(pos, {Checksum, Map}) /\ Holds(pos, Map, Other)
    BY <1>1, <1>2, <1>3, <1>4, <1>7 DEF Mismatch
  <1> QED
    BY <1>5, <1>6, <1>7 DEF Accepted

\* The RX state that was waited for is one the slave reports.
LEMMA RxEvidence ==
    ASSUME IInv, Honest, Running, Shown, waitForRxState
    PROVE  Running' /\ Shown'
  <1>1. "rx" \in QuietKinds
    BY DEF QuietKinds, Kinds, PlainKinds
  <1>2. ASSUME rx = Current.value, reply'.class = "SUCCESS", pc = "run", Current.kind = "rx",
               Advance
        PROVE  \A d \in Defects : Refutes(d, pos) =>
                 defect # d \/ (lost /\ d \in {"invfirst", "txunchecked"})
    <2>1. SUFFICES ASSUME NEW d \in Defects, Refutes(d, pos) PROVE defect # d
      OBVIOUS
    <2>2. Current = Validation[pos] /\ Kind(pos) = "rx"
      BY <1>2, RunAdvance DEF IInv
    <2>3. CASE <<d, Validation[pos].value>> \in Hides
      BY <1>2, <2>2, <2>3 DEF Honest
    <2>4. CASE Refusal(pos) /\ Validation[pos].value = "config" /\ Accepted(d, pos)
      <3>1. Mismatch
        BY <1>2, <2>2, <2>4 DEF Running, Refusing
      <3> QED
        BY <1>2, <2>4, <3>1, AcceptedRefuted DEF Running
    <2> QED
      BY <2>1, <2>2, <2>3, <2>4 DEF Refutes, Sampled, Silent
  <1>3. ReadAndCheck("rx", Diagnostic, rx = Current.value)
    BY DEF waitForRxState
  <1> QED
    BY <1>1, <1>2, <1>3, ReadEvidence

\* F05's sample: the inverted frame alone did not establish RX.
LEMMA SampleEvidence ==
    ASSUME IInv, Running, Shown, SampleRxState
    PROVE  Running' /\ Shown'
  <1>1. "sample" \in QuietKinds
    BY DEF QuietKinds, Kinds, PlainKinds
  <1>2. ASSUME rx # "established", reply'.class = "SUCCESS", pc = "run",
               Current.kind = "sample", Advance
        PROVE  \A d \in Defects : Refutes(d, pos) =>
                 defect # d \/ (lost /\ d \in {"invfirst", "txunchecked"})
    <2>1. Kind(pos) = "sample"
      BY <1>2, RunAdvance DEF IInv
    <2>2. \A d \in Defects : Refutes(d, pos) => d = "invfirst" /\ Sampled(pos)
      BY <2>1 DEF Refutes, Refusal, Silent
    <2> QED
      BY <1>2, <2>2 DEF Running, Clearing
  <1>3. ReadAndCheck("sample", Diagnostic, rx # "established")
    BY DEF SampleRxState
  <1> QED
    BY <1>1, <1>2, <1>3, ReadEvidence

\* 0x13FE reads as invalid: the slave did not keep it.
LEMMA ExpectEvidence ==
    ASSUME IInv, Running, Shown, expectRemote
    PROVE  Running' /\ Shown'
  <1> DEFINE condition == IF Current.object = Magic THEN ~MagicSet
                          ELSE reply'.value = Current.value
  <1>1. "expect" \in QuietKinds /\ "expect" \notin RequestKinds
    BY DEF QuietKinds, Kinds, PlainKinds, RequestKinds
  <1>2. ASSUME condition, reply'.class = "SUCCESS", pc = "run", Current.kind = "expect", Advance
        PROVE  \A d \in Defects : Refutes(d, pos) =>
                 defect # d \/ (lost /\ d \in {"invfirst", "txunchecked"})
    <2>1. Kind(pos) = "expect" /\ Current = Validation[pos]
      BY <1>2, RunAdvance DEF IInv
    <2>2. \A d \in Defects : Refutes(d, pos) =>
            d = "keepsmagic" /\ Validation[pos].object = Magic /\ Kept(pos)
      BY <2>1 DEF Refutes, Refusal, Sampled, Silent
    <2> QED
      BY <1>2, <2>1, <2>2 DEF Running, Sealed
  <1>3. ReadAndCheck("expect", Current.object, condition)
    BY DEF expectRemote
  <1> HIDE DEF condition
  <1> QED
    BY <1>1, <1>2, <1>3, ReadEvidence

\* After a reset no request was processed again.
LEMMA WitnessEvidence ==
    ASSUME IInv, Honest, Running, Shown, Witness
    PROVE  Running' /\ Shown'
  <1> DEFINE condition == remote[TxRequest] = seq /\ complete = seq /\ outcome = "idle"
  <1>1. "witness" \in QuietKinds
    BY DEF QuietKinds, Kinds, PlainKinds
  <1>2. ASSUME condition, reply'.class = "SUCCESS", pc = "run", Current.kind = "witness", Advance
        PROVE  \A d \in Defects : Refutes(d, pos) =>
                 defect # d \/ (lost /\ d \in {"invfirst", "txunchecked"})
    <2>1. Kind(pos) = "witness"
      BY <1>2, RunAdvance DEF IInv
    <2>2. \A d \in Defects : Refutes(d, pos) =>
            d = "replay" /\ \E j \in 1..(pos - 1) : Kind(j) = "request"
      BY <2>1 DEF Refutes, Refusal, Sampled, Silent
    <2>3. (\E j \in 1..(pos - 1) : Kind(j) = "request") => complete # 0
      BY <1>2 DEF Running, Asked
    <2> QED
      BY <1>2, <2>2, <2>3 DEF Honest
  <1>3. ReadAndCheck("witness", Diagnostic, condition)
    BY DEF Witness
  <1> HIDE DEF condition
  <1> QED
    BY <1>1, <1>2, <1>3, ReadEvidence

\* The operation of the validation is passed, and what is known follows it.
Passed ==
    /\ pc' = "run" => /\ Asked' /\ Written' /\ Sealed' /\ Refusing'
                      /\ Clearing' /\ Scoped' /\ Watching'
    /\ \A d \in Defects : Refutes(d, pos) =>
         defect # d \/ (lost' /\ d \in {"invfirst", "txunchecked"})

\* The parts put together.
LEMMA PassedEvidence ==
    ASSUME IInv, Running, Shown, pc \in Scripted, Advance, defect' = defect, lost => lost',
           pc = "run" => Passed
    PROVE  Running' /\ Shown'
  <1> USE DEF IInv
  <1>1. CASE pc # "run"
    BY <1>1, OutsideEvidence DEF Scripted
  <1>2. CASE pc = "run"
    <2>1. Shown'
      BY <1>2, AdvanceShown DEF Passed
    <2> QED
      BY <1>2, <2>1 DEF Running, Passed
  <1> QED
    BY <1>1, <1>2

\* Steps that neither read nor change what the evidence rests on.
LEMMA PlainEvidence ==
    ASSUME IInv, Running, Shown, drain \/ WorkerOk \/ Listen \/ Regression
    PROVE  Running' /\ Shown'
  <1> DEFINE kinds == {"drain", "ok", "quiet", "listen", "regression"}
  <1>1. /\ kinds \subseteq QuietKinds /\ kinds \cap EvidenceKinds = {}
    BY DEF QuietKinds, Kinds, PlainKinds, RequestKinds, EvidenceKinds
  <1>2. /\ pc \in Scripted /\ Current.kind \in kinds
        /\ UNCHANGED <<remote, thread, defect, lost, seq>>
        /\ Fail \/ Advance
    <2>1. CASE drain
      BY <2>1 DEF drain, At, sdo, locals
    <2>2. CASE WorkerOk
      BY <2>2 DEF WorkerOk, At, Check, sdo, slave, locals
    <2>3. CASE Listen
      BY <2>3 DEF Listen, At, sdo, slave
    <2>4. CASE Regression
      BY <2>4 DEF Regression, At, locals
    <2> QED
      BY <2>1, <2>2, <2>3, <2>4
  <1>3. \A d \in Defects : pc = "run" => ~Refutes(d, pos)
    BY <1>1, <1>2, NothingShown DEF IInv
  <1> QED
    BY <1>1, <1>2, <1>3, QuietEvidence

\* The pairing of captured frames.
LEMMA PairEvidence ==
    ASSUME IInv, Running, Shown, nextPair
    PROVE  Running' /\ Shown'
  <1>1. /\ pc \in Scripted /\ Current.kind = "pair"
        /\ UNCHANGED <<remote, stale, thread, defect, lost, seq>>
        /\ UNCHANGED control \/ Fail \/ Advance
    BY DEF nextPair, At, Check, sdo
  <1>2. CASE UNCHANGED control
    <2>1. pos' = pos /\ (pc = "run" => Kind(pos) = "pair")
      BY <1>1, <1>2, Here DEF IInv, control, Kind
    <2>2. ASSUME pc = "run"
          PROVE  Refusing' /\ Clearing' /\ Scoped' /\ Watching'
      <3>1. Refusing' /\ Clearing' /\ Watching'
        BY <2>1, <2>2, StayQuietly
      <3>2. Scoped'
        BY <1>1, <2>1, <2>2 DEF Running, Scoped, Kind
      <3> QED
        BY <3>1, <3>2
    <2> QED
      BY <1>1, <1>2, <2>2, StayEvidence
  <1>3. CASE Fail \/ Advance
    <2>1. "pair" \in QuietKinds /\ "pair" \notin EvidenceKinds
      BY DEF QuietKinds, Kinds, PlainKinds, EvidenceKinds
    <2>2. \A d \in Defects : pc = "run" => ~Refutes(d, pos)
      BY <1>1, <2>1, NothingShown DEF IInv
    <2> QED
      BY <1>1, <1>3, <2>1, <2>2, QuietEvidence
  <1> QED
    BY <1>1, <1>2, <1>3

\* A write that was refused: the slave did not take it.
LEMMA RejectEvidence ==
    ASSUME IInv, Running, Shown, requireWriteRejected
    PROVE  Running' /\ Shown'
  <1> DEFINE d0 == IF Current.object = Ids THEN "takesids" ELSE "takesmap"
  <1>1. /\ pc \in Scripted /\ Current.kind = "reject"
        /\ UNCHANGED <<thread, defect, lost, seq>>
        /\ Fail \/ (Advance /\ defect # d0 /\ remote' = remote)
    BY DEF requireWriteRejected, At, Check, slave, locals
  <1>2. CASE Fail
    BY <1>2, FailEvidence
  <1>3. CASE Advance /\ defect # d0 /\ remote' = remote
    <2>1. "reject" \in QuietKinds
      BY DEF QuietKinds, Kinds, PlainKinds
    <2>2. ASSUME NEW d \in Defects, pc = "run", Refutes(d, pos)
          PROVE  defect # d
      <3>1. Current = Validation[pos] /\ Kind(pos) = "reject"
        BY <1>1, <1>3, <2>2, RunAdvance DEF IInv
      <3>2. d = d0
        BY <2>2, <3>1 DEF Refutes, Refusal, Sampled, Silent
      <3> QED
        BY <1>3, <3>2
    <2> QED
      BY <1>1, <1>3, <2>1, <2>2, QuietEvidence
  <1> QED
    BY <1>1, <1>2, <1>3

\* F11's watch: when the fault is reported, its frame was lost, is there or
\* has been seen.
LEMMA WatchEvidence ==
    ASSUME IInv, Running, Shown, WatchForFault
    PROVE  Running' /\ Shown'
  <1> USE DEF IInv
  <1>1. /\ pc \in Scripted /\ Current.kind = "watch"
        /\ UNCHANGED <<remote, stale, slave, txq, thread, locals, lost>>
        /\ Fail \/ (Advance /\ tx = "notInverted")
    BY ReadEffect DEF WatchForFault
  <1>2. /\ UNCHANGED <<remote, stale, rx, half, tx, phase, defect, txq, thread, seq, lost>>
    BY <1>1 DEF slave, receiver, transmitter, locals
  <1>3. CASE Fail
    BY <1>3, FailEvidence
  <1>4. CASE Advance /\ tx = "notInverted"
    <2>1. ASSUME pc = "run"
          PROVE  Passed
      <3> USE <2>1 DEF Running
      <3> Current.kind = Kind(pos)
        BY <1>4, RunAdvance
      <3>1. pc' = "run" => Asked' /\ Scoped'
        BY <1>1, <1>2, <1>4, AdvanceAsked, AdvanceScoped
      <3>2. pc' = "run" => Written'
        BY <1>1, <1>2, <1>4, AdvanceWritten DEF Touches
      <3>3. pc' = "run" => Sealed'
        <4>1. ~Harmless(pos)
          BY <1>1 DEF Harmless
        <4> QED
          BY <1>1, <1>2, <1>4, <4>1, AdvanceSealed
      <3>4. ASSUME pc' = "run"
            PROVE  Refusing' /\ Clearing' /\ Watching'
        <4>1. pos' = pos + 1 /\ pos \in Nat \ {0} /\ pos' - 1 = pos /\ Kind(pos) = "watch"
          BY <1>1, <1>4, <3>4, RunAdvance
        <4>2. ~Refusal(pos') /\ ~Cleared(pos') /\ ~Sampled(pos') /\ ~Watched(pos')
          BY <4>1 DEF Refusal, Cleared, Sampled, Watched
        <4>3. Silent(pos') => Watched(pos)
          BY <4>1 DEF Silent
        <4>4. defect = "txunchecked" /\ Watched(pos) => Evident
          BY <1>4 DEF Watching
        <4>5. Evident => Evident'
          BY <1>2 DEF Evident
        <4> QED
          BY <1>2, <4>2, <4>3, <4>4, <4>5, PlacesPrimed DEF Refusing, Clearing, Watching
      <3>5. \A d \in Defects : ~Refutes(d, pos)
        BY <1>1, NothingShown DEF EvidenceKinds
      <3> QED
        BY <3>1, <3>2, <3>3, <3>4, <3>5 DEF Passed
    <2> QED
      BY <1>1, <1>2, <1>4, <2>1, PassedEvidence
  <1> QED
    BY <1>1, <1>3, <1>4

\* F11's silence: nothing was there to see.
LEMMA SilenceEvidence ==
    ASSUME IInv, Running, Shown, SilenceHold
    PROVE  Running' /\ Shown'
  <1>1. /\ pc \in Scripted /\ Current.kind = "silence"
        /\ UNCHANGED <<remote, thread, defect, lost, seq>>
        /\ Ended \/ txq = <<>>
        /\ Fail \/ (Advance /\ thread.at \notin {"error", "seen"})
    BY DEF SilenceHold, At, Check, sdo, slave, locals
  <1>2. CASE Fail
    BY <1>2, FailEvidence
  <1>3. CASE Advance /\ thread.at \notin {"error", "seen"}
    <2>1. "silence" \in QuietKinds
      BY DEF QuietKinds, Kinds, PlainKinds
    <2>2. ASSUME NEW d \in Defects, pc = "run", Refutes(d, pos)
          PROVE  defect # d \/ (lost /\ d \in {"invfirst", "txunchecked"})
      <3>1. Kind(pos) = "silence"
        BY <1>1, <1>3, <2>2, RunAdvance DEF IInv
      <3>2. d = "txunchecked" /\ Silent(pos)
        BY <2>2, <3>1 DEF Refutes, Refusal, Sampled
      <3>3. thread.at # "exit"
        BY <2>2, <3>1, <3>2 DEF Silent, Running, Scoped
      <3>4. txq = <<>>
        BY <1>1, <1>3, <3>3 DEF Ended
      <3> QED
        BY <1>3, <2>2, <3>2, <3>4 DEF Running, Watching, Evident
    <2> QED
      BY <1>1, <1>3, <2>1, <2>2, QuietEvidence
  <1> QED
    BY <1>1, <1>2, <1>3

-----------------------------------------------------------------------------
(* The steps of the main thread that write and command.                    *)

\* A TX request.
LEMMA RequestEvidence ==
    ASSUME IInv, Running, Shown, RequestTx
    PROVE  Running' /\ Shown'
  <1> USE DEF IInv
  <1>1. /\ pc \in Scripted /\ Current.kind = "request" /\ seq' = seq + 1
        /\ UNCHANGED <<thread, defect, lost>>
        /\ Fail \/ (Advance /\ remote' = [remote EXCEPT ![TxRequest] = seq + 1])
    BY DEF RequestTx, At, Check, Answered, slave, Sdo!SdoWrite, Sdo!Written, Sdo!Answer
  <1>2. CASE Fail
    BY <1>2, FailEvidence
  <1>3. CASE Advance /\ remote' = [remote EXCEPT ![TxRequest] = seq + 1]
    <2>1. /\ remote'[TxRequest] = seq + 1 /\ seq + 1 >= 1
          /\ \A o \in Objects \ {TxRequest} : remote'[o] = remote[o]
      BY <1>3 DEF Data, Objects
    <2>2. ASSUME pc = "run"
          PROVE  Passed
      <3> USE <2>2 DEF Running
      <3> Current.kind = Kind(pos)
        BY <1>3, RunAdvance
      <3>1. pc' = "run" => Asked' /\ Scoped'
        BY <1>1, <1>3, <2>1, AdvanceAsked, AdvanceScoped
      <3>2. pc' = "run" => Written'
        BY <1>1, <1>3, <2>1, AdvanceWritten DEF Touches
      <3>3. pc' = "run" => Sealed'
        <4>1. ~Harmless(pos)
          BY <1>1 DEF Harmless
        <4> QED
          BY <1>1, <1>3, <4>1, AdvanceSealed
      <3>4. pc' = "run" => Refusing' /\ Clearing' /\ Watching'
        BY <1>1, <1>3, AdvanceQuietly
      <3>5. \A d \in Defects : ~Refutes(d, pos)
        BY <1>1, NothingShown DEF EvidenceKinds
      <3> QED
        BY <3>1, <3>2, <3>3, <3>4, <3>5 DEF Passed
    <2> QED
      BY <1>1, <1>3, <2>2, PassedEvidence
  <1> QED
    BY <1>1, <1>2, <1>3

\* A configuration write: a slave that keeps 0x13FE keeps it.
LEMMA WriteEvidence ==
    ASSUME IInv, Running, Shown, writeRemote
    PROVE  Running' /\ Shown'
  <1> USE DEF IInv
  <1> DEFINE o == Current.object
             v == Current.value
             effect == /\ remote' = [remote EXCEPT ![o] = v]
                       /\ stale' = IF o = Magic THEN FALSE
                                   ELSE stale \/ (o \in Parameters /\ defect # "keepsmagic")
  <1>1. /\ pc \in Scripted /\ Current.kind = "write"
        /\ UNCHANGED <<thread, defect, lost, seq>>
        /\ Fail \/ (Advance /\ effect)
    <2>1. /\ pc \in Scripted /\ Current.kind = "write"
          /\ UNCHANGED <<thread, defect, lost, seq>>
          /\ Fail \/ (Advance /\ reply'.class = "SUCCESS")
          /\ Sdo!SdoWrite(o, v)
      BY DEF writeRemote, At, Check, Answered, slave, locals
    <2>2. reply'.class = "SUCCESS" => remote' = [remote EXCEPT ![o] = v]
      BY <2>1 DEF Sdo!SdoWrite, Sdo!Written, Sdo!Answer
    <2>3. reply'.class = "SUCCESS" =>
            stale' = IF o = Magic THEN FALSE
                     ELSE stale \/ (o \in Parameters /\ defect # "keepsmagic")
      BY DEF writeRemote, Answered
    <2> HIDE DEF o, v
    <2> QED
      BY <2>1, <2>2, <2>3
  <1>2. o \in Objects \ {TxRequest} /\ v \in Levels
    BY <1>1, Here DEF Ops, Legal
  <1>3. CASE Fail
    BY <1>3, FailEvidence
  <1>4. CASE Advance /\ effect
    <2>1. /\ remote'[o] = v /\ \A x \in Objects : x # o => remote'[x] = remote[x]
      BY <1>2, <1>4 DEF Data
    <2>2. ASSUME pc = "run"
          PROVE  Passed
      <3> USE <2>2 DEF Running
      <3> Current.kind = Kind(pos)
        BY <1>4, RunAdvance
      <3>1. pc' = "run" => Asked' /\ Scoped'
        <4>1. remote'[TxRequest] = remote[TxRequest]
          BY <1>2, <2>1 DEF Objects
        <4> QED
          BY <1>1, <1>4, <4>1, AdvanceAsked, AdvanceScoped
      <3>2. pc' = "run" => Written'
        BY <1>1, <1>4, <2>1, AdvanceWritten DEF Touches
      <3>3. pc' = "run" => Sealed'
        <4>1. Magic \in Objects
          BY DEF Objects
        <4>2. CASE o = Magic
          <5>1. v = Base => MagicSet'
            BY <1>4, <2>1, <4>2 DEF MagicSet
          <5> QED
            BY <1>1, <1>4, <4>2, <5>1, AdvanceSealed
        <4>3. CASE o # Magic
          <5>1. defect = "keepsmagic" => (~stale => ~stale')
            BY <1>4, <4>3, Zenon
          <5>2. defect = "keepsmagic" => (MagicSet => MagicSet')
            BY <2>1, <4>1, <4>3, <5>1 DEF MagicSet
          <5>3. Current.kind \notin RequestKinds
            BY <1>1 DEF RequestKinds
          <5> QED
            BY <1>1, <1>4, <4>3, <5>2, <5>3, AdvanceSealed
        <4> QED
          BY <4>2, <4>3
      <3>4. pc' = "run" => Refusing' /\ Clearing' /\ Watching'
        BY <1>1, <1>4, AdvanceQuietly
      <3>5. \A d \in Defects : ~Refutes(d, pos)
        BY <1>1, NothingShown DEF EvidenceKinds
      <3> QED
        BY <3>1, <3>2, <3>3, <3>4, <3>5 DEF Passed
    <2> QED
      BY <1>1, <1>4, <2>2, PassedEvidence
  <1> QED
    BY <1>1, <1>3, <1>4

\* A scope begins: its thread runs.
LEMMA SpawnEvidence ==
    ASSUME IInv, Running, Shown, Spawn
    PROVE  Running' /\ Shown'
  <1> USE DEF IInv
  <1>1. /\ pc \in Scripted /\ Current.kind = "spawn" /\ Advance
        /\ thread'.running /\ thread'.at = "idle"
        /\ UNCHANGED <<remote, seq, defect, lost>>
    BY DEF Spawn, At, sdo, slave, locals
  <1>2. ASSUME pc = "run"
        PROVE  Passed
    <2> USE <1>2 DEF Running
    <2> Current.kind = Kind(pos)
      BY <1>1, RunAdvance
    <2>1. pc' = "run" => Asked' /\ Scoped'
      BY <1>1, AdvanceAsked, AdvanceScoped
    <2>2. pc' = "run" => Written'
      BY <1>1, AdvanceWritten DEF Touches
    <2>3. pc' = "run" => Sealed'
      <3>1. ~Harmless(pos)
        BY <1>1 DEF Harmless
      <3> QED
        BY <1>1, <3>1, AdvanceSealed
    <2>4. pc' = "run" => Refusing' /\ Clearing' /\ Watching'
      BY <1>1, AdvanceQuietly
    <2>5. \A d \in Defects : ~Refutes(d, pos)
      BY <1>1, NothingShown DEF EvidenceKinds
    <2> QED
      BY <2>1, <2>2, <2>3, <2>4, <2>5 DEF Passed
  <1> QED
    BY <1>1, <1>2, PassedEvidence

\* A scope ends: nothing is claimed of its thread any more.
LEMMA StopEvidence ==
    ASSUME IInv, Running, Shown, StopThread
    PROVE  Running' /\ Shown'
  <1> USE DEF IInv
  <1>1. /\ pc \in Scripted /\ Current.kind = "join"
        /\ UNCHANGED <<remote, stale, seq, defect, lost>>
        /\ UNCHANGED control \/ Advance
    BY DEF StopThread, At, sdo, slave, locals
  <1>2. CASE UNCHANGED control
    <2>1. pos' = pos /\ (pc = "run" => Kind(pos) = "join")
      BY <1>1, <1>2, Here DEF control, Kind
    <2>2. ASSUME pc = "run"
          PROVE  Refusing' /\ Clearing' /\ Scoped' /\ Watching'
      <3>1. Refusing' /\ Clearing' /\ Watching'
        BY <2>1, <2>2, StayQuietly
      <3>2. Scoped'
        BY <2>1, <2>2 DEF Scoped, Kind
      <3> QED
        BY <3>1, <3>2
    <2> QED
      BY <1>1, <1>2, <2>2, StayEvidence
  <1>3. CASE Advance
    <2>1. ASSUME pc = "run"
          PROVE  Passed
      <3> USE <2>1 DEF Running
      <3> Current.kind = Kind(pos)
        BY <1>3, RunAdvance
      <3>1. Exit(Current) = "none"
        BY <1>1 DEF Exit
      <3>2. pc' = "run" => Asked' /\ Scoped'
        BY <1>1, <1>3, <3>1, AdvanceAsked, AdvanceScoped
      <3>3. pc' = "run" => Written'
        BY <1>1, <1>3, AdvanceWritten DEF Touches
      <3>4. pc' = "run" => Sealed'
        <4>1. ~Harmless(pos)
          BY <1>1 DEF Harmless
        <4> QED
          BY <1>1, <1>3, <4>1, AdvanceSealed
      <3>5. pc' = "run" => Refusing' /\ Clearing' /\ Watching'
        BY <1>1, <1>3, AdvanceQuietly
      <3>6. \A d \in Defects : ~Refutes(d, pos)
        BY <1>1, NothingShown DEF EvidenceKinds
      <3> QED
        BY <3>2, <3>3, <3>4, <3>5, <3>6 DEF Passed
    <2> QED
      BY <1>1, <1>3, <2>1, PassedEvidence
  <1> QED
    BY <1>1, <1>2, <1>3

\* A failure unwinds.
LEMMA UnwindEvidence ==
    ASSUME Unwind
    PROVE  Running' /\ Shown'
  <1>1. pc' \in {"unwind", "clean"}
    BY DEF Unwind
  <1> QED
    BY <1>1, NoEvidence

\* At an operation of the TX request loop nothing is claimed but what was
\* written and asked.
LEMMA LoopQuiet ==
    ASSUME pos' \in 1..Len(Validation), Kind(pos') \in RequestKinds
    PROVE  Sealed' /\ Refusing' /\ Clearing' /\ Scoped' /\ Watching'
  <1>1. /\ ~Refusal(pos') /\ ~Cleared(pos') /\ ~Sampled(pos') /\ ~Watched(pos')
        /\ ~Silent(pos') /\ ~Kept(pos')
    BY DEF Refusal, Cleared, Sampled, Watched, Silent, Kept, RequestKinds
  <1>2. Validation[pos'].held = "none"
    <2>1. Legal(Validation[pos'])
      BY ValidationSound DEF Sound
    <2> QED
      BY <2>1 DEF Legal, Kind
  <1>3. Scoped'
    BY <1>2 DEF Scoped
  <1> QED
    BY <1>1, <1>3, PlacesPrimed DEF Sealed, Refusing, Clearing, Watching

\* The result of a request: when it was sent, the resynchronization is skipped.
LEMMA ResultEvidence ==
    ASSUME IInv, Running, Shown, TxResult
    PROVE  Running' /\ Shown'
  <1> USE DEF IInv
  <1>1. /\ pc \in Scripted /\ Current.kind = "result" /\ "result" \in RequestKinds
        /\ UNCHANGED <<remote, stale, thread, defect, lost, seq>>
        /\ Move(2) \/ Advance \/ Fail
    BY DEF TxResult, At, slave, RequestKinds, Sdo!SdoRead
  <1>2. CASE Advance \/ Fail
    <2>1. "result" \in QuietKinds /\ "result" \notin EvidenceKinds
      BY DEF QuietKinds, Kinds, RequestKinds, EvidenceKinds
    <2>2. \A d \in Defects : pc = "run" => ~Refutes(d, pos)
      BY <1>1, <2>1, NothingShown
    <2> QED
      BY <1>1, <1>2, <2>1, <2>2, QuietEvidence
  <1>3. CASE Move(2)
    <2> DEFINE L == Len(Validation)
               q == pos + 1
    <2>1. pc = "run" /\ pos < L /\ Validation[q].kind = "resync"
      BY <1>1, InLoop
    <2>2. /\ Script = Validation /\ L \in Nat /\ pos \in 1..L /\ Current = Validation[pos]
          /\ pos \in Nat \ {0} /\ Kind(pos) = "result" /\ Kind(q) = "resync" /\ q \in 1..L
          /\ q \in Nat \ {0} /\ q - 1 = pos
      BY <1>1, <2>1, Here DEF Control, Kind
    <2>3. \/ pc' = "run" /\ pos' = q + 1 /\ q < L /\ q + 1 \in 1..L /\ (q + 1) - 1 = q
          \/ pc' = "done" /\ L <= q
      BY <1>3, <2>1, <2>2 DEF Move, Following
    <2>4. \A x : ~Touches(Validation[pos], x) /\ ~Touches(Validation[q], x)
      BY <2>2 DEF Touches, Kind
    <2> HIDE DEF L, q
    <2>5. Shown'
      <3>1. \A d : ~Refutes(d, pos) /\ ~Refutes(d, q)
        BY <2>2, EvidenceIs DEF EvidenceKinds
      <3>2. ASSUME NEW i \in 1..Len(Validation), Past(i)'
            PROVE  Past(i) \/ i = pos \/ i = q
        <4>1. i < pos \/ i = pos \/ i = q
          BY <2>2, <2>3, <3>2 DEF Past, L
        <4> QED
          BY <2>1, <4>1 DEF Past
      <3> QED
        BY <1>1, <3>1, <3>2, PlacesPrimed DEF Shown
    <2>6. ASSUME pc' = "run"
          PROVE  Asked' /\ Written'
      <3>1. pos' = q + 1 /\ q = pos + 1
        BY <2>3, <2>6 DEF q
      <3>2. Asked'
        <4>1. ASSUME NEW j \in 1..(pos' - 1), Kind(j) = "request"
              PROVE  j \in 1..(pos - 1)
          <5>1. j # pos /\ j # q
            BY <2>2, <4>1
          <5> QED
            BY <2>2, <3>1, <5>1
        <4> QED
          BY <1>1, <2>1, <4>1 DEF Running, Asked, Kind
      <3>3. ASSUME NEW o, NEW v, Holds(pos', o, v)
            PROVE  Holds(pos, o, v)
        <4>1. Holds(q + 1, o, v)
          BY <3>1, <3>3
        <4>2. Holds(q, o, v)
          BY <2>2, <4>1, HoldsBefore
        <4>3. Holds(pos + 1, o, v)
          BY <3>1, <4>2
        <4> QED
          BY <2>2, <4>3, HoldsBefore
      <3>4. Written'
        BY <1>1, <2>1, <3>3, PlacesPrimed DEF Running, Written
      <3> QED
        BY <3>2, <3>4
    <2>7. ASSUME pc' = "run"
          PROVE  Sealed' /\ Refusing' /\ Clearing' /\ Scoped' /\ Watching'
      <3>1. pos' = q + 1 /\ q < L /\ pos' - 1 = q
        BY <2>3, <2>7
      <3>2. ~Watched(q)
        BY <2>2 DEF Watched
      <3>3. /\ ~Refusal(pos') /\ ~Cleared(pos') /\ ~Sampled(pos') /\ ~Watched(pos')
            /\ ~Silent(pos')
        BY <2>2, <3>1, <3>2 DEF Refusal, Cleared, Sampled, Watched, Silent
      <3>4. ~Kept(pos')
        <4>1. ~Harmless(q)
          BY <2>2 DEF Harmless
        <4>2. ~Valid(q + 1)
          BY <2>2, <4>1, ValidBefore
        <4> QED
          BY <3>1, <4>2 DEF Kept
      <3>5. Validation[pos'].held = "none"
        <4>1. Legal(Validation[q]) /\ Validation[q + 1].held = Exit(Validation[q])
          BY <2>2, <3>1, ValidationSound DEF Sound, L
        <4> QED
          BY <2>2, <3>1, <4>1 DEF Legal, Exit, Kind, RequestKinds
      <3>6. Scoped'
        BY <3>5 DEF Scoped
      <3> QED
        BY <3>3, <3>4, <3>6, PlacesPrimed DEF Sealed, Refusing, Clearing, Watching
    <2> QED
      BY <2>5, <2>6, <2>7 DEF Running
  <1> QED
    BY <1>1, <1>2, <1>3

\* The phase after BUSY: back to the request.
LEMMA ResyncEvidence ==
    ASSUME IInv, Running, Shown, ResyncPhase
    PROVE  Running' /\ Shown'
  <1> USE DEF IInv
  <1>1. /\ pc \in Scripted /\ Current.kind = "resync" /\ "resync" \in RequestKinds
        /\ UNCHANGED <<remote, stale, thread, defect, lost, seq>>
        /\ \/ pos' = pos - 3 /\ UNCHANGED <<pc, result, cleaned>>
           \/ UNCHANGED control \/ Fail
    BY DEF ResyncPhase, At, sdo, RequestKinds
  <1>2. /\ pc = "run" /\ pos - 3 \in 1..Len(Validation) /\ pos \in 1..Len(Validation)
        /\ \A k \in (pos - 3)..(pos - 1) : Kind(k) \in RequestKinds
        /\ Kind(pos) = "resync" /\ Len(Validation) \in Nat /\ pos \in Nat
    <2>1. /\ pc = "run" /\ pos - 3 \in 1..Len(Validation)
          /\ \A k \in (pos - 3)..(pos - 1) : Kind(k) \in RequestKinds
      BY <1>1, InLoop DEF Kind
    <2> QED
      BY <1>1, <2>1, Here DEF Control, Kind
  <1>3. CASE Fail
    BY <1>3, FailEvidence
  <1>4. CASE UNCHANGED control
    <2>1. pos' = pos
      BY <1>4 DEF control
    <2>2. Refusing' /\ Clearing' /\ Scoped' /\ Watching'
      BY <1>1, <1>2, <2>1, LoopQuiet
    <2> QED
      BY <1>1, <1>4, <2>2, StayEvidence
  <1>5. CASE pos' = pos - 3 /\ UNCHANGED <<pc, result, cleaned>>
    <2> DEFINE a == pos - 3
    <2>1. /\ a \in Nat \ {0} /\ a + 1 \in Nat \ {0} /\ (a + 1) + 1 \in Nat \ {0}
          /\ ((a + 1) + 1) + 1 = pos /\ a < pos
          /\ {a, a + 1, (a + 1) + 1} \subseteq (pos - 3)..(pos - 1)
      BY <1>2
    <2>2. pos' = a /\ Kind(a) \in RequestKinds /\ a \in 1..Len(Validation)
      BY <1>2, <1>5, <2>1
    <2> HIDE DEF a
    <2>3. Sealed' /\ Refusing' /\ Clearing' /\ Scoped' /\ Watching'
      BY <2>2, LoopQuiet
    <2>4. ASSUME NEW k \in {a, a + 1, (a + 1) + 1}, NEW o
          PROVE  ~Touches(Validation[k], o)
      BY <1>2, <2>1 DEF Touches, Kind, RequestKinds
    <2>5. ASSUME NEW o, NEW v, Holds(a, o, v)
          PROVE  Holds(pos, o, v)
      <3>1. Holds(a + 1, o, v)
        BY <2>1, <2>4, <2>5, HoldsAfter
      <3>2. Holds((a + 1) + 1, o, v)
        BY <2>1, <2>4, <3>1, HoldsAfter
      <3>3. Holds(((a + 1) + 1) + 1, o, v)
        BY <2>1, <2>4, <3>2, HoldsAfter
      <3> QED
        BY <2>1, <3>3
    <2>6. Written'
      BY <1>1, <1>2, <2>2, <2>5, PlacesPrimed DEF Running, Written
    <2>7. Asked'
      <3>1. \A j \in 1..(pos' - 1) : j \in 1..(pos - 1)
        BY <1>2, <2>1, <2>2
      <3> QED
        BY <1>1, <1>2, <3>1 DEF Running, Asked, Kind
    <2>8. Shown'
      <3>1. \A i \in 1..Len(Validation) : Past(i)' => Past(i)
        BY <1>2, <1>5, <2>1, <2>2 DEF Past
      <3> QED
        BY <1>1, <3>1, PlacesPrimed DEF Shown
    <2> QED
      BY <2>3, <2>6, <2>7, <2>8 DEF Running
  <1> QED
    BY <1>1, <1>3, <1>4, <1>5

\* A baseline that was written is one the slave accepts.
LEMMA BaselineMatches ==
    ASSUME Written, BaseOutside(pos, {})
    PROVE  ~Mismatch
  <1>1. /\ Parameters \subseteq Objects \ {TxRequest} /\ Base \in Levels
        /\ {Direction, Timing, Ids, MapCount, Map, Checksum} = Parameters
    BY ScriptArguments DEF Parameters
  <1>2. \A o \in {Direction, Timing, Ids, MapCount, Map, Checksum} : remote[o] = Base
    BY <1>1 DEF Written, BaseOutside
  <1> QED
    BY <1>2 DEF Mismatch, Base, Other

\* The way to Pre-operational.
LEMMA PreOperationalEvidence ==
    ASSUME IInv, Running, Shown, enterPreOperational
    PROVE  Running' /\ Shown'
  <1> USE DEF IInv
  <1>1. /\ pc \in Scripted /\ Current.kind = "preop"
        /\ UNCHANGED <<remote, thread, defect, lost, seq>>
        /\ Fail \/ (Advance /\ stale' = stale)
    BY DEF enterPreOperational, At, Prepare, locals
  <1>2. CASE Fail
    BY <1>2, FailEvidence
  <1>3. CASE Advance /\ stale' = stale
    <2>1. ASSUME pc = "run"
          PROVE  Passed
      <3> USE <2>1 DEF Running
      <3>1. pc' = "run" => Asked' /\ Scoped'
        BY <1>1, <1>3, AdvanceAsked, AdvanceScoped
      <3>2. pc' = "run" => Written'
        BY <1>1, <1>3, AdvanceWritten DEF Touches
      <3>3. pc' = "run" => Sealed'
        <4>1. MagicSet => MagicSet'
          BY <1>1, <1>3 DEF MagicSet
        <4>2. Current.kind \notin RequestKinds
          BY <1>1 DEF RequestKinds
        <4> QED
          BY <1>1, <1>3, <4>1, <4>2, AdvanceSealed
      <3>4. pc' = "run" => Refusing' /\ Clearing' /\ Watching'
        BY <1>1, <1>3, AdvanceQuietly
      <3>5. \A d \in Defects : ~Refutes(d, pos)
        BY <1>1, NothingShown DEF EvidenceKinds
      <3> QED
        BY <3>1, <3>2, <3>3, <3>4, <3>5 DEF Passed
    <2> QED
      BY <1>1, <1>3, <2>1, PassedEvidence
  <1> QED
    BY <1>1, <1>2, <1>3

\* The way to Operational: a refusal has its reason, and the transmitter
\* begins with a normal frame.
LEMMA OperationalEvidence ==
    ASSUME IInv, Running, Shown, enterOperational
    PROVE  Running' /\ Shown'
  <1> USE DEF IInv
  <1> DEFINE effect == /\ rx' = "config" => Mismatch
                       /\ phase' = "n" /\ tx' # "notInverted"
  <1>1. /\ pc \in Scripted /\ Current.kind = "start"
        /\ UNCHANGED <<remote, thread, defect, lost, seq>>
        /\ Fail \/ (Advance /\ effect)
    BY DEF enterOperational, At, Operate, locals
  <1>2. CASE Fail
    BY <1>2, FailEvidence
  <1>3. CASE Advance /\ effect
    <2>1. ASSUME pc = "run"
          PROVE  Passed
      <3> USE <2>1 DEF Running
      <3> Current.kind = Kind(pos)
        BY <1>3, RunAdvance
      <3>1. pc' = "run" => Asked' /\ Scoped'
        BY <1>1, <1>3, AdvanceAsked, AdvanceScoped
      <3>2. pc' = "run" => Written'
        BY <1>1, <1>3, AdvanceWritten DEF Touches
      <3>3. pc' = "run" => Sealed'
        <4>1. ~Harmless(pos)
          BY <1>1 DEF Harmless
        <4> QED
          BY <1>1, <1>3, <4>1, AdvanceSealed
      <3>4. ASSUME pc' = "run"
            PROVE  Refusing' /\ Clearing' /\ Watching'
        <4>1. pos' = pos + 1 /\ pos \in Nat \ {0} /\ pos' - 1 = pos /\ Kind(pos) = "start"
          BY <1>1, <1>3, <3>4, RunAdvance
        <4>2. ~Watched(pos)
          BY <4>1 DEF Watched
        <4>3. ~Cleared(pos') /\ ~Sampled(pos') /\ ~Silent(pos')
          BY <4>1, <4>2 DEF Cleared, Sampled, Silent
        <4>4. rx' = "config" => Mismatch'
          BY <1>1, <1>3 DEF Mismatch
        <4> QED
          BY <1>3, <4>3, <4>4, PlacesPrimed DEF Refusing, Clearing, Watching
      <3>5. \A d \in Defects : ~Refutes(d, pos)
        BY <1>1, NothingShown DEF EvidenceKinds
      <3> QED
        BY <3>1, <3>2, <3>3, <3>4, <3>5 DEF Passed
    <2> QED
      BY <1>1, <1>3, <2>1, PassedEvidence
  <1> QED
    BY <1>1, <1>2, <1>3

\* A reset clears the receiver, and leaves a complete configuration valid.
LEMMA ResetEvidence ==
    ASSUME IInv, Running, Shown, ResetCommand
    PROVE  Running' /\ Shown'
  <1> USE DEF IInv
  <1> DEFINE effect == /\ remote' = [remote EXCEPT ![TxData] = Base] /\ half' = FALSE
                       /\ stale' = stale \/ stale' = (stale \/ (MagicSet /\ Mismatch))
  <1>1. /\ pc \in Scripted /\ Current.kind = "reset"
        /\ UNCHANGED <<thread, defect, lost, seq>>
        /\ Fail \/ (Advance /\ effect)
    BY DEF ResetCommand, At, Prepare, Operate, locals
  <1>2. CASE Fail
    BY <1>2, FailEvidence
  <1>3. CASE Advance /\ effect
    <2>1. /\ TxData \in Objects /\ TxRequest \in Objects /\ Magic \in Objects
          /\ TxData # TxRequest /\ TxData # Magic
      BY DEF TxData, TxRequest, Magic, Objects
    <2>2. \A x \in Objects : x # TxData => remote'[x] = remote[x]
      BY <1>3, <2>1 DEF Data
    <2>3. ASSUME pc = "run"
          PROVE  Passed
      <3> USE <2>3 DEF Running
      <3> Current.kind = Kind(pos)
        BY <1>3, RunAdvance
      <3>1. pc' = "run" => Asked' /\ Scoped'
        BY <1>1, <1>3, <2>1, <2>2, AdvanceAsked, AdvanceScoped
      <3>2. pc' = "run" => Written'
        BY <1>1, <1>3, <2>2, AdvanceWritten DEF Touches
      <3>3. pc' = "run" => Sealed'
        <4>1. ASSUME Harmless(pos)
              PROVE  MagicSet => MagicSet'
          <5>1. ~Mismatch
            BY <1>1, <4>1, BaselineMatches DEF Harmless
          <5>2. ~stale => ~stale'
            BY <1>3, <5>1, Zenon
          <5> QED
            BY <2>1, <2>2, <5>2 DEF MagicSet
        <4>2. Current.kind \notin RequestKinds
          BY <1>1 DEF RequestKinds
        <4> QED
          BY <1>1, <1>3, <4>1, <4>2, AdvanceSealed
      <3>4. ASSUME pc' = "run"
            PROVE  Refusing' /\ Clearing' /\ Watching'
        <4>1. pos' = pos + 1 /\ pos \in Nat \ {0} /\ pos' - 1 = pos /\ Kind(pos) = "reset"
          BY <1>1, <1>3, <3>4, RunAdvance
        <4>2. ~Watched(pos)
          BY <4>1 DEF Watched
        <4>3. ~Refusal(pos') /\ ~Sampled(pos') /\ ~Watched(pos') /\ ~Silent(pos')
          BY <4>1, <4>2 DEF Refusal, Sampled, Watched, Silent
        <4> QED
          BY <1>3, <4>3, PlacesPrimed DEF Refusing, Clearing, Watching
      <3>5. \A d \in Defects : ~Refutes(d, pos)
        BY <1>1, NothingShown DEF EvidenceKinds
      <3> QED
        BY <3>1, <3>2, <3>3, <3>4, <3>5 DEF Passed
    <2> QED
      BY <1>1, <1>3, <2>3, PassedEvidence
  <1> QED
    BY <1>1, <1>2, <1>3

\* The start after a reset finds the receiver cleared.
LEMMA StartEvidence ==
    ASSUME IInv, Running, Shown, StartAfterReset
    PROVE  Running' /\ Shown'
  <1> USE DEF IInv
  <1> DEFINE effect == /\ half' = half \/ half' = FALSE
                       /\ stale' = stale \/ stale' = (stale \/ (MagicSet /\ Mismatch))
  <1>1. /\ pc \in Scripted /\ Current.kind = "startIf"
        /\ UNCHANGED <<remote, thread, defect, lost, seq>>
        /\ Fail \/ (Advance /\ effect)
    BY DEF StartAfterReset, At, Operate, receiver, locals
  <1>2. CASE Fail
    BY <1>2, FailEvidence
  <1>3. CASE Advance /\ effect
    <2>1. ASSUME pc = "run"
          PROVE  Passed
      <3> USE <2>1 DEF Running
      <3> Current.kind = Kind(pos)
        BY <1>3, RunAdvance
      <3>1. pc' = "run" => Asked' /\ Scoped'
        BY <1>1, <1>3, AdvanceAsked, AdvanceScoped
      <3>2. pc' = "run" => Written'
        BY <1>1, <1>3, AdvanceWritten DEF Touches
      <3>3. pc' = "run" => Sealed'
        <4>1. ASSUME Harmless(pos)
              PROVE  MagicSet => MagicSet'
          <5>1. ~Mismatch
            BY <1>1, <4>1, BaselineMatches DEF Harmless
          <5>2. ~stale => ~stale'
            BY <1>3, <5>1, Zenon
          <5> QED
            BY <1>1, <5>2 DEF MagicSet
        <4>2. Current.kind \notin RequestKinds
          BY <1>1 DEF RequestKinds
        <4> QED
          BY <1>1, <1>3, <4>1, <4>2, AdvanceSealed
      <3>4. ASSUME pc' = "run"
            PROVE  Refusing' /\ Clearing' /\ Watching'
        <4>1. /\ pos' = pos + 1 /\ pos \in 1..Len(Validation) /\ pos < Len(Validation)
              /\ pos \in Nat \ {0} /\ pos' - 1 = pos /\ Kind(pos) = "startIf"
          BY <1>1, <1>3, <3>4, RunAdvance
        <4>2. ~Watched(pos)
          BY <4>1 DEF Watched
        <4>3. ~Refusal(pos') /\ ~Sampled(pos') /\ ~Watched(pos') /\ ~Silent(pos')
          BY <4>1, <4>2 DEF Refusal, Sampled, Watched, Silent
        <4>4. ASSUME Cleared(pos')
              PROVE  Cleared(pos)
          <5>1. /\ pos + 1 > 2 /\ Kind((pos + 1) - 2) = "reset"
                /\ Validation[pos + 1].held = "none" /\ (pos + 1) - 2 = pos - 1
            BY <4>1, <4>4 DEF Cleared
          <5>2. Validation[pos + 1].held = Exit(Validation[pos])
            BY <4>1, ValidationSound DEF Sound
          <5>3. Validation[pos].held = "none"
            BY <4>1, <5>1, <5>2 DEF Exit, Kind
          <5> QED
            BY <4>1, <5>1, <5>3 DEF Cleared
        <4>5. Cleared(pos') => ~half'
          BY <1>3, <4>4 DEF Clearing
        <4> QED
          BY <4>3, <4>5, PlacesPrimed DEF Refusing, Clearing, Watching
      <3>5. \A d \in Defects : ~Refutes(d, pos)
        BY <1>1, NothingShown DEF EvidenceKinds
      <3> QED
        BY <3>1, <3>2, <3>3, <3>4, <3>5 DEF Passed
    <2> QED
      BY <1>1, <1>3, <2>1, PassedEvidence
  <1> QED
    BY <1>1, <1>2, <1>3

\* A frame is sent: an inverted one that comes first establishes RX in a
\* defective slave, or is not received.
LEMMA SendEvidence ==
    ASSUME IInv, Running, Shown, sendRx
    PROVE  Running' /\ Shown'
  <1> USE DEF IInv
  <1> DEFINE single == Current.value = "inverted" /\ ~half
             effect == \/ Receive(Current.value) /\ lost' = (lost \/ (single /\ Latched))
                       \/ lost' = (lost \/ single)
  <1>1. /\ pc \in Scripted /\ Current.kind = "send"
        /\ UNCHANGED <<remote, stale, thread, defect, seq>>
        /\ Fail \/ (Advance /\ effect)
    BY DEF sendRx, At, sdo, locals
  <1>2. CASE Fail
    BY <1>2, FailEvidence
  <1>3. CASE Advance /\ effect
    <2>1. lost => lost'
      BY <1>3, Zenon
    <2>2. single /\ defect = "invfirst" => lost' \/ rx' = "established"
      <3>1. CASE Latched
        BY <1>3, <3>1, Zenon
      <3>2. CASE ~Latched
        <4>1. ASSUME single, defect = "invfirst", Receive(Current.value)
              PROVE  rx' = "established"
          BY <3>2, <4>1 DEF Receive
        <4> QED
          BY <1>3, <4>1, Zenon
      <3> QED
        BY <3>1, <3>2
    <2>3. ASSUME pc = "run"
          PROVE  Passed
      <3> USE <2>3 DEF Running
      <3> Current.kind = Kind(pos) /\ Current = Validation[pos]
        BY <1>3, RunAdvance
      <3>1. pc' = "run" => Asked' /\ Scoped'
        BY <1>1, <1>3, AdvanceAsked, AdvanceScoped
      <3>2. pc' = "run" => Written'
        BY <1>1, <1>3, AdvanceWritten DEF Touches
      <3>3. pc' = "run" => Sealed'
        <4>1. ~Harmless(pos)
          BY <1>1 DEF Harmless
        <4> QED
          BY <1>1, <1>3, <4>1, AdvanceSealed
      <3>4. ASSUME pc' = "run"
            PROVE  Refusing' /\ Clearing' /\ Watching'
        <4>1. pos' = pos + 1 /\ pos \in Nat \ {0} /\ pos' - 1 = pos /\ Kind(pos) = "send"
          BY <1>1, <1>3, <3>4, RunAdvance
        <4>2. ~Watched(pos)
          BY <4>1 DEF Watched
        <4>3. ~Refusal(pos') /\ ~Cleared(pos') /\ ~Watched(pos') /\ ~Silent(pos')
          BY <4>1, <4>2 DEF Refusal, Cleared, Watched, Silent
        <4>4. Sampled(pos') => Cleared(pos) /\ Current.value = "inverted"
          BY <4>1 DEF Sampled
        <4>5. Sampled(pos') => single
          BY <4>4 DEF Clearing
        <4> QED
          BY <1>1, <2>2, <4>3, <4>5, PlacesPrimed DEF Refusing, Clearing, Watching
      <3>5. \A d \in Defects : ~Refutes(d, pos)
        BY <1>1, NothingShown DEF EvidenceKinds
      <3> QED
        BY <3>1, <3>2, <3>3, <3>4, <3>5 DEF Passed
    <2> QED
      BY <1>1, <1>3, <2>1, <2>3, PassedEvidence
  <1> QED
    BY <1>1, <1>2, <1>3

-----------------------------------------------------------------------------
(* What a defective slave reports.                                         *)

\* The RX states a step may lead to, and what may become of the last request.
Reported ==
    /\ defect' = defect
    /\ \/ rx' \in {rx, "init", "unset", "config", "nonop", "established"}
       \/ rx' = "notInverted" /\ defect # "noinverse"
       \/ rx' = "srvt" /\ defect # "nosrvt"
       \/ rx' = "sct" /\ defect # "nosct"
       \/ rx' = "short" /\ defect # "noshort"
    /\ \/ UNCHANGED <<complete, outcome>>
       \/ outcome' # "idle"
       \/ complete' = 0
       \/ ~(defect = "replay" /\ complete' # 0)

\* A slave that reports so stays as it is.
LEMMA ReportedHonest ==
    ASSUME Honest, Reported
    PROVE  Honest'
  <1>1. <<defect', rx'>> \notin Hides
    BY DEF Honest, Reported, Hides
  <1>2. defect' = "replay" /\ complete' # 0 => outcome' # "idle"
    BY DEF Honest, Reported
  <1> QED
    BY <1>1, <1>2 DEF Honest, Hides, Reported, Defects

\* A frame.
LEMMA ReceiveReported ==
    ASSUME NEW f \in RxFrames,
           Receive(f) \/ UNCHANGED receiver, UNCHANGED <<defect, complete, outcome>>
    PROVE  Reported
  <1>1. CASE UNCHANGED receiver \/ Latched
    BY <1>1 DEF Receive, receiver, Reported
  <1>2. CASE Receive(f) /\ ~Latched
    <2>1. CASE f = "normal"
      BY <1>2, <2>1 DEF Receive, Reported
    <2>2. CASE f = "short"
      BY <1>2, <2>2 DEF Receive, Reported
    <2>3. CASE f = "inverted"
      BY <1>2, <2>3 DEF Receive, Reported
    <2>4. CASE f = "wrong"
      BY <1>2, <2>4 DEF Receive, Reported
    <2> QED
      BY <2>1, <2>2, <2>3, <2>4 DEF RxFrames
  <1> QED
    BY <1>1, <1>2

\* Every step reports so.
LEMMA NextReported ==
    ASSUME IInv, [Next]_vars
    PROVE  Reported
  <1>1. CASE UNCHANGED slave
    BY <1>1 DEF slave, receiver, transmitter, Reported
  <1>2. CASE RxTimeout
    BY <1>2 DEF RxTimeout, transmitter, Reported
  <1>3. CASE TxEmit \/ TxFault
    BY <1>3 DEF TxEmit, TxFault, receiver, Reported
  <1>4. CASE SlaveServes
    BY <1>4 DEF SlaveServes, receiver, Reported
  <1>5. CASE WorkerSends
    <2>1. /\ Receive("normal") \/ Receive("inverted") \/ UNCHANGED receiver
          /\ UNCHANGED <<defect, complete, outcome>>
      BY <1>5 DEF WorkerSends, transmitter
    <2> QED
      BY <2>1, ReceiveReported DEF RxFrames
  <1>6. CASE enterPreOperational \/ enterOperational \/ StartAfterReset \/ Regression
    <2>1. /\ Operate \/ Prepare \/ UNCHANGED receiver
          /\ UNCHANGED <<defect, complete, outcome>>
      BY <1>6 DEF enterPreOperational, enterOperational, StartAfterReset, Regression
    <2> QED
      BY <2>1 DEF Operate, Prepare, receiver, Reported
  <1>7. CASE ResetCommand
    <2>1. /\ Operate \/ Prepare \/ UNCHANGED receiver
          /\ defect' = defect /\ complete' = complete
          /\ \/ UNCHANGED outcome
             \/ outcome' = IF defect = "replay" /\ complete # 0 THEN "sent" ELSE "idle"
      BY <1>7 DEF ResetCommand
    <2>2. \/ UNCHANGED <<complete, outcome>> \/ outcome' # "idle"
          \/ ~(defect = "replay" /\ complete' # 0)
      BY <2>1
    <2> QED
      BY <2>1, <2>2 DEF Operate, Prepare, receiver, Reported
  <1>8. CASE sendRx
    <2>1. /\ pc \in Scripted /\ Current.kind = "send"
          /\ Receive(Current.value) \/ UNCHANGED receiver
          /\ UNCHANGED <<defect, complete, outcome>>
      BY <1>8 DEF sendRx, At, transmitter
    <2>2. Current.value \in RxFrames
      BY <2>1, Here DEF IInv, Legal
    <2> QED
      BY <2>1, <2>2, ReceiveReported
  <1>9. CASE drain
    BY <1>9 DEF drain, receiver, Reported
  <1>10. CASE ResyncPhase \/ nextPair
    <2>1. /\ Refresh \/ UNCHANGED receiver
          /\ UNCHANGED <<defect, complete, outcome>>
      BY <1>10 DEF ResyncPhase, nextPair, transmitter
    <2> QED
      BY <2>1 DEF Refresh, receiver, Reported
  <1>11. CASE Unwind
    BY <1>11 DEF Unwind, slave, receiver, transmitter, Reported
  <1>12. CASE MainThread
    <2>1. CASE \/ readRemote \/ waitForRxState \/ waitForTxState \/ waitForDiagnosticState
               \/ SampleRxState \/ validateProfile \/ expectRemote \/ WatchForFault
               \/ waitForTxCompletion \/ Witness
      <3>1. UNCHANGED slave
        BY <2>1 DEF readRemote, waitForRxState, waitForTxState, waitForDiagnosticState,
           SampleRxState, validateProfile, expectRemote, WatchForFault,
           waitForTxCompletion, Witness, ReadAndCheck
      <3> QED
        BY <1>1, <3>1
    <2>2. CASE \/ writeRemote \/ requireWriteRejected \/ Spawn \/ StopThread \/ WorkerOk
               \/ SilenceHold \/ ReadSequence \/ RequestTx \/ TxResult \/ Listen
      <3>1. UNCHANGED slave
        BY <2>2 DEF writeRemote, requireWriteRejected, Spawn, StopThread, WorkerOk,
           SilenceHold, ReadSequence, RequestTx, TxResult, Listen
      <3> QED
        BY <1>1, <3>1
    <2> QED
      BY <1>6, <1>7, <1>8, <1>9, <1>10, <1>11, <1>12, <2>1, <2>2 DEF MainThread
  <1>13. CASE LateEffect \/ ObserverReads \/ UNCHANGED vars
    BY <1>1, <1>13 DEF LateEffect, ObserverReads, vars
  <1> QED
    BY <1>2, <1>3, <1>4, <1>5, <1>12, <1>13 DEF Next, ThreadSteps, Done

-----------------------------------------------------------------------------
(* The invariant behind the evidence holds.                                *)

\* The initial state.
LEMMA InitEInv == Init => EInv
  <1> SUFFICES ASSUME Init PROVE EInv
    OBVIOUS
  <1>1. pc = "open" /\ rx = "init" /\ complete = 0 /\ defect \in Defects
    BY DEF Init
  <1> QED
    BY <1>1 DEF EInv, Honest, Hides, Running, Shown, Past

\* Every step keeps it.
LEMMA NextEInv == IInv /\ EInv /\ [Next]_vars => EInv'
  <1> SUFFICES ASSUME IInv, EInv, [Next]_vars PROVE EInv'
    OBVIOUS
  <1> Honest /\ Running /\ Shown
    BY DEF EInv
  <1>1. Honest'
    BY NextReported, ReportedHonest
  <1> SUFFICES Running' /\ Shown'
    BY <1>1 DEF EInv
  <1>2. CASE RxTimeout \/ TxEmit \/ TxFault \/ ThreadSteps
    BY <1>2, TimeoutEvidence, EmitEvidence, FaultEvidence, ThreadEvidence
  <1>3. CASE SlaveServes \/ LateEffect \/ UNCHANGED vars
    BY <1>3, ServiceEvidence
  <1>4. CASE MainThread
    <2>1. CASE \/ readRemote \/ waitForTxState \/ waitForDiagnosticState \/ validateProfile
               \/ waitForTxCompletion \/ ReadSequence
      BY <2>1, PlainReadEvidence
    <2>2. CASE \/ waitForRxState \/ SampleRxState \/ expectRemote \/ Witness
               \/ requireWriteRejected \/ WatchForFault \/ SilenceHold
      BY <2>2, RxEvidence, SampleEvidence, ExpectEvidence, WitnessEvidence, RejectEvidence,
         WatchEvidence, SilenceEvidence
    <2>3. CASE drain \/ WorkerOk \/ Listen \/ Regression
      BY <2>3, PlainEvidence
    <2>4. CASE \/ writeRemote \/ enterPreOperational \/ enterOperational \/ ResetCommand
               \/ StartAfterReset \/ sendRx
      BY <2>4, WriteEvidence, PreOperationalEvidence, OperationalEvidence, ResetEvidence,
         StartEvidence, SendEvidence
    <2>5. CASE \/ RequestTx \/ TxResult \/ ResyncPhase \/ nextPair \/ Spawn \/ StopThread
               \/ Unwind
      BY <2>5, RequestEvidence, ResultEvidence, ResyncEvidence, PairEvidence, SpawnEvidence,
         StopEvidence, UnwindEvidence
    <2> QED
      BY <1>4, <2>1, <2>2, <2>3, <2>4, <2>5 DEF MainThread
  <1> QED
    BY <1>2, <1>3, <1>4 DEF Next, Done

\* In every reachable state the operations that were passed have shown what
\* they refute.
LEMMA EvidenceInvariant == Spec => []EInv
  BY InitEInv, NextEInv, SrdoInvariant, PTL DEF Spec

-----------------------------------------------------------------------------
(* Every defect is refuted by an operation of the validation.              *)

\* The script t is the part of the validation after its m-th operation.
Occurs(m, t) ==
    /\ m \in Nat /\ t \in Seq(Ops)
    /\ \A k \in 1..Len(t) : m + k \in 1..Len(Validation) /\ Validation[m + k] = t[k]

\* Of two scripts that follow one another, each occurs.
LEMMA OccursSplit ==
    ASSUME NEW m, NEW s, NEW t, Sound(s), Sound(t), Occurs(m, s \o t)
    PROVE  Occurs(m, s) /\ Occurs(m + Len(s), t)
  <1>1. s \in Seq(Ops) /\ t \in Seq(Ops) /\ Len(s) \in Nat /\ Len(t) \in Nat /\ m \in Nat
    BY DEF Sound, Occurs
  <1> DEFINE u == s \o t
  <1>2. /\ Len(u) = Len(s) + Len(t)
        /\ \A i \in 1..(Len(s) + Len(t)) :
             u[i] = IF i <= Len(s) THEN s[i] ELSE t[i - Len(s)]
    BY <1>1, ConcatProperties
  <1>3. \A k \in 1..Len(u) : m + k \in 1..Len(Validation) /\ Validation[m + k] = u[k]
    BY DEF Occurs
  <1> HIDE DEF u
  <1>4. Occurs(m, s)
    <2>1. \A k \in 1..Len(s) : k \in 1..Len(u) /\ k \in 1..(Len(s) + Len(t)) /\ k <= Len(s)
      BY <1>1, <1>2
    <2>2. \A k \in 1..Len(s) : m + k \in 1..Len(Validation) /\ Validation[m + k] = s[k]
      BY <1>2, <1>3, <2>1
    <2> QED
      BY <1>1, <2>2 DEF Occurs
  <1>5. Occurs(m + Len(s), t)
    <2>1. ASSUME NEW k \in 1..Len(t)
          PROVE  /\ (m + Len(s)) + k \in 1..Len(Validation)
                 /\ Validation[(m + Len(s)) + k] = t[k]
      <3>1. /\ Len(s) + k \in 1..Len(u) /\ Len(s) + k \in 1..(Len(s) + Len(t))
            /\ ~(Len(s) + k <= Len(s)) /\ (Len(s) + k) - Len(s) = k
            /\ m + (Len(s) + k) = (m + Len(s)) + k
        BY <1>1, <1>2
      <3>2. u[Len(s) + k] = t[k]
        BY <1>2, <3>1
      <3> QED
        BY <1>3, <3>1, <3>2
    <2> QED
      BY <1>1, <2>1 DEF Occurs
  <1> QED
    BY <1>4, <1>5

\* A value written by an operation of a script, and not touched after it.
LEMMA HoldsAt ==
    ASSUME NEW m, NEW t, Occurs(m, t), NEW j \in 1..Len(t), NEW n \in j..Len(t),
           t[j].kind = "write",
           \A q \in (j + 1)..n : ~Touches(t[q], t[j].object)
    PROVE  Holds((m + n) + 1, t[j].object, t[j].value)
  <1>1. m \in Nat /\ Len(t) \in Nat /\ j \in Nat /\ n \in Nat
    BY DEF Occurs
  <1>2. m + j \in 1..(((m + n) + 1) - 1) /\ Validation[m + j] = t[j]
    BY <1>1 DEF Occurs
  <1>3. ASSUME NEW k \in ((m + j) + 1)..(((m + n) + 1) - 1)
        PROVE  ~Touches(Validation[k], t[j].object)
    <2>1. k - m \in (j + 1)..n /\ k - m \in 1..Len(t) /\ m + (k - m) = k
      <3> DEFINE L == Len(t)
      <3>1. L \in Nat /\ j \in 1..L /\ n \in j..L
        BY <1>1
      <3> HIDE DEF L
      <3>2. k - m \in (j + 1)..n /\ k - m \in 1..L /\ m + (k - m) = k
        BY <1>1, <3>1
      <3> QED
        BY <3>2 DEF L
    <2>2. Validation[k] = t[k - m]
      BY <2>1 DEF Occurs
    <2> QED
      BY <2>1, <2>2
  <1> QED
    BY <1>2, <1>3 DEF Holds, Kind

\* A value held before a script and not touched by its first n operations.
LEMMA HoldsThrough ==
    ASSUME NEW m, NEW t, Occurs(m, t), NEW n \in 0..Len(t), NEW o, NEW v,
           Holds(m + 1, o, v), \A q \in 1..n : ~Touches(t[q], o)
    PROVE  Holds((m + n) + 1, o, v)
  <1>1. m \in Nat /\ Len(t) \in Nat /\ n \in Nat
    BY DEF Occurs
  <1>2. PICK j \in 1..((m + 1) - 1) :
          /\ Kind(j) = "write" /\ Validation[j].object = o /\ Validation[j].value = v
          /\ \A k \in (j + 1)..((m + 1) - 1) : ~Touches(Validation[k], o)
    BY DEF Holds
  <1>3. j \in 1..(((m + n) + 1) - 1)
    BY <1>1
  <1>4. ASSUME NEW k \in (j + 1)..(((m + n) + 1) - 1)
        PROVE  ~Touches(Validation[k], o)
    <2>1. CASE k <= m
      <3>1. k \in (j + 1)..((m + 1) - 1)
        BY <1>1, <2>1
      <3> QED
        BY <1>2, <3>1
    <2>2. CASE ~(k <= m)
      <3>1. k - m \in 1..n /\ k - m \in 1..Len(t) /\ m + (k - m) = k
        BY <1>1, <2>2
      <3>2. Validation[k] = t[k - m]
        BY <3>1 DEF Occurs
      <3> QED
        BY <3>1, <3>2
    <2> QED
      BY <2>1, <2>2
  <1> QED
    BY <1>2, <1>3, <1>4 DEF Holds

\* The operations of a script of tuples.
LEMMA PlainKnown ==
    /\ \A k \in Kinds : Do(k).kind = k /\ Do(k).held = "none"
    /\ \A k, v : Wait(k, v).kind = k /\ Wait(k, v).value = v /\ Wait(k, v).held = "none"
    /\ \A o, v : /\ Write(o, v).kind = "write" /\ Write(o, v).object = o
                 /\ Write(o, v).value = v
    /\ \A o, v : Expect(o, v).kind = "expect" /\ Expect(o, v).object = o
    /\ \A o : Reject(o).kind = "reject" /\ Reject(o).object = o
    /\ \A f : Send(f).kind = "send" /\ Send(f).value = f /\ Send(f).held = "none"
  BY DEF Do, Wait, Write, Expect, Reject, Send, Op

\* The clean configuration: after its writes every parameter has the baseline
\* and 0x13FE is valid, which the reset and the start leave so.
LEMMA CleanOccurs ==
    ASSUME NEW m, Occurs(m, prepareCleanOperational)
    PROVE  /\ m \in Nat /\ BaseOutside(m + 13, {}) /\ Valid(m + 13)
           /\ Kind(m + 11) = "reset" /\ Kind(m + 12) = "startIf"
           /\ Validation[m + 12].held = "none"
  <1> DEFINE t == prepareCleanOperational
  <1>1. m \in Nat /\ Len(t) = 12
    BY CleanPlain DEF Occurs
  <1>2. /\ t[2] = Write(Direction, 0) /\ t[3] = Write(MapCount, 0) /\ t[4] = Write(Map, Base)
        /\ t[5] = Write(MapCount, Base) /\ t[6] = Write(Timing, Base) /\ t[7] = Write(Ids, Base)
        /\ t[8] = Write(Direction, Base) /\ t[9] = Write(Checksum, Base)
        /\ t[10] = Write(Magic, Base) /\ t[11] = Do("reset") /\ t[12] = Do("startIf")
    <2> DEFINE b == writeSrdo1Baseline
    <2>1. /\ b[1] = Write(Direction, 0) /\ b[2] = Write(MapCount, 0) /\ b[3] = Write(Map, Base)
          /\ b[4] = Write(MapCount, Base) /\ b[5] = Write(Timing, Base)
          /\ b[6] = Write(Ids, Base) /\ b[7] = Write(Direction, Base)
          /\ b[8] = Write(Checksum, Base) /\ b[9] = Write(Magic, Base)
      BY DEF writeSrdo1Baseline
    <2>2. \A i \in 1..9 : t[i + 1] = b[i]
      BY CleanPlain
    <2> HIDE DEF b
    <2>3. /\ t[2] = b[1] /\ t[3] = b[2] /\ t[4] = b[3] /\ t[5] = b[4] /\ t[6] = b[5]
          /\ t[7] = b[6] /\ t[8] = b[7] /\ t[9] = b[8] /\ t[10] = b[9]
      BY <2>2
    <2> QED
      BY <2>1, <2>3, CleanPlain
  <1> HIDE DEF t
  <1>3. /\ \A q \in 2..10 : t[q].kind = "write"
        /\ t[4].object = Map /\ t[5].object = MapCount /\ t[6].object = Timing
        /\ t[7].object = Ids /\ t[8].object = Direction /\ t[9].object = Checksum
        /\ t[10].object = Magic /\ \A q \in 4..10 : t[q].value = Base
        /\ t[11].kind = "reset" /\ t[12].kind = "startIf" /\ t[12].held = "none"
    <2>1. {"reset", "startIf"} \subseteq Kinds
      BY DEF Kinds, PlainKinds
    <2>2. /\ t[11].kind = "reset" /\ t[12].kind = "startIf" /\ t[12].held = "none"
      BY <1>2, <2>1, PlainKnown
    <2>3. \A q \in 2..10 : t[q].kind = "write"
      <3>1. ASSUME NEW q \in 2..10
            PROVE  \E o, v : t[q] = Write(o, v)
        <4>1. q \in {2, 3, 4, 5, 6, 7, 8, 9, 10}
          OBVIOUS
        <4> QED
          BY <1>2, <4>1
      <3> QED
        BY <3>1, PlainKnown
    <2>4. /\ t[4].object = Map /\ t[5].object = MapCount /\ t[6].object = Timing
          /\ t[7].object = Ids /\ t[8].object = Direction /\ t[9].object = Checksum
          /\ t[10].object = Magic
      BY <1>2, PlainKnown
    <2>5. \A q \in 4..10 : t[q].value = Base
      <3>1. ASSUME NEW q \in 4..10
            PROVE  \E o : t[q] = Write(o, Base)
        <4>1. q \in {4, 5, 6, 7, 8, 9, 10}
          OBVIOUS
        <4> QED
          BY <1>2, <4>1
      <3> QED
        BY <3>1, PlainKnown
    <2> QED
      BY <2>2, <2>3, <2>4, <2>5
  <1>4. /\ Map # MapCount /\ Map # Timing /\ Map # Ids /\ Map # Direction /\ Map # Checksum
        /\ Map # Magic /\ MapCount # Timing /\ MapCount # Ids /\ MapCount # Direction
        /\ MapCount # Checksum /\ MapCount # Magic /\ Timing # Ids /\ Timing # Direction
        /\ Timing # Checksum /\ Timing # Magic /\ Ids # Direction /\ Ids # Checksum
        /\ Ids # Magic /\ Direction # Checksum /\ Direction # Magic /\ Checksum # Magic
        /\ \A o \in {Map, MapCount, Timing, Ids, Direction, Checksum} : o # TxData
    BY DEF Map, MapCount, Timing, Ids, Direction, Checksum, Magic, TxData
  <1>5. ASSUME NEW n \in 10..12, NEW j \in {4, 5, 6, 7, 8, 9}
        PROVE  Holds((m + n) + 1, t[j].object, Base)
    <2>1. /\ j \in 1..Len(t) /\ n \in j..Len(t) /\ t[j].kind = "write" /\ t[j].value = Base
          /\ j \in 4..9
      BY <1>1, <1>3
    <2>2. ASSUME NEW q \in (j + 1)..n
          PROVE  ~Touches(t[q], t[j].object)
      <3>1. q \in {5, 6, 7, 8, 9, 10, 11, 12} /\ q > j
        BY <1>5, <2>1
      <3>2. q \in {11, 12} => ~Touches(t[q], t[j].object)
        BY <1>3, <1>4 DEF Touches
      <3>3. q \in {5, 6, 7, 8, 9, 10} => t[q].kind = "write" /\ t[q].object # t[j].object
        BY <1>3, <1>4, <3>1
      <3> QED
        BY <3>1, <3>2, <3>3 DEF Touches
    <2> QED
      BY <2>1, <2>2, HoldsAt DEF t
  <1>6. ASSUME NEW n \in 10..12
        PROVE  BaseOutside((m + n) + 1, {})
    <2>1. ASSUME NEW o \in Parameters
          PROVE  \E j \in {4, 5, 6, 7, 8, 9} : t[j].object = o
      BY <1>3 DEF Parameters
    <2> QED
      BY <1>5, <2>1 DEF BaseOutside
  <1>7. \A q \in 10..12 : Validation[m + q] = t[q]
    <2>1. \A q \in 1..Len(t) : Validation[m + q] = t[q]
      BY DEF Occurs, t
    <2>2. \A q \in 10..12 : q \in 1..Len(t)
      BY <1>1
    <2> QED
      BY <2>1, <2>2
  <1>8. /\ m + 10 \in Nat \ {0} /\ m + 11 \in Nat \ {0} /\ m + 12 \in Nat \ {0}
        /\ (m + 10) + 1 = m + 11 /\ (m + 11) + 1 = m + 12 /\ (m + 12) + 1 = m + 13
    BY <1>1
  <1>9. BaseOutside(m + 11, {}) /\ BaseOutside(m + 12, {}) /\ BaseOutside(m + 13, {})
    <2>1. /\ BaseOutside((m + 10) + 1, {}) /\ BaseOutside((m + 11) + 1, {})
          /\ BaseOutside((m + 12) + 1, {})
      BY <1>6
    <2> QED
      BY <1>8, <2>1
  <1>10. Kind(m + 11) = "reset" /\ Kind(m + 12) = "startIf" /\ Validation[m + 12].held = "none"
    BY <1>3, <1>7 DEF Kind
  <1>11. Valid(m + 11)
    <2>1. Kind(m + 10) = "write" /\ Validation[m + 10].object = Magic
          /\ Validation[m + 10].value = Base
      BY <1>3, <1>7 DEF Kind
    <2>2. Valid((m + 10) + 1)
      BY <1>8, <2>1, ValidWritten
    <2> QED
      BY <1>8, <2>2
  <1>12. Valid(m + 12)
    <2>1. Harmless(m + 11)
      BY <1>9, <1>10 DEF Harmless
    <2>2. Valid((m + 11) + 1)
      BY <1>8, <1>11, <2>1, ValidAfter
    <2> QED
      BY <1>8, <2>2
  <1>13. Valid(m + 13)
    <2>1. Harmless(m + 12)
      BY <1>9, <1>10 DEF Harmless
    <2>2. Valid((m + 12) + 1)
      BY <1>8, <1>12, <2>1, ValidAfter
    <2> QED
      BY <1>8, <2>2
  <1> QED
    BY <1>1, <1>9, <1>10, <1>13

\* The cases of the validation occur in it, and a TX request precedes the
\* reset and its witnesses.
LEMMA CasesOccur ==
    /\ \A c \in {F01, F02, F03, F04, F05, F06, F07, F08, F09, F10, F11} :
         \E m : Occurs(m, c)
    /\ \E m, n : /\ Occurs(m, validateTxPair) /\ Occurs(n, validateResetRebind)
                 /\ m + Len(validateTxPair) <= n
  <1> DEFINE p0 == <<Do("start")>>
             p1 == p0 \o validateRxPair
             p2 == p1 \o validateEstablishedWindow
             p3 == p2 \o validateTxPair
             p4 == p3 \o validateTxCycles
             p5 == p4 \o validateResetRebind
             p6 == p5 \o validateRegression
             p7 == p6 \o F01
             p8 == p7 \o F02
             p9 == p8 \o F03
             p10 == p9 \o F04
             p11 == p10 \o F05
             p12 == p11 \o F06
             p13 == p12 \o F07
             p14 == p13 \o F08
             p15 == p14 \o F09
             p16 == p15 \o F10
             p17 == p16 \o F11
             p18 == p17 \o F12
  <1>1. Sound(p0)
    BY PlainOps, TupleSound DEF PlainKinds
  <1>2. /\ Sound(validateRxPair) /\ Sound(validateEstablishedWindow) /\ Sound(validateTxPair)
        /\ Sound(validateTxCycles) /\ Sound(validateResetRebind) /\ Sound(validateRegression)
        /\ Sound(F01) /\ Sound(F02) /\ Sound(F03) /\ Sound(F04) /\ Sound(F05) /\ Sound(F06)
        /\ Sound(F07) /\ Sound(F08) /\ Sound(F09) /\ Sound(F10) /\ Sound(F11) /\ Sound(F12)
    BY PiecesSound, TxSound, FrameFaultsSound, ConfigurationFaultsSound, ValidationSound
  <1>3. Validation = p18
    BY DEF Validation
  <1>4. Occurs(0, Validation)
    BY ValidationSound DEF Occurs, Sound
  <1> HIDE DEF p0
  <1>5. Sound(p1) /\ Sound(p2) /\ Sound(p3) /\ Sound(p4)
    BY <1>1, <1>2, SoundConcat
  <1> HIDE DEF p1, p2, p3, p4
  <1>6. Sound(p5) /\ Sound(p6) /\ Sound(p7) /\ Sound(p8)
    BY <1>2, <1>5, SoundConcat
  <1> HIDE DEF p5, p6, p7, p8
  <1>7. Sound(p9) /\ Sound(p10) /\ Sound(p11) /\ Sound(p12)
    BY <1>2, <1>6, SoundConcat
  <1> HIDE DEF p9, p10, p11, p12
  <1>8. Sound(p13) /\ Sound(p14) /\ Sound(p15) /\ Sound(p16)
    BY <1>2, <1>7, SoundConcat
  <1> HIDE DEF p13, p14, p15, p16
  <1>9. Sound(p17)
    BY <1>2, <1>8, SoundConcat
  <1> HIDE DEF p17
  <1>10. Occurs(0, p17)
    BY <1>2, <1>3, <1>4, <1>9, OccursSplit
  <1> HIDE DEF p18
  <1>11. Occurs(0, p16) /\ Occurs(0 + Len(p16), F11)
    BY <1>2, <1>8, <1>10, OccursSplit DEF p17
  <1>12. Occurs(0, p15) /\ Occurs(0 + Len(p15), F10)
    BY <1>2, <1>8, <1>11, OccursSplit DEF p16
  <1>13. Occurs(0, p14) /\ Occurs(0 + Len(p14), F09)
    BY <1>2, <1>8, <1>12, OccursSplit DEF p15
  <1>14. Occurs(0, p13) /\ Occurs(0 + Len(p13), F08)
    BY <1>2, <1>8, <1>13, OccursSplit DEF p14
  <1>15. Occurs(0, p12) /\ Occurs(0 + Len(p12), F07)
    BY <1>2, <1>7, <1>14, OccursSplit DEF p13
  <1>16. Occurs(0, p11) /\ Occurs(0 + Len(p11), F06)
    BY <1>2, <1>7, <1>15, OccursSplit DEF p12
  <1>17. Occurs(0, p10) /\ Occurs(0 + Len(p10), F05)
    BY <1>2, <1>7, <1>16, OccursSplit DEF p11
  <1>18. Occurs(0, p9) /\ Occurs(0 + Len(p9), F04)
    BY <1>2, <1>7, <1>17, OccursSplit DEF p10
  <1>19. Occurs(0, p8) /\ Occurs(0 + Len(p8), F03)
    BY <1>2, <1>6, <1>18, OccursSplit DEF p9
  <1>20. Occurs(0, p7) /\ Occurs(0 + Len(p7), F02)
    BY <1>2, <1>6, <1>19, OccursSplit DEF p8
  <1>21. Occurs(0, p6) /\ Occurs(0 + Len(p6), F01)
    BY <1>2, <1>6, <1>20, OccursSplit DEF p7
  <1>22. Occurs(0, p5) /\ Occurs(0 + Len(p5), validateRegression)
    BY <1>2, <1>6, <1>21, OccursSplit DEF p6
  <1>23. Occurs(0, p4) /\ Occurs(0 + Len(p4), validateResetRebind)
    BY <1>2, <1>5, <1>22, OccursSplit DEF p5
  <1>24. Occurs(0, p3) /\ Occurs(0 + Len(p3), validateTxCycles)
    BY <1>2, <1>5, <1>23, OccursSplit DEF p4
  <1>25. Occurs(0, p2) /\ Occurs(0 + Len(p2), validateTxPair)
    BY <1>2, <1>5, <1>24, OccursSplit DEF p3
  <1>26. Len(p2) + Len(validateTxPair) <= Len(p4) /\ Len(p2) \in Nat /\ Len(p4) \in Nat
    <2>1. /\ p2 \in Seq(Ops) /\ p3 \in Seq(Ops) /\ validateTxPair \in Seq(Ops)
          /\ validateTxCycles \in Seq(Ops)
      BY <1>2, <1>5 DEF Sound
    <2>2. Len(p3) = Len(p2) + Len(validateTxPair) /\ Len(p4) = Len(p3) + Len(validateTxCycles)
      BY <2>1, ConcatProperties DEF p3, p4
    <2>3. /\ Len(p2) \in Nat /\ Len(validateTxPair) \in Nat /\ Len(validateTxCycles) \in Nat
      BY <2>1
    <2> QED
      BY <2>2, <2>3
  <1>27. \E m, n : /\ Occurs(m, validateTxPair) /\ Occurs(n, validateResetRebind)
                   /\ m + Len(validateTxPair) <= n
    <2>1. 0 + Len(p2) = Len(p2) /\ 0 + Len(p4) = Len(p4)
      BY <1>26
    <2> QED
      BY <1>25, <1>23, <1>26, <2>1
  <1> QED
    BY <1>11, <1>12, <1>13, <1>14, <1>15, <1>16, <1>17, <1>18, <1>19, <1>20, <1>21, <1>27

\* The operations of a scope.
LEMMA ScopeOps ==
    ASSUME NEW role \in Roles, NEW ops \in Seq(Plain)
    PROVE  /\ Len(Scope(role, ops)) = Len(ops) + 2 /\ Len(ops) \in Nat
           /\ Scope(role, ops)[1].kind = "spawn"
           /\ \A q \in 1..Len(ops) :
                /\ Scope(role, ops)[q + 1].kind = ops[q].kind
                /\ Scope(role, ops)[q + 1].held = role
  <1> DEFINE n == Len(ops)
             one == <<Op("spawn", Diagnostic, role)>>
             b == [i \in 1..(n + 1) |->
                     [(IF i <= n THEN ops[i] ELSE Do("join")) EXCEPT !.held = role]]
             s == one \o b
  <1>1. n \in Nat /\ \A i \in 1..n : ops[i] \in Plain
    OBVIOUS
  <1>2. s = Scope(role, ops)
    BY DEF Scope
  <1>3. Len(one) = 1 /\ one[1].kind = "spawn" /\ one \in [1..1 -> {one[1]}]
    BY DEF Op
  <1> HIDE DEF n, one
  <1>4. ASSUME NEW i \in 1..n
        PROVE  b[i].kind = ops[i].kind /\ b[i].held = role
    <2>1. i \in 1..(n + 1) /\ i <= n
      BY <1>1
    <2>2. b[i] = [ops[i] EXCEPT !.held = role]
      BY <2>1
    <2> HIDE DEF b
    <2>3. ops[i] \in Ops
      BY <1>1 DEF Plain
    <2> QED
      BY <2>2, <2>3 DEF Ops
  <1>5. b = [i \in 1..(n + 1) |-> b[i]]
    OBVIOUS
  <1> HIDE DEF b
  <1>6. /\ Len(s) = 1 + (n + 1)
        /\ \A i \in 1..(1 + (n + 1)) : s[i] = IF i <= 1 THEN one[i] ELSE b[i - 1]
    <2> DEFINE S == {b[i] : i \in 1..(n + 1)} \cup {one[1]}
    <2>1. \A i \in 1..(n + 1) : b[i] \in S
      OBVIOUS
    <2>2. one[1] \in S
      OBVIOUS
    <2> HIDE DEF S
    <2>3. b \in [1..(n + 1) -> S] /\ one \in [1..1 -> S] /\ n + 1 \in Nat
      BY <1>1, <1>3, <1>5, <2>1, <2>2
    <2>4. b \in Seq(S) /\ Len(b) = n + 1 /\ one \in Seq(S) /\ Len(one) = 1
      BY <2>3, FunctionSeq
    <2>5. /\ Len(s) = Len(one) + Len(b)
          /\ \A i \in 1..(Len(one) + Len(b)) :
               s[i] = IF i <= Len(one) THEN one[i] ELSE b[i - Len(one)]
      BY <2>4, ConcatProperties
    <2> HIDE DEF s
    <2> QED
      BY <2>4, <2>5
  <1> HIDE DEF s
  <1>7. s[1] = one[1] /\ Len(s) = n + 2
    BY <1>1, <1>6
  <1>8. ASSUME NEW q \in 1..n
        PROVE  s[q + 1] = b[q]
    <2>1. q + 1 \in 1..(1 + (n + 1)) /\ ~(q + 1 <= 1) /\ (q + 1) - 1 = q
      BY <1>1
    <2> QED
      BY <1>6, <2>1
  <1> QED
    BY <1>1, <1>2, <1>3, <1>4, <1>7, <1>8 DEF n

\* An operation of a script that occurs is one of the validation.
LEMMA OccursAt ==
    ASSUME NEW m, NEW t, Occurs(m, t), NEW q \in 1..Len(t)
    PROVE  /\ m \in Nat /\ m + q \in 1..Len(Validation) /\ m + q \in Nat \ {0}
           /\ Validation[m + q] = t[q] /\ Kind(m + q) = t[q].kind
  <1>1. m \in Nat /\ m + q \in 1..Len(Validation) /\ Validation[m + q] = t[q]
    BY DEF Occurs
  <1> QED
    BY <1>1 DEF Kind

\* F01 to F04 wait for the state a defective slave never reports.
LEMMA FramesRefute ==
    \A d \in {"noinverse", "nosrvt", "nosct", "noshort"} :
        \E i \in 1..Len(Validation) : Refutes(d, i)
  <1>1. /\ \A v \in {"notInverted", "srvt", "sct", "short", "established"} :
             Wait("rx", v) \in Plain
        /\ \A f \in {"normal", "short"} : Send(f) \in Plain
    BY PlainOps DEF PlainKinds, Values, RxFrames
  <1>2. ASSUME NEW m, NEW t, Occurs(m, t), NEW q \in 1..Len(t), NEW v, NEW d,
               t[q] = Wait("rx", v), <<d, v>> \in Hides
        PROVE  \E i \in 1..Len(Validation) : Refutes(d, i)
    <2>1. /\ m + q \in 1..Len(Validation) /\ Validation[m + q] = Wait("rx", v)
      BY <1>2, OccursAt
    <2>2. Kind(m + q) = "rx" /\ Validation[m + q].value = v
      BY <2>1, PlainKnown DEF Kind
    <2> QED
      BY <1>2, <2>1, <2>2 DEF Refutes
  <1>3. /\ <<"noinverse", "notInverted">> \in Hides /\ <<"nosrvt", "srvt">> \in Hides
        /\ <<"nosct", "sct">> \in Hides /\ <<"noshort", "short">> \in Hides
    BY DEF Hides
  <1>4. \E i \in 1..Len(Validation) : Refutes("noinverse", i)
    <2> DEFINE s == prepareCleanOperational \o sendPair("wrong")
               t == <<Wait("rx", "notInverted")>>
    <2>1. Sound(s) /\ Sound(t) /\ F01 = s \o t
      BY <1>1, PiecesSound, SoundConcat, TupleSound DEF F01
    <2>2. 1 \in 1..Len(t) /\ t[1] = Wait("rx", "notInverted")
      OBVIOUS
    <2> HIDE DEF s, t
    <2>3. \E m : Occurs(m, t)
      BY <2>1, CasesOccur, OccursSplit
    <2> QED
      BY <1>2, <1>3, <2>2, <2>3
  <1>5. \E i \in 1..Len(Validation) : Refutes("nosrvt", i)
    <2> DEFINE t == <<Send("normal"), Wait("rx", "srvt")>>
    <2>1. Sound(prepareCleanOperational) /\ Sound(t) /\ F02 = prepareCleanOperational \o t
      BY <1>1, PiecesSound, TupleSound DEF F02
    <2>2. 2 \in 1..Len(t) /\ t[2] = Wait("rx", "srvt")
      OBVIOUS
    <2> HIDE DEF t
    <2>3. \E m : Occurs(m, t)
      BY <2>1, CasesOccur, OccursSplit
    <2> QED
      BY <1>2, <1>3, <2>2, <2>3
  <1>6. \E i \in 1..Len(Validation) : Refutes("nosct", i)
    <2> DEFINE s == prepareCleanOperational \o sendPair("inverted")
               t == <<Wait("rx", "established"), Wait("rx", "sct")>>
    <2>1. Sound(s) /\ Sound(t) /\ F03 = s \o t
      BY <1>1, PiecesSound, SoundConcat, TupleSound DEF F03
    <2>2. 2 \in 1..Len(t) /\ t[2] = Wait("rx", "sct")
      OBVIOUS
    <2> HIDE DEF s, t
    <2>3. \E m : Occurs(m, t)
      BY <2>1, CasesOccur, OccursSplit
    <2> QED
      BY <1>2, <1>3, <2>2, <2>3
  <1>7. \E i \in 1..Len(Validation) : Refutes("noshort", i)
    <2> DEFINE t == <<Send("short"), Wait("rx", "short")>>
    <2>1. Sound(prepareCleanOperational) /\ Sound(t) /\ F04 = prepareCleanOperational \o t
      BY <1>1, PiecesSound, TupleSound DEF F04
    <2>2. 2 \in 1..Len(t) /\ t[2] = Wait("rx", "short")
      OBVIOUS
    <2> HIDE DEF t
    <2>3. \E m : Occurs(m, t)
      BY <2>1, CasesOccur, OccursSplit
    <2> QED
      BY <1>2, <1>3, <2>2, <2>3
  <1> QED
    BY <1>4, <1>5, <1>6, <1>7

\* A script that begins with the clean configuration.
LEMMA CleanThen ==
    ASSUME NEW t, Sound(t), \E m : Occurs(m, prepareCleanOperational \o t)
    PROVE  \E n : /\ Occurs(n, t) /\ n \in Nat /\ n >= 12 /\ BaseOutside(n + 1, {})
                  /\ Valid(n + 1) /\ Kind(n - 1) = "reset" /\ Kind(n) = "startIf"
                  /\ Validation[n].held = "none"
  <1>1. PICK m : Occurs(m, prepareCleanOperational \o t)
    OBVIOUS
  <1>2. /\ Occurs(m, prepareCleanOperational)
        /\ Occurs(m + Len(prepareCleanOperational), t)
    BY <1>1, PiecesSound, OccursSplit
  <1>3. Len(prepareCleanOperational) = 12
    BY CleanPlain
  <1>4. /\ m \in Nat /\ BaseOutside(m + 13, {}) /\ Valid(m + 13)
        /\ Kind(m + 11) = "reset" /\ Kind(m + 12) = "startIf"
        /\ Validation[m + 12].held = "none"
    BY <1>2, CleanOccurs
  <1> DEFINE n == m + 12
  <1>5. n \in Nat /\ n >= 12 /\ n + 1 = m + 13 /\ n - 1 = m + 11
    BY <1>4
  <1>6. Occurs(n, t)
    BY <1>2, <1>3
  <1> HIDE DEF n
  <1> QED
    BY <1>4, <1>5, <1>6 DEF n

\* F05: the inverted frame comes first after a reset.
LEMMA FirstFrameRefutes ==
    \E i \in 1..Len(Validation) : Refutes("invfirst", i)
  <1> DEFINE t == <<Send("inverted"), Do("sample"), Wait("rx", "sct")>>
             r == <<Send("normal"), Send("normal"), Wait("rx", "srvt")>>
             s == prepareCleanOperational \o t
  <1>1. Sound(t) /\ Sound(r)
    <2>1. /\ Wait("rx", "sct") \in Plain /\ Wait("rx", "srvt") \in Plain /\ Do("sample") \in Plain
          /\ Send("inverted") \in Plain /\ Send("normal") \in Plain
      BY PlainOps DEF PlainKinds, Values, RxFrames
    <2> QED
      BY <2>1, TupleSound
  <1>2. {1, 2} \subseteq 1..Len(t) /\ t[1] = Send("inverted") /\ t[2] = Do("sample")
    OBVIOUS
  <1>3. F05 = (s \o prepareCleanOperational) \o r
    BY DEF F05
  <1> HIDE DEF t, r
  <1>4. \E m : Occurs(m, s)
    <2>1. Sound(s) /\ Sound(s \o prepareCleanOperational)
      BY <1>1, PiecesSound, SoundConcat
    <2>2. \E m : Occurs(m, s \o prepareCleanOperational)
      BY <1>1, <1>3, <2>1, CasesOccur, OccursSplit
    <2> QED
      BY <2>1, <2>2, PiecesSound, OccursSplit
  <1>5. PICK n : /\ Occurs(n, t) /\ n \in Nat /\ n >= 12
                 /\ Kind(n - 1) = "reset" /\ Kind(n) = "startIf"
    BY <1>1, <1>4, CleanThen
  <1>6. /\ n + 2 \in 1..Len(Validation)
        /\ Validation[n + 1] = Send("inverted") /\ Validation[n + 2] = Do("sample")
    BY <1>2, <1>5, OccursAt
  <1>7. /\ Kind(n + 1) = "send" /\ Validation[n + 1].value = "inverted"
        /\ Validation[n + 1].held = "none"
        /\ Kind(n + 2) = "sample" /\ Validation[n + 2].held = "none"
    BY <1>6, PlainKnown DEF Kind, Kinds, PlainKinds
  <1>8. /\ (n + 2) - 1 = n + 1 /\ (n + 1) - 1 = n /\ (n + 1) - 2 = n - 1
        /\ n + 2 > 1 /\ n + 1 > 2 /\ n + 1 > 1
    BY <1>5
  <1>9. Cleared(n + 1)
    BY <1>5, <1>7, <1>8 DEF Cleared
  <1>10. Sampled(n + 2)
    BY <1>7, <1>8, <1>9 DEF Sampled
  <1> QED
    BY <1>6, <1>10 DEF Refutes

\* F07: a parameter is written, and 0x13FE must be invalid.
LEMMA KeptMagicRefutes ==
    \E i \in 1..Len(Validation) : Refutes("keepsmagic", i)
  <1> DEFINE t == <<Do("preop"), Write(Timing, Other), Expect(Magic, 0)>>
             r == Repaired(Timing)
  <1>1. Sound(t) /\ Sound(r)
    <2>1. /\ \A o \in Objects \ {TxRequest}, v \in {0, Base, Other} :
               Write(o, v) \in Plain /\ Expect(o, v) \in Plain
      BY PlainOps, ScriptArguments
    <2>2. Do("preop") \in Plain /\ Do("start") \in Plain
      BY PlainOps DEF PlainKinds
    <2> QED
      BY <2>1, <2>2, ScriptArguments, TupleSound DEF Repaired
  <1>2. /\ {1, 2, 3} \subseteq 1..Len(t) /\ t[1] = Do("preop") /\ t[2] = Write(Timing, Other)
        /\ t[3] = Expect(Magic, 0)
    OBVIOUS
  <1>3. F07 = (prepareCleanOperational \o t) \o r
    BY DEF F07
  <1> HIDE DEF t, r
  <1>4. \E m : Occurs(m, prepareCleanOperational \o t)
    BY <1>1, <1>3, PiecesSound, SoundConcat, CasesOccur, OccursSplit
  <1>5. PICK n : Occurs(n, t) /\ n \in Nat /\ Valid(n + 1)
    BY <1>1, <1>4, CleanThen
  <1>6. /\ n + 3 \in 1..Len(Validation)
        /\ Validation[n + 1] = Do("preop") /\ Validation[n + 2] = Write(Timing, Other)
        /\ Validation[n + 3] = Expect(Magic, 0)
    BY <1>2, <1>5, OccursAt
  <1>7. /\ Kind(n + 1) = "preop" /\ Kind(n + 2) = "write" /\ Validation[n + 2].object = Timing
        /\ Kind(n + 3) = "expect" /\ Validation[n + 3].object = Magic
    BY <1>6, PlainKnown DEF Kind, Kinds, PlainKinds
  <1>8. Harmless(n + 1) /\ Harmless(n + 2)
    BY <1>7 DEF Harmless, Parameters
  <1>9. Valid(n + 3)
    <2>1. /\ n + 1 \in Nat \ {0} /\ n + 2 \in Nat \ {0} /\ (n + 1) + 1 = n + 2
          /\ (n + 2) + 1 = n + 3
      BY <1>5
    <2>2. Valid((n + 1) + 1)
      BY <1>5, <1>8, <2>1, ValidAfter
    <2>3. Valid((n + 2) + 1)
      BY <1>8, <2>1, <2>2, ValidAfter
    <2> QED
      BY <2>1, <2>3
  <1>10. Kept(n + 3)
    BY <1>7, <1>9 DEF Kept, RequestKinds
  <1> QED
    BY <1>6, <1>7, <1>10 DEF Refutes

\* A configuration that must be refused: written over the baseline, made
\* valid, and then sent to Operational.
LEMMA RefusedOccurs ==
    ASSUME NEW w, Sound(w), \E m : Occurs(m, Refused(w))
    PROVE  \E n : LET e == (n + Len(w)) + 3
                  IN  /\ Occurs(n, w) /\ n \in Nat /\ BaseOutside(n + 1, {})
                      /\ e \in 1..Len(Validation) /\ Kind(e) = "rx"
                      /\ Refusal(e) /\ Validation[e].value = "config"
                      /\ \A o \in Parameters :
                           \A v : Holds((n + Len(w)) + 1, o, v) => Holds(e, o, v)
  <1> DEFINE a == <<Do("preop")>>
             t == <<Write(Magic, Base), Do("start"), Wait("rx", "config")>>
             aw == prepareCleanOperational \o a
  <1>1. Sound(a) /\ Sound(t)
    <2>1. /\ Do("preop") \in Plain /\ Do("start") \in Plain /\ Wait("rx", "config") \in Plain
      BY PlainOps DEF PlainKinds, Values
    <2>2. Write(Magic, Base) \in Plain
      BY PlainOps, ScriptArguments
    <2> QED
      BY <2>1, <2>2, TupleSound
  <1>2. /\ Len(a) = 1 /\ a[1] = Do("preop") /\ Len(t) = 3
        /\ t[1] = Write(Magic, Base) /\ t[2] = Do("start") /\ t[3] = Wait("rx", "config")
    OBVIOUS
  <1>3. Refused(w) = (aw \o w) \o t
    BY DEF Refused
  <1> HIDE DEF a, t
  <1>4. PICK m : /\ Occurs(m, aw) /\ Occurs(m + Len(aw), w)
                 /\ Occurs(m + Len(aw \o w), t)
    <2>1. Sound(aw) /\ Sound(aw \o w)
      BY <1>1, PiecesSound, SoundConcat
    <2>2. PICK m : Occurs(m, (aw \o w) \o t)
      BY <1>3
    <2>3. Occurs(m, aw \o w) /\ Occurs(m + Len(aw \o w), t)
      BY <1>1, <2>1, <2>2, OccursSplit
    <2>4. Occurs(m, aw) /\ Occurs(m + Len(aw), w)
      BY <2>1, <2>3, OccursSplit
    <2> QED
      BY <2>3, <2>4
  <1>5. /\ Len(prepareCleanOperational) = 12 /\ Len(aw) = 13 /\ Len(w) \in Nat
        /\ Len(aw \o w) = 13 + Len(w)
    <2>1. /\ prepareCleanOperational \in Seq(Ops) /\ a \in Seq(Ops) /\ w \in Seq(Ops)
      BY <1>1, PiecesSound DEF Sound
    <2>2. Len(prepareCleanOperational) = 12
      BY CleanPlain
    <2>3. Len(aw) = 13 /\ aw \in Seq(Ops)
      <3>1. aw \in Seq(Ops) /\ Len(aw) = Len(prepareCleanOperational) + Len(a)
        BY <2>1, ConcatProperties
      <3> HIDE DEF aw
      <3> QED
        BY <1>2, <2>2, <3>1
    <2> HIDE DEF aw
    <2>4. Len(aw \o w) = 13 + Len(w)
      <3>1. Len(aw \o w) = Len(aw) + Len(w)
        BY <2>1, <2>3, ConcatProperties
      <3> QED
        BY <2>3, <3>1
    <2> QED
      BY <2>1, <2>2, <2>3, <2>4
  <1>6. /\ Occurs(m, prepareCleanOperational) /\ Occurs(m + 12, a)
    BY <1>1, <1>4, <1>5, PiecesSound, OccursSplit
  <1> HIDE DEF aw
  <1> DEFINE n == m + 13
             l == n + Len(w)
             e == l + 3
  <1>7. /\ m \in Nat /\ n \in Nat /\ l \in Nat /\ n = m + Len(aw) /\ l = m + Len(aw \o w)
        /\ (m + 12) + 1 = m + 13 /\ ((m + 12) + 1) + 1 = n + 1 /\ m + 13 \in Nat
        /\ (m + 13) + 1 = n + 1
    <2>1. m \in Nat
      BY <1>4 DEF Occurs
    <2> DEFINE k == Len(w)
    <2>2. k \in Nat /\ Len(aw) = 13 /\ Len(aw \o w) = 13 + k
      BY <1>5
    <2> HIDE DEF k
    <2>3. /\ (m + 13) + k \in Nat /\ (m + 13) + k = m + (13 + k)
          /\ (m + 12) + 1 = m + 13 /\ ((m + 12) + 1) + 1 = (m + 13) + 1 /\ m + 13 \in Nat
      BY <2>1, <2>2
    <2> QED
      BY <2>1, <2>2, <2>3 DEF k
  <1> HIDE DEF n, l
  <1>8. Occurs(n, w) /\ Occurs(l, t)
    BY <1>4, <1>7
  <1>9. BaseOutside(n + 1, {})
    <2>1. BaseOutside(m + 13, {})
      BY <1>6, CleanOccurs
    <2>2. \A o : ~Touches(a[1], o)
      BY <1>2, PlainKnown DEF Touches, Kinds, PlainKinds
    <2>3. Validation[m + 13] = a[1] /\ m + 13 \in Nat \ {0}
      <3>1. 1 \in 1..Len(a)
        BY <1>2
      <3>2. Validation[(m + 12) + 1] = a[1]
        BY <1>6, <3>1, OccursAt
      <3> QED
        BY <1>7, <3>2
    <2>4. \A o \in Parameters \ {} : Holds((m + 13) + 1, o, Base)
      BY <2>1, <2>2, <2>3, HoldsAfter DEF BaseOutside
    <2> QED
      BY <1>7, <2>4 DEF BaseOutside
  <1>10. /\ e \in 1..Len(Validation) /\ e > 1 /\ e - 1 = l + 2
         /\ Validation[l + 1] = Write(Magic, Base) /\ Validation[l + 2] = Do("start")
         /\ Validation[e] = Wait("rx", "config")
    <2>1. {1, 2, 3} \subseteq 1..Len(t)
      BY <1>2
    <2>2. /\ l + 3 \in 1..Len(Validation) /\ Validation[l + 1] = t[1]
          /\ Validation[l + 2] = t[2] /\ Validation[l + 3] = t[3]
      BY <1>8, <2>1, OccursAt
    <2> QED
      BY <1>2, <1>7, <2>2
  <1>11. Kind(l + 2) = "start" /\ Kind(e) = "rx" /\ Validation[e].value = "config"
    BY <1>10, PlainKnown DEF Kind, Kinds, PlainKinds
  <1>12. Refusal(e)
    BY <1>10, <1>11 DEF Refusal
  <1>13. ASSUME NEW o \in Parameters, NEW v, Holds(l + 1, o, v)
         PROVE  Holds(e, o, v)
    <2>1. ASSUME NEW q \in 1..2
          PROVE  ~Touches(t[q], o)
      <3>1. q = 1 \/ q = 2
        OBVIOUS
      <3>2. Magic \notin Parameters /\ TxData \notin Parameters
        BY DEF Magic, TxData, Parameters, Direction, Timing, Ids, MapCount, Map, Checksum
      <3>3. t[1].kind = "write" /\ t[1].object = Magic /\ t[2].kind = "start"
        BY <1>2, PlainKnown DEF Kinds, PlainKinds
      <3> QED
        BY <1>13, <3>1, <3>2, <3>3 DEF Touches
    <2>2. 2 \in 0..Len(t) /\ (l + 2) + 1 = e
      BY <1>2, <1>7
    <2>3. Holds((l + 2) + 1, o, v)
      BY <1>8, <1>13, <2>1, <2>2, HoldsThrough
    <2> QED
      BY <2>2, <2>3
  <1> QED
    BY <1>7, <1>8, <1>9, <1>10, <1>11, <1>12, <1>13 DEF l

\* Such a case is a sound script.
LEMMA RefusedSound ==
    ASSUME NEW w, Sound(w)
    PROVE  Sound(Refused(w))
  <1>1. /\ Do("preop") \in Plain /\ Do("start") \in Plain /\ Wait("rx", "config") \in Plain
    BY PlainOps DEF PlainKinds, Values
  <1>2. Write(Magic, Base) \in Plain
    BY PlainOps, ScriptArguments
  <1>3. /\ Sound(<<Do("preop")>>)
        /\ Sound(<<Write(Magic, Base), Do("start"), Wait("rx", "config")>>)
    BY <1>1, <1>2, TupleSound
  <1> QED
    BY <1>3, PiecesSound, SoundConcat DEF Refused

\* F06, F08, F10: each configuration is accepted by the slave with its defect
\* only.
LEMMA ConfigurationsRefute ==
    \A d \in {"nochecksum", "noids", "nolen"} :
        \E i \in 1..Len(Validation) : Refutes(d, i)
  <1>1. /\ \A o \in Objects \ {TxRequest}, v \in {0, Base, Other} :
             Write(o, v) \in Plain /\ Expect(o, v) \in Plain
        /\ \A o \in Objects \ {TxRequest} : Reject(o) \in Plain
    BY PlainOps, ScriptArguments
  <1>2. ASSUME NEW m, NEW t, Occurs(m, t), BaseOutside(m + 1, {}), NEW o \in Parameters,
               \A q \in 1..Len(t) : ~Touches(t[q], o)
        PROVE  Holds((m + Len(t)) + 1, o, Base)
    <2>1. Holds(m + 1, o, Base) /\ Len(t) \in 0..Len(t)
      BY <1>2 DEF BaseOutside, Occurs
    <2> QED
      BY <1>2, <2>1, HoldsThrough
  <1>3. Parameters = {Direction, Timing, Ids, MapCount, Map, Checksum}
    BY DEF Parameters
  <1>4. /\ Map # MapCount /\ Map # Timing /\ Map # Ids /\ Map # Direction /\ Map # Checksum
        /\ MapCount # Timing /\ MapCount # Ids /\ MapCount # Direction
        /\ MapCount # Checksum /\ Timing # Ids /\ Timing # Direction
        /\ Timing # Checksum /\ Ids # Direction /\ Ids # Checksum /\ Direction # Checksum
    BY DEF Map, MapCount, Timing, Ids, Direction, Checksum
  <1>5. \E i \in 1..Len(Validation) : Refutes("nochecksum", i)
    <2> DEFINE w == <<Write(Checksum, Other)>>
    <2>1. Sound(w) /\ Sound(<<Expect(Magic, 0)>>)
      BY <1>1, ScriptArguments, TupleSound
    <2>2. Len(w) = 1 /\ w[1] = Write(Checksum, Other)
      OBVIOUS
    <2>3. F06 = Refused(w) \o <<Expect(Magic, 0)>>
      BY DEF F06
    <2> HIDE DEF w
    <2>4. \E m : Occurs(m, Refused(w))
      BY <2>1, <2>3, CasesOccur, OccursSplit, RefusedSound
    <2>5. PICK n : LET e == (n + Len(w)) + 3
                   IN  /\ Occurs(n, w) /\ n \in Nat /\ BaseOutside(n + 1, {})
                       /\ e \in 1..Len(Validation) /\ Kind(e) = "rx"
                       /\ Refusal(e) /\ Validation[e].value = "config"
                       /\ \A o \in Parameters : \A v :
                            Holds((n + Len(w)) + 1, o, v) => Holds(e, o, v)
      BY <2>1, <2>4, RefusedOccurs
    <2>6. ASSUME NEW o \in Parameters \ {Checksum}, NEW q \in 1..Len(w)
          PROVE  ~Touches(w[q], o)
      <3>1. w[q].kind = "write" /\ w[q].object = Checksum
        BY <2>2, PlainKnown
      <3> QED
        BY <3>1 DEF Touches
    <2>7. BaseOutside((n + Len(w)) + 3, {Checksum})
      BY <1>2, <2>5, <2>6 DEF BaseOutside
    <2> QED
      BY <2>5, <2>7 DEF Refutes, Accepted
  <1>6. \E i \in 1..Len(Validation) : Refutes("noids", i)
    <2> DEFINE w == <<Reject(Ids), Expect(Ids, Base), Write(Ids, Other), Write(Checksum, Other)>>
    <2>1. Sound(w)
      BY <1>1, ScriptArguments, TupleSound
    <2>2. /\ Len(w) = 4 /\ w[1] = Reject(Ids) /\ w[2] = Expect(Ids, Base)
          /\ w[3] = Write(Ids, Other) /\ w[4] = Write(Checksum, Other)
      OBVIOUS
    <2>3. F08 = Refused(w)
      BY DEF F08
    <2> HIDE DEF w
    <2>4. /\ w[1].kind = "reject" /\ w[2].kind = "expect"
          /\ w[3].kind = "write" /\ w[3].object = Ids /\ w[3].value = Other
          /\ w[4].kind = "write" /\ w[4].object = Checksum
      BY <2>2, PlainKnown
    <2>5. PICK n : LET e == (n + Len(w)) + 3
                   IN  /\ Occurs(n, w) /\ n \in Nat /\ BaseOutside(n + 1, {})
                       /\ e \in 1..Len(Validation) /\ Kind(e) = "rx"
                       /\ Refusal(e) /\ Validation[e].value = "config"
                       /\ \A o \in Parameters : \A v :
                            Holds((n + Len(w)) + 1, o, v) => Holds(e, o, v)
      BY <2>1, <2>3, CasesOccur, RefusedOccurs
    <2>6. ASSUME NEW o \in Parameters \ {Checksum, Ids}, NEW q \in 1..Len(w)
          PROVE  ~Touches(w[q], o)
      <3>1. q \in {1, 2, 3, 4}
        BY <2>2
      <3> QED
        BY <2>4, <3>1 DEF Touches
    <2>7. BaseOutside((n + Len(w)) + 3, {Checksum, Ids})
      BY <1>2, <2>5, <2>6 DEF BaseOutside
    <2>8. Holds((n + Len(w)) + 1, Ids, Other)
      <3>1. 3 \in 1..Len(w) /\ Len(w) \in 3..Len(w)
        BY <2>2
      <3>2. \A q \in (3 + 1)..Len(w) : q = 4
        BY <2>2
      <3>3. \A q \in (3 + 1)..Len(w) : ~Touches(w[q], w[3].object)
        BY <1>4, <2>4, <3>2 DEF Touches
      <3> QED
        BY <2>4, <2>5, <3>1, <3>3, HoldsAt
    <2>9. Holds((n + Len(w)) + 3, Ids, Other)
      BY <1>3, <2>5, <2>8
    <2> QED
      BY <2>5, <2>7, <2>9 DEF Refutes, Accepted
  <1>7. \E i \in 1..Len(Validation) : Refutes("nolen", i)
    <2> DEFINE w == <<Write(Direction, 0), Write(MapCount, 0), Write(Map, Other),
                      Write(MapCount, Base), Write(Direction, Base), Write(Checksum, Other)>>
    <2>1. Sound(w) /\ Sound(<<Expect(Magic, 0)>>)
      BY <1>1, ScriptArguments, TupleSound
    <2>2. /\ Len(w) = 6 /\ w[1] = Write(Direction, 0) /\ w[2] = Write(MapCount, 0)
          /\ w[3] = Write(Map, Other) /\ w[4] = Write(MapCount, Base)
          /\ w[5] = Write(Direction, Base) /\ w[6] = Write(Checksum, Other)
      OBVIOUS
    <2>3. F10 = Refused(w) \o <<Expect(Magic, 0)>>
      BY DEF F10
    <2> HIDE DEF w
    <2>4. /\ w[1].kind = "write" /\ w[1].object = Direction
          /\ w[2].kind = "write" /\ w[2].object = MapCount
          /\ w[3].kind = "write" /\ w[3].object = Map /\ w[3].value = Other
          /\ w[4].kind = "write" /\ w[4].object = MapCount /\ w[4].value = Base
          /\ w[5].kind = "write" /\ w[5].object = Direction /\ w[5].value = Base
          /\ w[6].kind = "write" /\ w[6].object = Checksum
      BY <2>2, PlainKnown
    <2>5. \E m : Occurs(m, Refused(w))
      BY <2>1, <2>3, CasesOccur, OccursSplit, RefusedSound
    <2>6. PICK n : LET e == (n + Len(w)) + 3
                   IN  /\ Occurs(n, w) /\ n \in Nat /\ BaseOutside(n + 1, {})
                       /\ e \in 1..Len(Validation) /\ Kind(e) = "rx"
                       /\ Refusal(e) /\ Validation[e].value = "config"
                       /\ \A o \in Parameters : \A v :
                            Holds((n + Len(w)) + 1, o, v) => Holds(e, o, v)
      BY <2>1, <2>5, RefusedOccurs
    <2>7. ASSUME NEW o \in {Timing, Ids}, NEW q \in 1..Len(w)
          PROVE  ~Touches(w[q], o)
      <3>1. q \in {1, 2, 3, 4, 5, 6}
        BY <2>2
      <3> QED
        BY <1>4, <2>4, <3>1 DEF Touches
    <2>8. ASSUME NEW j \in {3, 4, 5}
          PROVE  Holds((n + Len(w)) + 1, w[j].object, w[j].value)
      <3>1. j \in 1..Len(w) /\ Len(w) \in j..Len(w) /\ w[j].kind = "write"
        BY <2>2, <2>4
      <3>2. ASSUME NEW q \in (j + 1)..Len(w)
            PROVE  ~Touches(w[q], w[j].object)
        <4>1. q \in {4, 5, 6} /\ q > j
          BY <2>2
        <4>2. w[q].kind = "write" /\ w[q].object # w[j].object
          BY <1>4, <2>4, <2>8, <4>1
        <4> QED
          BY <4>2 DEF Touches
      <3> QED
        BY <2>6, <3>1, <3>2, HoldsAt
    <2>9. \A o \in {Timing, Ids, MapCount, Direction} : Holds((n + Len(w)) + 1, o, Base)
      <3>1. Holds((n + Len(w)) + 1, MapCount, Base) /\ Holds((n + Len(w)) + 1, Direction, Base)
        BY <2>4, <2>8
      <3>2. Holds((n + Len(w)) + 1, Timing, Base) /\ Holds((n + Len(w)) + 1, Ids, Base)
        BY <1>2, <1>3, <2>6, <2>7
      <3> QED
        BY <3>1, <3>2
    <2>10. Holds((n + Len(w)) + 1, Map, Other)
      BY <2>4, <2>8
    <2>11. BaseOutside((n + Len(w)) + 3, {Checksum, Map}) /\ Holds((n + Len(w)) + 3, Map, Other)
      BY <1>3, <2>6, <2>9, <2>10 DEF BaseOutside
    <2> QED
      BY <2>6, <2>11 DEF Refutes, Accepted
  <1> QED
    BY <1>5, <1>6, <1>7

\* F08 and F09: a value the slave must not take.
LEMMA RejectionsRefute ==
    \A d \in {"takesids", "takesmap"} : \E i \in 1..Len(Validation) : Refutes(d, i)
  <1>1. /\ \A o \in Objects \ {TxRequest}, v \in {0, Base, Other} :
             Write(o, v) \in Plain /\ Expect(o, v) \in Plain
        /\ \A o \in Objects \ {TxRequest} : Reject(o) \in Plain
    BY PlainOps, ScriptArguments
  <1>2. Do("preop") \in Plain /\ Do("start") \in Plain
    BY PlainOps DEF PlainKinds
  <1>3. \E i \in 1..Len(Validation) : Refutes("takesids", i)
    <2> DEFINE w == <<Reject(Ids), Expect(Ids, Base), Write(Ids, Other), Write(Checksum, Other)>>
    <2>1. Sound(w)
      BY <1>1, ScriptArguments, TupleSound
    <2>2. 1 \in 1..Len(w) /\ w[1] = Reject(Ids)
      OBVIOUS
    <2>3. F08 = Refused(w)
      BY DEF F08
    <2> HIDE DEF w
    <2>4. PICK n : Occurs(n, w)
      BY <2>1, <2>3, CasesOccur, RefusedOccurs
    <2>5. n + 1 \in 1..Len(Validation) /\ Validation[n + 1] = Reject(Ids)
      BY <2>2, <2>4, OccursAt
    <2>6. Kind(n + 1) = "reject" /\ Validation[n + 1].object = Ids
      BY <2>5, PlainKnown DEF Kind
    <2> QED
      BY <2>5, <2>6 DEF Refutes
  <1>4. \E i \in 1..Len(Validation) : Refutes("takesmap", i)
    <2> DEFINE t == <<Do("preop"), Write(Direction, 0), Reject(MapCount), Expect(MapCount, Base)>>
               r == Repaired(Direction)
    <2>1. Sound(t) /\ Sound(r)
      BY <1>1, <1>2, ScriptArguments, TupleSound DEF Repaired
    <2>2. 3 \in 1..Len(t) /\ t[3] = Reject(MapCount)
      OBVIOUS
    <2>3. F09 = (prepareCleanOperational \o t) \o r
      BY DEF F09
    <2> HIDE DEF t, r
    <2>4. \E m : Occurs(m, prepareCleanOperational \o t)
      BY <2>1, <2>3, PiecesSound, SoundConcat, CasesOccur, OccursSplit
    <2>5. PICK n : Occurs(n, t)
      BY <2>1, <2>4, CleanThen
    <2>6. n + 3 \in 1..Len(Validation) /\ Validation[n + 3] = Reject(MapCount)
      BY <2>2, <2>5, OccursAt
    <2>7. Kind(n + 3) = "reject" /\ Validation[n + 3].object # Ids
      BY <2>6, PlainKnown DEF Kind, MapCount, Ids
    <2> QED
      BY <2>6, <2>7 DEF Refutes
  <1> QED
    BY <1>3, <1>4

\* F11: TX data that is not inverted is watched by the observer.
LEMMA SilenceRefutes ==
    \E i \in 1..Len(Validation) : Refutes("txunchecked", i)
  <1> DEFINE t == <<Do("preop"), Do("drain"), Write(TxData, Other)>>
             ops == <<Do("start"), Do("watch"), Do("silence")>>
             s == Scope("observer", ops)
             r == <<Do("quiet")>>
  <1>1. \A k \in {"preop", "drain", "start", "watch", "silence", "quiet"} :
          Do(k) \in Plain /\ Do(k).kind = k
    BY PlainOps, PlainKnown DEF PlainKinds, Kinds
  <1>2. Sound(t) /\ Sound(r) /\ ops \in Seq(Plain) /\ "observer" \in Roles
    <2>1. Write(TxData, Other) \in Plain
      BY PlainOps, ScriptArguments
    <2> QED
      BY <1>1, <2>1, TupleSound DEF Roles
  <1>3. Sound(s)
    BY <1>2, ScopeSound
  <1>4. /\ Len(t) = 3 /\ t[3] = Write(TxData, Other)
        /\ Len(ops) = 3 /\ ops[1] = Do("start") /\ ops[2] = Do("watch") /\ ops[3] = Do("silence")
    OBVIOUS
  <1>5. F11 = ((prepareCleanOperational \o t) \o s) \o r
    BY DEF F11
  <1> HIDE DEF t, r, ops
  <1>6. /\ Len(s) = 5 /\ s[1].kind = "spawn" /\ s[2].kind = "start" /\ s[3].kind = "watch"
        /\ s[4].kind = "silence" /\ s[4].held = "observer"
    <2>1. /\ Len(s) = Len(ops) + 2 /\ s[1].kind = "spawn"
          /\ \A q \in 1..Len(ops) : s[q + 1].kind = ops[q].kind /\ s[q + 1].held = "observer"
      BY <1>2, ScopeOps
    <2> HIDE DEF s
    <2>2. /\ s[1 + 1].kind = ops[1].kind /\ s[2 + 1].kind = ops[2].kind
          /\ s[3 + 1].kind = ops[3].kind /\ s[3 + 1].held = "observer"
      BY <1>4, <2>1
    <2> QED
      BY <1>1, <1>4, <2>1, <2>2
  <1> HIDE DEF s
  <1>7. PICK m : Occurs(m, t) /\ Occurs(m + 3, s) /\ m \in Nat
    <2>1. Sound(prepareCleanOperational \o t) /\ Sound((prepareCleanOperational \o t) \o s)
      BY <1>2, <1>3, PiecesSound, SoundConcat
    <2>2. PICK a : Occurs(a, (prepareCleanOperational \o t) \o s)
      BY <1>2, <1>5, <2>1, CasesOccur, OccursSplit
    <2> DEFINE pt == prepareCleanOperational \o t
    <2>3. Occurs(a, pt) /\ Occurs(a + Len(pt), s)
      BY <1>3, <2>1, <2>2, OccursSplit
    <2>4. Occurs(a + Len(prepareCleanOperational), t) /\ a \in Nat
      <3>1. Occurs(a + Len(prepareCleanOperational), t)
        BY <1>2, <2>3, PiecesSound, OccursSplit
      <3>2. a \in Nat
        BY <2>3 DEF Occurs
      <3> QED
        BY <3>1, <3>2
    <2>5. Len(pt) = Len(prepareCleanOperational) + Len(t)
      <3>1. prepareCleanOperational \in Seq(Ops) /\ t \in Seq(Ops)
        BY <1>2, PiecesSound DEF Sound
      <3> QED
        BY <3>1, ConcatProperties
    <2> HIDE DEF pt
    <2>6. /\ a + 12 \in Nat /\ (a + 12) + 3 = a + Len(pt)
          /\ a + Len(prepareCleanOperational) = a + 12
      BY <1>4, <2>4, <2>5, CleanPlain
    <2> QED
      BY <2>3, <2>4, <2>6
  <1>8. Holds((m + 3) + 1, TxData, Other)
    <2>1. 3 \in 1..Len(t) /\ 3 \in 3..Len(t) /\ \A q \in (3 + 1)..3 : FALSE
      BY <1>4
    <2>2. t[3].kind = "write" /\ t[3].object = TxData /\ t[3].value = Other
      BY <1>4, PlainKnown
    <2> QED
      BY <1>7, <2>1, <2>2, HoldsAt
  <1> DEFINE b == m + 3
  <1>9. /\ b \in Nat /\ (b + 2) + 1 = b + 3 /\ (b + 4) - 1 = b + 3 /\ (b + 3) - 1 = b + 2
        /\ b + 4 > 1 /\ b + 3 > 1
    BY <1>7
  <1>10. Occurs(b, s) /\ Holds(b + 1, TxData, Other)
    BY <1>7, <1>8
  <1> HIDE DEF b
  <1>11. Holds(b + 3, TxData, Other)
    <2>1. ASSUME NEW q \in 1..2
          PROVE  ~Touches(s[q], TxData)
      <3>1. q = 1 \/ q = 2
        OBVIOUS
      <3> QED
        BY <1>6, <3>1 DEF Touches
    <2>2. 2 \in 0..Len(s)
      BY <1>6
    <2>3. Holds((b + 2) + 1, TxData, Other)
      BY <1>10, <2>1, <2>2, HoldsThrough
    <2> QED
      BY <1>9, <2>3
  <1>12. /\ b + 4 \in 1..Len(Validation) /\ Kind(b + 2) = "start" /\ Kind(b + 3) = "watch"
         /\ Kind(b + 4) = "silence" /\ Validation[b + 4].held = "observer"
    <2>1. 2 \in 1..Len(s) /\ 3 \in 1..Len(s) /\ 4 \in 1..Len(s)
      BY <1>6
    <2>2. \A q \in 1..Len(s) : /\ b + q \in 1..Len(Validation) /\ Validation[b + q] = s[q]
                              /\ Kind(b + q) = s[q].kind
      BY <1>10, OccursAt
    <2>3. /\ b + 4 \in 1..Len(Validation) /\ Validation[b + 4] = s[4]
          /\ Kind(b + 2) = s[2].kind /\ Kind(b + 3) = s[3].kind /\ Kind(b + 4) = s[4].kind
      BY <2>1, <2>2
    <2> QED
      BY <1>6, <2>3
  <1>13. Watched(b + 3)
    BY <1>9, <1>11, <1>12 DEF Watched
  <1>14. Silent(b + 4)
    BY <1>9, <1>12, <1>13 DEF Silent
  <1> QED
    BY <1>12, <1>14 DEF Refutes

\* Among the operations of validateTxPair() is a request.
LEMMA RequestInPair ==
    \E k \in 1..Len(validateTxPair) : validateTxPair[k].kind = "request"
  <1> DEFINE t == <<Do("sequence"), Write(TxData, Base), Do("drain")>>
             q == requestTxWithBusyRetry
             r == <<Op("listen", Diagnostic, "triggered"), NextPair("triggered"),
                    Wait("tx", "established")>>
             tq == t \o q
             u == tq \o r
  <1>1. t \in Seq(Ops) /\ q \in Seq(Ops) /\ r \in Seq(Ops) /\ Len(t) = 3 /\ Len(q) = 4 /\ Len(r) = 3
    <2>1. /\ \A k \in {"sequence", "drain"} : Do(k) \in Ops
          /\ Wait("tx", "established") \in Ops /\ NextPair("triggered") \in Ops
          /\ Op("listen", Diagnostic, "triggered") \in Ops
      BY PlainOps DEF PlainKinds, Values, Plain
    <2>2. Write(TxData, Base) \in Ops
      BY PlainOps, ScriptArguments DEF Plain
    <2>3. q \in Seq(Ops)
      BY PiecesSound DEF Sound
    <2>4. Len(q) = 4
      BY DEF requestTxWithBusyRetry
    <2> QED
      BY <2>1, <2>2, <2>3, <2>4
  <1>2. q[1].kind = "request"
    <2>1. q[1] = Do("request")
      BY DEF requestTxWithBusyRetry
    <2> HIDE DEF q
    <2> QED
      BY <2>1, PlainKnown DEF Kinds, RequestKinds
  <1>3. u = validateTxPair
    BY DEF validateTxPair, triggerTx
  <1> HIDE DEF t, q, r
  <1>4. /\ tq \in Seq(Ops) /\ Len(tq) = 7 /\ tq[4] = q[1]
    <2>1. /\ tq \in Seq(Ops) /\ Len(tq) = Len(t) + Len(q)
          /\ \A i \in 1..(Len(t) + Len(q)) : tq[i] = IF i <= Len(t) THEN t[i] ELSE q[i - Len(t)]
      BY <1>1, ConcatProperties
    <2> HIDE DEF tq
    <2>2. 4 \in 1..(Len(t) + Len(q)) /\ ~(4 <= Len(t)) /\ 4 - Len(t) = 1 /\ Len(t) + Len(q) = 7
      BY <1>1
    <2> QED
      BY <2>1, <2>2
  <1> HIDE DEF tq
  <1>5. Len(u) = 10 /\ u[4] = tq[4]
    <2>1. /\ Len(u) = Len(tq) + Len(r)
          /\ \A i \in 1..(Len(tq) + Len(r)) : u[i] = IF i <= Len(tq) THEN tq[i] ELSE r[i - Len(tq)]
      BY <1>1, <1>4, ConcatProperties
    <2> HIDE DEF u
    <2>2. 4 \in 1..(Len(tq) + Len(r)) /\ 4 <= Len(tq) /\ Len(tq) + Len(r) = 10
      BY <1>1, <1>4
    <2> QED
      BY <2>1, <2>2
  <1> HIDE DEF u
  <1>6. 4 \in 1..Len(u)
    BY <1>5
  <1> QED
    BY <1>2, <1>3, <1>4, <1>5, <1>6

\* The witnesses after the reset come after a TX request.
LEMMA WitnessRefutes ==
    \E i \in 1..Len(Validation) : Refutes("replay", i)
  <1> DEFINE a == <<Do("sequence"), Do("preop"), Do("drain")>>
             b == <<Op("listen", Diagnostic, "natural")>>
             c == [i \in 1..Pairs |-> NextPair("natural")]
             ops == <<Do("witness")>>
             s == Scope("worker", ops)
             ok == <<Do("ok")>>
  <1>1. \A k \in {"sequence", "preop", "drain", "witness", "ok"} : Do(k) \in Plain
    BY PlainOps DEF PlainKinds
  <1>2. Op("listen", Diagnostic, "natural") \in Plain
    BY PlainOps DEF PlainKinds, Values
  <1>3. Sound(a) /\ Sound(b) /\ Sound(c) /\ Sound(s) /\ Sound(ok)
    <2>1. Sound(a) /\ Sound(b) /\ Sound(ok)
      BY <1>1, <1>2, TupleSound
    <2>2. Sound(c)
      BY PiecesSound
    <2>3. Sound(s)
      BY <1>1, ScopeSound DEF Roles
    <2> QED
      BY <2>1, <2>2, <2>3
  <1>4. 2 \in 1..Len(s) /\ s[2].kind = "witness"
    <2>1. Len(ops) = 1 /\ ops[1] = Do("witness")
      OBVIOUS
    <2>5. ops \in Seq(Plain) /\ "worker" \in Roles
      BY <1>1 DEF Roles
    <2>2. Do("witness").kind = "witness"
      BY PlainKnown DEF Kinds, PlainKinds
    <2> HIDE DEF ops
    <2>3. /\ Len(s) = Len(ops) + 2
          /\ \A q \in 1..Len(ops) : s[q + 1].kind = ops[q].kind
      BY <2>5, ScopeOps
    <2> HIDE DEF s
    <2>4. s[1 + 1].kind = ops[1].kind
      BY <2>1, <2>3
    <2> QED
      BY <2>1, <2>2, <2>3, <2>4
  <1>5. witness = s \o ok
    BY DEF witness
  <1>6. validateResetRebind =
          (((((((a \o resetCommunication) \o witness) \o b) \o c) \o witness)
            \o validateRxPair) \o validateEstablishedWindow) \o validateTxPair
    BY DEF validateResetRebind
  <1> HIDE DEF a, b, c, s, ok
  <1> DEFINE d1 == (a \o resetCommunication) \o witness
             d2 == (d1 \o b) \o c
             d3 == (d2 \o witness) \o validateRxPair
             d4 == (d3 \o validateEstablishedWindow) \o validateTxPair
  <1>7. Sound(a \o resetCommunication) /\ Sound(d1)
    BY <1>3, PiecesSound, SoundConcat
  <1>8. validateResetRebind = d4
    BY <1>6
  <1> HIDE DEF d1
  <1>9. Sound(d1 \o b) /\ Sound(d2)
    BY <1>3, <1>7, SoundConcat
  <1> HIDE DEF d2
  <1>10. Sound(d2 \o witness) /\ Sound(d3)
    BY <1>9, PiecesSound, SoundConcat
  <1> HIDE DEF d3
  <1>11. Sound(d3 \o validateEstablishedWindow)
    BY <1>10, PiecesSound, SoundConcat
  <1>12. PICK m, n : /\ Occurs(m, validateTxPair) /\ Occurs(n, d4)
                     /\ m + Len(validateTxPair) <= n
    BY <1>8, CasesOccur
  <1>13. Occurs(n, d3)
    <2>1. Occurs(n, d3 \o validateEstablishedWindow)
      BY <1>11, <1>12, TxSound, OccursSplit
    <2> QED
      BY <1>10, <2>1, PiecesSound, OccursSplit
  <1>14. Occurs(n, d2)
    <2>1. Occurs(n, d2 \o witness)
      BY <1>10, <1>13, PiecesSound, OccursSplit DEF d3
    <2> QED
      BY <1>9, <2>1, PiecesSound, OccursSplit
  <1>15. Occurs(n, d1)
    <2>1. Occurs(n, d1 \o b)
      BY <1>3, <1>9, <1>14, OccursSplit DEF d2
    <2> QED
      BY <1>3, <1>7, <2>1, OccursSplit
  <1>16. PICK e \in Nat : Occurs(e, s) /\ e >= n
    <2> DEFINE ar == a \o resetCommunication
               e == n + Len(ar)
    <2>1. Occurs(e, witness)
      BY <1>7, <1>15, PiecesSound, OccursSplit DEF d1
    <2>2. Occurs(e, s)
      BY <1>3, <1>5, <2>1, OccursSplit
    <2>3. Len(ar) \in Nat /\ n \in Nat
      BY <1>7, <1>12 DEF Sound, Occurs
    <2> HIDE DEF ar
    <2>4. e \in Nat /\ e >= n
      BY <2>3
    <2> QED
      BY <2>2, <2>4
  <1>17. e + 2 \in 1..Len(Validation) /\ Kind(e + 2) = "witness"
    BY <1>4, <1>16, OccursAt
  <1>18. PICK k \in 1..Len(validateTxPair) : validateTxPair[k].kind = "request"
    BY RequestInPair
  <1>19. Kind(m + k) = "request" /\ m \in Nat /\ n \in Nat
    <2>1. m \in Nat /\ n \in Nat
      BY <1>12 DEF Occurs
    <2>2. Kind(m + k) = validateTxPair[k].kind
      BY <1>12, OccursAt
    <2> QED
      BY <1>18, <2>1, <2>2
  <1>20. m + k \in 1..((e + 2) - 1)
    <2> DEFINE L == Len(validateTxPair)
    <2>1. L \in Nat /\ k \in 1..L /\ m + L <= n
      BY <1>12, TxSound DEF Sound
    <2> HIDE DEF L
    <2> QED
      BY <1>16, <1>19, <2>1
  <1> QED
    BY <1>17, <1>19, <1>20 DEF Refutes

\* Every fault the cases look for is refuted by an operation.
LEMMA EveryDefectRefuted ==
    \A d \in Defects \ {"none"} : \E i \in 1..Len(Validation) : Refutes(d, i)
  BY FramesRefute, FirstFrameRefutes, KeptMagicRefutes, ConfigurationsRefute, RejectionsRefute,
     SilenceRefutes, WitnessRefutes DEF Defects

\* A pass of srdoProcess() was earned, for every number of retries and pairs:
\* the slave shows none of the faults F01 to F11 and the reset cases look for,
\* but for the two that a frame lost on the wire can hide.
THEOREM SrdoPassHasEvidence == Spec => []PassHasEvidence
  <1>1. ASSUME EInv, pc = "done", result = 0, defect # "none"
        PROVE  lost /\ defect \in {"invfirst", "txunchecked"}
    <2>1. defect \in Defects \ {"none"}
      BY <1>1 DEF EInv, Honest
    <2>2. PICK i \in 1..Len(Validation) : Refutes(defect, i)
      BY <2>1, EveryDefectRefuted
    <2>3. Past(i)
      BY <1>1 DEF Past
    <2> QED
      BY <1>1, <2>1, <2>2, <2>3 DEF EInv, Shown
  <1>2. EInv => PassHasEvidence
    BY <1>1 DEF PassHasEvidence
  <1> QED
    BY <1>2, EvidenceInvariant, PTL
=============================================================================
