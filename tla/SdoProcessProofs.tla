-------------------------- MODULE SdoProcessProofs --------------------------
(***************************************************************************)
(* Proofs about the SDO object-access validation, for every set of values  *)
(* and every behaviour of the SDO service, late effects included.          *)
(***************************************************************************)
EXTENDS SdoProcess, TLAPS

\* Where the process stands: what is known about the entry before the end.
Progress ==
    /\ ~gaveUp => late = <<>>
    /\ pc \in {"readOriginal", "writeTest"} => ~held /\ ~restoring /\ result = 0
    /\ pc = "writeTest" => remote[Control] = original_value
    /\ pc = "readBack" => held
    /\ (pc \in {"restoreWrite", "restoreRead"} /\ result = 0) => held
    /\ pc = "restoreRead" => restoring

Safe == PassMeansRestored /\ NoCallOnUnknownChannel /\ NeverSilentlyModified

IInv == TypeOK /\ Progress /\ Safe

\* The process starts with the invariant.
LEMMA InitIInv == Init => IInv
  <1> SUFFICES ASSUME Init PROVE IInv
    OBVIOUS
  <1>1. TypeOK
    <2>1. PICK v \in Values : Sdo!SdoInit([o \in {Control} |-> v])
      BY DEF Init
    <2>2. PICK w \in Values : reply = [class |-> "SUCCESS", value |-> w]
      BY <2>1 DEF Sdo!SdoInit
    <2>3. remote = [o \in {Control} |-> v] /\ late = <<>>
      BY <2>1 DEF Sdo!SdoInit
    <2>4. remote \in [{Control} -> Values] /\ late \in Seq({Control} \X Values)
      BY <2>3
    <2>5. reply \in [class : Sdo!Classes, value : Values]
      BY <2>2 DEF Sdo!Classes
    <2> QED
      BY <2>4, <2>5 DEF Init, TypeOK
  <1>2. Progress /\ Safe
    BY DEF Init, Progress, Safe, PassMeansRestored, NoCallOnUnknownChannel,
           NeverSilentlyModified, Sdo!SdoInit
  <1> QED
    BY <1>1, <1>2 DEF IInv

\* The test value is a value, and not the original one.
LEMMA TestValue ==
    ASSUME original_value \in Values
    PROVE  test_value \in Values /\ test_value # original_value
BY ProbeAssumption DEF test_value

\* A read leaves the entry alone and answers in one of four ways.
LEMMA ReadAnswers ==
    ASSUME TypeOK, Sdo!SdoRead(Control)
    PROVE  /\ reply' \in [class : Sdo!Classes, value : Values]
           /\ UNCHANGED <<remote, late>>
           /\ reply'.class = "SUCCESS" => late = <<>>
                                          /\ reply'.value = remote[Control]
BY DEF TypeOK, Sdo!SdoRead, Sdo!Answer, Sdo!Classes

\* A write takes effect, does not, or is left under way.
LEMMA WriteAnswers ==
    ASSUME TypeOK, NEW v \in Values, Sdo!SdoWrite(Control, v)
    PROVE  /\ reply' \in [class : Sdo!Classes, value : Values]
           /\ remote' \in [{Control} -> Values]
           /\ late' \in Seq({Control} \X Values)
           /\ remote'[Control] \in {remote[Control], v}
           /\ reply'.class = "SUCCESS" => remote'[Control] = v
           /\ reply'.class = "FAILED" => remote' = remote
           /\ reply'.class # "WAIT_TIMEOUT" => late' = late
  <1>1. /\ remote \in [{Control} -> Values]
        /\ late \in Seq({Control} \X Values)
        /\ reply.value \in Values
    BY DEF TypeOK
  <1>2. /\ Sdo!Written(Control, v) \in [{Control} -> Values]
        /\ Sdo!Written(Control, v)[Control] = v
    BY <1>1 DEF Sdo!Written
  <1>3. Append(late, <<Control, v>>) \in Seq({Control} \X Values)
    BY <1>1
  <1>4. \E class \in Sdo!Classes : reply' = [class |-> class, value |-> reply.value]
    BY DEF Sdo!SdoWrite, Sdo!Answer, Sdo!Classes
  <1>5. reply' \in [class : Sdo!Classes, value : Values]
    BY <1>1, <1>4
  <1> HIDE DEF Sdo!Written
  <1>6. /\ remote' \in {remote, Sdo!Written(Control, v)}
        /\ late' \in {late, Append(late, <<Control, v>>)}
    BY DEF Sdo!SdoWrite
  <1>7. /\ reply'.class = "SUCCESS" => remote' = Sdo!Written(Control, v)
        /\ reply'.class = "FAILED" => remote' = remote
        /\ reply'.class # "WAIT_TIMEOUT" => late' = late
    BY DEF Sdo!SdoWrite, Sdo!Answer
  <1> QED
    BY <1>1, <1>2, <1>3, <1>5, <1>6, <1>7

\* Every step of the process and every late effect keeps the invariant.
LEMMA StepIInv == IInv /\ [Next]_vars => IInv'
  <1> SUFFICES ASSUME IInv, [Next]_vars PROVE IInv'
    OBVIOUS
  <1>0. TypeOK /\ Progress /\ Safe
    BY DEF IInv
  <1> USE DEF Safe
  <1>t. test_value \in Values /\ test_value # original_value
    BY <1>0, TestValue DEF TypeOK
  <1>1. CASE ReadOriginal
    <2>1. Sdo!SdoRead(Control) /\ pc = "readOriginal"
      BY <1>1 DEF ReadOriginal
    <2>2. TypeOK'
      BY <1>0, <1>1, <2>1, ReadAnswers DEF TypeOK, ReadOriginal, Observe
    <2>3. Progress'
      BY <1>0, <1>1, <2>1, ReadAnswers
         DEF TypeOK, Progress, NoCallOnUnknownChannel, ReadOriginal, Observe
    <2>4. NoCallOnUnknownChannel'
      BY <1>0, <1>1, <2>1 DEF NoCallOnUnknownChannel, ReadOriginal, Observe
    <2>5. PassMeansRestored'
      BY <1>0, <1>1, <2>1, ReadAnswers
         DEF TypeOK, Progress, PassMeansRestored, ReadOriginal, Observe
    <2>6. NeverSilentlyModified'
      BY <1>0, <1>1, <2>1, ReadAnswers
         DEF TypeOK, Progress, NeverSilentlyModified, ReadOriginal, Observe
    <2> QED
      BY <2>2, <2>3, <2>4, <2>5, <2>6 DEF IInv
  <1>2. CASE WriteTest
    <2>1. Sdo!SdoWrite(Control, test_value) /\ pc = "writeTest"
      BY <1>2 DEF WriteTest
    <2>2. TypeOK'
      BY <1>0, <1>2, <1>t, <2>1, WriteAnswers DEF TypeOK, WriteTest, Observe
    <2>3. Progress'
      <3>1. ~gaveUp' => late' = <<>>
        BY <1>0, <1>2, <1>t, <2>1, WriteAnswers
           DEF Progress, NoCallOnUnknownChannel, WriteTest, Observe
      <3>2. pc' = "readBack" => held'
        BY <1>0, <1>2, <1>t, <2>1, WriteAnswers DEF WriteTest, Observe
      <3>3. pc' \in {"readBack", "restoreWrite", "done"}
            /\ (pc' = "restoreWrite" => result' = 1)
        BY <1>2 DEF WriteTest
      <3> QED
        BY <3>1, <3>2, <3>3 DEF Progress
    <2>4. NoCallOnUnknownChannel'
      BY <1>0, <1>2, <2>1 DEF NoCallOnUnknownChannel, WriteTest, Observe
    <2>5. PassMeansRestored'
      BY <1>0, <1>2, <1>t, <2>1, WriteAnswers
         DEF TypeOK, Progress, PassMeansRestored, WriteTest, Observe
    <2>6. NeverSilentlyModified'
      BY <1>0, <1>2, <1>t, <2>1, WriteAnswers
         DEF TypeOK, Progress, NeverSilentlyModified, WriteTest, Observe
    <2> QED
      BY <2>2, <2>3, <2>4, <2>5, <2>6 DEF IInv
  <1>3. CASE ReadBack
    <2>1. Sdo!SdoRead(Control) /\ pc = "readBack"
      BY <1>3 DEF ReadBack
    <2>2. TypeOK'
      BY <1>0, <1>3, <2>1, ReadAnswers DEF TypeOK, ReadBack, Observe
    <2>3. Progress'
      BY <1>0, <1>3, <2>1, ReadAnswers
         DEF TypeOK, Progress, NoCallOnUnknownChannel, ReadBack, Observe
    <2>4. NoCallOnUnknownChannel'
      BY <1>0, <1>3, <2>1 DEF NoCallOnUnknownChannel, ReadBack, Observe
    <2>5. PassMeansRestored'
      BY <1>0, <1>3, <2>1, ReadAnswers
         DEF TypeOK, Progress, PassMeansRestored, ReadBack, Observe
    <2>6. NeverSilentlyModified'
      BY <1>0, <1>3, <2>1, ReadAnswers
         DEF TypeOK, Progress, NeverSilentlyModified, ReadBack, Observe
    <2> QED
      BY <2>2, <2>3, <2>4, <2>5, <2>6 DEF IInv
  <1>4. CASE RestoreWrite
    <2>1. Sdo!SdoWrite(Control, original_value) /\ pc = "restoreWrite"
          /\ original_value \in Values
      BY <1>0, <1>4 DEF RestoreWrite, TypeOK
    <2>2. TypeOK'
      BY <1>0, <1>4, <2>1, WriteAnswers DEF TypeOK, RestoreWrite, Observe
    <2>3. Progress'
      BY <1>0, <1>4, <2>1, WriteAnswers
         DEF TypeOK, Progress, NoCallOnUnknownChannel, RestoreWrite, Observe
    <2>4. NoCallOnUnknownChannel'
      BY <1>0, <1>4, <2>1 DEF NoCallOnUnknownChannel, RestoreWrite, Observe
    <2>5. PassMeansRestored'
      BY <1>0, <1>4, <2>1, WriteAnswers
         DEF TypeOK, Progress, PassMeansRestored, RestoreWrite, Observe
    <2>6. NeverSilentlyModified'
      BY <1>0, <1>4, <2>1, WriteAnswers
         DEF TypeOK, Progress, NeverSilentlyModified, RestoreWrite, Observe
    <2> QED
      BY <2>2, <2>3, <2>4, <2>5, <2>6 DEF IInv
  <1>5. CASE RestoreRead
    <2>1. Sdo!SdoRead(Control) /\ pc = "restoreRead"
      BY <1>5 DEF RestoreRead
    <2>2. TypeOK'
      BY <1>0, <1>5, <2>1, ReadAnswers DEF TypeOK, RestoreRead, Observe
    <2>3. Progress'
      BY <1>0, <1>5, <2>1, ReadAnswers
         DEF TypeOK, Progress, NoCallOnUnknownChannel, RestoreRead, Observe
    <2>4. NoCallOnUnknownChannel'
      BY <1>0, <1>5, <2>1 DEF NoCallOnUnknownChannel, RestoreRead, Observe
    <2>5. PassMeansRestored'
      BY <1>0, <1>5, <2>1, ReadAnswers
         DEF TypeOK, Progress, PassMeansRestored, RestoreRead, Observe
    <2>6. NeverSilentlyModified'
      BY <1>0, <1>5, <2>1, ReadAnswers
         DEF TypeOK, Progress, NeverSilentlyModified, RestoreRead, Observe
    <2> QED
      BY <2>2, <2>3, <2>4, <2>5, <2>6 DEF IInv
  <1>6. CASE LateEffect
    <2>1. late # <<>> /\ UNCHANGED procVars /\ UNCHANGED reply
      BY <1>6 DEF LateEffect, Sdo!LateWrite, Sdo!LateLoss
    <2>2. gaveUp /\ pc = "done"
      BY <1>0, <2>1 DEF Progress, NoCallOnUnknownChannel
    <2>3. /\ Head(late)[1] \in {Control} /\ Head(late)[2] \in Values
          /\ Tail(late) \in Seq({Control} \X Values)
      BY <1>0, <2>1 DEF TypeOK
    <2>4. /\ remote' \in [{Control} -> Values]
          /\ late' \in Seq({Control} \X Values)
      BY <1>0, <1>6, <2>3
         DEF TypeOK, LateEffect, Sdo!LateWrite, Sdo!LateLoss, Sdo!Written
    <2>5. TypeOK'
      BY <1>0, <2>1, <2>4 DEF TypeOK, procVars
    <2>6. result = 1
      BY <1>0, <2>1, <2>2 DEF TypeOK, PassMeansRestored
    <2>7. Progress' /\ Safe'
      BY <1>0, <2>1, <2>2, <2>6
         DEF Progress, procVars, PassMeansRestored, NoCallOnUnknownChannel,
             NeverSilentlyModified
    <2> QED
      BY <2>5, <2>7 DEF IInv
  <1>7. CASE UNCHANGED vars
    BY <1>0, <1>7
       DEF vars, procVars, IInv, TypeOK, Progress, PassMeansRestored,
           NoCallOnUnknownChannel, NeverSilentlyModified, test_value
  <1> QED
    BY <1>1, <1>2, <1>3, <1>4, <1>5, <1>6, <1>7 DEF Next, Done

\* Type correctness of the process and of the service it uses.
THEOREM ProcessTypeOK == Spec => []TypeOK
  <1>1. IInv => TypeOK
    BY DEF IInv
  <1> QED
    BY <1>1, InitIInv, StepIInv, PTL DEF Spec

\* sdoProcess(): a pass proves that the probe was held and the original value
\* is back for good, with nothing left under way.
THEOREM PassProvesRestored == Spec => []PassMeansRestored
  <1>1. IInv => PassMeansRestored
    BY DEF IInv, Safe
  <1> QED
    BY <1>1, InitIInv, StepIInv, PTL DEF Spec

\* sdoProcess() makes no SDO call after one that was given up, the cleanup
\* calls of restoreControlValue() included.
THEOREM NoCallAfterLostOne == Spec => []NoCallOnUnknownChannel
  <1>1. IInv => NoCallOnUnknownChannel
    BY DEF IInv, Safe
  <1> QED
    BY <1>1, InitIInv, StepIInv, PTL DEF Spec

\* When sdoProcess() ends with the entry changed, the channel is unknown or a
\* restore was attempted and its failure reported.
THEOREM ChangesAreReported == Spec => []NeverSilentlyModified
  <1>1. IInv => NeverSilentlyModified
    BY DEF IInv, Safe
  <1> QED
    BY <1>1, InitIInv, StepIInv, PTL DEF Spec
=============================================================================
