---------------------------- MODULE TimedProofs ----------------------------
(***************************************************************************)
(* Proofs about the three processes of MCTimedProcesses, for every number  *)
(* of samples, retries, events, frames and for every length of a day.      *)
(***************************************************************************)
EXTENDS MCTimedProcesses, FiniteSetTheorems, TLAPS

\* The constants are numbers; a window and a retry loop have at least two.
LEMMA Constants ==
    /\ SampleCount \in Nat /\ SampleCount >= 2 /\ RetryCount \in Nat /\ RetryCount >= 2
    /\ SyncSamples \in Nat /\ SyncSamples >= 2
    /\ MaxFrames \in Nat /\ MaxEvents \in Nat /\ MaxTicks \in Nat /\ MaxPolls \in Nat
    /\ Tolerance \in Nat /\ Days \in Nat /\ Days > 17
    BY TimingAssumption

\* A queue with one element.
LEMMA OneElement ==
    ASSUME NEW S, NEW e \in S
    PROVE  /\ Append(<<>>, e) \in Seq(S) /\ Len(Append(<<>>, e)) = 1
           /\ <<e>> \in Seq(S) /\ Len(<<e>>) = 1 /\ <<>> \in Seq(S) /\ Len(<<>>) = 0
    OBVIOUS

\* Head and tail of a queue.
LEMMA HeadTail ==
    ASSUME NEW S, NEW s \in Seq(S), s # <<>>
    PROVE  /\ Head(s) = s[1] /\ Head(s) \in S /\ Tail(s) \in Seq(S)
           /\ Len(s) \in Nat /\ Len(s) > 0 /\ Len(Tail(s)) = Len(s) - 1
           /\ \A i \in 1..(Len(s) - 1) : Tail(s)[i] = s[i + 1]
    OBVIOUS

-----------------------------------------------------------------------------
(* PdoProcess: the inductive invariant.                                    *)

PdoComparing == {"mapped1", "mapped2", "stable", "sdo1", "sdo2", "compare"}
PdoEarly == {"startMaster", "startSlave", "samples", "snapshot"} \cup PdoComparing
PdoProbing == {"clear", "event", "wait", "readBack"}
PdoLast == {"lastClear", "lastEvent", "lastWait"}
PdoPlaces == PdoEarly \cup {"save"} \cup PdoProbing
                      \cup {"cleanup", "restore", "verify", "done"} \cup PdoLast

PdoKinds == {"ok", "late", "bad"}
PdoNumbers == 0..(MaxFrames + 2)

PdoTypes ==
    /\ remote \in [Pdo!Objects -> PdoNumbers]
    /\ remote[Pdo!Value1] <= MaxFrames /\ remote[Pdo!Test] \in Pdo!TestValues
    /\ late \in Seq({Pdo!Test} \X Pdo!TestValues) /\ Len(late) <= 1
    /\ op \in BOOLEAN /\ defect \in {"none", "od", "map"}
    /\ wire \in Seq([n : 1..MaxFrames, kind : PdoKinds])
    /\ mapped \in 0..MaxFrames
    /\ calling \in [n : 1..MaxFrames, kind : PdoKinds] \cup {Pdo!NoFrame}
    /\ receive_state \in [samples : Seq(PdoKinds), generation : Nat,
                          latest : 0..MaxFrames, failed : BOOLEAN]
    /\ Len(receive_state.samples) <= SampleCount
    /\ rpdo \in Seq(Pdo!TestValues)
    /\ view \in [generation : Nat, raw : Nat, mapped1 : Nat, mapped2 : Nat,
                 sdo1 : Nat]
    /\ attempt \in 0..RetryCount
    /\ original_value \in Pdo!TestValues /\ original_value_saved \in BOOLEAN
    /\ completion_wait_timed_out \in BOOLEAN
    /\ pc \in PdoPlaces /\ result \in {0, 1}
    /\ verdict \in {"none", "consistent", "mismatch"}

\* What a frame with this number puts into Lely's mapped copy, and what the
\* slave then has in its second object.
PdoMap(n) == IF defect = "map" THEN 0 ELSE n
PdoOd(n) == IF defect = "od" THEN 0 ELSE n

PdoUnderWay == Len(wire) + IF calling = Pdo!NoFrame THEN 0 ELSE 1

\* The TPDOs under way are the last ones sent, in order; while none was bad,
\* the callback has counted all the others and the mapped copy is the one of
\* the last frame that Lely took.
PdoFrames ==
    /\ receive_state.generation + PdoUnderWay <= remote[Pdo!Value1]
    /\ \A i \in 1..Len(wire) : wire[i].n = remote[Pdo!Value1] - Len(wire) + i
    /\ calling # Pdo!NoFrame => calling.n = remote[Pdo!Value1] - Len(wire)
    /\ remote[Pdo!Value2] = PdoOd(remote[Pdo!Value1])
    /\ (~receive_state.failed /\ pc # "done") =>
          /\ receive_state.latest = receive_state.generation
          /\ receive_state.generation + PdoUnderWay = remote[Pdo!Value1]
          /\ mapped = PdoMap(IF calling = Pdo!NoFrame \/ calling.kind = "bad"
                             THEN receive_state.latest ELSE calling.n)

\* No callback has run since the snapshot of this attempt.
PdoClean == ~receive_state.failed /\ receive_state.generation = view.generation

\* What a snapshot that is still clean has read so far.  A mapped value may
\* come from a frame whose callback is under way; an SDO answer waits for it,
\* and then the snapshot is not clean any more.
PdoViews ==
    /\ pc \in PdoComparing => /\ view.raw = view.generation /\ view.generation > 0
                              /\ view.generation <= receive_state.generation
    /\ (pc \in {"mapped2", "stable", "sdo1"} /\ PdoClean /\ calling = Pdo!NoFrame)
          => view.mapped1 = PdoMap(view.raw)
    /\ (pc \in {"stable", "sdo1"} /\ PdoClean /\ calling = Pdo!NoFrame)
          => view.mapped2 = PdoMap(view.raw)
    /\ (pc \in {"sdo2", "compare"} /\ PdoClean)
          => /\ view.mapped1 = PdoMap(view.raw) /\ view.mapped2 = PdoMap(view.raw)
             /\ view.sdo1 = view.raw
    /\ (pc = "compare" /\ PdoClean) => reply.value = PdoOd(view.raw)
    /\ Pdo!VerdictIsSound
    /\ (result = 0 /\ pc \notin PdoEarly) => verdict = "consistent"

\* Where 0x2200 comes from: until the restoration writes it, only RPDOs
\* change it, and after the value was saved each of them is remembered.  An
\* RPDO may leave long after its event; the process knows that the probe has
\* left once OnTpdo completed the wait for it.
PdoProbe ==
    /\ pc \in PdoEarly \cup {"save"} => ~original_value_saved
    /\ pc \in PdoProbing \cup PdoLast \cup {"restore", "verify"} => original_value_saved
    /\ late = <<>> \/ (pc \in PdoLast \cup {"done"} /\ result = 1)
    /\ pc \in PdoProbing => \/ remote[Pdo!Test] = original_value
                            \/ remote[Pdo!Test] \in applied
    /\ pc \in PdoEarly \cup {"save", "clear", "event", "readBack"} => rpdo = <<>>
    /\ pc = "event" => transmit_state = Pdo!Idle
    /\ pc = "wait" => rpdo = <<>> \/ transmit_state = Pdo!Idle
    /\ (result = 0 /\ pc \in {"cleanup", "restore", "verify"}) => rpdo = <<>>
    /\ Len(rpdo) <= IF pc \in {"lastWait", "done"} THEN 2 ELSE 1
    /\ (result = 0 /\ pc \in {"cleanup", "restore", "verify", "done"} \cup PdoLast)
          => original_value_saved /\ Pdo!ProbeValue \in applied
    /\ Pdo!PassMeansRestored

PdoInv == PdoTypes /\ PdoFrames /\ PdoViews /\ PdoProbe

-----------------------------------------------------------------------------
(* PdoProcess: what its SDO calls do, and facts that most steps keep.      *)

\* What readRemoteSdo() tells and leaves alone.
LEMMA PdoRead ==
    ASSUME NEW o, Pdo!Sdo!SdoRead(o)
    PROVE  /\ remote' = remote /\ late' = late
           /\ reply'.class \in {"SUCCESS", "SDO_TIMEOUT", "FAILED", "WAIT_TIMEOUT"}
           /\ reply'.class = "SUCCESS" => late = <<>> /\ reply'.value = remote[o]
    BY DEF Pdo!Sdo!SdoRead, Pdo!Sdo!Answer

\* The frames are where they were when nothing on the bus moves.
LEMMA PdoFramesKept ==
    ASSUME PdoFrames, UNCHANGED <<defect, wire, mapped, calling, receive_state>>,
           remote'[Pdo!Value1] = remote[Pdo!Value1],
           remote'[Pdo!Value2] = remote[Pdo!Value2],
           pc = "done" => pc' = "done"
    PROVE  PdoFrames'
    BY DEF PdoFrames, PdoUnderWay, PdoMap, PdoOd, Pdo!NoFrame, Pdo!Frame, Pdo!None

\* So are the types of all that a step of the thread does not touch.
LEMMA PdoTypesKept ==
    ASSUME PdoTypes, UNCHANGED <<op, defect, wire, mapped, calling, receive_state>>,
           UNCHANGED <<remote, late>>, UNCHANGED rpdo,
           view' \in [generation : Nat, raw : Nat, mapped1 : Nat, mapped2 : Nat,
                      sdo1 : Nat],
           attempt' \in 0..RetryCount, UNCHANGED <<original_value, original_value_saved>>,
           completion_wait_timed_out' \in BOOLEAN, pc' \in PdoPlaces,
           result' \in {0, 1}, verdict' \in {"none", "consistent", "mismatch"}
    PROVE  PdoTypes'
    BY DEF PdoTypes, Pdo!NoFrame, Pdo!Frame

\* Outside the comparison only the verdict counts.
LEMMA PdoViewsOutside ==
    ASSUME PdoViews, pc' \notin PdoComparing, UNCHANGED <<verdict, defect>>,
           (result' = 0 /\ pc' \notin PdoEarly) => (result = 0 /\ pc \notin PdoEarly)
    PROVE  PdoViews'
    BY DEF PdoViews, PdoComparing, Pdo!VerdictIsSound

\* Starting the master touches nothing.
LEMMA Pdo_StartMaster ==
    ASSUME PdoInv, Pdo!StartMaster
    PROVE  PdoInv'
<1>. USE DEF PdoInv, Pdo!sdo, Pdo!bus, Pdo!env, Pdo!rest, Pdo!local, Pdo!saving, Pdo!FailTo, Pdo!frozen
<1>1. PdoTypes'
  BY PdoTypesKept DEF Pdo!StartMaster, PdoTypes, PdoPlaces, PdoEarly, PdoComparing, PdoProbing, PdoLast
<1>2. PdoFrames'
  BY PdoFramesKept DEF Pdo!StartMaster
<1>3. PdoViews'
  BY PdoViewsOutside DEF Pdo!StartMaster, PdoEarly, PdoComparing
<1>4. PdoProbe'
  BY DEF Pdo!StartMaster, PdoProbe, PdoEarly, PdoComparing, PdoProbing, PdoLast, Pdo!PassMeansRestored, Pdo!ProbeValue
<1>. QED BY <1>1, <1>2, <1>3, <1>4

\* The slave may be operational now.
LEMMA Pdo_StartSlave ==
    ASSUME PdoInv, Pdo!StartSlave
    PROVE  PdoInv'
<1>. USE DEF PdoInv, Pdo!sdo, Pdo!bus, Pdo!env, Pdo!rest, Pdo!local, Pdo!saving, Pdo!FailTo, Pdo!frozen
<1>1. PdoTypes'
  <2>1. op' \in BOOLEAN
    BY DEF Pdo!StartSlave, PdoTypes
  <2>2. pc' \in PdoPlaces /\ result' \in {0, 1}
    BY DEF Pdo!StartSlave, PdoTypes, PdoPlaces, PdoEarly, PdoComparing, PdoProbing, PdoLast
  <2>3. PdoTypes /\ UNCHANGED <<remote, late, defect, wire, mapped, calling, receive_state, rpdo, view, attempt,
                   original_value, original_value_saved, completion_wait_timed_out, verdict>>
    BY DEF Pdo!StartSlave
  <2>. QED
    BY ONLY <2>1, <2>2, <2>3 DEF PdoTypes, Pdo!NoFrame, Pdo!Frame
<1>2. PdoFrames'
  BY PdoFramesKept DEF Pdo!StartSlave
<1>3. PdoViews'
  <2>1. pc = "startSlave" /\ pc' \in {"samples", "cleanup"} /\ UNCHANGED <<verdict, defect>>
        /\ (pc' = "cleanup" => result' = 1)
    BY Zenon DEF Pdo!StartSlave
  <2>. QED BY <2>1, PdoViewsOutside DEF PdoEarly, PdoComparing
<1>4. PdoProbe'
  <2>1. pc = "startSlave" /\ pc' \in {"samples", "cleanup"} /\ (pc' = "cleanup" => result' = 1)
        /\ UNCHANGED <<remote, late, rpdo, original_value, original_value_saved, applied>>
    BY Zenon DEF Pdo!StartSlave
  <2>. QED
    BY <2>1 DEF PdoProbe, PdoEarly, PdoComparing, PdoProbing, PdoLast, Pdo!PassMeansRestored
<1>. QED BY <1>1, <1>2, <1>3, <1>4

\* The samples were accepted or not.
LEMMA Pdo_WaitForTpdoSamples ==
    ASSUME PdoInv, Pdo!WaitForTpdoSamples
    PROVE  PdoInv'
<1>. USE DEF PdoInv, Pdo!sdo, Pdo!bus, Pdo!env, Pdo!rest, Pdo!local, Pdo!saving, Pdo!FailTo, Pdo!frozen
<1>1. PdoTypes'
  BY PdoTypesKept DEF Pdo!WaitForTpdoSamples, PdoTypes, PdoPlaces, PdoEarly, PdoComparing, PdoProbing, PdoLast
<1>2. PdoFrames'
  BY PdoFramesKept DEF Pdo!WaitForTpdoSamples
<1>3. PdoViews'
  BY PdoViewsOutside DEF Pdo!WaitForTpdoSamples, PdoEarly, PdoComparing
<1>4. PdoProbe'
  BY DEF Pdo!WaitForTpdoSamples, PdoProbe, PdoEarly, PdoComparing, PdoProbing, PdoLast, Pdo!PassMeansRestored, Pdo!ProbeValue
<1>. QED BY <1>1, <1>2, <1>3, <1>4

\* A new attempt: while no frame was bad, the generation is the number of the latest frame.
LEMMA Pdo_GetLatestTpdoSample ==
    ASSUME PdoInv, Pdo!GetLatestTpdoSample
    PROVE  PdoInv'
<1>. USE DEF PdoInv, Pdo!sdo, Pdo!bus, Pdo!env, Pdo!rest, Pdo!local, Pdo!saving, Pdo!FailTo, Pdo!frozen
<1>1. PdoTypes'
  <2>1. /\ view' \in [generation : Nat, raw : Nat, mapped1 : Nat, mapped2 : Nat, sdo1 : Nat]
        /\ attempt' \in 0..RetryCount
    <3>1. CASE attempt < RetryCount /\ attempt' = attempt + 1
               /\ view' = [Pdo!NoView EXCEPT !.generation = receive_state.generation,
                                          !.raw = receive_state.latest]
      <4>1. receive_state.generation \in Nat /\ receive_state.latest \in Nat
        BY DEF PdoTypes
      <4>2. view' = [generation |-> receive_state.generation, raw |-> receive_state.latest,
                     mapped1 |-> 0, mapped2 |-> 0, sdo1 |-> 0]
        BY <3>1 DEF Pdo!NoView
      <4>3. attempt + 1 \in 0..RetryCount
        <5>1. attempt \in 0..RetryCount /\ attempt < RetryCount
          BY <3>1 DEF PdoTypes
        <5>. QED BY <5>1, Constants
      <4>4. view' \in [generation : Nat, raw : Nat, mapped1 : Nat, mapped2 : Nat, sdo1 : Nat]
        BY <4>1, <4>2
      <4>5. attempt' = attempt + 1
        BY <3>1
      <4>. QED BY <4>3, <4>4, <4>5
    <3>2. CASE UNCHANGED <<view, attempt>>
      BY <3>2 DEF PdoTypes
    <3>. QED BY <3>1, <3>2 DEF Pdo!GetLatestTpdoSample
  <2>. QED
    BY <2>1, PdoTypesKept DEF Pdo!GetLatestTpdoSample, PdoTypes, PdoPlaces, PdoEarly, PdoComparing, PdoProbing, PdoLast
<1>2. PdoFrames'
  BY PdoFramesKept DEF Pdo!GetLatestTpdoSample
<1>3. PdoViews'
  <2>1. CASE pc' = "cleanup"
    BY <2>1, PdoViewsOutside DEF Pdo!GetLatestTpdoSample, PdoEarly, PdoComparing
  <2>2. CASE pc' = "mapped1"
    <3>1. /\ view'.raw = view'.generation /\ view'.generation > 0
          /\ view'.generation = receive_state.generation
      BY <2>2 DEF Pdo!GetLatestTpdoSample, Pdo!NoView, PdoFrames, PdoTypes
    <3>. QED
      BY <2>2, <3>1 DEF Pdo!GetLatestTpdoSample, PdoViews, PdoTypes, PdoEarly, PdoComparing, Pdo!VerdictIsSound
  <2>. QED
    BY <2>1, <2>2 DEF Pdo!GetLatestTpdoSample
<1>4. PdoProbe'
  BY DEF Pdo!GetLatestTpdoSample, PdoProbe, PdoEarly, PdoComparing, PdoProbing, PdoLast, Pdo!PassMeansRestored, Pdo!ProbeValue
<1>. QED BY <1>1, <1>2, <1>3, <1>4

\* The first check of the generation; it only decides where to go.
LEMMA Pdo_CheckMappedStable ==
    ASSUME PdoInv, Pdo!CheckMappedStable
    PROVE  PdoInv'
<1>. USE DEF PdoInv, Pdo!sdo, Pdo!bus, Pdo!env, Pdo!rest, Pdo!local, Pdo!saving, Pdo!FailTo, Pdo!frozen
<1>1. PdoTypes'
  BY PdoTypesKept DEF Pdo!CheckMappedStable, PdoTypes, PdoPlaces, PdoEarly, PdoComparing, PdoProbing, PdoLast
<1>2. PdoFrames'
  BY PdoFramesKept DEF Pdo!CheckMappedStable
<1>3. PdoViews'
  BY DEF Pdo!CheckMappedStable, PdoViews, PdoClean, PdoMap, Pdo!VerdictIsSound, PdoEarly, PdoComparing
<1>4. PdoProbe'
  BY DEF Pdo!CheckMappedStable, PdoProbe, PdoEarly, PdoComparing, PdoProbing, PdoLast, Pdo!PassMeansRestored, Pdo!ProbeValue
<1>. QED BY <1>1, <1>2, <1>3, <1>4

\* The comparison of a snapshot that is still clean is about the slave: raw is not zero, and the other three values are what the defect makes of it.
LEMMA Pdo_Compare ==
    ASSUME PdoInv, Pdo!Compare
    PROVE  PdoInv'
<1>. USE DEF PdoInv, Pdo!sdo, Pdo!bus, Pdo!env, Pdo!rest, Pdo!local, Pdo!saving, Pdo!FailTo, Pdo!frozen
<1>1. PdoTypes'
  BY PdoTypesKept DEF Pdo!Compare, PdoTypes, PdoPlaces, PdoEarly, PdoComparing, PdoProbing, PdoLast
<1>2. PdoFrames'
  BY PdoFramesKept DEF Pdo!Compare
<1>3. PdoViews'
  <2>1. CASE pc' = "snapshot"
    BY <2>1 DEF Pdo!Compare, Pdo!FailTo, PdoViews, Pdo!VerdictIsSound, PdoEarly, PdoComparing
  <2>2. CASE Pdo!IsTpdoGenerationStable /\ pc' # "snapshot"
    <3>1. /\ view.mapped1 = PdoMap(view.raw) /\ view.mapped2 = PdoMap(view.raw)
          /\ view.sdo1 = view.raw /\ reply.value = PdoOd(view.raw) /\ view.raw # 0
      BY <2>2 DEF Pdo!Compare, PdoViews, PdoClean, Pdo!IsTpdoGenerationStable, PdoComparing
    <3>2. Pdo!Coherent <=> defect = "none"
      <4>1. CASE defect = "none"
        BY <4>1, <3>1 DEF PdoMap, PdoOd, Pdo!Coherent
      <4>2. CASE defect = "map"
        BY <4>2, <3>1 DEF PdoMap, PdoOd, Pdo!Coherent
      <4>3. CASE defect = "od"
        BY <4>3, <3>1 DEF PdoMap, PdoOd, Pdo!Coherent
      <4>. QED BY <4>1, <4>2, <4>3 DEF PdoTypes
    <3>3. Pdo!VerdictIsSound'
      BY <2>2, <3>2 DEF Pdo!Compare, Pdo!VerdictIsSound
    <3>4. pc' \in {"save", "cleanup"} /\ (result' = 0 => verdict' = "consistent")
      BY <2>2 DEF Pdo!Compare
    <3>. QED
      BY <3>3, <3>4 DEF PdoViews, PdoComparing
  <2>. QED
    BY <2>1, <2>2 DEF Pdo!Compare
<1>4. PdoProbe'
  <2>1. pc = "compare" /\ pc' \in {"snapshot", "save", "cleanup"} /\ (pc' = "cleanup" => result' = 1)
        /\ (pc' # "cleanup" => result' = result)
    BY DEF Pdo!Compare
  <2>2. UNCHANGED <<remote, late, rpdo, original_value, original_value_saved, applied>>
    BY DEF Pdo!Compare
  <2>. QED
    BY <2>1, <2>2 DEF PdoProbe, PdoEarly, PdoComparing, PdoProbing, PdoLast, Pdo!PassMeansRestored
<1>. QED BY <1>1, <1>2, <1>3, <1>4

\* The transmit state is not part of the argument.
LEMMA Pdo_ClearTransmitState ==
    ASSUME PdoInv, Pdo!ClearTransmitState
    PROVE  PdoInv'
<1>. USE DEF PdoInv, Pdo!sdo, Pdo!bus, Pdo!env, Pdo!rest, Pdo!local, Pdo!saving, Pdo!FailTo, Pdo!frozen
<1>1. PdoTypes'
  BY PdoTypesKept DEF Pdo!ClearTransmitState, PdoTypes, PdoPlaces, PdoEarly, PdoComparing, PdoProbing, PdoLast
<1>2. PdoFrames'
  BY PdoFramesKept DEF Pdo!ClearTransmitState
<1>3. PdoViews'
  BY PdoViewsOutside DEF Pdo!ClearTransmitState, PdoEarly, PdoComparing
<1>4. PdoProbe'
  BY DEF Pdo!ClearTransmitState, PdoProbe, PdoEarly, PdoComparing, PdoProbing, PdoLast, Pdo!PassMeansRestored, Pdo!ProbeValue
<1>. QED BY <1>1, <1>2, <1>3, <1>4

\* One more RPDO: the probe after an empty queue, the original as a last resort.
LEMMA Pdo_WriteEvent ==
    ASSUME PdoInv, Pdo!WriteEvent
    PROVE  PdoInv'
<1>. USE DEF PdoInv, Pdo!sdo, Pdo!bus, Pdo!env, Pdo!rest, Pdo!local, Pdo!saving, Pdo!FailTo, Pdo!frozen
<1>1. PdoTypes'
  <2>1. rpdo' \in Seq(Pdo!TestValues)
    <3>1. Pdo!SendValue \in Pdo!TestValues
      BY DEF PdoTypes, Pdo!SendValue, Pdo!ProbeValue, Pdo!TestValues, Pdo!Probe, Pdo!Alternate, Pdo!Original
    <3>2. rpdo \in Seq(Pdo!TestValues)
      BY DEF PdoTypes
    <3>3. rpdo' = rpdo \/ rpdo' = Append(rpdo, Pdo!SendValue)
      BY DEF Pdo!WriteEvent
    <3>. QED BY <3>1, <3>2, <3>3
  <2>2. pc' \in PdoPlaces /\ result' \in {0, 1}
    BY DEF Pdo!WriteEvent, PdoTypes, PdoPlaces, PdoEarly, PdoComparing, PdoProbing, PdoLast
  <2>3. UNCHANGED <<remote, late, reply, op, defect, wire, mapped, calling, receive_state, view, attempt,
                   verdict, original_value, original_value_saved, completion_wait_timed_out>>
    BY DEF Pdo!WriteEvent
  <2>9. PdoTypes
    OBVIOUS
  <2>. QED
    BY ONLY <2>1, <2>2, <2>3, <2>9 DEF PdoTypes, Pdo!NoFrame, Pdo!Frame
<1>2. PdoFrames'
  BY PdoFramesKept DEF Pdo!WriteEvent
<1>3. PdoViews'
  BY PdoViewsOutside DEF Pdo!WriteEvent, PdoEarly, PdoComparing
<1>4. PdoProbe'
  <2>1. UNCHANGED <<remote, late, original_value, original_value_saved, applied, transmit_state>>
    BY DEF Pdo!WriteEvent
  <2>2. Len(rpdo') <= IF pc' \in {"lastWait", "done"} THEN 2 ELSE 1
    <3>1. Len(rpdo) <= 1 /\ Len(rpdo) \in Nat /\ (pc = "event" => rpdo = <<>>) /\ pc \in {"event", "lastEvent"}
      BY DEF Pdo!WriteEvent, PdoProbe, PdoTypes
    <3>2. rpdo' = rpdo \/ (rpdo' = Append(rpdo, Pdo!SendValue) /\ pc' = IF pc = "event" THEN "wait" ELSE "lastWait")
      BY DEF Pdo!WriteEvent
    <3>3. rpdo \in Seq(Pdo!TestValues)
      BY DEF PdoTypes
    <3>. QED BY ONLY <3>1, <3>2, <3>3
  <2>3. \/ pc = "event" /\ pc' \in {"wait", "cleanup"} /\ (pc' = "cleanup" => result' = 1)
        \/ pc = "lastEvent" /\ pc' \in {"lastWait", "done"} /\ (pc' = "done" => result' = 1)
                            /\ (pc' = "lastWait" => result' = result)
    BY DEF Pdo!WriteEvent
  <2>4. result' = 0 => result = 0
    BY DEF Pdo!WriteEvent
  <2>5. late = <<>> \/ (pc' \in PdoLast \cup {"done"} /\ result' = 1)
    BY <2>3 DEF PdoProbe, PdoLast
  <2>. QED
    BY <2>1, <2>2, <2>3, <2>4, <2>5 DEF PdoProbe, PdoEarly, PdoComparing, PdoProbing, PdoLast, Pdo!PassMeansRestored, Pdo!ProbeValue
<1>. QED BY <1>1, <1>2, <1>3, <1>4

\* What OnTpdo confirmed.
LEMMA Pdo_WaitTransmit ==
    ASSUME PdoInv, Pdo!WaitTransmit
    PROVE  PdoInv'
<1>. USE DEF PdoInv, Pdo!sdo, Pdo!bus, Pdo!env, Pdo!rest, Pdo!local, Pdo!saving, Pdo!FailTo, Pdo!frozen
<1>1. PdoTypes'
  BY PdoTypesKept DEF Pdo!WaitTransmit, PdoTypes, PdoPlaces, PdoEarly, PdoComparing, PdoProbing, PdoLast
<1>2. PdoFrames'
  BY PdoFramesKept DEF Pdo!WaitTransmit
<1>3. PdoViews'
  BY PdoViewsOutside DEF Pdo!WaitTransmit, PdoEarly, PdoComparing
<1>4. PdoProbe'
  <2>1. /\ UNCHANGED <<remote, late, rpdo, original_value, original_value_saved, applied>>
        /\ pc = "wait" /\ (result' = 0 => result = 0)
        /\ pc' = "readBack" \/ (pc' = "cleanup" /\ result' = 1)
    BY DEF Pdo!WaitTransmit
  <2>2. pc' = "readBack" => transmit_state # Pdo!Idle
    BY DEF Pdo!WaitTransmit, Pdo!SendConfirmed, Pdo!Idle
  <2>3. pc' = "readBack" => rpdo = <<>>
    BY <2>1, <2>2 DEF PdoProbe
  <2>. QED
    BY <2>1, <2>3
       DEF PdoProbe, PdoEarly, PdoComparing, PdoProbing, PdoLast, Pdo!PassMeansRestored, Pdo!ProbeValue
<1>. QED BY <1>1, <1>2, <1>3, <1>4

\* The cleanup skips what was not saved.
LEMMA Pdo_Cleanup ==
    ASSUME PdoInv, Pdo!Cleanup
    PROVE  PdoInv'
<1>. USE DEF PdoInv, Pdo!sdo, Pdo!bus, Pdo!env, Pdo!rest, Pdo!local, Pdo!saving, Pdo!FailTo, Pdo!frozen
<1>1. PdoTypes'
  BY PdoTypesKept DEF Pdo!Cleanup, PdoTypes, PdoPlaces, PdoEarly, PdoComparing, PdoProbing, PdoLast
<1>2. PdoFrames'
  BY PdoFramesKept DEF Pdo!Cleanup
<1>3. PdoViews'
  BY PdoViewsOutside DEF Pdo!Cleanup, PdoEarly, PdoComparing
<1>4. PdoProbe'
  <2>1. UNCHANGED <<remote, late, rpdo, original_value, original_value_saved, applied, result>>
    BY DEF Pdo!Cleanup
  <2>2. pc = "cleanup" /\ pc' \in {"done", "lastClear", "restore"} /\ (pc' = "done" <=> ~original_value_saved)
    <3>1. CASE ~original_value_saved
      BY <3>1 DEF Pdo!Cleanup
    <3>2. CASE original_value_saved /\ completion_wait_timed_out
      BY <3>2 DEF Pdo!Cleanup
    <3>3. CASE original_value_saved /\ ~completion_wait_timed_out
      BY <3>3 DEF Pdo!Cleanup
    <3>. QED BY <3>1, <3>2, <3>3
  <2>. QED
    BY <2>1, <2>2 DEF PdoProbe, PdoEarly, PdoComparing, PdoProbing, PdoLast, Pdo!PassMeansRestored, Pdo!ProbeValue
<1>. QED BY <1>1, <1>2, <1>3, <1>4

\* The last resort is never a pass.
LEMMA Pdo_LastWait ==
    ASSUME PdoInv, Pdo!LastWait
    PROVE  PdoInv'
<1>. USE DEF PdoInv, Pdo!sdo, Pdo!bus, Pdo!env, Pdo!rest, Pdo!local, Pdo!saving, Pdo!FailTo, Pdo!frozen
<1>1. PdoTypes'
  BY PdoTypesKept DEF Pdo!LastWait, PdoTypes, PdoPlaces, PdoEarly, PdoComparing, PdoProbing, PdoLast
<1>2. PdoFrames'
  BY PdoFramesKept DEF Pdo!LastWait
<1>3. PdoViews'
  BY PdoViewsOutside DEF Pdo!LastWait, PdoEarly, PdoComparing
<1>4. PdoProbe'
  BY DEF Pdo!LastWait, PdoProbe, PdoEarly, PdoComparing, PdoProbing, PdoLast, Pdo!PassMeansRestored, Pdo!ProbeValue
<1>. QED BY <1>1, <1>2, <1>3, <1>4

\* The answer comes after every frame sent before it: a snapshot that is still clean was read without a callback under way.
LEMMA Pdo_ReadSdo1 ==
    ASSUME PdoInv, Pdo!ReadSdo1
    PROVE  PdoInv'
<1>. USE DEF PdoInv, Pdo!sdo, Pdo!bus, Pdo!env, Pdo!rest, Pdo!local, Pdo!saving, Pdo!FailTo, Pdo!frozen
<1>1. PdoTypes'
  <2>1. UNCHANGED <<remote, late>>
    BY PdoRead DEF Pdo!ReadSdo1
  <2>2. completion_wait_timed_out' \in BOOLEAN
    BY DEF Pdo!ReadSdo1, Pdo!TimedOut
  <2>3. reply'.class = "SUCCESS" => reply'.value \in Nat
    <3>1. remote[Pdo!Value1] \in Nat /\ Pdo!Sdo!SdoRead(Pdo!Value1)
      BY Constants DEF Pdo!ReadSdo1, PdoTypes, PdoNumbers, Pdo!Objects
    <3>. QED BY ONLY <3>1, PdoRead
  <2>4. view' \in [generation : Nat, raw : Nat, mapped1 : Nat, mapped2 : Nat, sdo1 : Nat]
    BY <2>3 DEF Pdo!ReadSdo1, PdoTypes
  <2>. QED
    BY <2>1, <2>2, <2>4, PdoTypesKept DEF Pdo!ReadSdo1, PdoTypes, PdoPlaces, PdoEarly, PdoComparing, PdoProbing, PdoLast
<1>2. PdoFrames'
  <2>1. UNCHANGED <<defect, wire, mapped, calling, receive_state, remote>> /\ pc # "done"
    BY PdoRead DEF Pdo!ReadSdo1
  <2>. QED BY <2>1, PdoFramesKept
<1>3. PdoViews'
  <2>1. CASE pc' = "cleanup"
    BY <2>1, PdoViewsOutside DEF Pdo!ReadSdo1, PdoEarly, PdoComparing
  <2>2. CASE pc' = "sdo2"
    <3>1. /\ wire = <<>> /\ calling = Pdo!NoFrame /\ view' = [view EXCEPT !.sdo1 = remote[Pdo!Value1]]
          /\ pc = "sdo1" /\ UNCHANGED <<defect, receive_state, verdict, result>>
      BY <2>2, PdoRead DEF Pdo!ReadSdo1, Pdo!InOrder
    <3>2. PdoClean => receive_state.generation = remote[Pdo!Value1]
      BY <3>1 DEF PdoClean, PdoFrames, PdoUnderWay, PdoTypes
    <3>3. /\ view'.raw = view.raw /\ view'.generation = view.generation
          /\ view'.mapped1 = view.mapped1 /\ view'.mapped2 = view.mapped2
          /\ view'.sdo1 = remote[Pdo!Value1]
      BY <3>1 DEF PdoTypes
    <3>. QED
      BY <2>2, <3>1, <3>2, <3>3 DEF PdoViews, PdoClean, PdoMap, PdoComparing, PdoEarly, Pdo!VerdictIsSound
  <2>. QED
    BY <2>1, <2>2 DEF Pdo!ReadSdo1
<1>4. PdoProbe'
  <2>1. pc = "sdo1" /\ pc' \in {"sdo2", "cleanup"} /\ (pc' = "cleanup" => result' = 1)
        /\ UNCHANGED <<remote, late, rpdo, original_value, original_value_saved, applied>>
    BY PdoRead DEF Pdo!ReadSdo1
  <2>. QED
    BY <2>1 DEF PdoProbe, PdoEarly, PdoComparing, PdoProbing, PdoLast, Pdo!PassMeansRestored
<1>. QED BY <1>1, <1>2, <1>3, <1>4

\* So was the second one.
LEMMA Pdo_ReadSdo2 ==
    ASSUME PdoInv, Pdo!ReadSdo2
    PROVE  PdoInv'
<1>. USE DEF PdoInv, Pdo!sdo, Pdo!bus, Pdo!env, Pdo!rest, Pdo!local, Pdo!saving, Pdo!FailTo, Pdo!frozen
<1>1. PdoTypes'
  <2>1. UNCHANGED <<remote, late>>
    BY PdoRead DEF Pdo!ReadSdo2
  <2>2. completion_wait_timed_out' \in BOOLEAN
    BY DEF Pdo!ReadSdo2, Pdo!TimedOut
  <2>. QED
    BY <2>1, <2>2, PdoTypesKept DEF Pdo!ReadSdo2, PdoTypes, PdoPlaces, PdoEarly, PdoComparing, PdoProbing, PdoLast
<1>2. PdoFrames'
  <2>1. UNCHANGED <<defect, wire, mapped, calling, receive_state, remote>> /\ pc # "done"
    BY PdoRead DEF Pdo!ReadSdo2
  <2>. QED BY <2>1, PdoFramesKept
<1>3. PdoViews'
  <2>1. CASE pc' = "cleanup"
    BY <2>1, PdoViewsOutside DEF Pdo!ReadSdo2, PdoEarly, PdoComparing
  <2>2. CASE pc' = "compare"
    <3>1. /\ wire = <<>> /\ calling = Pdo!NoFrame /\ reply'.value = remote[Pdo!Value2]
          /\ pc = "sdo2" /\ UNCHANGED <<defect, receive_state, view, verdict, result>>
      BY <2>2, PdoRead DEF Pdo!ReadSdo2, Pdo!InOrder
    <3>2. PdoClean => receive_state.generation = remote[Pdo!Value1]
      BY <3>1 DEF PdoClean, PdoFrames, PdoUnderWay, PdoTypes
    <3>3. PdoClean => reply'.value = PdoOd(view.raw)
      BY <3>1, <3>2 DEF PdoClean, PdoFrames, PdoViews, PdoComparing, PdoOd
    <3>. QED
      BY <2>2, <3>1, <3>3 DEF PdoViews, PdoClean, PdoMap, PdoOd, PdoComparing, PdoEarly, Pdo!VerdictIsSound
  <2>. QED
    BY <2>1, <2>2 DEF Pdo!ReadSdo2
<1>4. PdoProbe'
  <2>1. pc = "sdo2" /\ pc' \in {"compare", "cleanup"} /\ (pc' = "cleanup" => result' = 1)
        /\ UNCHANGED <<remote, late, rpdo, original_value, original_value_saved, applied>>
    BY PdoRead DEF Pdo!ReadSdo2
  <2>. QED
    BY <2>1 DEF PdoProbe, PdoEarly, PdoComparing, PdoProbing, PdoLast, Pdo!PassMeansRestored
<1>. QED BY <1>1, <1>2, <1>3, <1>4

\* The value that is saved is the slave's: no RPDO is under way when it is read.
LEMMA Pdo_SaveOriginal ==
    ASSUME PdoInv, Pdo!SaveOriginal
    PROVE  PdoInv'
<1>. USE DEF PdoInv, Pdo!sdo, Pdo!bus, Pdo!env, Pdo!rest, Pdo!local, Pdo!saving, Pdo!FailTo, Pdo!frozen
<1>1. PdoTypes'
  <2>1. UNCHANGED <<remote, late, op, defect, wire, mapped, calling, receive_state, rpdo, view, attempt, verdict>>
    BY PdoRead DEF Pdo!SaveOriginal
  <2>2. completion_wait_timed_out' \in BOOLEAN
    BY DEF Pdo!SaveOriginal, Pdo!TimedOut
  <2>3. original_value' \in Pdo!TestValues /\ original_value_saved' \in BOOLEAN
    BY PdoRead DEF Pdo!SaveOriginal, PdoTypes
  <2>4. pc' \in PdoPlaces /\ result' \in {0, 1}
    BY DEF Pdo!SaveOriginal, PdoTypes, PdoPlaces, PdoEarly, PdoComparing, PdoProbing, PdoLast
  <2>. QED
    BY <2>1, <2>2, <2>3, <2>4 DEF PdoTypes, Pdo!NoFrame, Pdo!Frame
<1>2. PdoFrames'
  <2>1. UNCHANGED <<defect, wire, mapped, calling, receive_state, remote>> /\ pc # "done"
    BY PdoRead DEF Pdo!SaveOriginal
  <2>. QED BY <2>1, PdoFramesKept
<1>3. PdoViews'
  BY PdoViewsOutside DEF Pdo!SaveOriginal, PdoEarly, PdoComparing
<1>4. PdoProbe'
  <2>1. UNCHANGED <<remote, late, rpdo, applied>> /\ pc = "save" /\ late = <<>>
    BY PdoRead DEF Pdo!SaveOriginal, PdoProbe, PdoLast
  <2>2. \/ /\ pc' = "clear" /\ original_value_saved' /\ original_value' = remote[Pdo!Test]
           /\ result' = result
        \/ pc' = "cleanup" /\ result' = 1
    BY PdoRead DEF Pdo!SaveOriginal
  <2>. QED
    BY <2>1, <2>2 DEF PdoProbe, PdoEarly, PdoComparing, PdoProbing, PdoLast, Pdo!PassMeansRestored, Pdo!ProbeValue
<1>. QED BY <1>1, <1>2, <1>3, <1>4

\* A read-back of the probe: only an RPDO can have put it there.
LEMMA Pdo_ReadBack ==
    ASSUME PdoInv, Pdo!ReadBack
    PROVE  PdoInv'
<1>. USE DEF PdoInv, Pdo!sdo, Pdo!bus, Pdo!env, Pdo!rest, Pdo!local, Pdo!saving, Pdo!FailTo, Pdo!frozen
<1>1. PdoTypes'
  <2>1. UNCHANGED <<remote, late>>
    BY PdoRead DEF Pdo!ReadBack
  <2>2. completion_wait_timed_out' \in BOOLEAN
    BY DEF Pdo!ReadBack, Pdo!TimedOut
  <2>. QED
    BY <2>1, <2>2, PdoTypesKept DEF Pdo!ReadBack, PdoTypes, PdoPlaces, PdoEarly, PdoComparing, PdoProbing, PdoLast
<1>2. PdoFrames'
  <2>1. UNCHANGED <<defect, wire, mapped, calling, receive_state, remote>> /\ pc # "done"
    BY PdoRead DEF Pdo!ReadBack
  <2>. QED BY <2>1, PdoFramesKept
<1>3. PdoViews'
  BY PdoViewsOutside DEF Pdo!ReadBack, PdoEarly, PdoComparing
<1>4. PdoProbe'
  <2>1. /\ UNCHANGED <<remote, late, rpdo, applied, original_value, original_value_saved>>
        /\ pc = "readBack" /\ pc' = "cleanup" /\ late = <<>>
    BY PdoRead DEF Pdo!ReadBack, PdoProbe, PdoLast
  <2>2. result' = 0 => remote[Pdo!Test] = Pdo!ProbeValue
    BY PdoRead DEF Pdo!ReadBack
  <2>3. Pdo!ProbeValue # original_value
    BY DEF Pdo!ProbeValue, Pdo!Probe, Pdo!Alternate
  <2>4. result' = 0 => Pdo!ProbeValue \in applied
    BY <2>1, <2>2, <2>3 DEF PdoProbe, PdoProbing
  <2>. QED
    BY <2>1, <2>4 DEF PdoProbe, PdoEarly, PdoComparing, PdoProbing, PdoLast, Pdo!PassMeansRestored, Pdo!ProbeValue
<1>. QED BY <1>1, <1>2, <1>3, <1>4

\* A confirmed restoration: nothing is under way any more.
LEMMA Pdo_RestoreVerify ==
    ASSUME PdoInv, Pdo!RestoreVerify
    PROVE  PdoInv'
<1>. USE DEF PdoInv, Pdo!sdo, Pdo!bus, Pdo!env, Pdo!rest, Pdo!local, Pdo!saving, Pdo!FailTo, Pdo!frozen
<1>1. PdoTypes'
  <2>1. UNCHANGED <<remote, late>>
    BY PdoRead DEF Pdo!RestoreVerify
  <2>2. completion_wait_timed_out' \in BOOLEAN
    BY DEF Pdo!RestoreVerify, Pdo!TimedOut
  <2>. QED
    BY <2>1, <2>2, PdoTypesKept DEF Pdo!RestoreVerify, PdoTypes, PdoPlaces, PdoEarly, PdoComparing, PdoProbing, PdoLast
<1>2. PdoFrames'
  <2>1. UNCHANGED <<defect, wire, mapped, calling, receive_state, remote>> /\ pc # "done"
    BY PdoRead DEF Pdo!RestoreVerify
  <2>. QED BY <2>1, PdoFramesKept
<1>3. PdoViews'
  BY PdoViewsOutside DEF Pdo!RestoreVerify, PdoEarly, PdoComparing
<1>4. PdoProbe'
  <2>1. /\ UNCHANGED <<remote, late, rpdo, applied, original_value, original_value_saved>>
        /\ pc = "verify" /\ late = <<>>
    BY PdoRead DEF Pdo!RestoreVerify, PdoProbe, PdoLast
  <2>2. \/ pc' = "lastClear" /\ result' = 1
        \/ pc' = "done" /\ result' = 1
        \/ pc' = "done" /\ result' = result /\ remote[Pdo!Test] = original_value
    BY PdoRead DEF Pdo!RestoreVerify
  <2>. QED
    BY <2>1, <2>2 DEF PdoProbe, PdoEarly, PdoComparing, PdoProbing, PdoLast, Pdo!PassMeansRestored, Pdo!ProbeValue
<1>. QED BY <1>1, <1>2, <1>3, <1>4

\* Lely's copy, which may be one frame ahead of the callback.
LEMMA Pdo_ReadMappedTpdoValue ==
    ASSUME PdoInv, Pdo!ReadMappedTpdoValue
    PROVE  PdoInv'
<1>. USE DEF PdoInv, Pdo!sdo, Pdo!bus, Pdo!env, Pdo!rest, Pdo!local, Pdo!saving, Pdo!FailTo, Pdo!frozen
<1>1. PdoTypes'
  <2>. USE DEF Pdo!ReadMappedTpdoValue, Pdo!ReadMapped
  <2>1. view' \in [generation : Nat, raw : Nat, mapped1 : Nat, mapped2 : Nat, sdo1 : Nat]
    <3>1. \/ view' = [view EXCEPT !.mapped1 = mapped]
          \/ view' = [view EXCEPT !.mapped2 = mapped]
          \/ view' = view
      OBVIOUS
    <3>2. mapped \in Nat /\ view \in [generation : Nat, raw : Nat, mapped1 : Nat, mapped2 : Nat, sdo1 : Nat]
      BY Constants DEF PdoTypes
    <3>. QED BY ONLY <3>1, <3>2
  <2>. QED
    BY <2>1, PdoTypesKept DEF PdoTypes, PdoPlaces, PdoEarly, PdoComparing, PdoProbing, PdoLast
<1>2. PdoFrames'
  BY PdoFramesKept DEF Pdo!ReadMappedTpdoValue, Pdo!ReadMapped
<1>3. PdoViews'
  <2>. USE DEF Pdo!ReadMappedTpdoValue, Pdo!ReadMapped
  <2>1. CASE pc' = "cleanup"
    BY <2>1, PdoViewsOutside DEF PdoEarly, PdoComparing
  <2>2. CASE pc' = "mapped2"
    <3>1. pc = "mapped1" /\ view' = [view EXCEPT !.mapped1 = mapped]
          /\ UNCHANGED <<defect, calling, receive_state, verdict, result>>
      BY <2>2
    <3>2. view'.mapped1 = mapped /\ view'.raw = view.raw /\ view'.generation = view.generation
      BY <3>1 DEF PdoTypes
    <3>3. (PdoClean /\ calling = Pdo!NoFrame) => mapped = PdoMap(view.raw)
      BY <3>1 DEF PdoClean, PdoFrames, PdoViews, PdoComparing, PdoMap
    <3>. QED
      BY <2>2, <3>1, <3>2, <3>3 DEF PdoViews, PdoClean, PdoMap, PdoComparing, PdoEarly, Pdo!VerdictIsSound
  <2>3. CASE pc' = "stable"
    <3>1. pc = "mapped2" /\ view' = [view EXCEPT !.mapped2 = mapped]
          /\ UNCHANGED <<defect, calling, receive_state, verdict, result>>
      BY <2>3
    <3>2. /\ view'.mapped2 = mapped /\ view'.raw = view.raw /\ view'.generation = view.generation
          /\ view'.mapped1 = view.mapped1
      BY <3>1 DEF PdoTypes
    <3>3. (PdoClean /\ calling = Pdo!NoFrame) => mapped = PdoMap(view.raw)
      BY <3>1 DEF PdoClean, PdoFrames, PdoViews, PdoComparing, PdoMap
    <3>. QED
      BY <2>3, <3>1, <3>2, <3>3 DEF PdoViews, PdoClean, PdoMap, PdoComparing, PdoEarly, Pdo!VerdictIsSound
  <2>. QED
    BY <2>1, <2>2, <2>3
<1>4. PdoProbe'
  <2>1. /\ pc \in {"mapped1", "mapped2"} /\ pc' \in {"mapped2", "stable", "cleanup"}
        /\ (pc' = "cleanup" => result' = 1)
        /\ UNCHANGED <<remote, late, rpdo, original_value, original_value_saved, applied>>
    BY DEF Pdo!ReadMappedTpdoValue, Pdo!ReadMapped
  <2>. QED
    BY <2>1 DEF PdoProbe, PdoEarly, PdoComparing, PdoProbing, PdoLast, Pdo!PassMeansRestored, Pdo!ProbeValue
<1>. QED BY <1>1, <1>2, <1>3, <1>4

\* One more frame, with the next number.
LEMMA Pdo_SlaveSendsTpdo ==
    ASSUME PdoInv, Pdo!SlaveSendsTpdo
    PROVE  PdoInv'
<1>. USE DEF PdoInv, Pdo!sdo, Pdo!bus, Pdo!env, Pdo!rest, Pdo!local, Pdo!saving, Pdo!FailTo, Pdo!frozen
<1>1. PdoTypes'
  <2>1. remote[Pdo!Value1] \in 0..MaxFrames /\ remote[Pdo!Value1] < MaxFrames
    BY Constants DEF Pdo!SlaveSendsTpdo, Pdo!Sent, PdoTypes, PdoNumbers, Pdo!Objects
  <2>2. PICK kind \in PdoKinds : wire' = Append(wire, Pdo!Frame(remote[Pdo!Value1] + 1, kind))
    BY DEF Pdo!SlaveSendsTpdo, Pdo!Sent, PdoKinds
  <2>3. Pdo!Frame(remote[Pdo!Value1] + 1, kind) \in [n : 1..MaxFrames, kind : PdoKinds]
    BY <2>1, <2>2, Constants DEF Pdo!Frame
  <2>4. wire' \in Seq([n : 1..MaxFrames, kind : PdoKinds])
    BY <2>2, <2>3 DEF PdoTypes
  <2>5. /\ remote' \in [Pdo!Objects -> PdoNumbers] /\ remote'[Pdo!Value1] <= MaxFrames
        /\ remote'[Pdo!Test] = remote[Pdo!Test]
    <3>1. PICK v \in PdoNumbers : remote' = [remote EXCEPT ![Pdo!Value1] = remote[Pdo!Value1] + 1, ![Pdo!Value2] = v]
      <4>1. (IF defect = "od" THEN 0 ELSE remote[Pdo!Value1] + 1) \in PdoNumbers
        BY <2>1, Constants DEF PdoNumbers
      <4>2. remote' = [remote EXCEPT ![Pdo!Value1] = remote[Pdo!Value1] + 1,
                                     ![Pdo!Value2] = IF defect = "od" THEN 0 ELSE remote[Pdo!Value1] + 1]
        BY DEF Pdo!SlaveSendsTpdo, Pdo!Sent, Pdo!None
      <4>. QED BY <4>1, <4>2
    <3>2. remote[Pdo!Value1] + 1 \in PdoNumbers /\ remote[Pdo!Value1] + 1 <= MaxFrames
      BY <2>1, Constants DEF PdoNumbers
    <3>3. remote \in [Pdo!Objects -> PdoNumbers]
      BY DEF PdoTypes
    <3>. QED BY <3>1, <3>2, <3>3 DEF Pdo!Objects, Pdo!Value1, Pdo!Value2, Pdo!Test
  <2>6. UNCHANGED <<late, reply, op, defect, mapped, calling, receive_state, rpdo, view, attempt, original_value,
                   original_value_saved, completion_wait_timed_out, pc, result, verdict>>
    BY DEF Pdo!SlaveSendsTpdo
  <2>9. PdoTypes
    OBVIOUS
  <2>. QED
    BY ONLY <2>4, <2>5, <2>6, <2>9 DEF PdoTypes, Pdo!NoFrame, Pdo!Frame
<1>2. PdoFrames'
  <2>1. remote[Pdo!Value1] \in 0..MaxFrames
    BY Constants DEF PdoTypes, PdoNumbers, Pdo!Objects
  <2>2. PICK kind \in PdoKinds : wire' = Append(wire, Pdo!Frame(remote[Pdo!Value1] + 1, kind))
    BY DEF Pdo!SlaveSendsTpdo, Pdo!Sent, PdoKinds
  <2>3. /\ remote'[Pdo!Value1] = remote[Pdo!Value1] + 1
        /\ remote'[Pdo!Value2] = PdoOd(remote[Pdo!Value1] + 1)
    BY DEF Pdo!SlaveSendsTpdo, Pdo!Sent, PdoTypes, PdoOd, Pdo!None, Pdo!Objects, Pdo!Value1, Pdo!Value2, Pdo!Test
  <2>4. UNCHANGED <<defect, mapped, calling, receive_state, pc>>
    BY DEF Pdo!SlaveSendsTpdo
  <2>5. /\ Len(wire') = Len(wire) + 1 /\ Len(wire) \in Nat
        /\ \A i \in 1..Len(wire) : wire'[i] = wire[i]
        /\ wire'[Len(wire) + 1].n = remote[Pdo!Value1] + 1
    <3>1. wire \in Seq([n : 1..MaxFrames, kind : PdoKinds])
      BY DEF PdoTypes
    <3>. QED BY ONLY <2>1, <2>2, <3>1 DEF Pdo!Frame
  <2>6. \A i \in 1..Len(wire') : wire'[i].n = remote'[Pdo!Value1] - Len(wire') + i
    <3>1. TAKE i \in 1..Len(wire')
    <3>2. CASE i \in 1..Len(wire)
      BY <2>1, <2>3, <2>5, <3>2 DEF PdoFrames
    <3>3. CASE i = Len(wire) + 1
      BY <2>1, <2>3, <2>5, <3>3
    <3>. QED BY <2>5, <3>2, <3>3
  <2>7. calling # Pdo!NoFrame => calling.n = remote'[Pdo!Value1] - Len(wire')
    BY <2>1, <2>3, <2>5 DEF PdoFrames
  <2>8. receive_state.generation \in Nat
    BY DEF PdoTypes
  <2>9. PdoUnderWay' = PdoUnderWay + 1
    BY <2>4, <2>5 DEF PdoUnderWay
  <2>10. /\ receive_state.generation + PdoUnderWay' <= remote'[Pdo!Value1]
         /\ ~receive_state.failed /\ pc # "done" =>
               receive_state.generation + PdoUnderWay' = remote'[Pdo!Value1]
    <3>1. PdoUnderWay \in Nat
      BY <2>5 DEF PdoUnderWay
    <3>2. /\ receive_state.generation + PdoUnderWay <= remote[Pdo!Value1]
          /\ ~receive_state.failed /\ pc # "done" =>
                receive_state.generation + PdoUnderWay = remote[Pdo!Value1]
      BY DEF PdoFrames
    <3>. QED BY <2>1, <2>3, <2>8, <2>9, <3>1, <3>2
  <2>. QED
    BY <2>3, <2>4, <2>6, <2>7, <2>10 DEF PdoFrames, PdoMap, PdoOd, Pdo!NoFrame, Pdo!Frame, Pdo!None
<1>3. PdoViews'
  <2>1. UNCHANGED <<defect, calling, receive_state, pc, view, reply, verdict, result>>
    BY DEF Pdo!SlaveSendsTpdo
  <2>. QED
    BY <2>1 DEF PdoViews, PdoClean, PdoMap, PdoOd, Pdo!VerdictIsSound, Pdo!NoFrame, Pdo!Frame, Pdo!None
<1>4. PdoProbe'
  <2>1. UNCHANGED <<late, pc, result, rpdo, transmit_state, original_value, original_value_saved, applied>>
    BY DEF Pdo!SlaveSendsTpdo
  <2>2. remote'[Pdo!Test] = remote[Pdo!Test]
    BY DEF Pdo!SlaveSendsTpdo, PdoTypes, Pdo!Objects, Pdo!Value1, Pdo!Value2, Pdo!Test
  <2>. QED
    BY <2>1, <2>2 DEF PdoProbe, PdoEarly, PdoComparing, PdoProbing, PdoLast, Pdo!PassMeansRestored, Pdo!ProbeValue
<1>. QED BY <1>1, <1>2, <1>3, <1>4

\* The head of the wire becomes the frame whose callback is under way.
LEMMA Pdo_LelyMapsTpdo ==
    ASSUME PdoInv, Pdo!LelyMapsTpdo
    PROVE  PdoInv'
<1>. USE DEF PdoInv, Pdo!sdo, Pdo!bus, Pdo!env, Pdo!rest, Pdo!local, Pdo!saving, Pdo!FailTo, Pdo!frozen
<1>1. PdoTypes'
  <2>1. wire \in Seq([n : 1..MaxFrames, kind : PdoKinds]) /\ wire # <<>>
    BY DEF PdoTypes, Pdo!LelyMapsTpdo
  <2>2. Head(wire) \in [n : 1..MaxFrames, kind : PdoKinds] /\ wire' \in Seq([n : 1..MaxFrames, kind : PdoKinds])
    BY <2>1, HeadTail DEF Pdo!LelyMapsTpdo
  <2>3. mapped' \in 0..MaxFrames
    <3>1. mapped \in 0..MaxFrames /\ Head(wire).n \in 1..MaxFrames
      BY <2>2 DEF PdoTypes
    <3>2. mapped' = mapped \/ mapped' = 0 \/ mapped' = Head(wire).n
      BY DEF Pdo!LelyMapsTpdo, Pdo!None
    <3>. QED BY ONLY <3>1, <3>2, Constants
  <2>4. UNCHANGED <<remote, late, reply, op, defect, receive_state, rpdo, view, attempt, original_value,
                   original_value_saved, completion_wait_timed_out, pc, result, verdict>> /\ calling' = Head(wire)
    BY DEF Pdo!LelyMapsTpdo
  <2>. QED
    BY <2>2, <2>3, <2>4 DEF PdoTypes, Pdo!NoFrame, Pdo!Frame
<1>2. PdoFrames'
  <2>1. wire \in Seq([n : 1..MaxFrames, kind : PdoKinds]) /\ wire # <<>>
    BY DEF PdoTypes, Pdo!LelyMapsTpdo
  <2>2. /\ Len(wire') = Len(wire) - 1 /\ Len(wire) \in Nat /\ Len(wire) > 0
        /\ \A i \in 1..Len(wire') : wire'[i] = wire[i + 1]
        /\ Head(wire) = wire[1]
    BY <2>1, HeadTail DEF Pdo!LelyMapsTpdo
  <2>3. /\ UNCHANGED <<defect, receive_state, pc, remote>> /\ calling = Pdo!NoFrame /\ calling' = Head(wire)
        /\ mapped' = IF Head(wire).kind = "bad" THEN mapped ELSE PdoMap(Head(wire).n)
    BY DEF Pdo!LelyMapsTpdo, PdoMap, Pdo!None
  <2>4. remote[Pdo!Value1] \in Nat /\ receive_state.generation \in Nat
    BY Constants DEF PdoTypes, PdoNumbers, Pdo!Objects
  <2>5. calling' # Pdo!NoFrame /\ calling'.n = remote[Pdo!Value1] - Len(wire')
    <3>1. Head(wire) \in [n : 1..MaxFrames, kind : PdoKinds]
      BY <2>1, HeadTail
    <3>2. Head(wire) # Pdo!NoFrame
      BY <3>1 DEF Pdo!NoFrame, Pdo!Frame, PdoKinds
    <3>. QED BY <2>2, <2>3, <2>4, <3>2 DEF PdoFrames
  <2>6. PdoUnderWay' = PdoUnderWay
    <3>1. PdoUnderWay = Len(wire)
      BY <2>2, <2>3 DEF PdoUnderWay
    <3>2. PdoUnderWay' = Len(wire') + 1
      BY <2>2, <2>5 DEF PdoUnderWay, Pdo!NoFrame, Pdo!Frame, Pdo!None
    <3>. QED BY <2>2, <3>1, <3>2
  <2>7. \A i \in 1..Len(wire') : wire'[i].n = remote[Pdo!Value1] - Len(wire') + i
    <3>1. TAKE i \in 1..Len(wire')
    <3>2. wire[i + 1].n = remote[Pdo!Value1] - Len(wire) + (i + 1)
      BY <2>2 DEF PdoFrames
    <3>3. wire'[i] = wire[i + 1] /\ i \in Nat
      BY <2>2
    <3>4. wire'[i].n = remote[Pdo!Value1] - Len(wire) + (i + 1)
      BY <3>2, <3>3
    <3>5. Len(wire') = Len(wire) - 1 /\ Len(wire) \in Nat
      BY <2>2
    <3>6. remote[Pdo!Value1] - Len(wire) + (i + 1) = remote[Pdo!Value1] - Len(wire') + i
      <4>1. \A r, l, k \in Nat : r - l + (k + 1) = r - (l - 1) + k
        OBVIOUS
      <4>2. remote[Pdo!Value1] \in Nat /\ Len(wire) \in Nat /\ i \in Nat
        BY ONLY <2>4, <3>3, <3>5
      <4>3. remote[Pdo!Value1] - Len(wire) + (i + 1) = remote[Pdo!Value1] - (Len(wire) - 1) + i
        BY ONLY <4>1, <4>2
      <4>. QED BY ONLY <3>5, <4>3
    <3>. QED BY ONLY <3>4, <3>6
  <2>8. ~receive_state.failed /\ pc # "done" =>
           mapped' = PdoMap(IF calling'.kind = "bad" THEN receive_state.latest ELSE calling'.n)
    BY <2>3 DEF PdoFrames, PdoMap
  <2>. QED
    BY <2>3, <2>5, <2>6, <2>7, <2>8 DEF PdoFrames, PdoMap, PdoOd, Pdo!NoFrame, Pdo!Frame, Pdo!None
<1>3. PdoViews'
  <2>1. UNCHANGED <<defect, receive_state, pc, view, reply, verdict, result>> /\ calling = Pdo!NoFrame
    BY DEF Pdo!LelyMapsTpdo
  <2>. QED
    BY <2>1 DEF PdoViews, PdoClean, PdoMap, PdoOd, Pdo!VerdictIsSound, Pdo!NoFrame, Pdo!Frame, Pdo!None
<1>4. PdoProbe'
  <2>1. UNCHANGED <<remote, late, pc, result, rpdo, transmit_state, original_value, original_value_saved, applied>>
    BY DEF Pdo!LelyMapsTpdo
  <2>. QED
    BY <2>1 DEF PdoProbe, PdoEarly, PdoComparing, PdoProbing, PdoLast, Pdo!PassMeansRestored, Pdo!ProbeValue
<1>. QED BY <1>1, <1>2, <1>3, <1>4

\* A callback ends every clean snapshot.
LEMMA Pdo_OnRpdo ==
    ASSUME PdoInv, Pdo!OnRpdo
    PROVE  PdoInv'
<1>. USE DEF PdoInv, Pdo!sdo, Pdo!bus, Pdo!env, Pdo!rest, Pdo!local, Pdo!saving, Pdo!FailTo, Pdo!frozen
<1>1. PdoTypes'
  <2>1. calling \in [n : 1..MaxFrames, kind : PdoKinds]
    BY DEF PdoTypes, Pdo!OnRpdo
  <2>2. Pdo!Sampled(receive_state.samples, calling.kind) \in Seq(PdoKinds)
        /\ Len(Pdo!Sampled(receive_state.samples, calling.kind)) <= SampleCount
    BY <2>1, Constants DEF PdoTypes, Pdo!Sampled
  <2>3. receive_state' \in [samples : Seq(PdoKinds), generation : Nat, latest : 0..MaxFrames, failed : BOOLEAN]
    <3>1. CASE receive_state' = receive_state
      BY <3>1 DEF PdoTypes
    <3>2. CASE receive_state' = [receive_state EXCEPT !.failed = TRUE]
      BY <3>2 DEF PdoTypes
    <3>3. CASE receive_state' = [receive_state EXCEPT !.latest = calling.n, !.generation = @ + 1,
                                   !.samples = Pdo!Sampled(@, calling.kind)]
      <4>1. receive_state \in [samples : Seq(PdoKinds), generation : Nat, latest : 0..MaxFrames, failed : BOOLEAN]
        BY DEF PdoTypes
      <4>2. calling.n \in 0..MaxFrames /\ receive_state.generation + 1 \in Nat
        BY <2>1, <4>1, Constants
      <4>. QED BY ONLY <3>3, <2>2, <4>1, <4>2
    <3>. QED BY <3>1, <3>2, <3>3 DEF Pdo!OnRpdo
  <2>4. Len(receive_state'.samples) <= SampleCount
    BY <2>2 DEF PdoTypes, Pdo!OnRpdo
  <2>5. UNCHANGED <<remote, late, reply, op, defect, wire, mapped, rpdo, view, attempt, original_value,
                   original_value_saved, completion_wait_timed_out, pc, result, verdict>> /\ calling' = Pdo!NoFrame
    BY DEF Pdo!OnRpdo
  <2>. QED
    BY <2>3, <2>4, <2>5 DEF PdoTypes, Pdo!NoFrame, Pdo!Frame
<1>2. PdoFrames'
  <2>1. /\ UNCHANGED <<defect, wire, mapped, pc, remote>> /\ calling # Pdo!NoFrame /\ calling' = Pdo!NoFrame
        /\ calling \in [n : 1..MaxFrames, kind : PdoKinds]
    BY DEF Pdo!OnRpdo, PdoTypes
  <2>2. PdoUnderWay = Len(wire) + 1 /\ PdoUnderWay' = Len(wire) /\ Len(wire) \in Nat
    BY <2>1 DEF PdoUnderWay, PdoTypes, Pdo!NoFrame, Pdo!Frame, Pdo!None
  <2>3. remote[Pdo!Value1] \in Nat /\ receive_state.generation \in Nat
    BY Constants DEF PdoTypes, PdoNumbers, Pdo!Objects
  <2>4. \/ receive_state' = receive_state /\ pc = "done"
        \/ receive_state'.failed /\ receive_state'.generation = receive_state.generation
        \/ /\ calling.kind # "bad" /\ receive_state'.failed = receive_state.failed
           /\ receive_state'.latest = calling.n
           /\ receive_state'.generation = receive_state.generation + 1
    BY DEF Pdo!OnRpdo, PdoTypes
  <2>5. receive_state'.generation + PdoUnderWay' <= remote[Pdo!Value1]
    BY <2>2, <2>3, <2>4 DEF PdoFrames
  <2>6. ~receive_state'.failed /\ pc # "done" =>
          /\ receive_state'.latest = receive_state'.generation
          /\ receive_state'.generation + PdoUnderWay' = remote[Pdo!Value1]
          /\ mapped = PdoMap(receive_state'.latest)
    <3>1. ~receive_state'.failed /\ pc # "done" =>
             /\ ~receive_state.failed /\ calling.kind # "bad" /\ receive_state'.latest = calling.n
             /\ receive_state'.generation = receive_state.generation + 1
      BY <2>4
    <3>2. ~receive_state.failed /\ pc # "done" =>
             receive_state.generation + Len(wire) + 1 = remote[Pdo!Value1]
      BY <2>2, <2>3 DEF PdoFrames
    <3>3. calling.n = remote[Pdo!Value1] - Len(wire)
      BY <2>1 DEF PdoFrames
    <3>4. ~receive_state.failed /\ pc # "done" /\ calling.kind # "bad" => mapped = PdoMap(calling.n)
      BY <2>1 DEF PdoFrames
    <3>. QED BY <2>2, <2>3, <3>1, <3>2, <3>3, <3>4
  <2>. QED
    BY <2>1, <2>5, <2>6 DEF PdoFrames, PdoMap, PdoOd, Pdo!NoFrame, Pdo!Frame, Pdo!None
<1>3. PdoViews'
  <2>1. /\ UNCHANGED <<defect, pc, view, reply, verdict, result>>
        /\ receive_state.generation \in Nat
    BY DEF Pdo!OnRpdo, PdoTypes
  <2>2. pc # "done" => \/ receive_state'.failed /\ receive_state'.generation = receive_state.generation
                       \/ receive_state'.generation = receive_state.generation + 1
    BY DEF Pdo!OnRpdo, PdoTypes
  <2>3. pc \in PdoComparing => ~PdoClean'
    BY <2>1, <2>2 DEF PdoViews, PdoClean, PdoTypes, PdoComparing
  <2>4. pc \in PdoComparing => view.generation <= receive_state'.generation
    BY <2>1, <2>2 DEF PdoViews, PdoTypes, PdoComparing
  <2>. QED
    BY <2>1, <2>3, <2>4 DEF PdoViews, PdoComparing, Pdo!VerdictIsSound
<1>4. PdoProbe'
  <2>1. UNCHANGED <<remote, late, pc, result, rpdo, transmit_state, original_value, original_value_saved, applied>>
    BY DEF Pdo!OnRpdo
  <2>. QED
    BY <2>1 DEF PdoProbe, PdoEarly, PdoComparing, PdoProbing, PdoLast, Pdo!PassMeansRestored, Pdo!ProbeValue
<1>. QED BY <1>1, <1>2, <1>3, <1>4

\* An RPDO leaves; the slave may take it.
LEMMA Pdo_OnTpdo ==
    ASSUME PdoInv, Pdo!OnTpdo
    PROVE  PdoInv'
<1>. USE DEF PdoInv, Pdo!sdo, Pdo!bus, Pdo!env, Pdo!rest, Pdo!local, Pdo!saving, Pdo!FailTo, Pdo!frozen
<1>1. PdoTypes'
  <2>1. rpdo \in Seq(Pdo!TestValues) /\ rpdo # <<>> /\ remote \in [Pdo!Objects -> PdoNumbers]
    BY DEF PdoTypes, Pdo!OnTpdo
  <2>2. rpdo' \in Seq(Pdo!TestValues) /\ Head(rpdo) \in Pdo!TestValues
    BY <2>1 DEF Pdo!OnTpdo
  <2>3. remote' = remote \/ remote' = [remote EXCEPT ![Pdo!Test] = Head(rpdo)]
    BY DEF Pdo!OnTpdo
  <2>4. Pdo!TestValues \subseteq PdoNumbers
    BY Constants DEF Pdo!TestValues, PdoNumbers, Pdo!Original, Pdo!Probe, Pdo!Alternate
  <2>5. /\ remote' \in [Pdo!Objects -> PdoNumbers] /\ remote'[Pdo!Value1] = remote[Pdo!Value1]
        /\ remote'[Pdo!Test] \in Pdo!TestValues
    BY <2>1, <2>2, <2>3, <2>4 DEF PdoTypes, Pdo!Objects, Pdo!Value1, Pdo!Value2, Pdo!Test
  <2>6. UNCHANGED <<late, reply, op, defect, wire, mapped, calling, receive_state, view, attempt, original_value,
                   original_value_saved, completion_wait_timed_out, pc, result, verdict>>
    BY DEF Pdo!OnTpdo
  <2>. QED
    BY <2>2, <2>5, <2>6 DEF PdoTypes, Pdo!NoFrame, Pdo!Frame
<1>2. PdoFrames'
  <2>1. UNCHANGED <<defect, wire, mapped, calling, receive_state, pc>>
    BY DEF Pdo!OnTpdo
  <2>2. remote' = remote \/ remote' = [remote EXCEPT ![Pdo!Test] = Head(rpdo)]
    BY DEF Pdo!OnTpdo
  <2>3. remote'[Pdo!Value1] = remote[Pdo!Value1] /\ remote'[Pdo!Value2] = remote[Pdo!Value2]
    BY <2>2 DEF PdoTypes, Pdo!Objects, Pdo!Value1, Pdo!Value2, Pdo!Test
  <2>. QED
    BY <2>1, <2>3, PdoFramesKept
<1>3. PdoViews'
  <2>1. UNCHANGED <<defect, calling, receive_state, pc, view, reply, verdict, result>>
    BY DEF Pdo!OnTpdo
  <2>. QED
    BY <2>1 DEF PdoViews, PdoClean, PdoMap, PdoOd, Pdo!VerdictIsSound, Pdo!NoFrame, Pdo!Frame, Pdo!None
<1>4. PdoProbe'
  <2>1. UNCHANGED <<late, pc, result, original_value, original_value_saved>> /\ rpdo # <<>> /\ rpdo' = Tail(rpdo)
    BY DEF Pdo!OnTpdo
  <2>2. \/ remote' = remote /\ applied' = applied
        \/ /\ remote' = [remote EXCEPT ![Pdo!Test] = Head(rpdo)]
           /\ applied' = IF original_value_saved THEN applied \cup {Head(rpdo)} ELSE applied
    BY DEF Pdo!OnTpdo
  <2>3. rpdo \in Seq(Pdo!TestValues) /\ remote \in [Pdo!Objects -> PdoNumbers]
    BY DEF PdoTypes
  <2>4. applied \subseteq applied' /\ Len(rpdo') <= Len(rpdo) /\ (rpdo' # <<>> => rpdo # <<>>) /\ Len(rpdo) \in Nat
        /\ Len(rpdo') \in Nat
    BY <2>1, <2>2, <2>3
  <2>5. pc \in PdoProbing => remote'[Pdo!Test] = original_value \/ remote'[Pdo!Test] \in applied'
    BY <2>2, <2>3 DEF PdoProbe, PdoProbing, Pdo!Objects, Pdo!Test
  <2>6. pc = "done" /\ result = 0 => FALSE
    BY <2>1 DEF PdoProbe, Pdo!PassMeansRestored
  <2>7. pc \in {"clear", "event"} => FALSE
    BY <2>1 DEF PdoProbe
  <2>. QED
    BY <2>1, <2>4, <2>5, <2>6, <2>7 DEF PdoProbe, PdoEarly, PdoComparing, PdoProbing, PdoLast, Pdo!PassMeansRestored, Pdo!ProbeValue
<1>. QED BY <1>1, <1>2, <1>3, <1>4

\* What writeRemoteSdo() may do.
LEMMA PdoWrite ==
    ASSUME NEW v, Pdo!Sdo!SdoWrite(Pdo!Test, v)
    PROVE  /\ remote' = remote \/ remote' = [remote EXCEPT ![Pdo!Test] = v]
           /\ late' = late \/ (late' = Append(late, <<Pdo!Test, v>>) /\ reply'.class = "WAIT_TIMEOUT")
    BY DEF Pdo!Sdo!SdoWrite, Pdo!Sdo!Answer, Pdo!Sdo!Written

\* The restoration write, which may be abandoned.
LEMMA Pdo_RestoreWrite ==
    ASSUME PdoInv, Pdo!RestoreWrite
    PROVE  PdoInv'
<1>. USE DEF PdoInv, Pdo!sdo, Pdo!bus, Pdo!env, Pdo!rest, Pdo!local, Pdo!saving, Pdo!FailTo, Pdo!frozen
<1>1. PdoTypes'
  <2>1. UNCHANGED <<op, defect, wire, mapped, calling, receive_state, rpdo, view, attempt, verdict,
                   original_value, original_value_saved>>
    BY DEF Pdo!RestoreWrite
  <2>2. completion_wait_timed_out' \in BOOLEAN
    BY DEF Pdo!RestoreWrite, Pdo!TimedOut
  <2>3. pc' \in PdoPlaces /\ result' \in {0, 1}
    BY DEF Pdo!RestoreWrite, PdoTypes, PdoPlaces, PdoEarly, PdoComparing, PdoProbing, PdoLast
  <2>4. Pdo!TestValues \subseteq PdoNumbers
    BY Constants DEF Pdo!TestValues, PdoNumbers, Pdo!Original, Pdo!Probe, Pdo!Alternate
  <2>5. remote \in [Pdo!Objects -> PdoNumbers] /\ original_value \in Pdo!TestValues
    BY DEF PdoTypes
  <2>6. /\ remote' \in [Pdo!Objects -> PdoNumbers] /\ remote'[Pdo!Value1] = remote[Pdo!Value1]
        /\ remote'[Pdo!Test] \in Pdo!TestValues
    BY <2>4, <2>5, PdoWrite DEF Pdo!RestoreWrite, PdoTypes, Pdo!Objects, Pdo!Value1, Pdo!Value2, Pdo!Test
  <2>7. late' \in Seq({Pdo!Test} \X Pdo!TestValues) /\ Len(late') <= 1
    <3>1. late = <<>> /\ <<Pdo!Test, original_value>> \in {Pdo!Test} \X Pdo!TestValues
      BY <2>5 DEF PdoProbe, PdoLast, Pdo!RestoreWrite
    <3>2. late' = <<>> \/ late' = Append(<<>>, <<Pdo!Test, original_value>>)
      BY <3>1, PdoWrite DEF Pdo!RestoreWrite
    <3>3. /\ Append(<<>>, <<Pdo!Test, original_value>>) \in Seq({Pdo!Test} \X Pdo!TestValues)
          /\ Len(Append(<<>>, <<Pdo!Test, original_value>>)) = 1
      BY <3>1, OneElement
    <3>4. CASE late' = <<>>
      BY ONLY <3>4
    <3>5. CASE late' = Append(<<>>, <<Pdo!Test, original_value>>)
      BY ONLY <3>3, <3>5
    <3>. QED BY <3>2, <3>4, <3>5
  <2>. QED
    BY <2>1, <2>2, <2>3, <2>6, <2>7 DEF PdoTypes, Pdo!NoFrame, Pdo!Frame
<1>2. PdoFrames'
  <2>1. UNCHANGED <<defect, wire, mapped, calling, receive_state>> /\ pc # "done"
    BY DEF Pdo!RestoreWrite
  <2>2. remote'[Pdo!Value1] = remote[Pdo!Value1] /\ remote'[Pdo!Value2] = remote[Pdo!Value2]
    BY PdoWrite DEF Pdo!RestoreWrite, PdoTypes, Pdo!Objects, Pdo!Value1, Pdo!Value2, Pdo!Test
  <2>. QED BY <2>1, <2>2, PdoFramesKept
<1>3. PdoViews'
  BY PdoViewsOutside DEF Pdo!RestoreWrite, PdoEarly, PdoComparing
<1>4. PdoProbe'
  <2>1. UNCHANGED <<rpdo, applied, original_value, original_value_saved>> /\ pc = "restore" /\ late = <<>>
    BY DEF Pdo!RestoreWrite, PdoProbe, PdoLast
  <2>2. \/ pc' \in {"lastClear", "done"} /\ result' = 1 /\ (late' = <<>> \/ pc' = "lastClear")
        \/ pc' = "verify" /\ result' = result /\ late' = <<>>
    BY <2>1, PdoWrite DEF Pdo!RestoreWrite
  <2>. QED
    BY <2>1, <2>2 DEF PdoProbe, PdoEarly, PdoComparing, PdoProbing, PdoLast, Pdo!PassMeansRestored, Pdo!ProbeValue
<1>. QED BY <1>1, <1>2, <1>3, <1>4

\* Only a failed run leaves an abandoned write behind.
LEMMA Pdo_LateEffect ==
    ASSUME PdoInv, Pdo!LateEffect
    PROVE  PdoInv'
<1>. USE DEF PdoInv, Pdo!sdo, Pdo!bus, Pdo!env, Pdo!rest, Pdo!local, Pdo!saving, Pdo!FailTo, Pdo!frozen
<1>1. PdoTypes'
  <2>1. late \in Seq({Pdo!Test} \X Pdo!TestValues) /\ late # <<>> /\ late' = Tail(late)
    BY DEF PdoTypes, Pdo!LateEffect, Pdo!Sdo!LateWrite, Pdo!Sdo!LateLoss
  <2>2. late' \in Seq({Pdo!Test} \X Pdo!TestValues) /\ Len(late') <= 1 /\ late[1] \in {Pdo!Test} \X Pdo!TestValues
        /\ Head(late) = late[1]
    <3>1. Len(late') = Len(late) - 1 /\ late' \in Seq({Pdo!Test} \X Pdo!TestValues) /\ Len(late) \in Nat
          /\ Head(late) = late[1] /\ Head(late) \in {Pdo!Test} \X Pdo!TestValues
      BY <2>1, HeadTail
    <3>. QED BY <3>1 DEF PdoTypes
  <2>3. PICK v \in Pdo!TestValues : Head(late) = <<Pdo!Test, v>>
    BY <2>2
  <2>4. remote' = remote \/ remote' = [remote EXCEPT ![Pdo!Test] = v]
    BY <2>3 DEF Pdo!LateEffect, Pdo!Sdo!LateWrite, Pdo!Sdo!LateLoss, Pdo!Sdo!Written
  <2>5. Pdo!TestValues \subseteq PdoNumbers /\ remote \in [Pdo!Objects -> PdoNumbers]
    BY Constants DEF PdoTypes, Pdo!TestValues, PdoNumbers, Pdo!Original, Pdo!Probe, Pdo!Alternate
  <2>6. /\ remote' \in [Pdo!Objects -> PdoNumbers] /\ remote'[Pdo!Value1] = remote[Pdo!Value1]
        /\ remote'[Pdo!Test] \in Pdo!TestValues
    BY <2>3, <2>4, <2>5 DEF PdoTypes, Pdo!Objects, Pdo!Value1, Pdo!Value2, Pdo!Test
  <2>7. UNCHANGED <<reply, op, defect, wire, mapped, calling, receive_state, rpdo, view, attempt, original_value,
                   original_value_saved, completion_wait_timed_out, pc, result, verdict>>
    BY DEF Pdo!LateEffect, Pdo!Sdo!LateWrite, Pdo!Sdo!LateLoss
  <2>. QED
    BY <2>2, <2>6, <2>7 DEF PdoTypes, Pdo!NoFrame, Pdo!Frame
<1>2. PdoFrames'
  <2>1. late \in Seq({Pdo!Test} \X Pdo!TestValues) /\ late # <<>>
    BY DEF PdoTypes, Pdo!LateEffect, Pdo!Sdo!LateWrite, Pdo!Sdo!LateLoss
  <2>2. Head(late) \in {Pdo!Test} \X Pdo!TestValues
    BY <2>1, HeadTail
  <2>3. PICK v \in Pdo!TestValues : Head(late) = <<Pdo!Test, v>>
    BY <2>2
  <2>4. remote' = remote \/ remote' = [remote EXCEPT ![Pdo!Test] = v]
    BY <2>3 DEF Pdo!LateEffect, Pdo!Sdo!LateWrite, Pdo!Sdo!LateLoss, Pdo!Sdo!Written
  <2>5. remote'[Pdo!Value1] = remote[Pdo!Value1] /\ remote'[Pdo!Value2] = remote[Pdo!Value2]
    BY <2>4 DEF PdoTypes, Pdo!Objects, Pdo!Value1, Pdo!Value2, Pdo!Test
  <2>6. UNCHANGED <<defect, wire, mapped, calling, receive_state, pc>>
    BY DEF Pdo!LateEffect
  <2>. QED BY <2>5, <2>6, PdoFramesKept
<1>3. PdoViews'
  <2>1. UNCHANGED <<verdict, defect, pc, result>> /\ late # <<>>
    BY DEF Pdo!LateEffect, Pdo!Sdo!LateWrite, Pdo!Sdo!LateLoss
  <2>2. pc \notin PdoComparing
    BY <2>1 DEF PdoProbe, PdoLast, PdoComparing
  <2>. QED BY <2>1, <2>2, PdoViewsOutside
<1>4. PdoProbe'
  <2>1. UNCHANGED <<pc, result, rpdo, original_value, original_value_saved, applied>> /\ late # <<>>
    BY DEF Pdo!LateEffect, Pdo!Sdo!LateWrite, Pdo!Sdo!LateLoss
  <2>2. pc \in PdoLast \cup {"done"} /\ result = 1
    BY <2>1 DEF PdoProbe
  <2>. QED
    BY <2>1, <2>2 DEF PdoProbe, PdoEarly, PdoComparing, PdoProbing, PdoLast, Pdo!PassMeansRestored, Pdo!ProbeValue
<1>. QED BY <1>1, <1>2, <1>3, <1>4

\* PdoProcess starts in its invariant and stays in it.
LEMMA PdoStarts ==
    ASSUME Pdo!Init
    PROVE  PdoInv
<1>. USE Constants DEF Pdo!Init, Pdo!Sdo!SdoInit, Pdo!NoFrame, Pdo!Frame, Pdo!None
<1>1. PICK v \in {Pdo!Original, Pdo!Probe} : remote = [o \in Pdo!Objects |-> IF o = Pdo!Test THEN v ELSE 0]
  OBVIOUS
<1>2. /\ remote[Pdo!Value1] = 0 /\ remote[Pdo!Value2] = 0 /\ remote[Pdo!Test] \in Pdo!TestValues
      /\ remote \in [Pdo!Objects -> PdoNumbers]
  BY <1>1 DEF Pdo!Objects, Pdo!Value1, Pdo!Value2, Pdo!Test, Pdo!TestValues, Pdo!Original, Pdo!Probe, PdoNumbers
<1>3. rpdo \in Seq(Pdo!TestValues) /\ rpdo = <<>> /\ Len(rpdo) <= 1
  OBVIOUS
<1>4. /\ late = <<>> /\ wire = <<>> /\ mapped = 0 /\ calling = Pdo!NoFrame /\ pc = "startMaster" /\ result = 0
      /\ receive_state = [samples |-> <<>>, generation |-> 0, latest |-> 0, failed |-> FALSE]
      /\ attempt = 0 /\ original_value = 0 /\ original_value_saved = FALSE /\ verdict = "none"
      /\ completion_wait_timed_out = FALSE /\ op \in BOOLEAN /\ defect \in {"none", "od", "map"}
  OBVIOUS
<1>5. view \in [generation : Nat, raw : Nat, mapped1 : Nat, mapped2 : Nat, sdo1 : Nat]
  BY DEF Pdo!NoView
<1>6. PdoTypes
  <2>1. receive_state \in [samples : Seq(PdoKinds), generation : Nat, latest : 0..MaxFrames, failed : BOOLEAN]
        /\ Len(receive_state.samples) <= SampleCount
    BY ONLY <1>4, Constants
  <2>2. pc \in PdoPlaces /\ original_value \in Pdo!TestValues
    BY ONLY <1>4 DEF PdoPlaces, PdoEarly, Pdo!TestValues, Pdo!Original
  <2>3. late \in Seq({Pdo!Test} \X Pdo!TestValues) /\ Len(late) <= 1
        /\ wire \in Seq([n : 1..MaxFrames, kind : PdoKinds])
    BY ONLY <1>4
  <2>4. mapped \in 0..MaxFrames /\ attempt \in 0..RetryCount /\ remote[Pdo!Value1] <= MaxFrames
    BY ONLY <1>2, <1>4, Constants
  <2>. QED BY ONLY <1>2, <1>3, <1>4, <1>5, <2>1, <2>2, <2>3, <2>4 DEF PdoTypes
<1>7. PdoFrames
  BY ONLY <1>2, <1>4 DEF PdoFrames, PdoUnderWay, PdoMap, PdoOd
<1>8. PdoViews
  BY ONLY <1>4 DEF PdoViews, PdoComparing, PdoEarly, Pdo!VerdictIsSound
<1>9. PdoProbe
  BY ONLY <1>3, <1>4 DEF PdoProbe, PdoEarly, PdoProbing, PdoLast, Pdo!PassMeansRestored
<1>. QED BY <1>6, <1>7, <1>8, <1>9 DEF PdoInv

\* Every step of the PDO validation keeps its invariant: one case per action.
LEMMA PdoStays ==
    ASSUME PdoInv, Pdo!Next
    PROVE  PdoInv'
<1>1. CASE Pdo!Done
  <2>1. UNCHANGED Pdo!vars
    BY <1>1 DEF Pdo!Done
  <2>2. UNCHANGED <<remote, late, reply, op, defect, wire, mapped, calling, receive_state, rpdo, view, attempt,
                   original_value, original_value_saved, completion_wait_timed_out, pc, result, verdict, applied,
                   transmit_state>>
    BY <2>1 DEF Pdo!vars, Pdo!sdo, Pdo!bus, Pdo!saving, Pdo!local
  <2>3. PdoTypes'
    BY <2>2 DEF PdoInv, PdoTypes, Pdo!NoFrame, Pdo!Frame
  <2>4. PdoFrames'
    BY <2>2, PdoFramesKept DEF PdoInv
  <2>5. PdoViews'
    BY <1>1, <2>2, PdoViewsOutside DEF PdoInv, Pdo!Done, PdoComparing
  <2>6. PdoProbe'
    BY <2>2 DEF PdoInv, PdoProbe, Pdo!PassMeansRestored, Pdo!ProbeValue
  <2>. QED BY <2>3, <2>4, <2>5, <2>6 DEF PdoInv
<1>. QED BY <1>1, Pdo_StartMaster, Pdo_StartSlave, Pdo_WaitForTpdoSamples,
     Pdo_GetLatestTpdoSample, Pdo_ReadMappedTpdoValue, Pdo_CheckMappedStable,
     Pdo_ReadSdo1, Pdo_ReadSdo2, Pdo_Compare, Pdo_SaveOriginal,
     Pdo_ClearTransmitState, Pdo_WriteEvent, Pdo_WaitTransmit, Pdo_ReadBack,
     Pdo_Cleanup, Pdo_RestoreWrite, Pdo_RestoreVerify, Pdo_LastWait,
     Pdo_SlaveSendsTpdo, Pdo_LelyMapsTpdo, Pdo_OnRpdo, Pdo_OnTpdo,
     Pdo_LateEffect
  DEF Pdo!Next, Pdo!Thread

\* What the invariant says of the properties.
LEMMA PdoPromises ==
    ASSUME PdoInv
    PROVE  Pdo!TypeOK /\ Pdo!VerdictIsSound /\ Pdo!PassHasEvidence /\ Pdo!PassMeansRestored
<1>1. Pdo!TypeOK
  <2>1. receive_state.generation \in 0..MaxFrames
    <3>1. PdoUnderWay \in Nat
      BY DEF PdoInv, PdoTypes, PdoUnderWay
    <3>2. remote[Pdo!Value1] \in 0..MaxFrames
      BY Constants DEF PdoInv, PdoTypes, PdoNumbers, Pdo!Objects
    <3>3. receive_state.generation \in Nat /\ receive_state.generation + PdoUnderWay <= remote[Pdo!Value1]
      BY DEF PdoInv, PdoTypes, PdoFrames
    <3>. QED BY ONLY <3>1, <3>2, <3>3, Constants
  <2>2. Len(rpdo) <= 2
    <3>1. Len(rpdo) <= (IF pc \in {"lastWait", "done"} THEN 2 ELSE 1) /\ rpdo \in Seq(Pdo!TestValues)
      BY DEF PdoInv, PdoTypes, PdoProbe
    <3>. QED BY ONLY <3>1
  <2>. QED BY <2>1, <2>2 DEF PdoInv, PdoTypes, Pdo!TypeOK, PdoNumbers
<1>2. Pdo!VerdictIsSound /\ Pdo!PassMeansRestored
  BY DEF PdoInv, PdoViews, PdoProbe
<1>3. Pdo!PassHasEvidence
  BY DEF PdoInv, PdoViews, PdoProbe, Pdo!PassHasEvidence, PdoEarly, PdoComparing
<1>. QED BY <1>1, <1>2, <1>3

-----------------------------------------------------------------------------
(* SyncPdoProcess: the inductive invariant.                                *)

SyncTest == {"check", "startSlave", "quiet", "periodOn", "samples", "silence"}
SyncFinal == {"verdict", "start", "event", "lastPeriod", "done"}
SyncBefore == {"topology", "startMaster", "preop", "snapshot", "conditions",
               "period0"}
SyncPlaces == SyncBefore \cup {"configure"} \cup SyncTest
              \cup {"stopSync", "cleanPreop", "restore", "verify", "reset",
                    "recoverPreop", "recovered"} \cup SyncFinal

SyncTypes ==
    /\ remote \in [SyncPdo!Objects -> SyncPdo!Values]
    /\ remote[SyncPdo!SyncCob] = "consumer"
    /\ stored \in [SyncPdo!Objects -> SyncPdo!Values]
    /\ stored[SyncPdo!SyncCob] = "consumer"
    /\ original \in [SyncPdo!Objects -> SyncPdo!Values]
    /\ original[SyncPdo!SyncCob] = "consumer"
    /\ late \in Seq({SyncPdo!Cob, SyncPdo!Type} \X SyncPdo!Values) /\ Len(late) <= 1
    /\ nmt \in {"op", "preop"} /\ period \in {"0", "test", "original"}
    /\ observed \in Seq({"S", "T", "L"}) /\ Len(observed) <= MaxEvents
    /\ failed \in BOOLEAN /\ result \in {0, 1} /\ refused \in BOOLEAN
    /\ flags \in [SyncPdo!FlagNames -> BOOLEAN]
    /\ produced \in Nat /\ tpdos \in Nat /\ restored \in Nat
    /\ pc \in SyncPlaces /\ pos \in 1..3
    /\ (pc \notin SyncPdo!Scripted => pos = 1) /\ (pc = "topology" => pos = 1)
    /\ pc \in {"snapshot", "check"} => pos <= 2

\* An abandoned write is left only where the process knows of it; verified
\* parameters are the slave's own and stay so.
SyncSafe ==
    /\ late = <<>> \/ pc \in {"reset", "recoverPreop", "recovered"} \cup SyncFinal
                   \/ (pc = "stopSync" /\ flags.completion_wait_timed_out)
    /\ pc = "recovered" /\ pos > 1 => late = <<>>
    /\ pc \in {"verify", "recovered"} =>
          /\ pos > 1 => remote[SyncPdo!Cob] = original[SyncPdo!Cob]
          /\ pos > 2 => remote[SyncPdo!Type] = original[SyncPdo!Type]
    /\ flags.restoration_verified =>
          pc \in SyncFinal /\ remote = original /\ late = <<>>

\* The local SYNC period is the original one until it is touched, and what
\* changes it later runs only after that.
SyncLocal ==
    /\ flags.local_sync_period_touched \/ refused \/ period = "original"
    /\ (pc \in {"configure"} \cup SyncTest \/ flags.callbacks_registered)
          => flags.local_sync_period_touched
    /\ SyncPdo!SyncProducerRestored

SyncHas(fs) == \A f \in fs : flags[f]
SyncDone == {"snapshot_saved", "tpdo_modification_attempted",
             "temporary_configuration_completed", "local_sync_period_touched"}

\* A run without a failure: which flags it has raised, and where the slave
\* and the observation are.
SyncPath ==
    result = 0 =>
        /\ ~flags.completion_wait_timed_out
        /\ pc \notin {"reset", "recoverPreop", "recovered"}
        /\ pc \in {"conditions", "period0", "configure"} => flags.snapshot_saved
        /\ pc = "configure" /\ pos > 1 => flags.tpdo_modification_attempted
        /\ pc \notin SyncBefore \cup {"configure"} => SyncHas(SyncDone)
        /\ pc \in {"quiet", "periodOn", "samples", "silence", "stopSync",
                   "cleanPreop"}
              => flags.callbacks_registered /\ ~flags.slave_needs_start
        /\ pc \in {"restore", "verify", "verdict", "start"}
              => flags.callbacks_registered /\ flags.slave_needs_start /\ nmt = "preop"
        /\ pc = "event" => flags.callbacks_registered /\ ~flags.slave_needs_start
        /\ pc \in SyncFinal => flags.restoration_verified

\* What such a run has counted.
SyncCounted ==
    result = 0 =>
        /\ pc \in {"samples", "silence"} =>
              /\ produced = SyncPdo!SyncCount
              /\ ~failed => tpdos = SyncPdo!TpdoCount
              /\ (~failed /\ SyncPdo!SyncCount = SyncSamples) => period = "0"
        /\ pc \in {"stopSync", "cleanPreop", "restore", "verify"} \cup SyncFinal =>
              produced = SyncSamples /\ tpdos = SyncSamples
        /\ pc \in {"stopSync", "cleanPreop", "restore", "verify", "verdict", "start",
                   "event", "lastPeriod"} => period = "0"
        /\ pc = "start" => observed = <<>>
        /\ pc = "event" => /\ restored >= Len(observed)
                           /\ observed # <<>> => nmt = "op"
        /\ pc \in {"lastPeriod", "done"} => restored >= 2 /\ nmt = "op"

SyncInv == SyncTypes /\ SyncSafe /\ SyncLocal /\ SyncPath /\ SyncCounted

-----------------------------------------------------------------------------
(* SyncPdoProcess: counting, flags and SDO calls.                          *)

\* The counts depend on the observation alone.
LEMMA SyncCountKept ==
    ASSUME UNCHANGED observed
    PROVE  SyncPdo!SyncCount' = SyncPdo!SyncCount /\ SyncPdo!TpdoCount' = SyncPdo!TpdoCount
    BY DEF SyncPdo!SyncCount, SyncPdo!TpdoCount

\* An empty observation counts nothing.
LEMMA SyncCountEmpty ==
    ASSUME observed = <<>>
    PROVE  SyncPdo!SyncCount = 0 /\ SyncPdo!TpdoCount = 0
<1>1. {i \in DOMAIN observed : observed[i] = "S"} = {}
  OBVIOUS
<1>. QED BY <1>1, FS_EmptySet DEF SyncPdo!SyncCount, SyncPdo!TpdoCount, SyncPdo!Cardinality, Cardinality

\* One more event counts where it belongs.
LEMMA SyncCountAppend ==
    ASSUME NEW e, observed \in Seq({"S", "T", "L"}), observed' = Append(observed, e)
    PROVE  /\ SyncPdo!SyncCount \in Nat /\ Len(observed) \in Nat
           /\ e = "S" => /\ SyncPdo!SyncCount' = SyncPdo!SyncCount + 1
                         /\ SyncPdo!TpdoCount' = SyncPdo!TpdoCount
           /\ e # "S" => /\ SyncPdo!SyncCount' = SyncPdo!SyncCount
                         /\ SyncPdo!TpdoCount' = SyncPdo!TpdoCount + 1
<1>. DEFINE S == {i \in DOMAIN observed : observed[i] = "S"}
            n == Len(observed) + 1
<1>1. /\ Len(observed) \in Nat /\ DOMAIN observed = 1..Len(observed)
      /\ DOMAIN observed' = 1..n /\ Len(observed') = n /\ observed'[n] = e
      /\ \A i \in 1..Len(observed) : observed'[i] = observed[i]
  OBVIOUS
<1>2. IsFiniteSet(S)
  BY <1>1, FS_Interval, FS_Subset, 1 \in Int, Len(observed) \in Int
<1>3. n \notin S
  BY <1>1
<1>4. Cardinality(S) \in Nat /\ Cardinality(S \cup {n}) = Cardinality(S) + 1
  BY <1>2, <1>3, FS_CardinalityType, FS_AddElement
<1>5. {i \in DOMAIN observed' : observed'[i] = "S"} = IF e = "S" THEN S \cup {n} ELSE S
  BY <1>1
<1>6. SyncPdo!SyncCount = Cardinality(S)
  BY DEF SyncPdo!SyncCount, SyncPdo!Cardinality, Cardinality
<1>7. SyncPdo!SyncCount' = IF e = "S" THEN Cardinality(S \cup {n}) ELSE Cardinality(S)
  <2>1. SyncPdo!SyncCount' = Cardinality({i \in DOMAIN observed' : observed'[i] = "S"})
    BY DEF SyncPdo!SyncCount, SyncPdo!Cardinality, Cardinality
  <2>. QED BY <2>1, <1>5
<1>8. SyncPdo!TpdoCount = Len(observed) - SyncPdo!SyncCount /\ SyncPdo!TpdoCount' = n - SyncPdo!SyncCount'
  BY <1>1 DEF SyncPdo!TpdoCount
<1>. HIDE DEF S, n
<1>9. n = Len(observed) + 1
  BY DEF n
<1>. QED BY <1>1, <1>4, <1>6, <1>7, <1>8, <1>9

\* Flags are only raised.
LEMMA SyncSet ==
    ASSUME NEW fs, SyncPdo!Set(fs), flags \in [SyncPdo!FlagNames -> BOOLEAN]
    PROVE  /\ flags' \in [SyncPdo!FlagNames -> BOOLEAN]
           /\ \A f \in SyncPdo!FlagNames : flags'[f] <=> flags[f] \/ f \in fs
    BY DEF SyncPdo!Set

\* startMasterNode: the local start request moves the thread alone.
LEMMA Sync_StartMaster ==
    ASSUME SyncInv, SyncPdo!StartMaster
    PROVE  SyncInv'
<1>. USE DEF SyncInv, SyncPdo!sdo, SyncPdo!slave, SyncPdo!observation, SyncPdo!history, SyncPdo!thread, SyncPdo!Goto, SyncPdo!Pass, SyncPdo!FailTo
<1>1. SyncTypes'
  BY DEF SyncPdo!StartMaster, SyncTypes, SyncPlaces, SyncBefore, SyncTest, SyncFinal, SyncPdo!Scripted
<1>2. SyncSafe'
  BY DEF SyncPdo!StartMaster, SyncSafe, SyncTypes, SyncFinal, SyncPdo!FlagNames
<1>3. SyncLocal'
  BY DEF SyncPdo!StartMaster, SyncLocal, SyncTypes, SyncTest, SyncPdo!SyncProducerRestored, SyncPdo!FlagNames
<1>4. SyncPath'
  BY DEF SyncPdo!StartMaster, SyncPath, SyncHas, SyncDone, SyncTypes, SyncBefore, SyncTest, SyncFinal, SyncPdo!FlagNames
<1>5. SyncCounted'
  BY SyncCountKept DEF SyncPdo!StartMaster, SyncCounted, SyncTypes, SyncFinal
<1>. QED BY <1>1, <1>2, <1>3, <1>4, <1>5

\* The preconditions of the SYNC test: passed or not, nothing but the thread moves.
LEMMA Sync_CheckConditions ==
    ASSUME SyncInv, SyncPdo!CheckConditions
    PROVE  SyncInv'
<1>. USE DEF SyncInv, SyncPdo!sdo, SyncPdo!slave, SyncPdo!observation, SyncPdo!history, SyncPdo!thread, SyncPdo!Goto, SyncPdo!Pass, SyncPdo!FailTo
<1>1. SyncTypes'
  BY DEF SyncPdo!CheckConditions, SyncTypes, SyncPlaces, SyncBefore, SyncTest, SyncFinal, SyncPdo!Scripted
<1>2. SyncSafe'
  BY DEF SyncPdo!CheckConditions, SyncSafe, SyncTypes, SyncFinal, SyncPdo!FlagNames
<1>3. SyncLocal'
  BY DEF SyncPdo!CheckConditions, SyncLocal, SyncTypes, SyncTest, SyncPdo!SyncProducerRestored, SyncPdo!FlagNames
<1>4. SyncPath'
  BY DEF SyncPdo!CheckConditions, SyncPath, SyncHas, SyncDone, SyncTypes, SyncBefore, SyncTest, SyncFinal, SyncPdo!FlagNames
<1>5. SyncCounted'
  BY SyncCountKept DEF SyncPdo!CheckConditions, SyncCounted, SyncTypes, SyncFinal
<1>. QED BY <1>1, <1>2, <1>3, <1>4, <1>5

\* verifyQuietWindow: no frame may be in the window before SYNC starts.
LEMMA Sync_verifyQuietWindow ==
    ASSUME SyncInv, SyncPdo!verifyQuietWindow
    PROVE  SyncInv'
<1>. USE DEF SyncInv, SyncPdo!sdo, SyncPdo!slave, SyncPdo!observation, SyncPdo!history, SyncPdo!thread, SyncPdo!Goto, SyncPdo!Pass, SyncPdo!FailTo
<1>1. SyncTypes'
  BY DEF SyncPdo!verifyQuietWindow, SyncTypes, SyncPlaces, SyncBefore, SyncTest, SyncFinal, SyncPdo!Scripted, SyncPdo!Validate
<1>2. SyncSafe'
  BY DEF SyncPdo!verifyQuietWindow, SyncSafe, SyncTypes, SyncFinal, SyncPdo!FlagNames, SyncPdo!Validate
<1>3. SyncLocal'
  BY DEF SyncPdo!verifyQuietWindow, SyncLocal, SyncTypes, SyncTest, SyncPdo!SyncProducerRestored, SyncPdo!FlagNames, SyncPdo!Validate
<1>4. SyncPath'
  BY DEF SyncPdo!verifyQuietWindow, SyncPath, SyncHas, SyncDone, SyncTypes, SyncBefore, SyncTest, SyncFinal, SyncPdo!FlagNames, SyncPdo!Validate
<1>5. SyncCounted'
  BY SyncCountKept DEF SyncPdo!verifyQuietWindow, SyncCounted, SyncTypes, SyncFinal, SyncPdo!Validate
<1>. QED BY <1>1, <1>2, <1>3, <1>4, <1>5

\* waitForSynchronousSamples: the wait ends on what the callbacks have counted.
LEMMA Sync_waitForSynchronousSamples ==
    ASSUME SyncInv, SyncPdo!waitForSynchronousSamples
    PROVE  SyncInv'
<1>. USE DEF SyncInv, SyncPdo!sdo, SyncPdo!slave, SyncPdo!observation, SyncPdo!history, SyncPdo!thread, SyncPdo!Goto, SyncPdo!Pass, SyncPdo!FailTo
<1>1. SyncTypes'
  BY DEF SyncPdo!waitForSynchronousSamples, SyncTypes, SyncPlaces, SyncBefore, SyncTest, SyncFinal, SyncPdo!Scripted, SyncPdo!Validate
<1>2. SyncSafe'
  BY DEF SyncPdo!waitForSynchronousSamples, SyncSafe, SyncTypes, SyncFinal, SyncPdo!FlagNames, SyncPdo!Validate
<1>3. SyncLocal'
  BY DEF SyncPdo!waitForSynchronousSamples, SyncLocal, SyncTypes, SyncTest, SyncPdo!SyncProducerRestored, SyncPdo!FlagNames, SyncPdo!Validate
<1>4. SyncPath'
  BY DEF SyncPdo!waitForSynchronousSamples, SyncPath, SyncHas, SyncDone, SyncTypes, SyncBefore, SyncTest, SyncFinal, SyncPdo!FlagNames, SyncPdo!Validate
<1>5. SyncCounted'
  BY SyncCountKept DEF SyncPdo!waitForSynchronousSamples, SyncCounted, SyncTypes, SyncFinal, SyncPdo!Validate
<1>. QED BY <1>1, <1>2, <1>3, <1>4, <1>5

\* verifyPostSyncSilence: one frame more than the samples fails the test.
LEMMA Sync_verifyPostSyncSilence ==
    ASSUME SyncInv, SyncPdo!verifyPostSyncSilence
    PROVE  SyncInv'
<1>. USE DEF SyncInv, SyncPdo!sdo, SyncPdo!slave, SyncPdo!observation, SyncPdo!history, SyncPdo!thread, SyncPdo!Goto, SyncPdo!Pass, SyncPdo!FailTo
<1>1. SyncTypes'
  BY DEF SyncPdo!verifyPostSyncSilence, SyncTypes, SyncPlaces, SyncBefore, SyncTest, SyncFinal, SyncPdo!Scripted, SyncPdo!Validate
<1>2. SyncSafe'
  BY DEF SyncPdo!verifyPostSyncSilence, SyncSafe, SyncTypes, SyncFinal, SyncPdo!FlagNames, SyncPdo!Validate
<1>3. SyncLocal'
  BY DEF SyncPdo!verifyPostSyncSilence, SyncLocal, SyncTypes, SyncTest, SyncPdo!SyncProducerRestored, SyncPdo!FlagNames, SyncPdo!Validate
<1>4. SyncPath'
  BY DEF SyncPdo!verifyPostSyncSilence, SyncPath, SyncHas, SyncDone, SyncTypes, SyncBefore, SyncTest, SyncFinal, SyncPdo!FlagNames, SyncPdo!Validate
<1>5. SyncCounted'
  BY SyncCountKept DEF SyncPdo!verifyPostSyncSilence, SyncCounted, SyncTypes, SyncFinal, SyncPdo!Validate
<1>. QED BY <1>1, <1>2, <1>3, <1>4, <1>5

\* The first NMT enter-pre-operational: from here on the slave needs a start.
LEMMA Sync_PreopFirst ==
    ASSUME SyncInv, SyncPdo!PreopFirst
    PROVE  SyncInv'
<1>. USE DEF SyncInv, SyncPdo!sdo, SyncPdo!slave, SyncPdo!observation, SyncPdo!history, SyncPdo!thread, SyncPdo!Goto, SyncPdo!Pass, SyncPdo!FailTo
<1>0. /\ flags' \in [SyncPdo!FlagNames -> BOOLEAN]
      /\ \A f \in SyncPdo!FlagNames : flags'[f] <=> flags[f] \/ f \in {"slave_needs_start"}
  BY SyncSet DEF SyncPdo!PreopFirst, SyncTypes
<1>1. SyncTypes'
  BY <1>0 DEF SyncPdo!PreopFirst, SyncTypes, SyncPlaces, SyncBefore, SyncTest, SyncFinal, SyncPdo!Scripted, SyncPdo!EnterPreop
<1>2. SyncSafe'
  BY <1>0 DEF SyncPdo!PreopFirst, SyncSafe, SyncTypes, SyncFinal, SyncPdo!FlagNames, SyncPdo!EnterPreop
<1>3. SyncLocal'
  BY <1>0 DEF SyncPdo!PreopFirst, SyncLocal, SyncTypes, SyncTest, SyncPdo!SyncProducerRestored, SyncPdo!FlagNames, SyncPdo!EnterPreop
<1>4. SyncPath'
  BY <1>0 DEF SyncPdo!PreopFirst, SyncPath, SyncHas, SyncDone, SyncTypes, SyncBefore, SyncTest, SyncFinal, SyncPdo!FlagNames, SyncPdo!EnterPreop
<1>5. SyncCounted'
  BY SyncCountKept DEF SyncPdo!PreopFirst, SyncCounted, SyncTypes, SyncFinal, SyncPdo!EnterPreop
<1>. QED BY <1>1, <1>2, <1>3, <1>4, <1>5

\* Stopping the local producer marks its period as touched whenever the write took.
LEMMA Sync_StopPeriod ==
    ASSUME SyncInv, SyncPdo!StopPeriod
    PROVE  SyncInv'
<1>. USE DEF SyncInv, SyncPdo!sdo, SyncPdo!slave, SyncPdo!observation, SyncPdo!history, SyncPdo!thread, SyncPdo!Goto, SyncPdo!Pass, SyncPdo!FailTo
<1>0. /\ flags' \in [SyncPdo!FlagNames -> BOOLEAN]
      /\ \A f \in SyncPdo!FlagNames : flags'[f] <=> flags[f] \/ f \in (IF period' = "0" THEN {"local_sync_period_touched"} ELSE {})
  BY SyncSet DEF SyncPdo!StopPeriod, SyncTypes
<1>1. SyncTypes'
  BY <1>0 DEF SyncPdo!StopPeriod, SyncTypes, SyncPlaces, SyncBefore, SyncTest, SyncFinal, SyncPdo!Scripted, SyncPdo!WritePeriod
<1>2. SyncSafe'
  BY <1>0 DEF SyncPdo!StopPeriod, SyncSafe, SyncTypes, SyncFinal, SyncPdo!FlagNames, SyncPdo!WritePeriod
<1>3. SyncLocal'
  BY <1>0 DEF SyncPdo!StopPeriod, SyncLocal, SyncTypes, SyncTest, SyncPdo!SyncProducerRestored, SyncPdo!FlagNames, SyncPdo!WritePeriod
<1>4. SyncPath'
  <2>1. result' = 0 => result = 0 /\ pc' = "configure" /\ period' = "0"
    BY DEF SyncPdo!StopPeriod, SyncPdo!WritePeriod
  <2>2. pc = "period0" /\ pos' = 1
    BY DEF SyncPdo!StopPeriod, SyncPdo!WritePeriod, SyncTypes, SyncPdo!Scripted
  <2>3. /\ flags'["snapshot_saved"] <=> flags["snapshot_saved"]
        /\ flags'["completion_wait_timed_out"] <=> flags["completion_wait_timed_out"]
    BY <1>0 DEF SyncPdo!FlagNames
  <2>. QED BY <2>1, <2>2, <2>3 DEF SyncPath, SyncBefore, SyncFinal
<1>5. SyncCounted'
  BY SyncCountKept DEF SyncPdo!StopPeriod, SyncCounted, SyncTypes, SyncFinal, SyncPdo!WritePeriod
<1>. QED BY <1>1, <1>2, <1>3, <1>4, <1>5

\* Pre-operational before the restore of the slave: it needs a start from here on.
LEMMA Sync_CleanPreop ==
    ASSUME SyncInv, SyncPdo!CleanPreop
    PROVE  SyncInv'
<1>. USE DEF SyncInv, SyncPdo!sdo, SyncPdo!slave, SyncPdo!observation, SyncPdo!history, SyncPdo!thread, SyncPdo!Goto, SyncPdo!Pass, SyncPdo!FailTo
<1>0. /\ flags' \in [SyncPdo!FlagNames -> BOOLEAN]
      /\ \A f \in SyncPdo!FlagNames : flags'[f] <=> flags[f] \/ f \in (IF pc' = "restore" THEN {"slave_needs_start"} ELSE {})
  BY SyncSet DEF SyncPdo!CleanPreop, SyncTypes
<1>1. SyncTypes'
  BY <1>0 DEF SyncPdo!CleanPreop, SyncTypes, SyncPlaces, SyncBefore, SyncTest, SyncFinal, SyncPdo!Scripted, SyncPdo!EnterPreop
<1>2. SyncSafe'
  BY <1>0 DEF SyncPdo!CleanPreop, SyncSafe, SyncTypes, SyncFinal, SyncPdo!FlagNames, SyncPdo!EnterPreop
<1>3. SyncLocal'
  BY <1>0 DEF SyncPdo!CleanPreop, SyncLocal, SyncTypes, SyncTest, SyncPdo!SyncProducerRestored, SyncPdo!FlagNames, SyncPdo!EnterPreop
<1>4. SyncPath'
  BY <1>0 DEF SyncPdo!CleanPreop, SyncPath, SyncHas, SyncDone, SyncTypes, SyncBefore, SyncTest, SyncFinal, SyncPdo!FlagNames, SyncPdo!EnterPreop
<1>5. SyncCounted'
  BY SyncCountKept DEF SyncPdo!CleanPreop, SyncCounted, SyncTypes, SyncFinal, SyncPdo!EnterPreop
<1>. QED BY <1>1, <1>2, <1>3, <1>4, <1>5

\* Pre-operational confirmed after the reset: the SDO channel is trusted again.
LEMMA Sync_RecoverPreop ==
    ASSUME SyncInv, SyncPdo!RecoverPreop
    PROVE  SyncInv'
<1>. USE DEF SyncInv, SyncPdo!sdo, SyncPdo!slave, SyncPdo!observation, SyncPdo!history, SyncPdo!thread, SyncPdo!Goto, SyncPdo!Pass, SyncPdo!FailTo
<1>1. SyncTypes'
  BY DEF SyncPdo!RecoverPreop, SyncTypes, SyncPlaces, SyncBefore, SyncTest, SyncFinal, SyncPdo!Scripted, SyncPdo!EnterPreop
<1>2. SyncSafe'
  <2>1. flags'.restoration_verified <=> flags.restoration_verified
    BY DEF SyncPdo!RecoverPreop, SyncTypes, SyncPdo!FlagNames
  <2>2. /\ pc = "recoverPreop" /\ pc' \in {"recovered", "verdict"} /\ pos' = 1
        /\ UNCHANGED <<remote, late, original>>
    BY DEF SyncPdo!RecoverPreop, SyncPdo!EnterPreop, SyncTypes, SyncPdo!Scripted
  <2>. QED BY <2>1, <2>2 DEF SyncSafe, SyncFinal
<1>3. SyncLocal'
  BY DEF SyncPdo!RecoverPreop, SyncLocal, SyncTypes, SyncTest, SyncPdo!SyncProducerRestored, SyncPdo!FlagNames, SyncPdo!EnterPreop
<1>4. SyncPath'
  BY DEF SyncPdo!RecoverPreop, SyncPath, SyncHas, SyncDone, SyncTypes, SyncBefore, SyncTest, SyncFinal, SyncPdo!FlagNames, SyncPdo!EnterPreop
<1>5. SyncCounted'
  BY SyncCountKept DEF SyncPdo!RecoverPreop, SyncCounted, SyncTypes, SyncFinal, SyncPdo!EnterPreop
<1>. QED BY <1>1, <1>2, <1>3, <1>4, <1>5

\* Starting the slave clears the need to do so, and installs the callbacks.
LEMMA Sync_StartSlave ==
    ASSUME SyncInv, SyncPdo!StartSlave
    PROVE  SyncInv'
<1>. USE DEF SyncInv, SyncPdo!sdo, SyncPdo!slave, SyncPdo!observation, SyncPdo!history, SyncPdo!thread, SyncPdo!Goto, SyncPdo!Pass, SyncPdo!FailTo
<1>0. /\ flags' \in [SyncPdo!FlagNames -> BOOLEAN]
      /\ \A f \in SyncPdo!FlagNames \ {"slave_needs_start", "callbacks_registered"} : flags'[f] <=> flags[f]
      /\ flags'["callbacks_registered"]
      /\ pc' = "quiet" => ~flags'["slave_needs_start"]
      /\ pc' = "stopSync" => flags'["slave_needs_start"] = flags["slave_needs_start"]
  <2>1. CASE SyncPdo!Set({"callbacks_registered"}) /\ pc' = "stopSync"
    BY <2>1, SyncSet DEF SyncTypes, SyncPdo!FlagNames
  <2>2. CASE flags' = [flags EXCEPT !.callbacks_registered = TRUE, !.slave_needs_start = FALSE] /\ pc' = "quiet"
    BY <2>2 DEF SyncTypes, SyncPdo!FlagNames
  <2>. QED BY <2>1, <2>2 DEF SyncPdo!StartSlave
<1>1. SyncTypes'
  <2>1. pc' \in SyncPlaces /\ result' \in {0, 1} /\ nmt' \in {"op", "preop"}
        /\ pc' \notin SyncPdo!Scripted /\ pos' = 1
    BY DEF SyncPdo!StartSlave, SyncTypes, SyncPdo!Scripted, SyncPlaces, SyncBefore, SyncTest, SyncFinal
  <2>2. observed' \in Seq({"S", "T", "L"}) /\ Len(observed') <= MaxEvents /\ failed' = FALSE
    BY Constants DEF SyncPdo!StartSlave, SyncPdo!resetObservation
  <2>3. UNCHANGED <<remote, late, stored, original, period, refused, produced, tpdos, restored>>
    BY DEF SyncPdo!StartSlave
  <2>4. flags' \in [SyncPdo!FlagNames -> BOOLEAN]
    BY <1>0
  <2>5. pc' \notin {"topology", "snapshot", "check"}
    BY <2>1 DEF SyncPdo!Scripted
  <2>6. failed' \in BOOLEAN
    BY <2>2
  <2>7. observed' \in Seq({"S", "T", "L"}) /\ Len(observed') <= MaxEvents
    BY <2>2
  <2>. QED BY <2>1, <2>3, <2>4, <2>5, <2>6, <2>7 DEF SyncTypes
<1>2. SyncSafe'
  BY <1>0 DEF SyncPdo!StartSlave, SyncSafe, SyncFinal, SyncPdo!FlagNames
<1>3. SyncLocal'
  BY <1>0 DEF SyncPdo!StartSlave, SyncLocal, SyncTest, SyncPdo!SyncProducerRestored, SyncPdo!FlagNames
<1>4. SyncPath'
  BY <1>0 DEF SyncPdo!StartSlave, SyncPath, SyncHas, SyncDone, SyncBefore, SyncTest, SyncFinal, SyncPdo!FlagNames
<1>5. SyncCounted'
  BY <1>0 DEF SyncPdo!StartSlave, SyncCounted, SyncFinal
<1>. QED BY <1>1, <1>2, <1>3, <1>4, <1>5

\* The cleanup stops the producer first, then picks its way to the restore.
LEMMA Sync_StopSync ==
    ASSUME SyncInv, SyncPdo!StopSync
    PROVE  SyncInv'
<1>. USE DEF SyncInv, SyncPdo!sdo, SyncPdo!slave, SyncPdo!observation, SyncPdo!history, SyncPdo!thread, SyncPdo!Goto, SyncPdo!Pass, SyncPdo!FailTo
<1>1. SyncTypes'
  BY DEF SyncPdo!StopSync, SyncTypes, SyncPlaces, SyncBefore, SyncTest, SyncFinal, SyncPdo!Scripted, SyncPdo!WritePeriod, SyncPdo!NeedsRestoration
<1>2. SyncSafe'
  BY DEF SyncPdo!StopSync, SyncSafe, SyncTypes, SyncFinal, SyncPdo!FlagNames, SyncPdo!WritePeriod, SyncPdo!NeedsRestoration
<1>3. SyncLocal'
  BY DEF SyncPdo!StopSync, SyncLocal, SyncTypes, SyncTest, SyncPdo!SyncProducerRestored, SyncPdo!FlagNames, SyncPdo!WritePeriod, SyncPdo!NeedsRestoration
<1>4. SyncPath'
  BY DEF SyncPdo!StopSync, SyncPath, SyncHas, SyncDone, SyncTypes, SyncBefore, SyncTest, SyncFinal, SyncPdo!FlagNames, SyncPdo!WritePeriod, SyncPdo!NeedsRestoration
<1>5. SyncCounted'
  BY SyncCountKept DEF SyncPdo!StopSync, SyncCounted, SyncTypes, SyncFinal, SyncPdo!WritePeriod, SyncPdo!NeedsRestoration
<1>. QED BY <1>1, <1>2, <1>3, <1>4, <1>5

\* The start of the slave in the cleanup.
LEMMA Sync_RestartSlave ==
    ASSUME SyncInv, SyncPdo!RestartSlave
    PROVE  SyncInv'
<1>. USE DEF SyncInv, SyncPdo!sdo, SyncPdo!slave, SyncPdo!observation, SyncPdo!history, SyncPdo!thread, SyncPdo!Goto, SyncPdo!Pass, SyncPdo!FailTo
<1>1. SyncTypes'
  BY DEF SyncPdo!RestartSlave, SyncTypes, SyncPlaces, SyncBefore, SyncTest, SyncFinal, SyncPdo!Scripted, SyncPdo!slave_start_is_safe
<1>2. SyncSafe'
  BY DEF SyncPdo!RestartSlave, SyncSafe, SyncTypes, SyncFinal, SyncPdo!FlagNames, SyncPdo!slave_start_is_safe
<1>3. SyncLocal'
  BY DEF SyncPdo!RestartSlave, SyncLocal, SyncTypes, SyncTest, SyncPdo!SyncProducerRestored, SyncPdo!FlagNames, SyncPdo!slave_start_is_safe
<1>4. SyncPath'
  BY DEF SyncPdo!RestartSlave, SyncPath, SyncHas, SyncDone, SyncTypes, SyncBefore, SyncTest, SyncFinal, SyncPdo!FlagNames, SyncPdo!slave_start_is_safe
<1>5. SyncCounted'
  BY SyncCountKept DEF SyncPdo!RestartSlave, SyncCounted, SyncTypes, SyncFinal, SyncPdo!slave_start_is_safe
<1>. QED BY <1>1, <1>2, <1>3, <1>4, <1>5

\* The cleanup writes the saved SYNC period back.
LEMMA Sync_RestorePeriod ==
    ASSUME SyncInv, SyncPdo!RestorePeriod
    PROVE  SyncInv'
<1>. USE DEF SyncInv, SyncPdo!sdo, SyncPdo!slave, SyncPdo!observation, SyncPdo!history, SyncPdo!thread, SyncPdo!Goto, SyncPdo!Pass, SyncPdo!FailTo
<1>1. SyncTypes'
  BY DEF SyncPdo!RestorePeriod, SyncTypes, SyncPlaces, SyncBefore, SyncTest, SyncFinal, SyncPdo!Scripted, SyncPdo!WritePeriod
<1>2. SyncSafe'
  BY DEF SyncPdo!RestorePeriod, SyncSafe, SyncTypes, SyncFinal, SyncPdo!FlagNames, SyncPdo!WritePeriod
<1>3. SyncLocal'
  BY DEF SyncPdo!RestorePeriod, SyncLocal, SyncTypes, SyncTest, SyncPdo!SyncProducerRestored, SyncPdo!FlagNames, SyncPdo!WritePeriod
<1>4. SyncPath'
  BY DEF SyncPdo!RestorePeriod, SyncPath, SyncHas, SyncDone, SyncTypes, SyncBefore, SyncTest, SyncFinal, SyncPdo!FlagNames, SyncPdo!WritePeriod
<1>5. SyncCounted'
  BY SyncCountKept DEF SyncPdo!RestorePeriod, SyncCounted, SyncTypes, SyncFinal, SyncPdo!WritePeriod
<1>. QED BY <1>1, <1>2, <1>3, <1>4, <1>5

\* The synchronisation error callback marks the observation as failed.
LEMMA Sync_OnSyncError ==
    ASSUME SyncInv, SyncPdo!OnSyncError
    PROVE  SyncInv'
<1>. USE DEF SyncInv, SyncPdo!sdo, SyncPdo!slave, SyncPdo!observation, SyncPdo!history, SyncPdo!thread, SyncPdo!Goto, SyncPdo!Pass, SyncPdo!FailTo
<1>1. SyncTypes'
  BY DEF SyncPdo!OnSyncError, SyncTypes, SyncPlaces, SyncBefore, SyncTest, SyncFinal, SyncPdo!Scripted, SyncPdo!Listening
<1>2. SyncSafe'
  BY DEF SyncPdo!OnSyncError, SyncSafe, SyncTypes, SyncFinal, SyncPdo!FlagNames, SyncPdo!Listening
<1>3. SyncLocal'
  BY DEF SyncPdo!OnSyncError, SyncLocal, SyncTypes, SyncTest, SyncPdo!SyncProducerRestored, SyncPdo!FlagNames, SyncPdo!Listening
<1>4. SyncPath'
  BY DEF SyncPdo!OnSyncError, SyncPath, SyncHas, SyncDone, SyncTypes, SyncBefore, SyncTest, SyncFinal, SyncPdo!FlagNames, SyncPdo!Listening
<1>5. SyncCounted'
  BY SyncCountKept DEF SyncPdo!OnSyncError, SyncCounted, SyncTypes, SyncFinal, SyncPdo!Listening
<1>. QED BY <1>1, <1>2, <1>3, <1>4, <1>5

\* resetObservation and the start of the producer: the observation is empty again.
LEMMA Sync_StartSync ==
    ASSUME SyncInv, SyncPdo!StartSync
    PROVE  SyncInv'
<1>. USE DEF SyncInv, SyncPdo!sdo, SyncPdo!slave, SyncPdo!observation, SyncPdo!history, SyncPdo!thread, SyncPdo!Goto, SyncPdo!Pass, SyncPdo!FailTo
<1>1. SyncTypes'
  <2>1. observed' \in Seq({"S", "T", "L"}) /\ Len(observed') <= MaxEvents /\ failed' = FALSE
    BY Constants DEF SyncPdo!StartSync, SyncPdo!resetObservation
  <2>2. pc' \in {"samples", "stopSync"} /\ UNCHANGED pos /\ pc = "periodOn" /\ result' \in {0, 1}
        /\ period' \in {"0", "test", "original"} /\ refused' \in BOOLEAN
    BY DEF SyncPdo!StartSync, SyncPdo!WritePeriod, SyncTypes
  <2>3. UNCHANGED <<remote, late, stored, original, nmt, flags, restored>> /\ produced' = 0 /\ tpdos' = 0
    BY DEF SyncPdo!StartSync, SyncPdo!WritePeriod
  <2>. QED BY <2>1, <2>2, <2>3 DEF SyncTypes, SyncPdo!Scripted, SyncPlaces, SyncBefore, SyncTest, SyncFinal
<1>2. SyncSafe'
  BY DEF SyncPdo!StartSync, SyncSafe, SyncTypes, SyncFinal, SyncPdo!FlagNames, SyncPdo!resetObservation, SyncPdo!WritePeriod
<1>3. SyncLocal'
  BY DEF SyncPdo!StartSync, SyncLocal, SyncTypes, SyncTest, SyncPdo!SyncProducerRestored, SyncPdo!FlagNames, SyncPdo!resetObservation, SyncPdo!WritePeriod
<1>4. SyncPath'
  BY DEF SyncPdo!StartSync, SyncPath, SyncHas, SyncDone, SyncTypes, SyncBefore, SyncTest, SyncFinal, SyncPdo!FlagNames, SyncPdo!resetObservation, SyncPdo!WritePeriod
<1>5. SyncCounted'
  <2>1. result' = 0 => pc' = "samples" /\ period' = "test" /\ produced' = 0 /\ tpdos' = 0 /\ observed' = <<>>
    BY DEF SyncPdo!StartSync, SyncPdo!WritePeriod, SyncPdo!resetObservation
  <2>2. observed' = <<>> => SyncPdo!SyncCount' = 0 /\ SyncPdo!TpdoCount' = 0
    <3>1. ASSUME observed' = <<>> PROVE {i \in DOMAIN observed' : observed'[i] = "S"} = {} /\ Len(observed') = 0
      BY <3>1
    <3>2. SyncPdo!SyncCount' = Cardinality({i \in DOMAIN observed' : observed'[i] = "S"})
      BY DEF SyncPdo!SyncCount, SyncPdo!Cardinality, Cardinality
    <3>. QED BY <3>1, <3>2, FS_EmptySet DEF SyncPdo!TpdoCount
  <2>. QED BY <2>1, <2>2, Constants DEF SyncCounted, SyncFinal
<1>. QED BY <1>1, <1>2, <1>3, <1>4, <1>5

\* After the restore: an untrusted SDO channel fails, a restored TPDO is observed anew.
LEMMA Sync_Verdict ==
    ASSUME SyncInv, SyncPdo!Verdict
    PROVE  SyncInv'
<1>. USE DEF SyncInv, SyncPdo!sdo, SyncPdo!slave, SyncPdo!observation, SyncPdo!history, SyncPdo!thread, SyncPdo!Goto, SyncPdo!Pass, SyncPdo!FailTo
<1>1. SyncTypes'
  <2>1. observed' \in Seq({"S", "T", "L"}) /\ Len(observed') <= MaxEvents /\ failed' \in BOOLEAN
    <3>1. CASE UNCHANGED <<observed, failed>>
      BY <3>1 DEF SyncTypes
    <3>2. CASE observed' = <<>> /\ failed' = FALSE
      <4>1. failed' \in BOOLEAN
        BY <3>2
      <4>2. observed' \in Seq({"S", "T", "L"}) /\ Len(observed') <= MaxEvents
        BY <3>2, Constants
      <4>. QED BY <4>1, <4>2
    <3>. QED BY <3>1, <3>2 DEF SyncPdo!Verdict, SyncPdo!resetObservation
  <2>2. pc' = "start" /\ pc = "verdict" /\ UNCHANGED pos /\ result' \in {0, 1}
    BY DEF SyncPdo!Verdict, SyncTypes
  <2>3. UNCHANGED <<remote, late, stored, original, nmt, flags, period, refused, produced, tpdos, restored>>
    BY DEF SyncPdo!Verdict
  <2>. QED BY <2>1, <2>2, <2>3 DEF SyncTypes, SyncPdo!Scripted, SyncPlaces, SyncBefore, SyncTest, SyncFinal
<1>2. SyncSafe'
  BY DEF SyncPdo!Verdict, SyncSafe, SyncTypes, SyncFinal, SyncPdo!FlagNames, SyncPdo!resetObservation, SyncPdo!verify_restored_event
<1>3. SyncLocal'
  BY DEF SyncPdo!Verdict, SyncLocal, SyncTypes, SyncTest, SyncPdo!SyncProducerRestored, SyncPdo!FlagNames, SyncPdo!resetObservation, SyncPdo!verify_restored_event
<1>4. SyncPath'
  BY DEF SyncPdo!Verdict, SyncPath, SyncHas, SyncDone, SyncTypes, SyncBefore, SyncTest, SyncFinal, SyncPdo!FlagNames, SyncPdo!resetObservation, SyncPdo!verify_restored_event
<1>5. SyncCounted'
  <2>1. /\ pc = "verdict" /\ pc' = "start" /\ UNCHANGED <<period, produced, tpdos>>
        /\ (result' = 0 => result = 0)
    BY DEF SyncPdo!Verdict
  <2>2. result = 0 => SyncPdo!verify_restored_event
    BY <2>1 DEF SyncPath, SyncPdo!verify_restored_event, SyncHas, SyncDone, SyncFinal, SyncBefore
  <2>3. result' = 0 => observed' = <<>>
    BY <2>1, <2>2 DEF SyncPdo!Verdict, SyncPdo!resetObservation
  <2>. QED BY <2>1, <2>3 DEF SyncCounted, SyncFinal
<1>. QED BY <1>1, <1>2, <1>3, <1>4, <1>5

\* verifyRestoredEventTpdo: the last check, on the restored event-driven TPDO.
LEMMA Sync_verifyRestoredEventTpdo ==
    ASSUME SyncInv, SyncPdo!verifyRestoredEventTpdo
    PROVE  SyncInv'
<1>. USE DEF SyncInv, SyncPdo!sdo, SyncPdo!slave, SyncPdo!observation, SyncPdo!history, SyncPdo!thread, SyncPdo!Goto, SyncPdo!Pass, SyncPdo!FailTo
<1>1. SyncTypes'
  BY DEF SyncPdo!verifyRestoredEventTpdo, SyncTypes, SyncPlaces, SyncBefore, SyncTest, SyncFinal, SyncPdo!Scripted, SyncPdo!verify_restored_event
<1>2. SyncSafe'
  BY DEF SyncPdo!verifyRestoredEventTpdo, SyncSafe, SyncTypes, SyncFinal, SyncPdo!FlagNames, SyncPdo!verify_restored_event
<1>3. SyncLocal'
  BY DEF SyncPdo!verifyRestoredEventTpdo, SyncLocal, SyncTypes, SyncTest, SyncPdo!SyncProducerRestored, SyncPdo!FlagNames, SyncPdo!verify_restored_event
<1>4. SyncPath'
  BY DEF SyncPdo!verifyRestoredEventTpdo, SyncPath, SyncHas, SyncDone, SyncTypes, SyncBefore, SyncTest, SyncFinal, SyncPdo!FlagNames, SyncPdo!verify_restored_event
<1>5. SyncCounted'
  <2>1. /\ pc = "event" /\ pc' = "lastPeriod" /\ UNCHANGED <<period, produced, tpdos, restored, nmt, observed>>
        /\ (result' = 0 => result = 0)
    BY DEF SyncPdo!verifyRestoredEventTpdo
  <2>2. result = 0 => SyncPdo!verify_restored_event /\ ~flags.slave_needs_start
    BY <2>1 DEF SyncPath, SyncPdo!verify_restored_event, SyncHas, SyncDone, SyncFinal, SyncBefore
  <2>3. result' = 0 => SyncPdo!EventTpdoSeen
    BY <2>1, <2>2 DEF SyncPdo!verifyRestoredEventTpdo
  <2>4. result' = 0 => Len(observed) >= 2
    BY <2>3 DEF SyncPdo!EventTpdoSeen
  <2>5. Len(observed) >= 2 => observed # <<>>
    OBVIOUS
  <2>6. Len(observed) \in Nat /\ restored \in Nat
    BY DEF SyncTypes
  <2>. QED BY <2>1, <2>4, <2>5, <2>6 DEF SyncCounted, SyncFinal
<1>. QED BY <1>1, <1>2, <1>3, <1>4, <1>5

\* The RPDO callback: one more TPDO of the slave, on time or late.
LEMMA Sync_OnRpdo ==
    ASSUME SyncInv, SyncPdo!OnRpdo
    PROVE  SyncInv'
<1>. USE DEF SyncInv, SyncPdo!sdo, SyncPdo!slave, SyncPdo!observation, SyncPdo!history, SyncPdo!thread, SyncPdo!Goto, SyncPdo!Pass, SyncPdo!FailTo
<1>0. /\ remote \in [SyncPdo!Objects -> SyncPdo!Values] /\ Len(observed') <= MaxEvents
      /\ observed' \in Seq({"S", "T", "L"}) /\ Len(observed) \in Nat
  <2>1. \A e \in {"S", "T", "L"} : /\ Append(observed, e) \in Seq({"S", "T", "L"})
                                   /\ Len(Append(observed, e)) = Len(observed) + 1
    BY DEF SyncTypes
  <2>2. Len(observed) < MaxEvents /\ observed \in Seq({"S", "T", "L"})
    BY DEF SyncPdo!OnRpdo, SyncPdo!Listening, SyncTypes
  <2>3. observed' = observed \/ \E e \in {"S", "T", "L"} : observed' = Append(observed, e)
    BY DEF SyncPdo!OnRpdo
  <2>4. Len(observed) \in Nat /\ remote \in [SyncPdo!Objects -> SyncPdo!Values]
    BY DEF SyncTypes
  <2>5. CASE observed' = observed
    BY ONLY <2>2, <2>4, <2>5, Constants
  <2>6. ASSUME NEW e \in {"S", "T", "L"}, observed' = Append(observed, e)
        PROVE  Len(observed') <= MaxEvents /\ observed' \in Seq({"S", "T", "L"})
    <3>1. Append(observed, e) \in Seq({"S", "T", "L"}) /\ Len(Append(observed, e)) = Len(observed) + 1
      BY ONLY <2>1
    <3>. QED BY ONLY <2>2, <2>4, <2>6, <3>1, Constants
  <2>. QED BY ONLY <2>3, <2>4, <2>5, <2>6
<1>1. SyncTypes'
  <2>1. failed' \in BOOLEAN /\ tpdos' \in Nat /\ restored' \in Nat
    <3>1. failed' = failed \/ failed' = TRUE
      BY DEF SyncPdo!OnRpdo
    <3>2. failed' \in BOOLEAN
      BY <3>1 DEF SyncTypes
    <3>3. tpdos' \in Nat /\ restored' \in Nat
      BY DEF SyncPdo!OnRpdo, SyncTypes
    <3>. QED BY <3>2, <3>3
  <2>2. UNCHANGED <<remote, late, stored, original, nmt, flags, period, refused, produced, pc, pos, result>>
    BY DEF SyncPdo!OnRpdo
  <2>. QED BY <1>0, <2>1, <2>2 DEF SyncTypes
<1>2. SyncSafe'
  BY DEF SyncPdo!OnRpdo, SyncSafe, SyncTypes, SyncFinal, SyncPdo!FlagNames, SyncPdo!Listening, SyncPdo!InTest
<1>3. SyncLocal'
  BY DEF SyncPdo!OnRpdo, SyncLocal, SyncTypes, SyncTest, SyncPdo!SyncProducerRestored, SyncPdo!FlagNames, SyncPdo!Listening, SyncPdo!InTest
<1>4. SyncPath'
  BY DEF SyncPdo!OnRpdo, SyncPath, SyncHas, SyncDone, SyncTypes, SyncBefore, SyncTest, SyncFinal, SyncPdo!FlagNames, SyncPdo!Listening, SyncPdo!InTest
<1>5. SyncCounted'
  <2>1. /\ UNCHANGED <<pc, result, period, produced, nmt>> /\ nmt = "op" /\ ~failed
        /\ pc \in {"quiet", "periodOn", "samples", "silence", "start", "event"}
        /\ tpdos' = IF pc \in {"samples", "silence"} THEN tpdos + 1 ELSE tpdos
        /\ restored' = IF pc = "event" /\ remote = original THEN restored + 1 ELSE restored
        /\ \/ observed' = Append(observed, "T") /\ failed' = failed
           \/ observed' = Append(observed, "L") /\ failed' = failed
           \/ observed' = observed /\ failed'
    BY DEF SyncPdo!OnRpdo, SyncPdo!Listening, SyncPdo!InTest
  <2>2. observed \in Seq({"S", "T", "L"}) /\ tpdos \in Nat /\ restored \in Nat
    BY DEF SyncTypes
  <2>3. /\ SyncPdo!SyncCount' = SyncPdo!SyncCount
        /\ ~failed' => SyncPdo!TpdoCount' = SyncPdo!TpdoCount + 1
    BY <2>1, <2>2, SyncCountAppend, SyncCountKept
  <2>4. Len(observed') \in {Len(observed), Len(observed) + 1}
    BY <2>1, <2>2
  <2>5. result = 0 => pc # "start"
    BY <2>1 DEF SyncPath
  <2>6. result = 0 /\ pc = "event" => remote = original
    BY DEF SyncPath, SyncSafe, SyncFinal
  <2>7. result = 0 /\ pc = "event" => restored' >= Len(observed')
    BY <1>0, <2>1, <2>2, <2>4, <2>6 DEF SyncCounted
  <2>8. result = 0 /\ pc \in {"samples", "silence"} =>
           /\ produced = SyncPdo!SyncCount' /\ (~failed' => tpdos' = SyncPdo!TpdoCount')
           /\ (~failed' /\ SyncPdo!SyncCount' = SyncSamples) => period = "0"
    BY <2>1, <2>2, <2>3 DEF SyncCounted
  <2>. QED BY <2>1, <2>5, <2>7, <2>8 DEF SyncCounted, SyncFinal
<1>. QED BY <1>1, <1>2, <1>3, <1>4, <1>5

\* The SYNC callback: one more SYNC, and the last sample stops the producer.
LEMMA Sync_OnSync ==
    ASSUME SyncInv, SyncPdo!OnSync
    PROVE  SyncInv'
<1>. USE DEF SyncInv, SyncPdo!sdo, SyncPdo!slave, SyncPdo!observation, SyncPdo!history, SyncPdo!thread, SyncPdo!Goto, SyncPdo!Pass, SyncPdo!FailTo
<1>0. /\ remote \in [SyncPdo!Objects -> SyncPdo!Values] /\ Len(observed') <= MaxEvents
      /\ observed' \in Seq({"S", "T", "L"}) /\ Len(observed) \in Nat
  <2>1. \A e \in {"S", "T", "L"} : /\ Append(observed, e) \in Seq({"S", "T", "L"})
                                   /\ Len(Append(observed, e)) = Len(observed) + 1
    BY DEF SyncTypes
  <2>2. Len(observed) < MaxEvents /\ observed \in Seq({"S", "T", "L"})
    BY DEF SyncPdo!OnSync, SyncPdo!Listening, SyncTypes
  <2>3. observed' = observed \/ \E e \in {"S", "T", "L"} : observed' = Append(observed, e)
    BY DEF SyncPdo!OnSync
  <2>4. Len(observed) \in Nat /\ remote \in [SyncPdo!Objects -> SyncPdo!Values]
    BY DEF SyncTypes
  <2>. QED BY <2>1, <2>2, <2>3, <2>4, Constants
<1>1. SyncTypes'
  <2>1. failed' \in BOOLEAN /\ produced' \in Nat /\ refused' \in BOOLEAN /\ period' \in {"0", "test", "original"}
    <3>1. (failed' = failed \/ failed' = TRUE) /\ (refused' = refused \/ refused' = TRUE)
      BY DEF SyncPdo!OnSync
    <3>2. failed' \in BOOLEAN /\ refused' \in BOOLEAN
      BY <3>1 DEF SyncTypes
    <3>3. produced' \in Nat /\ period' \in {"0", "test", "original"}
      BY DEF SyncPdo!OnSync, SyncTypes
    <3>. QED BY <3>2, <3>3
  <2>2. UNCHANGED <<remote, late, stored, original, nmt, flags, tpdos, restored, pc, pos, result>>
    BY DEF SyncPdo!OnSync
  <2>. QED BY <1>0, <2>1, <2>2 DEF SyncTypes
<1>2. SyncSafe'
  BY DEF SyncPdo!OnSync, SyncSafe, SyncTypes, SyncFinal, SyncPdo!FlagNames, SyncPdo!Listening
<1>3. SyncLocal'
  BY DEF SyncPdo!OnSync, SyncLocal, SyncTypes, SyncTest, SyncPdo!SyncProducerRestored, SyncPdo!FlagNames, SyncPdo!Listening
<1>4. SyncPath'
  BY DEF SyncPdo!OnSync, SyncPath, SyncHas, SyncDone, SyncTypes, SyncBefore, SyncTest, SyncFinal, SyncPdo!FlagNames, SyncPdo!Listening
<1>5. SyncCounted'
  <2>1. /\ UNCHANGED <<pc, result, tpdos, restored, nmt>> /\ period # "0" /\ ~failed
        /\ pc \in {"quiet", "periodOn", "samples", "silence", "stopSync", "start", "event"}
        /\ produced' = produced + 1 /\ observed' = Append(observed, "S")
        /\ SyncPdo!SyncCount + 1 = SyncSamples => period' = "0" \/ failed'
    BY DEF SyncPdo!OnSync, SyncPdo!Listening
  <2>2. observed \in Seq({"S", "T", "L"}) /\ produced \in Nat
    BY DEF SyncTypes
  <2>3. /\ SyncPdo!SyncCount' = SyncPdo!SyncCount + 1 /\ SyncPdo!SyncCount \in Nat
        /\ SyncPdo!TpdoCount' = SyncPdo!TpdoCount
    BY <2>1, <2>2, SyncCountAppend
  <2>4. result = 0 => pc \in {"quiet", "periodOn", "samples", "silence"}
    BY <2>1 DEF SyncCounted
  <2>5. result = 0 /\ pc \in {"samples", "silence"} =>
           /\ produced' = SyncPdo!SyncCount' /\ (~failed' => tpdos = SyncPdo!TpdoCount')
           /\ (~failed' /\ SyncPdo!SyncCount' = SyncSamples) => period' = "0"
    BY <2>1, <2>3 DEF SyncCounted
  <2>. QED BY <2>1, <2>4, <2>5 DEF SyncCounted, SyncFinal
<1>. QED BY <1>1, <1>2, <1>3, <1>4, <1>5

\* recoverTpdoStateWithReset: if the reset arrives the table is the stored one.
LEMMA Sync_ResetSlave ==
    ASSUME SyncInv, SyncPdo!ResetSlave
    PROVE  SyncInv'
<1>. USE DEF SyncInv, SyncPdo!sdo, SyncPdo!slave, SyncPdo!observation, SyncPdo!history, SyncPdo!thread, SyncPdo!Goto, SyncPdo!Pass, SyncPdo!FailTo
<1>0. /\ flags' \in [SyncPdo!FlagNames -> BOOLEAN]
      /\ \A f \in SyncPdo!FlagNames : flags'[f] <=> flags[f] \/ (f = "slave_needs_start" /\ flags'[f])
  <2>1. CASE SyncPdo!Set({"slave_needs_start"})
    BY <2>1, SyncSet DEF SyncTypes
  <2>2. CASE UNCHANGED flags
    BY <2>2 DEF SyncTypes
  <2>. QED BY <2>1, <2>2 DEF SyncPdo!ResetSlave
<1>1. SyncTypes'
  BY <1>0 DEF SyncPdo!ResetSlave, SyncTypes, SyncPlaces, SyncBefore, SyncTest, SyncFinal, SyncPdo!Scripted
<1>2. SyncSafe'
  <2>1. /\ UNCHANGED <<late, period, refused, original>>
        /\ pc = "reset" /\ pc' \in {"recoverPreop", "verdict"} /\ pos' = pos /\ result' = 1
    BY DEF SyncPdo!ResetSlave
  <2>. QED BY <1>0, <2>1 DEF SyncSafe, SyncFinal, SyncPdo!FlagNames
<1>3. SyncLocal'
  <2>1. /\ UNCHANGED <<late, period, refused, original>>
        /\ pc = "reset" /\ pc' \in {"recoverPreop", "verdict"} /\ pos' = pos /\ result' = 1
    BY DEF SyncPdo!ResetSlave
  <2>. QED BY <1>0, <2>1 DEF SyncLocal, SyncTest, SyncPdo!FlagNames, SyncPdo!SyncProducerRestored
<1>4. SyncPath'
  <2>1. /\ UNCHANGED <<late, period, refused, original>>
        /\ pc = "reset" /\ pc' \in {"recoverPreop", "verdict"} /\ pos' = pos /\ result' = 1
    BY DEF SyncPdo!ResetSlave
  <2>. QED BY <1>0, <2>1 DEF SyncPath
<1>5. SyncCounted'
  <2>1. /\ UNCHANGED <<late, period, refused, original>>
        /\ pc = "reset" /\ pc' \in {"recoverPreop", "verdict"} /\ pos' = pos /\ result' = 1
    BY DEF SyncPdo!ResetSlave
  <2>. QED BY <1>0, <2>1 DEF SyncCounted
<1>. QED BY <1>1, <1>2, <1>3, <1>4, <1>5

\* The SDO call that is due, at each place of the process.
LEMMA SyncCurrent ==
    ASSUME SyncTypes, pc \in SyncPdo!Scripted
    PROVE  /\ pc = "topology" => Len(SyncPdo!Script) = 1 /\ SyncPdo!Current.kind = "read"
           /\ pc = "snapshot" => /\ Len(SyncPdo!Script) = 2 /\ SyncPdo!Current.kind = "read"
                                 /\ SyncPdo!Current.object \in {SyncPdo!Cob, SyncPdo!Type}
           /\ pc \in {"configure", "restore"} =>
                 /\ Len(SyncPdo!Script) = 3 /\ SyncPdo!Current.kind = "write"
                 /\ SyncPdo!Current.object \in {SyncPdo!Cob, SyncPdo!Type}
                 /\ SyncPdo!Current.value \in SyncPdo!Values
           /\ pc = "check" => Len(SyncPdo!Script) = 2 /\ SyncPdo!Current.kind # "write"
           /\ pc \in {"verify", "recovered"} =>
                 /\ Len(SyncPdo!Script) = 3 /\ SyncPdo!Current.kind = "expect"
                 /\ pos = 1 => /\ SyncPdo!Current.object = SyncPdo!Cob
                               /\ SyncPdo!Current.value = original[SyncPdo!Cob]
                 /\ pos = 2 => /\ SyncPdo!Current.object = SyncPdo!Type
                               /\ SyncPdo!Current.value = original[SyncPdo!Type]
<1>. USE DEF SyncPdo!Current, SyncPdo!Script, SyncPdo!Read, SyncPdo!Write, SyncPdo!Expect
<1>1. pos \in {1, 2, 3} /\ (pc = "topology" => pos = 1) /\ (pc \in {"snapshot", "check"} => pos \in {1, 2})
  BY DEF SyncTypes
<1>2. original[SyncPdo!Cob] \in SyncPdo!Values /\ original[SyncPdo!Type] \in SyncPdo!Values
  BY DEF SyncTypes, SyncPdo!Objects
<1>3. CASE pc = "topology"
  BY <1>1, <1>3
<1>4. CASE pc = "snapshot"
  BY <1>1, <1>4 DEF SyncPdo!readTpdoSnapshot
<1>5. CASE pc = "configure"
  BY <1>1, <1>2, <1>5 DEF SyncPdo!configureSynchronousTpdo, SyncPdo!Values
<1>6. CASE pc = "restore"
  BY <1>1, <1>2, <1>6 DEF SyncPdo!restoreTpdoConfiguration, SyncPdo!Values
<1>7. CASE pc = "check"
  BY <1>1, <1>7
<1>8. CASE pc \in {"verify", "recovered"}
  BY <1>1, <1>8 DEF SyncPdo!verifyRestoredTpdoState
<1>. QED BY <1>3, <1>4, <1>5, <1>6, <1>7, <1>8 DEF SyncPdo!Scripted

\* What a call does to the slave.  An accepted answer means that nothing is
\* left under way and, for a check, that the value is the expected one.
LEMMA SyncCallEffect ==
    ASSUME SyncTypes, SyncPdo!SdoCall
    PROVE  /\ pc \in {"configure", "restore"} =>
                 /\ \/ remote' = remote
                    \/ remote' = [remote EXCEPT ![SyncPdo!Current.object] = SyncPdo!Current.value]
                 /\ \/ late' = late
                    \/ /\ late' = Append(late, <<SyncPdo!Current.object, SyncPdo!Current.value>>)
                       /\ reply'.class = "WAIT_TIMEOUT"
           /\ pc \notin {"configure", "restore"} => UNCHANGED <<remote, late>>
           /\ SyncPdo!Accepted => late = <<>> /\ late' = <<>>
           /\ SyncPdo!Accepted /\ pc \in {"verify", "recovered"} =>
                 remote[SyncPdo!Current.object] = SyncPdo!Current.value
           /\ SyncPdo!Accepted /\ pc = "snapshot" => reply'.value = remote[SyncPdo!Current.object]
<1>1. SyncPdo!Current.kind = "write" <=> pc \in {"configure", "restore"}
  BY SyncCurrent DEF SyncPdo!SdoCall, SyncPdo!Scripted
<1>2. CASE pc \in {"configure", "restore"}
  BY <1>1, <1>2 DEF SyncPdo!SdoCall, SyncPdo!Call, SyncPdo!Sdo!SdoWrite, SyncPdo!Sdo!Answer, SyncPdo!Sdo!Written, SyncPdo!Accepted
<1>3. CASE pc \notin {"configure", "restore"}
  <2>1. pc \in {"verify", "recovered"} => SyncPdo!Current.kind = "expect"
    BY SyncCurrent DEF SyncPdo!SdoCall, SyncPdo!Scripted
  <2>2. SyncPdo!Sdo!SdoRead(SyncPdo!Current.object)
    BY <1>1, <1>3 DEF SyncPdo!SdoCall, SyncPdo!Call
  <2>. QED BY <1>3, <2>1, <2>2 DEF SyncPdo!Sdo!SdoRead, SyncPdo!Sdo!Answer, SyncPdo!Accepted
<1>. QED BY <1>2, <1>3

\* Where the process goes when a script ends or fails.
LEMMA SyncGoes ==
    ASSUME pc \in SyncPdo!Scripted
    PROVE  /\ SyncPdo!OnSuccess[pc] =
                CASE pc = "topology" -> "startMaster" [] pc = "snapshot" -> "conditions"
                  [] pc = "configure" -> "check" [] pc = "check" -> "startSlave"
                  [] pc = "restore" -> "verify" [] pc \in {"verify", "recovered"} -> "verdict"
           /\ SyncPdo!OnFailure[pc] =
                CASE pc \in {"topology", "snapshot", "configure", "check"} -> "stopSync"
                  [] pc \in {"restore", "verify"} -> "reset" [] pc = "recovered" -> "verdict"
           /\ SyncPdo!Completes[pc] =
                CASE pc \in {"topology", "check", "restore"} -> {}
                  [] pc = "snapshot" -> {"snapshot_saved"}
                  [] pc = "configure" -> {"temporary_configuration_completed"}
                  [] pc \in {"verify", "recovered"} -> {"restoration_verified"}
<1>1. CASE pc = "topology" BY <1>1 DEF SyncPdo!OnSuccess, SyncPdo!OnFailure, SyncPdo!Completes
<1>2. CASE pc = "snapshot" BY <1>2 DEF SyncPdo!OnSuccess, SyncPdo!OnFailure, SyncPdo!Completes
<1>3. CASE pc = "configure" BY <1>3 DEF SyncPdo!OnSuccess, SyncPdo!OnFailure, SyncPdo!Completes
<1>4. CASE pc = "check" BY <1>4 DEF SyncPdo!OnSuccess, SyncPdo!OnFailure, SyncPdo!Completes
<1>5. CASE pc = "restore" BY <1>5 DEF SyncPdo!OnSuccess, SyncPdo!OnFailure, SyncPdo!Completes
<1>6. CASE pc = "verify" BY <1>6 DEF SyncPdo!OnSuccess, SyncPdo!OnFailure, SyncPdo!Completes
<1>7. CASE pc = "recovered" BY <1>7 DEF SyncPdo!OnSuccess, SyncPdo!OnFailure, SyncPdo!Completes
<1>. QED BY <1>1, <1>2, <1>3, <1>4, <1>5, <1>6, <1>7 DEF SyncPdo!Scripted

\* The three ways a call can end: the next call, the end of the script, or
\* the first failure.
LEMMA SyncOutcome ==
    ASSUME SyncTypes, SyncPdo!SdoCall
    PROVE  /\ pc \in SyncPdo!Scripted
           /\ UNCHANGED <<nmt, stored, period, observed, failed, refused, produced, tpdos, restored>>
           /\ \/ /\ SyncPdo!Accepted /\ pos < Len(SyncPdo!Script) /\ pos' = pos + 1
                 /\ pc' = pc /\ result' = result /\ SyncPdo!Set(SyncPdo!Attempt)
              \/ /\ SyncPdo!Accepted /\ pos = Len(SyncPdo!Script) /\ pos' = 1
                 /\ pc' = SyncPdo!OnSuccess[pc] /\ result' = result
                 /\ SyncPdo!Set(SyncPdo!Attempt \cup SyncPdo!Completes[pc])
              \/ /\ ~SyncPdo!Accepted /\ pos' = 1 /\ pc' = SyncPdo!OnFailure[pc] /\ result' = 1
                 /\ SyncPdo!Set(SyncPdo!Attempt \cup SyncPdo!Abandoned)
  BY DEF SyncPdo!SdoCall, SyncPdo!slave, SyncPdo!observation, SyncPdo!history

\* Flags that a call can raise, and where it leads.
LEMMA SyncProgress ==
    ASSUME SyncTypes, SyncPdo!SdoCall
    PROVE  /\ flags' \in [SyncPdo!FlagNames -> BOOLEAN]
           /\ \A f \in {"callbacks_registered", "local_sync_period_touched", "slave_needs_start"} :
                 flags'[f] <=> flags[f]
           /\ flags'["tpdo_modification_attempted"] <=>
                 flags["tpdo_modification_attempted"] \/ pc = "configure"
           /\ flags'["snapshot_saved"] <=> flags["snapshot_saved"] \/ (pc = "snapshot" /\ pc' = "conditions")
           /\ flags'["temporary_configuration_completed"] <=>
                 flags["temporary_configuration_completed"] \/ (pc = "configure" /\ pc' = "check")
           /\ flags'["restoration_verified"] <=>
                 flags["restoration_verified"] \/ (pc \in {"verify", "recovered"} /\ pc' = "verdict" /\ SyncPdo!Accepted)
           /\ flags'["completion_wait_timed_out"] <=>
                 flags["completion_wait_timed_out"] \/ (~SyncPdo!Accepted /\ reply'.class = "WAIT_TIMEOUT")
<1>1. flags \in [SyncPdo!FlagNames -> BOOLEAN] /\ pc \in SyncPdo!Scripted
  BY SyncOutcome DEF SyncTypes
<1>2. CASE /\ SyncPdo!Accepted /\ pc' = pc /\ SyncPdo!Set(SyncPdo!Attempt)
  <2>1. /\ flags' \in [SyncPdo!FlagNames -> BOOLEAN]
        /\ \A f \in SyncPdo!FlagNames : flags'[f] <=> flags[f] \/ f \in SyncPdo!Attempt
    BY <1>1, <1>2, SyncSet
  <2>. QED BY <1>1, <1>2, <2>1 DEF SyncPdo!Attempt, SyncPdo!FlagNames
<1>3. CASE /\ SyncPdo!Accepted /\ pc' = SyncPdo!OnSuccess[pc]
           /\ SyncPdo!Set(SyncPdo!Attempt \cup SyncPdo!Completes[pc])
  <2>1. /\ flags' \in [SyncPdo!FlagNames -> BOOLEAN]
        /\ \A f \in SyncPdo!FlagNames : flags'[f] <=> flags[f] \/ f \in (SyncPdo!Attempt \cup SyncPdo!Completes[pc])
    BY <1>1, <1>3, SyncSet
  <2>. QED BY <1>1, <1>3, <2>1, SyncGoes DEF SyncPdo!Attempt, SyncPdo!FlagNames, SyncPdo!Scripted
<1>4. CASE /\ ~SyncPdo!Accepted /\ pc' = SyncPdo!OnFailure[pc]
           /\ SyncPdo!Set(SyncPdo!Attempt \cup SyncPdo!Abandoned)
  <2>1. /\ flags' \in [SyncPdo!FlagNames -> BOOLEAN]
        /\ \A f \in SyncPdo!FlagNames : flags'[f] <=> flags[f] \/ f \in (SyncPdo!Attempt \cup SyncPdo!Abandoned)
    BY <1>1, <1>4, SyncSet
  <2>. QED BY <1>1, <1>4, <2>1, SyncGoes DEF SyncPdo!Attempt, SyncPdo!Abandoned, SyncPdo!FlagNames, SyncPdo!Scripted
<1>. QED BY <1>2, <1>3, <1>4, SyncOutcome

\* The place after the current one in a script of up to three calls.
LEMMA ShortScript ==
    ASSUME NEW p \in 1..3, NEW n \in {1, 2, 3}, p < n
    PROVE  p + 1 \in 1..3 /\ p + 1 <= n /\ n # 1
    OBVIOUS

\* A step of a script.
LEMMA Sync_SdoCall ==
    ASSUME SyncInv, SyncPdo!SdoCall
    PROVE  SyncInv'
<1>. DEFINE o == SyncPdo!Current.object
            v == SyncPdo!Current.value
<1>1. SyncTypes /\ SyncSafe /\ SyncLocal /\ SyncPath /\ SyncCounted
  BY DEF SyncInv
<1>2. /\ pc \in SyncPdo!Scripted
      /\ UNCHANGED <<nmt, stored, period, observed, failed, refused, produced, tpdos, restored>>
      /\ \/ /\ SyncPdo!Accepted /\ pos < Len(SyncPdo!Script) /\ pos' = pos + 1
            /\ pc' = pc /\ result' = result
         \/ /\ SyncPdo!Accepted /\ pos = Len(SyncPdo!Script) /\ pos' = 1
            /\ pc' = SyncPdo!OnSuccess[pc] /\ result' = result
         \/ ~SyncPdo!Accepted /\ pos' = 1 /\ pc' = SyncPdo!OnFailure[pc] /\ result' = 1
  BY <1>1, SyncOutcome
<1>3. /\ Len(SyncPdo!Script) \in {1, 2, 3} /\ (pc = "topology" => Len(SyncPdo!Script) = 1)
      /\ (pc \in {"snapshot", "check"} => Len(SyncPdo!Script) = 2)
      /\ (pc \in {"configure", "restore", "verify", "recovered"} => Len(SyncPdo!Script) = 3)
  BY <1>1, <1>2, SyncCurrent DEF SyncPdo!Scripted
<1>4. pos \in 1..3
  BY <1>1 DEF SyncTypes
<1>5. \/ /\ SyncPdo!Accepted /\ pc' = pc /\ pos' = pos + 1 /\ pos < Len(SyncPdo!Script) /\ result' = result
      \/ /\ SyncPdo!Accepted /\ pos = Len(SyncPdo!Script) /\ pos' = 1 /\ result' = result
         /\ <<pc, pc'>> \in {<<"topology", "startMaster">>, <<"snapshot", "conditions">>,
                             <<"configure", "check">>, <<"check", "startSlave">>,
                             <<"restore", "verify">>, <<"verify", "verdict">>,
                             <<"recovered", "verdict">>}
      \/ /\ ~SyncPdo!Accepted /\ pos' = 1 /\ result' = 1
         /\ <<pc, pc'>> \in {<<"topology", "stopSync">>, <<"snapshot", "stopSync">>,
                             <<"configure", "stopSync">>, <<"check", "stopSync">>,
                             <<"restore", "reset">>, <<"verify", "reset">>,
                             <<"recovered", "verdict">>}
  BY <1>2, SyncGoes DEF SyncPdo!Scripted
<1>6. /\ original' = original \/ (pc = "snapshot" /\ SyncPdo!Accepted /\ original' = [original EXCEPT ![o] = reply'.value])
      /\ pc = "snapshot" => o \in {SyncPdo!Cob, SyncPdo!Type}
  BY <1>1, <1>2, SyncCurrent DEF SyncPdo!SdoCall
<1>7. /\ original' \in [SyncPdo!Objects -> SyncPdo!Values] /\ original'[SyncPdo!SyncCob] = "consumer"
  <2>1. /\ original \in [SyncPdo!Objects -> SyncPdo!Values] /\ original[SyncPdo!SyncCob] = "consumer"
        /\ remote \in [SyncPdo!Objects -> SyncPdo!Values]
    BY <1>1 DEF SyncTypes
  <2>2. pc = "snapshot" /\ SyncPdo!Accepted => reply'.value = remote[o]
    BY <1>1, SyncCallEffect
  <2>3. pc = "snapshot" => remote[o] \in SyncPdo!Values
    BY <1>6, <2>1 DEF SyncPdo!Objects
  <2>. QED BY <1>6, <2>1, <2>2, <2>3 DEF SyncPdo!Objects, SyncPdo!Cob, SyncPdo!Type, SyncPdo!SyncCob
<1>8. /\ remote' \in [SyncPdo!Objects -> SyncPdo!Values] /\ remote'[SyncPdo!SyncCob] = "consumer"
      /\ late' \in Seq({SyncPdo!Cob, SyncPdo!Type} \X SyncPdo!Values) /\ Len(late') <= 1
  <2>1. /\ remote \in [SyncPdo!Objects -> SyncPdo!Values] /\ remote[SyncPdo!SyncCob] = "consumer"
        /\ late \in Seq({SyncPdo!Cob, SyncPdo!Type} \X SyncPdo!Values) /\ Len(late) <= 1
    BY <1>1 DEF SyncTypes
  <2>2. CASE pc \in {"configure", "restore"}
    <3>1. o \in {SyncPdo!Cob, SyncPdo!Type} /\ v \in SyncPdo!Values
      BY <1>1, <1>2, <2>2, SyncCurrent
    <3>2. remote' = remote \/ remote' = [remote EXCEPT ![o] = v]
      BY <1>1, <2>2, SyncCallEffect
    <3>3. late = <<>>
      BY <1>1, <2>2 DEF SyncSafe, SyncFinal
    <3>4. late' = <<>> \/ late' = Append(<<>>, <<o, v>>)
      BY <1>1, <2>2, <3>3, SyncCallEffect
    <3>5. remote' \in [SyncPdo!Objects -> SyncPdo!Values] /\ remote'[SyncPdo!SyncCob] = "consumer"
      BY <2>1, <3>1, <3>2 DEF SyncPdo!Objects, SyncPdo!Cob, SyncPdo!Type, SyncPdo!SyncCob
    <3>6. <<o, v>> \in {SyncPdo!Cob, SyncPdo!Type} \X SyncPdo!Values
      BY <3>1
    <3>7. /\ Append(<<>>, <<o, v>>) \in Seq({SyncPdo!Cob, SyncPdo!Type} \X SyncPdo!Values)
          /\ Len(Append(<<>>, <<o, v>>)) = 1
      BY <3>6, OneElement
    <3>8. CASE late' = <<>>
      BY ONLY <3>8, <3>5
    <3>9. CASE late' = Append(<<>>, <<o, v>>)
      BY ONLY <3>9, <3>5, <3>7
    <3>. QED BY <3>4, <3>8, <3>9
  <2>3. CASE pc \notin {"configure", "restore"}
    BY <1>1, <2>1, <2>3, SyncCallEffect
  <2>. QED BY <2>2, <2>3
<1>9. /\ SyncPdo!Accepted => late = <<>> /\ late' = <<>>
      /\ late' # late => reply'.class = "WAIT_TIMEOUT" /\ pc \in {"configure", "restore"}
      /\ pc \notin {"configure", "restore"} => UNCHANGED <<remote, late>>
  BY <1>1, SyncCallEffect
<1>10. /\ flags' \in [SyncPdo!FlagNames -> BOOLEAN]
       /\ \A f \in {"callbacks_registered", "local_sync_period_touched", "slave_needs_start"} :
             flags'[f] <=> flags[f]
       /\ flags'["tpdo_modification_attempted"] <=>
             flags["tpdo_modification_attempted"] \/ pc = "configure"
       /\ flags'["snapshot_saved"] <=> flags["snapshot_saved"] \/ (pc = "snapshot" /\ pc' = "conditions")
       /\ flags'["temporary_configuration_completed"] <=>
             flags["temporary_configuration_completed"] \/ (pc = "configure" /\ pc' = "check")
       /\ flags'["restoration_verified"] <=>
             flags["restoration_verified"] \/ (pc \in {"verify", "recovered"} /\ pc' = "verdict" /\ SyncPdo!Accepted)
       /\ flags'["completion_wait_timed_out"] <=>
             flags["completion_wait_timed_out"] \/ (~SyncPdo!Accepted /\ reply'.class = "WAIT_TIMEOUT")
  BY <1>1, SyncProgress
<1>. HIDE DEF o, v
<1>11. SyncTypes'
  <2>1. pc' \in SyncPlaces /\ pos' \in 1..3 /\ (pc' \notin SyncPdo!Scripted => pos' = 1)
        /\ (pc' = "topology" => pos' = 1) /\ (pc' \in {"snapshot", "check"} => pos' <= 2)
    <3>1. pc \in SyncPlaces
      BY <1>1 DEF SyncTypes
    <3>2. CASE pc' = pc
      <4>1. pos' = pos + 1 /\ pos < Len(SyncPdo!Script)
        BY <1>5, <3>2
      <4>2. pos' \in 1..3 /\ pos' <= Len(SyncPdo!Script) /\ Len(SyncPdo!Script) # 1
        <5>1. Len(SyncPdo!Script) \in {1, 2, 3}
          BY <1>3
        <5>. QED BY <1>4, <4>1, <5>1, ShortScript
      <4>3. pc # "topology" /\ pc \in SyncPdo!Scripted
        BY <1>2, <1>3, <4>2
      <4>4. pc \in {"snapshot", "check"} => pos' <= 2
        BY <1>3, <4>2
      <4>. QED BY <3>1, <3>2, <4>2, <4>3, <4>4
    <3>3. CASE pc' # pc
      <4>1. pos' = 1
        BY <1>5, <3>3
      <4>2. pc' \in SyncPlaces
        BY <1>5, <3>3 DEF SyncPlaces, SyncBefore, SyncTest, SyncFinal
      <4>. QED BY <4>1, <4>2
    <3>. QED BY <3>2, <3>3
  <2>2. result' \in {0, 1}
    BY <1>1, <1>5 DEF SyncTypes
  <2>3. flags' \in [SyncPdo!FlagNames -> BOOLEAN]
    BY <1>10
  <2>. QED BY <1>1, <1>2, <1>7, <1>8, <2>1, <2>2, <2>3 DEF SyncTypes
<1>12. SyncSafe'
  <2>1. late' = <<>> \/ pc' \in {"reset", "recoverPreop", "recovered"} \cup SyncFinal
                     \/ (pc' = "stopSync" /\ flags'["completion_wait_timed_out"])
    <3>1. CASE late' # late
      <4>1. ~SyncPdo!Accepted /\ flags'["completion_wait_timed_out"]
        BY <1>9, <1>10, <3>1
      <4>. QED BY <1>5, <4>1 DEF SyncFinal
    <3>2. CASE late' = late
      BY <1>1, <1>2, <1>5, <3>2 DEF SyncSafe, SyncFinal, SyncPdo!Scripted
    <3>. QED BY <3>1, <3>2
  <2>2. pc' = "recovered" /\ pos' > 1 => late' = <<>>
    BY <1>5, <1>9
  <2>3. ASSUME pc' \in {"verify", "recovered"}, pos' > 1
        PROVE  /\ remote'[SyncPdo!Cob] = original'[SyncPdo!Cob]
               /\ pos' > 2 => remote'[SyncPdo!Type] = original'[SyncPdo!Type]
    <3>1. /\ SyncPdo!Accepted /\ pc' = pc /\ pos' = pos + 1 /\ pos < 3
          /\ pc \in {"verify", "recovered"}
      <4>1. pos' # 1
        BY <2>3
      <4>2. /\ SyncPdo!Accepted /\ pc' = pc /\ pos' = pos + 1 /\ pos < Len(SyncPdo!Script)
        BY <1>5, <4>1
      <4>3. pc \in {"verify", "recovered"}
        BY <2>3, <4>2
      <4>. QED BY <1>3, <4>2, <4>3
    <3>2. original' = original /\ remote' = remote
      BY <1>6, <1>9, <3>1
    <3>3. /\ pos = 1 => remote[SyncPdo!Cob] = original[SyncPdo!Cob]
          /\ pos = 2 => remote[SyncPdo!Type] = original[SyncPdo!Type]
      BY <1>1, <1>2, <3>1, SyncCurrent, SyncCallEffect
    <3>4. pos = 2 => remote[SyncPdo!Cob] = original[SyncPdo!Cob]
      BY <1>1, <3>1 DEF SyncSafe
    <3>. QED BY <1>4, <3>1, <3>2, <3>3, <3>4
  <2>4. ASSUME flags'["restoration_verified"]
        PROVE  pc' \in SyncFinal /\ remote' = original' /\ late' = <<>>
    <3>1. ~flags["restoration_verified"]
      BY <1>1, <1>2 DEF SyncSafe, SyncFinal, SyncPdo!Scripted
    <3>2. pc \in {"verify", "recovered"} /\ pc' = "verdict" /\ SyncPdo!Accepted
      BY <1>10, <2>4, <3>1
    <3>3. pos = 3
      BY <1>3, <1>5, <3>2
    <3>4. original' = original /\ remote' = remote /\ late' = <<>>
      BY <1>6, <1>9, <3>2
    <3>5. remote[SyncPdo!Cob] = original[SyncPdo!Cob] /\ remote[SyncPdo!Type] = original[SyncPdo!Type]
      BY <1>1, <3>2, <3>3 DEF SyncSafe
    <3>6. remote = original
      BY <1>1, <3>5 DEF SyncTypes, SyncPdo!Objects
    <3>. QED BY <3>2, <3>4, <3>6 DEF SyncFinal
  <2>5. pc' \in {"verify", "recovered"} =>
          /\ pos' > 1 => remote'[SyncPdo!Cob] = original'[SyncPdo!Cob]
          /\ pos' > 2 => remote'[SyncPdo!Type] = original'[SyncPdo!Type]
    <3>1. pos' \in 1..3
      BY <1>11 DEF SyncTypes
    <3>2. pos' > 2 => pos' > 1
      BY <3>1
    <3>. QED BY <2>3, <3>2
  <2>6. flags'["restoration_verified"] => pc' \in SyncFinal /\ remote' = original' /\ late' = <<>>
    BY <2>4
  <2>. HIDE DEF SyncFinal
  <2>. QED BY <2>1, <2>2, <2>5, <2>6 DEF SyncSafe
<1>13. SyncLocal'
  <2>1. pc' # "done"
    BY <1>2, <1>5 DEF SyncPdo!Scripted
  <2>2. pc' \in {"configure"} \cup SyncTest => pc \in {"configure"} \cup SyncTest
    BY <1>2, <1>5 DEF SyncTest
  <2>. QED BY <1>1, <1>2, <1>10, <2>1, <2>2 DEF SyncLocal, SyncPdo!SyncProducerRestored
<1>14. SyncPath'
  <2>1. SUFFICES ASSUME result' = 0 PROVE SyncPath'
    BY DEF SyncPath
  <2>2. SyncPdo!Accepted /\ result = 0
    BY <1>5, <2>1
  <2>3. /\ ~flags'["completion_wait_timed_out"] /\ pc # "recovered"
        /\ flags["snapshot_saved"] => flags'["snapshot_saved"]
    BY <1>1, <1>10, <2>2 DEF SyncPath
  <2>4. flags["local_sync_period_touched"] => flags'["local_sync_period_touched"]
    BY <1>10
  <2>5. CASE pc \in {"topology", "snapshot"}
    BY <1>5, <1>10, <2>2, <2>3, <2>5 DEF SyncPath, SyncBefore, SyncFinal
  <2>6. CASE pc = "configure"
    <3>1. flags["snapshot_saved"] /\ flags["local_sync_period_touched"]
      BY <1>1, <2>2, <2>6 DEF SyncPath, SyncLocal
    <3>2. pc' \in {"configure", "check"} /\ flags'["tpdo_modification_attempted"]
          /\ (pc' = "check" => flags'["temporary_configuration_completed"])
      BY <1>5, <1>10, <2>2, <2>6
    <3>. QED BY <2>3, <2>4, <3>1, <3>2 DEF SyncPath, SyncHas, SyncDone, SyncBefore, SyncFinal
  <2>7. CASE pc \in {"check", "restore", "verify"}
    <3>1. \A f \in SyncDone : flags[f]
      BY <1>1, <2>2, <2>7 DEF SyncPath, SyncHas, SyncBefore
    <3>2. SyncHas(SyncDone)'
      BY <1>10, <3>1 DEF SyncHas, SyncDone
    <3>3. CASE pc = "check"
      BY <1>5, <2>2, <2>3, <3>2, <3>3 DEF SyncPath, SyncBefore, SyncFinal
    <3>4. CASE pc \in {"restore", "verify"}
      <4>1. pc' \in {"restore", "verify", "verdict"} /\ (pc' = "verdict" => pc = "verify")
        BY <1>5, <2>2, <3>4
      <4>2. flags["callbacks_registered"] /\ flags["slave_needs_start"] /\ nmt = "preop"
        BY <1>1, <2>2, <3>4 DEF SyncPath
      <4>3. pc' = "verdict" => flags'["restoration_verified"]
        BY <1>10, <2>2, <4>1
      <4>. QED BY <1>2, <1>10, <2>3, <3>2, <4>1, <4>2, <4>3 DEF SyncPath, SyncBefore, SyncFinal
    <3>. QED BY <2>7, <3>3, <3>4
  <2>. QED BY <1>2, <2>3, <2>5, <2>6, <2>7 DEF SyncPdo!Scripted
<1>15. SyncCounted'
  <2>1. result' = 0 => /\ result = 0 /\ SyncPdo!Accepted
                       /\ pc \notin {"samples", "silence", "start", "event", "lastPeriod", "done", "recovered"}
    BY <1>1, <1>2, <1>5 DEF SyncPath, SyncPdo!Scripted
  <2>2. result' = 0 => /\ pc' \notin {"samples", "silence", "start", "event", "lastPeriod", "done", "stopSync", "cleanPreop"}
                       /\ pc' \in {"restore", "verify", "verdict"} => pc \in {"restore", "verify"}
    BY <1>2, <1>5, <2>1 DEF SyncPdo!Scripted
  <2>. QED BY <1>1, <1>2, <2>1, <2>2 DEF SyncCounted, SyncFinal
<1>. QED BY <1>11, <1>12, <1>13, <1>14, <1>15 DEF SyncInv

\* An abandoned write that still happens: nothing was verified before.
LEMMA Sync_LateEffect ==
    ASSUME SyncInv, SyncPdo!LateEffect
    PROVE  SyncInv'
<1>1. SyncTypes /\ SyncSafe /\ SyncLocal /\ SyncPath /\ SyncCounted
  BY DEF SyncInv
<1>2. /\ late # <<>> /\ late' = Tail(late)
      /\ remote' = remote \/ remote' = [remote EXCEPT ![Head(late)[1]] = Head(late)[2]]
      /\ UNCHANGED <<nmt, stored, period, observed, failed, pc, pos, result, original, flags,
                     refused, produced, tpdos, restored>>
  BY DEF SyncPdo!LateEffect, SyncPdo!Sdo!LateWrite, SyncPdo!Sdo!LateLoss, SyncPdo!Sdo!Written,
         SyncPdo!slave, SyncPdo!observation, SyncPdo!thread, SyncPdo!history
<1>3. late \in Seq({SyncPdo!Cob, SyncPdo!Type} \X SyncPdo!Values) /\ Len(late) <= 1
  BY <1>1 DEF SyncTypes
<1>4. /\ Head(late) \in {SyncPdo!Cob, SyncPdo!Type} \X SyncPdo!Values
      /\ late' \in Seq({SyncPdo!Cob, SyncPdo!Type} \X SyncPdo!Values)
      /\ Len(late') = Len(late) - 1 /\ Len(late) \in Nat
  BY <1>2, <1>3, HeadTail
<1>5. late' = <<>>
  BY <1>2, <1>3, <1>4
<1>6. PICK o \in {SyncPdo!Cob, SyncPdo!Type}, v \in SyncPdo!Values :
        remote' = remote \/ remote' = [remote EXCEPT ![o] = v]
  BY <1>2, <1>4
<1>7. remote' \in [SyncPdo!Objects -> SyncPdo!Values] /\ remote'[SyncPdo!SyncCob] = "consumer"
  BY <1>1, <1>6 DEF SyncTypes, SyncPdo!Objects, SyncPdo!Cob, SyncPdo!Type, SyncPdo!SyncCob
<1>8. SyncTypes'
  BY <1>1, <1>2, <1>5, <1>7 DEF SyncTypes
<1>9. ~flags["restoration_verified"] /\ pc # "verify" /\ (pc = "recovered" => ~(pos > 1))
  BY <1>1, <1>2 DEF SyncSafe, SyncFinal
<1>10. SyncSafe'
  <2>1. pos \in 1..3
    BY <1>1 DEF SyncTypes
  <2>. QED BY <1>2, <1>5, <1>9, <2>1 DEF SyncSafe
<1>11. SyncLocal' /\ SyncPath'
  BY <1>1, <1>2 DEF SyncLocal, SyncPath, SyncHas, SyncPdo!SyncProducerRestored
<1>12. SyncCounted'
  BY <1>1, <1>2, SyncCountKept DEF SyncCounted
<1>. QED BY <1>8, <1>10, <1>11, <1>12 DEF SyncInv

\* The initial states of the SYNC PDO validation satisfy its invariant.
LEMMA SyncStarts ==
    ASSUME SyncPdo!Init
    PROVE  SyncInv
<1>1. PICK p \in SyncPdo!TpdoParameters : SyncPdo!Sdo!SdoInit(SyncPdo!OfSlave(p))
  BY DEF SyncPdo!Init
<1>2. remote = SyncPdo!OfSlave(p) /\ late = <<>>
  BY <1>1 DEF SyncPdo!Sdo!SdoInit
<1>3. ASSUME NEW q \in SyncPdo!TpdoParameters
      PROVE  /\ SyncPdo!OfSlave(q) \in [SyncPdo!Objects -> SyncPdo!Values]
             /\ SyncPdo!OfSlave(q)[SyncPdo!SyncCob] = "consumer"
  <2>1. q.cob \in SyncPdo!Values /\ q.type \in SyncPdo!Values /\ "consumer" \in SyncPdo!Values
    BY DEF SyncPdo!TpdoParameters, SyncPdo!Values
  <2>. QED BY <2>1 DEF SyncPdo!OfSlave, SyncPdo!Objects, SyncPdo!Cob, SyncPdo!Type, SyncPdo!SyncCob
<1>4. [cob |-> "valid", type |-> "event"] \in SyncPdo!TpdoParameters
  BY DEF SyncPdo!TpdoParameters
<1>5. /\ remote \in [SyncPdo!Objects -> SyncPdo!Values] /\ remote[SyncPdo!SyncCob] = "consumer"
      /\ stored \in [SyncPdo!Objects -> SyncPdo!Values] /\ stored[SyncPdo!SyncCob] = "consumer"
      /\ original \in [SyncPdo!Objects -> SyncPdo!Values] /\ original[SyncPdo!SyncCob] = "consumer"
  <2>1. /\ remote \in [SyncPdo!Objects -> SyncPdo!Values] /\ remote[SyncPdo!SyncCob] = "consumer"
    BY <1>2, <1>3
  <2>2. original = SyncPdo!OfSlave([cob |-> "valid", type |-> "event"]) /\ stored \in {remote, original}
    BY DEF SyncPdo!Init
  <2>3. /\ original \in [SyncPdo!Objects -> SyncPdo!Values] /\ original[SyncPdo!SyncCob] = "consumer"
    BY <1>3, <1>4, <2>2
  <2>. QED BY <2>1, <2>2, <2>3
<1>6. /\ nmt \in {"op", "preop"} /\ period = "original" /\ observed = <<>> /\ failed = FALSE
      /\ pc = "topology" /\ pos = 1 /\ result = 0 /\ refused = FALSE
      /\ produced = 0 /\ tpdos = 0 /\ restored = 0
      /\ flags = [f \in SyncPdo!FlagNames |-> FALSE]
  BY DEF SyncPdo!Init
<1>7. /\ late \in Seq({SyncPdo!Cob, SyncPdo!Type} \X SyncPdo!Values) /\ Len(late) <= 1
      /\ observed \in Seq({"S", "T", "L"}) /\ Len(observed) <= MaxEvents
  BY <1>2, <1>6, Constants
<1>8. flags \in [SyncPdo!FlagNames -> BOOLEAN] /\ \A f \in SyncPdo!FlagNames : ~flags[f]
  BY <1>6
<1>9. SyncTypes
  <2>2. failed \in BOOLEAN /\ refused \in BOOLEAN
    BY ONLY <1>6
  <2>3. pc \in SyncPlaces
    BY ONLY <1>6 DEF SyncPlaces, SyncBefore
  <2>1. /\ result \in {0, 1}
        /\ produced \in Nat /\ tpdos \in Nat /\ restored \in Nat /\ pos \in 1..3
        /\ period \in {"0", "test", "original"}
    BY ONLY <1>6
  <2>. QED BY ONLY <2>1, <2>2, <2>3, <1>5, <1>6, <1>7, <1>8 DEF SyncTypes
<1>10. SyncSafe /\ SyncLocal /\ SyncPath /\ SyncCounted
  BY <1>2, <1>6, <1>8 DEF SyncSafe, SyncLocal, SyncPath, SyncCounted, SyncTest, SyncBefore, SyncFinal,
     SyncPdo!SyncProducerRestored, SyncPdo!FlagNames
<1>. QED BY <1>9, <1>10 DEF SyncInv

\* Every step of the SYNC PDO validation keeps its invariant: one case per action.
LEMMA SyncStays ==
    ASSUME SyncInv, SyncPdo!Next
    PROVE  SyncInv'
<1>1. CASE SyncPdo!Done
  <2>1. UNCHANGED <<remote, late, stored, nmt, period, observed, failed, pc, pos, result, original, flags,
                    refused, produced, tpdos, restored>>
    BY <1>1 DEF SyncPdo!Done, SyncPdo!vars, SyncPdo!sdo, SyncPdo!slave, SyncPdo!observation, SyncPdo!history
  <2>2. SyncTypes' /\ SyncSafe'
    BY <2>1 DEF SyncInv, SyncTypes, SyncSafe
  <2>3. SyncLocal' /\ SyncPath'
    BY <2>1 DEF SyncInv, SyncLocal, SyncPath, SyncHas, SyncPdo!SyncProducerRestored
  <2>4. SyncCounted'
    BY <2>1, SyncCountKept DEF SyncInv, SyncCounted
  <2>. QED BY <2>2, <2>3, <2>4 DEF SyncInv
<1>. QED BY <1>1, Sync_StartMaster, Sync_CheckConditions, Sync_verifyQuietWindow,
     Sync_waitForSynchronousSamples, Sync_verifyPostSyncSilence, Sync_PreopFirst, Sync_StopPeriod,
     Sync_CleanPreop, Sync_RecoverPreop, Sync_StartSlave, Sync_StopSync, Sync_RestartSlave,
     Sync_RestorePeriod, Sync_OnSyncError, Sync_StartSync, Sync_Verdict, Sync_verifyRestoredEventTpdo,
     Sync_OnRpdo, Sync_OnSync, Sync_ResetSlave, Sync_SdoCall, Sync_LateEffect
  DEF SyncPdo!Next, SyncPdo!Thread

\* What the invariant says of the properties.
LEMMA SyncPromises ==
    ASSUME SyncInv
    PROVE  /\ SyncPdo!TypeOK /\ SyncPdo!PassHasEvidence /\ SyncPdo!PassMeansRestored
           /\ SyncPdo!SyncProducerRestored
<1>1. SyncPdo!TypeOK
  <2>1. Len(late) <= 2
    BY DEF SyncInv, SyncTypes
  <2>. QED BY <2>1 DEF SyncInv, SyncTypes, SyncPdo!TypeOK
<1>2. SyncPdo!PassHasEvidence
  BY DEF SyncInv, SyncCounted, SyncPdo!PassHasEvidence, SyncFinal
<1>3. SyncPdo!PassMeansRestored
  BY DEF SyncInv, SyncCounted, SyncPath, SyncSafe, SyncPdo!PassMeansRestored, SyncFinal
<1>4. SyncPdo!SyncProducerRestored
  BY DEF SyncInv, SyncLocal
<1>. QED BY <1>1, <1>2, <1>3, <1>4

\* A start of a reconfigured slave is one that slave_start_is_safe allows.
LEMMA SyncStartSafe ==
    ASSUME SyncInv, SyncPdo!Next
    PROVE  SyncPdo!StartedOnlyRestored
<1>1. SUFFICES ASSUME pc = "start", flags["tpdo_modification_attempted"],
                      ~flags'["slave_needs_start"], flags["slave_needs_start"]
               PROVE  flags["restoration_verified"]
  BY DEF SyncInv, SyncSafe, SyncPdo!StartedOnlyRestored
<1>2. \/ UNCHANGED flags \/ SyncPdo!RestartSlave
  BY <1>1 DEF SyncPdo!Next, SyncPdo!Thread, SyncPdo!OnRpdo, SyncPdo!OnSync, SyncPdo!OnSyncError,
     SyncPdo!LateEffect, SyncPdo!thread, SyncPdo!SdoCall, SyncPdo!Scripted, SyncPdo!StartMaster,
     SyncPdo!PreopFirst, SyncPdo!CheckConditions, SyncPdo!StopPeriod, SyncPdo!StartSlave,
     SyncPdo!verifyQuietWindow, SyncPdo!StartSync, SyncPdo!waitForSynchronousSamples,
     SyncPdo!verifyPostSyncSilence, SyncPdo!Validate, SyncPdo!StopSync, SyncPdo!CleanPreop,
     SyncPdo!ResetSlave, SyncPdo!RecoverPreop, SyncPdo!Verdict, SyncPdo!verifyRestoredEventTpdo,
     SyncPdo!RestorePeriod, SyncPdo!Done
<1>3. SyncPdo!slave_start_is_safe
  BY <1>1, <1>2 DEF SyncPdo!RestartSlave
<1>. QED BY <1>1, <1>3 DEF SyncPdo!slave_start_is_safe

-----------------------------------------------------------------------------
(* TimeProcess: the inductive invariant.                                   *)

TimePlaces == {"capture", "enable", "test", "cleanup", "restore", "recover",
               "verdict", "start", "done"}
TimeStates == {"on", "off"}
TimeDefects == {"none", "noapply", "anylength", "ungated", "stopped"}

TimeFrame == [time : 0..(Time!Cycle - 1), valid : BOOLEAN]
TimeReading == [count : 0..3, ms : Nat, days : Nat, at : 0..MaxTicks,
                clock : 0..(Time!Cycle - 1)]

\* The places of the test script, by the kind of operation.
TDiag == {1, 5, 10, 15, 19, 21, 25, 29, 33, 40}
TCount == {2, 7, 12, 37}
TSend == {3, 8, 13, 23, 31, 38}
TPoll == {4, 9, 14, 39}
TApplied == {6, 11, 16, 41}
TKeep == {17, 22, 30}
TSleep == {18, 24, 32}
TAdvance == {20, 26, 34}
TWrite == {27, 35}
TExpect == {28, 36}

TimeTypes ==
    /\ remote \in [Time!Objects -> TimeStates]
    /\ late \in Seq({Time!Cob} \X TimeStates) /\ Len(late) <= 2
    /\ time \in 0..(Time!Cycle - 1) /\ rx \in 0..3
    /\ buffer \in BOOLEAN /\ pending \in 0..Time!Cycle
    /\ wire = <<>> \/ \E f \in TimeFrame : wire = <<f>>
    /\ nmt \in {"op", "preop"} /\ defect \in TimeDefects
    /\ host \in 0..MaxTicks /\ result \in {0, 1}
    /\ flags \in [Time!FlagNames -> BOOLEAN]
    /\ sub \in 1..4 /\ attempt \in 1..RetryCount
    /\ diag \in TimeReading /\ before \in TimeReading
    /\ previous_count \in 0..3 /\ original \in TimeStates
    /\ lost \in BOOLEAN
    /\ pc \in TimePlaces /\ pos \in 1..41
    /\ pc = "capture" => pos <= 2
    /\ pc = "enable" => pos <= 4
    /\ pc = "restore" => pos <= IF flags.consumer_enable_reset_performed THEN 4 ELSE 2
    /\ pc = "recover" => pos <= 5
    /\ pc \notin Time!Scripted => pos = 1

\* An abandoned write is left only where the process knows of it; what is
\* verified is the slave's own value and stays so.
TimeSafe ==
    /\ pc \in {"capture", "enable", "test", "restore"} => late = <<>>
    /\ pc = "cleanup" /\ late # <<>> => flags.completion_wait_timed_out
    /\ pc \in {"cleanup", "recover"} => Len(late) <= 1
    /\ pc = "enable" /\ pos > 1 => remote[Time!Cob] = "on"
    /\ pc = "restore" /\ pos > 1 => remote[Time!Cob] = original
    /\ pc = "recover" /\ pos > 2 => late = <<>> /\ remote[Time!Cob] = original
    /\ flags.restoration_verified =>
          /\ pc \in {"verdict", "start", "done"}
          /\ remote[Time!Cob] = original /\ late = <<>>
    /\ pc \in {"test", "cleanup"} /\ ~flags.cob_id_modification_attempted =>
          late = <<>> /\ original = "on" /\ remote[Time!Cob] = "on"
    /\ pc = "capture" => ~flags.cob_id_modification_attempted
    /\ pc = "enable" => flags.cob_id_modification_attempted

\* The receive buffer follows 0x1012, one reset behind; what a run without a
\* failure leaves.
TimeBuffer ==
    /\ pc \in {"capture", "enable", "test"} => result = 0
    /\ result = 0 => pc # "recover"
    /\ pc = "capture" => /\ buffer = (remote[Time!Cob] = "on")
                         /\ ~flags.consumer_enable_reset_performed
    /\ pc = "enable" => /\ original = "off" /\ (pos = 4 => buffer)
                        /\ flags.consumer_enable_reset_performed = (pos = 4)
    /\ pc = "test" => /\ remote[Time!Cob] = IF pos \in 28..35 THEN "off" ELSE "on"
                      /\ pos >= 28 => flags.cob_id_modification_attempted
    /\ pc = "test" \/ (result = 0 /\ pc \in {"cleanup", "restore"} /\ pos < 4) => buffer
    /\ result = 0 /\ pc \in {"test", "cleanup", "restore"} =>
          flags.consumer_enable_reset_performed = (original = "off")
    /\ result = 0 /\ pc = "cleanup" => flags.cob_id_modification_attempted
    /\ result = 0 /\ pc = "restore" /\ pos = 4 => buffer = (original = "on")
    /\ result = 0 /\ pc \in {"verdict", "start", "done"} =>
          flags.restoration_verified /\ buffer = (original = "on")
    /\ result = 0 /\ pc = "done" => ~flags.slave_needs_start

-----------------------------------------------------------------------------
(* The clock during the test.  Since the last injected time that the slave *)
(* took, the clock has gone on by at most what the host has measured, plus *)
(* MaxTicks for every time the host clock was started again since.         *)

Within(b, s, t, h) ==
    \/ b <= t /\ t <= b + s + h
    \/ b <= t + Time!Cycle /\ t + Time!Cycle <= b + s + h

\* The injected time that the clock last took at place p, and the one that
\* is next.
Base(p) == IF p <= 6 THEN 0 ELSE IF p <= 11 THEN Time!LateInDay
           ELSE IF p <= 16 THEN Time!LastDay ELSE Time!Continuous
Slack(p) == IF p \in {1, 2, 7, 12, 17} THEN 0 ELSE IF p <= 22 THEN MaxTicks
            ELSE IF p <= 30 THEN 2 * MaxTicks ELSE IF p <= 37 THEN 3 * MaxTicks
            ELSE 4 * MaxTicks
Target(p) == IF p <= 6 THEN Time!LateInDay ELSE IF p <= 11 THEN Time!LastDay
             ELSE IF p <= 16 THEN Time!Continuous ELSE Time!Again

TargetSent == {4, 5, 6, 9, 10, 11, 14, 15, 16, 39, 40, 41}
UnwantedSent == {24, 25, 26} \cup 32..41
FrameSent == {4, 9, 14, 24, 32, 39}
Sent(p) == IF p \in {24, 32} THEN Time!Unwanted ELSE Target(p)

OldSlot(p, t, h) == Within(Base(p), Slack(p), t, h)
BadSlot(p, t, h) == /\ p \in UnwantedSent
                    /\ Within(Time!Unwanted, IF p >= 38 THEN MaxTicks ELSE 0, t, h)
NewSlot(p, t, h) == p \in TargetSent /\ Within(Target(p), 0, t, h)

\* The slave took the time that was sent last.
Taken == /\ NewSlot(pos, time, host) /\ Target(pos) \in applied
         /\ pending = Time!None /\ wire = <<>>
         /\ defect = "stopped" => time = Target(pos)
\* It took the one of the frames that it should not take.
Misled == /\ BadSlot(pos, time, host) /\ pending # Time!Unwanted
          /\ pos < 38 => wire = <<>>
          /\ pos \in 32..34 => defect = "ungated"

TimeClock == OldSlot(pos, time, host) \/ Misled \/ Taken

\* The frame that is under way, or received and not applied yet.
TimeFrames ==
    /\ wire # <<>> => /\ pos \in FrameSent
                      /\ wire[1].time = Sent(pos) /\ (wire[1].valid <=> pos # 24)
                      /\ pending = Time!None \/ (pos = 39 /\ pending = Time!Unwanted)
    /\ pending # Time!None =>
          \/ pos \in TargetSent /\ pending = Target(pos)
          \/ pos \in {24} \cup 32..41 /\ pending = Time!Unwanted
    /\ pos \in 33..34 /\ defect = "ungated" => pending = Time!None

\* The receive count of the two frames that must not be applied.
TimeCounts ==
    /\ (pos \in {21, 25, 29, 33} /\ sub >= 2) \/ pos \in {22, 26, 30, 34} => diag.count = rx
    /\ pos \in {23, 31} => before.count = rx
    /\ pos \in {24, 32} /\ wire # <<>> => rx = before.count
    /\ pos \in 24..26 /\ rx = before.count =>
          /\ pending = Time!None /\ OldSlot(pos, time, host)
          /\ wire # <<>> \/ defect # "anylength" \/ lost
    /\ pos \in 32..34 /\ rx # before.count =>
          pending = Time!Unwanted \/ BadSlot(pos, time, host)

\* Days in the order in which the clock passes them at place p.
DayOrder(p, d, e) == IF p = 15 THEN d = Days - 1 \/ (d <= e /\ e < Days - 1)
                     ELSE d <= e

AfterDiag == {2, 6, 11, 16, 17, 20, 22, 26, 30, 34, 41}
Read == (pos \in TDiag /\ sub = 4) \/ pos \in AfterDiag
DayOf(t) == t \div DayLength
Coherent(d) == Time!timePosition(d.ms, d.days) = d.clock

\* The parts of a snapshot, in the order in which they are read.
TimeOrder ==
    /\ pos \in TDiag /\ sub >= 3 => DayOrder(pos, diag.days, DayOf(time))
    /\ pos \in TDiag /\ sub = 4 =>
          /\ DayOrder(pos, diag.days, DayOf(diag.clock))
          /\ DayOrder(pos, DayOf(diag.clock), DayOf(time))
          /\ diag.ms = diag.clock % DayLength
    /\ pos \in AfterDiag => Coherent(diag)

\* What a snapshot says of the clock, and the earlier one it is compared to.
TimeViews ==
    /\ Read =>
          /\ diag.at <= host
          /\ \/ OldSlot(pos, diag.clock, diag.at)
             \/ BadSlot(pos, diag.clock, diag.at)
             \/ /\ NewSlot(pos, diag.clock, diag.at) /\ Taken
                /\ defect = "stopped" => diag.clock = Target(pos)
    /\ pos = 19 => host >= Wait
    /\ pos \in {19, 20} /\ Read => diag.at >= Wait
    /\ pos \in 17..20 /\ defect = "stopped" =>
          /\ time = Time!Continuous
          /\ Read => diag.clock = Time!Continuous
          /\ pos >= 18 => before.clock = Time!Continuous
    /\ pos \in 18..20 \cup 31..34 => Coherent(before)
    /\ pos \in 31..34 => /\ Time!Continuous <= before.clock
                         /\ before.clock <= Time!Continuous + 3 * MaxTicks
    /\ pos \in {33, 34} /\ Read /\ defect = "ungated" /\ rx # before.count =>
          BadSlot(pos, diag.clock, diag.at)

\* What the test has shown so far.
TimeShown ==
    /\ pos >= 7 => Time!LateInDay \in applied
    /\ pos >= 12 => Time!LastDay \in applied
    /\ pos >= 17 => Time!Continuous \in applied
    /\ pos >= 21 => defect # "stopped"
    /\ pos >= 27 => defect # "anylength" \/ lost
    /\ pos >= 35 => defect # "ungated"

TimeEvidence ==
    /\ {Time!LateInDay, Time!LastDay, Time!Continuous, Time!Again} \subseteq applied
    /\ defect = "none" \/ (defect = "anylength" /\ lost)

TimeProof ==
    /\ applied # {} => defect # "noapply"
    /\ pc \in {"capture", "enable"} =>
          time = 0 /\ host = 0 /\ wire = <<>> /\ pending = Time!None
    /\ pc \in {"cleanup", "restore", "verdict", "start", "done"} /\ result = 0 => TimeEvidence

TimeTest == /\ TimeClock /\ TimeFrames /\ TimeCounts
            /\ TimeOrder /\ TimeViews /\ TimeShown

TimeInv == /\ TimeTypes /\ TimeSafe /\ TimeBuffer /\ TimeProof
           /\ pc = "test" => TimeTest

-----------------------------------------------------------------------------
(* TimeProcess: numbers and scripts.                                       *)

\* The product of two natural numbers is one, and grows with its factors.
LEMMA Products ==
    ASSUME NEW a \in Nat, NEW b \in Nat, NEW c \in Nat
    PROVE  /\ a * b \in Nat
           /\ a <= b => a * c <= b * c
           /\ a < b => a * c + c <= b * c
<1>1. a * b \in Nat
  OBVIOUS
<1>2. CASE a <= b
  <2>1. PICK d \in Nat : b = a + d
    <3>1. b - a \in Nat /\ b = a + (b - a)
      BY <1>2
    <3>. QED BY <3>1
  <2>2. b * c = a * c + d * c
    BY <2>1
  <2>3. d * c \in Nat
    OBVIOUS
  <2>4. a < b => d * c >= c
    <3>1. a < b => d - 1 \in Nat
      BY <2>1
    <3>2. a < b => (d - 1) * c \in Nat
      BY <3>1
    <3>3. d * c = (d - 1) * c + c
      BY <2>1
    <3>. QED BY <3>2, <3>3, <2>3
  <2>5. a * c \in Nat
    OBVIOUS
  <2>. QED BY <1>1, <2>2, <2>3, <2>4, <2>5
<1>3. CASE ~(a <= b)
  BY <1>1, <1>3
<1>. QED BY <1>2, <1>3

\* The injected times, in days.
LEMMA TimeNumbers ==
    /\ DayLength \in Nat /\ DayLength >= 2 /\ MaxTicks \in Nat /\ MaxTicks < DayLength
    /\ Tolerance \in Nat /\ Wait \in Nat /\ Tolerance < Wait /\ Tolerance < DayLength
    /\ Time!Cycle \in Nat /\ Time!Cycle >= 18 * DayLength /\ Time!None = Time!Cycle
    /\ Time!LateInDay = 3 * DayLength - 1 /\ Time!LastDay = Time!Cycle - DayLength
    /\ Time!Continuous = 4 * DayLength + 1 /\ Time!Unwanted = 11 * DayLength + 1
    /\ Time!Again = 16 * DayLength + 1
<1>1. /\ DayLength \in Nat /\ DayLength >= 2 /\ MaxTicks \in Nat /\ MaxTicks < DayLength
      /\ Tolerance \in Nat /\ Wait \in Nat /\ Tolerance < Wait /\ Tolerance < DayLength
      /\ Days \in Nat /\ Days > 17
  BY TimingAssumption
<1>2. Time!Cycle = Days * DayLength /\ Time!Cycle \in Nat
  BY <1>1, Products DEF Time!Cycle
<1>3. 18 * DayLength <= Days * DayLength
  BY <1>1, Products
<1>4. (Days - 1) * DayLength = Days * DayLength - DayLength
  BY <1>1
<1>. QED BY <1>1, <1>2, <1>3, <1>4 DEF Time!None, Time!LateInDay, Time!LastDay, Time!Continuous,
     Time!Unwanted, Time!Again, Time!timePosition

\* Milliseconds and days make up the clock; the days grow with it.
LEMMA DayParts ==
    ASSUME NEW t \in Nat
    PROVE  /\ DayOf(t) \in Nat /\ t % DayLength \in Nat
           /\ Time!timePosition(t % DayLength, DayOf(t)) = t
           /\ DayOf(t) * DayLength <= t /\ t < DayOf(t) * DayLength + DayLength
  <1>1. DayLength \in Nat /\ DayLength >= 2
    BY TimeNumbers
  <1>2. /\ t \div DayLength \in Nat /\ t % DayLength \in Nat
        /\ t = DayLength * (t \div DayLength) + (t % DayLength) /\ t % DayLength < DayLength
    BY <1>1
  <1>3. t = (t \div DayLength) * DayLength + (t % DayLength)
    BY <1>1, <1>2
  <1>. QED BY <1>1, <1>2, <1>3 DEF DayOf, Time!timePosition

\* A later time of the clock lies on no earlier day.
LEMMA DayMono ==
    ASSUME NEW a \in Nat, NEW b \in Nat, a <= b
    PROVE  DayOf(a) <= DayOf(b)
<1>1. DayLength \in Nat /\ DayLength >= 2 /\ DayOf(a) \in Nat /\ DayOf(b) \in Nat
  BY TimeNumbers, DayParts
<1>2. /\ DayOf(a) * DayLength <= a /\ b < DayOf(b) * DayLength + DayLength
  BY DayParts
<1>3. SUFFICES ASSUME DayOf(b) < DayOf(a) PROVE FALSE
  BY <1>1
<1>4. DayOf(b) * DayLength + DayLength <= DayOf(a) * DayLength
  BY <1>1, <1>3, Products
<1>5. DayOf(a) * DayLength \in Nat /\ DayOf(b) * DayLength \in Nat
  BY <1>1, Products
<1>. QED BY <1>1, <1>2, <1>4, <1>5

\* The last day begins at LastDay.
LEMMA DayLast ==
    ASSUME NEW t \in 0..(Time!Cycle - 1)
    PROVE  /\ t >= Time!LastDay => DayOf(t) = Days - 1
           /\ t < Time!LastDay => DayOf(t) < Days - 1
<1>1. /\ DayLength \in Nat /\ DayLength >= 2 /\ DayOf(t) \in Nat /\ t \in Nat
      /\ Days \in Nat /\ Days > 17 /\ Time!Cycle \in Nat
  BY TimeNumbers, DayParts, Constants
<1>2. /\ Time!Cycle = Days * DayLength /\ Time!LastDay = (Days - 1) * DayLength
  BY <1>1 DEF Time!Cycle, Time!LastDay, Time!timePosition
<1>3. /\ DayOf(t) * DayLength <= t /\ t < DayOf(t) * DayLength + DayLength
  BY <1>1, DayParts
<1>4. DayOf(t) * DayLength \in Nat /\ Days - 1 \in Nat /\ (Days - 1) * DayLength \in Nat
  <2>1. Days - 1 \in Nat
    BY <1>1
  <2>. QED BY <2>1, <1>1, Products
<1>5. CASE t >= Time!LastDay
  <2>1. ~(DayOf(t) < Days - 1)
    <3>1. DayOf(t) < Days - 1 => DayOf(t) * DayLength + DayLength <= (Days - 1) * DayLength
      BY <1>1, <1>4, Products
    <3>. QED BY <1>1, <1>2, <1>3, <1>4, <1>5, <3>1
  <2>2. ~(Days - 1 < DayOf(t))
    <3>1. Days - 1 < DayOf(t) => (Days - 1) * DayLength + DayLength <= DayOf(t) * DayLength
      BY <1>1, <1>4, Products
    <3>2. (Days - 1) * DayLength + DayLength = Days * DayLength
      BY <1>1
    <3>. QED BY <1>1, <1>2, <1>3, <1>4, <3>1, <3>2
  <2>3. Time!LastDay \in Nat
    BY <1>2, <1>4
  <2>4. DayOf(t) = Days - 1
    BY <1>1, <1>4, <2>1, <2>2
  <2>. QED BY <1>1, <1>5, <2>3, <2>4
<1>6. CASE t < Time!LastDay
  <2>1. ~(Days - 1 <= DayOf(t))
    <3>1. Days - 1 <= DayOf(t) => (Days - 1) * DayLength <= DayOf(t) * DayLength
      BY <1>1, <1>4, Products
    <3>. QED BY <1>1, <1>2, <1>3, <1>4, <1>6, <3>1
  <2>2. Time!LastDay \in Nat
    BY <1>2, <1>4
  <2>3. DayOf(t) < Days - 1
    BY <1>1, <1>4, <2>1
  <2>. QED BY <1>1, <1>6, <2>2, <2>3
<1>7. Time!LastDay \in Nat
  BY <1>2, <1>4
<1>. QED BY <1>1, <1>5, <1>6, <1>7

\* Tests, operation by operation.
LEMMA TestScript ==
    /\ Len(Time!Tests) = 41
    /\ \A p \in TDiag : Time!Tests[p] = Time!Diag
    /\ \A p \in TCount : Time!Tests[p] = Time!Op("count", "-")
    /\ \A p \in TPoll : Time!Tests[p] = Time!Op("poll", "-")
    /\ \A p \in TKeep : Time!Tests[p] = Time!Keep
    /\ \A p \in TSleep : Time!Tests[p] = Time!Op("sleep", "-")
    /\ \A p \in TSend \ {23} : Time!Tests[p] = Time!Frame(Sent(p + 1), TRUE)
    /\ Time!Tests[23] = Time!Frame(Time!Unwanted, FALSE)
    /\ \A p \in TApplied : Time!Tests[p] = Time!Op("applied", Target(p))
    /\ \A p \in TAdvance : Time!Tests[p] = Time!Op("advance", IF p = 34 THEN 1 ELSE 0)
    /\ \A p \in TWrite : Time!Tests[p] = Time!Op("write", IF p = 27 THEN "off" ELSE "on")
    /\ \A p \in TExpect : Time!Tests[p] = Time!Op("expect", IF p = 28 THEN "off" ELSE "on")
<1>. USE DEF Time!Tests, Time!injectAndVerifyTime, Time!verifyInvalidDlc, Time!writeAndVerifyTimeCobId
<1>1. Len(Time!Tests) = 41
  OBVIOUS
<1>2. \A p \in TDiag : Time!Tests[p] = Time!Diag
  BY DEF TDiag
<1>3. \A p \in TCount : Time!Tests[p] = Time!Op("count", "-")
  BY DEF TCount
<1>4. \A p \in TPoll : Time!Tests[p] = Time!Op("poll", "-")
  BY DEF TPoll
<1>5. \A p \in TKeep : Time!Tests[p] = Time!Keep
  BY DEF TKeep
<1>6. \A p \in TSleep : Time!Tests[p] = Time!Op("sleep", "-")
  BY DEF TSleep
<1>7. \A p \in TSend \ {23} : Time!Tests[p] = Time!Frame(Sent(p + 1), TRUE)
  <2>1. /\ Time!Tests[3] = Time!Frame(Time!LateInDay, TRUE) /\ Time!Tests[8] = Time!Frame(Time!LastDay, TRUE)
        /\ Time!Tests[13] = Time!Frame(Time!Continuous, TRUE)
        /\ Time!Tests[31] = Time!Frame(Time!Unwanted, TRUE) /\ Time!Tests[38] = Time!Frame(Time!Again, TRUE)
    BY DEF Time!Frame
  <2>. HIDE DEF Time!Tests, Time!injectAndVerifyTime, Time!verifyInvalidDlc, Time!writeAndVerifyTimeCobId
  <2>2. /\ Sent(3 + 1) = Time!LateInDay /\ Sent(8 + 1) = Time!LastDay /\ Sent(13 + 1) = Time!Continuous
        /\ Sent(31 + 1) = Time!Unwanted /\ Sent(38 + 1) = Time!Again
    BY DEF Sent, Target
  <2>3. ASSUME NEW p \in TSend \ {23} PROVE Time!Tests[p] = Time!Frame(Sent(p + 1), TRUE)
    <3>1. p = 3 \/ p = 8 \/ p = 13 \/ p = 31 \/ p = 38
      BY DEF TSend
    <3>. QED BY <2>1, <2>2, <3>1, Zenon
  <2>. QED BY <2>3
<1>12. Time!Tests[23] = Time!Frame(Time!Unwanted, FALSE)
  BY DEF Time!Frame
<1>8. \A p \in TApplied : Time!Tests[p] = Time!Op("applied", Target(p))
  BY DEF TApplied, Target
<1>9. \A p \in TAdvance : Time!Tests[p] = Time!Op("advance", IF p = 34 THEN 1 ELSE 0)
  BY DEF TAdvance
<1>10. \A p \in TWrite : Time!Tests[p] = Time!Op("write", IF p = 27 THEN "off" ELSE "on")
  BY DEF TWrite
<1>11. \A p \in TExpect : Time!Tests[p] = Time!Op("expect", IF p = 28 THEN "off" ELSE "on")
  BY DEF TExpect
<1>. HIDE DEF Time!Tests, Time!injectAndVerifyTime, Time!verifyInvalidDlc, Time!writeAndVerifyTimeCobId
<1>. QED BY <1>1, <1>2, <1>3, <1>4, <1>5, <1>6, <1>7, <1>8, <1>9, <1>10, <1>11, <1>12

\* Every place of the test is of one kind.
LEMMA TestPlace ==
    ASSUME NEW p \in 1..41
    PROVE  p \in TDiag \cup TCount \cup TPoll \cup TKeep \cup TSleep \cup TSend
                 \cup TApplied \cup TAdvance \cup TWrite \cup TExpect
<1>1. p \in {1,2,3,4,5,6,7,8,9,10,11,12,13,14,15,16,17,18,19,20,21,22,23,24,25,26,27,28,29,30,
             31,32,33,34,35,36,37,38,39,40,41}
  OBVIOUS
<1>. QED BY <1>1 DEF TDiag, TCount, TPoll, TKeep, TSleep, TSend, TApplied, TAdvance, TWrite, TExpect

\* The scripts of the other phases.
LEMMA OtherScripts ==
    ASSUME TimeTypes, pc \in Time!Scripted
    PROVE  /\ pc = "capture" => /\ Len(Time!Script) = 2 /\ pos \in {1, 2}
                                /\ Time!Current = IF pos = 1 THEN Time!Diag ELSE Time!Op("original", "-")
           /\ pc = "enable" => /\ Len(Time!Script) = 4 /\ pos \in {1, 2, 3, 4}
                               /\ Time!Current = CASE pos = 1 -> Time!Op("write", "on")
                                                   [] pos = 3 -> Time!Op("reset", "-")
                                                   [] pos \in {2, 4} -> Time!Op("expect", "on")
           /\ pc = "test" => Time!Script = Time!Tests /\ Time!Current = Time!Tests[pos] /\ Len(Time!Script) = 41
           /\ pc = "restore" =>
                 /\ Len(Time!Script) = IF flags.consumer_enable_reset_performed THEN 4 ELSE 2
                 /\ pos \in {1, 2, 3, 4} /\ pos <= Len(Time!Script)
                 /\ Time!Current = CASE pos = 1 -> Time!Op("write", original)
                                     [] pos = 3 -> Time!Op("reset", "-")
                                     [] pos \in {2, 4} -> Time!Op("expect", original)
           /\ pc = "recover" => /\ Len(Time!Script) = 5 /\ pos \in {1, 2, 3, 4, 5}
                                /\ Time!Current = CASE pos \in {1, 4} -> Time!Op("reset", "-")
                                                    [] pos = 2 -> Time!Op("write", original)
                                                    [] pos \in {3, 5} -> Time!Op("expect", original)
<1>1. CASE pc = "capture"
  <2>1. pos \in {1, 2}
    BY <1>1 DEF TimeTypes
  <2>. QED BY <1>1, <2>1 DEF Time!Script, Time!Current
<1>2. CASE pc = "enable"
  <2>1. pos \in {1, 2, 3, 4}
    BY <1>2 DEF TimeTypes
  <2>. QED BY <1>2, <2>1 DEF Time!Script, Time!Current, Time!writeAndVerifyTimeCobId
<1>3. CASE pc = "test"
  BY <1>3, TestScript DEF Time!Script, Time!Current
<1>4. CASE pc = "restore"
  <2>1. pos \in 1..41 /\ pos <= IF flags.consumer_enable_reset_performed THEN 4 ELSE 2
    BY <1>4 DEF TimeTypes
  <2>2. CASE flags.consumer_enable_reset_performed
    <3>1. pos \in {1, 2, 3, 4}
      BY <2>1, <2>2
    <3>2. Time!Script = Time!writeAndVerifyTimeCobId(original) \o <<Time!Op("reset", "-"), Time!Op("expect", original)>>
      <4>1. Time!Restore = Time!writeAndVerifyTimeCobId(original) \o <<Time!Op("reset", "-"), Time!Op("expect", original)>>
        BY <2>2 DEF Time!Restore
      <4>. QED BY <1>4, <4>1 DEF Time!Script
    <3>3. /\ Len(Time!Script) = 4 /\ Time!Script[1] = Time!Op("write", original)
          /\ Time!Script[2] = Time!Op("expect", original) /\ Time!Script[3] = Time!Op("reset", "-")
          /\ Time!Script[4] = Time!Op("expect", original)
      BY <3>2 DEF Time!writeAndVerifyTimeCobId
    <3>. QED BY <1>4, <2>2, <3>1, <3>3 DEF Time!Current
  <2>3. CASE ~flags.consumer_enable_reset_performed
    <3>1. pos \in {1, 2}
      BY <2>1, <2>3
    <3>2. Time!Script = <<Time!Op("write", original), Time!Op("expect", original)>>
      BY <1>4, <2>3 DEF Time!Script, Time!Restore, Time!writeAndVerifyTimeCobId
    <3>. QED BY <1>4, <2>3, <3>1, <3>2 DEF Time!Current
  <2>. QED BY <2>2, <2>3
<1>5. CASE pc = "recover"
  <2>1. pos \in {1, 2, 3, 4, 5}
    BY <1>5 DEF TimeTypes
  <2>. QED BY <1>5, <2>1 DEF Time!Script, Time!Current, Time!recoverTimeCobIdWithReset, Time!writeAndVerifyTimeCobId
<1>. QED BY <1>1, <1>2, <1>3, <1>4, <1>5 DEF Time!Scripted

\* Where an operation of a kind can be due.
LEMMA WhereAt ==
    ASSUME TimeTypes
    PROVE  /\ Time!At("diag") => (pc = "capture" /\ pos = 1) \/ (pc = "test" /\ pos \in TDiag)
           /\ Time!At("original") => pc = "capture" /\ pos = 2
           /\ Time!At("count") => pc = "test" /\ pos \in TCount
           /\ Time!At("send") => pc = "test" /\ pos \in TSend
           /\ Time!At("poll") => pc = "test" /\ pos \in TPoll
           /\ Time!At("applied") => pc = "test" /\ pos \in TApplied
           /\ Time!At("keep") => pc = "test" /\ pos \in TKeep
           /\ Time!At("sleep") => pc = "test" /\ pos \in TSleep
           /\ Time!At("advance") => pc = "test" /\ pos \in TAdvance
           /\ Time!At("write") => \/ pc \in {"enable", "restore"} /\ pos = 1
                                  \/ pc = "recover" /\ pos = 2
                                  \/ pc = "test" /\ pos \in TWrite
           /\ Time!At("expect") => \/ pc \in {"enable", "restore"} /\ pos \in {2, 4}
                                   \/ pc = "recover" /\ pos \in {3, 5}
                                   \/ pc = "test" /\ pos \in TExpect
           /\ Time!At("reset") => \/ pc \in {"enable", "restore"} /\ pos = 3
                                  \/ pc = "recover" /\ pos \in {1, 4}
<1>. USE DEF Time!At, Time!Op, Time!Diag, Time!Keep, Time!Frame
<1>1. CASE pc \in Time!Scripted /\ pc # "test"
  BY <1>1, OtherScripts DEF Time!Scripted
<1>2. CASE pc = "test"
  <2>1. pos \in 1..41 /\ Time!Current = Time!Tests[pos] /\ pc \in Time!Scripted
    BY <1>2, OtherScripts DEF TimeTypes, Time!Scripted
  <2>2. pos \in TDiag \cup TCount \cup TPoll \cup TKeep \cup TSleep \cup TSend
                 \cup TApplied \cup TAdvance \cup TWrite \cup TExpect
    BY <2>1, TestPlace
  <2>3. /\ pos \in TDiag => Time!Current.kind = "diag"
        /\ pos \in TCount => Time!Current.kind = "count"
        /\ pos \in TPoll => Time!Current.kind = "poll"
        /\ pos \in TKeep => Time!Current.kind = "keep"
        /\ pos \in TSleep => Time!Current.kind = "sleep"
    BY <2>1, TestScript
  <2>4. /\ \A v : Time!Op("applied", v).kind = "applied" /\ Time!Op("advance", v).kind = "advance"
        /\ \A v : Time!Op("write", v).kind = "write" /\ Time!Op("expect", v).kind = "expect"
        /\ \A v : Time!Frame(v, TRUE).kind = "send" /\ Time!Frame(v, FALSE).kind = "send"
    OBVIOUS
  <2>. HIDE DEF Time!Op, Time!Frame
  <2>5. /\ pos \in TSend => Time!Current.kind = "send"
        /\ pos \in TApplied => Time!Current.kind = "applied"
    <3>1. pos \in TSend /\ pos # 23 => Time!Current.kind = "send"
      <4>1. pos \in TSend /\ pos # 23 => Time!Current = Time!Frame(Sent(pos + 1), TRUE)
        BY <2>1, TestScript
      <4>. QED BY <2>4, <4>1
    <3>2. pos = 23 => Time!Current.kind = "send"
      <4>1. pos = 23 => Time!Current = Time!Frame(Time!Unwanted, FALSE)
        BY <2>1, TestScript
      <4>. QED BY <2>4, <4>1
    <3>3. pos \in TApplied => Time!Current.kind = "applied"
      BY <2>1, <2>4, TestScript
    <3>. QED BY <3>1, <3>2, <3>3
  <2>6. pos \in TAdvance => Time!Current.kind = "advance"
    BY <2>1, <2>4, TestScript
  <2>7. /\ pos \in TWrite => Time!Current.kind = "write"
        /\ pos \in TExpect => Time!Current.kind = "expect"
    BY <2>1, <2>4, TestScript
  <2>. QED BY <1>2, <2>1, <2>2, <2>3, <2>5, <2>6, <2>7
<1>3. CASE pc \notin Time!Scripted
  BY <1>3
<1>. QED BY <1>1, <1>2, <1>3

-----------------------------------------------------------------------------
(* TimeProcess: the clock between two injected times.                      *)

\* More slack or more elapsed time does not hurt, and an injected time is
\* where the clock is when it is taken.
LEMMA WithinMore ==
    ASSUME NEW b \in Nat, NEW s \in Nat, NEW t \in Nat, NEW h \in Nat, NEW r \in Nat, NEW g \in Nat,
           s + h <= r + g
    PROVE  /\ Within(b, s, t, h) => Within(b, r, t, g)
           /\ Within(b, r, b, g)
  BY TimeNumbers DEF Within

\* The clock and the host go on together.
LEMMA WithinTick ==
    ASSUME NEW b \in 0..(Time!Cycle - 1), NEW s \in Nat, NEW t \in 0..(Time!Cycle - 1), NEW h \in Nat,
           Within(b, s, t, h), s + h + 1 < Time!Cycle,
           NEW u, u = t \/ u = (t + 1) % Time!Cycle
    PROVE  Within(b, s, u, h + 1)
<1>1. Time!Cycle \in Nat /\ Time!Cycle >= 36
  BY TimeNumbers
<1>2. u = t \/ (t + 1 < Time!Cycle /\ u = t + 1) \/ (t + 1 = Time!Cycle /\ u = 0)
  <2>1. CASE t + 1 < Time!Cycle
    <3>1. (t + 1) % Time!Cycle = t + 1
      BY <1>1, <2>1
    <3>. QED BY <2>1, <3>1
  <2>2. CASE t + 1 = Time!Cycle
    <3>1. (t + 1) % Time!Cycle = 0
      BY <1>1, <2>2
    <3>. QED BY <2>2, <3>1
  <2>. QED BY <1>1, <2>1, <2>2
<1>. QED BY <1>1, <1>2 DEF Within

\* The places and values of the slots are numbers.
LEMMA SlotNumbers ==
    ASSUME NEW p \in 1..41
    PROVE  /\ Base(p) \in 0..(Time!Cycle - 1) /\ Target(p) \in 0..(Time!Cycle - 1)
           /\ Sent(p) \in 0..(Time!Cycle - 1) /\ Time!Unwanted \in 0..(Time!Cycle - 1)
           /\ Slack(p) \in Nat /\ Slack(p) <= 4 * MaxTicks
<1>1. /\ Base(p) \in 0..(Time!Cycle - 1) /\ Target(p) \in 0..(Time!Cycle - 1)
      /\ Time!Unwanted \in 0..(Time!Cycle - 1)
  BY TimeNumbers DEF Base, Target
<1>2. Sent(p) \in 0..(Time!Cycle - 1)
  BY <1>1 DEF Sent
<1>3. Slack(p) \in Nat /\ Slack(p) <= 4 * MaxTicks
  BY TimeNumbers DEF Slack
<1>. QED BY <1>1, <1>2, <1>3

\* The order of days around the midnight crossing is transitive.
LEMMA OrderTrans ==
    ASSUME NEW p, NEW a \in Nat, NEW b \in Nat, NEW c \in Nat,
           DayOrder(p, a, b), DayOrder(p, b, c)
    PROVE  DayOrder(p, a, c)
  BY Constants DEF DayOrder

\* A day follows itself in that order.
LEMMA OrderSelf ==
    ASSUME NEW p, NEW t \in 0..(Time!Cycle - 1)
    PROVE  DayOrder(p, DayOf(t), DayOf(t))
<1>1. DayOf(t) \in Nat /\ Time!Cycle \in Nat /\ Time!LastDay \in Nat
  BY DayParts, TimeNumbers
<1>2. DayOf(t) = Days - 1 \/ DayOf(t) < Days - 1
  BY <1>1, DayLast
<1>. QED BY <1>1, <1>2 DEF DayOrder

\* A later time of the same part of the test is on the same or a later day.
LEMMA OrderLater ==
    ASSUME NEW p, NEW t \in 0..(Time!Cycle - 1), NEW u \in 0..(Time!Cycle - 1),
           IF p = 15 THEN t >= Time!LastDay \/ (t <= u /\ u < Time!LastDay) ELSE t <= u
    PROVE  DayOrder(p, DayOf(t), DayOf(u))
<1>1. t \in Nat /\ u \in Nat /\ DayOf(t) \in Nat /\ DayOf(u) \in Nat /\ Time!LastDay \in Nat
  BY DayParts, TimeNumbers
<1>2. t <= u => DayOf(t) <= DayOf(u)
  BY <1>1, DayMono
<1>3. /\ t >= Time!LastDay => DayOf(t) = Days - 1
      /\ u < Time!LastDay => DayOf(u) < Days - 1
  BY DayLast
<1>. QED BY <1>2, <1>3 DEF DayOrder

\* Where the clock can be while a snapshot is taken.
LEMMA ClockBounds ==
    ASSUME TimeTypes, TimeClock, pos \in TDiag
    PROVE  /\ pos # 15 => time + MaxTicks < Time!Cycle + host
           /\ pos = 15 => time >= Time!LastDay \/ time + MaxTicks < Time!LastDay + host
           /\ pos = 5 => (OldSlot(pos, time, host) => time < Time!LateInDay)
           /\ pos = 10 => (OldSlot(pos, time, host) => time < Time!LastDay)
           /\ pos = 15 => (OldSlot(pos, time, host) => time >= Time!LastDay \/ time < Time!Continuous)
           /\ pos = 40 => (OldSlot(pos, time, host) => time < Time!Unwanted)
           /\ pos = 40 => (Misled => time < Time!Again)
<1>1. time \in Nat /\ time < Time!Cycle /\ host \in Nat /\ host <= MaxTicks
  BY TimeNumbers DEF TimeTypes
<1>. USE DEF TimeClock, Misled, Taken, OldSlot, BadSlot, NewSlot, Within, UnwantedSent, TargetSent
<1>2. CASE pos = 1
  BY <1>1, <1>2, TimeNumbers DEF Base, Slack, Target
<1>3. CASE pos = 5
  BY <1>1, <1>3, TimeNumbers DEF Base, Slack, Target
<1>4. CASE pos = 10
  BY <1>1, <1>4, TimeNumbers DEF Base, Slack, Target
<1>5. CASE pos = 15
  BY <1>1, <1>5, TimeNumbers DEF Base, Slack, Target
<1>6. CASE pos \in {19, 21, 25, 29, 33}
  BY <1>1, <1>6, TimeNumbers DEF Base, Slack, Target
<1>7. CASE pos = 40
  BY <1>1, <1>7, TimeNumbers DEF Base, Slack, Target
<1>. QED BY <1>2, <1>3, <1>4, <1>5, <1>6, <1>7 DEF TDiag

-----------------------------------------------------------------------------
(* TimeProcess: the slave's own steps.                                     *)

\* Everything but the test itself.
TimeOuter == TimeTypes /\ TimeSafe /\ TimeBuffer /\ TimeProof

\* Time passes.
LEMMA Time_Tick ==
    ASSUME TimeInv, Time!Tick
    PROVE  TimeInv'
<1>1. /\ TimeTypes /\ TimeSafe /\ TimeBuffer /\ TimeProof /\ TimeTest /\ pc = "test"
  BY DEF TimeInv, Time!Tick
<1>2. /\ host < MaxTicks /\ host' = host + 1
      /\ time' = time \/ (time' = (time + 1) % Time!Cycle /\ defect # "stopped")
      /\ UNCHANGED <<remote, late, pc, pos, result, flags, sub, attempt, polls, diag, before, previous_count,
                     original, rx, buffer, pending, wire, nmt, defect, applied, lost>>
  BY DEF Time!Tick, Time!thread, Time!sdo, Time!control, Time!reading, Time!history
<1>3. /\ time \in 0..(Time!Cycle - 1) /\ host \in Nat /\ host + 1 <= MaxTicks /\ pos \in 1..41 /\ diag \in TimeReading
  BY <1>1, <1>2, TimeNumbers DEF TimeTypes
<1>4. /\ time' \in 0..(Time!Cycle - 1) /\ host' \in 0..MaxTicks
      /\ time' = time \/ (time + 1 < Time!Cycle /\ time' = time + 1) \/ (time + 1 = Time!Cycle /\ time' = 0)
  <2>1. CASE time + 1 < Time!Cycle
    <3>1. (time + 1) % Time!Cycle = time + 1
      BY <1>3, <2>1, TimeNumbers
    <3>. QED BY <1>2, <1>3, <2>1, <3>1, TimeNumbers
  <2>2. CASE time + 1 = Time!Cycle
    <3>1. (time + 1) % Time!Cycle = 0
      BY <1>3, <2>2, TimeNumbers
    <3>. QED BY <1>2, <1>3, <2>2, <3>1, TimeNumbers
  <2>. QED BY <1>3, <2>1, <2>2, TimeNumbers
<1>5. ASSUME NEW b \in 0..(Time!Cycle - 1), NEW s \in Nat, s <= 4 * MaxTicks, Within(b, s, time, host)
      PROVE  Within(b, s, time', host')
  <2>1. s + host + 1 < Time!Cycle
    BY <1>3, <1>5, TimeNumbers
  <2>. QED BY <1>2, <1>3, <1>5, <2>1, WithinTick
<1>6. /\ Base(pos) \in 0..(Time!Cycle - 1) /\ Target(pos) \in 0..(Time!Cycle - 1) /\ Time!Unwanted \in 0..(Time!Cycle - 1)
      /\ Slack(pos) \in Nat /\ Slack(pos) <= 4 * MaxTicks
      /\ 0 <= 4 * MaxTicks /\ MaxTicks \in Nat /\ MaxTicks <= 4 * MaxTicks
  BY <1>3, SlotNumbers, TimeNumbers
<1>7. /\ OldSlot(pos, time, host) => OldSlot(pos, time', host')
      /\ BadSlot(pos, time, host) => BadSlot(pos, time', host')
      /\ NewSlot(pos, time, host) => NewSlot(pos, time', host')
  <2>1. OldSlot(pos, time, host) => OldSlot(pos, time', host')
    BY <1>5, <1>6 DEF OldSlot
  <2>2. BadSlot(pos, time, host) => BadSlot(pos, time', host')
    <3>1. CASE pos >= 38
      BY <1>5, <1>6, <3>1 DEF BadSlot
    <3>2. CASE ~(pos >= 38)
      BY <1>5, <1>6, <3>2 DEF BadSlot
    <3>. QED BY <3>1, <3>2
  <2>3. NewSlot(pos, time, host) => NewSlot(pos, time', host')
    BY <1>5, <1>6 DEF NewSlot
  <2>. QED BY <2>1, <2>2, <2>3
<1>8. (Taken => Taken') /\ (Misled => Misled')
  BY <1>2, <1>7 DEF Taken, Misled
<1>9. TimeTypes'
  BY <1>1, <1>2, <1>4 DEF TimeTypes
<1>10. TimeSafe' /\ TimeBuffer' /\ TimeProof'
  BY <1>1, <1>2 DEF TimeSafe, TimeBuffer, TimeProof, TimeEvidence
<1>11. TimeClock' /\ TimeFrames' /\ TimeShown'
  <2>1. TimeClock'
    BY <1>1, <1>2, <1>7, <1>8 DEF TimeTest, TimeClock
  <2>2. TimeFrames' /\ TimeShown'
    BY <1>1, <1>2 DEF TimeTest, TimeFrames, TimeShown
  <2>. QED BY <2>1, <2>2
<1>12. TimeCounts'
  BY <1>1, <1>2, <1>7 DEF TimeTest, TimeCounts
<1>13. TimeOrder'
  <2>1. CASE pos \in TDiag
    <3>1. DayOrder(pos, DayOf(time), DayOf(time'))
      <4>1. IF pos = 15 THEN time >= Time!LastDay \/ (time <= time' /\ time' < Time!LastDay) ELSE time <= time'
        BY <1>1, <1>2, <1>3, <1>4, <2>1, ClockBounds, TimeNumbers DEF TimeTest
      <4>. QED BY <1>3, <1>4, <4>1, OrderLater
    <3>2. DayOf(time) \in Nat /\ DayOf(time') \in Nat /\ DayOf(diag.clock) \in Nat /\ diag.days \in Nat
      BY <1>3, <1>4, DayParts, TimeNumbers DEF TimeReading
    <3>. QED BY <1>1, <1>2, <3>1, <3>2, OrderTrans DEF TimeTest, TimeOrder
  <2>2. CASE pos \notin TDiag
    BY <1>1, <1>2, <2>2 DEF TimeTest, TimeOrder
  <2>. QED BY <2>1, <2>2
<1>14. TimeViews'
  <2>1. diag.at \in Nat
    BY <1>3 DEF TimeReading
  <2>2. Read' = Read /\ TimeViews
    BY <1>1, <1>2 DEF Read, TimeTest
  <2>3. Read' => /\ diag'.at <= host'
                 /\ \/ OldSlot(pos', diag'.clock, diag'.at)
                    \/ BadSlot(pos', diag'.clock, diag'.at)
                    \/ /\ NewSlot(pos', diag'.clock, diag'.at) /\ Taken'
                       /\ defect' = "stopped" => diag'.clock = Target(pos')
    BY <1>2, <1>3, <1>8, <2>1, <2>2 DEF TimeViews
  <2>4. pos' = 19 => host' >= Wait
    BY <1>2, <1>3, <2>2, TimeNumbers DEF TimeViews
  <2>. QED BY <1>2, <2>2, <2>3, <2>4 DEF TimeViews
<1>. QED BY <1>1, <1>2, <1>9, <1>10, <1>11, <1>12, <1>13, <1>14 DEF TimeInv, TimeTest

\* A frame arrives: at one of the places where one is under way.
LEMMA Time_Receive ==
    ASSUME TimeInv, Time!Receive
    PROVE  TimeInv'
<1>1. /\ TimeTypes /\ TimeSafe /\ TimeBuffer /\ TimeProof /\ (pc = "test" => TimeTest)
  BY DEF TimeInv
<1>2. /\ wire # <<>> /\ wire' = <<>>
      /\ \/ /\ buffer /\ (wire[1].valid \/ defect = "anylength")
            /\ rx' = (rx + 1) % 4 /\ pending' = wire[1].time
         \/ ~(buffer /\ (wire[1].valid \/ defect = "anylength")) /\ rx' = rx /\ pending' = pending
      /\ UNCHANGED <<remote, late, pc, pos, result, flags, sub, attempt, polls, diag, before, previous_count,
                     original, time, buffer, nmt, defect, host, applied, lost>>
  BY DEF Time!Receive, Time!thread, Time!sdo, Time!control, Time!reading, Time!history, Time!RxRange
<1>3. rx \in 0..3 /\ pos \in 1..41 /\ pc \notin {"capture", "enable"}
  BY <1>1, <1>2 DEF TimeTypes, TimeProof
<1>4. (rx + 1) % 4 \in 0..3 /\ (rx + 1) % 4 # rx
  BY <1>3
<1>5. TimeTypes'
  <2>1. wire[1].time \in 0..Time!Cycle
    BY <1>1, <1>2, TimeNumbers DEF TimeTypes, TimeFrame
  <2>2. rx' \in 0..3 /\ pending' \in 0..Time!Cycle
    BY <1>1, <1>2, <1>3, <1>4, <2>1 DEF TimeTypes
  <2>. QED BY <1>1, <1>2, <2>2 DEF TimeTypes
<1>6. TimeSafe' /\ TimeBuffer' /\ TimeProof'
  BY <1>1, <1>2, <1>3 DEF TimeSafe, TimeBuffer, TimeProof, TimeEvidence
<1>7. ASSUME pc = "test" PROVE TimeTest'
  <2>1. TimeTest /\ buffer
    BY <1>1, <1>7 DEF TimeBuffer
  <2>2. /\ pos \in FrameSent /\ wire[1].time = Sent(pos) /\ (wire[1].valid <=> pos # 24)
        /\ pending = Time!None \/ (pos = 39 /\ pending = Time!Unwanted)
    BY <1>2, <2>1 DEF TimeTest, TimeFrames
  <2>3. \/ rx' = (rx + 1) % 4 /\ pending' = Sent(pos) /\ (pos # 24 \/ defect = "anylength")
        \/ pos = 24 /\ defect # "anylength" /\ rx' = rx /\ pending' = pending
    BY <1>2, <2>1, <2>2
  <2>4. ~Taken /\ (Misled => pos = 39)
    BY <1>2, <2>2 DEF Taken, Misled, BadSlot, UnwantedSent, FrameSent
  <2>5. TimeClock'
    <3>1. CASE OldSlot(pos, time, host)
      BY <1>2, <3>1 DEF TimeClock
    <3>2. CASE Misled
      <4>1. pos = 39 /\ pending' = Time!Again
        BY <2>3, <2>4, <3>2 DEF Sent, Target
      <4>. QED BY <1>2, <3>2, <4>1, TimeNumbers DEF TimeClock, Misled
    <3>. QED BY <2>1, <2>4, <3>1, <3>2 DEF TimeTest, TimeClock
  <2>6. TimeFrames'
    <3>1. Sent(pos) # Time!None => (pos \in TargetSent /\ Sent(pos) = Target(pos)) \/ (pos \in {24} \cup 32..41 /\ Sent(pos) = Time!Unwanted)
      BY <2>2 DEF Sent, TargetSent, FrameSent
    <3>2. pos \notin 33..34
      BY <2>2 DEF FrameSent
    <3>. QED BY <1>2, <2>1, <2>3, <3>1, <3>2 DEF TimeTest, TimeFrames
  <2>7. TimeCounts'
    <3>1. pos \notin {21, 25, 29, 33, 22, 26, 30, 34, 23, 31} /\ (pos \in 24..26 => pos = 24) /\ (pos \in 32..34 => pos = 32)
      BY <2>2 DEF FrameSent
    <3>2. pos \in {24, 32} => rx = before.count
      BY <1>2, <2>1 DEF TimeTest, TimeCounts
    <3>3. pos = 24 /\ rx' = before.count =>
             pending' = Time!None /\ OldSlot(pos, time, host) /\ defect # "anylength"
      BY <1>4, <2>1, <2>2, <2>3, <3>2 DEF TimeTest, TimeCounts
    <3>4. pos = 32 => pending' = Time!Unwanted
      BY <2>3 DEF Sent
    <3>. QED BY <1>2, <3>1, <3>3, <3>4 DEF TimeCounts
  <2>8. TimeOrder' /\ TimeShown'
    BY <1>2, <2>1 DEF TimeTest, TimeOrder, TimeShown
  <2>9. TimeViews'
    <3>1. ~Read' /\ pos \notin 17..20 /\ pos \notin {33, 34}
      BY <1>2, <2>2 DEF Read, FrameSent, TDiag, AfterDiag
    <3>. QED BY <1>2, <2>1, <3>1 DEF TimeTest, TimeViews
  <2>. QED BY <2>5, <2>6, <2>7, <2>8, <2>9 DEF TimeTest
<1>. QED BY <1>2, <1>5, <1>6, <1>7 DEF TimeInv

\* A frame is lost.
LEMMA Time_LoseFrame ==
    ASSUME TimeInv, Time!LoseFrame
    PROVE  TimeInv'
<1>1. /\ TimeTypes /\ TimeSafe /\ TimeBuffer /\ TimeProof /\ (pc = "test" => TimeTest)
  BY DEF TimeInv
<1>2. /\ wire # <<>> /\ wire' = <<>> /\ lost' = TRUE
      /\ UNCHANGED <<remote, late, pc, pos, result, flags, sub, attempt, polls, diag, before, previous_count,
                     original, time, rx, pending, buffer, nmt, defect, host, applied>>
  BY DEF Time!LoseFrame, Time!thread, Time!sdo, Time!control, Time!reading
<1>3. TimeTypes'
  BY <1>1, <1>2 DEF TimeTypes
<1>4. TimeSafe' /\ TimeBuffer' /\ TimeProof'
  BY <1>1, <1>2 DEF TimeSafe, TimeBuffer, TimeProof, TimeEvidence
<1>5. ASSUME pc = "test" PROVE TimeTest'
  <2>1. TimeTest
    BY <1>1, <1>5
  <2>2. pos \in FrameSent /\ ~Taken
    BY <1>2, <2>1 DEF TimeTest, TimeFrames, Taken
  <2>3. TimeClock'
    BY <1>2, <2>1, <2>2 DEF TimeTest, TimeClock, Misled
  <2>4. TimeFrames'
    BY <1>2, <2>1 DEF TimeTest, TimeFrames
  <2>5. TimeCounts'
    BY <1>2, <2>1 DEF TimeTest, TimeCounts
  <2>6. TimeOrder' /\ TimeShown'
    BY <1>2, <2>1 DEF TimeTest, TimeOrder, TimeShown
  <2>7. TimeViews'
    <3>1. ~Read' /\ pos \notin 17..20 /\ pos \notin {33, 34}
      BY <1>2, <2>2 DEF Read, FrameSent, TDiag, AfterDiag
    <3>. QED BY <1>2, <2>1, <3>1 DEF TimeTest, TimeViews
  <2>. QED BY <2>3, <2>4, <2>5, <2>6, <2>7 DEF TimeTest
<1>. QED BY <1>2, <1>3, <1>4, <1>5 DEF TimeInv

\* The main loop takes a time: the one that was due, or the unwanted one.
LEMMA Time_ApplyTime ==
    ASSUME TimeInv, Time!ApplyTime
    PROVE  TimeInv'
<1>1. /\ TimeTypes /\ TimeSafe /\ TimeBuffer /\ TimeProof /\ (pc = "test" => TimeTest)
  BY DEF TimeInv
<1>2. /\ pending # Time!None /\ pending' = Time!None /\ (remote[Time!Cob] = "on" \/ defect = "ungated")
      /\ \/ defect = "noapply" /\ time' = time /\ applied' = applied
         \/ defect # "noapply" /\ time' = pending /\ applied' = applied \cup {pending}
      /\ UNCHANGED <<remote, late, pc, pos, result, flags, sub, attempt, polls, diag, before, previous_count,
                     original, rx, wire, buffer, nmt, defect, host, lost>>
  BY DEF Time!ApplyTime, Time!Consumes, Time!thread, Time!sdo, Time!control, Time!reading
<1>3. pending \in 0..(Time!Cycle - 1) /\ pc \notin {"capture", "enable"}
  BY <1>1, <1>2, TimeNumbers DEF TimeTypes, TimeProof
<1>4. TimeTypes'
  <2>1. time' \in 0..(Time!Cycle - 1) /\ pending' \in 0..Time!Cycle
    BY <1>1, <1>2, <1>3, TimeNumbers DEF TimeTypes
  <2>. QED BY <1>1, <1>2, <2>1 DEF TimeTypes
<1>5. TimeSafe' /\ TimeBuffer'
  BY <1>1, <1>2 DEF TimeSafe, TimeBuffer
<1>6. TimeProof'
  BY <1>1, <1>2, <1>3 DEF TimeProof, TimeEvidence
<1>7. ASSUME pc = "test" PROVE TimeTest'
  <2>1. TimeTest /\ ~Taken
    BY <1>1, <1>2, <1>7 DEF Taken
  <2>2. \/ pos \in TargetSent /\ pending = Target(pos)
        \/ pos \in {24} \cup 32..41 /\ pending = Time!Unwanted
    BY <1>2, <2>1 DEF TimeTest, TimeFrames
  <2>3. /\ pos \in 32..34 => defect = "ungated" /\ pos = 32
        /\ wire # <<>> => pos = 39 /\ pending = Time!Unwanted
    <3>1. pos \in 32..34 => defect = "ungated"
      BY <1>1, <1>2, <1>7 DEF TimeBuffer
    <3>2. pos \in 33..34 => FALSE
      BY <1>2, <2>1, <3>1 DEF TimeTest, TimeFrames
    <3>3. pos \in 1..41
      BY <1>1 DEF TimeTypes
    <3>4. pos \in 32..34 => pos = 32
      BY <3>2, <3>3
    <3>. QED BY <1>2, <2>1, <3>1, <3>4 DEF TimeTest, TimeFrames
  <2>4. host \in Nat /\ time \in 0..(Time!Cycle - 1) /\ pos \in 1..41
    BY <1>1, TimeNumbers DEF TimeTypes
  <2>5. ASSUME defect # "noapply", pending = Time!Unwanted, pos \in {24} \cup 32..41
        PROVE  BadSlot(pos, time', host') /\ Misled'
    <3>1. Within(Time!Unwanted, 0, Time!Unwanted, host) /\ Within(Time!Unwanted, MaxTicks, Time!Unwanted, host)
      BY <2>4, WithinMore, TimeNumbers
    <3>2. BadSlot(pos, time', host')
      BY <1>2, <2>5, <3>1 DEF BadSlot, UnwantedSent
    <3>3. Time!None # Time!Unwanted
      BY TimeNumbers
    <3>. QED BY <1>2, <2>3, <2>4, <3>2, <3>3 DEF Misled
  <2>6. ASSUME defect # "noapply", pending = Target(pos), pos \in TargetSent
        PROVE  Taken'
    <3>1. Within(Target(pos), 0, Target(pos), host)
      <4>1. Target(pos) \in Nat /\ 0 \in Nat /\ 0 + host <= 0 + host
        BY <2>4, SlotNumbers, TimeNumbers
      <4>. QED BY <2>4, <4>1, WithinMore
    <3>2. Target(pos) # Time!Unwanted \/ pos # 39
      BY TimeNumbers DEF Target
    <3>3. wire = <<>>
      BY <2>3, <2>6, <3>2
    <3>. QED BY <1>2, <2>6, <3>1, <3>3 DEF Taken, NewSlot
  <2>7. TimeClock'
    <3>1. CASE defect = "noapply"
      <4>1. Time!None # Time!Unwanted
        BY TimeNumbers
      <4>. QED BY <1>2, <2>1, <3>1, <4>1 DEF TimeTest, TimeClock, Misled
    <3>2. CASE defect # "noapply"
      BY <2>2, <2>5, <2>6, <3>2 DEF TimeClock
    <3>. QED BY <3>1, <3>2
  <2>8. TimeFrames'
    BY <1>2, <2>1 DEF TimeTest, TimeFrames
  <2>9. TimeCounts'
    <3>1. ~(pos \in 24..26 /\ rx = before.count)
      BY <1>2, <2>1 DEF TimeTest, TimeCounts
    <3>2. pos \in 32..34 => pending = Time!Unwanted /\ defect # "noapply"
      BY <2>2, <2>3 DEF TargetSent
    <3>3. pos \in 32..34 => BadSlot(pos, time', host')
      <4>1. pos \in 32..34 => pos \in {24} \cup 32..41
        BY <2>3
      <4>. QED BY <2>5, <3>2, <4>1
    <3>. QED BY <1>2, <2>1, <3>1, <3>3 DEF TimeTest, TimeCounts
  <2>10. TimeOrder'
    <3>1. CASE pos \in TDiag
      <4>1. pos \in {5, 10, 15, 40}
        BY <2>2, <2>3, <3>1 DEF TDiag, TargetSent
      <4>2. OldSlot(pos, time, host) \/ (pos = 40 /\ Misled /\ pending = Time!Again)
        BY <2>1, <2>2, <4>1 DEF TimeTest, TimeClock, Misled, BadSlot, UnwantedSent, Target
      <4>3. IF pos = 15 THEN time >= Time!LastDay \/ (time <= pending /\ pending < Time!LastDay) ELSE time <= pending
        <5>1. CASE pos = 5
          BY <1>1, <2>1, <2>2, <2>4, <4>2, <5>1, ClockBounds, TimeNumbers DEF TimeTest, TDiag, Target
        <5>2. CASE pos = 10
          BY <1>1, <2>1, <2>2, <2>4, <4>2, <5>2, ClockBounds, TimeNumbers DEF TimeTest, TDiag, Target
        <5>3. CASE pos = 15
          BY <1>1, <2>1, <2>2, <2>4, <4>2, <5>3, ClockBounds, TimeNumbers DEF TimeTest, TDiag, Target
        <5>4. CASE pos = 40
          BY <1>1, <2>1, <2>2, <2>4, <4>2, <5>4, ClockBounds, TimeNumbers DEF TimeTest, TDiag, Target
        <5>. QED BY <4>1, <5>1, <5>2, <5>3, <5>4
      <4>4. DayOrder(pos, DayOf(time), DayOf(time'))
        BY <1>2, <1>3, <2>4, <4>3, OrderLater, OrderSelf
      <4>5. DayOf(time) \in Nat /\ DayOf(time') \in Nat /\ DayOf(diag.clock) \in Nat /\ diag.days \in Nat
        <5>1. time \in Nat /\ time' \in Nat /\ diag.clock \in Nat /\ diag.days \in Nat
          BY <1>1, <1>4, TimeNumbers DEF TimeTypes, TimeReading
        <5>. QED BY <5>1, DayParts
      <4>. QED BY <1>2, <2>1, <4>4, <4>5, OrderTrans DEF TimeTest, TimeOrder
    <3>2. CASE pos \notin TDiag
      BY <1>2, <2>1, <3>2 DEF TimeTest, TimeOrder
    <3>. QED BY <3>1, <3>2
  <2>11. TimeViews'
    <3>1. pos \notin 17..20
      BY <2>2, <2>4 DEF TargetSent
    <3>2. Read' = Read
      BY <1>2 DEF Read
    <3>. QED BY <1>2, <2>1, <3>1, <3>2 DEF TimeTest, TimeViews
  <2>12. TimeShown'
    BY <1>2, <2>1 DEF TimeTest, TimeShown
  <2>. QED BY <2>7, <2>8, <2>9, <2>10, <2>11, <2>12 DEF TimeTest
<1>. QED BY <1>2, <1>4, <1>5, <1>6, <1>7 DEF TimeInv

\* An abandoned write that still happens: nothing was verified before.
LEMMA Time_LateEffect ==
    ASSUME TimeInv, Time!LateEffect
    PROVE  TimeInv'
<1>1. /\ TimeTypes /\ TimeSafe /\ TimeBuffer /\ TimeProof
  BY DEF TimeInv
<1>2. /\ late # <<>> /\ late' = Tail(late)
      /\ remote' = remote \/ remote' = [remote EXCEPT ![Head(late)[1]] = Head(late)[2]]
      /\ UNCHANGED <<time, rx, buffer, pending, wire, nmt, defect, host, pc, pos, result, flags, sub, attempt,
                     polls, diag, before, previous_count, original, applied, lost>>
  BY DEF Time!LateEffect, Time!Sdo!LateWrite, Time!Sdo!LateLoss, Time!Sdo!Written, Time!slave, Time!control,
         Time!reading, Time!history
<1>3. late \in Seq({Time!Cob} \X TimeStates) /\ Len(late) <= 2
  BY <1>1 DEF TimeTypes
<1>4. /\ Head(late) \in {Time!Cob} \X TimeStates /\ late' \in Seq({Time!Cob} \X TimeStates)
      /\ Len(late') = Len(late) - 1 /\ Len(late) \in Nat
  BY <1>2, <1>3, HeadTail
<1>5. remote' \in [Time!Objects -> TimeStates]
  <2>1. Head(late)[2] \in TimeStates
    BY <1>4
  <2>. QED BY <1>1, <1>2, <2>1 DEF TimeTypes
<1>6. /\ pc \in {"cleanup", "recover", "verdict", "start", "done"} /\ ~flags.restoration_verified
      /\ pc = "recover" => ~(pos > 2)
      /\ pc = "cleanup" => flags.completion_wait_timed_out /\ flags.cob_id_modification_attempted
  BY <1>1, <1>2 DEF TimeSafe, TimeTypes, TimePlaces
<1>7. TimeTypes'
  BY <1>1, <1>2, <1>3, <1>4, <1>5 DEF TimeTypes
<1>8. TimeSafe'
  <2>1. Len(late) <= 1 => Len(late') <= 1
    BY <1>4
  <2>. QED BY <1>1, <1>2, <1>6, <2>1 DEF TimeSafe
<1>9. TimeBuffer' /\ TimeProof'
  BY <1>1, <1>2, <1>6 DEF TimeBuffer, TimeProof, TimeEvidence
<1>. QED BY <1>2, <1>6, <1>7, <1>8, <1>9 DEF TimeInv

-----------------------------------------------------------------------------
(* TimeProcess: the operations of the test.                                *)

\* An operation that succeeds.
LEMMA TimeAdvance ==
    ASSUME TimeTypes, pc \in Time!Scripted, NEW set, Time!Advance(set)
    PROVE  /\ sub' = 1 /\ attempt' = 1 /\ result' = result
           /\ Time!Current.kind = "count" => host' = 0
           /\ Time!Current.kind = "keep" => host' = host - diag.at
           /\ Time!Current.kind \notin {"count", "keep"} => host' = host
           /\ pos # Len(Time!Script) => pc' = pc /\ pos' = pos + 1
           /\ pos = Len(Time!Script) => pc' = Time!Completed /\ pos' = 1
           /\ flags' \in [Time!FlagNames -> BOOLEAN]
           /\ \A g \in Time!FlagNames : flags'[g] <=>
                 \/ g \in set
                 \/ pos = Len(Time!Script) /\ pc \in {"restore", "recover"} /\ g = "restoration_verified"
                 \/ flags[g] /\ ~(Time!Current.kind = "reset" /\ g = "completion_wait_timed_out")
<1>1. flags \in [Time!FlagNames -> BOOLEAN]
  BY DEF TimeTypes
<1>. DEFINE last == pos = Len(Time!Script)
            raised == set \cup IF last /\ pc \in {"restore", "recover"} THEN {"restoration_verified"} ELSE {}
            cleared == IF Time!Current.kind = "reset" THEN {"completion_wait_timed_out"} ELSE {}
<1>2. /\ sub' = 1 /\ attempt' = 1 /\ result' = result
      /\ host' = CASE Time!Current.kind = "count" -> 0
                   [] Time!Current.kind = "keep" -> host - diag.at
                   [] OTHER -> host
      /\ pos' = IF last THEN 1 ELSE pos + 1
      /\ pc' = IF last THEN Time!Completed ELSE pc
      /\ flags' = [g \in Time!FlagNames |-> g \in raised \/ (flags[g] /\ g \notin cleared)]
  BY DEF Time!Advance, Time!Fresh
<1>3. /\ flags' \in [Time!FlagNames -> BOOLEAN]
      /\ \A g \in Time!FlagNames : flags'[g] <=> g \in raised \/ (flags[g] /\ g \notin cleared)
  BY <1>1, <1>2
<1>4. /\ Time!Current.kind = "count" => host' = 0
      /\ Time!Current.kind = "keep" => host' = host - diag.at
      /\ Time!Current.kind \notin {"count", "keep"} => host' = host
  BY <1>2
<1>. QED BY <1>2, <1>3, <1>4

\* An operation that fails.
LEMMA TimeFail ==
    ASSUME TimeTypes, NEW set, Time!Fail(set)
    PROVE  /\ sub' = 1 /\ attempt' = 1 /\ result' = 1 /\ host' = host
           /\ pos' = 1 /\ pc' = Time!Broken
           /\ flags' \in [Time!FlagNames -> BOOLEAN]
           /\ \A g \in Time!FlagNames : flags'[g] <=> flags[g] \/ g \in set
<1>1. flags \in [Time!FlagNames -> BOOLEAN]
  BY DEF TimeTypes
<1>2. flags' = [g \in Time!FlagNames |-> flags[g] \/ g \in set]
  BY DEF Time!Fail, Time!Flag
<1>3. /\ flags' \in [Time!FlagNames -> BOOLEAN]
      /\ \A g \in Time!FlagNames : flags'[g] <=> flags[g] \/ g \in set
  BY <1>1, <1>2
<1>. QED BY <1>3 DEF Time!Fail, Time!Fresh

\* An operation of the test that is not the last one.
LEMMA TestMove ==
    ASSUME TimeInv, pc = "test", pos # 41, Time!Advance({}),
           pos \notin {27, 35}, pos \in TKeep => diag.at <= host,
           UNCHANGED <<remote, late, time, rx, buffer, pending, nmt, defect, original, applied, lost>>,
           wire' = <<>> \/ \E f \in TimeFrame : wire' = <<f>>,
           diag' \in TimeReading, before' \in TimeReading, previous_count' \in 0..3
    PROVE  /\ TimeOuter' /\ pc' = "test" /\ pos' = pos + 1 /\ pos' \in 2..41 /\ sub' = 1 /\ flags' = flags
           /\ pos \in TCount => host' = 0
           /\ pos \in TKeep => host' = host - diag.at
           /\ pos \notin TCount \cup TKeep => host' = host
<1>1. /\ TimeTypes /\ TimeSafe /\ TimeBuffer /\ TimeProof /\ TimeTest
  BY DEF TimeInv
<1>2. pos \in 1..40 /\ pc \in Time!Scripted /\ Len(Time!Script) = 41 /\ pos # Len(Time!Script)
      /\ Time!Current = Time!Tests[pos]
  <2>1. pc \in Time!Scripted
    BY DEF Time!Scripted
  <2>2. Len(Time!Script) = 41 /\ Time!Current = Time!Tests[pos]
    BY <1>1, <2>1, OtherScripts
  <2>. QED BY <1>1, <2>1, <2>2 DEF TimeTypes
<1>3. /\ (Time!Current.kind = "count" <=> pos \in TCount) /\ (Time!Current.kind = "keep" <=> pos \in TKeep)
      /\ Time!Current.kind # "reset"
  <2>1. Time!At("count") <=> Time!Current.kind = "count"
    BY <1>2 DEF Time!At
  <2>2. Time!At("keep") <=> Time!Current.kind = "keep"
    BY <1>2 DEF Time!At
  <2>3. Time!At("reset") <=> Time!Current.kind = "reset"
    BY <1>2 DEF Time!At
  <2>4. pos \in TCount => Time!Current.kind = "count"
    <3>1. pos \in TCount => Time!Current = Time!Op("count", "-")
      BY <1>2, TestScript
    <3>. QED BY <3>1 DEF Time!Op
  <2>5. pos \in TKeep => Time!Current.kind = "keep"
    <3>1. pos \in TKeep => Time!Current = Time!Keep
      BY <1>2, TestScript
    <3>. QED BY <3>1 DEF Time!Op, Time!Keep
  <2>. QED BY <1>1, <2>1, <2>2, <2>3, <2>4, <2>5, WhereAt
<1>4. /\ sub' = 1 /\ attempt' = 1 /\ result' = result /\ pc' = "test" /\ pos' = pos + 1
      /\ pos \in TCount => host' = 0
      /\ pos \in TKeep => host' = host - diag.at
      /\ pos \notin TCount \cup TKeep => host' = host
  BY <1>1, <1>2, <1>3, TimeAdvance
<1>5. flags' = flags
  <2>1. flags' \in [Time!FlagNames -> BOOLEAN] /\ flags \in [Time!FlagNames -> BOOLEAN]
    BY <1>1, <1>2, TimeAdvance DEF TimeTypes
  <2>2. \A g \in Time!FlagNames : flags'[g] <=> flags[g]
    BY <1>1, <1>2, <1>3, TimeAdvance
  <2>3. \A g \in Time!FlagNames : flags'[g] = flags[g]
    BY <2>1, <2>2
  <2>. QED BY <2>1, <2>3
<1>6. host' \in 0..MaxTicks
  <2>1. host \in 0..MaxTicks /\ diag.at \in Nat /\ MaxTicks \in Nat
    BY <1>1, TimeNumbers DEF TimeTypes, TimeReading
  <2>2. CASE pos \in TCount
    BY <1>4, <2>1, <2>2
  <2>3. CASE pos \in TKeep
    BY <1>4, <2>1, <2>3
  <2>. QED BY <1>4, <2>1, <2>2, <2>3
<1>7. pos' \in 2..41 /\ (pos' \in 28..35 <=> pos \in 28..35) /\ (pos' >= 28 <=> pos >= 28)
  BY <1>2, <1>4
<1>8. TimeTypes'
  <2>1. sub' \in 1..4 /\ attempt' \in 1..RetryCount /\ pos' \in 1..41
    BY <1>4, <1>7, Constants
  <2>. QED BY <1>1, <1>4, <1>5, <1>6, <2>1 DEF TimeTypes, Time!Scripted
<1>9. TimeSafe' /\ TimeBuffer'
  BY <1>1, <1>4, <1>5, <1>7 DEF TimeSafe, TimeBuffer
<1>10. TimeProof'
  BY <1>1, <1>4 DEF TimeProof, TimeEvidence
<1>. QED BY <1>4, <1>5, <1>7, <1>8, <1>9, <1>10 DEF TimeOuter

\* A failing operation of the test leads to the cleanup.
LEMMA TestFails ==
    ASSUME TimeInv, pc = "test", NEW set, Time!Fail(set), set \subseteq {"completion_wait_timed_out"},
           UNCHANGED <<remote, late, time, rx, buffer, pending, wire, nmt, defect, original, applied, lost>>,
           diag' \in TimeReading, before' \in TimeReading, previous_count' \in 0..3
    PROVE  TimeInv'
<1>1. /\ TimeTypes /\ TimeSafe /\ TimeBuffer /\ TimeProof /\ TimeTest
  BY DEF TimeInv
<1>2. /\ sub' = 1 /\ attempt' = 1 /\ result' = 1 /\ host' = host /\ pos' = 1 /\ pc' = "cleanup"
      /\ flags' \in [Time!FlagNames -> BOOLEAN]
      /\ \A g \in Time!FlagNames : flags'[g] <=> flags[g] \/ g \in set
  BY <1>1, TimeFail DEF Time!Broken
<1>3. /\ flags'["restoration_verified"] <=> flags["restoration_verified"]
      /\ flags'["cob_id_modification_attempted"] <=> flags["cob_id_modification_attempted"]
  BY <1>2 DEF Time!FlagNames
<1>4. TimeTypes'
  <2>1. sub' \in 1..4 /\ attempt' \in 1..RetryCount /\ pos' \in 1..41 /\ result' \in {0, 1}
    BY <1>2, Constants
  <2>. QED BY <1>1, <1>2, <2>1 DEF TimeTypes, Time!Scripted, TimePlaces
<1>5. TimeSafe'
  <2>1. late = <<>> /\ Len(late) <= 1
    BY <1>1 DEF TimeSafe
  <2>2. ~flags["restoration_verified"]
    BY <1>1 DEF TimeSafe
  <2>. QED BY <1>1, <1>2, <1>3, <2>1, <2>2 DEF TimeSafe
<1>6. TimeBuffer' /\ TimeProof'
  BY <1>1, <1>2 DEF TimeBuffer, TimeProof
<1>. QED BY <1>2, <1>4, <1>5, <1>6 DEF TimeInv

\* Neighbouring places of the test expect the clock at the same times.
LEMMA SlotsKept ==
    ASSUME NEW p \in 1..40, p \notin {2, 6, 7, 11, 12, 16, 17, 22, 30, 37}, NEW t, NEW h
    PROVE  /\ OldSlot(p, t, h) <=> OldSlot(p + 1, t, h)
           /\ p # 26 => (BadSlot(p, t, h) => BadSlot(p + 1, t, h))
           /\ NewSlot(p, t, h) => NewSlot(p + 1, t, h) /\ Target(p + 1) = Target(p)
<1>1. Base(p + 1) = Base(p)
  BY DEF Base
<1>2. Slack(p + 1) = Slack(p)
  BY DEF Slack
<1>3. Target(p + 1) = Target(p)
  BY DEF Target
<1>4. /\ p \in TargetSent => p + 1 \in TargetSent
      /\ p # 26 /\ p \in UnwantedSent => p + 1 \in UnwantedSent
      /\ p + 1 >= 38 <=> p >= 38
  BY DEF TargetSent, UnwantedSent
<1>. QED BY <1>1, <1>2, <1>3, <1>4 DEF OldSlot, BadSlot, NewSlot

\* The reading a test starts with is a reading, taken at time 0.
LEMMA NoReading == Time!NoDiag \in TimeReading /\ Time!NoDiag.at = 0
  BY TimeNumbers DEF TimeReading, Time!NoDiag

\* What the clock does not depend on at a new place of the test.
LEMMA TestClockKept ==
    ASSUME TimeTypes, TimeClock, pos \in 1..40, pos \notin {2, 6, 7, 11, 12, 16, 17, 22, 26, 30, 37},
           pos' = pos + 1, UNCHANGED <<time, host, pending, defect, applied>>,
           wire' = <<>> \/ pos \in TSend
    PROVE  TimeClock'
<1>1. CASE OldSlot(pos, time, host)
  BY <1>1, SlotsKept DEF TimeClock
<1>2. CASE Misled
  <2>1. BadSlot(pos', time', host') /\ pending' # Time!Unwanted /\ pos \in UnwantedSent
    BY <1>2, SlotsKept DEF Misled, BadSlot
  <2>2. pos' < 38 => wire' = <<>>
    BY <2>1 DEF UnwantedSent, TSend
  <2>3. pos' \in 32..34 => pos \in 32..34
    BY <2>1 DEF UnwantedSent
  <2>. QED BY <1>2, <2>1, <2>2, <2>3 DEF Misled, TimeClock
<1>3. CASE Taken
  <2>1. /\ NewSlot(pos', time', host') /\ Target(pos') = Target(pos) /\ pos \in TargetSent
    BY <1>3, SlotsKept DEF Taken, NewSlot
  <2>2. wire' = <<>>
    BY <2>1 DEF TSend, TargetSent
  <2>. QED BY <1>3, <2>1, <2>2 DEF Taken, TimeClock
<1>. QED BY <1>1, <1>2, <1>3 DEF TimeClock

\* A read of the test takes nothing from the slave but what it shows.
LEMMA TestRead ==
    ASSUME TimeInv, NEW o, Time!Sdo!SdoRead(o)
    PROVE  /\ UNCHANGED <<remote, late>>
           /\ reply'.class = "SUCCESS" => reply'.value = remote[o] /\ late = <<>>
           /\ Time!Abandoned \subseteq {"completion_wait_timed_out"}
  BY DEF Time!Sdo!SdoRead, Time!Sdo!Answer, Time!Abandoned

\* Where no snapshot has been read.
LEMMA Unread ==
    ASSUME sub' = 1, pos' \notin AfterDiag
    PROVE  ~Read' /\ TimeOrder'
  BY DEF Read, TimeOrder

\* The receive count before a frame.
LEMMA Time_readRxCount ==
    ASSUME TimeInv, Time!readRxCount
    PROVE  TimeInv'
<1>1. /\ TimeTypes /\ TimeTest /\ pc = "test" /\ pos \in TCount /\ pos # 41 /\ pos \notin {27, 35} /\ pos \notin TKeep
  BY WhereAt DEF TimeInv, Time!readRxCount, TCount, TKeep
<1>2. /\ UNCHANGED <<remote, late, time, rx, buffer, pending, wire, nmt, defect, before, original, applied, lost>>
      /\ Time!Abandoned \subseteq {"completion_wait_timed_out"}
      /\ reply'.class = "SUCCESS" => wire = <<>>
      /\ diag' = Time!NoDiag
  BY TestRead DEF Time!readRxCount, Time!ReadDiagnostic, Time!InOrder, Time!slave, Time!history
<1>3. /\ diag' \in TimeReading /\ before' \in TimeReading /\ rx \in 0..3 /\ previous_count \in 0..3
      /\ wire = <<>> \/ \E f \in TimeFrame : wire = <<f>>
  BY <1>1, <1>2, NoReading DEF TimeTypes
<1>4. CASE reply'.class = "SUCCESS" /\ previous_count' = rx /\ Time!Advance({})
  <2>1. /\ TimeOuter' /\ pc' = "test" /\ pos' = pos + 1 /\ sub' = 1 /\ host' = 0
    BY <1>1, <1>2, <1>3, <1>4, TestMove
  <2>2. wire' = <<>>
    BY <1>2, <1>4
  <2>3. pos' \in {3, 8, 13, 38}
    BY <1>1, <2>1 DEF TCount
  <2>4. host \in Nat /\ time \in Nat /\ host <= MaxTicks /\ pos \in 1..41
    BY <1>1, TimeNumbers DEF TimeTypes
  <2>5. TimeClock'
    <3>1. Base(pos + 1) = Base(pos) /\ Slack(pos + 1) = Slack(pos) + MaxTicks
      BY <1>1, TimeNumbers DEF Base, Slack, TCount
    <3>2. Base(pos) \in Nat /\ Slack(pos) \in Nat
      BY <2>4, SlotNumbers, TimeNumbers
    <3>3. CASE OldSlot(pos, time, host)
      <4>1. Slack(pos) + MaxTicks \in Nat /\ Slack(pos) + host <= Slack(pos) + MaxTicks + 0
        BY <2>4, <3>2, TimeNumbers
      <4>2. Within(Base(pos), Slack(pos) + MaxTicks, time, 0)
        BY <2>4, <3>2, <3>3, <4>1, WithinMore DEF OldSlot
      <4>. QED BY <1>2, <2>1, <3>1, <4>2 DEF TimeClock, OldSlot
    <3>4. CASE Misled
      <4>1. pos = 37
        BY <1>1, <3>4 DEF Misled, BadSlot, UnwantedSent, TCount
      <4>2. Within(Time!Unwanted, 0, time, host)
        BY <3>4, <4>1 DEF Misled, BadSlot
      <4>3. Within(Time!Unwanted, MaxTicks, time, 0)
        <5>1. Time!Unwanted \in Nat /\ MaxTicks \in Nat /\ 0 + host <= MaxTicks + 0
          BY <2>4, TimeNumbers
        <5>. QED BY <2>4, <4>2, <5>1, WithinMore
      <4>4. pos' = 38
        BY <2>1, <4>1
      <4>5. BadSlot(pos', time', host')
        BY <1>2, <2>1, <4>3, <4>4 DEF BadSlot, UnwantedSent
      <4>. QED BY <1>2, <3>4, <4>4, <4>5 DEF Misled, TimeClock
    <3>. QED BY <1>1, <3>3, <3>4 DEF TimeTest, TimeClock, Taken, NewSlot, TargetSent, TCount
  <2>6. TimeFrames'
    <3>1. pending # Time!None => pos = 37 /\ pending = Time!Unwanted
      BY <1>1 DEF TimeTest, TimeFrames, TCount, TargetSent
    <3>. QED BY <1>2, <2>1, <2>2, <2>3, <3>1 DEF TimeFrames
  <2>7. TimeCounts' /\ TimeOrder'
    <3>1. TimeCounts'
      BY <2>3 DEF TimeCounts
    <3>2. pos' \notin AfterDiag
      BY <2>3 DEF AfterDiag
    <3>. QED BY <2>1, <3>1, <3>2, Unread
  <2>8. TimeViews'
    BY <2>3 DEF TimeViews, Read, TDiag, AfterDiag
  <2>9. TimeShown'
    BY <1>1, <1>2, <2>1 DEF TimeTest, TimeShown, TCount
  <2>. QED BY <2>1, <2>5, <2>6, <2>7, <2>8, <2>9 DEF TimeInv, TimeOuter, TimeTest
<1>5. CASE Time!ReadFails /\ UNCHANGED previous_count
  BY <1>1, <1>2, <1>3, <1>5, TestFails DEF Time!ReadFails
<1>. QED BY <1>4, <1>5 DEF Time!readRxCount

\* A frame is sent when nothing is under way.
LEMMA Time_sendTimeFrame ==
    ASSUME TimeInv, Time!sendTimeFrame
    PROVE  TimeInv'
<1>1. /\ TimeTypes /\ TimeTest /\ pc = "test" /\ pos \in TSend
  BY WhereAt DEF TimeInv, Time!sendTimeFrame
<1>2. pos # 41 /\ pos \notin {27, 35} /\ pos \notin TKeep /\ pos \notin TCount
  BY <1>1 DEF TSend, TKeep, TCount
<1>3. UNCHANGED <<remote, late, time, rx, buffer, pending, nmt, defect, diag, before, previous_count,
                  original, applied, lost>>
  BY DEF Time!sendTimeFrame, Time!sdo, Time!history
<1>4. /\ diag' \in TimeReading /\ before' \in TimeReading /\ previous_count' \in 0..3 /\ pos \in 1..41
  BY <1>1, <1>3 DEF TimeTypes
<1>5. CASE wire' = <<Time!Current.value>> /\ Time!Advance({})
  <2>1. Time!Current = Time!Tests[pos]
    BY <1>1, OtherScripts DEF Time!Scripted
  <2>2. \/ pos = 23 /\ Time!Current.value = [time |-> Sent(pos + 1), valid |-> FALSE]
        \/ pos # 23 /\ Time!Current.value = [time |-> Sent(pos + 1), valid |-> TRUE]
    <3>1. CASE pos = 23
      <4>1. Time!Current = Time!Frame(Time!Unwanted, FALSE)
        BY <2>1, <3>1, TestScript
      <4>2. Sent(pos + 1) = Time!Unwanted
        BY <3>1 DEF Sent
      <4>3. Time!Current.value = [time |-> Time!Unwanted, valid |-> FALSE]
        BY <4>1 DEF Time!Frame, Time!Op
      <4>. QED BY <3>1, <4>2, <4>3
    <3>2. CASE pos # 23
      <4>1. Time!Current = Time!Frame(Sent(pos + 1), TRUE)
        BY <1>1, <2>1, <3>2, TestScript
      <4>2. Time!Current.value = [time |-> Sent(pos + 1), valid |-> TRUE]
        BY <4>1 DEF Time!Frame, Time!Op
      <4>. QED BY <3>2, <4>2
    <3>. QED BY <3>1, <3>2
  <2>3. pos + 1 \in 1..41
    BY <1>2, <1>4
  <2>4. Sent(pos + 1) \in 0..(Time!Cycle - 1)
    BY <2>3, SlotNumbers
  <2>5. /\ wire' # <<>> /\ wire'[1].time = Sent(pos + 1) /\ (wire'[1].valid <=> pos # 23)
        /\ \E f \in TimeFrame : wire' = <<f>>
    <3>1. Time!Current.value \in TimeFrame
      <4>1. CASE pos = 23
        <5>1. Time!Current.value = [time |-> Sent(pos + 1), valid |-> FALSE]
          BY <2>2, <4>1
        <5>. QED BY <2>4, <5>1 DEF TimeFrame
      <4>2. CASE pos # 23
        <5>1. Time!Current.value = [time |-> Sent(pos + 1), valid |-> TRUE]
          BY <2>2, <4>2
        <5>. QED BY <2>4, <5>1 DEF TimeFrame
      <4>. QED BY <4>1, <4>2
    <3>2. wire' # <<>> /\ wire'[1] = Time!Current.value
      BY <1>5
    <3>3. wire'[1].time = Sent(pos + 1) /\ (wire'[1].valid <=> pos # 23)
      <4>1. CASE pos = 23
        BY <2>2, <3>2, <4>1
      <4>2. CASE pos # 23
        BY <2>2, <3>2, <4>2
      <4>. QED BY <4>1, <4>2
    <3>. QED BY <1>5, <3>1, <3>2, <3>3
  <2>6. /\ TimeOuter' /\ pc' = "test" /\ pos' = pos + 1 /\ sub' = 1 /\ host' = host
    BY <1>1, <1>2, <1>3, <1>4, <1>5, <2>5, TestMove
  <2>7. pos' \in {4, 9, 14, 24, 32, 39} /\ pos \in 1..40 /\ (pos = 23 <=> pos' = 24) /\ (pos = 31 <=> pos' = 32)
    BY <1>1, <2>6 DEF TSend
  <2>8. TimeClock'
    <3>1. pos \notin {2, 6, 7, 11, 12, 16, 17, 22, 26, 30, 37}
      BY <1>1 DEF TSend
    <3>. QED BY <1>1, <1>3, <2>6, <2>7, <3>1, TestClockKept DEF TimeTest
  <2>9. pending # Time!None => pos = 38 /\ pending = Time!Unwanted
    BY <1>1 DEF TimeTest, TimeFrames, TSend, TargetSent
  <2>10. TimeFrames'
    <3>1. pos' \in FrameSent /\ wire'[1].time = Sent(pos') /\ (wire'[1].valid <=> pos' # 24)
      BY <2>5, <2>6, <2>7 DEF FrameSent
    <3>2. pending' # Time!None => pos' = 39 /\ pending' = Time!Unwanted
      BY <1>3, <2>6, <2>9
    <3>. QED BY <2>7, <3>1, <3>2 DEF TimeFrames
  <2>11. TimeCounts'
    <3>1. pos' \in {24, 32} => rx' = before'.count
      BY <1>1, <1>3, <2>7 DEF TimeTest, TimeCounts
    <3>2. pos' = 24 => OldSlot(pos', time', host') /\ pending' = Time!None
      <4>1. pos' = 24 => pos = 23
        BY <2>7
      <4>2. pos = 23 => OldSlot(pos, time, host) /\ pending = Time!None
        BY <1>1, <2>9 DEF TimeTest, TimeClock, Misled, BadSlot, Taken, NewSlot, TargetSent, UnwantedSent
      <4>3. pos = 23 => OldSlot(pos + 1, time, host)
        BY <2>7, <4>2, SlotsKept
      <4>. QED BY <1>3, <2>6, <4>1, <4>2, <4>3
    <3>3. pos' \in 24..26 => pos' = 24
      BY <2>7
    <3>4. pos' \in 32..34 => pos' = 32
      BY <2>7
    <3>5. pos' \notin {21, 25, 29, 33} /\ pos' \notin {22, 26, 30, 34} /\ pos' \notin {23, 31}
      BY <2>7
    <3>. QED BY <2>5, <3>1, <3>2, <3>3, <3>4, <3>5 DEF TimeCounts
  <2>12. TimeOrder' /\ ~Read'
    <3>1. pos' \notin AfterDiag
      BY <2>7 DEF AfterDiag
    <3>. QED BY <2>6, <3>1, Unread
  <2>13. TimeViews'
    <3>1. pos' \in 17..20 \cup 31..34 => pos' = 32
      BY <2>7
    <3>2. pos' = 32 => pos \in 31..34
      BY <2>7
    <3>. QED BY <1>1, <1>3, <2>7, <2>12, <3>1, <3>2 DEF TimeTest, TimeViews, Coherent
  <2>14. TimeShown'
    BY <1>1, <1>3, <2>6 DEF TimeTest, TimeShown, TSend
  <2>. QED BY <2>6, <2>8, <2>10, <2>11, <2>12, <2>13, <2>14 DEF TimeInv, TimeOuter, TimeTest
<1>6. CASE Time!Fail({}) /\ UNCHANGED wire
  BY <1>1, <1>3, <1>4, <1>6, TestFails
<1>. QED BY <1>5, <1>6 DEF Time!sendTimeFrame

\* The frame has been received, and nothing else is under way.
LEMMA Time_waitForRxCount ==
    ASSUME TimeInv, Time!waitForRxCount
    PROVE  TimeInv'
<1>1. /\ TimeTypes /\ TimeTest /\ pc = "test" /\ pos \in TPoll
  BY WhereAt DEF TimeInv, Time!waitForRxCount
<1>2. pos # 41 /\ pos \notin {27, 35} /\ pos \notin TKeep /\ pos \notin TCount
  BY <1>1 DEF TPoll, TKeep, TCount
<1>3. /\ UNCHANGED <<remote, late, time, rx, buffer, pending, wire, nmt, defect, diag, before, previous_count,
                      original, applied, lost>>
      /\ Time!Abandoned \subseteq {"completion_wait_timed_out"}
      /\ reply'.class = "SUCCESS" => wire = <<>>
  BY TestRead DEF Time!waitForRxCount, Time!ReadDiagnostic, Time!InOrder, Time!slave, Time!history
<1>4. /\ diag' \in TimeReading /\ before' \in TimeReading /\ previous_count' \in 0..3 /\ pos \in 1..41
  BY <1>1, <1>3 DEF TimeTypes
<1>5. CASE reply'.class = "SUCCESS" /\ Time!Advance({})
  <2>1. wire' = <<>>
    BY <1>3, <1>5
  <2>2. /\ TimeOuter' /\ pc' = "test" /\ pos' = pos + 1 /\ sub' = 1 /\ host' = host
    BY <1>1, <1>2, <1>3, <1>4, <1>5, <2>1, TestMove
  <2>3. pos' \in {5, 10, 15, 40} /\ pos \in 1..40
    BY <1>1, <2>2 DEF TPoll
  <2>4. TimeClock'
    <3>1. pos \notin {2, 6, 7, 11, 12, 16, 17, 22, 26, 30, 37}
      BY <1>1 DEF TPoll
    <3>. QED BY <1>1, <1>3, <2>1, <2>2, <2>3, <3>1, TestClockKept DEF TimeTest
  <2>5. TimeFrames'
    <3>1. pos' \in TargetSent /\ Target(pos') = Target(pos) /\ pos' \notin 33..34
      BY <1>1, <2>2 DEF TPoll, TargetSent, Target
    <3>2. pos \in {24} \cup 32..41 => pos' \in {24} \cup 32..41
      BY <1>1, <2>2 DEF TPoll
    <3>. QED BY <1>1, <1>3, <2>1, <3>1, <3>2 DEF TimeTest, TimeFrames
  <2>6. TimeCounts'
    BY <2>3 DEF TimeCounts
  <2>7. TimeOrder' /\ ~Read'
    <3>1. pos' \notin AfterDiag
      BY <2>3 DEF AfterDiag
    <3>. QED BY <2>2, <3>1, Unread
  <2>8. TimeViews'
    BY <2>3, <2>7 DEF TimeViews
  <2>9. TimeShown'
    BY <1>1, <1>3, <2>2 DEF TimeTest, TimeShown, TPoll
  <2>. QED BY <2>2, <2>4, <2>5, <2>6, <2>7, <2>8, <2>9 DEF TimeInv, TimeOuter, TimeTest
<1>6. CASE Time!Fail({})
  BY <1>1, <1>3, <1>4, <1>6, TestFails
<1>7. CASE Time!ReadFails
  BY <1>1, <1>3, <1>4, <1>7, TestFails DEF Time!ReadFails
<1>. QED BY <1>5, <1>6, <1>7 DEF Time!waitForRxCount

\* A snapshot is kept; the host clock is started again at it.
LEMMA Time_KeepDiagnostic ==
    ASSUME TimeInv, Time!KeepDiagnostic
    PROVE  TimeInv'
<1>1. /\ TimeTypes /\ TimeTest /\ pc = "test" /\ pos \in TKeep
  BY WhereAt DEF TimeInv, Time!KeepDiagnostic
<1>2. pos # 41 /\ pos \notin {27, 35} /\ pos \in AfterDiag /\ pos \notin FrameSent /\ pos \in 1..40
      /\ pos \notin TargetSent /\ pos \notin UnwantedSent /\ pos \notin {24} \cup 32..41
  BY <1>1 DEF TKeep, AfterDiag, FrameSent, TargetSent, UnwantedSent
<1>3. /\ UNCHANGED <<remote, late, time, rx, buffer, pending, wire, nmt, defect, diag, previous_count,
                      original, applied, lost>>
      /\ before' = diag /\ Time!Advance({})
  BY DEF Time!KeepDiagnostic, Time!sdo, Time!slave, Time!history
<1>4. /\ diag' \in TimeReading /\ before' \in TimeReading /\ previous_count' \in 0..3
      /\ host \in 0..MaxTicks /\ time \in Nat
      /\ wire' = <<>> \/ \E f \in TimeFrame : wire' = <<f>>
  BY <1>1, <1>3, TimeNumbers DEF TimeTypes
<1>5. /\ Read /\ diag.at <= host /\ OldSlot(pos, diag.clock, diag.at) /\ Coherent(diag) /\ OldSlot(pos, time, host)
      /\ pending = Time!None /\ wire = <<>>
  <2>1. Read /\ pending = Time!None /\ wire = <<>> /\ Coherent(diag)
    BY <1>1, <1>2 DEF Read, TimeTest, TimeFrames, TimeOrder
  <2>2. OldSlot(pos, time, host)
    BY <1>1, <1>2 DEF TimeTest, TimeClock, Misled, BadSlot, Taken, NewSlot
  <2>. QED BY <1>1, <1>2, <2>1, <2>2 DEF TimeTest, TimeViews, BadSlot, NewSlot
<1>6. /\ TimeOuter' /\ pc' = "test" /\ pos' = pos + 1 /\ sub' = 1 /\ host' = host - diag.at
  BY <1>1, <1>2, <1>3, <1>4, <1>5, TestMove
<1>7. pos' \in {18, 23, 31} /\ (pos' = 18 => pos = 17) /\ (pos' = 31 => pos = 30)
  BY <1>1, <1>6 DEF TKeep
<1>8. TimeClock'
  <2>1. Base(pos + 1) = Base(pos) /\ Slack(pos + 1) = Slack(pos) + MaxTicks
    BY <1>1, TimeNumbers DEF Base, Slack, TKeep
  <2>2. Base(pos) \in Nat /\ Slack(pos) \in Nat
    <3>1. pos \in 1..41
      BY <1>2
    <3>. QED BY <3>1, SlotNumbers, TimeNumbers
  <2>3. diag.at \in Nat
    BY <1>3, <1>4 DEF TimeReading
  <2>4. host \in Nat /\ MaxTicks \in Nat /\ diag.at <= host /\ host <= MaxTicks
    BY <1>4, <1>5, TimeNumbers
  <2>7. PICK g \in Nat : g = host - diag.at
    BY <2>3, <2>4
  <2>8. PICK r \in Nat : r = Slack(pos) + MaxTicks
    BY <2>2, <2>4
  <2>10. Slack(pos) + host <= r + g
    BY <2>2, <2>4, <2>7, <2>8
  <2>9. Within(Base(pos), Slack(pos), time, host)
    BY <1>5 DEF OldSlot
  <2>5. Within(Base(pos), Slack(pos) + MaxTicks, time, host - diag.at)
    <3>1. Within(Base(pos), r, time, g)
      BY <1>4, <2>2, <2>4, <2>9, <2>10, WithinMore
    <3>. QED BY <2>7, <2>8, <3>1
  <2>6. Within(Base(pos'), Slack(pos'), time', host')
    BY <1>3, <1>6, <2>1, <2>5
  <2>. QED BY <2>6 DEF TimeClock, OldSlot
<1>9. TimeFrames'
  BY <1>3, <1>5, <1>7 DEF TimeFrames
<1>10. TimeCounts'
  <2>1. pos \in {22, 30} => diag.count = rx
    BY <1>1 DEF TimeTest, TimeCounts
  <2>2. pos' \in {23, 31} => before'.count = rx'
    <3>1. pos' \in {23, 31} => pos \in {22, 30}
      BY <1>2, <1>6
    <3>. QED BY <1>3, <2>1, <3>1
  <2>. QED BY <1>7, <2>2 DEF TimeCounts
<1>11. TimeOrder' /\ ~Read'
  <2>1. pos' \notin AfterDiag
    BY <1>7 DEF AfterDiag
  <2>. QED BY <1>6, <2>1, Unread
<1>12. TimeViews'
  <2>1. Coherent(before')
    BY <1>3, <1>5
  <2>2. pos' = 18 /\ defect' = "stopped" => time' = Time!Continuous /\ before'.clock = Time!Continuous
    BY <1>1, <1>3, <1>5, <1>7 DEF TimeTest, TimeViews
  <2>3. pos' = 31 => Time!Continuous <= before'.clock /\ before'.clock <= Time!Continuous + 3 * MaxTicks
    <3>1. diag.at \in 0..MaxTicks /\ diag.clock \in 0..(Time!Cycle - 1)
      BY <1>3, <1>4 DEF TimeReading
    <3>2. pos = 30 => Within(Time!Continuous, 2 * MaxTicks, diag.clock, diag.at)
      BY <1>5 DEF OldSlot, Base, Slack
    <3>3. pos = 30 => Time!Continuous <= diag.clock /\ diag.clock <= Time!Continuous + 3 * MaxTicks
      BY <3>1, <3>2, TimeNumbers DEF Within
    <3>. QED BY <1>3, <1>7, <3>3
  <2>. QED BY <1>7, <1>11, <2>1, <2>2, <2>3 DEF TimeViews
<1>13. TimeShown'
  BY <1>1, <1>3, <1>6 DEF TimeTest, TimeShown, TKeep
<1>. QED BY <1>6, <1>8, <1>9, <1>10, <1>11, <1>12, <1>13 DEF TimeInv, TimeOuter, TimeTest

\* The main loop has seen what arrived before the end of a sleep.
LEMMA Time_Sleep ==
    ASSUME TimeInv, Time!Sleep
    PROVE  TimeInv'
<1>1. /\ TimeTypes /\ TimeTest /\ pc = "test" /\ pos \in TSleep
  BY WhereAt DEF TimeInv, Time!Sleep
<1>2. pos # 41 /\ pos \notin {27, 35} /\ pos \notin TKeep /\ pos \notin TCount /\ pos \in 1..40 /\ pos \notin TargetSent
      /\ pos \notin {2, 6, 7, 11, 12, 16, 17, 22, 26, 30, 37}
  BY <1>1 DEF TSleep, TKeep, TCount, TargetSent
<1>3. /\ UNCHANGED <<remote, late, time, rx, buffer, pending, wire, nmt, defect, diag, before, previous_count,
                      original, applied, lost>>
      /\ wire = <<>> /\ ~Time!Consumes /\ host >= Wait /\ Time!Advance({})
  BY DEF Time!Sleep, Time!sdo, Time!slave, Time!history
<1>4. /\ diag' \in TimeReading /\ before' \in TimeReading /\ previous_count' \in 0..3
  BY <1>1, <1>3 DEF TimeTypes
<1>5. /\ TimeOuter' /\ pc' = "test" /\ pos' = pos + 1 /\ sub' = 1 /\ host' = host
  BY <1>1, <1>2, <1>3, <1>4, TestMove
<1>6. pos' \in {19, 25, 33} /\ (pos' = 19 <=> pos = 18) /\ (pos' = 25 <=> pos = 24) /\ (pos' = 33 <=> pos = 32)
  BY <1>1, <1>5 DEF TSleep
<1>7. TimeClock'
  BY <1>1, <1>2, <1>3, <1>5, TestClockKept DEF TimeTest
<1>8. pending # Time!None => pos = 32 /\ pending = Time!Unwanted /\ defect # "ungated"
  <2>1. pending # Time!None => pending = Time!Unwanted /\ pos \in {24, 32}
    BY <1>1, <1>2 DEF TimeTest, TimeFrames, TSleep
  <2>2. pos = 24 => remote[Time!Cob] = "on"
    BY <1>1 DEF TimeInv, TimeBuffer
  <2>. QED BY <1>3, <2>1, <2>2 DEF Time!Consumes
<1>9. TimeFrames'
  <2>1. pending' # Time!None => pos' = 33 /\ pending' = Time!Unwanted /\ defect' # "ungated"
    BY <1>3, <1>6, <1>8
  <2>. QED BY <1>3, <2>1 DEF TimeFrames
<1>10. TimeCounts'
  <2>1. OldSlot(pos, time, host) => OldSlot(pos', time', host')
    BY <1>2, <1>3, <1>5, SlotsKept
  <2>2. BadSlot(pos, time, host) => BadSlot(pos', time', host')
    BY <1>2, <1>3, <1>5, SlotsKept
  <2>3. pos' \in 24..26 => pos \in 24..26
    BY <1>6
  <2>4. pos' \in 32..34 => pos \in 32..34
    BY <1>6
  <2>5. pos' \notin {22, 26, 30, 34} /\ pos' \notin {23, 31} /\ pos' \notin {24, 32}
    BY <1>6
  <2>6. ~(sub' >= 2)
    BY <1>5
  <2>. QED BY <1>1, <1>3, <2>1, <2>2, <2>3, <2>4, <2>5, <2>6 DEF TimeTest, TimeCounts
<1>11. TimeOrder' /\ ~Read'
  <2>1. pos' \notin AfterDiag
    BY <1>6 DEF AfterDiag
  <2>. QED BY <1>5, <2>1, Unread
<1>12. TimeViews'
  <2>1. pos' = 19 => host' >= Wait
    BY <1>3, <1>5
  <2>2. /\ pos' \in 17..20 => pos \in 18..20
        /\ pos' \in 18..20 \cup 31..34 => pos \in 18..20 \cup 31..34
        /\ pos' \in 31..34 => pos \in 31..34
    BY <1>6
  <2>3. pos \in 18..20 => pos \in 17..20 /\ pos >= 18
    BY <1>2
  <2>. QED BY <1>1, <1>3, <1>11, <2>1, <2>2, <2>3 DEF TimeTest, TimeViews, Coherent
<1>13. TimeShown'
  BY <1>1, <1>3, <1>5 DEF TimeTest, TimeShown, TSleep
<1>. QED BY <1>5, <1>7, <1>9, <1>10, <1>11, <1>12, <1>13 DEF TimeInv, TimeOuter, TimeTest

\* The time from one snapshot to another.
LEMMA ForwardDelta ==
    ASSUME NEW from \in 0..(Time!Cycle - 1), NEW to \in 0..(Time!Cycle - 1)
    PROVE  /\ Time!forwardTimeDelta(from, to) \in Nat
           /\ to >= from => Time!forwardTimeDelta(from, to) = to - from
           /\ to < from => Time!forwardTimeDelta(from, to) = Time!Cycle - from + to
  BY TimeNumbers DEF Time!forwardTimeDelta

\* A comparison that is passed: the clock of a slave that does what it should
\* not do would have been seen to go astray.
LEMMA AdvanceShows ==
    ASSUME TimeInv, pc = "test", pos \in TAdvance, Time!AdvancedNormally(IF pos = 34 THEN 1 ELSE 0)
    PROVE  /\ pos = 20 => defect # "stopped"
           /\ pos = 26 => rx = before.count /\ (defect # "anylength" \/ lost)
           /\ pos = 34 => defect # "ungated"
<1>1. TimeTypes /\ TimeTest /\ pos \in AfterDiag /\ Read
  BY DEF TimeInv, TAdvance, AfterDiag, Read
<1>. DEFINE d == Time!timePosition(diag.ms, diag.days)
            b == Time!timePosition(before.ms, before.days)
            e == Time!forwardTimeDelta(b, d)
<1>2. /\ d = diag.clock /\ diag.clock \in 0..(Time!Cycle - 1) /\ before.clock \in 0..(Time!Cycle - 1)
      /\ diag.at \in 0..MaxTicks /\ before.count \in 0..3 /\ diag.count \in 0..3
  BY <1>1 DEF TimeTest, TimeOrder, Coherent, TimeTypes, TimeReading
<1>3. /\ e + Tolerance >= diag.at /\ e <= diag.at + Tolerance
      /\ diag.count = (before.count + (IF pos = 34 THEN 1 ELSE 0)) % 4
  BY DEF Time!AdvancedNormally, Time!RxRange
<1>4. pos \in {20, 34} => b = before.clock
  BY <1>1 DEF TimeTest, TimeViews, Coherent
<1>5. ASSUME pos = 20, defect = "stopped" PROVE FALSE
  <2>1. d = Time!Continuous /\ b = Time!Continuous /\ diag.at >= Wait
    BY <1>1, <1>2, <1>4, <1>5 DEF TimeTest, TimeViews
  <2>2. e = 0
    <3>1. b \in 0..(Time!Cycle - 1) /\ d \in 0..(Time!Cycle - 1) /\ d >= b /\ d - b = 0
      BY <2>1, TimeNumbers
    <3>. QED BY <3>1, ForwardDelta
  <2>. QED BY <1>2, <1>3, <2>1, <2>2, TimeNumbers
<1>6. ASSUME pos = 26 PROVE rx = before.count /\ (defect # "anylength" \/ lost)
  <2>1. diag.count = rx /\ diag.count = (before.count + 0) % 4
    BY <1>1, <1>3, <1>6 DEF TimeTest, TimeCounts
  <2>2. rx = before.count
    BY <1>2, <2>1
  <2>3. wire = <<>>
    BY <1>1, <1>6 DEF TimeTest, TimeFrames, FrameSent
  <2>. QED BY <1>1, <1>6, <2>2, <2>3 DEF TimeTest, TimeCounts
<1>7. ASSUME pos = 34, defect = "ungated" PROVE FALSE
  <2>1. rx # before.count
    <3>1. diag.count = rx /\ diag.count = (before.count + 1) % 4
      BY <1>1, <1>3, <1>7 DEF TimeTest, TimeCounts
    <3>. QED BY <1>2, <3>1
  <2>2. BadSlot(34, diag.clock, diag.at)
    BY <1>1, <1>7, <2>1 DEF TimeTest, TimeViews
  <2>3. Within(Time!Unwanted, 0, diag.clock, diag.at)
    BY <2>2 DEF BadSlot
  <2>4. /\ Time!Continuous <= before.clock /\ before.clock <= Time!Continuous + 3 * MaxTicks
    BY <1>1, <1>7 DEF TimeTest, TimeViews
  <2>5. Time!Unwanted <= diag.clock
    BY <1>2, <2>3, TimeNumbers DEF Within
  <2>6. before.clock <= diag.clock
    BY <1>2, <2>4, <2>5, TimeNumbers
  <2>7. e = diag.clock - before.clock
    BY <1>2, <1>4, <1>7, <2>6, ForwardDelta
  <2>. QED BY <1>2, <1>3, <2>4, <2>5, <2>7, TimeNumbers
<1>. QED BY <1>5, <1>6, <1>7

\* The comparison with an earlier snapshot.
LEMMA Time_validateContinuousAdvance ==
    ASSUME TimeInv, Time!validateContinuousAdvance
    PROVE  TimeInv'
<1>1. /\ TimeTypes /\ TimeTest /\ pc = "test" /\ pos \in TAdvance
  BY WhereAt DEF TimeInv, Time!validateContinuousAdvance
<1>2. pos # 41 /\ pos \notin {27, 35} /\ pos \notin TKeep /\ pos \notin TCount /\ pos \in 1..40 /\ pos \notin TargetSent
      /\ pos \notin FrameSent /\ pos \notin {2, 6, 7, 11, 12, 16, 17, 22, 30, 37}
  BY <1>1 DEF TAdvance, TKeep, TCount, TargetSent, FrameSent
<1>3. /\ UNCHANGED <<remote, late, time, rx, buffer, pending, wire, nmt, defect, previous_count,
                      original, applied, lost>>
      /\ diag' = Time!NoDiag /\ before' = Time!NoDiag
  BY DEF Time!validateContinuousAdvance, Time!sdo, Time!slave, Time!history
<1>4. /\ diag' \in TimeReading /\ before' \in TimeReading /\ previous_count' \in 0..3
  BY <1>1, <1>3, NoReading DEF TimeTypes
<1>5. wire = <<>>
  BY <1>1, <1>2 DEF TimeTest, TimeFrames
<1>6. Time!Current.value = IF pos = 34 THEN 1 ELSE 0
  <2>1. Time!Current = Time!Op("advance", IF pos = 34 THEN 1 ELSE 0)
    BY <1>1, OtherScripts, TestScript DEF Time!Scripted
  <2>. QED BY <2>1 DEF Time!Op
<1>7. CASE Time!AdvancedNormally(Time!Current.value) /\ Time!Advance({})
  <2>1. /\ pos = 20 => defect # "stopped"
        /\ pos = 26 => rx = before.count /\ (defect # "anylength" \/ lost)
        /\ pos = 34 => defect # "ungated"
    <3>1. Time!AdvancedNormally(IF pos = 34 THEN 1 ELSE 0)
      BY <1>6, <1>7
    <3>. QED BY <1>1, <3>1, AdvanceShows
  <2>2. /\ TimeOuter' /\ pc' = "test" /\ pos' = pos + 1 /\ sub' = 1 /\ host' = host
    BY <1>1, <1>2, <1>3, <1>4, <1>5, <1>7, TestMove
  <2>3. pos' \in {21, 27, 35} /\ (pos' = 21 <=> pos = 20) /\ (pos' = 27 <=> pos = 26) /\ (pos' = 35 <=> pos = 34)
    BY <1>1, <2>2 DEF TAdvance
  <2>4. pos = 26 => pending = Time!None /\ OldSlot(pos, time, host)
    BY <1>1, <2>1 DEF TimeTest, TimeCounts
  <2>5. TimeClock'
    <3>1. CASE pos = 26
      <4>1. OldSlot(pos + 1, time, host)
        BY <2>4, <3>1, SlotsKept
      <4>. QED BY <1>3, <2>2, <4>1 DEF TimeClock
    <3>2. CASE pos # 26
      <4>1. wire' = <<>>
        BY <1>3, <1>5
      <4>. QED BY <1>1, <1>2, <1>3, <2>2, <3>2, <4>1, TestClockKept DEF TimeTest
    <3>. QED BY <3>1, <3>2
  <2>6. TimeFrames'
    <3>1. pending # Time!None => pos = 34 /\ pending = Time!Unwanted
      BY <1>1, <1>2, <2>3, <2>4 DEF TimeTest, TimeFrames, TAdvance
    <3>. QED BY <1>3, <1>5, <2>3, <3>1 DEF TimeFrames
  <2>7. TimeCounts'
    <3>1. ~(sub' >= 2)
      BY <2>2
    <3>. QED BY <2>3, <3>1 DEF TimeCounts
  <2>8. TimeOrder' /\ ~Read'
    <3>1. pos' \notin AfterDiag
      BY <2>3 DEF AfterDiag
    <3>. QED BY <2>2, <3>1, Unread
  <2>9. TimeViews'
    BY <2>3, <2>8 DEF TimeViews
  <2>10. TimeShown'
    <3>1. pos \in {20, 26, 34}
      BY <1>1 DEF TAdvance
    <3>. QED BY <1>1, <1>3, <2>1, <2>2, <3>1 DEF TimeTest, TimeShown
  <2>. QED BY <2>2, <2>5, <2>6, <2>7, <2>8, <2>9, <2>10 DEF TimeInv, TimeOuter, TimeTest
<1>8. CASE Time!Fail({})
  BY <1>1, <1>3, <1>4, <1>8, TestFails
<1>. QED BY <1>7, <1>8 DEF Time!validateContinuousAdvance

\* A clock that waitForAppliedTime() accepts is one that took the time sent.
LEMMA AppliedShows ==
    ASSUME TimeInv, pc = "test", pos \in TApplied,
           Time!forwardTimeDelta(Target(pos), Time!timePosition(diag.ms, diag.days)) <= diag.at + Tolerance
    PROVE  /\ Taken /\ NewSlot(pos, diag.clock, diag.at)
           /\ defect = "stopped" => diag.clock = Target(pos)
<1>1. TimeTypes /\ TimeTest /\ pos \in AfterDiag /\ Read /\ pos \in 1..41
  BY DEF TimeInv, TApplied, AfterDiag, Read, TimeTypes
<1>2. /\ Time!timePosition(diag.ms, diag.days) = diag.clock /\ diag.clock \in 0..(Time!Cycle - 1)
      /\ diag.at \in 0..MaxTicks
  BY <1>1 DEF TimeTest, TimeOrder, Coherent, TimeTypes, TimeReading
<1>3. Time!forwardTimeDelta(Target(pos), diag.clock) <= diag.at + Tolerance
  BY <1>2
<1>4. Target(pos) \in 0..(Time!Cycle - 1)
  BY <1>1, SlotNumbers
<1>5. \/ diag.clock >= Target(pos) /\ diag.clock - Target(pos) <= diag.at + Tolerance
      \/ diag.clock < Target(pos) /\ Time!Cycle - Target(pos) + diag.clock <= diag.at + Tolerance
  <2>1. diag.clock >= Target(pos) \/ diag.clock < Target(pos)
    BY <1>2, <1>4, TimeNumbers
  <2>. QED BY <1>2, <1>3, <1>4, <2>1, ForwardDelta
<1>6. diag.at + Tolerance < 2 * DayLength /\ diag.at <= MaxTicks
  BY <1>2, TimeNumbers
<1>7. ~OldSlot(pos, diag.clock, diag.at)
  <2>1. CASE pos = 6
    BY <1>2, <1>5, <1>6, <2>1, TimeNumbers DEF OldSlot, Within, Base, Slack, Target
  <2>2. CASE pos = 11
    BY <1>2, <1>5, <1>6, <2>2, TimeNumbers DEF OldSlot, Within, Base, Slack, Target
  <2>3. CASE pos = 16
    BY <1>2, <1>5, <1>6, <2>3, TimeNumbers DEF OldSlot, Within, Base, Slack, Target
  <2>4. CASE pos = 41
    BY <1>2, <1>5, <1>6, <2>4, TimeNumbers DEF OldSlot, Within, Base, Slack, Target
  <2>. QED BY <2>1, <2>2, <2>3, <2>4 DEF TApplied
<1>8. ~BadSlot(pos, diag.clock, diag.at)
  <2>1. CASE pos = 41
    BY <1>2, <1>5, <1>6, <2>1, TimeNumbers DEF BadSlot, Within, Target
  <2>. QED BY <2>1 DEF TApplied, BadSlot, UnwantedSent
<1>. QED BY <1>1, <1>7, <1>8 DEF TimeTest, TimeViews

\* The clock has the time that was sent: it is where the next one starts from.
LEMMA AppliedMoves ==
    ASSUME TimeInv, pc = "test", pos \in {6, 11, 16}, Time!Advance({}),
           Taken, NewSlot(pos, diag.clock, diag.at), defect = "stopped" => diag.clock = Target(pos),
           UNCHANGED <<remote, late, time, rx, buffer, pending, wire, nmt, defect, diag, before, previous_count,
                       original, applied, lost>>
    PROVE  TimeInv'
<1>1. TimeTypes /\ TimeTest /\ pos \in 1..41
  BY DEF TimeInv, TimeTypes
<1>2. pos # 41 /\ pos \notin {27, 35} /\ pos \notin TKeep /\ pos \notin TCount
  BY DEF TKeep, TCount
<1>3. /\ diag' \in TimeReading /\ before' \in TimeReading /\ previous_count' \in 0..3
      /\ wire' = <<>>
  BY <1>1 DEF TimeTypes, Taken
<1>4. /\ TimeOuter' /\ pc' = "test" /\ pos' = pos + 1 /\ sub' = 1 /\ host' = host
  BY <1>1, <1>2, <1>3, TestMove
<1>5. pos' \in {7, 12, 17} /\ (pos' = 17 => pos = 16)
  BY <1>4
<1>6. Base(pos') = Target(pos) /\ Slack(pos') = 0
  BY <1>4 DEF Base, Target, Slack
<1>7. OldSlot(pos', time', host') /\ OldSlot(pos', diag'.clock, diag'.at)
  BY <1>4, <1>6 DEF Taken, NewSlot, OldSlot
<1>8. TimeClock' /\ TimeFrames' /\ TimeCounts'
  <2>1. TimeFrames'
    BY <1>5 DEF Taken, TimeFrames
  <2>2. TimeCounts'
    BY <1>5 DEF TimeCounts
  <2>. QED BY <1>7, <2>1, <2>2 DEF TimeClock
<1>9. TimeOrder'
  <2>1. pos' \notin TDiag /\ Coherent(diag)
    BY <1>1, <1>5 DEF TDiag, TimeTest, TimeOrder, AfterDiag
  <2>. QED BY <2>1 DEF TimeOrder
<1>10. TimeViews'
  <2>1. diag'.at <= host'
    BY <1>1, <1>4 DEF TimeTest, TimeViews, Read, AfterDiag
  <2>2. pos' = 17 /\ defect' = "stopped" => time' = Time!Continuous /\ diag'.clock = Time!Continuous
    <3>1. pos = 16 => Target(pos) = Time!Continuous
      BY DEF Target
    <3>. QED BY <1>5, <3>1 DEF Taken
  <2>3. pos' \notin 18..20 \cup 31..34 /\ pos' # 19 /\ (pos' \in 17..20 => pos' = 17)
    BY <1>5
  <2>4. pos' \notin {19, 20} /\ pos' \notin 31..34 /\ pos' \notin {33, 34} /\ ~(pos' >= 18)
    BY <1>5
  <2>. QED BY <1>7, <2>1, <2>2, <2>3, <2>4 DEF TimeViews
<1>11. TimeShown'
  <2>1. CASE pos = 6
    BY <1>1, <1>4, <2>1 DEF TimeTest, TimeShown, Taken, Target
  <2>2. CASE pos = 11
    BY <1>1, <1>4, <2>2 DEF TimeTest, TimeShown, Taken, Target
  <2>3. CASE pos = 16
    BY <1>1, <1>4, <2>3 DEF TimeTest, TimeShown, Taken, Target
  <2>. QED BY <2>1, <2>2, <2>3
<1>. QED BY <1>4, <1>8, <1>9, <1>10, <1>11 DEF TimeInv, TimeOuter, TimeTest

\* The last operation of the test: all the evidence is there.
LEMMA TestEnds ==
    ASSUME TimeInv, pc = "test", pos = 41, Time!Advance({}), Taken,
           UNCHANGED <<remote, late, time, rx, buffer, pending, wire, nmt, defect, diag, before, previous_count,
                       original, applied, lost>>
    PROVE  TimeInv'
<1>1. TimeTypes /\ TimeSafe /\ TimeBuffer /\ TimeProof /\ TimeTest
  BY DEF TimeInv
<1>2. /\ pc \in Time!Scripted /\ Len(Time!Script) = 41
      /\ Time!Current.kind \notin {"count", "keep", "reset"}
  <2>1. pc \in Time!Scripted
    BY DEF Time!Scripted
  <2>2. Len(Time!Script) = 41 /\ Time!Current = Time!Op("applied", Target(pos))
    BY <1>1, <2>1, OtherScripts, TestScript DEF TApplied
  <2>. QED BY <2>1, <2>2 DEF Time!Op
<1>3. /\ sub' = 1 /\ attempt' = 1 /\ result' = result /\ pc' = "cleanup" /\ pos' = 1 /\ host' = host
  BY <1>1, <1>2, TimeAdvance DEF Time!Completed
<1>4. flags' = flags
  <2>1. flags' \in [Time!FlagNames -> BOOLEAN] /\ flags \in [Time!FlagNames -> BOOLEAN]
    BY <1>1, <1>2, TimeAdvance DEF TimeTypes
  <2>2. \A g \in Time!FlagNames : flags'[g] <=> flags[g]
    BY <1>1, <1>2, TimeAdvance
  <2>3. \A g \in Time!FlagNames : flags'[g] = flags[g]
    BY <2>1, <2>2
  <2>. QED BY <2>1, <2>3
<1>5. TimeEvidence
  <2>1. Target(pos) = Time!Again
    BY DEF Target
  <2>2. /\ Time!LateInDay \in applied /\ Time!LastDay \in applied /\ Time!Continuous \in applied
        /\ Time!Again \in applied
        /\ defect # "stopped" /\ (defect # "anylength" \/ lost) /\ defect # "ungated"
    BY <1>1, <2>1 DEF TimeTest, TimeShown, Taken
  <2>3. defect # "noapply" /\ defect \in TimeDefects
    BY <1>1, <2>2 DEF TimeProof, TimeTypes
  <2>. QED BY <2>2, <2>3 DEF TimeEvidence, TimeDefects
<1>6. TimeTypes'
  <2>1. sub' \in 1..4 /\ attempt' \in 1..RetryCount /\ pos' \in 1..41
    BY <1>3, Constants
  <2>. QED BY <1>1, <1>3, <1>4, <2>1 DEF TimeTypes, Time!Scripted, TimePlaces
<1>7. TimeSafe'
  <2>1. late = <<>> /\ Len(late) <= 1
    BY <1>1 DEF TimeSafe
  <2>. QED BY <1>1, <1>3, <1>4, <2>1 DEF TimeSafe
<1>8. TimeBuffer'
  <2>1. flags.cob_id_modification_attempted
    BY <1>1 DEF TimeBuffer
  <2>. QED BY <1>1, <1>3, <1>4, <2>1 DEF TimeBuffer
<1>9. TimeProof'
  BY <1>1, <1>3, <1>5 DEF TimeProof, TimeEvidence
<1>. QED BY <1>3, <1>6, <1>7, <1>8, <1>9 DEF TimeInv

\* Another snapshot.
LEMMA AppliedAgain ==
    ASSUME TimeInv, pc = "test", pos \in TApplied,
           pos' = pos - 1, sub' = 1, attempt' = 1, UNCHANGED <<pc, result, flags, host>>,
           UNCHANGED <<remote, late, time, rx, buffer, pending, wire, nmt, defect, diag, before, previous_count,
                       original, applied, lost>>
    PROVE  TimeInv'
<1>1. TimeTypes /\ TimeSafe /\ TimeBuffer /\ TimeProof /\ TimeTest
  BY DEF TimeInv
<1>2. /\ pos' \in {5, 10, 15, 40} /\ pos' \in 1..41 /\ pos' \notin AfterDiag
      /\ pos \notin FrameSent
      /\ (pos' \in 28..35 <=> pos \in 28..35) /\ (pos' >= 28 <=> pos >= 28)
      /\ pos' \in {24} \cup 32..41 <=> pos \in {24} \cup 32..41
  BY DEF TApplied, AfterDiag, FrameSent
<1>3. /\ Base(pos') = Base(pos) /\ Slack(pos') = Slack(pos) /\ Target(pos') = Target(pos)
      /\ pos' \in TargetSent /\ (pos \in UnwantedSent => pos' \in UnwantedSent) /\ (pos' >= 38 <=> pos >= 38)
  <2>1. Base(pos') = Base(pos) /\ Slack(pos') = Slack(pos) /\ Target(pos') = Target(pos)
    BY DEF Base, Slack, Target, TApplied
  <2>2. pos' \in TargetSent /\ (pos \in UnwantedSent => pos' \in UnwantedSent) /\ (pos' >= 38 <=> pos >= 38)
    BY DEF TargetSent, UnwantedSent, TApplied
  <2>. QED BY <2>1, <2>2
<1>4. TimeTypes'
  <2>1. sub' \in 1..4 /\ attempt' \in 1..RetryCount
    BY Constants
  <2>. QED BY <1>1, <1>2, <2>1 DEF TimeTypes, Time!Scripted
<1>5. TimeSafe' /\ TimeBuffer' /\ TimeProof'
  <2>1. TimeSafe' /\ TimeBuffer'
    BY <1>1, <1>2 DEF TimeSafe, TimeBuffer
  <2>2. TimeProof'
    BY <1>1 DEF TimeProof, TimeEvidence
  <2>. QED BY <2>1, <2>2
<1>6. TimeClock'
  <2>1. OldSlot(pos, time, host) => OldSlot(pos', time', host')
    BY <1>3 DEF OldSlot
  <2>2. BadSlot(pos, time, host) => BadSlot(pos', time', host')
    <3>1. CASE pos >= 38
      BY <1>3, <3>1 DEF BadSlot
    <3>2. CASE ~(pos >= 38)
      BY <1>3, <3>2 DEF BadSlot
    <3>. QED BY <3>1, <3>2
  <2>3. NewSlot(pos, time, host) => NewSlot(pos', time', host')
    BY <1>3 DEF NewSlot
  <2>4. Taken => Taken'
    BY <1>3, <2>3 DEF Taken
  <2>5. Misled => Misled'
    <3>1. pos' \notin 32..34 /\ (pos' < 38 => pos < 38)
      BY <1>2, <1>3
    <3>. QED BY <1>3, <2>2, <3>1 DEF Misled
  <2>. QED BY <1>1, <2>1, <2>4, <2>5 DEF TimeTest, TimeClock
<1>7. TimeFrames'
  <2>1. pos' \notin 33..34
    BY <1>2
  <2>. QED BY <1>1, <1>2, <1>3, <2>1 DEF TimeTest, TimeFrames
<1>8. TimeCounts'
  <2>1. /\ pos' \notin {21, 25, 29, 33} /\ pos' \notin {22, 26, 30, 34} /\ pos' \notin {23, 31}
        /\ pos' \notin {24, 32} /\ pos' \notin 24..26 /\ pos' \notin 32..34
    BY <1>2
  <2>. QED BY <2>1 DEF TimeCounts
<1>9. TimeOrder' /\ ~Read'
  BY <1>2, Unread
<1>10. TimeViews'
  BY <1>2, <1>9 DEF TimeViews
<1>11. TimeShown'
  BY <1>1 DEF TimeTest, TimeShown, TApplied
<1>. QED BY <1>4, <1>5, <1>6, <1>7, <1>8, <1>9, <1>10, <1>11 DEF TimeInv, TimeTest

\* The time that was sent must show on the clock.
LEMMA Time_waitForAppliedTime ==
    ASSUME TimeInv, Time!waitForAppliedTime
    PROVE  TimeInv'
<1>1. /\ TimeTypes /\ pc = "test" /\ pos \in TApplied
  BY WhereAt DEF TimeInv, Time!waitForAppliedTime
<1>2. /\ UNCHANGED <<remote, late, time, rx, buffer, pending, wire, nmt, defect, diag, before, previous_count,
                      original, applied, lost>>
  BY DEF Time!waitForAppliedTime, Time!sdo, Time!slave, Time!history
<1>3. /\ diag' \in TimeReading /\ before' \in TimeReading /\ previous_count' \in 0..3
  BY <1>1, <1>2 DEF TimeTypes
<1>4. Time!Current.value = Target(pos)
  <2>1. Time!Current = Time!Op("applied", Target(pos))
    BY <1>1, OtherScripts, TestScript DEF Time!Scripted
  <2>. QED BY <2>1 DEF Time!Op
<1>. DEFINE elapsed == Time!forwardTimeDelta(Time!Current.value, Time!timePosition(diag.ms, diag.days))
<1>5. CASE elapsed <= diag.at + Tolerance /\ Time!Advance({})
  <2>1. /\ Taken /\ NewSlot(pos, diag.clock, diag.at)
        /\ defect = "stopped" => diag.clock = Target(pos)
    BY <1>1, <1>4, <1>5, AppliedShows
  <2>2. CASE pos = 41
    BY <1>1, <1>2, <1>5, <2>1, <2>2, TestEnds
  <2>3. CASE pos # 41
    <3>1. pos \in {6, 11, 16}
      BY <1>1, <2>3 DEF TApplied
    <3>. QED BY <1>1, <1>2, <1>5, <2>1, <3>1, AppliedMoves
  <2>. QED BY <2>2, <2>3
<1>6. CASE pos' = pos - 1 /\ sub' = 1 /\ attempt' = 1 /\ UNCHANGED <<pc, result, flags, host>>
  BY <1>1, <1>2, <1>6, AppliedAgain
<1>7. CASE Time!Fail({})
  BY <1>1, <1>2, <1>3, <1>7, TestFails
<1>. QED BY <1>5, <1>6, <1>7 DEF Time!waitForAppliedTime

-----------------------------------------------------------------------------
(* TimeProcess: readTimeDiagnostic().                                      *)

\* Days that follow one another both ways are the same day.
LEMMA OrderBoth ==
    ASSUME NEW p, NEW d \in Nat, NEW e \in Nat, DayOrder(p, d, e), DayOrder(p, e, d)
    PROVE  d = e
  BY Constants DEF DayOrder

\* The places of a snapshot of the test.
LEMMA DiagPlaces ==
    ASSUME pos \in TDiag
    PROVE  /\ pos \in 1..40 /\ pos \notin {2, 6, 7, 11, 12, 16, 17, 22, 26, 30, 37}
           /\ pos # 41 /\ pos \notin {27, 35} /\ pos \notin TKeep /\ pos \notin TCount
           /\ pos \notin AfterDiag /\ pos \notin FrameSent
           /\ pos \notin {22, 26, 30, 34} /\ pos \notin {23, 31} /\ pos \notin {24, 32}
           /\ (pos \in 24..26 => pos = 25) /\ (pos \in 32..34 => pos = 33)
  BY DEF TDiag, TKeep, TCount, AfterDiag, FrameSent

\* A read within a snapshot of the test.
LEMMA DiagKeeps ==
    ASSUME TimeInv, pc = "test", pos \in TDiag,
           sub' \in 1..4, attempt' \in 1..RetryCount, diag' \in TimeReading,
           UNCHANGED <<pc, pos, result, flags, host, remote, late, time, rx, buffer, pending, wire, nmt, defect,
                       before, previous_count, original, applied, lost>>,
           pos \in {21, 25, 29, 33} /\ sub' >= 2 => diag'.count = rx
    PROVE  /\ TimeOuter' /\ TimeClock' /\ TimeFrames' /\ TimeCounts' /\ TimeShown'
           /\ sub' # 4 => ~Read' /\ TimeViews'
<1>1. TimeTypes /\ TimeSafe /\ TimeBuffer /\ TimeProof /\ TimeTest
  BY DEF TimeInv
<1>2. TimeTypes'
  BY <1>1 DEF TimeTypes
<1>3. TimeSafe' /\ TimeBuffer' /\ TimeProof'
  BY <1>1 DEF TimeSafe, TimeBuffer, TimeProof, TimeEvidence
<1>4. TimeClock'
  BY <1>1 DEF TimeTest, TimeClock, Taken, Misled
<1>5. TimeFrames' /\ TimeShown'
  BY <1>1 DEF TimeTest, TimeFrames, TimeShown
<1>6. TimeCounts'
  BY <1>1, DiagPlaces DEF TimeTest, TimeCounts
<1>7. sub' # 4 => ~Read' /\ TimeViews'
  <2>1. sub' # 4 => ~Read'
    BY DiagPlaces DEF Read
  <2>. QED BY <1>1, <2>1 DEF TimeTest, TimeViews
<1>. QED BY <1>2, <1>3, <1>4, <1>5, <1>6, <1>7 DEF TimeOuter

\* The milliseconds are read: the clock at that moment.
LEMMA DiagClockRead ==
    ASSUME TimeInv, pc = "test", pos \in TDiag, sub = 3, sub' = 4, attempt' = attempt,
           diag' = [diag EXCEPT !.ms = Time!MsNow, !.at = host, !.clock = time],
           UNCHANGED <<pc, pos, result, flags, host, remote, late, time, rx, buffer, pending, wire, nmt, defect,
                       before, previous_count, original, applied, lost>>,
           diag' \in TimeReading, diag'.count = diag.count
    PROVE  TimeInv'
<1>1. TimeTypes /\ TimeTest /\ diag \in TimeReading /\ time \in 0..(Time!Cycle - 1) /\ host \in 0..MaxTicks
  BY DEF TimeInv, TimeTypes
<1>2. /\ TimeOuter' /\ TimeClock' /\ TimeFrames' /\ TimeCounts' /\ TimeShown'
  <2>1. sub' \in 1..4 /\ attempt' \in 1..RetryCount
    BY <1>1 DEF TimeTypes
  <2>2. pos \in {21, 25, 29, 33} => diag.count = rx
    BY <1>1 DEF TimeTest, TimeCounts
  <2>. QED BY <2>1, <2>2, DiagKeeps
<1>3. /\ diag'.ms = time % DayLength /\ diag'.at = host /\ diag'.clock = time /\ diag'.days = diag.days
  BY <1>1 DEF TimeReading, Time!MsNow
<1>4. TimeOrder'
  <2>1. DayOrder(pos, diag.days, DayOf(time))
    BY <1>1 DEF TimeTest, TimeOrder
  <2>2. DayOrder(pos, DayOf(time), DayOf(time))
    BY <1>1, OrderSelf
  <2>. QED BY <1>3, <2>1, <2>2, DiagPlaces DEF TimeOrder
<1>5. TimeViews'
  <2>1. diag'.at <= host'
    BY <1>1, <1>3
  <2>2. \/ OldSlot(pos', diag'.clock, diag'.at)
        \/ BadSlot(pos', diag'.clock, diag'.at)
        \/ /\ NewSlot(pos', diag'.clock, diag'.at) /\ Taken'
           /\ defect' = "stopped" => diag'.clock = Target(pos')
    BY <1>2, <1>3 DEF TimeClock, Misled, Taken
  <2>3. pos' = 19 => host' >= Wait /\ diag'.at >= Wait
    BY <1>1, <1>3 DEF TimeTest, TimeViews
  <2>4. pos' # 20 /\ pos' # 34
    BY DiagPlaces DEF TDiag
  <2>5. pos' \in 17..20 /\ defect' = "stopped" =>
          /\ time' = Time!Continuous /\ diag'.clock = Time!Continuous
          /\ pos' >= 18 => before'.clock = Time!Continuous
    BY <1>1, <1>3 DEF TimeTest, TimeViews
  <2>6. pos' = 33 /\ defect' = "ungated" /\ rx' # before'.count => BadSlot(pos', diag'.clock, diag'.at)
    <3>1. ASSUME pos = 33, defect = "ungated", rx # before.count PROVE BadSlot(pos, time, host)
      <4>1. pos \in 32..34 /\ pos \in 33..34
        BY <3>1
      <4>2. pending = Time!None
        BY <1>1, <3>1, <4>1 DEF TimeTest, TimeFrames
      <4>3. pending # Time!Unwanted
        BY <4>2, TimeNumbers
      <4>. QED BY <1>1, <3>1, <4>1, <4>3 DEF TimeTest, TimeCounts
    <3>. QED BY <1>3, <3>1
  <2>7. /\ pos' \in 18..20 \cup 31..34 => Coherent(before')
        /\ pos' \in 31..34 => /\ Time!Continuous <= before'.clock
                              /\ before'.clock <= Time!Continuous + 3 * MaxTicks
    BY <1>1 DEF TimeTest, TimeViews
  <2>. QED BY <2>1, <2>2, <2>3, <2>4, <2>5, <2>6, <2>7 DEF TimeViews
<1>. QED BY <1>2, <1>4, <1>5 DEF TimeInv, TimeOuter, TimeTest

\* A snapshot that is accepted.
LEMMA DiagAccepted ==
    ASSUME TimeInv, pc = "test", pos \in TDiag, sub = 4, Time!Same, Time!Advance({}), wire = <<>>,
           UNCHANGED <<remote, late, time, rx, buffer, pending, wire, nmt, defect, diag,
                       before, previous_count, original, applied, lost>>
    PROVE  TimeInv'
<1>1. TimeTypes /\ TimeTest /\ diag \in TimeReading /\ time \in 0..(Time!Cycle - 1)
  BY DEF TimeInv, TimeTypes
<1>2. /\ diag' \in TimeReading /\ before' \in TimeReading /\ previous_count' \in 0..3 /\ wire' = <<>>
  BY <1>1 DEF TimeTypes
<1>3. /\ TimeOuter' /\ pc' = "test" /\ pos' = pos + 1 /\ sub' = 1 /\ host' = host
  BY <1>2, DiagPlaces, TestMove
<1>4. TimeClock'
  BY <1>1, <1>2, <1>3, DiagPlaces, TestClockKept DEF TimeTest
<1>5. /\ pos' \in {2, 6, 11, 16, 20, 22, 26, 30, 34, 41} /\ (pos' \in {24} \cup 32..41 <=> pos \in {24} \cup 32..41)
      /\ (pos' \in 33..34 <=> pos \in 33..34)
  BY <1>3 DEF TDiag
<1>6. TimeFrames'
  <2>1. pos \in TargetSent => pos' \in TargetSent /\ Target(pos') = Target(pos)
    BY <1>3, DiagPlaces DEF TargetSent, Target
  <2>. QED BY <1>1, <1>2, <1>5, <2>1 DEF TimeTest, TimeFrames
<1>7. /\ OldSlot(pos, time, host) => OldSlot(pos', time', host')
      /\ BadSlot(pos, time, host) => BadSlot(pos', time', host')
      /\ OldSlot(pos, diag.clock, diag.at) => OldSlot(pos', diag.clock, diag.at)
      /\ BadSlot(pos, diag.clock, diag.at) => BadSlot(pos', diag.clock, diag.at)
      /\ NewSlot(pos, diag.clock, diag.at) => NewSlot(pos', diag.clock, diag.at) /\ Target(pos') = Target(pos)
  BY <1>3, DiagPlaces, SlotsKept
<1>8. Taken => Taken'
  <2>1. Taken => NewSlot(pos', time', host') /\ Target(pos') = Target(pos)
    BY <1>3, DiagPlaces, SlotsKept DEF Taken
  <2>. QED BY <2>1 DEF Taken
<1>9. TimeCounts'
  <2>1. diag'.count = rx'
    BY DEF Time!Same
  <2>2. /\ pos' \notin {23, 31} /\ pos' \notin {24, 32}
        /\ (pos' \in 24..26 => pos \in 24..26) /\ (pos' \in 32..34 => pos \in 32..34)
    BY <1>3 DEF TDiag
  <2>. QED BY <1>1, <1>7, <2>1, <2>2 DEF TimeTest, TimeCounts
<1>10. TimeOrder'
  <2>1. /\ DayOrder(pos, diag.days, DayOf(diag.clock))
        /\ DayOrder(pos, DayOf(diag.clock), diag.days)
        /\ diag.ms = diag.clock % DayLength
    BY <1>1 DEF TimeTest, TimeOrder, Time!Same, Time!DayNow, DayOf
  <2>2. diag.clock \in Nat /\ diag.days \in Nat
    BY <1>1, TimeNumbers DEF TimeReading
  <2>3. DayOf(diag.clock) \in Nat /\ Time!timePosition(diag.clock % DayLength, DayOf(diag.clock)) = diag.clock
    BY <2>2, DayParts
  <2>4. DayOf(diag.clock) = diag.days
    BY <2>1, <2>2, <2>3, OrderBoth
  <2>5. Coherent(diag)
    BY <2>1, <2>3, <2>4 DEF Coherent
  <2>6. pos' \notin TDiag
    BY <1>5 DEF TDiag
  <2>. QED BY <2>5, <2>6 DEF TimeOrder
<1>11. TimeViews'
  <2>1. Read /\ TimeViews
    BY <1>1 DEF Read, TimeTest
  <2>2. /\ diag'.at <= host'
        /\ \/ OldSlot(pos', diag'.clock, diag'.at)
           \/ BadSlot(pos', diag'.clock, diag'.at)
           \/ /\ NewSlot(pos', diag'.clock, diag'.at) /\ Taken'
              /\ defect' = "stopped" => diag'.clock = Target(pos')
    BY <1>3, <1>7, <1>8, <2>1 DEF TimeViews
  <2>3. pos' # 19 /\ (pos' \in {19, 20} => pos \in {19, 20}) /\ (pos' \in 17..20 => pos \in 17..20 /\ pos >= 18)
        /\ (pos' \in 18..20 \cup 31..34 => pos \in 18..20 \cup 31..34)
    <3>1. pos' # 19 /\ (pos' \in {19, 20} => pos \in {19, 20})
      BY <1>3 DEF TDiag
    <3>2. pos' \in 17..20 => pos \in 17..20 /\ pos >= 18
      BY <1>3 DEF TDiag
    <3>3. pos' \in 18..20 \cup 31..34 => pos \in 18..20 \cup 31..34
      BY <1>3 DEF TDiag
    <3>. QED BY <3>1, <3>2, <3>3
  <2>4. (pos' \in 31..34 => pos \in 31..34) /\ (pos' \in {33, 34} => pos \in {33, 34})
    BY <1>3 DEF TDiag
  <2>5. pos' \in {19, 20} => diag'.at >= Wait
    BY <2>1, <2>3 DEF TimeViews
  <2>6. pos' \in 17..20 /\ defect' = "stopped" =>
          /\ time' = Time!Continuous /\ diag'.clock = Time!Continuous /\ before'.clock = Time!Continuous
    BY <2>1, <2>3 DEF TimeViews
  <2>7. /\ pos' \in 18..20 \cup 31..34 => Coherent(before')
        /\ pos' \in 31..34 => /\ Time!Continuous <= before'.clock
                              /\ before'.clock <= Time!Continuous + 3 * MaxTicks
    BY <2>1, <2>3, <2>4 DEF TimeViews
  <2>8. pos' \in {33, 34} /\ defect' = "ungated" /\ rx' # before'.count => BadSlot(pos', diag'.clock, diag'.at)
    BY <1>7, <2>1, <2>4 DEF TimeViews
  <2>. QED BY <2>2, <2>3, <2>5, <2>6, <2>7, <2>8 DEF TimeViews
<1>12. TimeShown'
  BY <1>1, <1>3 DEF TimeTest, TimeShown, TDiag
<1>. QED BY <1>3, <1>4, <1>6, <1>9, <1>10, <1>11, <1>12 DEF TimeInv, TimeOuter, TimeTest

\* The flags of an operation that raises none.
LEMMA FlagsKept ==
    ASSUME TimeTypes, pc \in Time!Scripted, Time!Advance({}), Time!Current.kind # "reset",
           pc \notin {"restore", "recover"} \/ pos # Len(Time!Script)
    PROVE  flags' = flags
<1>1. flags' \in [Time!FlagNames -> BOOLEAN] /\ flags \in [Time!FlagNames -> BOOLEAN]
  BY TimeAdvance DEF TimeTypes
<1>2. \A g \in Time!FlagNames : flags'[g] <=> flags[g]
  BY TimeAdvance
<1>3. \A g \in Time!FlagNames : flags'[g] = flags[g]
  BY <1>1, <1>2
<1>. QED BY <1>1, <1>3

\* A failure before 0x1012 is known: nothing was changed.
LEMMA CaptureFails ==
    ASSUME TimeInv, pc = "capture", NEW set, Time!Fail(set), set \subseteq {"completion_wait_timed_out"},
           UNCHANGED <<remote, late, time, rx, buffer, pending, wire, nmt, defect, original, applied, lost,
                       before, previous_count>>,
           diag' \in TimeReading
    PROVE  TimeInv'
<1>1. /\ TimeTypes /\ TimeSafe /\ TimeBuffer /\ TimeProof
  BY DEF TimeInv
<1>2. /\ sub' = 1 /\ attempt' = 1 /\ result' = 1 /\ host' = host /\ pos' = 1 /\ pc' = "done"
      /\ flags' \in [Time!FlagNames -> BOOLEAN]
      /\ \A g \in Time!FlagNames : flags'[g] <=> flags[g] \/ g \in set
  BY <1>1, TimeFail DEF Time!Broken
<1>3. ~flags'["restoration_verified"]
  <2>1. flags'["restoration_verified"] <=> flags["restoration_verified"]
    BY <1>2 DEF Time!FlagNames
  <2>. QED BY <1>1, <2>1 DEF TimeSafe
<1>4. TimeTypes'
  <2>1. sub' \in 1..4 /\ attempt' \in 1..RetryCount /\ pos' \in 1..41 /\ result' \in {0, 1}
    BY <1>2, Constants
  <2>. QED BY <1>1, <1>2, <2>1 DEF TimeTypes, Time!Scripted, TimePlaces
<1>5. TimeSafe'
  BY <1>2, <1>3 DEF TimeSafe
<1>6. TimeBuffer' /\ TimeProof'
  BY <1>1, <1>2 DEF TimeBuffer, TimeProof
<1>. QED BY <1>2, <1>4, <1>5, <1>6 DEF TimeInv

\* The first snapshot, before the test.
LEMMA CaptureReads ==
    ASSUME TimeInv, pc = "capture", pc' = pc, pos' \in {1, 2}, UNCHANGED <<flags, result, host>>,
           sub' \in 1..4, attempt' \in 1..RetryCount, diag' \in TimeReading,
           UNCHANGED <<remote, late, time, rx, buffer, pending, wire, nmt, defect, original, applied, lost,
                       before, previous_count>>
    PROVE  TimeInv'
<1>1. /\ TimeTypes /\ TimeSafe /\ TimeBuffer /\ TimeProof
  BY DEF TimeInv
<1>2. TimeTypes'
  <2>1. pos' \in 1..41 /\ pos' <= 2
    OBVIOUS
  <2>. QED BY <1>1, <2>1 DEF TimeTypes, Time!Scripted
<1>3. TimeSafe' /\ TimeBuffer' /\ TimeProof'
  BY <1>1 DEF TimeSafe, TimeBuffer, TimeProof
<1>. QED BY <1>2, <1>3 DEF TimeInv

\* A snapshot step of the test or before it.
LEMMA Time_DiagnosticStep ==
    ASSUME TimeInv, Time!DiagnosticStep
    PROVE  TimeInv'
<1>1. TimeTypes /\ ((pc = "capture" /\ pos = 1) \/ (pc = "test" /\ pos \in TDiag))
  BY WhereAt DEF TimeInv, Time!DiagnosticStep
<1>2. /\ UNCHANGED <<remote, late, time, rx, buffer, pending, wire, nmt, defect, before, previous_count,
                      original, applied, lost>>
      /\ Time!Abandoned \subseteq {"completion_wait_timed_out"}
      /\ reply'.class = "SUCCESS" => wire = <<>>
  BY TestRead DEF Time!DiagnosticStep, Time!ReadDiagnostic, Time!InOrder, Time!slave, Time!history
<1>3. /\ diag \in TimeReading /\ before' \in TimeReading /\ previous_count' \in 0..3 /\ rx \in 0..3
      /\ time \in 0..(Time!Cycle - 1) /\ host \in 0..MaxTicks /\ sub \in 1..4 /\ attempt \in 1..RetryCount
  BY <1>1, <1>2 DEF TimeTypes
<1>4. time \div DayLength \in Nat /\ time % DayLength \in Nat
  <2>1. time \in Nat
    BY <1>3, TimeNumbers
  <2>. QED BY <2>1, DayParts DEF DayOf
<1>5. pc \in Time!Scripted
  BY DEF Time!DiagnosticStep, Time!At
<1>6. CASE Time!Fail({}) /\ UNCHANGED diag
  BY <1>1, <1>2, <1>3, <1>6, TestFails, CaptureFails
<1>7. CASE Time!ReadFails /\ UNCHANGED diag
  BY <1>1, <1>2, <1>3, <1>7, TestFails, CaptureFails DEF Time!ReadFails
<1>8. CASE sub = 1 /\ Time!NextRead /\ diag' = [Time!NoDiag EXCEPT !.count = rx]
  <2>1. sub' = 2 /\ UNCHANGED <<attempt, host, pc, pos, result, flags>>
    BY <1>8 DEF Time!NextRead, Time!control
  <2>2. diag' \in TimeReading /\ diag'.count = rx
    BY <1>3, <1>8, NoReading DEF TimeReading
  <2>3. sub' \in 1..4 /\ attempt' \in 1..RetryCount
    BY <1>3, <2>1
  <2>4. CASE pc = "capture"
    BY <1>1, <1>2, <2>1, <2>2, <2>3, <2>4, CaptureReads
  <2>5. CASE pc = "test"
    <3>1. pos \in TDiag
      BY <1>1, <2>5
    <3>2. /\ TimeOuter' /\ TimeClock' /\ TimeFrames' /\ TimeCounts' /\ TimeShown' /\ TimeViews'
      BY <1>2, <2>1, <2>2, <2>3, <2>5, <3>1, DiagKeeps
    <3>3. TimeOrder'
      BY <2>1, <3>1, DiagPlaces DEF TimeOrder
    <3>. QED BY <3>2, <3>3 DEF TimeInv, TimeOuter, TimeTest
  <2>. QED BY <1>1, <2>4, <2>5
<1>9. CASE sub = 2 /\ Time!NextRead /\ diag' = [diag EXCEPT !.days = Time!DayNow]
  <2>1. sub' = 3 /\ UNCHANGED <<attempt, host, pc, pos, result, flags>>
    BY <1>9 DEF Time!NextRead, Time!control
  <2>2. diag' \in TimeReading /\ diag'.count = diag.count /\ diag'.days = DayOf(time)
    BY <1>3, <1>4, <1>9 DEF TimeReading, Time!DayNow, DayOf
  <2>3. sub' \in 1..4 /\ attempt' \in 1..RetryCount
    BY <1>3, <2>1
  <2>4. CASE pc = "capture"
    BY <1>1, <1>2, <2>1, <2>2, <2>3, <2>4, CaptureReads
  <2>5. CASE pc = "test"
    <3>1. pos \in TDiag
      BY <1>1, <2>5
    <3>4. pos \in {21, 25, 29, 33} => diag'.count = rx
      BY <1>9, <2>2, <2>5 DEF TimeInv, TimeTest, TimeCounts
    <3>2. /\ TimeOuter' /\ TimeClock' /\ TimeFrames' /\ TimeCounts' /\ TimeShown' /\ TimeViews'
      BY <1>2, <2>1, <2>2, <2>3, <2>5, <3>1, <3>4, DiagKeeps
    <3>3. TimeOrder'
      <4>1. DayOrder(pos, diag'.days, DayOf(time'))
        BY <1>2, <1>3, <2>2, OrderSelf
      <4>. QED BY <2>1, <3>1, <4>1, DiagPlaces DEF TimeOrder
    <3>. QED BY <3>2, <3>3 DEF TimeInv, TimeOuter, TimeTest
  <2>. QED BY <1>1, <2>4, <2>5
<1>10. CASE sub = 3 /\ Time!NextRead /\ diag' = [diag EXCEPT !.ms = Time!MsNow, !.at = host, !.clock = time]
  <2>1. sub' = 4 /\ UNCHANGED <<attempt, host, pc, pos, result, flags>>
    BY <1>10 DEF Time!NextRead, Time!control
  <2>2. diag' \in TimeReading /\ diag'.count = diag.count
    BY <1>3, <1>4, <1>10 DEF TimeReading, Time!MsNow
  <2>3. sub' \in 1..4 /\ attempt' \in 1..RetryCount
    BY <1>3, <2>1
  <2>4. CASE pc = "capture"
    BY <1>1, <1>2, <2>1, <2>2, <2>3, <2>4, CaptureReads
  <2>5. CASE pc = "test"
    BY <1>1, <1>2, <1>10, <2>1, <2>2, <2>5, DiagClockRead
  <2>. QED BY <1>1, <2>4, <2>5
<1>11. CASE reply'.class = "SUCCESS" /\ sub = 4 /\ Time!Same /\ Time!Advance({}) /\ UNCHANGED diag
  <2>1. CASE pc = "capture"
    <3>1. Len(Time!Script) = 2 /\ Time!Current = Time!Diag
      BY <1>1, <1>5, <2>1, OtherScripts
    <3>2. Time!Current.kind = "diag"
      BY <3>1 DEF Time!Diag, Time!Op
    <3>3. flags' = flags
      BY <1>1, <1>5, <1>11, <2>1, <3>2, FlagsKept
    <3>4. /\ sub' = 1 /\ attempt' = 1 /\ result' = result /\ host' = host /\ pc' = pc /\ pos' = 2
      BY <1>1, <1>5, <1>11, <2>1, <3>1, <3>2, TimeAdvance
    <3>5. sub' \in 1..4 /\ attempt' \in 1..RetryCount /\ diag' \in TimeReading
      BY <1>3, <1>11, <3>4, Constants
    <3>. QED BY <1>2, <2>1, <3>3, <3>4, <3>5, CaptureReads
  <2>2. CASE pc = "test"
    BY <1>1, <1>2, <1>11, <2>2, DiagAccepted
  <2>. QED BY <1>1, <2>1, <2>2
<1>12. CASE attempt < RetryCount /\ sub' = 1 /\ attempt' = attempt + 1 /\ UNCHANGED <<polls, host, Time!control>> /\ UNCHANGED diag
  <2>1. UNCHANGED <<host, pc, pos, result, flags>> /\ sub' \in 1..4 /\ attempt' \in 1..RetryCount /\ diag' \in TimeReading
    BY <1>3, <1>12, Constants DEF Time!control
  <2>2. CASE pc = "capture"
    BY <1>1, <1>2, <2>1, <2>2, CaptureReads
  <2>3. CASE pc = "test"
    <3>1. pos \in TDiag /\ ~(sub' >= 2)
      BY <1>1, <1>12, <2>3
    <3>2. /\ TimeOuter' /\ TimeClock' /\ TimeFrames' /\ TimeCounts' /\ TimeShown' /\ TimeViews'
      BY <1>2, <1>12, <2>1, <2>3, <3>1, DiagKeeps
    <3>3. TimeOrder'
      BY <1>12, <2>1, <3>1, DiagPlaces DEF TimeOrder
    <3>. QED BY <3>2, <3>3 DEF TimeInv, TimeOuter, TimeTest
  <2>. QED BY <1>1, <2>2, <2>3
<1>. QED BY <1>6, <1>7, <1>8, <1>9, <1>10, <1>11, <1>12 DEF Time!DiagnosticStep

-----------------------------------------------------------------------------
(* TimeProcess: the phases around the test.                                *)

\* What a write of 0x1012 can do; one that may still happen is reported.
LEMMA CobWritten ==
    ASSUME TimeTypes, NEW v \in TimeStates, Time!Sdo!SdoWrite(Time!Cob, v), Len(late) <= 1
    PROVE  /\ remote' \in [Time!Objects -> TimeStates]
           /\ late' \in Seq({Time!Cob} \X TimeStates) /\ Len(late') <= 2
           /\ reply'.class = "SUCCESS" => late' = <<>> /\ remote'[Time!Cob] = v
           /\ late = <<>> => Len(late') <= 1
           /\ late = <<>> /\ late' # <<>> => Time!Abandoned = {"completion_wait_timed_out"}
           /\ Time!Abandoned \subseteq {"completion_wait_timed_out"}
<1>1. remote \in [Time!Objects -> TimeStates] /\ late \in Seq({Time!Cob} \X TimeStates)
  BY DEF TimeTypes
<1>. DEFINE w == [remote EXCEPT ![Time!Cob] = v]
<1>2. w \in [Time!Objects -> TimeStates] /\ w[Time!Cob] = v
  BY <1>1 DEF Time!Objects
<1>3. /\ Append(late, <<Time!Cob, v>>) \in Seq({Time!Cob} \X TimeStates)
      /\ Len(Append(late, <<Time!Cob, v>>)) = Len(late) + 1 /\ Len(late) \in Nat
  BY <1>1
<1>4. late = <<>> => Len(late) = 0
  OBVIOUS
<1>5. Time!Abandoned \subseteq {"completion_wait_timed_out"}
  BY DEF Time!Abandoned
<1>6. CASE remote' \in {remote, w} /\ UNCHANGED late /\ (reply'.class = "SUCCESS" => late = <<>> /\ remote' = w)
  BY <1>1, <1>2, <1>4, <1>5, <1>6
<1>7. CASE UNCHANGED remote /\ late' = Append(late, <<Time!Cob, v>>) /\ reply'.class = "WAIT_TIMEOUT"
  BY <1>1, <1>3, <1>4, <1>5, <1>7 DEF Time!Abandoned
<1>. QED BY <1>6, <1>7 DEF Time!Sdo!SdoWrite, Time!Sdo!Answer, Time!Sdo!Written

\* A failing operation of any phase after 0x1012 is known.
LEMMA PhaseFails ==
    ASSUME TimeInv, pc \in {"enable", "test", "restore", "recover"}, NEW set, Time!Fail(set),
           "restoration_verified" \notin set,
           remote' \in [Time!Objects -> TimeStates],
           late' \in Seq({Time!Cob} \X TimeStates), Len(late') <= 2,
           pc # "recover" => Len(late') <= 1,
           pc \in {"enable", "test"} /\ late' # <<>> => "completion_wait_timed_out" \in set,
           pc = "test" => "cob_id_modification_attempted" \in set \/ UNCHANGED <<remote, late>>,
           buffer' \in BOOLEAN, pending' \in 0..Time!Cycle, nmt' \in {"op", "preop"},
           UNCHANGED <<time, rx, wire, defect, original, applied, lost, diag, before, previous_count>>
    PROVE  TimeInv'
<1>1. /\ TimeTypes /\ TimeSafe /\ TimeBuffer /\ TimeProof
  BY DEF TimeInv
<1>2. /\ sub' = 1 /\ attempt' = 1 /\ result' = 1 /\ host' = host /\ pos' = 1
      /\ pc \in {"enable", "test"} => pc' = "cleanup"
      /\ pc = "restore" => pc' = "recover"
      /\ pc = "recover" => pc' = "verdict"
      /\ flags' \in [Time!FlagNames -> BOOLEAN]
      /\ \A g \in Time!FlagNames : flags'[g] <=> flags[g] \/ g \in set
  BY <1>1, TimeFail DEF Time!Broken
<1>3. /\ ~flags'["restoration_verified"]
      /\ "completion_wait_timed_out" \in set => flags'["completion_wait_timed_out"]
      /\ flags'["cob_id_modification_attempted"] <=>
            flags["cob_id_modification_attempted"] \/ "cob_id_modification_attempted" \in set
  <2>1. flags'["restoration_verified"] <=> flags["restoration_verified"]
    BY <1>2 DEF Time!FlagNames
  <2>2. ~flags["restoration_verified"]
    BY <1>1 DEF TimeSafe
  <2>. QED BY <1>2, <2>1, <2>2 DEF Time!FlagNames
<1>4. TimeTypes'
  <2>1. sub' \in 1..4 /\ attempt' \in 1..RetryCount /\ pos' \in 1..41 /\ result' \in {0, 1}
    BY <1>2, Constants
  <2>2. pc' \in {"cleanup", "recover", "verdict"} /\ (pc' = "recover" => pos' <= 5)
    BY <1>2
  <2>. QED BY <1>1, <1>2, <2>1, <2>2 DEF TimeTypes, Time!Scripted, TimePlaces
<1>5. TimeSafe'
  <2>1. CASE pc \in {"enable", "test"}
    BY <1>1, <1>2, <1>3, <2>1 DEF TimeSafe
  <2>2. CASE pc \in {"restore", "recover"}
    BY <1>1, <1>2, <1>3, <2>2 DEF TimeSafe
  <2>. QED BY <2>1, <2>2
<1>6. TimeBuffer' /\ TimeProof'
  BY <1>1, <1>2 DEF TimeBuffer, TimeProof
<1>. QED BY <1>2, <1>4, <1>5, <1>6 DEF TimeInv

\* An operation, not the last, of enabling, restoring or recovering.
LEMMA PhaseMoves ==
    ASSUME TimeInv, pc \in {"enable", "restore", "recover"}, pos # Len(Time!Script), NEW set, Time!Advance(set),
           {"restoration_verified", "cob_id_modification_attempted"} \cap set = {},
           "consumer_enable_reset_performed" \in set <=> pc = "enable" /\ pos = 3,
           remote' \in [Time!Objects -> TimeStates],
           late' \in Seq({Time!Cob} \X TimeStates), Len(late') <= 1,
           pc # "recover" \/ pos >= 2 => late' = <<>>,
           pc = "enable" => remote'[Time!Cob] = "on" /\ pending' = Time!None,
           pc = "restore" \/ (pc = "recover" /\ pos >= 2) => remote'[Time!Cob] = original,
           buffer' \in BOOLEAN, pending' \in 0..Time!Cycle, nmt' \in {"op", "preop"},
           pc = "enable" /\ pos = 3 => buffer',
           pc = "restore" /\ pos < 3 => buffer' = buffer,
           pc = "restore" /\ pos = 3 => buffer' = (original = "on"),
           UNCHANGED <<time, rx, wire, defect, original, applied, lost, diag, before, previous_count>>
    PROVE  TimeInv'
<1>1. /\ TimeTypes /\ TimeSafe /\ TimeBuffer /\ TimeProof /\ pos \in 1..41
  BY DEF TimeInv, TimeTypes
<1>2. pc \in Time!Scripted /\ Time!Current.kind \notin {"count", "keep"}
  <2>1. pc \in Time!Scripted
    BY DEF Time!Scripted
  <2>2. (Time!Current.kind = "count" => pc = "test") /\ (Time!Current.kind = "keep" => pc = "test")
    BY <1>1, <2>1, WhereAt DEF Time!At
  <2>. QED BY <2>1, <2>2
<1>3. /\ sub' = 1 /\ attempt' = 1 /\ result' = result /\ host' = host /\ pc' = pc /\ pos' = pos + 1
      /\ flags' \in [Time!FlagNames -> BOOLEAN]
      /\ \A g \in Time!FlagNames : flags'[g] <=>
            g \in set \/ (flags[g] /\ ~(Time!Current.kind = "reset" /\ g = "completion_wait_timed_out"))
  BY <1>1, <1>2, TimeAdvance
<1>4. /\ flags'["restoration_verified"] <=> flags["restoration_verified"]
      /\ flags'["cob_id_modification_attempted"] <=> flags["cob_id_modification_attempted"]
      /\ flags'["consumer_enable_reset_performed"] <=>
            flags["consumer_enable_reset_performed"] \/ (pc = "enable" /\ pos = 3)
  BY <1>3 DEF Time!FlagNames
<1>5. /\ pc = "enable" => pos \in 1..3
      /\ pc = "restore" => pos \in 1..3 /\ pos + 1 <= IF flags.consumer_enable_reset_performed THEN 4 ELSE 2
      /\ pc = "recover" => pos \in 1..4
  <2>1. ASSUME pc = "enable" PROVE pos \in 1..3
    <3>1. Len(Time!Script) = 4 /\ pos \in {1, 2, 3, 4}
      BY <1>1, <1>2, <2>1, OtherScripts
    <3>. QED BY <3>1
  <2>2. ASSUME pc = "restore"
        PROVE  pos \in 1..3 /\ pos + 1 <= IF flags.consumer_enable_reset_performed THEN 4 ELSE 2
    <3>1. /\ Len(Time!Script) = IF flags.consumer_enable_reset_performed THEN 4 ELSE 2
          /\ pos \in {1, 2, 3, 4} /\ pos <= Len(Time!Script)
      BY <1>1, <1>2, <2>2, OtherScripts
    <3>2. CASE flags.consumer_enable_reset_performed
      <4>1. pos <= 4 /\ pos # 4
        BY <3>1, <3>2
      <4>2. pos \in 1..3 /\ pos + 1 <= 4
        BY <3>1, <4>1
      <4>. QED BY <3>2, <4>2
    <3>3. CASE ~flags.consumer_enable_reset_performed
      <4>1. pos <= 2 /\ pos # 2
        BY <3>1, <3>3
      <4>2. pos \in 1..3 /\ pos + 1 <= 2
        BY <3>1, <4>1
      <4>. QED BY <3>3, <4>2
    <3>. QED BY <3>2, <3>3
  <2>3. ASSUME pc = "recover" PROVE pos \in 1..4
    <3>1. Len(Time!Script) = 5 /\ pos \in {1, 2, 3, 4, 5}
      BY <1>1, <1>2, <2>3, OtherScripts
    <3>. QED BY <3>1
  <2>. QED BY <2>1, <2>2, <2>3
<1>6. TimeTypes'
  <2>1. sub' \in 1..4 /\ attempt' \in 1..RetryCount /\ pos' \in 1..41
    <3>1. pos \in 1..4
      BY <1>5
    <3>. QED BY <1>3, <3>1, Constants
  <2>2. /\ pc = "enable" => pos' <= 4
        /\ pc = "restore" => pos' <= IF flags'.consumer_enable_reset_performed THEN 4 ELSE 2
        /\ pc = "recover" => pos' <= 5
    BY <1>3, <1>4, <1>5
  <2>3. Len(late') <= 2
    <3>1. Len(late') \in Nat
      OBVIOUS
    <3>. QED BY <3>1
  <2>. QED BY <1>1, <1>2, <1>3, <2>1, <2>2, <2>3 DEF TimeTypes, Time!Scripted
<1>7. TimeSafe'
  <2>1. ~flags'["restoration_verified"]
    BY <1>1, <1>4 DEF TimeSafe
  <2>2. pc = "recover" /\ pos' > 2 => pos >= 2
    BY <1>1, <1>3
  <2>. QED BY <1>1, <1>3, <1>4, <2>1, <2>2 DEF TimeSafe
<1>8. TimeBuffer'
  <2>1. CASE pc = "enable"
    <3>1. ~flags["consumer_enable_reset_performed"] /\ pos # 4 /\ (pos' = 4 <=> pos = 3)
      <4>1. pos # 4 /\ (pos' = 4 <=> pos = 3)
        BY <1>3, <1>5, <2>1
      <4>2. flags["consumer_enable_reset_performed"] = (pos = 4)
        BY <1>1, <2>1 DEF TimeBuffer
      <4>. QED BY <4>1, <4>2
    <3>2. flags'["consumer_enable_reset_performed"] <=> pos' = 4
      BY <1>4, <2>1, <3>1
    <3>3. flags'["consumer_enable_reset_performed"] = (pos' = 4)
      BY <1>3, <3>2 DEF Time!FlagNames
    <3>. QED BY <1>1, <1>3, <2>1, <3>1, <3>3 DEF TimeBuffer
  <2>2. CASE pc = "restore"
    <3>1. flags'["consumer_enable_reset_performed"] = flags["consumer_enable_reset_performed"]
      <4>1. flags \in [Time!FlagNames -> BOOLEAN]
        BY <1>1 DEF TimeTypes
      <4>. QED BY <1>3, <1>4, <2>2, <4>1 DEF Time!FlagNames
    <3>2. (pos' < 4 => pos < 3) /\ (pos' = 4 => pos = 3) /\ pos < 4
      BY <1>1, <1>3, <1>5, <2>2
    <3>. QED BY <1>1, <1>3, <2>2, <3>1, <3>2 DEF TimeBuffer
  <2>3. CASE pc = "recover"
    BY <1>1, <1>3, <2>3 DEF TimeBuffer
  <2>. QED BY <2>1, <2>2, <2>3
<1>9. TimeProof'
  BY <1>1, <1>3 DEF TimeProof, TimeEvidence
<1>. QED BY <1>3, <1>6, <1>7, <1>8, <1>9 DEF TimeInv

\* The value is verified last.
LEMMA PhaseEnds ==
    ASSUME TimeInv, pc \in {"restore", "recover"}, pos = Len(Time!Script), Time!Advance({}),
           Time!Current.kind = "expect",
           UNCHANGED <<remote, late, buffer, pending, nmt, time, rx, wire, defect, original, applied, lost, diag,
                       before, previous_count>>
    PROVE  TimeInv'
<1>1. /\ TimeTypes /\ TimeSafe /\ TimeBuffer /\ TimeProof /\ pos \in 1..41
  BY DEF TimeInv, TimeTypes
<1>2. pc \in Time!Scripted
  BY DEF Time!Scripted
<1>3. /\ sub' = 1 /\ attempt' = 1 /\ result' = result /\ host' = host /\ pc' = "verdict" /\ pos' = 1
      /\ flags' \in [Time!FlagNames -> BOOLEAN] /\ flags'["restoration_verified"]
  <2>1. /\ sub' = 1 /\ attempt' = 1 /\ result' = result /\ host' = host /\ pc' = Time!Completed /\ pos' = 1
        /\ flags' \in [Time!FlagNames -> BOOLEAN]
    BY <1>1, <1>2, TimeAdvance
  <2>2. flags'["restoration_verified"]
    BY <1>1, <1>2, TimeAdvance DEF Time!FlagNames
  <2>. QED BY <2>1, <2>2 DEF Time!Completed
<1>4. remote[Time!Cob] = original /\ late = <<>>
  <2>1. (pc = "restore" => pos > 1) /\ (pc = "recover" => pos > 2)
    <3>1. ASSUME pc = "restore" PROVE pos > 1
      <4>1. Len(Time!Script) = IF flags.consumer_enable_reset_performed THEN 4 ELSE 2
        BY <1>1, <1>2, <3>1, OtherScripts
      <4>. QED BY <4>1
    <3>2. ASSUME pc = "recover" PROVE pos > 2
      <4>1. Len(Time!Script) = 5
        BY <1>1, <1>2, <3>2, OtherScripts
      <4>. QED BY <4>1
    <3>. QED BY <3>1, <3>2
  <2>. QED BY <1>1, <2>1 DEF TimeSafe
<1>5. result = 0 => buffer = (original = "on")
  <2>1. CASE pc = "restore" /\ result = 0 /\ pos = 4
    BY <1>1, <2>1 DEF TimeBuffer
  <2>2. CASE pc = "restore" /\ result = 0 /\ pos # 4
    <3>1. pos < 4 /\ ~flags.consumer_enable_reset_performed
      BY <1>1, <1>2, <2>2, OtherScripts
    <3>2. original = "on" /\ buffer
      BY <1>1, <2>2, <3>1 DEF TimeBuffer, TimeTypes, TimeStates
    <3>3. buffer \in BOOLEAN
      BY <1>1 DEF TimeTypes
    <3>. QED BY <3>2, <3>3
  <2>3. result = 0 => pc # "recover"
    BY <1>1 DEF TimeBuffer
  <2>. QED BY <2>1, <2>2, <2>3
<1>6. TimeTypes'
  <2>1. sub' \in 1..4 /\ attempt' \in 1..RetryCount /\ pos' \in 1..41
    BY <1>3, Constants
  <2>. QED BY <1>1, <1>3, <2>1 DEF TimeTypes, Time!Scripted, TimePlaces
<1>7. TimeSafe' /\ TimeBuffer'
  BY <1>1, <1>3, <1>4, <1>5 DEF TimeSafe, TimeBuffer
<1>8. TimeProof'
  BY <1>1, <1>3 DEF TimeProof, TimeEvidence, TimeBuffer
<1>. QED BY <1>3, <1>6, <1>7, <1>8 DEF TimeInv

\* The test begins with the clock at its start.
LEMMA TestEntry ==
    ASSUME pos' = 1, sub' = 1, time' = 0, host' = 0, wire' = <<>>, pending' = Time!None
    PROVE  TimeTest'
<1>1. TimeClock'
  <2>1. Within(0, 0, 0, 0)
    BY TimeNumbers DEF Within
  <2>2. Base(pos') = 0 /\ Slack(pos') = 0
    BY DEF Base, Slack
  <2>. QED BY <2>1, <2>2 DEF TimeClock, OldSlot
<1>2. TimeFrames' /\ TimeCounts' /\ TimeShown'
  BY DEF TimeFrames, TimeCounts, TimeShown
<1>3. TimeOrder' /\ ~Read'
  BY Unread DEF AfterDiag
<1>4. TimeViews'
  BY <1>3 DEF TimeViews
<1>. QED BY <1>1, <1>2, <1>3, <1>4 DEF TimeTest

\* 0x1012 is read back in the test.
LEMMA TestExpects ==
    ASSUME TimeInv, pc = "test", pos \in TExpect, Time!Advance({}),
           UNCHANGED <<remote, late, time, rx, buffer, pending, wire, nmt, defect, diag, before, previous_count,
                       original, applied, lost>>
    PROVE  TimeInv'
<1>1. TimeTypes /\ TimeTest
  BY DEF TimeInv
<1>2. /\ pos # 41 /\ pos \notin {27, 35} /\ pos \notin TKeep /\ pos \notin TCount /\ pos \in 1..40
      /\ pos \notin TargetSent /\ pos \notin FrameSent /\ pos \notin {2, 6, 7, 11, 12, 16, 17, 22, 26, 30, 37}
  BY DEF TExpect, TKeep, TCount, TargetSent, FrameSent
<1>3. /\ diag' \in TimeReading /\ before' \in TimeReading /\ previous_count' \in 0..3
  BY <1>1 DEF TimeTypes
<1>4. wire = <<>>
  BY <1>1, <1>2 DEF TimeTest, TimeFrames
<1>5. /\ TimeOuter' /\ pc' = "test" /\ pos' = pos + 1 /\ sub' = 1 /\ host' = host
  BY <1>2, <1>3, <1>4, TestMove
<1>6. pos' \in {29, 37} /\ (pos' = 29 <=> pos = 28) /\ (pos' = 37 <=> pos = 36)
  BY <1>5 DEF TExpect
<1>7. TimeClock'
  BY <1>1, <1>2, <1>4, <1>5, TestClockKept DEF TimeTest
<1>8. TimeFrames'
  <2>1. pending # Time!None => pos = 36 /\ pending = Time!Unwanted
    BY <1>1, <1>2 DEF TimeTest, TimeFrames, TExpect
  <2>. QED BY <1>4, <1>6, <2>1 DEF TimeFrames
<1>9. TimeCounts'
  <2>1. ~(sub' >= 2)
    BY <1>5
  <2>. QED BY <1>6, <2>1 DEF TimeCounts
<1>10. TimeOrder' /\ ~Read'
  <2>1. pos' \notin AfterDiag
    BY <1>6 DEF AfterDiag
  <2>. QED BY <1>5, <2>1, Unread
<1>11. TimeViews'
  BY <1>6, <1>10 DEF TimeViews
<1>12. TimeShown'
  BY <1>1, <1>5 DEF TimeTest, TimeShown, TExpect
<1>. QED BY <1>5, <1>7, <1>8, <1>9, <1>10, <1>11, <1>12 DEF TimeInv, TimeOuter, TimeTest

\* 0x1012 is written in the test: from now on it must be restored.
LEMMA TestWrites ==
    ASSUME TimeInv, pc = "test", pos \in TWrite, Time!Advance({"cob_id_modification_attempted"}),
           remote' \in [Time!Objects -> TimeStates], late' = <<>>,
           remote'[Time!Cob] = IF pos = 27 THEN "off" ELSE "on",
           UNCHANGED <<time, rx, buffer, pending, wire, nmt, defect, diag, before, previous_count,
                       original, applied, lost>>
    PROVE  TimeInv'
<1>1. TimeTypes /\ TimeSafe /\ TimeBuffer /\ TimeProof /\ TimeTest
  BY DEF TimeInv
<1>2. /\ pos \in 1..40 /\ pos \notin TargetSent /\ pos \notin FrameSent
      /\ pos \notin {2, 6, 7, 11, 12, 16, 17, 22, 26, 30, 37}
  BY DEF TWrite, TargetSent, FrameSent
<1>3. wire = <<>>
  BY <1>1, <1>2 DEF TimeTest, TimeFrames
<1>4. pc \in Time!Scripted /\ Len(Time!Script) = 41 /\ pos # Len(Time!Script) /\ Time!Current.kind = "write"
  <2>1. pc \in Time!Scripted
    BY DEF Time!Scripted
  <2>2. Len(Time!Script) = 41 /\ Time!Current = Time!Op("write", IF pos = 27 THEN "off" ELSE "on")
    BY <1>1, <2>1, OtherScripts, TestScript
  <2>. QED BY <1>2, <2>1, <2>2 DEF Time!Op
<1>5. /\ sub' = 1 /\ attempt' = 1 /\ result' = result /\ host' = host /\ pc' = "test" /\ pos' = pos + 1
      /\ flags' \in [Time!FlagNames -> BOOLEAN]
      /\ flags'["cob_id_modification_attempted"]
      /\ flags'["restoration_verified"] <=> flags["restoration_verified"]
      /\ flags'["consumer_enable_reset_performed"] <=> flags["consumer_enable_reset_performed"]
  <2>1. /\ sub' = 1 /\ attempt' = 1 /\ result' = result /\ host' = host /\ pc' = "test" /\ pos' = pos + 1
        /\ flags' \in [Time!FlagNames -> BOOLEAN]
        /\ \A g \in Time!FlagNames : flags'[g] <=> g \in {"cob_id_modification_attempted"} \/ flags[g]
    BY <1>1, <1>4, TimeAdvance
  <2>. QED BY <2>1 DEF Time!FlagNames
<1>6. pos' \in {28, 36} /\ (pos' = 28 <=> pos = 27) /\ (pos' = 36 <=> pos = 35)
  BY <1>5 DEF TWrite
<1>7. TimeTypes'
  <2>1. sub' \in 1..4 /\ attempt' \in 1..RetryCount /\ pos' \in 1..41
    BY <1>5, <1>6, Constants
  <2>2. late' \in Seq({Time!Cob} \X TimeStates) /\ Len(late') <= 2
    OBVIOUS
  <2>. QED BY <1>1, <1>5, <2>1, <2>2 DEF TimeTypes, Time!Scripted
<1>8. TimeSafe'
  <2>1. ~flags'["restoration_verified"]
    BY <1>1, <1>5 DEF TimeSafe
  <2>. QED BY <1>5, <2>1 DEF TimeSafe
<1>9. TimeBuffer'
  <2>1. remote'[Time!Cob] = IF pos' \in 28..35 THEN "off" ELSE "on"
    BY <1>6 DEF TWrite
  <2>2. flags'["consumer_enable_reset_performed"] = flags["consumer_enable_reset_performed"]
    <3>1. flags \in [Time!FlagNames -> BOOLEAN]
      BY <1>1 DEF TimeTypes
    <3>. QED BY <1>5, <3>1 DEF Time!FlagNames
  <2>. QED BY <1>1, <1>5, <2>1, <2>2 DEF TimeBuffer
<1>10. TimeProof'
  BY <1>1, <1>5 DEF TimeProof
<1>11. TimeClock'
  BY <1>1, <1>2, <1>3, <1>5, TestClockKept DEF TimeTest
<1>12. TimeFrames'
  <2>1. pending # Time!None => pos = 35 /\ pending = Time!Unwanted
    BY <1>1, <1>2 DEF TimeTest, TimeFrames, TWrite
  <2>. QED BY <1>3, <1>6, <2>1 DEF TimeFrames
<1>13. TimeCounts'
  BY <1>6 DEF TimeCounts
<1>14. TimeOrder' /\ ~Read'
  <2>1. pos' \notin AfterDiag
    BY <1>6 DEF AfterDiag
  <2>. QED BY <1>5, <2>1, Unread
<1>15. TimeViews'
  BY <1>6, <1>14 DEF TimeViews
<1>16. TimeShown'
  BY <1>1, <1>5 DEF TimeTest, TimeShown, TWrite
<1>. QED BY <1>7, <1>8, <1>9, <1>10, <1>11, <1>12, <1>13, <1>14, <1>15, <1>16 DEF TimeInv, TimeTest

\* The receive buffer is installed and 0x1012 read back: the test can begin.
LEMMA EnableEnds ==
    ASSUME TimeInv, pc = "enable", pos = 4, Time!Advance({}),
           UNCHANGED <<remote, late, time, rx, buffer, pending, wire, nmt, defect, diag, before, previous_count,
                       original, applied, lost>>
    PROVE  TimeInv'
<1>1. TimeTypes /\ TimeSafe /\ TimeBuffer /\ TimeProof
  BY DEF TimeInv
<1>2. pc \in Time!Scripted /\ pos = Len(Time!Script) /\ Time!Current.kind = "expect"
  <2>1. pc \in Time!Scripted
    BY DEF Time!Scripted
  <2>2. Len(Time!Script) = 4 /\ Time!Current = Time!Op("expect", "on")
    BY <1>1, <2>1, OtherScripts
  <2>. QED BY <2>1, <2>2 DEF Time!Op
<1>3. /\ sub' = 1 /\ attempt' = 1 /\ result' = result /\ host' = host /\ pc' = "test" /\ pos' = 1
  BY <1>1, <1>2, TimeAdvance DEF Time!Completed
<1>4. flags' = flags
  BY <1>1, <1>2, FlagsKept
<1>5. TimeTypes'
  <2>1. sub' \in 1..4 /\ attempt' \in 1..RetryCount /\ pos' \in 1..41
    BY <1>3, Constants
  <2>. QED BY <1>1, <1>3, <1>4, <2>1 DEF TimeTypes, Time!Scripted, TimePlaces
<1>6. TimeSafe' /\ TimeBuffer'
  <2>1. /\ remote[Time!Cob] = "on" /\ late = <<>> /\ buffer /\ original = "off" /\ result = 0
        /\ flags.consumer_enable_reset_performed = (pos = 4)
        /\ flags.cob_id_modification_attempted /\ ~flags.restoration_verified
    BY <1>1 DEF TimeSafe, TimeBuffer
  <2>2. flags.consumer_enable_reset_performed = (original = "off")
    BY <2>1
  <2>3. TimeSafe'
    BY <1>3, <1>4, <2>1 DEF TimeSafe
  <2>4. TimeBuffer'
    BY <1>3, <1>4, <2>1, <2>2 DEF TimeBuffer
  <2>. QED BY <2>3, <2>4
<1>7. TimeProof' /\ TimeTest'
  <2>1. time = 0 /\ host = 0 /\ wire = <<>> /\ pending = Time!None
    BY <1>1 DEF TimeProof
  <2>2. TimeTest'
    BY <1>3, <2>1, TestEntry
  <2>. QED BY <1>1, <1>3, <2>2 DEF TimeProof
<1>. QED BY <1>5, <1>6, <1>7 DEF TimeInv

\* 0x1012 is read back.
LEMMA Time_ExpectCobId ==
    ASSUME TimeInv, Time!ExpectCobId
    PROVE  TimeInv'
<1>1. /\ TimeTypes /\ TimeSafe /\ TimeBuffer /\ TimeProof
      /\ Time!Current.kind = "expect" /\ pc \in Time!Scripted
      /\ \/ pc \in {"enable", "restore"} /\ pos \in {2, 4}
         \/ pc = "recover" /\ pos \in {3, 5}
         \/ pc = "test" /\ pos \in TExpect
  BY WhereAt DEF TimeInv, Time!ExpectCobId, Time!At
<1>2. /\ UNCHANGED <<remote, late, time, rx, buffer, pending, wire, nmt, defect, diag, before, previous_count,
                      original, applied, lost>>
      /\ Time!Abandoned \subseteq {"completion_wait_timed_out"}
      /\ reply'.class = "SUCCESS" => reply'.value = remote[Time!Cob] /\ late = <<>>
  BY TestRead DEF Time!ExpectCobId, Time!slave, Time!history
<1>3. /\ remote' \in [Time!Objects -> TimeStates] /\ late' \in Seq({Time!Cob} \X TimeStates) /\ Len(late') <= 2
      /\ buffer' \in BOOLEAN /\ pending' \in 0..Time!Cycle /\ nmt' \in {"op", "preop"} /\ Len(<<>>) = 0
  BY <1>1, <1>2 DEF TimeTypes
<1>4. pc \in {"enable", "test", "restore"} => late' = <<>>
  BY <1>1, <1>2 DEF TimeSafe
<1>5. Len(late') <= 1
  BY <1>1, <1>2, <1>3, <1>4 DEF TimeSafe
<1>6. ASSUME NEW set, Time!Fail(set), set \subseteq {"completion_wait_timed_out"} PROVE TimeInv'
  <2>1. "restoration_verified" \notin set /\ pc \in {"enable", "test", "restore", "recover"}
    BY <1>1, <1>6
  <2>. QED BY <1>2, <1>3, <1>4, <1>5, <1>6, <2>1, PhaseFails
<1>7. CASE reply'.class = "SUCCESS" /\ reply'.value = Time!Current.value /\ Time!Advance({})
  <2>1. CASE pc = "test"
    BY <1>1, <1>2, <1>7, <2>1, TestExpects
  <2>2. CASE pc = "enable" /\ pos = 4
    BY <1>2, <1>7, <2>2, EnableEnds
  <2>3. CASE (pc = "restore" /\ pos = Len(Time!Script)) \/ (pc = "recover" /\ pos = Len(Time!Script))
    BY <1>1, <1>2, <1>7, <2>3, PhaseEnds
  <2>4. CASE (pc = "enable" /\ pos # 4) \/ (pc \in {"restore", "recover"} /\ pos # Len(Time!Script))
    <3>1. pos # Len(Time!Script) /\ pc \in {"enable", "restore", "recover"}
      BY <1>1, <2>4, OtherScripts
    <3>2. /\ pc = "enable" => remote[Time!Cob] = "on" /\ pending = Time!None
          /\ pc = "restore" \/ pc = "recover" => remote[Time!Cob] = original
      BY <1>1 DEF TimeSafe, TimeProof
    <3>3. pos # 3 \/ pc = "recover"
      BY <1>1, <2>4
    <3>4. late' = <<>>
      BY <1>2, <1>7
    <3>. QED BY <1>2, <1>3, <1>5, <1>7, <3>1, <3>2, <3>3, <3>4, PhaseMoves
  <2>. QED BY <1>1, <2>1, <2>2, <2>3, <2>4
<1>8. CASE Time!Fail({})
  BY <1>6, <1>8
<1>9. CASE Time!ReadFails
  BY <1>2, <1>6, <1>9 DEF Time!ReadFails
<1>. QED BY <1>7, <1>8, <1>9 DEF Time!ExpectCobId

\* 0x1012 is written.
LEMMA Time_WriteCobId ==
    ASSUME TimeInv, Time!WriteCobId
    PROVE  TimeInv'
<1>1. /\ TimeTypes /\ TimeSafe /\ TimeBuffer /\ TimeProof /\ pc \in Time!Scripted
      /\ \/ pc \in {"enable", "restore"} /\ pos = 1
         \/ pc = "recover" /\ pos = 2
         \/ pc = "test" /\ pos \in TWrite
  BY WhereAt DEF TimeInv, Time!WriteCobId, Time!At
<1>2. /\ UNCHANGED <<time, rx, buffer, pending, wire, nmt, defect, diag, before, previous_count,
                      original, applied, lost>>
      /\ Time!Sdo!SdoWrite(Time!Cob, Time!Current.value)
  BY DEF Time!WriteCobId, Time!slave, Time!history
<1>3. /\ Time!Current.value = IF pc = "enable" THEN "on" ELSE IF pc = "test" /\ pos = 27 THEN "off"
                              ELSE IF pc = "test" THEN "on" ELSE original
      /\ Time!Current.value \in TimeStates
  <2>1. Time!Current = Time!Op("write", IF pc = "enable" THEN "on" ELSE IF pc = "test" /\ pos = 27 THEN "off"
                               ELSE IF pc = "test" THEN "on" ELSE original)
    BY <1>1, OtherScripts, TestScript
  <2>2. original \in TimeStates
    BY <1>1 DEF TimeTypes
  <2>. QED BY <2>1, <2>2 DEF Time!Op, TimeStates
<1>4. (pc # "recover" => late = <<>>) /\ Len(late) <= 1
  <2>1. pc # "recover" => late = <<>>
    BY <1>1 DEF TimeSafe
  <2>2. Len(<<>>) <= 1
    OBVIOUS
  <2>. QED BY <1>1, <2>1, <2>2 DEF TimeSafe
<1>5. /\ remote' \in [Time!Objects -> TimeStates]
      /\ late' \in Seq({Time!Cob} \X TimeStates) /\ Len(late') <= 2
      /\ reply'.class = "SUCCESS" => late' = <<>> /\ remote'[Time!Cob] = Time!Current.value
      /\ late = <<>> => Len(late') <= 1
      /\ late = <<>> /\ late' # <<>> => Time!Abandoned = {"completion_wait_timed_out"}
      /\ Time!Abandoned \subseteq {"completion_wait_timed_out"}
  BY <1>1, <1>2, <1>3, <1>4, CobWritten
<1>6. /\ buffer' \in BOOLEAN /\ pending' \in 0..Time!Cycle /\ nmt' \in {"op", "preop"}
  BY <1>1, <1>2 DEF TimeTypes
<1>. DEFINE attempted == IF pc = "test" THEN {"cob_id_modification_attempted"} ELSE {}
<1>7. CASE reply'.class = "SUCCESS" /\ Time!Advance(attempted)
  <2>1. CASE pc = "test"
    <3>1. remote'[Time!Cob] = IF pos = 27 THEN "off" ELSE "on"
      BY <1>3, <1>5, <1>7, <2>1
    <3>2. Time!Advance({"cob_id_modification_attempted"})
      BY <1>7, <2>1
    <3>. QED BY <1>1, <1>2, <1>5, <1>7, <2>1, <3>1, <3>2, TestWrites
  <2>2. CASE pc # "test"
    <3>1. Time!Advance({})
      BY <1>7, <2>2
    <3>2. pc \in {"enable", "restore", "recover"} /\ ~(pc = "enable" /\ pos = 3) /\ ~(pc = "restore" /\ pos = 3)
          /\ ~("consumer_enable_reset_performed" \in {})
      BY <1>1, <2>2
    <3>3. pos # Len(Time!Script)
      <4>1. CASE pc = "enable"
        BY <1>1, <4>1, OtherScripts
      <4>2. CASE pc = "recover"
        BY <1>1, <4>2, OtherScripts
      <4>3. CASE pc = "restore"
        <5>1. Len(Time!Script) = IF flags.consumer_enable_reset_performed THEN 4 ELSE 2
          BY <1>1, <4>3, OtherScripts
        <5>. QED BY <1>1, <4>3, <5>1
      <4>. QED BY <3>2, <4>1, <4>2, <4>3
    <3>4. late' = <<>> /\ Len(late') <= 1
      BY <1>5, <1>7
    <3>5. /\ pc = "enable" => remote'[Time!Cob] = "on" /\ pending' = Time!None
          /\ pc = "restore" \/ pc = "recover" => remote'[Time!Cob] = original
      BY <1>1, <1>2, <1>3, <1>5, <1>7 DEF TimeProof
    <3>. QED BY <1>2, <1>5, <1>6, <3>1, <3>2, <3>3, <3>4, <3>5, PhaseMoves
  <2>. QED BY <2>1, <2>2
<1>8. CASE Time!Fail(attempted \cup Time!Abandoned)
  <2>1. "restoration_verified" \notin attempted \cup Time!Abandoned
    BY <1>5
  <2>2. pc \in {"enable", "test", "restore", "recover"} /\ (pc # "recover" => Len(late') <= 1)
    BY <1>1, <1>4, <1>5
  <2>3. pc \in {"enable", "test"} /\ late' # <<>> => "completion_wait_timed_out" \in attempted \cup Time!Abandoned
    BY <1>4, <1>5
  <2>4. pc = "test" => "cob_id_modification_attempted" \in attempted \cup Time!Abandoned
    OBVIOUS
  <2>. HIDE DEF attempted
  <2>. QED BY <1>2, <1>5, <1>6, <1>8, <2>1, <2>2, <2>3, <2>4, PhaseFails
<1>. QED BY <1>7, <1>8 DEF Time!WriteCobId

\* The value 0x1012 was found with.
LEMMA Time_ReadOriginal ==
    ASSUME TimeInv, Time!ReadOriginal
    PROVE  TimeInv'
<1>1. /\ TimeTypes /\ TimeSafe /\ TimeBuffer /\ TimeProof /\ pc \in Time!Scripted /\ pc = "capture" /\ pos = 2
  BY WhereAt DEF TimeInv, Time!ReadOriginal, Time!At
<1>2. /\ UNCHANGED <<remote, late, time, rx, buffer, pending, wire, nmt, defect, diag, before, previous_count,
                      applied, lost>>
      /\ Time!Abandoned \subseteq {"completion_wait_timed_out"}
      /\ reply'.class = "SUCCESS" => reply'.value = remote[Time!Cob]
  BY TestRead DEF Time!ReadOriginal, Time!slave, Time!history
<1>3. diag' \in TimeReading /\ remote[Time!Cob] \in TimeStates
  BY <1>1, <1>2 DEF TimeTypes, Time!Objects
<1>4. CASE Time!Fail(Time!Abandoned) /\ UNCHANGED original
  BY <1>1, <1>2, <1>3, <1>4, CaptureFails
<1>. DEFINE set == IF reply'.value = "off" THEN {"cob_id_modification_attempted"} ELSE {}
<1>5. CASE reply'.class = "SUCCESS" /\ original' = reply'.value /\ Time!Advance(set)
  <2>1. original' = remote[Time!Cob] /\ original' = reply'.value
    BY <1>2, <1>5
  <2>2. Len(Time!Script) = 2 /\ Time!Current.kind = "original"
    <3>1. Len(Time!Script) = 2 /\ Time!Current = Time!Op("original", "-")
      BY <1>1, OtherScripts
    <3>. QED BY <3>1 DEF Time!Op
  <2>3. /\ sub' = 1 /\ attempt' = 1 /\ result' = result /\ host' = host /\ pos' = 1
        /\ pc' = (IF original' = "off" THEN "enable" ELSE "test")
        /\ flags' \in [Time!FlagNames -> BOOLEAN]
        /\ \A g \in Time!FlagNames : flags'[g] <=> g \in set \/ flags[g]
    <3>1. pc' = Time!Completed
      BY <1>1, <1>5, <2>2, TimeAdvance
    <3>2. Time!Completed = IF original' = "off" THEN "enable" ELSE "test"
      BY <1>1 DEF Time!Completed
    <3>. QED BY <1>1, <1>5, <2>2, <3>1, <3>2, TimeAdvance
  <2>4. /\ ~flags'["restoration_verified"] /\ ~flags'["consumer_enable_reset_performed"]
        /\ original' = "off" => flags'["cob_id_modification_attempted"]
    <3>1. ~flags["restoration_verified"] /\ ~flags["consumer_enable_reset_performed"]
      BY <1>1 DEF TimeSafe, TimeBuffer
    <3>. QED BY <2>1, <2>3, <3>1 DEF Time!FlagNames
  <2>5. TimeTypes'
    <3>1. sub' \in 1..4 /\ attempt' \in 1..RetryCount /\ pos' \in 1..41 /\ pos' <= 4 /\ original' \in TimeStates
          /\ pc' \in {"enable", "test"}
      BY <1>3, <2>1, <2>3, Constants
    <3>. QED BY <1>1, <1>2, <2>3, <3>1 DEF TimeTypes, Time!Scripted, TimePlaces
  <2>6. late = <<>> /\ result = 0 /\ buffer = (remote[Time!Cob] = "on")
    BY <1>1 DEF TimeSafe, TimeBuffer
  <2>7. TimeSafe'
    BY <1>2, <1>3, <2>1, <2>3, <2>4, <2>6 DEF TimeSafe, TimeStates
  <2>8. TimeBuffer'
    <3>1. flags'["consumer_enable_reset_performed"] = FALSE
      BY <2>3, <2>4 DEF Time!FlagNames
    <3>2. CASE original' = "off"
      <4>1. pc' = "enable" /\ ~(pos' = 4) /\ result' = 0
        BY <2>3, <2>6, <3>2
      <4>2. flags'["consumer_enable_reset_performed"] = (pos' = 4)
        BY <3>1, <4>1
      <4>. QED BY <3>2, <4>1, <4>2 DEF TimeBuffer
    <3>3. CASE original' = "on"
      <4>1. pc' = "test" /\ pos' = 1 /\ result' = 0 /\ ~(original' = "off") /\ remote'[Time!Cob] = "on"
        BY <1>2, <2>1, <2>3, <2>6, <3>3
      <4>2. flags'["consumer_enable_reset_performed"] = (original' = "off")
        BY <3>1, <4>1
      <4>3. buffer'
        BY <1>2, <2>1, <2>6, <3>3
      <4>4. pos' \notin 28..35 /\ ~(pos' >= 28)
        BY <4>1
      <4>. QED BY <4>1, <4>2, <4>3, <4>4 DEF TimeBuffer
    <3>. QED BY <1>3, <2>1, <3>2, <3>3 DEF TimeStates
  <2>9. time = 0 /\ host = 0 /\ wire = <<>> /\ pending = Time!None
    BY <1>1 DEF TimeProof
  <2>10. TimeProof' /\ TimeTest'
    <3>1. TimeTest'
      BY <1>2, <2>3, <2>9, TestEntry
    <3>. QED BY <1>1, <1>2, <2>3, <2>9, <3>1 DEF TimeProof
  <2>. QED BY <2>5, <2>7, <2>8, <2>10 DEF TimeInv
<1>. QED BY <1>4, <1>5 DEF Time!ReadOriginal

\* A communication reset.
LEMMA Time_ResetSlaveCommunication ==
    ASSUME TimeInv, Time!ResetSlaveCommunication
    PROVE  TimeInv'
<1>1. /\ TimeTypes /\ TimeSafe /\ TimeBuffer /\ TimeProof /\ pc \in Time!Scripted
      /\ \/ pc \in {"enable", "restore"} /\ pos = 3
         \/ pc = "recover" /\ pos \in {1, 4}
  BY WhereAt DEF TimeInv, Time!ResetSlaveCommunication, Time!At
<1>2. /\ UNCHANGED <<remote, late, time, rx, wire, defect, diag, before, previous_count, original, applied, lost>>
  BY DEF Time!ResetSlaveCommunication, Time!sdo, Time!history
<1>3. /\ remote' \in [Time!Objects -> TimeStates] /\ late' \in Seq({Time!Cob} \X TimeStates)
      /\ Len(late') <= 2 /\ Len(<<>>) = 0
  BY <1>1, <1>2 DEF TimeTypes
<1>4. /\ pc \in {"enable", "restore"} => late' = <<>>
      /\ Len(late') <= 1
      /\ pc = "enable" => remote[Time!Cob] = "on"
      /\ pc = "restore" => remote[Time!Cob] = original
      /\ pc = "recover" /\ pos = 4 => late' = <<>> /\ remote[Time!Cob] = original
  <2>1. pc \in {"enable", "restore"} => late' = <<>>
    BY <1>1, <1>2 DEF TimeSafe
  <2>2. pc = "recover" => Len(late') <= 1
    BY <1>1, <1>2 DEF TimeSafe
  <2>3. Len(late') <= 1
    BY <1>1, <1>3, <2>1, <2>2
  <2>. QED BY <1>1, <1>2, <2>1, <2>3 DEF TimeSafe
<1>5. Time!CommReset => /\ buffer' \in BOOLEAN /\ pending' \in 0..Time!Cycle /\ nmt' \in {"op", "preop"}
                        /\ pending' = Time!None /\ buffer' = (remote[Time!Cob] = "on")
  <2>1. Time!None \in 0..Time!Cycle
    BY TimeNumbers
  <2>. QED BY <2>1 DEF Time!CommReset
<1>6. UNCHANGED <<buffer, pending, nmt>> => /\ buffer' \in BOOLEAN /\ pending' \in 0..Time!Cycle
                                            /\ nmt' \in {"op", "preop"}
  BY <1>1 DEF TimeTypes
<1>7. ASSUME Time!Fail(Time!ResetFailed), buffer' \in BOOLEAN, pending' \in 0..Time!Cycle, nmt' \in {"op", "preop"}
      PROVE  TimeInv'
  <2>1. "restoration_verified" \notin Time!ResetFailed
    BY <1>1 DEF Time!ResetFailed
  <2>2. pc \in {"enable", "test", "restore", "recover"} /\ pc # "test" /\ (pc \in {"enable", "test"} => late' = <<>>)
    BY <1>1, <1>4
  <2>. QED BY <1>2, <1>3, <1>4, <1>7, <2>1, <2>2, PhaseFails
<1>. DEFINE set == {"slave_needs_start"} \cup IF pc = "enable" THEN {"consumer_enable_reset_performed"} ELSE {}
<1>8. CASE Time!CommReset /\ Time!Advance(set)
  <2>1. /\ {"restoration_verified", "cob_id_modification_attempted"} \cap set = {}
        /\ "consumer_enable_reset_performed" \in set <=> pc = "enable" /\ pos = 3
    BY <1>1
  <2>2. pc \in {"enable", "restore", "recover"} /\ pos # Len(Time!Script)
    <3>1. CASE pc = "enable"
      BY <1>1, <3>1, OtherScripts
    <3>2. CASE pc = "recover"
      BY <1>1, <3>2, OtherScripts
    <3>3. CASE pc = "restore"
      <4>1. Len(Time!Script) = IF flags.consumer_enable_reset_performed THEN 4 ELSE 2
        BY <1>1, <3>3, OtherScripts
      <4>. QED BY <1>1, <3>3, <4>1
    <3>. QED BY <1>1, <3>1, <3>2, <3>3
  <2>3. /\ pc # "recover" \/ pos >= 2 => late' = <<>>
        /\ pc = "restore" \/ (pc = "recover" /\ pos >= 2) => remote'[Time!Cob] = original
        /\ pc = "enable" => remote'[Time!Cob] = "on"
    BY <1>1, <1>2, <1>4
  <2>4. /\ pc = "enable" => buffer' /\ pending' = Time!None
        /\ pc = "restore" => buffer' = (original = "on") /\ ~(pos < 3)
    <3>1. pending' = Time!None /\ buffer' = (remote[Time!Cob] = "on")
      BY <1>5, <1>8
    <3>2. pc = "restore" => pos = 3
      BY <1>1
    <3>3. pc = "enable" => buffer'
      BY <1>4, <3>1
    <3>4. pc = "restore" => buffer' = (original = "on")
      BY <1>4, <3>1
    <3>. QED BY <3>1, <3>2, <3>3, <3>4
  <2>. HIDE DEF set
  <2>. QED BY <1>2, <1>3, <1>4, <1>5, <1>8, <2>1, <2>2, <2>3, <2>4, PhaseMoves
<1>. QED BY <1>5, <1>6, <1>7, <1>8 DEF Time!ResetSlaveCommunication

\* What the tests leave decides what has to be restored.
LEMMA Time_Cleanup ==
    ASSUME TimeInv, Time!Cleanup
    PROVE  TimeInv'
<1>1. /\ TimeTypes /\ TimeSafe /\ TimeBuffer /\ TimeProof /\ pc = "cleanup" /\ pos = 1 /\ result \in {0, 1}
  BY DEF TimeInv, Time!Cleanup, TimeTypes, Time!Scripted
<1>2. /\ pc' = (IF ~flags.cob_id_modification_attempted THEN "verdict"
                ELSE IF flags.completion_wait_timed_out \/ flags.reset_recovery_required
                THEN "recover" ELSE "restore")
      /\ flags' = [g \in Time!FlagNames |->
                      flags[g] \/ g \in (IF flags.cob_id_modification_attempted THEN {} ELSE {"restoration_verified"})]
      /\ result' = (IF pc' = "recover" THEN 1 ELSE result)
      /\ time' = 0 /\ rx' = 0 /\ pending' = Time!None /\ wire' = <<>> /\ host' = 0
      /\ diag' = Time!NoDiag /\ before' = Time!NoDiag /\ previous_count' = 0
      /\ applied' = (IF result' = 0 THEN applied ELSE {})
      /\ lost' = (lost /\ result' = 0)
      /\ UNCHANGED <<remote, late, buffer, nmt, defect, pos, sub, attempt, original>>
  BY DEF Time!Cleanup, Time!Flag, Time!sdo
<1>3. flags \in [Time!FlagNames -> BOOLEAN] /\ lost \in BOOLEAN
  BY <1>1 DEF TimeTypes
<1>4. /\ flags' \in [Time!FlagNames -> BOOLEAN]
      /\ flags.cob_id_modification_attempted => flags' = flags
      /\ flags'["consumer_enable_reset_performed"] = flags["consumer_enable_reset_performed"]
  <2>1. flags' \in [Time!FlagNames -> BOOLEAN]
    BY <1>2, <1>3
  <2>2. \A g \in Time!FlagNames : flags'[g] <=>
           flags[g] \/ (~flags.cob_id_modification_attempted /\ g = "restoration_verified")
    BY <1>2, <1>3
  <2>3. flags.cob_id_modification_attempted => \A g \in Time!FlagNames : flags'[g] = flags[g]
    BY <1>3, <2>1, <2>2
  <2>4. flags'["consumer_enable_reset_performed"] = flags["consumer_enable_reset_performed"]
    BY <1>3, <2>1, <2>2 DEF Time!FlagNames
  <2>. QED BY <1>3, <2>1, <2>3, <2>4
<1>5. lost' \in BOOLEAN /\ (result' = 0 => lost' = lost)
  BY <1>2, <1>3
<1>6. ~flags.restoration_verified
  BY <1>1 DEF TimeSafe
<1>7. TimeTypes'
  <2>1. /\ time' \in 0..(Time!Cycle - 1) /\ rx' \in 0..3 /\ pending' \in 0..Time!Cycle /\ host' \in 0..MaxTicks
        /\ previous_count' \in 0..3
    BY <1>2, TimeNumbers
  <2>2. /\ diag' \in TimeReading /\ before' \in TimeReading
    BY <1>2, NoReading
  <2>3. result' \in {0, 1} /\ pc' \in {"verdict", "recover", "restore"}
    BY <1>1, <1>2
  <2>4. pos' = 1 /\ pos' \in 1..41 /\ pos' <= 5 /\ pos' <= IF flags'.consumer_enable_reset_performed THEN 4 ELSE 2
    BY <1>1, <1>2
  <2>. QED BY <1>1, <1>2, <1>4, <1>5, <2>1, <2>2, <2>3, <2>4 DEF TimeTypes, TimePlaces, Time!Scripted
<1>8. CASE ~flags.cob_id_modification_attempted
  <2>1. pc' = "verdict" /\ late = <<>> /\ original = "on" /\ remote[Time!Cob] = "on" /\ result = 1 /\ result' = 1
    BY <1>1, <1>2, <1>8 DEF TimeSafe, TimeBuffer
  <2>2. TimeSafe' /\ TimeBuffer' /\ TimeProof'
    BY <1>2, <2>1 DEF TimeSafe, TimeBuffer, TimeProof
  <2>. QED BY <1>7, <2>1, <2>2 DEF TimeInv
<1>9. CASE flags.cob_id_modification_attempted
  <2>1. flags' = flags /\ pc' \in {"recover", "restore"}
    BY <1>2, <1>4, <1>9
  <2>2. pc' = "restore" => late = <<>> /\ result' = result
    BY <1>1, <1>2, <1>9 DEF TimeSafe
  <2>3. pc' = "recover" => result' = 1 /\ Len(late) <= 1
    BY <1>1, <1>2 DEF TimeSafe
  <2>4. TimeSafe'
    <3>1. pos' = 1
      BY <1>1, <1>2
    <3>. QED BY <1>2, <1>6, <2>1, <2>2, <2>3, <3>1 DEF TimeSafe
  <2>5. TimeBuffer'
    <3>1. pos' = 1 /\ pos < 4
      BY <1>1, <1>2
    <3>. QED BY <1>1, <1>2, <2>1, <2>2, <2>3, <3>1 DEF TimeBuffer
  <2>6. TimeProof'
    <3>1. result' = 0 => result = 0 /\ applied' = applied
      BY <1>2, <2>1, <2>2, <2>3
    <3>2. result' = 0 => TimeEvidence'
      BY <1>1, <1>2, <1>5, <3>1 DEF TimeProof, TimeEvidence
    <3>3. applied' # {} => defect' # "noapply"
      BY <1>1, <1>2 DEF TimeProof
    <3>. QED BY <2>1, <3>2, <3>3 DEF TimeProof
  <2>. QED BY <1>7, <2>1, <2>4, <2>5, <2>6 DEF TimeInv
<1>. QED BY <1>8, <1>9

\* The verdict on abandoned calls.
LEMMA Time_Verdict ==
    ASSUME TimeInv, Time!Verdict
    PROVE  TimeInv'
<1>1. /\ TimeTypes /\ TimeSafe /\ TimeBuffer /\ TimeProof /\ pc = "verdict"
  BY DEF TimeInv, Time!Verdict
<1>2. /\ pc' = "start" /\ result' \in {result, 1}
      /\ UNCHANGED <<remote, late, time, rx, buffer, pending, wire, nmt, defect, host, pos, flags,
                      sub, attempt, diag, before, previous_count, original, applied, lost>>
  BY DEF Time!Verdict, Time!sdo, Time!slave, Time!reading, Time!history
<1>3. TimeTypes'
  BY <1>1, <1>2 DEF TimeTypes, Time!Scripted, TimePlaces
<1>4. TimeSafe' /\ TimeBuffer' /\ TimeProof'
  BY <1>1, <1>2 DEF TimeSafe, TimeBuffer, TimeProof, TimeEvidence
<1>. QED BY <1>2, <1>3, <1>4 DEF TimeInv

\* A slave that was reset is started.
LEMMA Time_StartSlave ==
    ASSUME TimeInv, Time!StartSlave
    PROVE  TimeInv'
<1>1. /\ TimeTypes /\ TimeSafe /\ TimeBuffer /\ TimeProof /\ pc = "start"
  BY DEF TimeInv, Time!StartSlave
<1>2. /\ pc' = "done" /\ nmt' \in {nmt, "op"} /\ result' \in {result, 1}
      /\ flags' = flags \/ flags' = [flags EXCEPT !.slave_needs_start = FALSE]
      /\ UNCHANGED <<remote, late, time, rx, buffer, pending, wire, defect, host, pos,
                      sub, attempt, diag, before, previous_count, original, applied, lost>>
      /\ flags' = flags => result' = 1 \/ ~(flags.slave_needs_start /\ flags.restoration_verified)
                           \/ ~flags'.slave_needs_start
  <2>1. flags \in [Time!FlagNames -> BOOLEAN]
    BY <1>1 DEF TimeTypes
  <2>2. [flags EXCEPT !.slave_needs_start = FALSE].slave_needs_start = FALSE
    BY <2>1 DEF Time!FlagNames
  <2>. QED BY <2>2 DEF Time!StartSlave, Time!sdo, Time!reading, Time!history
<1>3. /\ flags' \in [Time!FlagNames -> BOOLEAN]
      /\ flags'.restoration_verified = flags.restoration_verified
      /\ flags' # flags => ~flags'.slave_needs_start
  <2>1. flags \in [Time!FlagNames -> BOOLEAN]
    BY <1>1 DEF TimeTypes
  <2>. QED BY <1>2, <2>1 DEF Time!FlagNames
<1>4. TimeTypes'
  BY <1>1, <1>2, <1>3 DEF TimeTypes, Time!Scripted, TimePlaces
<1>5. TimeSafe' /\ TimeProof'
  BY <1>1, <1>2, <1>3 DEF TimeSafe, TimeProof, TimeEvidence
<1>6. TimeBuffer'
  <2>1. result' = 0 => result = 0
    BY <1>2
  <2>2. result' = 0 => flags.restoration_verified /\ buffer = (original = "on")
    BY <1>1, <2>1 DEF TimeBuffer
  <2>3. result' = 0 => ~flags'.slave_needs_start
    <3>1. result' = 0 /\ flags' = flags => ~flags.slave_needs_start \/ ~flags'.slave_needs_start
      BY <1>2, <2>2
    <3>. QED BY <1>3, <3>1
  <2>. QED BY <1>2, <1>3, <2>2, <2>3 DEF TimeBuffer
<1>. QED BY <1>2, <1>4, <1>5, <1>6 DEF TimeInv

-----------------------------------------------------------------------------
(* TimeProcess: what the invariant gives.                                  *)

\* Nothing has happened yet.
LEMMA TimeStarts ==
    ASSUME Time!Init
    PROVE  TimeInv
<1>1. /\ late = <<>> /\ time = 0 /\ rx = 0 /\ pending = Time!None /\ wire = <<>> /\ nmt = "op"
      /\ defect \in TimeDefects /\ host = 0 /\ pc = "capture" /\ pos = 1 /\ result = 0
      /\ flags = [f \in Time!FlagNames |-> FALSE] /\ sub = 1 /\ attempt = 1
      /\ diag = Time!NoDiag /\ before = Time!NoDiag /\ previous_count = 0
      /\ original = "on" /\ applied = {} /\ lost = FALSE /\ buffer = (remote[Time!Cob] = "on")
  BY DEF Time!Init, Time!Sdo!SdoInit, TimeDefects
<1>2. remote \in [Time!Objects -> TimeStates]
  BY DEF Time!Init, Time!Sdo!SdoInit, TimeStates
<1>3. TimeTypes
  <2>1. /\ time \in 0..(Time!Cycle - 1) /\ rx \in 0..3 /\ pending \in 0..Time!Cycle /\ host \in 0..MaxTicks
        /\ previous_count \in 0..3 /\ pos \in 1..41 /\ pos <= 2
    BY <1>1, TimeNumbers
  <2>2. /\ diag \in TimeReading /\ before \in TimeReading
    BY <1>1, NoReading
  <2>3. late \in Seq({Time!Cob} \X TimeStates) /\ Len(late) <= 2
    BY <1>1
  <2>4. sub \in 1..4 /\ attempt \in 1..RetryCount
    BY <1>1, Constants
  <2>5. buffer \in BOOLEAN /\ lost \in BOOLEAN
    BY <1>1
  <2>6. flags \in [Time!FlagNames -> BOOLEAN]
    BY <1>1
  <2>. QED BY <1>1, <1>2, <2>1, <2>2, <2>3, <2>4, <2>5, <2>6 DEF TimeTypes, TimePlaces, Time!Scripted, TimeStates
<1>4. /\ flags["cob_id_modification_attempted"] = FALSE /\ flags["restoration_verified"] = FALSE
      /\ flags["consumer_enable_reset_performed"] = FALSE
  BY <1>1 DEF Time!FlagNames
<1>5. TimeSafe /\ TimeBuffer /\ TimeProof
  BY <1>1, <1>4 DEF TimeSafe, TimeBuffer, TimeProof
<1>. QED BY <1>1, <1>3, <1>5 DEF TimeInv

\* Every step of timeProcess() and of the slave keeps the invariant.
LEMMA TimeStays ==
    ASSUME TimeInv, Time!Next
    PROVE  TimeInv'
<1>1. CASE Time!Done
  <2>1. UNCHANGED <<remote, late, time, rx, buffer, pending, wire, nmt, defect, host, pc, pos, result, flags,
                    sub, attempt, diag, before, previous_count, original, applied, lost>> /\ pc = "done"
    BY <1>1 DEF Time!Done, Time!vars, Time!sdo, Time!slave, Time!control, Time!reading, Time!history
  <2>2. TimeTypes' /\ TimeSafe' /\ TimeBuffer'
    BY <2>1 DEF TimeInv, TimeTypes, TimeSafe, TimeBuffer
  <2>3. TimeProof'
    BY <2>1 DEF TimeInv, TimeProof, TimeEvidence
  <2>. QED BY <2>1, <2>2, <2>3 DEF TimeInv
<1>2. CASE Time!Tick \/ Time!Receive \/ Time!LoseFrame \/ Time!ApplyTime \/ Time!LateEffect
  BY <1>2, Time_Tick, Time_Receive, Time_LoseFrame, Time_ApplyTime, Time_LateEffect
<1>3. CASE Time!Thread
  BY <1>3, Time_DiagnosticStep, Time_ReadOriginal, Time_readRxCount, Time_sendTimeFrame, Time_waitForRxCount,
     Time_waitForAppliedTime, Time_KeepDiagnostic, Time_Sleep, Time_validateContinuousAdvance, Time_WriteCobId,
     Time_ExpectCobId, Time_ResetSlaveCommunication, Time_Cleanup, Time_Verdict, Time_StartSlave
     DEF Time!Thread
<1>. QED BY <1>1, <1>2, <1>3 DEF Time!Next

\* The test reads a snapshot only where its script says so.
LEMMA DiagKinds ==
    ASSUME NEW p \in 1..41, Time!Tests[p].kind = "diag"
    PROVE  p \in TDiag
<1>1. /\ p \in TCount => Time!Tests[p] = Time!Op("count", "-")
      /\ p \in TPoll => Time!Tests[p] = Time!Op("poll", "-")
      /\ p \in TKeep => Time!Tests[p] = Time!Op("keep", "-")
      /\ p \in TSleep => Time!Tests[p] = Time!Op("sleep", "-")
      /\ p \in TApplied => Time!Tests[p] = Time!Op("applied", Target(p))
      /\ p \in TAdvance => Time!Tests[p] = Time!Op("advance", IF p = 34 THEN 1 ELSE 0)
      /\ p \in TWrite => Time!Tests[p] = Time!Op("write", IF p = 27 THEN "off" ELSE "on")
      /\ p \in TExpect => Time!Tests[p] = Time!Op("expect", IF p = 28 THEN "off" ELSE "on")
  BY TestScript DEF Time!Keep
<1>2. p \in TSend => \E f : Time!Tests[p] = Time!Op("send", f)
  <2>1. p \in TSend /\ p # 23 => Time!Tests[p] = Time!Frame(Sent(p + 1), TRUE)
    BY TestScript
  <2>2. p = 23 => Time!Tests[p] = Time!Frame(Time!Unwanted, FALSE)
    BY TestScript
  <2>. QED BY <2>1, <2>2 DEF Time!Frame
<1>3. \A k, v : Time!Op(k, v).kind = k
  BY DEF Time!Op
<1>4. /\ p \notin TCount /\ p \notin TPoll /\ p \notin TKeep /\ p \notin TSleep
      /\ p \notin TApplied /\ p \notin TAdvance /\ p \notin TWrite /\ p \notin TExpect
  BY <1>1, <1>3
<1>5. p \notin TSend
  BY <1>2, <1>3
<1>. QED BY <1>4, <1>5, TestPlace

\* What the invariant says of every state.
LEMMA TimePromises ==
    ASSUME TimeInv
    PROVE  /\ Time!TypeOK /\ Time!SnapshotCoherent
           /\ Time!PassHasEvidence /\ Time!PassMeansRestored
<1>1. /\ TimeTypes /\ TimeSafe /\ TimeBuffer /\ TimeProof
  BY DEF TimeInv
<1>2. Time!TypeOK
  <2>1. remote[Time!Cob] \in {"on", "off"}
    BY <1>1 DEF TimeTypes, Time!Objects, TimeStates
  <2>2. rx \in 0..(Time!RxRange - 1)
    BY <1>1 DEF TimeTypes, Time!RxRange
  <2>. QED BY <1>1, <2>1, <2>2 DEF Time!TypeOK, TimeTypes
<1>3. Time!SnapshotCoherent
  <2>1. SUFFICES ASSUME pc = "test", pos > 1, Time!Script[pos - 1].kind = "diag"
                 PROVE  Time!timePosition(diag.ms, diag.days) = diag.clock
    BY DEF Time!SnapshotCoherent
  <2>2. pos \in 2..41 /\ pos - 1 \in 1..41 /\ TimeTest
    BY <1>1, <2>1 DEF TimeTypes, TimeInv
  <2>3. Time!Script = Time!Tests
    BY <1>1, <2>1, OtherScripts DEF Time!Scripted
  <2>4. pos - 1 \in TDiag
    BY <2>1, <2>2, <2>3, DiagKinds
  <2>5. pos \in AfterDiag
    BY <2>2, <2>4 DEF TDiag, AfterDiag
  <2>. QED BY <2>2, <2>5 DEF TimeTest, TimeOrder, Coherent
<1>4. Time!PassHasEvidence
  BY <1>1 DEF Time!PassHasEvidence, TimeProof, TimeEvidence
<1>5. Time!PassMeansRestored
  BY <1>1 DEF Time!PassMeansRestored, TimeSafe, TimeBuffer
<1>. QED BY <1>2, <1>3, <1>4, <1>5

\* A slave is started only with its own 0x1012.
LEMMA TimeStartSafe ==
    ASSUME TimeInv, Time!Next
    PROVE  Time!StartedOnlyRestored
<1>1. SUFFICES ASSUME pc = "start", flags.slave_needs_start, ~flags'.slave_needs_start
               PROVE  flags.restoration_verified
  BY DEF Time!StartedOnlyRestored, TimeInv, TimeSafe
<1>2. TimeTypes /\ pc \notin Time!Scripted /\ flags' # flags
  BY <1>1 DEF TimeInv, Time!Scripted
<1>3. CASE Time!StartSlave
  BY <1>1, <1>3 DEF Time!StartSlave
<1>4. CASE ~Time!StartSlave
  <2>1. flags' = flags
    BY <1>1, <1>2, <1>4 DEF Time!Next, Time!Tick, Time!Receive, Time!LoseFrame, Time!ApplyTime, Time!LateEffect,
       Time!thread, Time!control, Time!Thread, Time!Done, Time!vars, Time!At, Time!DiagnosticStep,
       Time!ReadOriginal, Time!readRxCount, Time!sendTimeFrame, Time!waitForRxCount, Time!waitForAppliedTime,
       Time!KeepDiagnostic, Time!Sleep, Time!validateContinuousAdvance, Time!WriteCobId, Time!ExpectCobId,
       Time!ResetSlaveCommunication, Time!Cleanup, Time!Verdict
  <2>. QED BY <1>2, <2>1
<1>. QED BY <1>3, <1>4

-----------------------------------------------------------------------------
(* The process that runs.                                                  *)

\* The inductive invariant: the one of the chosen process.
TimedInv ==
    /\ chosen \in {"pdo", "syncPdo", "time"}
    /\ chosen = "pdo" => PdoInv
    /\ chosen = "syncPdo" => SyncInv
    /\ chosen = "time" => TimeInv

\* Nothing happens to the PDO validation.
LEMMA PdoIdle ==
    ASSUME PdoInv, UNCHANGED vars
    PROVE  PdoInv'
<1>1. UNCHANGED <<remote, late, reply, op, defect, wire, mapped, calling, receive_state, rpdo, view, attempt,
                  original_value, original_value_saved, completion_wait_timed_out, pc, result, verdict, applied,
                  transmit_state>>
  BY DEF vars, pdoVars, pdoTimeVars
<1>2. PdoTypes'
  BY <1>1 DEF PdoInv, PdoTypes, Pdo!NoFrame, Pdo!Frame
<1>3. PdoFrames'
  BY <1>1, PdoFramesKept DEF PdoInv
<1>4. PdoViews'
  BY <1>1 DEF PdoInv, PdoViews, PdoClean, PdoMap, PdoOd, Pdo!VerdictIsSound
<1>5. PdoProbe'
  BY <1>1 DEF PdoInv, PdoProbe, Pdo!PassMeansRestored, Pdo!ProbeValue
<1>. QED BY <1>2, <1>3, <1>4, <1>5 DEF PdoInv

\* Nothing happens to the SYNC PDO validation.
LEMMA SyncIdle ==
    ASSUME SyncInv, UNCHANGED vars
    PROVE  SyncInv'
<1>1. UNCHANGED <<remote, late, stored, nmt, period, observed, failed, pc, pos, result, original, flags,
                  refused, produced, tpdos, restored>>
  BY DEF vars, syncPdoTimeVars, syncPdoVars
<1>2. SyncTypes'
  BY <1>1 DEF SyncInv, SyncTypes
<1>3. SyncSafe' /\ SyncLocal'
  BY <1>1 DEF SyncInv, SyncSafe, SyncLocal, SyncPdo!SyncProducerRestored
<1>4. SyncPath'
  BY <1>1 DEF SyncInv, SyncPath, SyncHas
<1>5. SyncCounted'
  BY <1>1, SyncCountKept DEF SyncInv, SyncCounted
<1>. QED BY <1>2, <1>3, <1>4, <1>5 DEF SyncInv

\* Nothing happens to the TIME validation.
LEMMA TimeIdle ==
    ASSUME TimeInv, UNCHANGED vars
    PROVE  TimeInv'
<1>1. UNCHANGED <<remote, late, time, rx, buffer, pending, wire, nmt, defect, host, pc, pos, result, flags,
                  sub, attempt, diag, before, previous_count, original, applied, lost>>
  BY DEF vars, pdoTimeVars, syncPdoTimeVars, timeVars
<1>2. TimeTypes' /\ TimeSafe' /\ TimeBuffer'
  BY <1>1 DEF TimeInv, TimeTypes, TimeSafe, TimeBuffer
<1>3. TimeProof'
  BY <1>1 DEF TimeInv, TimeProof, TimeEvidence
<1>4. ASSUME TimeTest PROVE TimeTest'
  <2>1. TimeClock' /\ TimeFrames' /\ TimeShown'
    BY <1>1, <1>4 DEF TimeTest, TimeClock, Taken, Misled, TimeFrames, TimeShown
  <2>2. TimeCounts' /\ TimeOrder'
    BY <1>1, <1>4 DEF TimeTest, TimeCounts, TimeOrder
  <2>3. TimeViews'
    BY <1>1, <1>4 DEF TimeTest, TimeViews, Read, Taken
  <2>. QED BY <2>1, <2>2, <2>3 DEF TimeTest
<1>. QED BY <1>1, <1>2, <1>3, <1>4 DEF TimeInv

\* The invariant holds, whichever process runs.
THEOREM TimedInvariant == Spec => []TimedInv
<1>1. Init => TimedInv
  BY PdoStarts, SyncStarts, TimeStarts DEF Init, TimedInv
<1>2. TimedInv /\ [Next]_vars => TimedInv'
  <2>1. SUFFICES ASSUME TimedInv, [Next]_vars PROVE TimedInv'
    OBVIOUS
  <2>2. CASE RunPdo
    BY <2>1, <2>2, PdoStays DEF TimedInv, RunPdo, notPdo
  <2>3. CASE RunSyncPdo
    BY <2>1, <2>3, SyncStays DEF TimedInv, RunSyncPdo, notSyncPdo
  <2>4. CASE RunTime
    BY <2>1, <2>4, TimeStays DEF TimedInv, RunTime, notTime
  <2>5. CASE UNCHANGED vars
    <3>1. chosen' = chosen
      BY <2>5 DEF vars
    <3>. QED BY <2>1, <2>5, <3>1, PdoIdle, SyncIdle, TimeIdle DEF TimedInv
  <2>. QED BY <2>1, <2>2, <2>3, <2>4, <2>5 DEF Next
<1>. QED BY <1>1, <1>2, PTL DEF Spec

\* Type correctness of the process that runs (pdo_process.cpp,
\* sync_pdo_process.cpp, time_process.cpp).
THEOREM TimedTypeOK == Spec => []TypeOK
<1>1. TimedInv => TypeOK
  BY PdoPromises, SyncPromises, TimePromises DEF TimedInv, TypeOK
<1>. QED BY <1>1, TimedInvariant, PTL

\* verifyTpdoOdConsistency() judges the slave and not the moment, whatever
\* TPDO lands between its samples, and a snapshot that readTimeDiagnostic()
\* accepts is the slave's clock at one moment.
THEOREM TimedReadingsAreSound == Spec => []ReadingsAreSound
<1>1. TimedInv => ReadingsAreSound
  BY PdoPromises, TimePromises DEF TimedInv, ReadingsAreSound
<1>. QED BY <1>1, TimedInvariant, PTL

\* A pass of pdoProcess(), syncPdoProcess() or timeProcess() rests on what the
\* process is about: an RPDO the slave took, as many TPDOs as SYNCs, every
\* injected time, and none of the defects the TIME cases look for.
THEOREM TimedPassHasEvidence == Spec => []PassHasEvidence
<1>1. TimedInv => PassHasEvidence
  BY PdoPromises, SyncPromises, TimePromises DEF TimedInv, PassHasEvidence
<1>. QED BY <1>1, TimedInvariant, PTL

\* A pass leaves the slave as it was found, with no abandoned write under way;
\* the master's SYNC period is back unless a local write was refused.
THEOREM TimedPassMeansRestored == Spec => []PassMeansRestored
<1>1. TimedInv => PassMeansRestored
  BY PdoPromises, SyncPromises, TimePromises DEF TimedInv, PassMeansRestored
<1>. QED BY <1>1, TimedInvariant, PTL

\* syncPdoProcess() and timeProcess() start a slave they reconfigured only
\* with its own parameters and no abandoned write left.
THEOREM TimedStartedOnlyRestored == Spec => StartedOnlyRestored
<1>1. TimedInv /\ [Next]_vars =>
         [/\ chosen = "syncPdo" => SyncPdo!StartedOnlyRestored
          /\ chosen = "time" => Time!StartedOnlyRestored]_vars
  <2>1. SUFFICES ASSUME TimedInv, Next
                 PROVE  /\ chosen = "syncPdo" => SyncPdo!StartedOnlyRestored
                        /\ chosen = "time" => Time!StartedOnlyRestored
    OBVIOUS
  <2>2. chosen = "syncPdo" => SyncInv /\ SyncPdo!Next
    BY <2>1 DEF TimedInv, Next, RunPdo, RunSyncPdo, RunTime
  <2>3. chosen = "time" => TimeInv /\ Time!Next
    BY <2>1 DEF TimedInv, Next, RunPdo, RunSyncPdo, RunTime
  <2>. QED BY <2>2, <2>3, SyncStartSafe, TimeStartSafe
<1>. QED BY <1>1, TimedInvariant, PTL DEF Spec, StartedOnlyRestored

=============================================================================
