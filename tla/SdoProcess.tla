----------------------------- MODULE SdoProcess -----------------------------
(***************************************************************************)
(* SDO object-access validation (src/sdo_process.cpp): save 0x2200:00,     *)
(* write a probe, read it back, restore and verify, with a cleanup policy  *)
(* that depends on the exact failure class.  Each step is one call of the  *)
(* SDO service; abandoned writes may land at any time.                     *)
(***************************************************************************)
EXTENDS Integers, Sequences

CONSTANTS Values,    \* values of the control object
          Probe,     \* kProbeValue
          Alternate  \* kAlternateProbeValue

ASSUME ProbeAssumption ==
    /\ Probe \in Values /\ Alternate \in Values
    /\ Probe # Alternate

VARIABLES remote, late, reply,   \* the SDO service
          pc, original_value, result,
          held,      \* history: the server held the test value
          gaveUp,    \* history: some call returned WAIT_TIMEOUT
          restoring  \* history: a restore was attempted

procVars == <<pc, original_value, result, held, gaveUp, restoring>>
vars == <<remote, late, reply, procVars>>

Control == "0x2200:00"

Sdo == INSTANCE SdoService WITH Objects <- {Control}

Init ==
    /\ \E v \in Values : Sdo!SdoInit([o \in {Control} |-> v])
    /\ pc = "readOriginal"
    /\ original_value \in Values
    /\ result = 0
    /\ held = FALSE
    /\ gaveUp = FALSE
    /\ restoring = FALSE

test_value == IF original_value = Probe THEN Alternate ELSE Probe

\* Every call ends with an answer; the histories follow.
Observe ==
    /\ held' = (held \/ (pc # "readOriginal" /\ remote'[Control] = test_value))
    /\ gaveUp' = (gaveUp \/ reply'.class = "WAIT_TIMEOUT")

ReadOriginal ==
    /\ pc = "readOriginal"
    /\ Sdo!SdoRead(Control)
    /\ \/ /\ reply'.class = "SUCCESS"
          /\ original_value' = reply'.value
          /\ pc' = "writeTest"
          /\ UNCHANGED result
       \/ /\ reply'.class # "SUCCESS"
          /\ pc' = "done"
          /\ result' = 1
          /\ UNCHANGED original_value
    /\ Observe
    /\ UNCHANGED restoring

\* Mutant: a protocol timeout of the test write ends the process at once.
WriteTestNoCleanup ==
    /\ pc = "writeTest"
    /\ Sdo!SdoWrite(Control, test_value)
    /\ \/ reply'.class = "SUCCESS" /\ pc' = "readBack" /\ result' = 0
       \/ reply'.class # "SUCCESS" /\ pc' = "done" /\ result' = 1
    /\ Observe
    /\ UNCHANGED <<original_value, restoring>>

\* Only a protocol timeout, after which the channel is known, is cleaned up.
WriteTest ==
    /\ pc = "writeTest"
    /\ Sdo!SdoWrite(Control, test_value)
    /\ \/ reply'.class = "SUCCESS" /\ pc' = "readBack" /\ result' = 0
       \/ reply'.class = "SDO_TIMEOUT" /\ pc' = "restoreWrite" /\ result' = 1
       \/ /\ reply'.class \in {"WAIT_TIMEOUT", "FAILED"}
          /\ pc' = "done"
          /\ result' = 1
    /\ Observe
    /\ UNCHANGED <<original_value, restoring>>

ReadBack ==
    /\ pc = "readBack"
    /\ Sdo!SdoRead(Control)
    /\ result' = IF reply' = [class |-> "SUCCESS", value |-> test_value]
                 THEN result ELSE 1
    /\ pc' = IF reply'.class = "WAIT_TIMEOUT" THEN "done" ELSE "restoreWrite"
    /\ Observe
    /\ UNCHANGED <<original_value, restoring>>

\* Mutant: the restore reads back although its write was abandoned.
RestoreWriteCarriesOn ==
    /\ pc = "restoreWrite"
    /\ restoring' = TRUE
    /\ Sdo!SdoWrite(Control, original_value)
    /\ \/ reply'.class # "FAILED" /\ pc' = "restoreRead" /\ result' = result
       \/ reply'.class = "FAILED" /\ pc' = "done" /\ result' = 1
    /\ Observe
    /\ UNCHANGED original_value

\* restoreControlValue(): the write; a protocol timeout is settled by the
\* read-back.
RestoreWrite ==
    /\ pc = "restoreWrite"
    /\ restoring' = TRUE
    /\ Sdo!SdoWrite(Control, original_value)
    /\ \/ /\ reply'.class \in {"SUCCESS", "SDO_TIMEOUT"}
          /\ pc' = "restoreRead"
          /\ result' = result
       \/ /\ reply'.class \in {"WAIT_TIMEOUT", "FAILED"}
          /\ pc' = "done"
          /\ result' = 1
    /\ Observe
    /\ UNCHANGED original_value

\* Mutant: the restored value is read but not compared.
RestoreReadUnchecked ==
    /\ pc = "restoreRead"
    /\ Sdo!SdoRead(Control)
    /\ result' = IF reply'.class = "SUCCESS" THEN result ELSE 1
    /\ pc' = "done"
    /\ Observe
    /\ UNCHANGED <<original_value, restoring>>

\* Mutant: the failures of the steps are added up.
RestoreReadAddsUp ==
    /\ pc = "restoreRead"
    /\ Sdo!SdoRead(Control)
    /\ result' = IF reply' = [class |-> "SUCCESS", value |-> original_value]
                 THEN result ELSE result + 1
    /\ pc' = "done"
    /\ Observe
    /\ UNCHANGED <<original_value, restoring>>

\* restoreControlValue(): the independent verification.
RestoreRead ==
    /\ pc = "restoreRead"
    /\ Sdo!SdoRead(Control)
    /\ result' = IF reply' = [class |-> "SUCCESS", value |-> original_value]
                 THEN result ELSE 1
    /\ pc' = "done"
    /\ Observe
    /\ UNCHANGED <<original_value, restoring>>

\* An abandoned write lands or is lost.
LateEffect ==
    /\ Sdo!LateWrite \/ Sdo!LateLoss
    /\ UNCHANGED procVars

Done == pc = "done" /\ UNCHANGED vars

Next ==
    \/ ReadOriginal \/ WriteTest \/ ReadBack \/ RestoreWrite \/ RestoreRead
    \/ LateEffect
    \/ Done

Spec == Init /\ [][Next]_vars

-----------------------------------------------------------------------------
(* Properties.                                                             *)

\* Type correctness.
TypeOK ==
    /\ remote \in [{Control} -> Values]
    /\ late \in Seq({Control} \X Values)
    /\ reply \in [class : Sdo!Classes, value : Values]
    /\ pc \in {"readOriginal", "writeTest", "readBack", "restoreWrite",
               "restoreRead", "done"}
    /\ original_value \in Values
    /\ result \in {0, 1}
    /\ held \in BOOLEAN /\ gaveUp \in BOOLEAN /\ restoring \in BOOLEAN

\* PASS is proof: the server did hold the probe, holds the original value
\* again, and no abandoned request can change it any more.
PassMeansRestored ==
    (pc = "done" /\ result = 0) =>
        held /\ remote[Control] = original_value /\ late = <<>>

\* Once a call gave up waiting, the process makes no further SDO call: a
\* cleanup write could race with the abandoned one.
NoCallOnUnknownChannel == gaveUp => pc = "done"

\* The object is never left changed silently: when the process ends with the
\* entry changed, either the channel is unknown or a restore was attempted
\* (and its failure reported).
NeverSilentlyModified ==
    (pc = "done" /\ held /\ remote[Control] # original_value) =>
        gaveUp \/ (restoring /\ result = 1)
=============================================================================
