--------------------------- MODULE StorageProcess ---------------------------
(***************************************************************************)
(* Storage persistence validation (src/storage_process.cpp): the process   *)
(* changes the slave's EEPROM on purpose (saves, erased and corrupted      *)
(* images, resets, power cuts) and must put every byte back, or say that   *)
(* the environment is DIRTY.  Each mode is a script of operations; the     *)
(* first one that fails ends the script, and cleanupBaseline() runs in any *)
(* case once the baseline is captured.                                     *)
(*                                                                         *)
(* A remote operation is one step with the outcomes of SdoService: an      *)
(* abandoned one may take effect later, but is served before any later     *)
(* one.  A diagnostic command of OD 0x2305 is committed by its last write, *)
(* REQUEST_SEQ, and counts as one operation.                               *)
(*                                                                         *)
(* External: the slave serves frames in order, so a reset takes place      *)
(* before a later SDO request is answered; on every boot it loads the      *)
(* image, then Lely's boot procedure writes 0x1017 and reports OnBoot.     *)
(* A power cut during a save leaves the old, the new or a torn image.      *)
(***************************************************************************)
EXTENDS Naturals, Sequences

CONSTANT Modes   \* values of the mode environment variable under test

VARIABLES
    nv, backup,       \* external: EEPROM image, its copy in target RAM
    runtime, startup, \* external: 0x1017 and the startup snapshot of the slave
    late,             \* abandoned operations that may still take effect
    resets, booting,  \* external: resets under way, boot procedure running
    calling,          \* external: OnBoot callback under way
    g_boot,           \* g_boot_received/g_boot_succeeded: "none", "ok", "failed"
    consumer,         \* local 0x1016: "on" or "off"
    mode, pc, pos, sub, outage, captured, baseline, passed, dirty,
    refused,          \* history: a local write was refused
    booted            \* history: images the slave booted with since capture

slave == <<nv, backup, runtime, startup, late>>
boot == <<resets, booting, calling, g_boot>>
control == <<mode, pc, pos, sub, outage, captured, baseline, passed, dirty>>
vars == <<slave, boot, consumer, control, refused, booted>>

Image(sig, probe) == [sig |-> sig, probe |-> probe]
NoImage == Image("none", "factory")
Startup(state, probe) == [state |-> state, probe |-> probe]

\* Storage initialization: a bad payload CRC is noticed after the load, a
\* bad signature before.
StartupOf(image) ==
    CASE image.sig = "ok"     -> Startup("OK", image.probe)
      [] image.sig = "badcrc" -> Startup("DATA_CORRUPT", image.probe)
      [] OTHER                -> Startup("DATA_CORRUPT", "factory")

Op(kind, arg) == [kind |-> kind, arg |-> arg]
Save(probe) == <<Op("write", probe), Op("save", probe)>>
RestoreRaw == <<Op("rawPart", "-"), Op("rawAll", "-"), Op("verifyRaw", "-")>>

\* Mutant: the startup evidence is read without a reset.
ExpectWithoutReset(state, probe) == <<Op("expect", Startup(state, probe))>>

ResetAndExpect(state, probe) ==
    <<Op("reset", "-"), Op("expect", Startup(state, probe))>>

runCoreMode ==
    <<Op("mutate", "-"), Op("ramRestore", "-"), Op("verifyRaw", "-")>>
    \o Save("p1") \o <<Op("expectSig", "ok")>> \o ResetAndExpect("OK", "p1")
    \o Save("p2") \o ResetAndExpect("OK", "p2")

runRestoreMode ==
    Save("p1") \o <<Op("load", "-"), Op("expectSig", "erased")>>
    \o ResetAndExpect("DATA_CORRUPT", "factory")

runCorruptionMode ==
    Save("p1") \o <<Op("corruptSignature", "-")>>
    \o ResetAndExpect("DATA_CORRUPT", "factory")
    \o RestoreRaw \o Save("p2") \o <<Op("corruptData", "-")>>
    \o ResetAndExpect("DATA_CORRUPT", "p2")

runPowerCycleMode ==
    Save("p1") \o <<Op("power", "-"), Op("expect", Startup("OK", "p1"))>>
    \o RestoreRaw \o <<Op("power", "-"), Op("expectBaseline", "-")>>

runPowerInterruptionMode ==
    Save("p1") \o <<Op("write", "p2"), Op("cutSave", "-"), Op("classify", "-")>>

Script ==
    CASE mode = "core"               -> runCoreMode
      [] mode = "restore"            -> runRestoreMode
      [] mode = "corruption"         -> runCorruptionMode
      [] mode = "power-cycle"        -> runPowerCycleMode
      [] mode = "power-interruption" -> runPowerInterruptionMode

\* Mutant: cleanup restores the image but never reloads it.
CleanupWithoutReload == RestoreRaw \o <<Op("write", "runtime")>>

\* cleanupBaseline(): raw image, reload, evidence, runtime value.
CleanupScript ==
    RestoreRaw \o <<Op("reset", "-"), Op("expectBaseline", "-"),
                    Op("write", "runtime")>>

Current == IF pc = "cleanup" THEN CleanupScript[pos] ELSE Script[pos]
Running == pc \in {"script", "cleanup"}

Init ==
    /\ nv \in {Image("ok", "p1"), Image("ok", "q"), Image("erased", "q")}
    /\ startup \in {StartupOf(nv), Startup("OK", "q")}
    /\ backup = NoImage /\ runtime \in {"dcf", "q"} /\ late = <<>>
    /\ resets = 0 /\ booting = FALSE /\ calling = FALSE /\ g_boot = "ok"
    /\ consumer = "on"
    /\ mode \in Modes
    /\ pc = "capture" /\ pos = 1 /\ sub = "start" /\ outage = TRUE
    /\ captured = FALSE /\ passed = TRUE /\ dirty = FALSE
    /\ baseline = [image |-> nv, startup |-> startup, runtime |-> runtime]
    /\ refused = FALSE
    /\ booted = {}

-----------------------------------------------------------------------------
(* The slave, Lely's boot procedure and the operator.                      *)

Reboot ==
    /\ startup' = StartupOf(nv)
    /\ runtime' = startup'.probe
    /\ backup' = NoImage
    /\ booting' = TRUE
    /\ booted' = booted \cup {nv}

SlaveResets ==
    /\ resets > 0
    /\ resets' = resets - 1
    /\ Reboot
    /\ UNCHANGED <<nv, late, calling, g_boot, consumer, control, refused>>

\* The operator acts while the process waits for it.
PowerCycled ==
    /\ Running /\ sub = "wait" /\ Current.kind = "power" /\ ~booting
    /\ Reboot
    /\ UNCHANGED <<nv, late, resets, calling, g_boot, consumer, control, refused>>

\* Lely has configured the slave and is about to report it.
BootConfigures ==
    /\ booting /\ ~calling
    /\ booting' = FALSE
    /\ runtime' = "dcf"
    /\ calling' = TRUE
    /\ UNCHANGED <<nv, backup, startup, late, resets, g_boot, consumer, control,
                   refused, booted>>

bootCallback ==
    /\ calling
    /\ calling' = FALSE
    /\ g_boot' \in {"ok", "failed"}
    /\ UNCHANGED <<slave, resets, booting, consumer, control, refused, booted>>

-----------------------------------------------------------------------------
(* Remote operations.                                                      *)

\* What an operation does to the image, the RAM copy and 0x1017.
Effect(op) ==
    LET image == CASE op.kind = "save" -> Image("ok", runtime)
                   [] op.kind = "load" -> [nv EXCEPT !.sig = "erased"]
                   [] op.kind = "mutate" -> [nv EXCEPT !.sig = "mutated"]
                   [] op.kind = "corruptSignature" -> [nv EXCEPT !.sig = "badsig"]
                   [] op.kind = "corruptData" -> [nv EXCEPT !.sig = "badcrc"]
                   [] op.kind = "ramRestore" /\ backup # NoImage -> backup
                   [] op.kind = "rawPart" /\ nv # baseline.image
                                          -> [nv EXCEPT !.sig = "torn"]
                   [] op.kind = "rawAll" -> baseline.image
                   [] OTHER -> nv
    IN  /\ nv' = image
        /\ runtime' = IF op.kind # "write" THEN runtime
                      ELSE IF op.arg = "runtime" THEN baseline.runtime
                      ELSE op.arg
        /\ UNCHANGED <<backup, startup>>

NoEffect == UNCHANGED <<nv, backup, runtime, startup>>

Script0(next) == pc' = next /\ pos' = 1 /\ sub' = "start"

\* The current operation succeeded.
Advance ==
    /\ \/ /\ pc = "script" /\ pos = Len(Script)
          /\ Script0("cleanup")
       \/ /\ pc = "cleanup" /\ pos = Len(CleanupScript)
          /\ Script0("done")
       \/ /\ pos < Len(IF pc = "script" THEN Script ELSE CleanupScript)
          /\ pos' = pos + 1 /\ sub' = "start" /\ UNCHANGED pc
    /\ UNCHANGED <<mode, captured, baseline, passed, dirty>>

\* Mutant: a failed cleanup is tried again and again.
FailRetriesCleanup ==
    /\ passed' = FALSE
    /\ Script0("cleanup")
    /\ UNCHANGED <<mode, captured, baseline, dirty>>

\* The current operation failed: cleanup, or DIRTY when that was cleanup.
Fail ==
    /\ passed' = FALSE
    /\ \/ pc = "script" /\ Script0("cleanup") /\ UNCHANGED dirty
       \/ pc = "cleanup" /\ Script0("done") /\ dirty' = TRUE
    /\ UNCHANGED <<mode, captured, baseline>>

Writes == {"write", "save", "load", "mutate", "corruptSignature",
           "corruptData", "ramRestore", "rawPart", "rawAll"}
Idle == late = <<>> /\ resets = 0   \* nothing earlier left to serve

Submit(op) ==
    \/ Idle /\ Effect(op) /\ UNCHANGED late           \* lost answer
    \/ NoEffect /\ UNCHANGED late                     \* lost or refused
    \/ NoEffect /\ late' = Append(late, op)           \* given up

WriteOp ==
    /\ Running /\ sub = "start" /\ Current.kind \in Writes
    /\ \/ Idle /\ Effect(Current) /\ UNCHANGED late /\ Advance
       \/ Submit(Current) /\ Fail
    /\ UNCHANGED <<outage, boot, consumer, refused, booted>>

LateEffect ==
    /\ late # <<>>
    /\ late' = Tail(late)
    /\ \/ resets = 0 /\ Effect(Head(late))
       \/ NoEffect
    /\ UNCHANGED <<boot, consumer, control, refused, booted>>

Matches(op) ==
    CASE op.kind = "verifyRaw" -> nv = baseline.image
      [] op.kind = "expectSig" -> nv.sig = op.arg
      [] op.kind = "expect" -> startup = op.arg
      [] op.kind = "expectBaseline" -> startup = baseline.startup
      [] op.kind = "classify" ->
            \/ startup.state = "DATA_CORRUPT"
            \/ startup.state = "OK" /\ startup.probe \in {"p1", "p2"}

Checks == {"verifyRaw", "expectSig", "expect", "expectBaseline", "classify"}

\* A read-only check; its reads may also fail.
CheckOp ==
    /\ Running /\ sub = "start" /\ Current.kind \in Checks
    /\ \/ Idle /\ Matches(Current) /\ Advance
       \/ Fail
    /\ UNCHANGED <<slave, boot, consumer, outage, refused, booted>>

-----------------------------------------------------------------------------
(* Expected outages: resetNodeAndWait(), waitForOperatorPowerCycle() and    *)
(* the interrupted save.                                                   *)

Outages == {"reset", "power", "cutSave"}
Sub(next) == sub' = next /\ UNCHANGED <<mode, pc, pos, captured, baseline,
                                        passed, dirty>>

suspendHeartbeatConsumer ==
    /\ Running /\ sub = "start" /\ Current.kind \in Outages
    /\ \/ consumer' = "off" /\ Sub("prepare") /\ UNCHANGED refused
       \/ UNCHANGED consumer /\ Fail /\ refused' = TRUE
    /\ UNCHANGED <<slave, boot, outage, booted>>

prepareBootWait ==
    /\ Running /\ sub = "prepare"
    /\ g_boot' = "none"
    /\ outage' = TRUE
    /\ Sub(IF Current.kind = "power" THEN "wait" ELSE "command")
    /\ UNCHANGED <<slave, resets, booting, calling, consumer, refused, booted>>

issueReset ==
    /\ Running /\ sub = "command" /\ Current.kind = "reset"
    /\ \/ resets' = resets + 1 /\ Sub("wait") /\ UNCHANGED outage
       \/ UNCHANGED resets /\ outage' = FALSE /\ Sub("resume")
    /\ UNCHANGED <<slave, booting, calling, g_boot, consumer, refused, booted>>

\* The save the operator interrupts: no success may be seen.
CutSave ==
    /\ Running /\ sub = "command" /\ Current.kind = "cutSave"
    /\ \/ /\ Idle /\ Effect(Op("save", "-")) /\ UNCHANGED <<late, booting, booted>>
          /\ outage' = FALSE /\ Sub("resume")
       \/ /\ Submit(Op("save", "-")) /\ UNCHANGED <<booting, booted, outage>>
          /\ Sub("wait")
       \/ /\ Idle
          /\ nv' \in {nv, Image("ok", runtime), [nv EXCEPT !.sig = "torn"]}
          /\ startup' = StartupOf(nv') /\ runtime' = startup'.probe
          /\ backup' = NoImage /\ booting' = TRUE
          /\ booted' = booted \cup {nv'}
          /\ UNCHANGED <<late, outage>> /\ Sub("wait")
    /\ UNCHANGED <<resets, calling, g_boot, consumer, refused>>

waitForBootCompletion ==
    /\ Running /\ sub = "wait"
    /\ outage' = (g_boot = "ok")   \* else a failed boot or the timeout
    /\ Sub("resume")
    /\ UNCHANGED <<slave, boot, consumer, refused, booted>>

\* Mutant: supervision comes back only after a successful boot.
ResumeOnlyOnBoot ==
    /\ Running /\ sub = "resume"
    /\ \/ /\ outage /\ consumer' = "on" /\ UNCHANGED refused /\ Advance
       \/ /\ outage /\ UNCHANGED consumer /\ refused' = TRUE /\ Fail
       \/ /\ ~outage /\ UNCHANGED <<consumer, refused>> /\ Fail
    /\ UNCHANGED <<slave, boot, outage, booted>>

restoreHeartbeatConsumer ==
    /\ Running /\ sub = "resume"
    /\ \/ /\ consumer' = "on" /\ UNCHANGED refused
          /\ \/ outage /\ Advance
             \/ ~outage /\ Fail
       \/ UNCHANGED consumer /\ refused' = TRUE /\ Fail
    /\ UNCHANGED <<slave, boot, outage, booted>>

-----------------------------------------------------------------------------
(* The whole process.                                                      *)

\* captureBaseline(), and for the core mode its read-only checks before it:
\* nothing but the RAM copy changes until the baseline is complete.
captureBaseline ==
    /\ pc = "capture"
    /\ baseline' = [image |-> nv, startup |-> startup, runtime |-> runtime]
    /\ \/ /\ captured' = TRUE
          /\ backup' = nv
          /\ Script0("script")
          /\ UNCHANGED passed
       \/ /\ captured' = FALSE
          /\ backup' \in {backup, nv}
          /\ Script0("done")
          /\ passed' = FALSE
    /\ UNCHANGED <<nv, runtime, startup, late, boot, consumer, mode, outage,
                   dirty, refused, booted>>

Done == pc = "done" /\ UNCHANGED vars

Next ==
    \/ SlaveResets \/ PowerCycled \/ BootConfigures \/ bootCallback
    \/ captureBaseline \/ WriteOp \/ CheckOp \/ LateEffect
    \/ suspendHeartbeatConsumer \/ prepareBootWait \/ issueReset \/ CutSave
    \/ waitForBootCompletion \/ restoreHeartbeatConsumer
    \/ Done

Spec == Init /\ [][Next]_vars

-----------------------------------------------------------------------------
(* Properties.                                                             *)

Probes == {"factory", "dcf", "q", "p1", "p2"}
Images == [sig : {"ok", "erased", "badsig", "badcrc", "torn", "mutated"},
           probe : Probes]

\* Type correctness; at most one operation of the script and one of the
\* cleanup are ever abandoned.
TypeOK ==
    /\ nv \in Images /\ backup \in Images \cup {NoImage}
    /\ runtime \in Probes
    /\ startup \in [state : {"OK", "DATA_CORRUPT"}, probe : Probes]
    /\ Len(late) <= 2
    /\ resets \in 0..2
    /\ booting \in BOOLEAN /\ calling \in BOOLEAN
    /\ g_boot \in {"none", "ok", "failed"}
    /\ consumer \in {"on", "off"}
    /\ pc \in {"capture", "script", "cleanup", "done"}
    /\ sub \in {"start", "prepare", "command", "wait", "resume"}
    /\ outage \in BOOLEAN /\ captured \in BOOLEAN /\ passed \in BOOLEAN
    /\ dirty \in BOOLEAN /\ refused \in BOOLEAN
    /\ booted \subseteq Images

\* A process that does not say DIRTY has put the EEPROM back byte for byte,
\* the slave has booted with it, and no abandoned save, corruption or reset
\* is left that could undo it.
CleanMeansRestored ==
    (pc = "done" /\ ~dirty) =>
        /\ nv = baseline.image
        /\ captured => /\ startup = baseline.startup
                       /\ baseline.image \in booted
                       /\ late = <<>> /\ resets = 0

\* A pass is evidence from a boot, never from the values before it: the
\* slave really started with each image the mode is about.
PassMeansBooted ==
    (pc = "done" /\ passed) =>
        CASE mode = "core" -> {Image("ok", "p1"), Image("ok", "p2")} \subseteq booted
          [] mode = "restore" -> Image("erased", "p1") \in booted
          [] mode = "corruption" ->
                {Image("badsig", "p1"), Image("badcrc", "p2")} \subseteq booted
          [] mode = "power-cycle" -> Image("ok", "p1") \in booted
          [] OTHER -> TRUE

\* Whatever happens, the master supervises the slave's heartbeat again at the
\* end, unless its own object dictionary refused the write.
SupervisionRestored == pc = "done" => consumer = "on" \/ refused
=============================================================================
