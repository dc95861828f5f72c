# A TLA+ model of the CANopen slave tester

The repository is a Linux program that validates a CANopen device over a CAN
bus with the Lely stack. Built as a *master* it runs a table of validation
processes against a slave (the MCU); built as a *slave* it lets a device under
test exercise its NMT master role. A validation process changes the device on
purpose (stops heartbeats, corrupts storage, resets it, overwrites objects),
observes the reaction and must put everything back.

What can go wrong is rarely a wrong byte. It is a verdict without evidence (a
stale callback, an old mailbox result, a torn snapshot), a device or the Host
left changed after a failure, and a thread that never ends. The modules here
describe the control of the program (every wait, early return and cleanup path)
and state those concerns as properties. TLC checks them on small instances;
TLAPS proves the core ones for all parameters.

## 1. Inventory

Two threads: the *control thread* (`main`, the processes) and the *worker*,
which runs Lely's event loop and all callbacks. A signal handler sets one flag.
They share state under mutexes and condition variables; every wait has a time
limit.

| Component | Source | State | Operations | Hard because | Correct when |
|---|---|---|---|---|---|
| EMCY observer | `canopen_emcy.cpp` | sequence number, deque of 32 events | callback, snapshot, filtered wait, list | bounded history, callbacks during a wait | a timeout hid no remembered match |
| NMT helper | `canopen_nmt.cpp` | generation and state per node | state callback, command with wait | queued reports, only the latest state is kept | confirmation rests on evidence, a timeout loses none |
| SDO helpers | `canopen_sdo.h` | completion state per call | four blocking calls | the request outlives the caller that gave up | the answer class means what callers rely on |
| Lifecycle | `main.cpp`, `canopen_process.cpp`, `shutdown_process.cpp` | loop flags, stop flag, error count | start, table, poll, final reset, join | loop death, signals, late start | exit 0 is earned; the program ends |
| Boot waits | `nmt_heartbeat.cpp` | two flags | callback, prepare, wait | overlapping boot procedures | a wait is satisfied by its own boot |
| Heartbeat validation | `nmt_heartbeat.cpp` | two flags, snapshots | both directions | EMCY, consumer callbacks and SDO race | both losses and recoveries really happened |
| SDO validation | `sdo_process.cpp` | saved value | write, read back, restore | a failed write may have been stored | pass means restored |
| SDO block validation | `sdo_block_process.cpp` | `channel_known`, `node_stopped` | round trips, stop, abort, cleanup | cancel races completion, node stopped | nothing raced, node brought back |
| MCU SDO client validation | `sdo_client_process.cpp`, `host_sdo_server_fixture.cpp` | mailbox 0x2303, fixture | 17 requests | torn and stale mailbox | the MCU ran exactly these requests |
| NMT master validation | `nmt_master_process.cpp` | ring of commands | callback, expected steps | ring overflow, reset reloads 0x1017 | exact sequence, heartbeat alive |
| Storage validation | `storage_process.cpp` | baseline image | five modes, cleanup | power cuts, resets, abandoned saves | clean means restored |
| EMCY consumer validation | `emcy_consumer_process.cpp`, `canopen_master.h` | owned errors, flags | vectors, recovery, rebind, cleanup | multi-read snapshot, foreign errors | delivered exactly, stack restored |
| EMCY producer validation | `emcy_process.cpp` | saved COB-ID, inhibit time, heartbeat | three fault and recovery phases, receiver switch, restore, smoke test | both ends of a channel are moved, history full | every phase had its own EMCYs, both ends back |
| PDO validation | `pdo_process.cpp` | sample window, transmit state, saved value | samples, three-view comparison, RPDO probe, restore | TPDOs between any two reads, an RPDO that leaves late | the verdict is about the slave, probe really taken |
| SYNC PDO validation | `sync_pdo_process.cpp` | parameter snapshot, observation, flags | reconfigure, count SYNCs and TPDOs, restore or reset, start | the callback stops the producer, partial restoration | one TPDO per SYNC, never started half restored |
| TIME validation | `time_process.cpp` | saved COB-ID, flags | inject, read in parts, advance, disable, resets | midnight, day wrap, lost frames, clock moves on | an accepted snapshot is one moment, consumer restored |
| GFC validation | `gfc_process.cpp` | wire fixture, request and complete sequence | consumer and producer cases, rebind, settlement | pending request at cleanup | no defect passes, no frame after restore |
| SRDO validation | `srdo_process.cpp` | profile, wire fixture, scoped threads | regression, twelve fault cases, cleanup | threads beside the control thread, busy retries, split pairs | no thread outside its scope, one request at a time, it ends |

Every process calls the SDO helpers; the heartbeat process also the EMCY
observer and the NMT helper; `main` runs the processes in order and stops at the
first failure. `PROJECT.json` lists the components and the hazards, each at the
line where it bites.

## 2. Modules

| Module | Models |
|---|---|
| `EmcyLog` | abstract: the unbounded log of all EMCY events and what a query may answer |
| `CanopenEmcy` | the observer; implements `EmcyLog` |
| `CanopenNmt` | `issueNmtCommandAndWaitForState()` and the state callback |
| `SdoService` | abstract: a blocking SDO call as one step, with late effects |
| `CanopenSdo` | the helpers with Lely's queue; implements `SdoService` |
| `CanopenMain` | threads, signals, boot waits, process table, final reset |
| `SdoProcess` | `sdoProcess()` over `SdoService` |
| `HeartbeatProcess` | `heartbeatProcess()` over `SdoService` |
| `SdoBlockProcess` | `sdoBlockProcess()` over `SdoService` |
| `SdoClientProcess` | `sdoClientProcess()` and the fixture over `SdoService` |
| `CommandQueue` | abstract: a bounded queue that says when it lost something |
| `NmtMasterProcess` | `nmtMasterProcess()`; its ring implements `CommandQueue` |
| `StorageProcess` | `storageProcess()` |
| `EmcyConsumerProcess` | `emcyConsumerProcess()` with the local EMCY services |
| `EmcyProcess` | `emcyProcess()` over `SdoService` |
| `PdoProcess` | `pdoProcess()` over `SdoService`, with Lely's PDO callbacks |
| `SyncPdoProcess` | `syncPdoProcess()` over `SdoService`, with Lely's SYNC and PDO callbacks |
| `TimeProcess` | `timeProcess()` over `SdoService`, with the slave's clock |
| `GfcProcess` | `gfcProcess()` over `SdoService`, with the wire fixture |
| `SrdoProcess` | `srdoProcess()` over `SdoService`, with its background threads |
| `MCCanopenEmcy`, `MCCanopenNmt`, `MCCanopenSdo` | instances for TLC |
| `MCSlaveProcesses` | runs one of the heartbeat, block, client, storage, EMCY producer, EMCY consumer and GFC processes, as the process runner does |
| `MCTimedProcesses` | runs one of the PDO, SYNC PDO and TIME processes |
| `CanopenEmcyProofs`, `CanopenNmtProofs`, `CanopenSdoProofs`, `CanopenMainProofs`, `SdoProcessProofs`, `NmtMasterProofs`, `SrdoProofs`, `TimedProofs` | theorems |

Conventions. Variables and actions keep the names of the code where they
translate one. An action is one critical section, one call into Lely or one SDO
call: what another thread can interleave with. `pc` is the place of the control
thread. Variables marked *external* belong to Lely, the bus or the device and
are modelled from how the code uses them; variables marked *history* exist for
the properties only and no action of the program reads them. Definitions
commented as mutants are deliberately wrong versions of the definition below
them; they are in no specification and show that each property can fail.

Layering. `CanopenSdo` shows that the real helpers (shared state, completion
callback, abandoned requests) implement `SdoService`. The process modules use
`SdoService`, so one SDO call is one step with four outcome classes and, after
`WAIT_TIMEOUT`, a write that may still happen later. `StorageProcess` and
`EmcyConsumerProcess` have the same outcomes written for their own objects.

## 3. State and actions against the code

* `CanopenEmcy`: `emcyCallback` is the callback body under its mutex: increment,
  append, evict. `waitForCanopenEmcyEvent` begins a wait, `WaitMatches` and
  `WaitTimesOut` are the two ends of `wait_for`.
* `CanopenNmt`: `ReadManagedBefore` reads Lely's state unlocked, `SubmitCommand`
  holds the mutex across baseline and command, `IdempotentShortcut` is the second
  read, `BeginWait`, `WaitReaches` and `WaitTimesOut` the wait. `LelyTakesReport`
  and `nmtStateCallback` are separate: Lely dispatches outside its lock.
* `CanopenMain`: `Control` is the disjunction of the control thread's steps;
  `WorkerStarts`, `LoopReturns` and `WorkerEnds` the worker; `signalHandler` may
  come at any time. `CheckStop` and `CheckLoop` are the two reads of the check after
  the poll loop, so that the signal or the end of the loop can come between them.
  `NodeReboots` starts a boot procedure, `bootCallback` reports it.
* `CanopenSdo`: `Submit`, `SubmitFails`, `WaitCompletes` and `WaitExpires` are the
  helper; `CompletionCallback` the lambda that owns the shared state. The history
  variable `late` lists the abandoned writes that the server may still carry out.
* `SdoProcess`: one action per SDO call of `sdoProcess()`.
* `HeartbeatProcess`: one action per snapshot, local write, SDO call and wait.
* `SdoBlockProcess`: `Script` is the sequence of cases; `StopNode`, `Probe`,
  `RestoreWithinCase` and `Verdict` are the timeout case; `SubmitAbortable`,
  `CancelRequests` and `AwaitAbort` the client abort, which races
  `TransferEnds` and `AbortCallback`.
* `SdoClientProcess`: `Preflight` and `Install` set the fixture up, `Requests`
  lists the requests; each is `SetUp`,
  `nextRequestSequence`, `WriteParams`, `Commit`, the poll, the guarded status
  read, the read-back and the restore.
* `NmtMasterProcess`: `nmtCommandCallback` fills the ring, `StepPassed` and
  `StepFailed` consume it, `Configure` writes the heartbeat, `Deactivate`,
  `RemoveCallback` and `ClearObserver` unregister in three steps.
* `StorageProcess`: `Script` picks one of `runCoreMode` .. `runPowerInterruptionMode`
  by the mode, `CleanupScript` restores the baseline;
  `WriteOp` and `CheckOp` run an operation; a reset or power cut is
  `suspendHeartbeatConsumer`, `prepareBootWait`, `issueReset` or `CutSave`,
  `waitForBootCompletion`, `restoreHeartbeatConsumer`.
* `EmcyConsumerProcess`: `Script` of vectors, clears, health check, reset and
  start; the snapshot is `ReadCountBefore`, `ReadSource`, `ReadPayload`,
  `ReadCountAfter` with retries.
* `EmcyProcess`: `Script` is the list of SDO calls and waits of each phase
  (`captureSavedState`, `runDefaultEmcyValidation`, `configureTestEmcyCobId`,
  `runConfigurableInhibitValidation`, `restoreEmcyConfiguration`,
  `runRestoredPathSmoke`); `SdoCall`, `writeMasterHeartbeat`,
  `waitForCanopenEmcyEvent`, `CheckEvents`, `SwitchConsumer` and `ReadLocal` run
  its entries. The slave raises, clears and repeats its error on its own.
* `PdoProcess`: `LelyMapsTpdo` and `OnRpdo` are two steps of the loop, the mapped
  objects first, so that the control thread can read between them. The
  comparison is `GetLatestTpdoSample`, `ReadMappedTpdoValue`, `CheckMappedStable`,
  `ReadSdo1`, `ReadSdo2`, `Compare`; the RPDO is `ClearTransmitState`,
  `WriteEvent`, `WaitTransmit`, `ReadBack`; the cleanup `RestoreWrite`,
  `RestoreVerify` or, after a call that was given up, one more RPDO.
* `SyncPdoProcess`: `observed` is the order of SYNCs and TPDOs in the callbacks;
  `OnSync` stops the producer itself. `ResetSlave` and `RecoverPreop` are
  `recoverTpdoStateWithReset()`; `slave_start_is_safe` guards `RestartSlave`.
* `TimeProcess`: time is a position in `Days * DayLength`, `Tick` advances it
  between any two steps. `DiagnosticStep` reads count, day, milliseconds, day and
  count; `waitForAppliedTime` and `validateContinuousAdvance` judge with
  `forwardTimeDelta`. `recoverTimeCobIdWithReset` is the fall-back of `Restore`.
* `GfcProcess`: `Script` lists the cases; `send`, `waitForRxIncrement`,
  `triggerRequest`, `waitForFrame`, `PollComplete` are its operations,
  `settlePendingProducer` the start of the cleanup.
* `SrdoProcess`: `validateRegression` and `F01` to `F12` are scripts over one set of
  operations. `Spawn`, `StopThread` and `Unwind` open and leave a scope;
  `WorkerSends` and `ObserverReads` are the loops of `ScopedRxPairWorker` and
  `ScopedTxSilenceObserver`. `RequestTx`, `waitForTxCompletion`, `TxResult` and
  `ResyncPhase` are `requestTxWithBusyRetry()`; `Listen` and `nextPair` the pair
  synchroniser.

## 4. Runs

| Run | Instance | Shows |
|---|---|---|
| `emcy_observer` | 2 producers, 2 codes, capacity 2, 4 events | the deque is the newest suffix; timeouts are honest; refinement of `EmcyLog` |
| `nmt_wait` | 2 nodes, 2 states, 3 reports, 2 queued | evidence for a confirmation; no confirmation published after submission is lost by a timeout unless superseded |
| `tester_lifecycle` | at most 2 processes, both builds | exit 0 is earned; an exit nobody asked for is a failure; a stop request or a dead loop leads to the end |
| `sdo_call` | 1 object, 2 values, 3 calls | the helper is quiet between calls; refinement of `SdoService` |
| `sdo_process` | probe, alternate and another value | pass means restored; no call on an unknown channel; no silent change |
| `nmt_master_process` | ring of 3 | a pass saw the exact sequence; the heartbeat is on while waiting; clean after the run; refinement of `CommandQueue` |
| `slave_processes` | seven processes; sequence numbers modulo 3, counter modulo 5, all five storage modes, history of 2, 2 retries, 2 foreign messages | evidence of a pass, restoration after a pass and after a failure, no SDO call on an unknown channel, no stray frame |
| `timed_processes` | three processes; 2 samples and SYNCs, 2 attempts, 4 TPDOs, days of 5 units, 20 days, 4 ticks | sound readings, evidence, restoration, no start of a slave that is not restored |
| `srdo_process` | 2 retries, 2 pairs per series, 2 queued frames, 1 late write | no thread outside its scope, one request at a time, evidence, restoration, termination |
| `boot_of_an_earlier_reset` | as `tester_lifecycle` | counterexample: see section 7 |
| `clear_of_a_foreign_error` | as the EMCY consumer in `slave_processes` | counterexample: see section 7 |
| `cleanup_on_unconfirmed_stop` | none needed | counterexample: see section 7 |

Bounds. The EMCY history overflows with two slots and four events, and both a
field that matches and one that does not are present. Three reports supersede a
matching one. Three SDO calls give a call after two abandoned ones. Two
processes give a first, a last and a failing middle of the table. A ring of
three overflows and wraps within the sequences the process expects. The counter
and the sequence numbers wrap within a run (2^32 in the code); the range exceeds
what can be under way at one time, as it does in the code. Two samples and two
SYNCs have a first and a last; four TPDOs fill the window and let one land in each
attempt of the comparison. Four ticks between two operations are less than a day of five units, as the waits of
the code are; the injected values start so close to the end of a day, and of the
last day, that both wraps happen. Two busy retries give a request that succeeds first, after
one, and not at all. The abstraction of times: an interval, a pair delay or an
inhibit time is inside or outside its limit, chosen by the environment. Two of the 100 stress
iterations of the block process differ from each other as any two do.

Deadlock is checked in every run: processes end in a `Done` or `Exited` step
that stutters.

Fairness is assumed in `CanopenMain` and `SrdoProcess` only. `WF(Control)`: every wait of the
control thread is a `wait_for` or a sleep loop, so it always gets on, and the
validation processes return. `WF(WorkerStarts)` and `WF(WorkerEnds)`: a created
thread is scheduled. `WF(shutdown /\ LoopReturns)`: `context.shutdown()` makes
`loop.run()` return; without shutdown nothing is assumed. No fairness is assumed
of the bus, the device, signals or boot callbacks. In `SrdoProcess`
`WF(MainThread)`: every wait of the control thread has a deadline, so that one of
its outcomes is always possible; `WF(ThreadSteps)`: the thread of a scope is
scheduled, which is what `join()` relies on. The bus and the slave owe nothing.
`Terminates` fails when the thread's loop does not look at `running_`.

The composed runs choose one process at the start and keep the variables of the
others fixed: `canopenRunProcesses()` runs one process at a time, and each
restores or reports before the next begins. `SrdoProcess` has a run of its own
because of its size and its fairness.

## 5. Proofs

All theorems hold for every value of the constants under the named assumptions
of the modules: `EmcyAssumption`, `NmtAssumption`, `SdoAssumption` (there is an
object and a value to write), `ProbeAssumption`, `MainAssumption`,
`CapacityAssumption` (the ring has a slot), `SrdoAssumption` (at least one
retry and one pair, two frames fit into the queue) and `TimingAssumption` (see
`TimedProofs` below). Each module has an inductive
invariant `IInv`; TLC has checked it on the run's instance before it was proved.

* `CanopenEmcyProofs`. `ObserverTypeOK` and `ObserverInvariant`
  (`DequeIsNewestSuffix`). Inductive with `NeverAhead` (no snapshot lies beyond
  the counter); `CallbackDeque` is the argument that append and evict keep the
  newest events with consecutive sequence numbers. `TimeoutIsHonest`: from the
  position of an event in the deque (`RetainedPosition`, `RetainedEvent`) the
  search finds exactly what the log remembers (`SearchFindsAnswers`).
  `ObserverImplementsLog`: each step is a step of `EmcyLog` or leaves it unchanged.
* `CanopenNmtProofs`. `NmtTypeOK`, `ConfirmationIsHonest` and, as an action
  property, `TimeoutIsHonest`. `Evidence` ties what the wait looks at (the
  generation and the one state that is kept) to what the node really was and to
  the reports published since the command: without it a generation that moved says
  nothing about which report moved it.
* `CanopenSdoProofs`. `SdoTypeOK`, `QuietUntilGivenUp` (an action property) and
  `CallsImplementService`. `InOrder` says that Lely works the requests off
  in order, `Effects` what the server did as far as a result tells, `Published`
  that a shared state is completed by the callback of its own request only, `Own`
  that nothing else reaches the device between a request's service and the return
  of its caller, `Tracked` that `late` holds exactly the abandoned writes that
  are still open, in order, and `Settled` that there are none while no call gave up. Under the mapping the answer of a call is the abstract step; the
  server's work on an abandoned write is `LateWrite` or `LateLoss`.
* `SdoProcessProofs`. `ProcessTypeOK`, `PassProvesRestored`, `NoCallAfterLostOne`,
  `ChangesAreReported`. The properties speak of the end; `Progress` says at each
  `pc` what is known before: nothing is left under way unless a call was given up,
  the object is unchanged before the test write, the read-back follows a stored
  test value.
* `CanopenMainProofs`. `MainTypeOK`, `ZeroExit`, `UnaskedExitFails`. `Earned` says for
  each place of the control thread what an error count of zero has established
  so far. `Asked` follows the two flags through their separate reads: a loop that was
  seen dead stays dead, so that a run that leaves the poll loop without a stop
  request has counted an error before it reaches the join.
* `NmtMasterProofs`. `MasterTypeOK`, `PassIsExact`, `HeartbeatIsRestored`,
  `RunLeavesNothing` and `RingIsQueue`. `Stages` says what each `pc` knows
  of the observer; `Track` that the ring holds the expected commands that were
  received and not yet consumed or, once one was wrong or dropped, still shows it;
  `ResetOrder` and `Waiting` where in a reset the heartbeat is off; `Loss` that a
  heartbeat lost after the last command shows in the ring or at the final read. The refinement rests on arithmetic modulo the capacity: the
  slot that is written is none of those that are in use.
* `SrdoProofs`. `SrdoTypeOK`, `ScopesOwnTheirThreads`, `RequestsDoNotOverlap`,
  `SrdoRestores` and `SrdoPassHasEvidence`. The validation is a script of far more than a hundred operations
  whose length depends on `Pairs`. `Sound` is what the proofs need of a script
  (it begins and ends without a thread, each operation knows the thread that
  exists, a request is followed by its completion, a retry has its loop before it);
  it is closed under concatenation (`SoundConcat`), holds of plain operations
  and of a scope (`PlainSound`, `ScopeSound`) and so of the whole
  (`ValidationSound`). `Requests` says that the last request is processed unless
  its completion is being waited for, and `Restoring` what each place of the final
  repair has already put back; the cleanup and the last case share that repair.

  For the evidence of a pass, `Refutes(d, i)` says when the `i`-th operation
  cannot be passed with a slave that has defect `d`. That depends on the operations
  before it: on the values they wrote last (`Holds`), on whether they left 0x13FE
  valid (`Valid`), on the frames sent since the last reset (`Cleared`), on the thread
  that watches (`Silent`). `EInv`, inductive together with `IInv`, says that the slave
  shows the effects of those operations (`Running`), that a defective slave never
  reports certain states (`Honest`) and that what was passed has refuted what it
  refutes (`Shown`). `EveryDefectRefuted` then finds for each of the thirteen
  defects an operation of the script that refutes it, from the cases the script is
  made of (`CasesOccur`).
* `TimedProofs`. `TimedTypeOK`, `TimedReadingsAreSound`, `TimedPassHasEvidence`,
  `TimedPassMeansRestored` and, as an action property, `TimedStartedOnlyRestored`, all
  from `TimedInvariant`. Its invariant has one part for each process.
  * `PdoInv`. `PdoFrames` numbers the TPDOs that are under way and says which of them
    the mapped objects and the callback's sample show. `PdoViews` says what an
    attempt of the comparison has read *while no callback has run since its
    snapshot*: a mapped value may come from a frame whose callback is still to come,
    but an SDO answer comes after that frame, and then the snapshot is not clean
    any more. That is why checking the generation last is enough. `PdoProbe` says
    where the value of 0x2200 comes from at each place; a probe has left for certain
    only once its callback completed the wait.
  * `SyncInv`. `SyncSafe` says that an abandoned write is left only where the
    process knows of it and that verified parameters are the slave's own and stay
    so; `SyncLocal` does the same for the local SYNC period. `SyncPath` and
    `SyncCounted` follow a run without a failure: which flags it has raised and how
    its counters relate to what the bus really carried.
  * `TimeInv`. The clock of the slave is never far from one of three positions: the
    value injected last, a value it must not have taken, the value it is to take
    (`TimeClock`, with `OldSlot`, `BadSlot` and `NewSlot`). They are far enough apart
    that a snapshot read in parts, day and milliseconds, and accepted by the
    tolerance can be near one of them only. `TimeOrder` and `TimeViews` say what the
    parts read so far are worth, midnight and the wrap of the last day included;
    `TimeFrames` and `TimeCounts` say which frame is under way and what the counters
    have seen of it; `TimeProof` collects what each finished case has excluded.
  * `TimingAssumption`: windows and retry loops have at least two rounds, the
    tolerance is below the wait and both fit into a day, there are more days than
    the injected values name, and less than a day passes between two operations.
    In the code a day has 86 400 000 ms, the waits of `time_process.cpp` are a few
    hundred milliseconds and its longest time limit is 1500 ms.
  * The proof corrected the model once: `Cleanup` of `PdoProcess` was a `CASE` two of
    whose guards overlapped, so that where a run went that gave up a call before it had
    saved a value depended on the tool. The code asks for the saved value first, and
    the model now does.

Only model-checked:

* `StopLeadsToExit` and `Terminates`: liveness is outside the prover.
* The properties of `slave_processes`: seven more processes, each of which needs an
  invariant of its own of the size of those in `TimedProofs`.

## 6. Assumptions about what is outside `src/`

* Lely calls back on the loop thread, one callback at a time, outside its own
  lock; replacing a callback does not wait for one that is under way.
* Client-SDO requests of a node are served in order, an answer belongs to its
  request; a request Lely timed out is not served later, one the *caller* gave
  up is.
* Frames of one sender arrive in order; a device has reset before it answers a
  later SDO request. A new boot procedure replaces the one before it.
* A stopped node serves no SDO. What a client abort leaves in the server's
  receive state is not modelled beyond an old, new or partial payload.
* A save cut by a power loss leaves the old, the new or a torn image.
* A boot wait of a validation process is satisfied by the boot of its own reset.
  `CanopenMain` models the flags themselves and section 7 says what else they allow.
* No RPDO is under way when the PDO validation starts: only that process triggers
  the event-driven RPDO of the master, and a run of it that fails ends the table.
* The values a test injects differ in data only where the control flow is the same:
  of the valid and invalid TIME payloads of one kind (zero milliseconds, day zero, a
  second wrong length) one stands for all, and the last two reads of a TIME snapshot
  are one step, since only their equality with the first two is used.
* The MCU writes its mailbox results before `complete_seq` and updates its EMCY
  diagnostic for one message at a time.

## 7. Where code and documents disagree

* `ResetVerifiedByItsOwnBoot`: the comment in `prepareBootWait()` says that no
  result of an earlier boot procedure can satisfy a later wait. A callback under
  way when the flags are cleared sets them again and the final reset counts as
  verified.
* `OnlyOwnErrorsCleared`: `docs/en/emcy-consumer-test.md` says only entries of the
  test are cleared. The check and the clear are two critical sections; a Host
  error raised in between is cleared too.
* `CleanupOnlyWhenCertain`: `docs/zh/reference/api.md` says the payload is restored
  only when the NMT recovery state is certain. After an unconfirmed STOP
  `node_stopped` is false and the cleanup runs.

Two things the models show that no document contradicts, worth knowing when a
test result is read:

* `srdoProcess()` enters Pre-operational before it knows the profile; a failure
  up to that point returns without cleanup and leaves the slave there.
  `PassMeansRestored` therefore speaks of passes and of failures whose cleanup ran.
* Negative cases cannot tell a lost frame from one that was rightly ignored: in
  the GFC and TIME cases that expect no reaction, and in two SRDO cases,
  `PassHasEvidence` excludes defects that a lost or late frame hides. In the same
  way a reset during the SRDO rebind case lets a natural pair be put together from
  two cycles, since its delay is not measured there; triggered pairs are measured.

## 8. Plan

Done: observers and helpers (`CanopenEmcy`, `CanopenNmt`, `CanopenSdo`), the
lifecycle, all thirteen validation processes, and the proofs of section 5.

Left, modelling: the request handshake of the storage diagnostic commands field by
field; the order of several processes in one behaviour, with what a failed one
leaves to the final reset.

Left, proofs: the processes of `MCSlaveProcesses` one by one, the heartbeat and
block processes first.

Not modelled and not planned: logging, command line, construction of Lely
objects, generated device descriptions, vendored spdlog, build and deployment
scripts. They keep no state that the concurrent part depends on.
