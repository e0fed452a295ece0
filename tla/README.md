# Specifications of the Hörmann SupraMatic bridges

TLA+ modules that model the concurrent core of this repository and the tools
that test it, TLC configurations that check them on small instances, and TLAPS
proofs of safety properties for every value of the constants.

The repository holds two ESPHome components that connect a garage door drive to
Home Assistant, one for each generation of the drive's bus, and the host tools
that bring them up, test them and measure the door:

- **HCP2** (`components/hcp2bridge`, `firmware/hcp2-lp`): on an ESP32-C6 the
  protocol runs on the low-power (LP) core, which answers the drive although the
  main (HP) CPU reboots. The two share a *mailbox* in LP RAM and no lock.
- **HCP1** (`components/uapbridge`, `components/uapbridge_esp`): the protocol
  runs in a FreeRTOS task of high priority beside the ESPHome main loop. The two
  share the variables of one object.

- **Host tools** (`tools/`, Python): a simulator of the drive, an emulator of the
  LP core, runners for hardware in the loop, a verifier of logic analyser
  captures, a stand-in for the debug server, and three guided sessions at a real
  door. What they call good is what the firmware is released on.

The bridges move a door that can hurt somebody, from views of it that are always
a little old; the tools judge them, and move the door as well. What is hard to test in them is what is modelled here: stores and
loads of two CPUs in any order, resets between any two of them, tasks that
preempt each other, time-outs that race answers, and requests that overtake
each other.

## 1. Inventory

### HCP2

| Part | Source | State | Operations |
| --- | --- | --- | --- |
| Mailbox sequence locks | `core/hcp2_mailbox.c` | configuration block (HP writes, LP reads), drive state block (LP writes, HP reads), a sequence number for each | `write_config`, `read_config`, `publish_state`, `read_state`, `init` |
| Commands and sessions | `core/hcp2_mailbox.c`, `core/hcp2_supervisor.c`, `core/hcp2_responder_runtime.c` | one command slot, acknowledgement, epoch; `next_command_sequence` (HP); `last_command_sequence`, pending command (LP) | `send_command`, `begin_session`, `take_command`, `ack_command`, settle window, resets |
| Stop trigger | the same | armed flag, epoch, target, deadline, fire count | `arm`, `disarm`, `read`, `mark_fired`, `handle_stop_trigger` |
| Protocol engine | `core/hcp2_engine.c` | active button, its time, pending release; one response slot | `rx_byte`, `submit_button`, `claim_due_tx`, `mark_tx_started`, `mark_tx_done` |
| Cover | `cover/hcp2bridge_cover.cpp`, `hcp2_entity_mapping.h` | goto, its target and clocks, waiting direction | `control`, `service_pending_direction_`, `service_goto_` |
| Bridge | `hcp2bridge.cpp` | last state read, validity, continuity, obstruction latch, protocol log | `queue_button_`, `update_state_from_mailbox_`, supervisor task |
| LP backend | `hcp2bridge_backend_lp.cpp` | running or not, probe counters | skip, defer or reload the LP core |
| LP firmware | `firmware/hcp2-lp/main/lp_core/hcp2_lp_core.c` | UART fifo, driver enable, watchdog | main loop, `init_`, transmission |
| Rings | `core/hcp2_mailbox.c` | protocol events, trace | single writer, single reader |
| ESP32 real-time backend | `core/hcp2_realtime_backend.c` | timer, driver enable, UHCI buffers | interrupts around the engine |
| HP fallback | `hcp2bridge.cpp` | command queue | event driven bus task around the engine |
| Light, HTTP debug, codec | see `PROJECT.json` | | |

The main loop calls `queue_button_`, `arm_stop_trigger` and `disarm_stop_trigger`,
which store to the mailbox. The LP core takes the command between two frames of
the drive, hands it to the engine as a button, and publishes what the drive
broadcasts. The supervisor task, which preempts the main loop, reads that every
250 ms and starts or reloads the LP core.

Correct means: what is read was written as a whole; a command is pressed at most
once, in order, and its answer is true; the drive sees each press as a press
and a release; stop is pressed for the move it was armed for; the door goes
where it was last told to.

### HCP1

| Part | Source | State | Operations |
| --- | --- | --- | --- |
| Bridge | `uapbridge_esp.cpp` | one queued command and its time, last broadcast and its time, state, obstruction latch, callback counters | `action_*`, `set_command`, `command_allowed`, `loop`, `loop_slow`, `loop_fast`, `expire_*` |
| Cover | `uapbridge_cover.cpp` | estimated position, departure, waiting reversal, end-state wait | `control`, `loop`, callbacks |
| Light, switches, sensors | `uapbridge/*` | what was last published | callbacks |

The entities call into the bridge from the main loop; the bus task answers the
drive's polls, which fetch the queued command, and applies its broadcasts; the
main loop applies the last broadcast a second time in `loop_slow` and calls the
entities back. Correct means: a command has exactly one fate, the gates hold,
the state ends as the last broadcast says, and the entities learn it.

### Host tools

| Part | Source (`tools/`) | State | Operations |
| --- | --- | --- | --- |
| Drive simulator | `supramatic_sim/*.py` | door (position, target, state, pending stop and reversal), buttons seen, counters, verdict | `run`, `run_cycle`, `inject_faults`, `send_status_poll`, `command`, `tick` |
| LP core emulator | `hcp2_lp_emu/emulator.py` | clock, wire, FIFOs, driver enable, counts and latencies | `write_uart`, `read_uart_available`, register hooks, `run`, `advance_time_us`, `lp_reset` |
| HIL runner, closeout runner | `hcp2_hil_load.py`, `hcp2_closeout.py` | background loads, sender thread, steps in threads, verdicts | `run_session`, `run_suite`, `run_simulation_step`, `run_plan`, `classify_device_health` |
| Logic analyser verifier | `hcp2_hil_la.py` | none: a capture to a report | `verify_samples` and the checks it calls |
| Debug mock server | `hcp2_debug_mock_server.py` | records, sequence, the one WebSocket client | `_handle_ws`, `_push_loop`, `_release_ws`, `health`, log requests |
| Phone video capture | `run_phone_video_sync_capture.py` | scheduled step, step waited for, last reports, exit | window thread, API worker or dry-run timers, the user's keys |
| Garage test wizard | `garage_test_wizard.py` | event log, measurements on disk, recording on the ESP | a script of prompts, requests, commands, measurements |
| Timing calibration | `run_hcp_timing_calibration.py` | recording, reported state, files | `run_cycle`, `wait_for_text_state`, downloads |

The simulator talks to the firmware over a serial line, or to the emulator in
its place. The runners start the simulator, press buttons over the native API
while it polls, run loads beside it, ask the device for its health and judge all
of it; the verifier judges what was on the wire. The sessions send the door
through a sequence, wait for what Home Assistant or the ESP reports, and keep
what was recorded meanwhile. What is hard: reports that are late and come apart,
requests that fail or are carried out after they were given up, interrupts in any
statement, clean-ups that raise, threads that outlive their join, two browsers at
one socket, a verdict put together from many checks that may hide each other.
Correct means: OK is said only of what went well; what is measured is what it is
called; a session ends, and leaves neither a load nor a recording behind unless
it could not help it.

### Other

The RS-485 proxy and monitor, the ASM/DMA probe, bring-up firmware, and scripts
that analyse files. The drive, the door, Home Assistant and what runs on the ESP
as seen by a tool are modelled from how the code uses them and marked external in
the map.

`PROJECT.json` lists every part with what is modelled of it, and under `hazards`
each place where something can go wrong that a test would hardly reach, with
the property that covers it or the reason why none does.

## 2. Modules

| Module | What it models | Abstraction of | Proofs |
| --- | --- | --- | --- |
| `HCP2Seqlock` | a sequence-locked block, each store and load a step | `HCP2Register` | `HCP2SeqlockProofs` |
| `HCP2Command` | the command slot, sessions, resets | `HCP2CommandService` | `HCP2CommandProofs` |
| `HCP2StopTrigger` | the stop trigger block | | `HCP2StopTriggerProofs` |
| `HCP2Engine` | button phases and the response slot | | `HCP2EngineProofs` |
| `HCP2Cover` | the cover with mailbox, LP core, drive and door | | `HCP2CoverProofs` |
| `UAPBus` (`MCUAPBus`) | the HCP1 bridge, both tasks | | `HCP1Proofs` |
| `DoorModel` | the simulated door, a record and an operator for each method | | with the next |
| `SupraMaticSim` | the simulator against any accessory | | `SimulatorsProofs` |
| `LPEmulator` | UART, driver and clock of the emulator against the firmware and a caller | | with the last |
| `DeviceHealth` | the judgement of a health answer, pure | | with the next |
| `HilSession` | both runners: loads, sender, simulation, clean-up, verdict | | `ToolsProofs` |
| `LaVerify` (`MCAnalyser`) | a bus that writes a capture, and the verifier of it | | `HCP2EngineProofs`, second part |
| `DebugMock` | the mock server's threads | | with the last |
| `PhoneSync` | window, worker and user of the phone video capture | | with the last |
| `GarageWizard` | the wizard's script, requests, interrupts | | `HCP1Proofs` |
| `TimingCalibration` | a calibration session | | with the last |
| `MCSimulators`, `MCObservers`, `MCSessions` | two or three tools side by side, for TLC | | |

`HCP2Register` and `HCP2CommandService` are the abstract specifications: an
atomic register, and a service that performs commands in order, each at most
once. Both refinements are checked by TLC and proved.

### Correspondence

- **`HCP2Seqlock`**. `WriteBegin`/`WriteField`/`WriteEnd` are the stores of
  `write_config` and `publish_state`; `ReadBefore`, `ReadField`, `ReadAfter*`
  the loads of one attempt. A field holds the number of the publication that
  wrote it. `WriterReset` and `ReaderReset` are resets of the two CPUs while the
  RAM survives; `OddAfter` is the line that makes the next writer continue from
  an odd sequence. `RejectZero` distinguishes the two readers.
- **`HCP2Command`**. `m*` variables are mailbox fields, `s*` the main task in
  `send_command`, `b*` the supervisor task in `begin_session`, `h*` its memory,
  `l*` the LP core. Each store and load is an action of its own, but for the
  four loads that compare a pending command, which only restart the settle
  time. A command is its number; `mId` and `mDeadline` hold the number of the
  command that wrote them, so that a mixture is visible. `presses` records
  which command was pressed with whose id. `over` (history) holds the commands that
  were over when the last session began: all but the one whose send goes on and the
  one whose sequence the LP core has taken and not pressed yet.
- **`HCP2StopTrigger`**. `t*` are the block's fields, `a*` the main task, `b*`
  the supervisor task, `l*` the LP core. Armings are numbered; 0 is the target of a
  block that a reload has zeroed. A reload may come between any two stores of an
  arming. `inForce` (history) collects the pairs of epoch and target that were in the
  block with the flag up since the LP core began to look. Where the door is
  and what time it is are sets: the armings whose target is `crossed` and whose
  deadline is `reached`, which the environment grows and shrinks.
- **`HCP2Engine`**. The clock wraps at `2 * HalfRange` and is compared by the
  code's signed difference; of each time stamp its distance from now is kept.
  The response slot goes free, ready, claimed, started, free. `open` and
  `released` record what the drive was shown.
- **`HCP2Cover`**. Each handler of the main loop is a step, as are the LP core's
  command and trigger, the drive's poll and the door. `vMove`/`vPos` is the view
  of the bridge, `lMove`/`lPos` that of the LP core, `dMove`/`dPos` the door;
  `HpUpdate` and `Broadcast` copy one to the next, late. `request` records what
  was last asked for.
- **`UAPBus`**. `mPc` is where the main loop is: in a call of an entity
  (`fallback`, `fresh`, `gates`, `queue`, `queued`, `skip`) or in its own round
  (`slow*`, `notify`, `view`); `bPc` where the bus task is. A critical section is
  one step; between two of them the other task runs. A store to the state and
  the mark behind it (`handle_state_change`) are one step; so are the loads of
  one gate. A broadcast is the pair of what it decodes to and whether it carries
  error or prewarn. `owed`, `slotId`, `outcome` and `heardAge` are history.

- **`SupraMaticSim`**. `pc` is where `run_cycle` is: faults, actions, goto, light,
  poll, tick. A poll is one step with whatever the accessory answers: nothing, a
  frame in time, one that comes too late and is read by the next. `acc` is the
  accessory (idle, press, release), `pressed` and `obeyed` are history. The door
  is `DoorModel`'s record; `Tick` and `Command` are its two methods.
- **`LPEmulator`**. Times are ticks relative to now, so the state is finite. The
  wire and the two FIFOs are serviced lazily, as in the code: an access, a `Sync`
  or the end of a run moves what ended since. The firmware reads a request,
  waits, drives, sends, lets go; `trueLow` counts what the real wire would show.
- **`HilSession`**. One module for the two runners, which share their shape:
  `tool` chooses, `at` is the stage. `load` is the fate of each background
  process, `worker` the sender's thread, `raised` what is propagating. `found`
  collects every failure of a session, `slipped` those of a session called ok.
- **`DeviceHealth`**. A payload keeps only what `classify_device_health` tells
  apart. `OneWorse` is what "more trouble" means.
- **`LaVerify`**. The bus writes a sample a byte time and at most one thing goes wrong
  on it; `Crop` cuts in front, the capture ends anywhere, `Verify` is
  `verify_samples` on what is left. `truth` has the pairs that were on the bus. What
  the code collects in lists is named here by where it is in the capture: a window of
  the driver by its rise, a status by its window, a poll by the byte of its counter.
  The two loops that carry something along are recursive functions: `Buffered` (the
  byte waiting for the rest of its frame) and `Pending` (the polls without an answer).
  `MCAnalyser` gives the module the names it has beside the other observers.
- **`DebugMock`**. `pc[c]` is the handler thread of browser `c`; the critical
  sections of the server's lock and of `MockState` are steps.
- **`PhoneSync`**. The window thread's draw is three steps (tick, wait, exit), the
  worker's sends and reports and the user's keys come between; a dry run has
  timers instead. Time is counted in draws. `news` are the states the door
  published and the worker has not heard, in their order, `half` what it heard of
  the first of them: the text or the cover.
- **`GarageWizard`**. `Script` and `Finish` are data, one record for each
  statement; an action is what a statement may do. `late` holds commands that
  Home Assistant may still carry out.
- **`TimingCalibration`**. `pc` is the statement of `run_cycle`; `reports` are
  states on their way, `seen` the movements recorded to their end.

## 3. Runs

| Run | Question | Bounds |
| --- | --- | --- |
| `seqlock_config` | Is a block of the mailbox an atomic register, whoever dies? | 3 fields, 3 publications, 2 attempts (4 in the code for the state) |
| `command` | Is the command slot the service, is nothing old pressed, does executed mean pressed, with the main task preempted anywhere? | 2 commands, 3 sessions, one reset of each CPU |
| `command_acks` | Are acknowledgements given? | 2 commands, 2 sessions, one reset of each CPU, no send cut in two |
| `engine` | Does the drive see press and release for each press? | clock of 8, press of 2, 3 presses, 1 reset |
| `stop_trigger` | Is stop pressed for what was armed, once, and at all, with reloads anywhere? | 2 armings, 2 sessions, 1 reset |
| `cover` | Does the last request decide, and is the trigger the goto's? | 4 positions, 2 of them targets, 3 calls of `control`, no settle time |
| `cover_ends` | Does a goto end? | 3 positions, a settle time, 1 call, 1 use of another control, 1 LP reset |
| `uapbus` | Has a command one fate, do the gates hold, does the state settle? | 2 calls, unlimited broadcasts of two kinds |
| `simulators` | Is OK earned, are presses obeyed, are the emulator's counts and latencies exact? | 9 cycles, 8 scenarios, 3 replies lost or late, 3 profiles; 2 requests, 1 fault |
| `observers` | Are loads stopped and failures seen, is worse never better, is each fault found, is one browser fed? | 1 load, 2 sessions, 1 button; 3 polls, counter of 2; 2 browsers, 3 batches |
| `sessions` | Is what is recorded what it is called, and does a session end? | 4 steps, 1 failed command; 2 targets, 2 failed requests; 3 movements, 3 misses |
| `stop_trigger_hp_death` | Does the trigger outlive the HP CPU? No. | 1 arming, 2 sessions |

The tools of one of the last three passing runs share no state. Each behaviour is
one tool's, chosen at the start; the others keep one initial state. So the run
asks the questions of each tool and no more states arise than the tools have.

These configurations are for running by hand; they have the type invariant and
further properties of one tool: `MCSupraMaticSim` (`DoorInv`, `SimInv`,
`CleanGotoPasses`, `NeverTurnsAtOnce`, `Ends`), `MCLPEmulator`, `MCHilSession`
with two loads (`VerdictIsTheFirst`, `NoButtonIntoTheVoid`, `PassMeansPolled`,
`StopsAtFailure`), `MCLaVerify` (`CleanCapturePasses`, `AllMeasured`), `MCDebugMock`
(`RecentIsTheTail`, `ReplacedLeaves`, `LostFreesThePlace`), `MCGarageWizard`
(`MeasurementsAreKept`, and four failed requests). So are those that end in a
violation: `MCCoverStale`, `MCCoverStop`, `MCUAPBusMoving`, `MCHilSessionLoads`,
`MCLaVerifyClipped`, `MCCommandAckLate`; see the findings. `MCSessions` declares what
the three tools' modules declare and takes each of them with `INSTANCE`, renamed
where two names meet, as `MCObservers` and `MCSimulators` do.
The type invariants and inductive invariants of the bridges' modules, `FreshRead`,
`NeverAnOlderId` and `ClaimedIsKept` are not among the runs' properties, as the
proofs establish them for all constants. `UAPBus` states two more liveness
properties, `Ended` and `MovesTold`, that hold when added to `MCUAPBus.cfg`.

**Why the bounds suffice.** Three fields give a reader a first, a middle and a
last one to be interrupted at; three publications let one be overtaken twice.
Two commands are what one overwriting the other takes, and three sessions let
the LP core be two behind. Two armings let the second be written while the
first is read. A clock of eight ticks wraps several times during the presses of
the engine run. Two targets between the ends of the door let a goto supersede another one, and three
calls allow a goto, its cancellation and a third request against what is left of the
first. The run of `GotoEnds` has one target, and a settle time and longer time-outs in
exchange. Two calls of the HCP1 bridge compete for the slot, or have one take back
the other. Nine cycles hold two
buttons, a fault cycle and a reversal's dwell; three lost or late replies exceed
the threshold of two and can straddle a press. Two requests are what one reply
running into the next takes, with FIFOs smaller than a reply so that both fill.
Three polls let a counter of two wrap and repeat. Two browsers let each replace
the other. The steps of the capture are an end taken twice, a target and a vent, which are
waited for in different ways; two failed requests are what the run lets the wizard make
before it gives one up (three in the code and in `MCGarageWizard`).
The proofs do not depend on any of these.

`CHECK_DEADLOCK FALSE` stands where every bound may be used up: then commands,
armings or remote uses have run out and nothing is left to do.

### Deep properties, in words

- `NoTornRead`, `FreshRead`, `ImplementsRegister`: however the CPUs interleave
  and die, a read returns one publication, one that was current during the call.
- `PressedInOrder`, `NeverAnOlderId`, `ImplementsService`: commands are pressed
  in order and at most once, through resets of both CPUs and sessions that reuse
  sequence numbers. A command overwritten while it is taken may be pressed with
  the newer button, which the service allows and nothing else.
- `ExecutedMeansPressed`, `OldCommandsIgnored`, `Answered`: what the answer means;
  that nothing is pressed which was sent, or cut off by a reset, before the session
  began, but for a command the LP core had taken by then; that there is an answer.
- `Handshake`, `PressInTime`, `ClaimedIsKept`, `Completes`: the phases the drive
  sees, for each press of which no phase was lost in a taken slot, an aborted
  transmission or a reset.
- `PressedInForce`, `PressedOnce`, `Served`: stop is pressed for a target and a session
  that were armed while the LP core looked; once, unless it is reset between the press
  and the mark; and in the end, if the target stays passed. Epoch and target may be of
  two armings, as when a reload cuts one and the next comes into force in between.
- `LastRequestWins`, `TriggerIsTheGotos`, `GotoEnds`: the cover never moves the
  door for a request that was superseded. A goto for where the door already is
  is exempt: the code returns without clearing what an earlier request left
  waiting (`hcp2bridge_cover.cpp:180-185`). A trigger is armed by a running goto for
  its target, and down once something else was asked for or the goto has ended. Two
  ways leave it up with no goto running, and the property allows no third: the door
  was last seen standing at the target (222; finding 2), or the last request was such
  a goto for where the door is.
- `OneFate`, `ObstructionHolds`, `Settles`, `Told`: the fate of HCP1 commands, the
  obstruction gate at the queue, and convergence of state and entities although two
  tasks apply broadcasts.
- `OkIsEarned`, `PressesObeyed`: a chain of `elif`s hides no trouble behind an OK;
  presses are edges between answers that may be lost, late or doubled.
- `DriverLowIsExact`, `LatencyIsTheFirmwares`, `WholeReply`: what the emulator
  measures is the firmware's doing, however late its UART was serviced.
- `LoadsStopped`, `ZeroMeansClean`, `WorseIsNotBetter`: clean-up under exceptions;
  exit code 0 after no failure but those the runner cannot see (which the
  property lists); and excuses that do not make a worse device pass.
- `FaultIsFound`, `PairsAreReal`: a capture with a fault whole inside it fails,
  and latencies pair what belongs together although counters wrap.
- `OneFeed`, `GapNeedsTakeover`, `FailShowsCause`: takeover of the one socket, and
  reasons and counters read apart.
- `StepsAreReal`, `CancelSticks`, `EndsOnceStarted`, `MeasuresWhatItNames`,
  `RecordingEnds`, `AnalysedIsRecorded`: a step is counted only when the door was
  there, a height is named after where it was measured, a cancelled session sends
  nothing, an interrupted one stops the recording.

### Findings

Seven statements of documentation, help or tests that the code does not keep;
`PROJECT.json` quotes both. The first has a run of its own, the others a
configuration to run by hand.

1. A reboot of the HP CPU disarms the stop trigger that is there for its death.
2. A goto that ends without a stop command leaves its trigger armed; a door
   that somebody moves by another control within 45 s is stopped.
3. A STOP that the LP core takes while it shows another button is answered BUSY,
   and nobody reads the answer.
4. `loop_slow` renews the time stamp of moving broadcasts from the last status,
   so that the impulse that stands for a stop is sent without a recent one.
5. A HIL session whose sender could not connect raises in its clean-up, and the
   load commands are not terminated (`MCHilSessionLoads`).
6. The verifier fails a capture that ends in a response, which its help says it
   tolerates (`MCLaVerifyClipped`).
7. An LP core that survives a reset of the HP CPU between handling a command and
   acknowledging it writes the old acknowledgement into the new session, in which
   a new command may have the same sequence (`MCCommandAckLate`). Therefore
   `ExecutedMeansPressed` asks whose acknowledgement it is (`mAckBy`, history).

## 4. Fairness

Only what the scheduling of the code justifies is assumed, always weakly.

- `HCP2Seqlock`: the reader's loop and a publication that was begun go on.
  Nothing says that a writer publishes again or that a CPU is not reset.
- `HCP2Command`: the LP main loop, the settle clock, a send and a session that
  were begun. New commands and resets are never fair.
- `HCP2Engine`: polls of the drive, which asks all the time, the clock, and the
  transmission that is due.
- `HCP2StopTrigger`: the LP main loop, and the release of the button by the
  engine (`Completes`).
- `HCP2Cover`: the main loop, the LP core, the drive's polls, the release, the
  clock. Not the supervisor, the broadcasts or the door: a goto ends although
  nothing is heard of the door any more.
- `UAPBus`: the main loop when it is inside a call or may start a round, the bus
  task, the clock. Not the broadcasts and not the drive's requests: a command
  ends although the drive never asks. `loop_slow` may find its period not over.
- `PhoneSync` (`SessionsSpec`): the draw of the window, which the GUI's event loop
  repeats every 100 ms, and start and end of `main`. Not the worker, the reports,
  the door or the user: a session ends although nothing is heard of the door.
- `DebugMock` (by hand): the handler threads. `SupraMaticSim` (by hand): its one
  loop.

## 5. Proofs

`tlapm` proves every obligation. The arguments:

- **`HCP2SeqlockProofs`**, any number of fields, attempts and publications.
  `SeqlockInv` says that while the sequence is even the block holds the last
  complete publication, that the sequence only grows, and that what the reader
  copied so far is the block's as long as the sequence it noted is current. The
  three together make the final comparison of a reader sound. `NoTornRead`,
  `FreshRead` and the refinement of `HCP2Register` follow. `Odd`/`Even`
  arithmetic of the next sequence is a lemma of its own.
- **`HCP2CommandProofs`**, any bounds, both values of `PreemptSend` and
  `LpIsPrompt`. `CommandInv` relates the sequence in the slot to the command that
  wrote it: one the LP core would take belongs to a command after every press.
  `TypeOK` alone is not inductive, as the id that is pressed has to be one that
  was sent. `ExecutedMeansPressed` adds `AckInv`: what is acknowledged is never newer
  than what the LP core has at hand, and "executed" is written only after the press.
  `OldCommandsIgnored` adds `OverInv`: no sequence in the slot, taken or being sent is
  that of a command that was over. A session zeroes the sequence before anything else,
  and an LP core that has not looked yet then finds nothing to take. None of these
  theorems assumes anything of the timing.
- **`HCP2EngineProofs`**. `TypeCorrect` and `KeptWhileClaimed` hold for any clock
  and timing. The others assume `MaxQuiet < PressTicks`: two polls that get
  through are closer together than a press lasts. Without it a press is
  forgotten with its release (a hazard of the code). `EngineInv` says where on
  the wrapping clock the press time can be and what drive, slot and button must
  agree on.

  The second part is about the logic analyser's verifier, which watches the same wire:
  `FaultIsFound` and `PairsAreReal`, for any range of counters, cycle, driver limit,
  receiver skew, number of polls and cut, under `LaConstants` (at least two counters,
  and an answer, wrong or not, is over before the next poll; both needed: one counter
  cannot tell a repeated poll, and answers that run into each other are one window).
  It has three layers. The bus: `LaInv` says that heads stand a cycle apart
  (`Spaced`), each with its counter byte behind it (`Framed`), that the counters the
  master meant follow each other but for the fault (`InSequence`, `Meant`), and that
  the samples from one poll to the next are silence, a sound answer that is in
  `truth`, or the wrong one that is in `fault` (`Blocks`). A block is described over the
  capture followed by what is still to be played (`Line`), which a tick does not
  change: so a step has to be looked at only when a poll begins. The reading: for any
  bus that is like this and any cut, which windows, statuses and polls the verifier
  sees, and that a status and the last poll before it are of one block (`SeenIs`,
  `StatusIs`, `PollsSeen`, `RegularIs`); from the pairing being of last polls
  `PairsReal` follows. The verdict: one lemma for each kind of fault shows which check
  it fails (`StuckFound`, `StrayFound`, `GhostFound`, `ReceiverFound`, `BrokenFound`,
  `SilentFound`, `RepeatFound`, `StaleFound`). The last three need that the status
  before or behind the fault is seen and that none lies between, which is what
  `Shows` in the property asks for. That `Buffered` and `Pending` are the functions
  their equations describe is itself proved (`CanRecur`), by a least range for which
  no such function would exist. `AnalyserIsThere` (in `ToolsProofs`) carries both
  results to the run.
- **`HCP2StopTriggerProofs`**, any armings, sessions, resets, and reloads anywhere.
  `TriggerInv` has five parts: where the flag must be down (`FlagInv`), that a new
  session's epoch is new (`EpochInv`), that target and epoch, once read, were in force
  or will be by the time the flag is found up again (`TargetReadInv`, `EpochReadInv`),
  and that nothing is read which was pressed for already (`OnceInv`). The second look
  at the flag is what makes the reading of the fields one by one sound: an arming in
  between takes the flag down first. `PressedInForce` and `PressedOnce` follow.
- **`HCP2CoverProofs`**, any door, tolerance and timing. `CoverInv` says that the
  trigger is down while a direction waits and that what waits or goes is what
  was last asked for. For `TriggerIsTheGotos`, `GoalReached` says when a goto ends
  without a stop command, `TriggerStep` goes through the actions.
- **`HCP1Proofs`**, the bridge for all broadcasts, options and times, and the wizard
  that tests the door for any target positions. `BusInv` says that each
  call on its way is in exactly one place (slot or bus task), that one being
  decided has no fate yet, and that a closing movement past the gates meets no
  obstruction. `OneFate` and `ObstructionHolds` follow.
  The wizard's script is `WellMade`: every measurement names the last command before
  it, a choice leaves out lines of its own test only, and no choice leaves out a
  command whose measurement it keeps. This is shown block by block, and from there it
  is enough that two such lists joined are one (`WellMadeTogether`) and that such a list
  behind a choice is one (`WellMadeOptional`). For the target positions, as many as there
  are, `FlatWellMade` takes the least prefix that would not be well made (`Least`) and
  joins it from a shorter one. `DoorInv` then says what holds at any place of the
  session: a measurement ahead with no command before it names the command the door got
  last, unless that was executed late (`Ready`); a choice, whatever is answered, keeps
  it. `StopInv` says that no session comes past the stop, or ends, without having sent
  it, and that no start is left behind the stop. `MeasuresWhatItNames` and
  `RecordingEnds` are conjuncts of the two.

- **`SimulatorsProofs`**, every size, latency, dwell, profile and scenario.
  `DoorInv` says that a resting door is where its state says, a moving one aims
  at what its state names, and a dwell has a button and a button a dwell. A lemma
  for each method of `DoorModel` shows that it keeps this; `DoorIInv` adds what the
  simulator's own variables need. `OkIsEarned` rests on `JudgeInv` (a cycle is only
  begun before the last, a miss that is to end the run has done so, and counts are
  what the judgement reads). `PressesObeyed` rests on `OwedInv`, which counts the
  edges still to come from the late reply and then from what the accessory shows:
  with those obeyed they are never more than what was pressed; and, on a bus without
  trouble, on `CleanBus`, by which they are exactly that and no button is pressed
  twice. For the emulator `EmuInv` says that the bytes which have ended are the first
  of the FIFO, that the driver is enabled just when the firmware sends, that nothing
  ended is left between two of the caller's runs, and that the last byte sent is
  the last of a reply whenever none is being sent and none was cut short;
  `DriverLowIsExact` and `WholeReply` follow. `LatencyIsTheFirmwares` rests on `LatInv`,
  which follows a request that was written to a silent bus: its bytes arrive and are
  taken (`Arriving`), the firmware waits (`Waiting`), drives the bus (`Driving`) and
  sends (`Sending`), or a byte was lost and no reply comes (`Lost`). Each phase bounds
  how long ago the request ended, by what can be lost in it: a sleep of the firmware is
  `Loop` ticks late at most, as it does not sleep on a byte that is there, and its own
  instructions one, as it does not spin twice without touching the UART. With that a
  first byte found late is still recorded as of its end. The theorems are of `SimulatorsSpec`, the
  specification of the run; `SimulatorIsWithin` says that it implements the
  simulator's own.
- **`ToolsProofs`**, any loads, repeats and answers. `WorseFails` shows case by
  case of the excuse chain that none of the blocking conditions is lost when one
  trouble is added (`PollsLostStays`, `StickyStays`, `StarvedStays`, `ReasonStays`);
  with `OnlyPayloads` (`device` is an answer) `WorseIsNotBetter` follows.
  `ZeroIsEarned` rests on `Honest`: before the simulation is over nothing is judged
  and only the sender can have failed (which `errors` remembers), a session that is
  still "ok" has found nothing the program looks at, and a run that is still "ok" has
  left nothing out; `OneFailure` and `FourFailures` say that the reduction of several
  failures to one name does not lose them. `NoLoadIsLeft` rests on `Swept`, which says
  where in a session a background process may run.
  `OneFeed` and `FailShowsCause` are inductive with the types, `Newcomers` (a handler
  that has not asked yet was told nothing) and `Founded` (a reason that was noted is
  still counted); `GapNeedsTakeover` needs `Unbroken`: without a takeover the batches
  of the one browser follow each other, up to the one its thread has in hand. Any
  number of browsers.
  The phone capture, any sequence and delays: `PhoneInv` says that a scheduled step is
  neither sent nor waited for, that steps sent and the index differ by it, and that a
  cancel leaves nothing under way; `CancelSticks` and `OneStepAtATime` follow.
  `QuietAfterExit` needs `ExitInv` and an initial delay longer than one draw (15 s by
  default): Space is still heard between the exit and the draw that ends the window,
  and starts a sequence.
  `StepsAreReal` needs `RealInv`, which relates four things: the door, the commands in
  flight, the reports not heard and the ones heard. For the step scheduled, or a vent
  waited for, and the next step that is no vent: either the door, all commands and all
  reports have nothing to do with it (`Left`), or the door rests there already and
  every report that names a place names this one (`AtRest`). While a step is waited for,
  nothing names it until the door has come (`Going`), and then only the last report
  does, behind one that says the door moves (`Arrived`); so when it is heard nothing
  older is left to be mistaken for a later step. This is where the order of the one
  connection is needed: with text and cover arbitrarily apart the property is false.
  The assumption `VentsApart` - no vent first, and none between two equal steps -
  is kept by each preset of `parse_sequence`. It cannot be dropped: a vent is left
  after its observation time whatever the door does, and for `open, vent, open` TLC
  finds the last step left on a report from before the vent.
  The calibration, any sequence of full travels: `TimingInv` says where door and
  reports are in a step - not left yet, on the way, there - so that a report that names
  the end of this step cannot be one of a step before. `Alternates`, the theorem's
  assumption, is what "full travels" means: where a sequence asks for the same end
  twice running there is no second movement to record.

Each inductive proof has `Init => Inv` and `Inv /\ [Next]_vars => Inv'`, one step for each
action, and a last step in temporal logic.

Only model-checked, because the provers have no rules for fairness and ENABLED:
`Converges`, `Answered`, `Completes`, `Served`, `GotoEnds`, `Settles`, `Told`,
`EndsOnceStarted`. They are stated as
`[]<>` where their state alone tells that they are done.

Every safety property that a run checks is a theorem.

Each property has a mutant in `PROJECT.json`: an operator beside the one it
changes, marked `Mutant` in the module, with a mistake one could make in that
code. TLC finds the property violated with it. Mutants are no part of any
specification.

## 6. Assumptions and limits

- Stores of one CPU reach the other in program order (the mailbox is uncached LP
  RAM and its accesses are volatile). Fresh epochs are distinct; in the code
  they are random 32-bit numbers. Sequence numbers do not wrap at 2^32.
- `HCP2Command`: `Answered` is checked with `PreemptSend = FALSE` and
  `LpIsPrompt = TRUE`, and is false without either. A main task that is preempted by a
  reload between reading the epoch and storing it leaves the old epoch in the slot,
  which the LP core may adopt and then answers nothing until the next session; an LP
  core that finds a new epoch and a new command in one look takes the command for an
  old one. The code checks nothing of the kind: it holds when the start of the HP CPU
  takes longer than a pass of the LP main loop. The safety properties are checked
  and proved without either. `OldCommandsIgnored` says nothing of the send that goes
  on while the session begins. Deadlines may pass at any time, so the arithmetic on
  `lp_time_us` is not covered.
- `HCP2StopTrigger`: a target 0, which a reload leaves, is one that a door which opens
  has passed. The LP core presses for it only when the reload cuts one arming and the
  next one comes into force between two of its loads; TLC finds this. `Served` needs
  the target to stay passed.
- `HCP2Seqlock`: a block zeroed at a load is the initial state; the zeroing of a
  reload, for which the LP core is stopped, is no action.
- `HCP2Cover`: a handler reads its view at one instant. Commands do not expire on
  the way. The LP core's answers reach the drive.
- `HCP2Engine`: frames arrive whole. What the parser discards is a frame that
  does not arrive.
- `UAPBus`: `listen_only` off, `require_fresh_broadcast_for_commands` on, the
  time-outs not 0 (off), error correction off, as by default. Not modelled: the
  time read before a critical section on the other core, the frame scanner,
  the debug stream. `loop_slow` tests whether the broadcast is valid and reads its status
  in one step (194, 197-198), and a gate reads status and alarm in one (639-641). A tick is the unit of every time; `CommandTicks = 0` in the
  run means that a command expires a tick after it was queued, and the ages are
  otherwise arbitrary. The obstruction latch may come at any time the cover
  could run, with the door not closed.

- `SupraMaticSim`: serial ports, pacing and wall-clock limits are left out; a reply
  is in time, late by one read, or lost. The accessory neither answers a bad frame nor
  answers twice or malformed (709-717); `fault_every_cycles` (571) and `duration_s`
  (429-433) are left out.
- `LPEmulator`: the instruction set is not modelled. Left out: the echo of the own
  bytes, a wedged FIFO, calls that write mailbox commands, the check of the
  layout, and that the delay hook counts 16 cycles to a microsecond where the
  clock has 20.
- `HilSession`: how processes are killed is one step with its outcome. The sender
  handles at most `MaxPresses` buttons.
- `DeviceHealth`: an answer has a verdict that is known; a missing or unknown one
  (`hcp2_hil_load.py:583-590`) is left out.
- `LaVerify`: lines change once a byte time; bits, baud rates and sampling rates
  are left out. `FaultIsFound` speaks of captures cut while the bus is at rest.
  A capture has one fault at most. Left out of the verdict: TX low at the start (887),
  `min_status_frames` (717), the check of the sampling (299).
- `DebugMock`: a batch is a number; what records say is left out. A socket that is up
  takes what is sent, although `sendall` has a time-out of 0.05 s (550, 593-598), and
  GET /health is no reader. Nothing in the server resets the counters.
- `PhoneSync`: nobody else moves the door, the first delay is longer than a draw,
  the reports of the one connection come in order. Two target positions of a
  sequence are one place. QR codes, drawing and files are left out, and so are
  KeyboardInterrupt and exceptions of the check at the start and the last download.
- `GarageWizard`: the ESP serves requests in order. `MeasuresWhatItNames` exempts
  rows after a command that was carried out late, which nobody can see. A write cut
  short leaves a file without the rows it had (265); `MeasurementsAreKept` says
  nothing of a session that crashes there.
- `TimingCalibration`: nobody else moves the door. Exceptions of `http.client`, such as
  a reply cut short, which `_request` (63-76) does not catch, are left out.

Not modelled, and why: offline analysis (`analyze_*.py`, `compare_hcp2_traces.py`,
`dual_iss.py`), functions from files to files; ESPHome code generation, run once at
build time; the LP blob, generated; the RS-485 monitor, bench firmware and the
ASM/DMA probe, which control no door. `PROJECT.json` lists them with the parts that
are planned.

## 7. Plan

In the order in which they are worth doing:

1. `UAPCover`: estimated position, waiting for departure, stop and reverse, with
   the queue of `UAPBus` as its abstract bridge; when the obstruction latches,
   and that nothing closing is *fetched* afterwards.
2. `LpReload`: health probe, defer and reload, heartbeat and `lp_time_us` of an LP
   core that restarts; deadlines as numbers, with `HCP2Command`'s send.
3. `BridgeState`: validity, continuity and obstruction of the HCP2 bridge, and
   positions and states read in two critical sections.
4. `ProtocolRing` and `ProtocolLog`: single writer, single reader rings, an
   abstract queue that may lose its oldest.
5. `LpTransmit`, `RealtimeTx`, `UhciRx`: driver enable and its deadman, interrupts
   around the engine, the pool of receive buffers.
6. `HpFallback`, `FrameParser`, `HCP2Light`, `RS485Proxy`.
7. A composition of command, trigger and engine in the order of the LP main
   loop, which implements the button of `HCP2Cover`.

Theorems to come: that the trigger block implements an abstract one-shot
alarm; the ring's refinement; the safety of `UAPCover`'s reversal.
