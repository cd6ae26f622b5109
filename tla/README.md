# A verification project for the FlySight 2 firmware

The repository is the C firmware of the FlySight 2, a GNSS logger worn by
skydivers: an STM32WB with a microSD card, sensors, a speaker, one button, a
USB port and a Bluetooth LE radio.  This directory holds TLA+ models of its
core logic, the TLC configurations that check them, and proofs checked by
TLAPS.  Paths below are relative to `src/`.

## 1. The system

### Execution model

There is no operating system.  `main()` (Core/Src/main.c) initialises the
drivers and then runs the *sequencer* (Utilities/sequencer) for ever:

* **Tasks** run to completion in the main loop.  Each has one bit;
  `UTIL_SEQ_SetTask` sets it (setting it twice is setting it once) and the
  sequencer clears it before it calls the task.
* **Interrupts** preempt tasks: the timer server (`HW_TS_*` callbacks run in the
  RTC interrupt), EXTI pins, I2C, ADC, DMA, USB (mass storage commands are
  executed in the USB interrupt).
* **HCI waits.**  A call to the radio (`aci_*`, `hci_*`) waits in
  `hci_cmd_resp_wait` (STM32_WPAN/App/app_ble.c), and `UTIL_SEQ_EvtIdle`
  (Core/Src/app_entry.c) runs the sequencer again from inside the wait.  So a task
  that talks to the radio is suspended half way and *other tasks run on top of
  it*.  `BLE_StatusNot` pauses the tasks of the "HCI" list of
  Core/Inc/app_conf.h for the time of a command; the tasks of the "no HCI" list,
  `FS_Mode_Update` among them, do run.
* `Error_Handler` disables interrupts and loops until the watchdog restarts the
  processor.

### Components, their state, their interactions

| component | source | state | operations | who calls it |
|---|---|---|---|---|
| Mode controller | FlySight/mode.c | current mode, event queue, pending remote request or terminal action, button phase | PushQueue (ISR), Update (task), RequestState, RequestTerminalAction | button, VBUS, timers, config mode, BLE callback, Device_State |
| Modes | FlySight/{active,start,config,pairing,usb}_mode.c | what is switched on | Init, DeInit | mode controller |
| Button, VBUS | FlySight/button.c, vbus.c | debounce counters | timer and EXTI handlers | hardware |
| BLE application | STM32_WPAN/App/app_ble.c | advertising status, connections, callbacks | Adv_Request, events, pairing, reset | radio, modes, state file |
| BLE transmit queue | STM32_WPAN/App/ble_tx_queue.c | ring of packets, flow flag | GetNext/SendNext, Send, Flush, Transmit (task), pool event | every BLE service, VBAT (ISR) |
| BLE custom services | STM32_WPAN/App/custom_app.c, custom_stm.c | receive ring, connection, notification flags | connect, disconnect, write events, timeouts | radio |
| Device state service | FlySight/device_state.c | pending operation, armed / waiting flags, fallback timer | control point writes, completions | phone |
| CRS file transfer | FlySight/crs.c | IDLE/READ/WRITE/DIR, window counters, open file | control packets, task, timeout | phone |
| Resource manager | FlySight/resource_manager.c | reference counts of VCC, microSD, FatFS | request, release | modes, CRS, state file, USB |
| USB mass storage | USB_Device/App/usbd_storage_if.c, FlySight/usb_storage_cache.c, usb_control.c | cached group of blocks, dirty mask | read, write, sync, timer | USB host |
| Logging | FlySight/log.c | producer/consumer rings per stream | Write* (ISR and task), Update, Sync | active and start mode |
| Sensors | FlySight/sensor.c, baro, hum, mag, imu, vbat, hts221, sht4x | I2C request queue | enqueue, transfer complete / error | timers, ISRs |
| Start control | FlySight/start_control.c | INACTIVE / IDLE / COUNTING / UPDATE, countdown | control point, timers | phone, start mode |
| GNSS | FlySight/gnss.c, gnss_ble.c | UBX parser, init state machine | receive DMA, init, time pulse | active and start mode |
| Audio | FlySight/audio.c, audio_control.c | play-out buffers, speech queue | beep, play, DMA callbacks | active and start mode |
| ActiveLook | FlySight/activelook*.c, STM32_WPAN/App/activelook_client.c | display connection and discovery state | discovery, write, update | BLE application, active mode |
| State file, config | FlySight/state.c, config.c, config_mode.c | persistent settings | read, write | modes |

### What is hard here

* the same task entered inside itself while it waits for the radio;
* the event queue is bounded and drops its oldest event;
* a level that is sampled (VBUS, the button) and acted on later;
* a response must reach the phone before the operation it announces runs, and
  exactly once, although its completion may come late, twice or never;
* an interrupt that uses a queue written for tasks;
* go-back-N transfer over a lossy, cancellable, restartable session;
* one microSD card, two owners (the USB host and FatFS).

`PROJECT.json` lists each of these, and the others, at the line where it
bites, with the property that covers it.

## 2. ModeController

`ModeController.tla` models `mode.c` whole, together with what feeds it or what
it waits for: the button and VBUS interrupts, the hold timer, `config_mode.c`,
`pairing_mode.c`, and `FS_Adv_Request` and its callers in `app_ble.c`.

* `event_queue` is the ring `event_queue[queue_read..queue_write]` as a sequence;
  `mode_task`, `config_task`, `adv_task` are sequencer bits;
  `requested_state = "NONE"` is `FS_MODE_STATE_COUNT`.
* `stack` is the C stack seen from this component.  A frame is an unfinished run of
  `FS_Mode_Update` (or of a BLE task that restarts advertising); its `pc` says
  where it stands.  A frame at a wait point has sent a command to the radio, and
  `RunModeTask` may push another frame on it: this is how the model re-enters
  `FS_Mode_Update`.
* One action per handler and event (`SleepPressed`, `HeldTimer`, `UsbVbusLow`, ...).
  ACTIVE and START share a handler shape (`Held`), as do CONFIG and PAIRING
  (`Brief`).  Push and pop are critical sections in the code and single steps here.
* The steps that an interrupt can split are split: the re-check of VBUS and its push
  (`Settle`, `RecheckPush`), the end of the loop body (`NextEvent`).
* `live[m]` counts `Init` minus `DeInit` calls of mode `m`; `overflowed`,
  `stale_recheck` and `reentered` are history variables that say which known race
  has happened, so that a property can say precisely what survives without it.

Bounds: `MaxInputs` external inputs in a behaviour, `MaxNesting` frames on the
stack, `QueueLength` (4 in the code, mode.c:42) made small so that it does overflow.
`Sources` selects the kinds of input of a run.  A press of the button and its
release count as one input.

| run | shows |
|---|---|
| `mode` | queue of 2, three inputs of all kinds, nesting up to 3: the press, hold and double-press protocol, types, request/event bookkeeping, init/deinit pairing, VBUS honoured, restarts only when quiet |
| `mode_live` | two inputs, nesting 2, with fairness: accepted requests are resolved, pairing mode ends |
| `mode_hci` | **violated**: app_conf.h puts `CFG_TASK_FS_MODE_UPDATE_ID` among the tasks that "never send a ACI/HCI command"; it does, and is re-entered |

All three set `CHECK_DEADLOCK FALSE`: a device at rest waits for its user, and the
model stops when `MaxInputs` inputs have been used.

Fairness (`Fairness`): the main loop runs ready tasks, the radio answers each
command, pending interrupts are taken, started timers expire.  Nothing is assumed
of users: inputs are never fair.

What the runs taught us about the code (each is a history variable or a finding, and a
hazard in `PROJECT.json`):

* An overflow drops the oldest event, REQUEST_STATE included; the request then stays
  pending and later ones are refused as BUSY.  So `PendingHasEvent` and
  `RequestResolved` speak of behaviours without overflow.
* VBUS can fall between its re-check and the push (`stale_recheck`).
* With `FS_Mode_Update` nested in itself the outer run returns with the mode it read
  before: a mode can be initialised twice (`reentered`).  `LiveMatchesMode`,
  `VbusHonoured` and `RestartOnlyWhenQuiet` say nothing from there on.

## 3. TxFifo and BleTxQueue

`BleTxQueue.tla` is `ble_tx_queue.c`: the ring of FS_CRS_WINDOW_LENGTH packets,
`GetNext`/`SendNext`, `Flush`, the flow flag, the transmit task, the event that
the radio's pool is available again.  The steps are those another actor can come
between:

* the transmit task is split at the wait for the radio (`Transmit`, then `Accepted`
  or `Refused`): tasks that are not paused for a radio command send in between, while
  `Flush` and the pool event come from tasks that are paused;
* a sender in a task is split into `Claim`, `WriteHeader` and `Publish`, because
  the battery measurement sends its packet from the ADC interrupt
  (`Custom_VBAT_Update`).  `interrupted` records that it came between the two: the
  slot is then filled twice, which is a defect of the code that no lock prevents,
  and the properties on contents say what holds without it.

`TxFifo.tla` is what the queue promises: packets are handed over once, in
the order in which they were sent, and lost only by a full queue, a flush or that
interrupt.  `BleTxQueue` implements it: the refinement maps the ring between its
two indices to the sequence of `TxFifo`.

| run | shows |
|---|---|
| `tx` | ring of two and the interrupt: types, contents, stability of the packet in hand, no lost wake-up; the queue implements `TxFifo` until the interrupt comes into a sender (`void`); with fairness every packet is handed over or flushed |

The indices count for ever in 32 bits; the model stops at a bound of packets.
Two slots and enough packets to go round the ring twice exercise every
combination of read and write slot.  Fairness: a sender that
has begun goes on, the sequencer runs the transmit task, the radio answers, tells
when it has room again, and does not refuse for ever (the strong fairness of
`Accepted`).  Nobody is obliged to send.

## 4. DeviceState

`DeviceState.tla` models `device_state.c`: the phone writes a command, the
service answers SUCCESS, and only when the answer has reached the phone is the
mode changed or the processor restarted.  The answer passes through the transmit
queue, which calls back when the radio took it (`response_tx_accepted`), and the
radio later confirms the indication (`CompletionRuns`); a timer runs the request if
no confirmation comes.  The critical sections of the code are single steps; the
handler of the completion is split between its test and `run_pending_request`,
because the timer interrupt may come between.  The environment may send other
packets, flush the queue, unsubscribe, disconnect, and move the mode.  One active mode stands for
all those that are neither SLEEP nor USB, which the service treats alike.

The history variables number the requests, so that a property can say *which*
request an answer belonged to.  A completion does not tell which response it is of:
when two are under way at once (`crowded`) the one of an earlier command runs the
pending request early, as the code does; `AnswerHonoured` is about a phone that waits
for each answer.

| run | shows |
|---|---|
| `device` | every order of three commands, their answers, completions and timers: a request runs once, is never left without a timer, runs only after its answer unless the timer ran it, and a request answered SUCCESS is refused later only if the mode moved; with fairness of the timer and of an interrupted completion every request is resolved |

## 5. Crs

`Crs.tla` is the file transfer of `crs.c` with both ends of the link: the
service's states IDLE, READ, WRITE and DIR, a window of packets numbered modulo
256, the acknowledgement timer; and the phone, which sends commands,
acknowledgements, data, CANCEL, or disconnects, at any moment.  The data of a file
is abstracted to the index of its packet and the file, which is named by the number of the
command it was asked for with; `source` and `target` are the files the service has
open.  On the air a packet has neither: nobody in the model compares the file of
a packet, which only says, afterwards, what was stored or accepted.  "The file
arrived intact" is that the phone's sequence is 0, 1, 2, ... and all of it of the file
asked for last.  The transmit queue is the sequence it implements (`TxFifo`), shared with
packets of other services (`Others`).

One action is one run of `FS_CRS_Update`'s handler of a state, split only where
the code returns to the sequencer.  `hurried` records that a command was given
while packets of an earlier transfer were still in the receive ring or the transmit
queue: neither disconnecting nor ending a transfer empties them, and packets carry no
number of their transfer, so those of an earlier one can be taken as the new one's, and
the answer and the chunks of a file whose READ was cancelled as those of the next file.
That is what the code does, and the properties on files are about a phone that waits; for
one that hurries they claim the order of the chunks alone.
`stranded` records that a transfer ended with packets left in the receive ring and no
task scheduled; a listing has no timer, so that other services can also leave it with
nothing to wake it.  `TransferSafe` excepts these two, and what a failing f_lseek or
f_write leaves behind (`disk_error`).

| run | shows |
|---|---|
| `crs_download` | three commands, among them a READ, a CANCEL and the READ of another file, downloads of 8 packets with a window of 2 and numbers modulo 7, two faults, and listings: what the phone assembled is a prefix of the file it asked for last, an acknowledged packet was accepted, and with fairness a download that is not cancelled completes and a listing ends |
| `crs` | two commands of all kinds, one fault, with other services' packets: types, the card and the file are held exactly during a transfer, work has a wake-up; an upload of 8 packets over a lossy link with retries is written as a prefix of the file of its own command |

A file is longer than the range of numbers, so they wrap within it; as in the code
(8 and 256) the window is less than a third of that range.  Fairness: the task runs,
the acknowledgement timer expires, and what is at the head of the transmit queue
reaches the phone or is lost.  The last is strong fairness: the sequencer
serves tasks of one priority in turn, so the transmit task has its turn although
the transfer task may be set again and again.  The phone only owes to take what it
is given.

## 6. ResourceManager

`ResourceManager.tla` is `resource_manager.c`: three counts (VCC, microSD, FatFS),
each request asking for the one below it.  Its environment is everybody who holds
them: the modes ACTIVE, START and CONFIG, USB mode, the state file at the end of USB
mode, a file transfer, and the brief commands of CRS.  Nobody but CRS looks at a
refusal, and the model's callers do not either.  `volume` numbers the mounts.

| run | shows |
|---|---|
| `sessions` (see section 8) | three modes and three transfers, four mounts, one of which may fail: counts match holders, files stay on the volume they were opened on, no release is one too many |
| `resource_shared` | **violated**: USB mode begins during a file transfer, is refused the card, and goes on |

`collided` records that collision.  The counts are small: two users of FatFS are
the most there are at a time, so nothing is bounded but the number of mounts.

## 7. BlockDevice and UsbStorageCache

`UsbStorageCache.tla` is `usb_storage_cache.c` as `usbd_storage_if.c` and
`usb_mode.c` use it: one group of blocks cached for reading or for writing, a mask of
dirty blocks, a flush that writes the mask in runs.  A command of the host is a
sequence of chunks, one per group; each chunk is a step, and a transfer of the card
may fail at each.  Power may be lost at any moment.  The last group of the card
is not whole.

When the cable is pulled the task flushes what is left, and the host may be back
before the task is done (`Replug`): the steps of that flush and of the shut-down
behind it are then interleaved with the commands of the USB interrupt.  `raced` records
that a command fell into them: the code does not guard against it, and nothing is
claimed of the cache from there on.

`BlockDevice.tla` is the promise: a disk with a write-back cache.  A read returns
the last block written, a sync makes everything durable, and a loss of power
may take only what was not synchronised.

| run | shows |
|---|---|
| `usb` | groups of 3, a card of 4 blocks: nothing beyond the end, a cache that is valid is the card's contents with the dirty blocks on top, what was synchronised is on the card; cache and card implement `BlockDevice` until the flush of the task and the returning host meet (`void`) |

A group of three has the masks with a gap, which need two runs; a card of one group
and a part has the boundary.

## 8. The parts of a session

The components below share no state with each other that matters to their
properties: each has its own variables, its own interrupts and its own task.  They
are modelled one by one, and two MC modules put them side by side.  A behaviour
moves one *part*, chosen in the initial state, and leaves the others as they
begin; so a run is the sum of the state spaces of its parts and not their product,
and asks of each part what a run of its own would ask.

| run | parts | shows |
|---|---|---|
| `sessions` | ResourceManager, LogSession, EventRing, GnssReceiver, VbatTimers, AudioControl, ActiveLook, Calendar | what a recording session keeps, whatever comes in which order: safety only |
| `progress` | SensorBus, ImuReader, StartControl, Button, AudioPlayback, ActiveLook, GnssReceiver | what the interrupts drive: safety, and that it goes on to its end |
| `glasses_second_session` | ActiveLook | **violated**: activelook.c:304-305 says the glasses can reconnect without a power cycle; after a second session that begins before they are disconnected they are not set up |

Each part has one property that joins what it promises, defined at the end of its module and
explained there conjunct by conjunct: `RowsKept` (LogSession), `EventsKept` (EventRing),
`MeasurementsRight` (GnssReceiver), `SpeechClear` (AudioControl), `DisplayRight`
(ActiveLook), `TimesRight` (Calendar), `BusSafe` (SensorBus), `ReaderSafe` (ImuReader),
`CountdownSafe` (StartControl), `ButtonSafe` (Button), `PlaybackSafe` (AudioPlayback); those of
VbatTimers and ResourceManager stand alone.  Types are joined in `PartsTypeOK`.
`DriversProceed` and `RemotesProceed` are the liveness of `progress`: that a stop
returns, a countdown resolves, a press is seen, a sound ends; that the GNSS
receiver is configured and the glasses come up.

In `progress` the four fairness conditions `First`, `Second`, `Third` and `InTurn` are
those of the part's own module: because `part` never changes, `WF` of the choice is
`WF` of the part's action.

### SensorBus

`sensor.c` with its users `baro.c`, `mag.c` and `sht4x.c`, as `active_mode.c`
starts and stops them.  Three contexts, task, priority 3 and priority 2, have a `pc` each;
a context steps only while those above it are idle, and a critical section is one
step.  `transfer` is the I2C peripheral.  Bounds: three sensors and a queue of two, so
that it is full and a request is refused; nothing else is bounded, sessions
go on for ever.

The bus has one owner except in two windows.  `NextHandler` reads the volatile `busy`
again after its critical section (sensor.c:148): if an interrupt marked it in between,
both start the transfer.  `FS_Sensor_Start` looks at the queue and starts it without
marking the bus (sensor.c:82-86).  `collided` records either; the model ends there,
because from then on the ring's indices pass each other.  `BusReserved` says that
whoever *did* mark the bus is never the one that collides; of the two windows
themselves, where the code goes wrong, nothing is claimed.

### ImuReader

`imu.c`: data-ready interrupt, SPI transfer by DMA, its completion in a higher
interrupt, the recovery when a sample arrives during a read, start and stop.
`drdy`, `routed` and the latched edge `extiFlag` are the sensor's pin and the EXTI line.  No bounds: the
state is finite.  An access to the sensor may fail at any time; `failed` says so, and
`NeverStuck` speaks of sensors that answer: the recovery, which means to leave no pin
high without a read (imu.c:199-203), does not look at the results of its own accesses.

### VbatTimers

`vbat.c`, its two users and the pool of `hw_timerserver.c`.  The comment
"active mode manages VBAT independently" holds unless ACTIVE mode begins during a
connection made in SLEEP; then `vbat_timer_id` is overwritten, one timer is never
deleted and the other twice, and the disconnection resets the ADC of the mode.
`doubled` is exactly that case, and `ActiveMeasures` excuses it: what is left to catch is
every other order of connections and sessions.  Pool of four timers.

### StartControl

`start_control.c` with the receiver's TIM-TM2 messages, at most two under way.  A task's
handler is split where the count timer may interrupt it.  A cancellation between the
tone and its message leaves the message to the next countdown (`late`): it ends it
early and its time is reported, which `OwnToneReported` excuses.  A timer left running
may take a period off the next countdown, which `ToneAfterCountdown` allows.  The receiver
is taken to report one edge for each tone, the rising one: the code does not look at the
flag that tells them apart (gnss.c:703-712).

### LogSession, EventRing, Calendar

`LogSession` is `log.c` from the rings to the file: the producers, the merge by
time with its sentinel, the deadline that may end every loop, the batch, `f_sync` that may
fail, and several sessions.  Two sensors and the GNSS ring stand for the others,
whose code is alike.  Bounds: rings of two, clusters of two rows, four samples in a
session, a clock that wraps at 3, so that the sentinel `2^32 - 1` occurs.  A sample
with that time hides its ring for one update; `UpdateDrains` says nothing else does.
`RowsInOrder` is about one ring; over the rings `OldestFirst` says that of the samples
accepted before the update came to the sensors the oldest is the next row.  (One that
an interrupt brings after its ring was looked at may be older than the row that is made
next, and waits for the next look.)  `SamplesAccounted`: as long as the file is open each
accepted sample is a row of it or waits in its ring.  `FS_Log_DeInit` does not drain the
rings and `FS_Log_Init` empties them, so that what waits there gets no row.

`EventRing` is the ring of event texts, which callers at three levels fill without
a critical section.  A call inside another (`nested`) writes to the same slot and
then skips one: the properties speak of the others.  `FS_Log_Update` does not ask
whether a session is under way.  An update whose bit is still set when `FS_Log_DeInit`
runs comes after it and writes what is in the ring to the closed file: those events are
`lost`, and counted.  If no update comes they stay in the ring and are written to the
file of the next session.  Ring of two, four events.

`Calendar` has `mk_gmtime`, `gmtime_r` and the rounding of `normalizeGNSSTime`, which
takes nanoseconds of either sign and rounds a positive half up and a negative one towards
zero (log.c:393-397), against the rules of the Gregorian calendar, for each of the 49710 days that 32 bits of
seconds reach.  The state is the reference calendar; the algorithms are pure
operators evaluated in it.

### GnssReceiver

`gnss.c`: each setting sent until it is acknowledged, the circular DMA buffer and
its reader, position and velocity joined by their time of week, the announced
time of the next pulse, errors of the UART.  A slot of the buffer holds one message:
the parser is a byte automaton that resynchronises on a checksum, which is what
`Noise` stands for.

The receiver answers what it was sent, in that order: `pending` are the settings it has
still to answer, and it may do so in time, after the time-out and the re-send, or never.
An answer names the class and the id of its message only, and these are the same for
all UBX-CFG-MSG (`Class`, the first `MsgSettings` settings).  Nothing is flushed before a
message is sent again.  So once a time-out came before its answer (`late`) the second answer
to one UBX-CFG-MSG counts for the next, which may then never have been taken:
`Configured` promises all the settings without such a time-out, and with one only those
that are the first with their class and id (`FirstOfItsClass`).  A pending update may come
after `FS_GNSS_DeInit`.

An error of the UART other than a framing error starts the reception again at the
first slot, also during the configuration, and leaves `gnssRxIndex` where it was: then,
and when the DMA laps the reader, old messages are read again (`disordered`), an
announced time may date the wrong pulse and an old answer count for a setting.  A
framing error while the module is being configured is ignored by the callback although the
HAL has stopped the reception (gnss.c:443); while the rate is being changed the loop starts it
again, later nothing does, and `FS_GNSS_Init` would wait for ever.  `ErrorPhases` is the
set of moments when a framing error may come; the runs have `switch`, and `InitEnds` is
about that.

Bounds: three slots; the rate and three settings, two of them UBX-CFG-MSG, in `sessions`,
the rate and two in `progress`; two epochs, one fault and one late answer (`MaxLate`) in
`sessions`, no epoch, two faults and one late answer in `progress`.  `MCBound` ends a
behaviour of `sessions` with a late answer where the receiver begins to measure: what it
measures does not depend on how it was configured.  `InTime` is the one assumption on speed: the
update task has read an announcement that came before its pulse, a second later.

### Button

`button.c`: edge, repeated sampling, `busy`.  Two samples for a press and four for a
release stand for the twenty of each.  The interrupt of the pin is enabled before
`FS_Button_Init`, whose read of the pin and store of the state are two steps (`InitReads`,
`InitStores`; button.c:122-125).  The code drops three edges: one between that read and
the store, one between the store and the creation of the timer, which starts nothing, and
one between the last sample and `busy = false`.  `ignored` is true after one of these,
until the next edge; `StateFollows` and `PressIsSeen` say that nothing else is missed.

### AudioPlayback and AudioControl

`AudioPlayback` is `audio.c`: the ring between task and DMA, frames, the end of
a sound, lists of files.  Samples are numbered through their sound, so that
"what was loaded is heard" is that the DMA finds, in the slot it sends, the sample of
its own sound and number.

`mode` is who calls.  In ACTIVE mode tasks do, and the tone timer when nothing plays
(`Tone`; audio_control.c:913-921); during a start countdown it is the timer interrupt
(`Countdown`; start_control.c:202-231), over whatever plays.  `FS_Audio_Update` and a
call by a task are cut into steps (`pc`, and in `count` and `local` what the task has read
or computed), between which the DMA goes on and an interrupt may begin a sound.
Then the task compares, stores or copies with what it had read of the sound before
(audio.c:653-657).  `disturbed` marks a sound that was begun so; of that one `HeardAsLoaded`
and `IdleIsSilent` say nothing, because the code does not protect it: it may be heard with
samples in the wrong place, or be sent while it counts as over.  `FileHeld` and
`SoundEnds` hold of it too.

Frames of two samples, sounds of 0, 1 and 3 samples, two sounds, and differences of 32 bits
modulo 16, which is more than any sound has: so there is a sound with padding and of two frames,
and positions that are behind the task's.  A file without samples never ends (frameCount is
incremented before it is compared, audio.c:128); the model ends there (`endless`).

`AudioControl` is `audio_control.c`: which task says what, when.  `audio` is the player
as seen from here.  A flight between four altitudes has an alarm, a silence window and an
announced altitude; texts have two words; every second value is spoken (with an
`sp_rate` of 0 none is, which the type proof of section 9 needs).  Two weaknesses are histories: a task
whose bit is still set after the session begins a sound that then never ends (`late`),
and a value that is too large leaves `end_ptr` uninitialised (`runaway`, the model
ends there).  The `consumerTimer` interrupt inside a call of `FS_Audio_Play` or inside an
update is the `Tone` of `AudioPlayback`.

### ActiveLook

`activelook.c`, its modes' set-up, `activelook_client.c` and the part of `app_ble.c` that
scans, connects and handles events.  `call` is the command whose answer a task waits for; meanwhile the
other tasks are paused, but the mode task and the timer are not.  Two sessions, one
lost link, one refused command (none in `progress`, where a refusal could only be
excused).  A text that the radio refuses counts as drawn.  If a session begins
while the glasses of the last are connected or connecting (`outlived`), the
connection starts nothing: this is the run `glasses_second_session`.
HandleDisconnect also stops `timer_id`, which may be deleted by then (activelook.c:309); what that does
to another timer of the same id is not modelled.  The status of the connection-complete event is not looked at.

### Fairness of `progress`

Interrupts are served and their handlers end; the HAL ends what it began; a task
whose bit is set comes to run, and also when interrupts keep coming (strong
fairness, since they are milliseconds apart and handlers take microseconds); the
radio answers and ends what it began.  Users, phones, the sky and the sensors
owe nothing.

### Deadlock

The configurations set `CHECK_DEADLOCK FALSE`, because the system may really stop: the
device at rest waits for its user, its phone or its host, and the bounds on inputs
end every behaviour.

## 9. Proofs

`ModeControllerProofs.tla` proves, for every `QueueLength`, `MaxNesting`,
`MaxInputs`, set of sources and configuration:

* `TypeCorrect`: `Spec => []TypeOK`;
* `RequestEventsAlwaysMatch`: `Spec => []RequestEventsMatch`;
* `PendingAlwaysHasEvent`: `Spec => []PendingHasEvent`;
* `RequestsAlwaysMatch`: `Spec => []RequestsMatch`, which is the two before it and what
  the run `mode` checks;
* `LiveAlwaysMatchesMode`, `VbusAlwaysHonoured`: `Spec => []LiveMatchesMode` and
  `Spec => []VbusHonoured`;
* `AlwaysRestartsWhenQuiet`: `Spec => RestartOnlyWhenQuiet`, an action property; it and the
  two before it until `reentered`.

None of them is inductive alone.  For the first four the invariant `IInv` adds two facts.
`Shape(stack)`: only the innermost frame is anywhere but at a wait point, a "mode"
frame in a handler carries the event it popped, and a frame past its handler
whose event is TERMINAL_ACTION left for SLEEP or dropped the action.
`PendingIsResolved`: a pending action whose event has been popped belongs to a frame
that is bound to reach the check at the end of the loop.  The proof has one lemma per
group of actions; sequence facts (`Append`, `Tail`, `SubSeq` on the top of the
stack) are lemmas stated once.  The last three rest on `RunInv`: as long as no run of
the task is nested in another, the stack holds one run at most, `live` is that of the
mode the run holds, and the cable is known to that mode or to an event that is queued
(`CableKnown`; without the cable, each VBUS_HIGH has a VBUS_LOW behind it).  The
assumptions are the ASSUMEs of `ModeController`.

`BleTxQueueProofs.tla` proves, for every size of the ring and every number of packets,
with the interrupt and without:

* `TypeCorrect`: `Spec => []TypeOK`;
* `WaitingAlwaysHasTask`: `Spec => []WaitingHasTask`;
* `PacketsAlwaysIntact`: `Spec => []PacketsIntact`;
* `QueueImplementsFifo`: `Spec => ImplementsFifo`.

The second needs to know where the transmit task stands when it refuses to run:
the strengthening relates `tx_busy`, the flow flag and the pool event.  The third
and the fourth rest on `PacketInv`, which speaks of behaviours without the
interrupt inside a sender: every packet between the two indices is whole, they are
in the order they were offered and newer than all the radio had
(`QueuedIntact`); the packet being filled in is the newest and stands in the slot
behind them (`FillingIntact`); the command is the oldest (`CommandKept`); the ring
holds a window at most.  `SlotsApart` is the arithmetic: two indices less than a
window apart differ modulo the window, so what is written behind the queue touches
none of it (`WriteBehind`).  For the refinement, `WaitingIs` makes the ring a
sequence; publishing a packet is `Append`, handing one over is `Tail`.

`ResourceManagerProofs.tla` proves, for every set of modes and transfers and any
number of mounts and faults, all four invariants of the card in the run `sessions`:

* `TypeCorrect`, `CountsAlwaysMatch`, `FilesStayOnVolume`, `ReleasesAlwaysMatch`.

The lemmas on the four operations say what each does to counts that are
consistent (VCC as often as the card).  `IInv` is what survives even a
collision (`CountsOK`: FatFS counted once per user, the card held by somebody) and
what holds without one (`Apart`: who uses the card holds it, and only one side
does).  `VInv` adds the volume: it is mounted exactly while FatFS has a user, and
every user opened its files on it.

`DeviceStateProofs.tla` proves, for any size of the transmit queue, any number of
commands, packets of others, flushes and disconnections:

* `RequestsAlwaysSafe`: `Spec => []RequestsSafe`, the types among it;
* `AnswersAlwaysHonoured`: `Spec => AnswerHonoured`, an action property.

That a request runs once needs the numbers of the requests (`NumbersInv`): the one
that waits is of a command that was written, and commands to come have not been run.
That an answer which has left is the pending request's own needs `OnlyItsResponse`:
unless another command is being answered (`crowded`), every response in the queue or
with the radio is that request's.  `StillValid` is why the mode controller takes it:
as long as the mode has not moved, what was tested when it was accepted still holds.

`UsbStorageCacheProofs.tla` proves, for every card, group, length of a run and any
number of commands, faults and losses of power:

* `CacheAlwaysSafe`: `Spec => []CacheSafe`, the types among it;
  `SyncedAlwaysOnCard`: `Spec => []SyncedIsOnCard`, until `raced`;
* `CacheImplementsDisk`: `Spec => ImplementsDisk`, each step a step of `BlockDevice` or
  none.

The strengthening says that a dirty block was written since the last
synchronisation (`DirtyInv`), and of a flush that is half done that what the task
writes is what the cache still holds (`RunInv`), as long as no command of the host
fell into it.

`CrsProofs.tla` proves, for every window, modulus, file, number of commands and
faults:

* `TransferAlwaysSafe`: `Spec => []TransferSafe`, the types among it.

FatFS and the file are held exactly during a transfer because every way out of a
state passes its close; the invariant says where a run that is split has got to
(`Phases`), and what is held also in the middle of it (`Held`).  `Timers` names what
will run the task in each state: the timer of a READ or a WRITE, the bit or the
queue for a listing.

About the data, with the same freedom and the assumption of `Crs` that the modulus is
more than three windows (8 and 256 in the code), the second half of `CrsProofs.tla`
proves:

* `UploadAlwaysIntact`: `Spec => [](~hurried => UploadIntact)`;
* `DownloadAlwaysSafe`: `Spec => [](~hurried => DownloadSafe)`.

`Turn` says that for a phone that is not hurried a command stands alone in its queue, and
only data or only acknowledgements follow it.  `Upload` and `Download` relate the two ends: the
receiver is at most a window ahead of what the sender knows to be stored.
`AcksFit` and `DataFit`, `Flying` and `Coming` place each packet on its way, and with it
its residue, in a range of fewer numbers than the modulus; there a residue is one number
(`SameResidue`), so an equality of sequence numbers in the code is one of chunks.

`Files` says which file each packet and each chunk is of: of the transfer that goes on, for
such a phone.  That is where the two theorems need the phone to wait: the code compares
numbers only.  For a phone that hurries, what `UploadIntact` and `DownloadSafe` still claim,
the order of the chunks, is model-checked only.

The last two modules are about the parts of section 8, under the names and the constants
that `MCSessions` and `MCProgress` give them (their ASSUMEs say no more than that the
sizes are positive and the bounds natural numbers).  The theorem of a part is about the
specification of that part, `Log!Spec` or `Imu!Spec`, with any interleaving of its
tasks and interrupts; the last theorems carry them over to what the two runs check.

`SessionProofs.tla` proves:

* `ActiveAlwaysMeasures`: `Vbat!Spec => []ActiveMeasures`.  `VbatInv`: until ACTIVE mode
  begins with the timer of a connection, the measurement has one user, and the pool
  holds its timer and one more; so a creation never fails, for every pool of at least two.
* `SpeechAlwaysClear`: `Speech!Spec => SpeechClear`, three invariants and the action
  property that no text replaces another, for any altitudes, alarms and windows and texts
  of any length.  `NoToneInSpeech` is not inductive: after its last word a text still
  holds the tone back, until the consumer finds no more (`HoldsTone`).  `TextLeft` says what
  is left of a text when an alarm or a silence has cut it off, and so where a new one may
  begin.
* `RowsAlwaysKept`: `Log!Spec => RowsKept`, for every size of the rings and the cluster, and
  wherever the clock wraps.  `RingInv`: sample i is in slot i modulo the ring, and what is
  turned into a row is the sample of the read index.  `LookInv` speaks of the middle of an
  update: the sample it found is still there, and a ring it passed has only samples that came
  later, or are not older, or have the sentinel's time; with `SeenInv`, which keeps
  `accepted` within the rings, that is `OldestFirst`.  `BatchInv`: the batch is what the
  file does not have yet, less than a cluster.
* `EventsAlwaysKept`: `Events!Spec => []EventsKept`, for every size of the ring and any
  number of calls and sessions.  Of calls that were never inside one another, `CallInv` says
  that the slot being filled is behind the ring, `WaitingInv` that what
  waits is whole, in order and newer than the file (`FileInv`); `IndexInv` keeps the indices
  a ring apart at most and accounts for every call: in the file or lost to a closed one
  (`Gone`), waiting or dropped.
* `MeasurementsAlwaysRight`: `Gnss!Spec => []MeasurementsRight`, with answers that are late,
  lost or repeated.  `Stage` says how far `FS_GNSS_Init` has come; `FirstsTaken`: an
  acknowledgement that will be read is of a setting that was taken, or of another of its class,
  and so the first setting of each class that is behind was taken; `AllTaken`: without a
  time-out before its answer no answer is under way but the one to the setting that is asked
  (`Asks`), and every setting behind was taken.  Both until `disordered`.  `EpochInv`:
  what was received counts for the epoch of the last message.  `PulseInv`: unless
  the buffer was lapped or restarted, at most one announcement is ahead of the reader, it is
  of the next pulse, and the reader stops at a place that is still ahead (`OnePulse`,
  `ReadsBehind`).  These are statements about arcs of a ring of any length.
* `DisplayAlwaysRight`: `Glasses!Spec => []DisplayRight`.  `OneConnects`: from the scan
  that found the glasses to the link, one thing at a time stands for the link to be, the
  event, the task, the command or the radio.  `LinkInv`: no second link before the
  end of the first was handled.  `TimerInv`: who draws has a timer.
* `TimesAlwaysRight`: `Days!Spec => []TimesRight`, the one proof that is arithmetic.
  `CalInv` says that the state is a date of the rules (`IsDate`) and that `mk_gmtime` of
  that date is the day; it is inductive because `NextNewYear` and `MonthsFollow` make the
  closed forms (leap days before a year, months in pairs of 61 days) advance as the rules do.
  The way from a day to its date is two theorems of its own, which hold beyond
  what 32 bits reach: `DateFound`, for every date of 2000 to 2199, by the year
  (`YearFound`: the cycles of four years, shifted by a day after 2100) and by the
  month (`MonthPairs`); `RowTime`, for every second and every nanosecond
  between minus one second and one, of which the run takes the edges.
* `PartsAlwaysTyped`: `MCSpec => []PartsTypeOK`, the types of the card and of every part.
  Most are by the invariants above; the queue of the glasses' events is not.  That no
  more than three events wait is `QueueInv`: the link, the procedure that is under way and the
  call that begins one are each an event to come (`Pending`), and with those that wait
  they are three at most; while a link is still to be made only the event of
  the scan waits, and no procedure can begin.
* `SessionAlwaysRight`: `MCSpec` implies all the invariants and both action properties of
  the run `sessions`.  The step from a part to the whole is `PartsImplemented`: `MCSpec`
  implies the specification of the card and of each part.

`ProgressProofs.tla` proves:

* `BusAlwaysSafe`: `Spec => []BusSafe`, for every length of the queue, every set of
  sensors and sessions without end, until a transfer is begun twice (`collided`).  `Held` is who has the bus: one that marked it for
  itself or whose transfer has just ended has it marked, with a request queued and no
  transfer under way, and no context above it has a step to do (`OnlyHolder`).
  A transfer that is begun in vain is therefore never begun by one that
  marked the bus.  `BusyWorks` says that a marked bus is used, which is what a request that
  finds it marked relies on.  `MagFollowed` and `BusyBehind` say why a sensor that counts as
  busy is not forgotten when the request in front is taken off: its next one stands
  behind it or is still to be asked for.
* `ButtonAlwaysSafe`: `Btn!Spec => []ButtonSafe`, wherever an edge comes into
  `FS_Button_Init` too.  `ButtonHandling`: the timer's handler runs
  only for a timer that was started, which `busy` says; what it or the initialisation has
  sampled is still on the pin unless an edge came, which is then pending or was dropped
  (`ignored`); and after the stop it is the state.
* `CountdownAlwaysSafe`: `Start!Spec => CountdownSafe`, the action property that a tone
  comes after its whole countdown (less a period, if the timer of an earlier one still ran)
  among it.  `StartSteps` says what an interrupt of the count
  timer may have done to a task that is half done, `StillCounts` that the periods gone and
  those to come make up a countdown, `MarkIsOfTone` that a mark is the time of this tone,
  unless an older one is on its way.
* `PlaybackAlwaysSafe`: `Audio!Spec => []PlaybackSafe`, for sounds and frames of every
  length, with interrupts that begin sounds between any two steps of a task.  Of a sound that was
  not begun so (`Clean`): an update reads no sample the DMA has not reached and what is
  written is a frame ahead of it at most (`Ahead`); each slot from the one that is sent to the
  last written has the sample of its own sound and number (`RingHolds`; `SlotsDiffer` is the
  arithmetic); while the DMA runs the last frame is still to come, unless the sound is one
  that never ends (`FrameToCome`); what a task in the middle has read is still true of the
  sound that plays.  Of every sound `Reached`: the DMA is not behind the frame that is counted.
* `ReaderAlwaysSafe`: `Imu!Spec => []ReaderSafe`.  `ImuBus`: one transfer at a time, the
  recovery is alone with the sensor (`OneTransfer`, `RecoversAlone`, `QuietAround`).
  `ImuEdges`: while samples are expected the interrupt is unmasked or somebody is
  about to unmask it (`Unmasked`), and a sample whose edge is gone has a read coming
  (`ReadComes`), unless the sensor failed.  `ImuRows`: a row is made of the samples it is
  announced for (`RowKnown`).
* `DriversAlwaysSafe`: `MCSpec` implies the four invariants and the action property of the
  run `progress`; `DriversImplemented` is the step from the parts to the whole.

Each theorem has the exceptions of its property, which sections 2 to 8 name: what the code
does not guarantee is not proved.

The proofs tell something of the model too.  A queue of four events for the glasses
is one more than they can fill.  And the type of the speech counter is not an invariant
for a rate of 0 unless the guard of `updateTones` that speaks only for a rate other than 0
(audio_control.c:837) is in the model, which the run, with a rate of 2, does not see.

What is only model-checked:

* liveness, which needs the fairness conditions and ENABLED: `DriversProceed`,
  `RemotesProceed` and those of the other components;
* the order of the chunks in `UploadIntact` and `DownloadSafe` for a phone that is hurried.

## 10. The plan

Written, in this order: ModeController; TxFifo and BleTxQueue; DeviceState; Crs;
ResourceManager; BlockDevice and UsbStorageCache; then the parts of section 8.  The
order is that of the harm a fault would do: a mode that cannot be left, a command
carried out twice, a file that is not what was recorded, a card destroyed, a
recording that is incomplete, a sensor that is silent.

Left to do:

* theorems: that a hurried phone gets chunks in their order, if of the wrong file, for any
  window, file and number of hurried commands;
* compositions: ModeController over SensorBus and ImuReader, whose stop waits inside
  the mode task; AudioControl over AudioPlayback;
* the parser of the configuration file, the byte automaton of the UBX parser, the
  bonding and the reset of the radio in app_ble.c.

## 11. What is not modelled

* Vendored code (Drivers, Middlewares, Utilities, fonts), nine tenths of the lines of the
  repository: it is modelled from its use, as far as the code here depends on it.
* `active_control.c`, `led.c`, `charge.c`: they pass calls on and have no state that
  could be wrong.
* Layout: the text of rows, packets, displays and names; the tables of the radio's
  attributes; register values and units of the sensors.
* Floating point and numeric code: `nav.c`, the synthesis of tones, the wind and
  speed values that are spoken; MD5.
* Clocks, pins, low power modes; the timer server's list of running timers.
