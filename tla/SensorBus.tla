----------------------------- MODULE SensorBus -----------------------------
(***************************************************************************)
(* The I2C bus the barometer, the magnetometer and the humidity sensor     *)
(* share (FlySight/sensor.c, baro.c, mag.c, sht4x.c), as ACTIVE mode       *)
(* starts and stops it (active_mode.c).                                    *)
(*                                                                         *)
(* Three contexts run the code: the mode task; the interrupts of priority  *)
(* 3, which are the completion of an I2C transfer and the timer server;    *)
(* and the data-ready interrupts of priority 2.  A context steps while     *)
(* every higher one is idle.  A critical section (PRIMASK) is one step, so *)
(* is what only one context touches; between two steps a higher context    *)
(* may run.                                                                *)
(***************************************************************************)
EXTENDS Integers, Sequences

CONSTANTS
  Sensors,       \* those the configuration enables
  HANDLER_COUNT

ASSUME BusAssumption ==
  HANDLER_COUNT \in Nat \ {0} /\ Sensors \subseteq {"baro", "mag", "hum"}

VARIABLES
  mode, busy,
  queue,         \* the requests in handlerBuf from handlerRdI to handlerWrI
  transfer,      \* the DMA: a transfer is under way
  pc,            \* of each context: its next step
  task,          \* how far FS_ActiveMode_Init or _DeInit is
  on,            \* sensors started: their interrupt or timer is enabled
  sensor_is_busy,
  readTimer,     \* read_timer_id of sht4x.c runs
  tempToRead,    \* FS_Mag_Read has yet to ask for the temperature
  reserved,      \* history: contexts about to use a bus they marked busy themselves
  collided       \* history: a transfer was begun on a bus in use, or for nobody

busVars    == <<mode, busy, queue, reserved>>
driverVars == <<on, sensor_is_busy, readTimer, tempToRead>>
vars == <<busVars, transfer, pc, task, driverVars, collided>>

Contexts == {"task", "isr", "exti"}
Above == [task |-> {"isr", "exti"}, isr |-> {"exti"}, exti |-> {}]

(* What is asked of the bus, and by whom. *)
Requests == {"baro", "mag", "mag_temp", "hum_measure", "hum_read"}
Owner == [baro |-> "baro", mag |-> "mag", mag_temp |-> "mag",
          hum_measure |-> "hum", hum_read |-> "hum"]

-----------------------------------------------------------------------------
(* Mutant of Full: one request too many. *)
FullOneLate == Len(queue) > HANDLER_COUNT
Full == Len(queue) >= HANDLER_COUNT

Idle(c) == pc[c] = "idle" /\ (c = "exti" => ~tempToRead)
Preempt(c) == \A h \in Above[c] \union {c} : Idle(h)   \* an interrupt is taken
Steps(c)   == \A h \in Above[c] : Idle(h)

Goto(c, step) == pc' = [pc EXCEPT ![c] = step]

(* A context works on the bus, or the DMA does for it. *)
Working(c) == \/ pc[c] \in {"begin", "done", "failed", "advance"}
              \/ (pc[c] = "recheck" /\ busy)
InUse == transfer \/ \E c \in Contexts : Working(c)

(* The critical section of FS_Sensor_Enqueue: the slot is filled and the bus *)
(* reserved if it is free. *)
StartNow == mode = "ACTIVE" /\ ~busy

(* Mutant of MarkBusy: the bus is marked only when the read begins. *)
MarkedLater == busy
MarkBusy == busy \/ StartNow

Enqueue(c, request) ==
  /\ queue' = Append(queue, request)
  /\ busy' = MarkBusy
  /\ reserved' = IF StartNow THEN reserved \union {c} ELSE reserved
  /\ Goto(c, IF StartNow THEN "begin" ELSE "idle")
  /\ UNCHANGED mode

(* A driver that is not busy asks for a transfer; when the queue is full it  *)
(* gives this measurement up.                                                *)
Ask(c, request) ==
  \/ /\ ~Full /\ Enqueue(c, request)
     /\ sensor_is_busy' = [sensor_is_busy EXCEPT ![Owner[request]] = TRUE]
  \/ /\ Full
     /\ sensor_is_busy' = [sensor_is_busy EXCEPT ![Owner[request]] = FALSE]
     /\ UNCHANGED <<busVars, pc>>

-----------------------------------------------------------------------------
(* FS_Baro_Read and FS_Mag_Read, from the data-ready interrupts. *)
BaroReady ==
  /\ Preempt("exti") /\ "baro" \in on /\ ~sensor_is_busy["baro"]
  /\ Ask("exti", "baro")
  /\ UNCHANGED <<transfer, task, on, readTimer, tempToRead, collided>>

MagReady ==
  /\ Preempt("exti") /\ "mag" \in on /\ ~sensor_is_busy["mag"]
  /\ Ask("exti", "mag") /\ tempToRead' = TRUE
  /\ UNCHANGED <<transfer, task, on, readTimer, collided>>

(* The second request of FS_Mag_Read.  It does not set sensor_is_busy: if    *)
(* the first one was refused, the driver counts as free although this one is *)
(* queued.                                                                   *)
MagAsksTemperature ==
  /\ pc["exti"] = "idle" /\ tempToRead /\ tempToRead' = FALSE
  /\ \/ ~Full /\ Enqueue("exti", "mag_temp") /\ UNCHANGED sensor_is_busy
     \/ /\ Full /\ sensor_is_busy' = [sensor_is_busy EXCEPT !["mag"] = FALSE]
        /\ UNCHANGED <<busVars, pc>>
  /\ UNCHANGED <<transfer, task, on, readTimer, collided>>

(* FS_SHT4X_Measure and FS_SHT4X_Read, from the timer server. *)
HumMeasure ==
  /\ Preempt("isr") /\ "hum" \in on /\ ~sensor_is_busy["hum"]
  /\ Ask("isr", "hum_measure")
  /\ UNCHANGED <<transfer, task, on, readTimer, tempToRead, collided>>

HumRead ==
  /\ Preempt("isr") /\ readTimer /\ readTimer' = FALSE
  /\ \/ ~Full /\ Enqueue("isr", "hum_read") /\ UNCHANGED sensor_is_busy
     \/ /\ Full /\ sensor_is_busy' = [sensor_is_busy EXCEPT !["hum"] = FALSE]
        /\ UNCHANGED <<busVars, pc>>
  /\ UNCHANGED <<transfer, task, on, tempToRead, collided>>

-----------------------------------------------------------------------------
(* BeginRead: the transfer of the oldest request is started, in the context  *)
(* of whoever found the bus free.  The HAL refuses when a transfer is under  *)
(* way, or the start fails; then the callback is called at once.             *)
BeginRead(c) ==
  /\ Steps(c) /\ pc[c] = "begin" /\ busy' = TRUE
  /\ \/ ~transfer /\ transfer' = TRUE /\ Goto(c, "idle")
     \/ Goto(c, "failed") /\ UNCHANGED transfer
  /\ collided' = (transfer \/ queue = <<>>)
  /\ reserved' = IF collided' THEN reserved ELSE reserved \ {c}
  /\ UNCHANGED <<mode, queue, task, driverVars>>

(* FS_Sensor_TransferComplete and FS_Sensor_TransferError. *)
TransferEnds ==
  /\ Preempt("isr") /\ transfer /\ transfer' = FALSE
  /\ Goto("isr", "done") \/ Goto("isr", "failed")
  /\ UNCHANGED <<busVars, task, driverVars, collided>>

(* Mutant of Completes: a measurement that could not be started is not given *)
(* up.                                                                       *)
CompletesWhenRead(request, ok) == request \in {"baro", "mag_temp", "hum_read"}

(* NextHandler, the callback of the request: which ones end the measurement  *)
(* of their sensor.  After the command of a humidity measurement the read    *)
(* timer is started, if it was sent.                                         *)
Completes(request, ok) ==
  request \in {"baro", "mag_temp", "hum_read"} \/ (request = "hum_measure" /\ ~ok)

Callback(c) ==
  /\ Steps(c) /\ pc[c] \in {"done", "failed"} /\ Goto(c, "advance")
  /\ LET request == Head(queue)
         ok      == pc[c] = "done"
     IN /\ sensor_is_busy' = IF Completes(request, ok)
                             THEN [sensor_is_busy EXCEPT ![Owner[request]] = FALSE]
                             ELSE sensor_is_busy
        /\ readTimer' = (readTimer \/ (request = "hum_measure" /\ ok))
  /\ UNCHANGED <<busVars, transfer, task, on, tempToRead, collided>>

(* The critical section of NextHandler, and the test of busy behind it: busy *)
(* is volatile and read again, after the interrupts are enabled.             *)
EngagedUnlessOne(waiting) == mode = "ACTIVE" /\ Len(waiting) > 1   \* Mutant of Engaged
EngagedInAnyMode(waiting) == waiting # <<>>                         \* Mutant of Engaged
Engaged(waiting) == mode = "ACTIVE" /\ waiting # <<>>

Advance(c) ==
  /\ Steps(c) /\ pc[c] = "advance" /\ Goto(c, "recheck")
  /\ queue' = Tail(queue)
  /\ busy' = Engaged(queue')
  /\ reserved' = IF busy' THEN reserved \union {c} ELSE reserved
  /\ UNCHANGED <<mode, transfer, task, driverVars, collided>>

Recheck(c) ==
  /\ Steps(c) /\ pc[c] = "recheck" /\ Goto(c, IF busy THEN "begin" ELSE "idle")
  /\ UNCHANGED <<busVars, transfer, task, driverVars, collided>>

Runs(c) == BeginRead(c) \/ Callback(c) \/ Advance(c) \/ Recheck(c)

-----------------------------------------------------------------------------
(* FS_ActiveMode_Init starts the sensors, then the bus.  A sensor that does  *)
(* not answer is left off.  sensor_is_busy is reset; the queue is not.       *)
TaskAt(step, next) == Preempt("task") /\ task = step /\ task' = next

StartSensors ==
  /\ TaskAt("off", "starting")
  /\ on' \in SUBSET Sensors
  /\ sensor_is_busy' = [s \in Sensors |-> FALSE]
  /\ UNCHANGED <<busVars, transfer, pc, readTimer, tempToRead, collided>>

(* FS_Sensor_Start, in its two statements. *)
SensorStart ==
  /\ TaskAt("starting", "started") /\ mode' = "ACTIVE"
  /\ UNCHANGED <<busy, queue, reserved, transfer, pc, driverVars, collided>>

BeginQueued ==
  /\ TaskAt("started", "running") /\ Goto("task", IF queue = <<>> THEN "idle" ELSE "begin")
  /\ UNCHANGED <<busVars, transfer, driverVars, collided>>

(* FS_Sensor_Stop: the mode is cleared, and then the task waits for busy. *)
SensorStop ==
  /\ TaskAt("running", "stopping") /\ mode' = "INACTIVE"
  /\ UNCHANGED <<busy, queue, reserved, transfer, pc, driverVars, collided>>

(* Mutant of Stopped: FS_Sensor_Stop does not wait. *)
StoppedAtOnce == TRUE
Stopped == ~busy

Waited ==
  /\ TaskAt("stopping", "stopped") /\ Stopped
  /\ UNCHANGED <<busVars, transfer, pc, driverVars, collided>>

(* FS_Mag_Stop, FS_Hum_Stop and FS_Baro_Stop: the interrupt or the timers    *)
(* first, then a blocking write.  Until its turn comes a sensor still asks.  *)
StopOrder == [stopped |-> "mag", mag_off |-> "hum", hum_off |-> "baro"]
StopNext  == [stopped |-> "mag_off", mag_off |-> "hum_off", hum_off |-> "off"]

StopSensor ==
  \E step \in DOMAIN StopOrder :
    /\ TaskAt(step, StopNext[step])
    /\ on' = on \ {StopOrder[step]}
    /\ readTimer' = (readTimer /\ StopOrder[step] # "hum")
    /\ UNCHANGED <<busVars, transfer, pc, sensor_is_busy, tempToRead, collided>>

-----------------------------------------------------------------------------
Init ==
  /\ mode = "INACTIVE" /\ busy = FALSE
  /\ queue = <<>> /\ transfer = FALSE
  /\ pc = [c \in Contexts |-> "idle"]
  /\ task = "off" /\ on = {} /\ sensor_is_busy = [s \in Sensors |-> FALSE]
  /\ readTimer = FALSE /\ tempToRead = FALSE /\ reserved = {} /\ collided = FALSE

Mode == \/ StartSensors \/ SensorStart \/ BeginQueued
        \/ SensorStop \/ Waited \/ StopSensor
Ready == BaroReady \/ MagReady \/ MagAsksTemperature \/ HumMeasure \/ HumRead
Bus == TransferEnds \/ \E c \in Contexts : Runs(c)

(* Once a transfer was begun twice its request is completed twice and the    *)
(* indices of the ring pass each other: the model ends there.                *)
Next == ~collided /\ (Mode \/ Ready \/ Bus)

Spec == Init /\ [][Next]_vars

(* A data-ready interrupt finishes.  What is below it goes on although such  *)
(* interrupts keep coming: they are milliseconds apart, and a handler takes  *)
(* microseconds.  The HAL ends a transfer, in completion or in an error.     *)
Finishes == ~collided /\ (MagAsksTemperature \/ Runs("exti"))
GoesOn   == ~collided /\ (TransferEnds \/ Runs("isr") \/ Runs("task") \/ Waited)
Fairness == WF_vars(Finishes) /\ SF_vars(GoesOn)
FairSpec == Spec /\ Fairness

-----------------------------------------------------------------------------
TypeOK ==
  /\ mode \in {"INACTIVE", "ACTIVE"} /\ busy \in BOOLEAN
  /\ queue \in Seq(Requests) /\ Len(queue) <= HANDLER_COUNT
  /\ transfer \in BOOLEAN
  /\ pc \in [Contexts -> {"idle", "begin", "done", "failed", "advance", "recheck"}]
  /\ task \in {"off", "starting", "started", "running", "stopping",
               "stopped", "mag_off", "hum_off"}
  /\ on \subseteq Sensors /\ sensor_is_busy \in [Sensors -> BOOLEAN]
  /\ readTimer \in BOOLEAN /\ tempToRead \in BOOLEAN
  /\ reserved \subseteq Contexts /\ collided \in BOOLEAN

(* Whoever marks the bus busy has it: its transfer is for a request that is  *)
(* queued and never begun while another one is under way. The code has two   *)
(* users that did not mark it: FS_Sensor_Start, between its look at the      *)
(* queue and BeginRead, and NextHandler, which tests busy once more after    *)
(* its critical section and may find it marked by an interrupt. One of these *)
(* may begin a transfer twice or for no request (collided): the model ends   *)
(* there, and nobody who had marked the bus has a part in it.                *)
BusReserved == collided => reserved = {}

(* No request is forgotten: while the bus is active and requests are queued  *)
(* (and FS_Sensor_Start is through) somebody works on them.                  *)
NoLostWakeup == ~collided /\ task = "running" /\ queue # <<>> => InUse

(* When FS_Sensor_Stop returns the bus is free and stays so: the blocking    *)
(* writes that switch the sensors off, and those that start them for the     *)
(* next session, never meet a transfer.                                      *)
FreeWhenStopped ==
  ~collided /\ task \in {"stopped", "mag_off", "hum_off", "off", "starting"}
    => ~busy /\ ~InUse

(* A sensor that counts as busy has a request queued, or is about to ask, or *)
(* its read timer runs, so that it will be free again: otherwise it would be *)
(* silent for the rest of the session.                                       *)
Queued(sensor) == \E i \in 1..Len(queue) : Owner[queue[i]] = sensor
BusyHasRequest ==
  \A s \in on : sensor_is_busy[s] =>
    Queued(s) \/ (s = "hum" /\ readTimer) \/ (s = "mag" /\ tempToRead)

(* The bus serves every request, one at a time, and nobody once it is        *)
(* stopped, until a transfer is begun twice in one of the two windows        *)
(* (collided).                                                               *)
BusSafe ==
  TypeOK /\ NoLostWakeup /\ FreeWhenStopped /\ BusReserved /\ BusyHasRequest

(* FS_Sensor_Stop returns, whatever the interrupts do while it waits. *)
StopReturns == task = "stopping" ~> (task = "stopped" \/ collided)
=============================================================================
