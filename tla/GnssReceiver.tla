---------------------------- MODULE GnssReceiver ----------------------------
(***************************************************************************)
(* The GNSS receiver (FlySight/gnss.c): the configuration it must          *)
(* acknowledge, the circular DMA buffer, the messages the update task      *)
(* reads from it, and the time pulse.                                      *)
(*                                                                         *)
(* A slot of the buffer holds one message; one whose bytes were disturbed  *)
(* fails its checksum and is Noise.  The receiver is external: it answers  *)
(* configuration messages in their order, in time, late or never.          *)
(***************************************************************************)
EXTENDS Integers, Sequences

CONSTANTS
  LEN,          \* messages the buffer holds
  Settings,     \* messages of FS_GNSS_InitMessages
  MsgSettings,  \* of these the first ones, which are all UBX-CFG-MSG
  ErrorPhases,  \* the moments of FS_GNSS_Init when a framing error may come
  MaxTow,       \* bound: epochs, and pulses
  MaxFaults,    \* bound: messages disturbed or refused, errors of the UART
  MaxLate       \* bound: late answers of a session

VARIABLES
  phase,        \* of FS_GNSS_Init: "baud" its loop, "config" FS_GNSS_InitMessages
  gnss_is_initializing,
  asked,        \* FS_GNSS_WaitForAck waits
  setting, pending,      \* the setting sent; those the receiver has still to answer
  configured,   \* the settings the receiver has taken
  dma, slots, writeIndex, gnssRxIndex,
  updateTask, upto,      \* an update is pending after the end; its writeIndex
  gnssTimeOfWeek, gnssMsgReceived, gnssData,
  gnssTime, validTime,
  epoch, said, pulse, announced,  \* the receiver: what it has measured and sent
  faults,
  mixed, misdated,
  late,         \* history: the time-outs of this session that came before the answer
  disordered    \* history: the DMA lapped the reader or was started again under it

ring     == <<dma, slots, writeIndex, gnssRxIndex>>
config   == <<phase, gnss_is_initializing, asked, setting, pending, configured, late>>
task     == <<updateTask, upto>>
data     == <<gnssTimeOfWeek, gnssMsgReceived, gnssData, mixed>>
time     == <<gnssTime, validTime, misdated>>
receiver == <<epoch, said, pulse, announced>>
vars == <<ring, config, task, data, time, receiver, faults, disordered>>

UBX_MSG_ALL == {"pvt", "vel"}
Messages == [kind : {"noise", "ack", "nak", "pvt", "vel", "tp"}, n : Nat]
Message(k, i) == [kind |-> k, n |-> i]
Noise == Message("noise", 0)

Fault == faults < MaxFaults /\ faults' = faults + 1

-----------------------------------------------------------------------------
(* What arrives goes over what is in the buffer, read or not. *)
Receive(message) ==
  IF dma THEN /\ slots' = [slots EXCEPT ![writeIndex] = message]
              /\ writeIndex' = (writeIndex + 1) % LEN
              /\ disordered' = (disordered \/ writeIndex' = gnssRxIndex)
         ELSE UNCHANGED <<slots, writeIndex, disordered>>

Arrives(message) ==
  \/ Receive(message) /\ UNCHANGED faults
  \/ Receive(Noise) /\ Fault

(* HAL_UART_Receive_DMA begins at the first slot. *)
ReceiveDMA == dma' = TRUE /\ writeIndex' = 0

(* HAL_UART_ErrorCallback.  The HAL has stopped the reception.  A framing    *)
(* error of FS_GNSS_Init leaves it so; after any other the DMA begins again, *)
(* and gnssRxIndex stays.  "switch" is the time between the change of the    *)
(* rate and the answer.                                                      *)
Unread == gnssRxIndex # writeIndex
Moment == IF phase = "baud" /\ asked = "wait" /\ ~Unread THEN "switch" ELSE phase

UartError ==
  /\ dma /\ Fault
  /\ \/ gnss_is_initializing /\ Moment \in ErrorPhases
        /\ dma' = FALSE /\ UNCHANGED <<writeIndex, disordered>>
     \/ ReceiveDMA /\ disordered' = TRUE
  /\ UNCHANGED <<slots, gnssRxIndex, config, task, data, time, receiver>>

-----------------------------------------------------------------------------
(* FS_GNSS_Init: the loop that sets the rate of the port, then the settings. *)
(* What is still to be answered when it begins is lost with the old rate.    *)
Bound == epoch = 1 /\ pulse = 0  \* after a session that measured the model ends

InitBegins ==
  /\ phase = "off" /\ upto = LEN /\ Bound
  /\ phase' = "baud" /\ gnss_is_initializing' = TRUE /\ setting' = 0
  /\ pending' = <<>> /\ configured' = {} /\ late' = 0
  /\ gnssTimeOfWeek' = 0 /\ gnssMsgReceived' = {} /\ validTime' = FALSE
  /\ UNCHANGED <<asked, ring, task, gnssData, mixed, gnssTime, misdated, receiver, faults,
                 disordered>>

(* The two UBX-CFG-PRT of a round count as one. *)
SendMessage ==
  /\ phase \in {"baud", "config"} /\ asked = "none" /\ asked' = "wait"
  /\ pending' = Append(pending, setting)
  /\ IF phase = "baud" THEN ReceiveDMA /\ gnssRxIndex' = 0
                       ELSE UNCHANGED <<dma, writeIndex, gnssRxIndex>>
  /\ UNCHANGED <<phase, gnss_is_initializing, setting, configured, late, slots, task, data,
                 time, receiver, faults, disordered>>

(* An answer names the message by class and id, the same for all UBX-CFG-MSG. *)
Class(s) == IF s \in 1..MsgSettings THEN 1 ELSE s

Answer ==
  /\ pending # <<>> /\ pending' = Tail(pending)
  /\ LET s == Head(pending)
     IN \/ configured' = configured \union {s} /\ Arrives(Message("ack", Class(s)))
        \/ UNCHANGED configured /\ Receive(Message("nak", Class(s))) /\ Fault
        \/ UNCHANGED <<configured, slots, writeIndex, disordered>> /\ Fault
  /\ UNCHANGED <<phase, gnss_is_initializing, asked, setting, late, dma, gnssRxIndex, task,
                 data, time, receiver>>

(* Mutant of Acknowledged: any answer to the message will do. *)
AcknowledgedByAny(message) == message.kind \in {"ack", "nak"} /\ message.n = Class(setting)
Acknowledged(message) == message = Message("ack", Class(setting))
Refused(message) == message = Message("nak", Class(setting))

(* Mutant of AfterTimeout: FS_GNSS_WaitForAck waits without end. *)
AfterTimeoutWait == "wait"
AfterTimeout == "none"

Advance ==
  /\ asked' = "none"
  /\ IF setting < Settings
     THEN setting' = setting + 1 /\ phase' = "config" /\ UNCHANGED gnss_is_initializing
     ELSE phase' = "running" /\ gnss_is_initializing' = FALSE /\ UNCHANGED setting

(* FS_GNSS_WaitForAck.  Other messages are skipped.  After a time-out        *)
(* nothing is flushed before the message is sent again.                      *)
WaitReads ==
  /\ asked = "wait" /\ Unread /\ gnssRxIndex' = (gnssRxIndex + 1) % LEN
  /\ LET message == slots[gnssRxIndex]
     IN IF Acknowledged(message) THEN Advance
        ELSE /\ asked' = IF Refused(message) THEN "none" ELSE "wait"
             /\ UNCHANGED <<phase, gnss_is_initializing, setting>>
  /\ UNCHANGED <<pending, configured, late, dma, slots, writeIndex, task, data, time, receiver,
                 faults, disordered>>

WaitEnds ==
  /\ asked = "wait" /\ asked' = AfterTimeout
  /\ IF pending = <<>> /\ ~Unread THEN UNCHANGED late ELSE late < MaxLate /\ late' = late + 1
  /\ UNCHANGED <<phase, gnss_is_initializing, setting, pending, configured, ring, task, data,
                 time, receiver, faults, disordered>>

WaitForAck == WaitReads \/ WaitEnds

(* FS_GNSS_DeInit.  A pending update still comes. *)
DeInit ==
  /\ phase = "running" /\ upto = LEN /\ phase' = "off" /\ dma' = FALSE
  /\ updateTask' \in BOOLEAN
  /\ UNCHANGED <<gnss_is_initializing, asked, setting, pending, configured, late, slots,
                 writeIndex, gnssRxIndex, upto, data, time, receiver, faults, disordered>>

-----------------------------------------------------------------------------
(* The receiver: PVT and VELNED of each epoch; after each pulse the time of  *)
(* the next one, in TIM-TP.                                                  *)
Measures(kind) ==
  /\ phase = "running" /\ epoch <= MaxTow /\ kind \notin said
  /\ Arrives(Message(kind, epoch))
  /\ IF said \union {kind} = UBX_MSG_ALL THEN said' = {} /\ epoch' = epoch + 1
                                         ELSE said' = said \union {kind} /\ UNCHANGED epoch
  /\ UNCHANGED <<dma, gnssRxIndex, config, task, data, time, pulse, announced>>

Announces ==
  /\ phase = "running" /\ pulse < MaxTow /\ announced = "no" /\ announced' = "unread"
  /\ Arrives(Message("tp", pulse + 1))
  /\ UNCHANGED <<dma, gnssRxIndex, config, task, data, time, epoch, said, pulse>>

(* FS_GNSS_Timepulse, an interrupt.  The update task is never late by the    *)
(* second between two pulses: it has read what was announced, if it came.    *)
InTime == announced = "unread" => \A i \in 0..LEN - 1 : slots[i] # Message("tp", pulse + 1)

(* Mutant of AfterPulse: the time is kept for the next pulse. *)
AfterPulseKept == validTime
AfterPulse == FALSE

Timepulse ==
  /\ phase = "running" /\ pulse < MaxTow /\ InTime
  /\ pulse' = pulse + 1 /\ announced' = "no"
  /\ misdated' = (misdated \/ (validTime /\ gnssTime # pulse'))
  /\ validTime' = AfterPulse
  /\ UNCHANGED <<ring, config, task, data, gnssTime, epoch, said, faults, disordered>>

-----------------------------------------------------------------------------
(* Mutant of ReceivedBefore: parts of an earlier epoch are counted. *)
ReceivedBeforeAny(tow) == gnssMsgReceived
ReceivedBefore(tow) == IF tow = gnssTimeOfWeek THEN gnssMsgReceived ELSE {}

(* FS_GNSS_HandlePvt, FS_GNSS_HandleVelocity and FS_GNSS_ReceiveMessage. *)
HandleNav(part, tow) ==
  LET received == ReceivedBefore(tow) \union {part}
      ready    == received = UBX_MSG_ALL
  IN /\ gnssData' = [gnssData EXCEPT ![part] = tow]
     /\ gnssTimeOfWeek' = tow
     /\ gnssMsgReceived' = IF ready THEN {} ELSE received
     /\ mixed' = (mixed \/ (ready /\ \E other \in UBX_MSG_ALL : gnssData'[other] # tow))

(* FS_GNSS_HandleMessage. *)
Handle(message) ==
  \/ /\ message.kind \in UBX_MSG_ALL /\ HandleNav(message.kind, message.n)
     /\ UNCHANGED time
  \/ /\ message.kind = "tp" /\ gnssTime' = message.n /\ validTime' = TRUE
     /\ UNCHANGED <<data, misdated>>
  \/ message.kind \in {"noise", "ack", "nak"} /\ UNCHANGED <<data, time>>

(* FS_GNSS_Update.  Its timer asks for it at any time. *)
UpdateBegins ==
  /\ phase = "running" \/ (phase = "off" /\ updateTask)
  /\ upto = LEN /\ upto' = writeIndex /\ updateTask' = FALSE
  /\ UNCHANGED <<ring, config, data, time, receiver, faults, disordered>>

UpdateReads ==
  /\ upto # LEN /\ gnssRxIndex # upto
  /\ Handle(slots[gnssRxIndex]) /\ gnssRxIndex' = (gnssRxIndex + 1) % LEN
  /\ announced' = IF slots[gnssRxIndex] = Message("tp", pulse + 1) THEN "read" ELSE announced
  /\ UNCHANGED <<dma, slots, writeIndex, config, task, epoch, said, pulse, faults, disordered>>

UpdateEnds ==
  /\ upto # LEN /\ gnssRxIndex = upto /\ upto' = LEN
  /\ UNCHANGED <<ring, config, updateTask, data, time, receiver, faults, disordered>>

-----------------------------------------------------------------------------
Init ==
  /\ phase = "off" /\ gnss_is_initializing = FALSE /\ asked = "none"
  /\ setting = 0 /\ pending = <<>> /\ configured = {} /\ late = 0
  /\ dma = FALSE /\ slots = [i \in 0..LEN - 1 |-> Noise] /\ writeIndex = 0 /\ gnssRxIndex = 0
  /\ updateTask = FALSE /\ upto = LEN
  /\ gnssTimeOfWeek = 0 /\ gnssMsgReceived = {} /\ gnssData = [part \in UBX_MSG_ALL |-> 0]
  /\ gnssTime = 0 /\ validTime = FALSE
  /\ epoch = 1 /\ said = {} /\ pulse = 0 /\ announced = "no"
  /\ faults = 0 /\ mixed = FALSE /\ misdated = FALSE /\ disordered = FALSE

Initialise == InitBegins \/ SendMessage \/ Answer \/ WaitForAck
Update == UpdateBegins \/ UpdateReads \/ UpdateEnds
Receiver == (\E kind \in UBX_MSG_ALL : Measures(kind)) \/ Announces \/ Timepulse

Next == Initialise \/ DeInit \/ Update \/ Receiver \/ UartError

Spec == Init /\ [][Next]_vars

(* FS_GNSS_Init runs in a task that nothing else delays for ever. *)
InitGoesOn == SendMessage \/ Answer \/ WaitForAck
Fairness == WF_vars(InitGoesOn)
FairSpec == Spec /\ Fairness

-----------------------------------------------------------------------------
TypeOK ==
  /\ phase \in {"off", "baud", "config", "running"} /\ asked \in {"none", "wait"}
  /\ setting \in 0..Settings /\ pending \in Seq(0..Settings) /\ configured \subseteq 0..Settings
  /\ slots \in [0..LEN - 1 -> Messages]
  /\ writeIndex \in 0..LEN - 1 /\ gnssRxIndex \in 0..LEN - 1 /\ upto \in 0..LEN
  /\ gnssTimeOfWeek \in Nat /\ gnssMsgReceived \in (SUBSET UBX_MSG_ALL) \ {UBX_MSG_ALL}
  /\ gnssData \in [UBX_MSG_ALL -> Nat] /\ gnssTime \in Nat
  /\ epoch \in 1..MaxTow + 1 /\ said \subseteq UBX_MSG_ALL /\ pulse \in 0..MaxTow
  /\ announced \in {"no", "unread", "read"} /\ faults \in 0..MaxFaults /\ late \in 0..MaxLate
  /\ \A flag \in {gnss_is_initializing, dma, updateTask, validTime, mixed,
                  misdated, disordered} : flag \in BOOLEAN

(* ACTIVE mode records only once the receiver has taken every setting,       *)
(* although messages, acknowledgements and rates are lost on the way.  Once  *)
(* a time-out came before its answer (late), the answer to one UBX-CFG-MSG   *)
(* may count for the next one: then this is so only of the settings that are *)
(* the first with their class and id.  Nothing is said once the DMA began    *)
(* again under the reader (disordered), which then reads old answers.        *)
FirstOfItsClass(s) == \A t \in 0..s - 1 : Class(t) # Class(s)

Configured ==
  phase = "running" /\ ~disordered =>
    /\ \A s \in 0..Settings : FirstOfItsClass(s) => s \in configured
    /\ late = 0 => configured = 0..Settings

(* What is reported as one measurement is position and velocity of the same  *)
(* epoch, although messages are lost, the DMA laps the reader, and an error  *)
(* of the UART makes it read a part of the buffer again.                     *)
DataIsOneEpoch == ~mixed

(* The pulse is logged with the time that was announced for it and not for   *)
(* an earlier one, although announcements are lost.  Once the reader is late *)
(* by the whole buffer, or after an error of the UART, this is no longer so: *)
(* old announcements are read again.                                         *)
PulseHasItsTime == misdated => disordered

(* What is measured is what the receiver sent, of one moment and with the    *)
(* settings that were asked for.                                             *)
MeasurementsRight ==
  Configured /\ DataIsOneEpoch /\ PulseHasItsTime

(* FS_GNSS_Init ends once the line is quiet. *)
InitEnds == phase = "baud" ~> phase = "running"
=============================================================================
