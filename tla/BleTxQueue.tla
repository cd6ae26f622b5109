----------------------------- MODULE BleTxQueue -----------------------------
(***************************************************************************)
(* The transmit queue of the BLE services (STM32_WPAN/App/ble_tx_queue.c). *)
(*                                                                         *)
(* A producer takes the address of the next slot, fills it, then writes    *)
(* the header and advances tx_write_index.  Tasks run to completion, so    *)
(* two producing tasks never overlap; the battery measurement however      *)
(* produces from the ADC interrupt (FS_VBAT_ConversionComplete), between   *)
(* any two steps of a task.  The consumer, BLE_TX_Queue_Transmit, waits    *)
(* for the radio half way; tasks that are not paused for a radio command   *)
(* produce during that wait.                                               *)
(***************************************************************************)
EXTENDS Integers, Sequences

CONSTANTS
  Window,     \* FS_CRS_WINDOW_LENGTH
  Interrupts, \* the battery level is sent from the ADC interrupt
  MaxPackets  \* bound: packets offered in one behaviour (fewer than 2^32)

ASSUME WindowAssumption == Window \in Nat \ {0}
ASSUME ModelAssumption == Interrupts \in BOOLEAN /\ MaxPackets \in Nat

VARIABLES
  tx_buffer,      \* slot -> the packet its header and its data belong to
  tx_read_index, tx_write_index,
  tx_flow_status, \* the radio has room
  transmit_task,  \* the CFG_TASK_BLE_TX_QUEUE_TRANSMIT_ID bit
  tx_busy,        \* BLE_TX_Queue_Transmit waits for the radio
  command,        \* the packet the radio was given
  producer,       \* the task inside SendTxPacket
  offered,        \* packets offered so far; each is known by its number
  refused,        \* the radio refused a packet and will tell when it has room
  handed,         \* history: packets given to the radio for good
  interrupted     \* history: the interrupt fell inside a task's SendTxPacket

indexVars == <<tx_read_index, tx_write_index>>
radioVars == <<tx_flow_status, tx_busy, command, refused, handed>>
vars == <<tx_buffer, indexVars, radioVars, transmit_task, producer, offered,
          interrupted>>

Numbers == 1..MaxPackets
Slots   == 0..(Window - 1)
Entries == [head : Numbers \union {0}, data : Numbers \union {0}]
Empty   == [head |-> 0, data |-> 0]
Whole(k) == [head |-> k, data |-> k]
Producers == [pc : {"none", "claimed", "loaded"},
              packet : Numbers \union {0}, index : Nat]
NoProducer == [pc |-> "none", packet |-> 0, index |-> 0]

Slot(index) == index % Window

(* Mutant of Room: one packet too many. *)
RoomForOneMore(index) == index <= tx_read_index + Window

Room(index) == index < tx_read_index + Window

(* Mutant of Unpaused: these tasks are not paused. *)
NeverPaused == producer = NoProducer

(* The tasks of the "HCI" list of app_conf.h are paused while a command is   *)
(* outstanding; no task runs while another one is inside SendTxPacket.       *)
Unpaused == producer = NoProducer /\ ~tx_busy

-----------------------------------------------------------------------------
(* Producers. *)

(* BLE_TX_Queue_GetNextTxPacket, and the data copied to the slot; without    *)
(* room the packet is dropped.                                               *)
Claim ==
  /\ producer = NoProducer
  /\ offered < MaxPackets
  /\ offered' = offered + 1
  /\ IF Room(tx_write_index)
     THEN /\ tx_buffer' = [tx_buffer EXCEPT ![Slot(tx_write_index)].data = offered']
          /\ producer' = [pc |-> "claimed", packet |-> offered',
                          index |-> tx_write_index]
     ELSE UNCHANGED <<tx_buffer, producer>>
  /\ UNCHANGED <<indexVars, radioVars, transmit_task, interrupted>>

(* BLE_TX_Queue_SendNextTxPacket up to the header.  tx_write_index is not    *)
(* volatile: the build may read it again or use what it read before.         *)
WriteHeader ==
  /\ producer.pc = "claimed"
  /\ \E index \in {producer.index, tx_write_index} :
       IF Room(index)
       THEN /\ tx_buffer' = [tx_buffer EXCEPT ![Slot(index)].head = producer.packet]
            /\ producer' = [producer EXCEPT !.pc = "loaded", !.index = index]
       ELSE UNCHANGED tx_buffer /\ producer' = NoProducer
  /\ UNCHANGED <<indexVars, radioVars, transmit_task, offered, interrupted>>

(* ++tx_write_index, a load and a store *)
Publish ==
  /\ producer.pc = "loaded"
  /\ \E index \in {producer.index, tx_write_index} : tx_write_index' = index + 1
  /\ transmit_task' = TRUE
  /\ producer' = NoProducer
  /\ UNCHANGED <<tx_buffer, tx_read_index, radioVars, offered, interrupted>>

(* Custom_VBAT_Update in the ADC interrupt *)
VbatSend ==
  /\ Interrupts
  /\ offered < MaxPackets
  /\ offered' = offered + 1
  /\ IF Room(tx_write_index)
     THEN /\ tx_buffer' = [tx_buffer EXCEPT ![Slot(tx_write_index)] = Whole(offered')]
          /\ tx_write_index' = tx_write_index + 1
          /\ transmit_task' = TRUE
     ELSE UNCHANGED <<tx_buffer, tx_write_index, transmit_task>>
  /\ interrupted' = (interrupted \/ producer # NoProducer)
  /\ UNCHANGED <<tx_read_index, radioVars, producer>>

(* Mutant of Emptied: both indices were meant to be reset. *)
EmptiedToZero == tx_write_index' = 0

Emptied == tx_write_index' = tx_read_index

(* BLE_TX_Queue_Flush, from the CRS task *)
Flush ==
  /\ Unpaused
  /\ Emptied
  /\ UNCHANGED <<tx_buffer, tx_read_index, radioVars, transmit_task, producer,
                 offered, interrupted>>

-----------------------------------------------------------------------------
(* The consumer: BLE_TX_Queue_Transmit, cut where it waits for the radio. *)

Transmit ==
  /\ transmit_task /\ Unpaused
  /\ transmit_task' = FALSE
  /\ IF ~tx_busy /\ tx_read_index < tx_write_index /\ tx_flow_status
     THEN tx_busy' = TRUE /\ command' = tx_buffer[Slot(tx_read_index)]
     ELSE UNCHANGED <<tx_busy, command>>
  /\ UNCHANGED <<tx_buffer, indexVars, tx_flow_status, refused, handed, producer,
                 offered, interrupted>>

(* Mutant of GoesOn: the task is not set again for the next packet. *)
Stops == UNCHANGED transmit_task

GoesOn == transmit_task' = TRUE

(* The radio took the packet, or failed for another reason than its room:   *)
(* either way the packet is done with.                                       *)
Accepted ==
  /\ tx_busy /\ producer = NoProducer
  /\ tx_busy' = FALSE
  /\ tx_read_index' = tx_read_index + 1
  /\ handed' = Append(handed, command)
  /\ GoesOn
  /\ UNCHANGED <<tx_buffer, tx_write_index, tx_flow_status, command, refused,
                 producer, offered, interrupted>>

(* Mutant of Kept: the packet is taken off the queue all the same. *)
TakenOff == tx_read_index' = tx_read_index + 1

Kept == UNCHANGED tx_read_index

(* BLE_STATUS_INSUFFICIENT_RESOURCES: the packet stays where it is. *)
Refused ==
  /\ tx_busy /\ producer = NoProducer
  /\ tx_busy' = FALSE
  /\ tx_flow_status' = FALSE
  /\ refused' = TRUE
  /\ Kept
  /\ UNCHANGED <<tx_buffer, tx_write_index, command, handed, transmit_task, producer,
                 offered, interrupted>>

(* Mutant of Resumes: the task is not set. *)
StaysIdle == UNCHANGED transmit_task

Resumes == transmit_task' = TRUE

(* BLE_TX_Queue_TxPoolAvailableNotification, from the HCI event task *)
TxPoolAvailable ==
  /\ refused /\ Unpaused
  /\ refused' = FALSE
  /\ tx_flow_status' = TRUE
  /\ Resumes
  /\ UNCHANGED <<tx_buffer, indexVars, tx_busy, command, handed, producer,
                 offered, interrupted>>

-----------------------------------------------------------------------------
(* BLE_TX_Queue_Init *)
Init ==
  /\ tx_buffer = [s \in Slots |-> Empty]
  /\ tx_read_index = 0 /\ tx_write_index = 0
  /\ tx_flow_status = TRUE
  /\ transmit_task = FALSE
  /\ tx_busy = FALSE /\ command = Empty
  /\ producer = NoProducer
  /\ offered = 0
  /\ refused = FALSE
  /\ handed = <<>>
  /\ interrupted = FALSE

Produce == Claim \/ WriteHeader \/ Publish
Consume == Transmit \/ Accepted \/ Refused

Next == Produce \/ VbatSend \/ Flush \/ Consume \/ TxPoolAvailable

Spec == Init /\ [][Next]_vars

(* Tasks run, the radio answers, says when it has room again, and does not   *)
(* refuse a packet for ever.  Nobody is obliged to send.                     *)
Fairness ==
  /\ WF_vars(WriteHeader \/ Publish)
  /\ WF_vars(Consume) /\ SF_vars(Accepted)
  /\ WF_vars(TxPoolAvailable)

FairSpec == Spec /\ Fairness

-----------------------------------------------------------------------------
(* Every variable has its type and the read index never passes the write     *)
(* index, whatever the interrupt does.                                       *)
TypeOK ==
  /\ tx_buffer \in [Slots -> Entries]
  /\ tx_read_index \in Nat /\ tx_write_index \in Nat
  /\ tx_read_index <= tx_write_index
  /\ tx_flow_status \in BOOLEAN /\ transmit_task \in BOOLEAN
  /\ tx_busy \in BOOLEAN /\ command \in Entries
  /\ producer \in Producers
  /\ offered \in 0..MaxPackets
  /\ refused \in BOOLEAN
  /\ handed \in Seq(Entries)
  /\ interrupted \in BOOLEAN

(* Unless the interrupt fell inside another SendTxPacket, the radio gets     *)
(* each packet whole, at most once, in the order they were offered.          *)
HandedIntact ==
  ~interrupted =>
    /\ \A i \in DOMAIN handed : handed[i].head = handed[i].data
    /\ \A i, j \in DOMAIN handed : i < j => handed[i].data < handed[j].data

(* While the radio works on a packet its slot is not reused: the callback is *)
(* read from the slot after the wait, and a refused packet is sent again     *)
(* from it.                                                                  *)
PacketStable ==
  tx_busy /\ ~interrupted =>
    /\ tx_read_index < tx_write_index
    /\ tx_buffer[Slot(tx_read_index)] = command

(* A packet is one packet from SendTxPacket to the radio: in its slot while  *)
(* the radio works on it, and as it is handed over.                          *)
PacketsIntact ==
  HandedIntact /\ PacketStable

(* No lost wake-up: packets that wait while the radio has room have a task   *)
(* on its way, whatever the interrupt does.                                  *)
WaitingHasTask ==
  tx_read_index < tx_write_index =>
    transmit_task \/ tx_busy \/ (~tx_flow_status /\ refused)

(* A packet that was queued is handed over or flushed. *)
EventuallyHanded ==
  \A k \in Numbers :
    tx_write_index >= k ~> (tx_read_index >= k \/ tx_write_index < k)

(* The ring implements a bounded queue, until the interrupt falls inside     *)
(* another SendTxPacket.                                                     *)
Waiting == [i \in 1..(tx_write_index - tx_read_index) |->
              tx_buffer[Slot(tx_read_index + i - 1)]]
Fifo == INSTANCE TxFifo WITH
          Packets <- {Whole(k) : k \in Numbers}, Capacity <- Window,
          waiting <- Waiting, handed <- handed, void <- interrupted
ImplementsFifo == Fifo!Spec
=============================================================================
