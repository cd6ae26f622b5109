-------------------------- MODULE BleTxQueueProofs --------------------------
(***************************************************************************)
(* Proofs about BleTxQueue, for every window, every number of packets and  *)
(* with or without the interrupt.                                          *)
(***************************************************************************)
EXTENDS BleTxQueue, SequenceTheorems, TLAPS

(* What keeps the read index behind the write index: while a command is      *)
(* outstanding its packet is in the queue, and a producing task works at an  *)
(* index the consumer has not passed.                                        *)
IndexInv ==
  /\ tx_busy => tx_read_index < tx_write_index
  /\ producer.pc # "none" => producer.index >= tx_read_index

TypeInv == TypeOK /\ IndexInv

LEMMA SlotInRange ==
  ASSUME NEW i \in Nat
  PROVE  Slot(i) \in Slots
  BY WindowAssumption DEF Slot, Slots

LEMMA InitTypeInv == Init => TypeInv
<1> SUFFICES ASSUME Init PROVE TypeInv
  OBVIOUS
<1>1. /\ tx_read_index = 0 /\ tx_write_index = 0 /\ offered = 0
      /\ producer = NoProducer /\ handed = <<>> /\ command = Empty
      /\ tx_buffer = [s \in Slots |-> Empty] /\ ~tx_busy
  BY DEF Init
<1>2. /\ tx_flow_status \in BOOLEAN /\ transmit_task \in BOOLEAN
      /\ tx_busy \in BOOLEAN /\ refused \in BOOLEAN /\ interrupted \in BOOLEAN
  BY DEF Init
<1>3. Empty \in Entries
  BY DEF Empty, Entries
<1>4. NoProducer \in Producers /\ NoProducer.pc = "none"
  BY DEF NoProducer, Producers
<1>5. handed \in Seq(Entries)
  BY <1>1
<1>6. tx_buffer \in [Slots -> Entries]
  BY <1>1, <1>3
<1> QED
  BY <1>1, <1>2, <1>3, <1>4, <1>5, <1>6, ModelAssumption
  DEF TypeInv, TypeOK, IndexInv

LEMMA ClaimTypeInv == TypeInv /\ Claim => TypeInv'
<1> SUFFICES ASSUME TypeInv, Claim PROVE TypeInv'
  OBVIOUS
<1> USE DEF TypeInv
<1>1. offered + 1 \in Numbers /\ offered' = offered + 1
  BY ModelAssumption DEF Claim, TypeOK, Numbers
<1>2. Slot(tx_write_index) \in Slots
  BY SlotInRange DEF TypeOK
<1>3. UNCHANGED <<indexVars, radioVars, transmit_task, interrupted>>
  BY DEF Claim
<1>4. CASE Room(tx_write_index)
  <2>1. tx_buffer' = [tx_buffer EXCEPT ![Slot(tx_write_index)].data = offered + 1]
    BY <1>1, <1>4 DEF Claim
  <2>2. producer' = [pc |-> "claimed", packet |-> offered + 1, index |-> tx_write_index]
    BY <1>1, <1>4 DEF Claim
  <2>3. tx_buffer' \in [Slots -> Entries]
    BY <2>1, <1>1, <1>2 DEF TypeOK, Entries
  <2>4. producer' \in Producers /\ (producer').index >= tx_read_index
    BY <2>2, <1>1 DEF TypeOK, Producers
  <2> QED
    BY <1>1, <1>3, <2>3, <2>4, ModelAssumption
    DEF TypeOK, IndexInv, indexVars, radioVars, Numbers
<1>5. CASE ~Room(tx_write_index)
  BY <1>1, <1>3, <1>5, ModelAssumption
  DEF Claim, TypeOK, IndexInv, indexVars, radioVars, Numbers
<1> QED
  BY <1>4, <1>5

LEMMA WriteHeaderTypeInv == TypeInv /\ WriteHeader => TypeInv'
<1> SUFFICES ASSUME TypeInv, WriteHeader PROVE TypeInv'
  OBVIOUS
<1> USE DEF TypeInv
<1>1. PICK index \in {producer.index, tx_write_index} :
        IF Room(index)
        THEN /\ tx_buffer' = [tx_buffer EXCEPT ![Slot(index)].head = producer.packet]
             /\ producer' = [producer EXCEPT !.pc = "loaded", !.index = index]
        ELSE UNCHANGED tx_buffer /\ producer' = NoProducer
  BY DEF WriteHeader
<1>2. index \in Nat /\ index >= tx_read_index
  BY DEF WriteHeader, TypeOK, IndexInv, Producers
<1>3. UNCHANGED <<indexVars, radioVars, transmit_task, offered, interrupted>>
  BY DEF WriteHeader
<1>4. tx_buffer' \in [Slots -> Entries]
  <2>1. Slot(index) \in Slots
    BY <1>2, SlotInRange
  <2>2. producer.packet \in Numbers \union {0}
    BY DEF TypeOK, Producers
  <2> QED
    BY <1>1, <2>1, <2>2 DEF TypeOK, Entries
<1>5. producer' \in Producers /\ ((producer').pc # "none" => (producer').index >= tx_read_index)
  <2>1. NoProducer \in Producers /\ NoProducer.pc = "none"
    BY DEF NoProducer, Producers
  <2>2. CASE Room(index)
    <3>1. producer' = [producer EXCEPT !.pc = "loaded", !.index = index]
      BY <1>1, <2>2
    <3> QED
      BY <3>1, <1>2 DEF TypeOK, Producers
  <2>3. CASE ~Room(index)
    <3>1. producer' = NoProducer
      BY <1>1, <2>3
    <3> QED
      BY <3>1, <2>1
  <2> QED
    BY <2>2, <2>3
<1> QED
  BY <1>3, <1>4, <1>5 DEF TypeOK, IndexInv, indexVars, radioVars

LEMMA PublishTypeInv == TypeInv /\ Publish => TypeInv'
<1> SUFFICES ASSUME TypeInv, Publish PROVE TypeInv'
  OBVIOUS
<1> USE DEF TypeInv
<1>1. PICK index \in {producer.index, tx_write_index} : tx_write_index' = index + 1
  BY DEF Publish
<1>2. index \in Nat /\ index >= tx_read_index
  BY DEF Publish, TypeOK, IndexInv, Producers
<1>3. tx_write_index' \in Nat /\ tx_read_index < tx_write_index'
  BY <1>1, <1>2 DEF TypeOK
<1>4. /\ transmit_task' \in BOOLEAN
      /\ producer' = NoProducer
      /\ UNCHANGED <<tx_buffer, tx_read_index, radioVars, offered, interrupted>>
  BY DEF Publish
<1> QED
  BY <1>3, <1>4 DEF TypeOK, IndexInv, radioVars, NoProducer, Producers

LEMMA VbatSendTypeInv == TypeInv /\ VbatSend => TypeInv'
<1> SUFFICES ASSUME TypeInv, VbatSend PROVE TypeInv'
  OBVIOUS
<1> USE DEF TypeInv
<1>1. offered + 1 \in Numbers /\ offered' = offered + 1
  BY ModelAssumption DEF VbatSend, TypeOK, Numbers
<1>2. Slot(tx_write_index) \in Slots
  BY SlotInRange DEF TypeOK
<1>3. UNCHANGED <<tx_read_index, radioVars, producer>> /\ interrupted' \in BOOLEAN
  BY DEF VbatSend, TypeOK
<1>4. /\ tx_buffer' \in [Slots -> Entries]
      /\ tx_write_index' \in {tx_write_index, tx_write_index + 1}
      /\ transmit_task' \in BOOLEAN
  <2>1. CASE Room(tx_write_index)
    <3>1. /\ tx_buffer' = [tx_buffer EXCEPT ![Slot(tx_write_index)] = Whole(offered + 1)]
          /\ tx_write_index' = tx_write_index + 1
          /\ transmit_task' \in BOOLEAN
      BY <1>1, <2>1 DEF VbatSend
    <3>2. Whole(offered + 1) \in Entries
      BY <1>1 DEF Whole, Entries
    <3> QED
      BY <3>1, <3>2, <1>2 DEF TypeOK
  <2>2. CASE ~Room(tx_write_index)
    BY <2>2 DEF VbatSend, TypeOK
  <2> QED
    BY <2>1, <2>2
<1> QED
  BY <1>1, <1>3, <1>4, ModelAssumption DEF TypeOK, IndexInv, radioVars, Numbers

LEMMA FlushTypeInv == TypeInv /\ Flush => TypeInv'
<1> SUFFICES ASSUME TypeInv, Flush PROVE TypeInv'
  OBVIOUS
<1>1. /\ ~tx_busy /\ tx_write_index' = tx_read_index
      /\ UNCHANGED <<tx_buffer, tx_read_index, radioVars, transmit_task,
                     producer, offered, interrupted>>
  BY DEF Flush, Unpaused, Emptied
<1> QED
  BY <1>1 DEF TypeInv, TypeOK, IndexInv, radioVars

LEMMA ConsumeTypeInv == TypeInv /\ (Consume \/ TxPoolAvailable) => TypeInv'
<1> SUFFICES ASSUME TypeInv, Consume \/ TxPoolAvailable PROVE TypeInv'
  OBVIOUS
<1> USE DEF TypeInv
<1>1. CASE Transmit
  <2>1. /\ transmit_task' \in BOOLEAN
        /\ UNCHANGED <<tx_buffer, indexVars, tx_flow_status, refused, handed,
                       producer, offered, interrupted>>
    BY <1>1 DEF Transmit
  <2>2. /\ tx_busy' \in BOOLEAN /\ command' \in Entries
        /\ tx_busy' => tx_read_index < tx_write_index
    <3>1. tx_buffer[Slot(tx_read_index)] \in Entries
      BY SlotInRange DEF TypeOK
    <3>2. CASE tx_read_index < tx_write_index /\ tx_flow_status
      BY <1>1, <3>1, <3>2 DEF Transmit, Unpaused
    <3>3. CASE ~(tx_read_index < tx_write_index /\ tx_flow_status)
      BY <1>1, <3>3 DEF Transmit, Unpaused, TypeOK
    <3> QED
      BY <3>2, <3>3
  <2> QED
    BY <2>1, <2>2 DEF TypeOK, IndexInv, indexVars
<1>2. CASE Accepted
  <2>1. /\ tx_busy /\ tx_busy' \in BOOLEAN /\ ~tx_busy'
        /\ tx_read_index' = tx_read_index + 1
        /\ producer = NoProducer
        /\ handed' = Append(handed, command)
        /\ transmit_task' \in BOOLEAN
        /\ UNCHANGED <<tx_buffer, tx_write_index, tx_flow_status, command,
                       refused, producer, offered, interrupted>>
    BY <1>2 DEF Accepted, GoesOn
  <2>2. handed' \in Seq(Entries)
    BY <2>1, AppendProperties DEF TypeOK
  <2>3. tx_read_index' \in Nat /\ tx_read_index' <= tx_write_index
    BY <2>1 DEF TypeOK, IndexInv
  <2>4. (producer').pc = "none"
    BY <2>1 DEF NoProducer
  <2> QED
    BY <2>1, <2>2, <2>3, <2>4 DEF TypeOK, IndexInv
<1>3. CASE Refused
  <2>1. /\ tx_busy' \in BOOLEAN /\ ~tx_busy'
        /\ tx_flow_status' \in BOOLEAN /\ refused' \in BOOLEAN
        /\ UNCHANGED <<tx_buffer, indexVars, command, handed, transmit_task,
                       producer, offered, interrupted>>
    BY <1>3 DEF Refused, Kept, indexVars
  <2> QED
    BY <2>1 DEF TypeOK, IndexInv, indexVars
<1>4. CASE TxPoolAvailable
  <2>1. /\ tx_flow_status' \in BOOLEAN /\ refused' \in BOOLEAN
        /\ transmit_task' \in BOOLEAN
        /\ UNCHANGED <<tx_buffer, indexVars, tx_busy, command, handed,
                       producer, offered, interrupted>>
    BY <1>4 DEF TxPoolAvailable, Unpaused, Resumes
  <2> QED
    BY <2>1 DEF TypeOK, IndexInv, indexVars
<1> QED
  BY <1>1, <1>2, <1>3, <1>4 DEF Consume

LEMMA StutterTypeInv == TypeInv /\ UNCHANGED vars => TypeInv'
  BY DEF TypeInv, TypeOK, IndexInv, vars, indexVars, radioVars

LEMMA NextTypeInv == TypeInv /\ [Next]_vars => TypeInv'
  BY ClaimTypeInv, WriteHeaderTypeInv, PublishTypeInv, VbatSendTypeInv,
     FlushTypeInv, ConsumeTypeInv, StutterTypeInv DEF Next, Produce

(* Type correctness, and the read index never passes the write index, also   *)
(* when the interrupt sends in the middle of another SendTxPacket.           *)
THEOREM TypeCorrect == Spec => []TypeOK
<1>1. TypeInv => TypeOK
  BY DEF TypeInv
<1> QED
  BY <1>1, InitTypeInv, NextTypeInv, PTL DEF Spec

-----------------------------------------------------------------------------
(* A closed flow is always owed a notification by the radio. *)
TaskInv == WaitingHasTask /\ (~tx_flow_status => refused)

LEMMA InitTaskInv == Init => TaskInv
  BY DEF Init, TaskInv, WaitingHasTask

LEMMA ProduceTaskInv ==
  TypeInv /\ TaskInv /\ (Produce \/ VbatSend \/ Flush) => TaskInv'
<1> SUFFICES ASSUME TypeInv, TaskInv, Produce \/ VbatSend \/ Flush PROVE TaskInv'
  OBVIOUS
<1>1. UNCHANGED <<tx_read_index, tx_flow_status, tx_busy, refused>>
  BY DEF Produce, Claim, WriteHeader, Publish, VbatSend, Flush, Emptied, indexVars,
         radioVars
<1>2. \/ transmit_task'
      \/ UNCHANGED <<tx_write_index, transmit_task>>
      \/ tx_write_index' = tx_read_index
  BY DEF Produce, Claim, WriteHeader, Publish, VbatSend, Flush, Emptied, indexVars,
         radioVars
<1> QED
  BY <1>1, <1>2 DEF TaskInv, WaitingHasTask, TypeInv, TypeOK

LEMMA ConsumeTaskInv == TypeInv /\ TaskInv /\ (Consume \/ TxPoolAvailable) => TaskInv'
<1> SUFFICES ASSUME TypeInv, TaskInv, Consume \/ TxPoolAvailable PROVE TaskInv'
  OBVIOUS
<1>1. CASE Transmit
  <2>1. UNCHANGED <<indexVars, tx_flow_status, refused>>
    BY <1>1 DEF Transmit
  <2>2. tx_read_index < tx_write_index /\ tx_flow_status => tx_busy'
    BY <1>1 DEF Transmit, Unpaused
  <2> QED
    BY <2>1, <2>2 DEF TaskInv, WaitingHasTask, indexVars
<1>2. CASE Accepted
  BY <1>2 DEF Accepted, GoesOn, TaskInv, WaitingHasTask
<1>3. CASE Refused
  BY <1>3 DEF Refused, Kept, TaskInv, WaitingHasTask
<1>4. CASE TxPoolAvailable
  BY <1>4 DEF TxPoolAvailable, Resumes, TaskInv, WaitingHasTask
<1> QED
  BY <1>1, <1>2, <1>3, <1>4 DEF Consume

(* No lost wake-up in the transmit queue, with or without the interrupt.     *)
THEOREM WaitingAlwaysHasTask == Spec => []WaitingHasTask
<1>1. TypeInv /\ TaskInv /\ [Next]_vars => TaskInv'
  <2>1. TaskInv /\ UNCHANGED vars => TaskInv'
    BY DEF TaskInv, WaitingHasTask, vars, indexVars, radioVars
  <2> QED
    BY <2>1, ProduceTaskInv, ConsumeTaskInv DEF Next
<1>2. TaskInv => WaitingHasTask
  BY DEF TaskInv
<1> QED
  BY <1>1, <1>2, InitTypeInv, NextTypeInv, InitTaskInv, PTL DEF Spec

-----------------------------------------------------------------------------
LEMMA Division ==
  ASSUME NEW n \in Int, NEW w \in Int, w > 0
  PROVE  n = w * (n \div w) + (n % w) /\ n \div w \in Int
BY SMTT(30)

(* Two indices less than a window apart have slots of their own. *)
LEMMA SlotsApart ==
  ASSUME NEW i \in Nat, NEW j \in Nat, i < j, j < i + Window
  PROVE  Slot(i) # Slot(j)
<1> DEFINE a == i \div Window
           b == j \div Window
<1>1. Window \in Int /\ Window > 0
  BY WindowAssumption
<1>2. i = Window * a + Slot(i) /\ a \in Int
  BY <1>1, Division DEF Slot
<1>3. j = Window * b + Slot(j) /\ b \in Int
  BY <1>1, Division DEF Slot
<1>4. SUFFICES ASSUME Slot(i) = Slot(j) PROVE FALSE
  OBVIOUS
<1>5. Slot(i) \in Int
  BY SlotInRange, WindowAssumption DEF Slots
<1> HIDE DEF a, b
<1>6. Window * (b - a) = j - i
  <2>1. Window * (b - a) = Window * b - Window * a
    BY <1>1, <1>2, <1>3
  <2>2. Window * b \in Int /\ Window * a \in Int
    BY <1>1, <1>2, <1>3
  <2> QED BY <2>1, <2>2, <1>2, <1>3, <1>4, <1>5
<1>7. CASE b - a <= 0
  <2>1. Window * (b - a) <= 0
    BY <1>1, <1>2, <1>3, <1>7
  <2> QED BY <2>1, <1>6
<1>8. CASE b - a >= 1
  <2>1. Window * (b - a) >= Window
    BY <1>1, <1>2, <1>3, <1>8
  <2> QED BY <2>1, <1>1, <1>6
<1> QED BY <1>2, <1>3, <1>7, <1>8

-----------------------------------------------------------------------------
(* Packets in the queue are whole, in the order they were offered, newer     *)
(* than all the radio had; so is the one a task is filling in, in the slot   *)
(* behind them.  The queue never holds more than a window.                   *)
Entry(i) == tx_buffer[Slot(i)]

QueuedIntact ==
  \A i \in Nat : tx_read_index <= i /\ i < tx_write_index =>
    /\ Entry(i).head = Entry(i).data /\ Entry(i).data <= offered
    /\ \A j \in Nat : i < j /\ j < tx_write_index => Entry(i).data < Entry(j).data
    /\ \A n \in DOMAIN handed : handed[n].data < Entry(i).data

HandedOrdered ==
  /\ \A n \in DOMAIN handed : handed[n].head = handed[n].data /\ handed[n].data <= offered
  /\ \A m, n \in DOMAIN handed : m < n => handed[m].data < handed[n].data

FillingIntact ==
  producer.pc # "none" =>
    /\ producer.index = tx_write_index /\ Room(tx_write_index)
    /\ producer.packet > 0 /\ producer.packet <= offered
    /\ Entry(tx_write_index).data = producer.packet
    /\ producer.pc = "loaded" => Entry(tx_write_index).head = producer.packet
    /\ \A i \in Nat : tx_read_index <= i /\ i < tx_write_index =>
         Entry(i).data < producer.packet
    /\ \A n \in DOMAIN handed : handed[n].data < producer.packet

WithinWindow == tx_write_index <= tx_read_index + Window
CommandKept == tx_busy => command = Entry(tx_read_index)

PacketInv ==
  ~interrupted =>
    QueuedIntact /\ HandedOrdered /\ FillingIntact /\ WithinWindow /\ CommandKept

LEMMA Indices ==
  ASSUME TypeInv
  PROVE  /\ tx_read_index \in Nat /\ tx_write_index \in Nat /\ offered \in Nat
         /\ tx_read_index <= tx_write_index
         /\ tx_busy => tx_read_index < tx_write_index
         /\ Window \in Nat \ {0}
         /\ tx_buffer \in [Slots -> Entries]
BY WindowAssumption, ModelAssumption DEF TypeInv, TypeOK, IndexInv

LEMMA EntryKinds ==
  ASSUME TypeInv, NEW i \in Nat
  PROVE  Slot(i) \in Slots /\ Entry(i) \in Entries /\ Entry(i).data \in Nat
<1>1. Slot(i) \in Slots
  BY SlotInRange
<1>2. Entry(i) \in Entries
  BY <1>1, Indices DEF Entry
<1> QED BY <1>1, <1>2 DEF Entries, Numbers

(* What is written behind the queue changes no packet in it. *)
LEMMA WriteBehind ==
  ASSUME TypeInv, Room(tx_write_index), NEW e,
         tx_buffer' = [tx_buffer EXCEPT ![Slot(tx_write_index)] = e],
         NEW i \in Nat, tx_read_index <= i, i < tx_write_index
  PROVE  Entry(i)' = Entry(i)
<1>1. Slot(i) # Slot(tx_write_index)
  BY Indices, SlotsApart DEF Room
<1>2. tx_buffer'[Slot(i)] = tx_buffer[Slot(i)]
  BY <1>1, EntryKinds, Indices
<1> QED BY <1>2 DEF Entry, Slot

LEMMA WrittenEntry ==
  ASSUME TypeInv, NEW e, tx_buffer' = [tx_buffer EXCEPT ![Slot(tx_write_index)] = e]
  PROVE  tx_buffer'[Slot(tx_write_index)] = e
BY EntryKinds, Indices

LEMMA HandedKinds ==
  ASSUME TypeInv, NEW n \in DOMAIN handed
  PROVE  handed[n] \in Entries /\ handed[n].data \in Nat
<1>1. handed[n] \in Entries
  BY DEF TypeInv, TypeOK
<1> QED BY <1>1 DEF Entries, Numbers

LEMMA ClaimPacketInv == TypeInv /\ PacketInv /\ Claim => PacketInv'
<1> SUFFICES ASSUME TypeInv, PacketInv, Claim, ~interrupted' PROVE PacketInv'
  BY DEF PacketInv
<1>1. /\ offered' = offered + 1 /\ ~interrupted
      /\ UNCHANGED <<tx_read_index, tx_write_index, tx_busy, command, handed>>
  BY DEF Claim, indexVars, radioVars
<1>2. QueuedIntact /\ HandedOrdered /\ FillingIntact /\ WithinWindow /\ CommandKept
  BY <1>1 DEF PacketInv
<1>3. CASE Room(tx_write_index)
  <2> DEFINE e == [tx_buffer[Slot(tx_write_index)] EXCEPT !.data = offered + 1]
  <2>1. tx_buffer' = [tx_buffer EXCEPT ![Slot(tx_write_index)] = e]
    BY <1>1, <1>3 DEF Claim
  <2>2. producer' = [pc |-> "claimed", packet |-> offered + 1, index |-> tx_write_index]
    BY <1>1, <1>3 DEF Claim
  <2>3. e.data = offered + 1
    BY EntryKinds, Indices DEF Entry, Entries
  <2>4. \A i \in Nat : tx_read_index <= i /\ i < tx_write_index => Entry(i)' = Entry(i)
    <3> HIDE DEF e
    <3> QED BY <1>3, <2>1, WriteBehind
  <2>5. Entry(tx_write_index)' = e
    <3> HIDE DEF e
    <3> QED BY <1>1, <2>1, WrittenEntry DEF Entry, Slot
  <2> HIDE DEF e
  <2>6. QueuedIntact'
    BY <1>1, <1>2, <2>4, EntryKinds, Indices DEF QueuedIntact
  <2>7. FillingIntact'
    <3>1. \A i \in Nat : tx_read_index <= i /\ i < tx_write_index =>
            Entry(i).data \in Nat /\ Entry(i).data < offered + 1
      BY <1>2, EntryKinds, Indices DEF QueuedIntact
    <3>2. \A n \in DOMAIN handed : handed[n].data < offered + 1
      BY <1>2, HandedKinds, Indices DEF HandedOrdered
    <3>3. Room(tx_write_index)'
      BY <1>1, <1>3 DEF Room
    <3> QED BY <1>1, <2>2, <2>3, <2>4, <2>5, <3>1, <3>2, <3>3, Indices DEF FillingIntact
  <2>8. HandedOrdered'
    BY <1>1, <1>2, HandedKinds, Indices DEF HandedOrdered
  <2>9. WithinWindow' /\ CommandKept'
    BY <1>1, <1>2, <2>4, Indices DEF WithinWindow, CommandKept
  <2> QED BY <2>6, <2>7, <2>8, <2>9 DEF PacketInv
<1>4. CASE ~Room(tx_write_index)
  <2>1. UNCHANGED <<tx_buffer, producer>>
    BY <1>4 DEF Claim
  <2>2. \A i : Entry(i)' = Entry(i)
    BY <2>1 DEF Entry, Slot
  <2>3. QueuedIntact'
    BY <1>1, <1>2, <2>2, EntryKinds, Indices DEF QueuedIntact
  <2>4. HandedOrdered' /\ producer.pc = "none"
    BY <1>1, <1>2, HandedKinds, Indices DEF HandedOrdered, Claim, NoProducer
  <2>5. FillingIntact' /\ WithinWindow' /\ CommandKept'
    BY <1>1, <1>2, <2>1, <2>2, <2>4 DEF FillingIntact, WithinWindow, CommandKept
  <2> QED BY <2>3, <2>4, <2>5 DEF PacketInv
<1> QED BY <1>3, <1>4

LEMMA WriteHeaderPacketInv == TypeInv /\ PacketInv /\ WriteHeader => PacketInv'
<1> SUFFICES ASSUME TypeInv, PacketInv, WriteHeader, ~interrupted' PROVE PacketInv'
  BY DEF PacketInv
<1>1. /\ ~interrupted /\ producer.pc = "claimed"
      /\ UNCHANGED <<tx_read_index, tx_write_index, tx_busy, command, handed, offered>>
  BY DEF WriteHeader, indexVars, radioVars
<1>2. QueuedIntact /\ HandedOrdered /\ FillingIntact /\ WithinWindow /\ CommandKept
  BY <1>1 DEF PacketInv
<1>3. producer.index = tx_write_index /\ Room(tx_write_index)
  BY <1>1, <1>2 DEF FillingIntact
<1> DEFINE e == [tx_buffer[Slot(tx_write_index)] EXCEPT !.head = producer.packet]
<1>4. /\ tx_buffer' = [tx_buffer EXCEPT ![Slot(tx_write_index)] = e]
      /\ producer' = [producer EXCEPT !.pc = "loaded", !.index = tx_write_index]
  BY <1>3 DEF WriteHeader
<1>5. e.head = producer.packet /\ e.data = Entry(tx_write_index).data
  BY EntryKinds, Indices DEF Entry, Entries
<1>6. \A i \in Nat : tx_read_index <= i /\ i < tx_write_index => Entry(i)' = Entry(i)
  <2> HIDE DEF e
  <2> QED BY <1>3, <1>4, WriteBehind
<1>7. Entry(tx_write_index)' = e
  <2> HIDE DEF e
  <2> QED BY <1>1, <1>4, WrittenEntry DEF Entry, Slot
<1> HIDE DEF e
<1>8. producer'.packet = producer.packet /\ producer'.index = tx_write_index
  BY <1>4 DEF TypeInv, TypeOK, Producers
<1>9. QueuedIntact'
  BY <1>1, <1>2, <1>6, EntryKinds, Indices DEF QueuedIntact
<1>10. FillingIntact'
  <2>1. Room(tx_write_index)'
    BY <1>1, <1>3 DEF Room
  <2> QED BY <1>1, <1>2, <1>5, <1>6, <1>7, <1>8, <2>1 DEF FillingIntact
<1>11. HandedOrdered' /\ WithinWindow' /\ CommandKept'
  BY <1>1, <1>2, <1>6, Indices DEF HandedOrdered, WithinWindow, CommandKept
<1> QED BY <1>9, <1>10, <1>11 DEF PacketInv

LEMMA PublishPacketInv == TypeInv /\ PacketInv /\ Publish => PacketInv'
<1> SUFFICES ASSUME TypeInv, PacketInv, Publish, ~interrupted' PROVE PacketInv'
  BY DEF PacketInv
<1>1. /\ ~interrupted /\ producer.pc = "loaded" /\ producer' = NoProducer
      /\ UNCHANGED <<tx_buffer, tx_read_index, tx_busy, command, handed, offered>>
  BY DEF Publish, radioVars
<1>2. QueuedIntact /\ HandedOrdered /\ FillingIntact /\ WithinWindow /\ CommandKept
  BY <1>1 DEF PacketInv
<1>3. tx_write_index' = tx_write_index + 1 /\ Room(tx_write_index)
  BY <1>1, <1>2 DEF Publish, FillingIntact
<1>4. \A i : Entry(i)' = Entry(i)
  BY <1>1 DEF Entry, Slot
<1>5. /\ Entry(tx_write_index).head = Entry(tx_write_index).data
      /\ Entry(tx_write_index).data <= offered
      /\ \A i \in Nat : tx_read_index <= i /\ i < tx_write_index =>
           Entry(i).data < Entry(tx_write_index).data
      /\ \A n \in DOMAIN handed : handed[n].data < Entry(tx_write_index).data
  BY <1>1, <1>2 DEF FillingIntact
<1>6. QueuedIntact'
  <2>1. SUFFICES ASSUME NEW i \in Nat, tx_read_index <= i, i < tx_write_index + 1
                 PROVE  /\ Entry(i).head = Entry(i).data /\ Entry(i).data <= offered
                        /\ \A j \in Nat : i < j /\ j < tx_write_index + 1 =>
                             Entry(i).data < Entry(j).data
                        /\ \A n \in DOMAIN handed : handed[n].data < Entry(i).data
    BY <1>1, <1>3, <1>4 DEF QueuedIntact
  <2>2. CASE i = tx_write_index
    BY <1>5, <2>2, Indices
  <2>3. CASE i < tx_write_index
    <3>1. \A j \in Nat : i < j /\ j < tx_write_index + 1 =>
            j = tx_write_index \/ j < tx_write_index
      BY Indices
    <3> QED BY <1>2, <1>5, <2>1, <2>3, <3>1 DEF QueuedIntact
  <2> QED BY <2>1, <2>2, <2>3, Indices
<1>7. HandedOrdered' /\ FillingIntact'
  BY <1>1, <1>2 DEF HandedOrdered, FillingIntact, NoProducer
<1>8. WithinWindow' /\ CommandKept'
  BY <1>1, <1>2, <1>3, <1>4, Indices DEF WithinWindow, CommandKept, Room
<1> QED BY <1>6, <1>7, <1>8 DEF PacketInv

(* The interrupt between two tasks: a packet goes in whole. *)
LEMMA VbatSendPacketInv == TypeInv /\ PacketInv /\ VbatSend => PacketInv'
<1> SUFFICES ASSUME TypeInv, PacketInv, VbatSend, ~interrupted' PROVE PacketInv'
  BY DEF PacketInv
<1>1. /\ offered' = offered + 1 /\ ~interrupted /\ producer.pc = "none" /\ producer' = producer
      /\ UNCHANGED <<tx_read_index, tx_busy, command, handed>>
  <2>1. /\ offered' = offered + 1 /\ producer' = producer
        /\ UNCHANGED <<tx_read_index, tx_busy, command, handed>>
    BY DEF VbatSend, radioVars
  <2>2. interrupted' = (interrupted \/ producer # NoProducer)
    BY DEF VbatSend
  <2>3. ~interrupted /\ producer = NoProducer
    BY <2>2
  <2> QED BY <2>1, <2>3 DEF NoProducer
<1>2. QueuedIntact /\ HandedOrdered /\ WithinWindow /\ CommandKept
  BY <1>1 DEF PacketInv
<1>3. HandedOrdered' /\ FillingIntact'
  BY <1>1, <1>2, HandedKinds, Indices DEF HandedOrdered, FillingIntact
<1>4. CASE Room(tx_write_index)
  <2> DEFINE e == Whole(offered + 1)
  <2>1. /\ tx_buffer' = [tx_buffer EXCEPT ![Slot(tx_write_index)] = e]
        /\ tx_write_index' = tx_write_index + 1
    BY <1>1, <1>4 DEF VbatSend
  <2>2. e.head = offered + 1 /\ e.data = offered + 1
    BY DEF Whole
  <2> HIDE DEF e
  <2>3. \A i \in Nat : tx_read_index <= i /\ i < tx_write_index => Entry(i)' = Entry(i)
    BY <1>4, <2>1, WriteBehind
  <2>4. \A i : i = tx_write_index => Entry(i)' = e
    BY <2>1, WrittenEntry DEF Entry, Slot
  <2>5. QueuedIntact'
    <3>1. SUFFICES ASSUME NEW i \in Nat, tx_read_index <= i, i < tx_write_index + 1
                   PROVE  /\ Entry(i)'.head = Entry(i)'.data /\ Entry(i)'.data <= offered + 1
                          /\ \A j \in Nat : i < j /\ j < tx_write_index + 1 =>
                               Entry(i)'.data < Entry(j)'.data
                          /\ \A n \in DOMAIN handed : handed[n].data < Entry(i)'.data
      BY <1>1, <2>1 DEF QueuedIntact
    <3>2. CASE i = tx_write_index
      <4>1. Entry(i)' = e
        BY <2>4, <3>2
      <4>2. \A j \in Nat : ~(i < j /\ j < tx_write_index + 1)
        BY <3>2, Indices
      <4>3. \A n \in DOMAIN handed : handed[n].data < offered + 1
        BY <1>2, HandedKinds, Indices DEF HandedOrdered
      <4> QED BY <2>2, <4>1, <4>2, <4>3, Indices
    <3>3. CASE i < tx_write_index
      <4>1. Entry(i)' = Entry(i) /\ Entry(i).data \in Nat
        BY <2>3, <3>1, <3>3, EntryKinds
      <4>2. Entry(i).head = Entry(i).data /\ Entry(i).data <= offered
        BY <1>2, <3>1, <3>3 DEF QueuedIntact
      <4>3. ASSUME NEW j \in Nat, i < j, j < tx_write_index + 1
            PROVE  Entry(i)'.data < Entry(j)'.data
        <5>1. CASE j = tx_write_index
          BY <2>2, <2>4, <4>1, <4>2, <5>1, Indices
        <5>2. CASE j < tx_write_index
          <6>1. tx_read_index <= j
            BY <3>1, <4>3, Indices
          <6>2. Entry(j)' = Entry(j)
            BY <2>3, <5>2, <6>1
          <6> QED BY <1>2, <3>1, <3>3, <4>1, <4>3, <5>2, <6>2 DEF QueuedIntact
        <5> QED BY <4>3, <5>1, <5>2, Indices
      <4>4. \A n \in DOMAIN handed : handed[n].data < Entry(i).data
        BY <1>2, <3>1, <3>3 DEF QueuedIntact
      <4> QED BY <4>1, <4>2, <4>3, <4>4, Indices
    <3> QED BY <3>1, <3>2, <3>3, Indices
  <2>6. WithinWindow' /\ CommandKept'
    <3>1. tx_busy => \E i \in Nat : i = tx_read_index /\ Entry(i)' = Entry(i)
      BY <2>3, Indices
    <3>2. CommandKept'
      BY <1>1, <1>2, <3>1 DEF CommandKept, Entry, Slot
    <3> QED BY <1>1, <1>4, <2>1, <3>2, Indices DEF WithinWindow, Room
  <2> QED BY <1>3, <2>5, <2>6 DEF PacketInv
<1>5. CASE ~Room(tx_write_index)
  <2>1. UNCHANGED <<tx_buffer, tx_write_index>>
    BY <1>5 DEF VbatSend
  <2>2. \A i : Entry(i)' = Entry(i)
    BY <2>1 DEF Entry, Slot
  <2>3. QueuedIntact'
    BY <1>1, <1>2, <2>1, <2>2, EntryKinds, Indices DEF QueuedIntact
  <2>4. WithinWindow' /\ CommandKept'
    BY <1>1, <1>2, <2>1, <2>2 DEF WithinWindow, CommandKept
  <2> QED BY <1>3, <2>3, <2>4 DEF PacketInv
<1> QED BY <1>4, <1>5

LEMMA FlushPacketInv == TypeInv /\ PacketInv /\ Flush => PacketInv'
<1> SUFFICES ASSUME TypeInv, PacketInv, Flush, ~interrupted' PROVE PacketInv'
  BY DEF PacketInv
<1>1. /\ tx_write_index' = tx_read_index /\ producer'.pc = "none" /\ ~tx_busy' /\ ~interrupted
      /\ UNCHANGED <<tx_read_index, handed, offered>>
  BY DEF Flush, Emptied, Unpaused, NoProducer, radioVars, TypeInv, TypeOK
<1>2. HandedOrdered
  BY <1>1 DEF PacketInv
<1>3. QueuedIntact'
  BY <1>1, Indices DEF QueuedIntact
<1>4. HandedOrdered' /\ FillingIntact' /\ WithinWindow' /\ CommandKept'
  BY <1>1, <1>2, Indices DEF HandedOrdered, FillingIntact, WithinWindow, CommandKept
<1> QED BY <1>3, <1>4 DEF PacketInv

(* The radio takes the oldest packet, which is newer than all it had. *)
LEMMA AcceptedPacketInv == TypeInv /\ PacketInv /\ Accepted => PacketInv'
<1> SUFFICES ASSUME TypeInv, PacketInv, Accepted, ~interrupted' PROVE PacketInv'
  BY DEF PacketInv
<1>1. /\ tx_busy /\ ~tx_busy' /\ ~interrupted /\ producer'.pc = "none"
      /\ tx_read_index' = tx_read_index + 1 /\ handed' = Append(handed, command)
      /\ UNCHANGED <<tx_buffer, tx_write_index, offered>>
  BY DEF Accepted, NoProducer, TypeInv, TypeOK
<1>2. QueuedIntact /\ HandedOrdered /\ WithinWindow /\ command = Entry(tx_read_index)
  BY <1>1 DEF PacketInv, CommandKept
<1>3. tx_read_index < tx_write_index
  BY <1>1, Indices
<1>4. /\ command.head = command.data /\ command.data <= offered
      /\ \A n \in DOMAIN handed : handed[n].data < command.data
      /\ \A j \in Nat : tx_read_index < j /\ j < tx_write_index => command.data < Entry(j).data
  BY <1>2, <1>3, Indices DEF QueuedIntact
<1>5. \A i : Entry(i)' = Entry(i)
  BY <1>1 DEF Entry, Slot
<1>6. /\ handed \in Seq(Entries) /\ command \in Entries /\ Len(handed) \in Nat
      /\ DOMAIN handed = 1..Len(handed)
      /\ DOMAIN handed' = 1..(Len(handed) + 1)
      /\ \A n \in DOMAIN handed : handed'[n] = handed[n]
      /\ handed'[Len(handed) + 1] = command
  BY <1>1 DEF TypeInv, TypeOK
<1>7. \A n \in DOMAIN handed' : n = Len(handed) + 1 \/ n \in DOMAIN handed
  BY <1>6
<1>8. QueuedIntact'
  <2>1. SUFFICES ASSUME NEW i \in Nat, tx_read_index + 1 <= i, i < tx_write_index
                 PROVE  /\ Entry(i).head = Entry(i).data /\ Entry(i).data <= offered
                        /\ \A j \in Nat : i < j /\ j < tx_write_index =>
                             Entry(i).data < Entry(j).data
                        /\ \A n \in DOMAIN handed' : handed'[n].data < Entry(i).data
    BY <1>1, <1>5 DEF QueuedIntact
  <2>2. tx_read_index <= i /\ tx_read_index < i
    BY <2>1, Indices
  <2>3. \A n \in DOMAIN handed' : handed'[n].data < Entry(i).data
    BY <1>2, <1>4, <1>6, <1>7, <2>1, <2>2 DEF QueuedIntact
  <2> QED BY <1>2, <2>1, <2>2, <2>3 DEF QueuedIntact
<1>9. HandedOrdered'
  <2>1. \A n \in DOMAIN handed' :
          handed'[n].head = handed'[n].data /\ handed'[n].data <= offered
    BY <1>2, <1>4, <1>6, <1>7 DEF HandedOrdered
  <2>2. ASSUME NEW m \in DOMAIN handed', NEW n \in DOMAIN handed', m < n
        PROVE  handed'[m].data < handed'[n].data
    <3>1. m \in DOMAIN handed
      BY <1>6, <1>7, <2>2
    <3> QED BY <1>2, <1>4, <1>6, <1>7, <2>2, <3>1 DEF HandedOrdered
  <2> QED BY <1>1, <2>1, <2>2 DEF HandedOrdered
<1>10. FillingIntact' /\ WithinWindow' /\ CommandKept'
  BY <1>1, <1>2, Indices DEF FillingIntact, WithinWindow, CommandKept
<1> QED BY <1>8, <1>9, <1>10 DEF PacketInv

LEMMA RestPacketInv ==
  TypeInv /\ PacketInv /\ (Transmit \/ Refused \/ TxPoolAvailable \/ UNCHANGED vars)
    => PacketInv'
<1> SUFFICES ASSUME TypeInv, PacketInv,
                    Transmit \/ Refused \/ TxPoolAvailable \/ UNCHANGED vars, ~interrupted'
             PROVE  PacketInv'
  BY DEF PacketInv
<1>1. /\ ~interrupted
      /\ UNCHANGED <<tx_buffer, tx_read_index, tx_write_index, handed, offered, producer>>
  BY DEF Transmit, Refused, TxPoolAvailable, Kept, vars, indexVars, radioVars
<1>2. QueuedIntact /\ HandedOrdered /\ FillingIntact /\ WithinWindow /\ CommandKept
  BY <1>1 DEF PacketInv
<1>3. \A i : Entry(i)' = Entry(i)
  BY <1>1 DEF Entry, Slot
<1>4. CommandKept'
  <2>1. tx_busy' => command' = tx_buffer[Slot(tx_read_index)] \/ (tx_busy /\ command' = command)
    BY DEF Transmit, Refused, TxPoolAvailable, Unpaused, vars, radioVars
  <2>2. Entry(tx_read_index)' = tx_buffer[Slot(tx_read_index)]
    BY <1>1 DEF Entry, Slot
  <2> QED BY <1>1, <1>2, <2>1, <2>2 DEF CommandKept, Entry
<1>5. QueuedIntact' /\ HandedOrdered' /\ WithinWindow'
  BY <1>1, <1>2, <1>3 DEF QueuedIntact, HandedOrdered, WithinWindow
<1>6. FillingIntact'
  <2>1. /\ Entry(tx_write_index)' = Entry(tx_write_index)
        /\ Room(tx_write_index)' = Room(tx_write_index)
    BY <1>1 DEF Entry, Slot, Room
  <2> QED BY <1>1, <1>2, <1>3, <2>1 DEF FillingIntact
<1> QED BY <1>4, <1>5, <1>6 DEF PacketInv

LEMMA InitPacketInv == Init => PacketInv
<1> SUFFICES ASSUME Init PROVE PacketInv
  OBVIOUS
<1>1. TypeInv /\ producer.pc = "none" /\ ~tx_busy /\ handed = <<>>
        /\ tx_read_index = 0 /\ tx_write_index = 0
  BY InitTypeInv DEF Init, NoProducer
<1>2. QueuedIntact /\ HandedOrdered
  BY <1>1 DEF QueuedIntact, HandedOrdered
<1> QED BY <1>1, <1>2, Indices DEF PacketInv, FillingIntact, WithinWindow, CommandKept

LEMMA NextPacketInv == TypeInv /\ PacketInv /\ [Next]_vars => PacketInv'
BY ClaimPacketInv, WriteHeaderPacketInv, PublishPacketInv, VbatSendPacketInv,
   FlushPacketInv, AcceptedPacketInv, RestPacketInv DEF Next, Produce, Consume

(* Each packet reaches the radio whole, once and in order, and is kept while *)
(* the radio works on it (BLE_TX_Queue_SendNextTxPacket and _Transmit),      *)
(* unless the interrupt fell inside another SendTxPacket.                    *)
THEOREM PacketsAlwaysIntact == Spec => []PacketsIntact
<1>1. TypeInv /\ PacketInv => PacketsIntact
  BY Indices DEF PacketInv, HandedOrdered, CommandKept, Entry, PacketsIntact, HandedIntact,
                 PacketStable
<1> QED
  BY <1>1, InitTypeInv, NextTypeInv, InitPacketInv, NextPacketInv, PTL DEF Spec

-----------------------------------------------------------------------------
(* The packets between the two indices are a sequence. *)
WaitingIs ==
  /\ Waiting \in Seq(Entries) /\ Len(Waiting) = tx_write_index - tx_read_index
  /\ \A i \in 1..Len(Waiting) : Waiting[i] = Entry(tx_read_index + i - 1)

LEMMA WaitingKinds == TypeInv => WaitingIs
<1> SUFFICES ASSUME TypeInv PROVE WaitingIs
  OBVIOUS
<1> DEFINE n == tx_write_index - tx_read_index
<1>1. n \in Nat
  BY Indices
<1>2. \A i \in 1..n : tx_read_index + i - 1 \in Nat
  BY <1>1, Indices
<1>3. \A i \in 1..n : Entry(tx_read_index + i - 1) \in Entries
  BY <1>2, EntryKinds
<1>4. Waiting = [i \in 1..n |-> Entry(tx_read_index + i - 1)]
  BY DEF Waiting, Entry
<1>5. Waiting \in [1..n -> Entries] /\ \A i \in 1..n : Waiting[i] = Entry(tx_read_index + i - 1)
  BY <1>3, <1>4
<1> HIDE DEF n
<1>6. Waiting \in Seq(Entries) /\ Len(Waiting) = n
  <2>1. Waiting \in Seq(Entries)
    BY <1>1, <1>5
  <2>2. DOMAIN Waiting = 1..n /\ DOMAIN Waiting = 1..Len(Waiting) /\ Len(Waiting) \in Nat
    BY <1>5, <2>1, LenProperties
  <2> QED BY <1>1, <2>1, <2>2
<1> QED BY <1>5, <1>6 DEF n, WaitingIs

LEMMA WaitingNext == TypeInv /\ [Next]_vars => WaitingIs'
BY WaitingKinds, NextTypeInv, PTL

(* A step that leaves the queue alone leaves what waits alone. *)
LEMMA SameWaiting ==
  ASSUME TypeInv, UNCHANGED <<tx_read_index, tx_write_index>>, WaitingIs',
         \A i \in Nat : tx_read_index <= i /\ i < tx_write_index => Entry(i)' = Entry(i)
  PROVE  Waiting' = Waiting
<1>1. WaitingIs
  BY WaitingKinds
<1>2. \A i \in 1..Len(Waiting) :
        /\ tx_read_index + i - 1 \in Nat /\ tx_read_index <= tx_read_index + i - 1
        /\ tx_read_index + i - 1 < tx_write_index
  BY <1>1, Indices DEF WaitingIs
<1>3. Len(Waiting') = Len(Waiting)
  BY <1>1 DEF WaitingIs
<1>4. ASSUME NEW i \in 1..Len(Waiting) PROVE Waiting'[i] = Waiting[i]
  <2>1. Waiting'[i] = tx_buffer'[Slot(tx_read_index + i - 1)]
    BY <1>3, <1>4 DEF WaitingIs, Entry, Slot
  <2>2. tx_buffer'[Slot(tx_read_index + i - 1)] = Entry(tx_read_index + i - 1)
    BY <1>2, <1>4 DEF Entry, Slot
  <2> QED BY <1>1, <1>4, <2>1, <2>2 DEF WaitingIs
<1>5. Waiting \in Seq(Entries) /\ Waiting' \in Seq(Entries)
  BY <1>1 DEF WaitingIs
<1> QED BY <1>3, <1>4, <1>5, SeqEqual

(* A packet that is published is accepted behind the others. *)
LEMMA OneMoreWaiting ==
  ASSUME TypeInv, tx_read_index' = tx_read_index, tx_write_index' = tx_write_index + 1,
         Room(tx_write_index), WaitingIs',
         \A i \in Nat : tx_read_index <= i /\ i < tx_write_index => Entry(i)' = Entry(i),
         NEW e \in Entries, tx_buffer'[Slot(tx_write_index)] = e
  PROVE  Len(Waiting) < Window /\ Waiting' = Append(Waiting, e)
<1>1. WaitingIs
  BY WaitingKinds
<1>2. Len(Waiting) < Window
  BY <1>1, Indices DEF WaitingIs, Room
<1>3. Len(Waiting) \in Nat /\ Len(Waiting') = Len(Waiting) + 1
  BY <1>1, Indices DEF WaitingIs
<1>4. /\ Waiting \in Seq(Entries) /\ Waiting' \in Seq(Entries)
      /\ Append(Waiting, e) \in Seq(Entries) /\ Len(Append(Waiting, e)) = Len(Waiting) + 1
      /\ \A i \in 1..Len(Waiting) : Append(Waiting, e)[i] = Waiting[i]
      /\ Append(Waiting, e)[Len(Waiting) + 1] = e
  <2>1. Waiting \in Seq(Entries) /\ Waiting' \in Seq(Entries)
    BY <1>1 DEF WaitingIs
  <2> HIDE DEF Waiting
  <2> QED BY <2>1, AppendProperties
<1>5. \A i \in 1..Len(Waiting') : Waiting'[i] = tx_buffer'[Slot(tx_read_index + i - 1)]
  BY DEF WaitingIs, Entry, Slot
<1>6. ASSUME NEW i \in 1..Len(Waiting') PROVE Waiting'[i] = Append(Waiting, e)[i]
  <2>1. CASE i = Len(Waiting) + 1
    <3>1. tx_read_index + i - 1 = tx_write_index
      BY <1>1, <2>1, Indices DEF WaitingIs
    <3> QED BY <1>4, <1>5, <1>6, <2>1, <3>1
  <2>2. CASE i \in 1..Len(Waiting)
    <3>1. /\ tx_read_index + i - 1 \in Nat /\ tx_read_index <= tx_read_index + i - 1
          /\ tx_read_index + i - 1 < tx_write_index
      BY <1>1, <2>2, Indices DEF WaitingIs
    <3>2. tx_buffer'[Slot(tx_read_index + i - 1)] = Entry(tx_read_index + i - 1)
      BY <3>1 DEF Entry, Slot
    <3> QED BY <1>1, <1>4, <1>5, <1>6, <2>2, <3>2 DEF WaitingIs
  <2> QED BY <1>3, <1>6, <2>1, <2>2
<1>7. Waiting' = Append(Waiting, e)
  BY <1>3, <1>4, <1>6, SeqEqual
<1> QED BY <1>2, <1>7

(* The producers' own steps, in the queue's terms. *)
LEMMA ProduceFifo ==
  ASSUME TypeInv, PacketInv, WaitingIs', Produce \/ VbatSend, ~interrupted'
  PROVE  \/ UNCHANGED <<Waiting, handed, interrupted>>
         \/ /\ \E p \in {Whole(k) : k \in Numbers} :
                 Len(Waiting) < Window /\ Waiting' = Append(Waiting, p)
            /\ UNCHANGED <<handed, interrupted>>
<1>1. ~interrupted /\ UNCHANGED <<tx_read_index, handed, interrupted>>
  <2>1. CASE Produce
    BY <2>1 DEF Produce, Claim, WriteHeader, Publish, indexVars, radioVars
  <2>2. CASE VbatSend
    <3>1. interrupted' = (interrupted \/ producer # NoProducer)
      BY <2>2 DEF VbatSend
    <3>2. interrupted \in BOOLEAN /\ UNCHANGED <<tx_read_index, handed>>
      BY <2>2 DEF VbatSend, radioVars, TypeInv, TypeOK
    <3> QED BY <3>1, <3>2
  <2> QED BY <2>1, <2>2
<1>2. QueuedIntact /\ FillingIntact
  BY <1>1 DEF PacketInv
<1>3. offered \in Nat /\ offered <= MaxPackets /\ MaxPackets \in Nat
  BY ModelAssumption DEF TypeInv, TypeOK
<1>4. CASE Claim
  <2>1. UNCHANGED <<tx_read_index, tx_write_index>>
    BY <1>4 DEF Claim, indexVars
  <2>2. CASE Room(tx_write_index)
    <3>1. \E e : tx_buffer' = [tx_buffer EXCEPT ![Slot(tx_write_index)] = e]
      BY <1>4, <2>2 DEF Claim
    <3>2. \A i \in Nat : tx_read_index <= i /\ i < tx_write_index => Entry(i)' = Entry(i)
      BY <2>2, <3>1, WriteBehind
    <3> QED BY <1>1, <2>1, <3>2, SameWaiting
  <2>3. CASE ~Room(tx_write_index)
    BY <1>1, <1>4, <2>1, <2>3 DEF Claim, Waiting, Slot
  <2> QED BY <2>2, <2>3
<1>5. CASE WriteHeader
  <2>1. UNCHANGED <<tx_read_index, tx_write_index>> /\ producer.index = tx_write_index
          /\ Room(tx_write_index)
    BY <1>2, <1>5 DEF WriteHeader, indexVars, FillingIntact
  <2>2. \E e : tx_buffer' = [tx_buffer EXCEPT ![Slot(tx_write_index)] = e]
    BY <1>5, <2>1 DEF WriteHeader
  <2>3. \A i \in Nat : tx_read_index <= i /\ i < tx_write_index => Entry(i)' = Entry(i)
    BY <2>1, <2>2, WriteBehind
  <2> QED BY <1>1, <2>1, <2>3, SameWaiting
<1>6. CASE Publish
  <2> DEFINE e == Entry(tx_write_index)
  <2>1. /\ tx_write_index' = tx_write_index + 1 /\ tx_buffer' = tx_buffer
        /\ Room(tx_write_index) /\ e.head = producer.packet /\ e.data = producer.packet
        /\ producer.packet > 0 /\ producer.packet <= offered
    BY <1>2, <1>6 DEF Publish, FillingIntact
  <2>2. producer.packet \in Numbers
    BY <1>3, <2>1 DEF Numbers, TypeInv, TypeOK, Producers
  <2>3. e \in Entries
    BY EntryKinds, Indices
  <2>4. e = Whole(producer.packet)
    BY <2>1, <2>3 DEF Whole, Entries
  <2>5. tx_buffer'[Slot(tx_write_index)] = e
    BY <2>1 DEF Entry
  <2>6. \A i : Entry(i)' = Entry(i)
    BY <2>1 DEF Entry, Slot
  <2> HIDE DEF e
  <2>7. Len(Waiting) < Window /\ Waiting' = Append(Waiting, e)
    BY <1>1, <2>1, <2>3, <2>5, <2>6, OneMoreWaiting
  <2> QED BY <1>1, <2>2, <2>4, <2>7
<1>7. CASE VbatSend
  <2>1. CASE Room(tx_write_index)
    <3> DEFINE e == Whole(offered + 1)
    <3>1. offered + 1 \in Numbers
      BY <1>3, <1>7 DEF VbatSend, Numbers
    <3>2. /\ tx_buffer' = [tx_buffer EXCEPT ![Slot(tx_write_index)] = e]
          /\ tx_write_index' = tx_write_index + 1
      BY <1>7, <2>1 DEF VbatSend
    <3>3. e \in Entries
      BY <3>1 DEF Whole, Entries
    <3> HIDE DEF e
    <3>4. \A i \in Nat : tx_read_index <= i /\ i < tx_write_index => Entry(i)' = Entry(i)
      BY <2>1, <3>2, WriteBehind
    <3>5. tx_buffer'[Slot(tx_write_index)] = e
      BY <3>2, WrittenEntry
    <3>6. Len(Waiting) < Window /\ Waiting' = Append(Waiting, e)
      BY <1>1, <2>1, <3>2, <3>3, <3>4, <3>5, OneMoreWaiting
    <3> QED BY <1>1, <3>1, <3>6 DEF e
  <2>2. CASE ~Room(tx_write_index)
    BY <1>1, <1>7, <2>2 DEF VbatSend, Waiting, Slot
  <2> QED BY <2>1, <2>2
<1> QED BY <1>4, <1>5, <1>6, <1>7 DEF Produce

LEMMA FlushFifo ==
  ASSUME TypeInv, WaitingIs', Flush
  PROVE  Waiting' = <<>> /\ UNCHANGED <<handed, interrupted>>
<1>1. tx_write_index' = tx_read_index' /\ UNCHANGED <<handed, interrupted>>
  BY DEF Flush, Emptied, radioVars
<1>2. Waiting' \in Seq(Entries) /\ Len(Waiting') = 0
  <2>1. tx_read_index' \in Nat /\ tx_write_index' \in Nat /\ tx_write_index' = tx_read_index'
    BY <1>1, Indices DEF Flush
  <2>2. Waiting' \in Seq(Entries) /\ Len(Waiting') = tx_write_index' - tx_read_index'
    BY DEF WaitingIs
  <2>3. tx_write_index' - tx_read_index' = 0
    <3>1. \A m, n \in Nat : m = n => m - n = 0
      OBVIOUS
    <3> QED BY ONLY <2>1, <3>1
  <2> QED BY <2>2, <2>3
<1> QED BY <1>1, <1>2, EmptySeq

(* The radio has the oldest. *)
LEMMA AcceptedFifo ==
  ASSUME TypeInv, PacketInv, WaitingIs', Accepted, ~interrupted'
  PROVE  /\ Waiting # <<>> /\ Waiting' = Tail(Waiting)
         /\ handed' = Append(handed, Head(Waiting)) /\ UNCHANGED interrupted
<1>1. /\ tx_busy /\ ~interrupted /\ tx_read_index' = tx_read_index + 1
      /\ handed' = Append(handed, command)
      /\ UNCHANGED <<tx_buffer, tx_write_index, interrupted>>
  BY DEF Accepted
<1>2. tx_read_index < tx_write_index /\ command = Entry(tx_read_index)
  BY <1>1, Indices DEF PacketInv, CommandKept
<1>3. WaitingIs
  BY WaitingKinds
<1>4. /\ Waiting \in Seq(Entries) /\ Waiting' \in Seq(Entries)
      /\ Len(Waiting) \in Nat \ {0} /\ Len(Waiting') = Len(Waiting) - 1
  BY <1>1, <1>2, <1>3, Indices DEF WaitingIs
<1>5. Waiting # <<>>
  BY <1>4, EmptySeq
<1>6. Head(Waiting) = command
  <2>1. Head(Waiting) = Waiting[1]
    BY <1>4, <1>5
  <2>2. Waiting[1] = Entry(tx_read_index + 1 - 1) /\ tx_read_index + 1 - 1 = tx_read_index
    BY <1>3, <1>4, Indices DEF WaitingIs
  <2> QED BY <1>2, <2>1, <2>2
<1>7. /\ Tail(Waiting) \in Seq(Entries) /\ Len(Tail(Waiting)) = Len(Waiting) - 1
      /\ \A i \in 1..Len(Tail(Waiting)) : Tail(Waiting)[i] = Waiting[i + 1]
  BY <1>4, <1>5, HeadTailProperties
<1>8. ASSUME NEW i \in 1..Len(Waiting') PROVE Waiting'[i] = Tail(Waiting)[i]
  <2>1. Waiting'[i] = tx_buffer[Slot(tx_read_index + 1 + i - 1)]
    BY <1>1, <1>8 DEF WaitingIs, Entry, Slot
  <2>2. i + 1 \in 1..Len(Waiting)
    BY <1>4, <1>8
  <2>3. Waiting[i + 1] = tx_buffer[Slot(tx_read_index + (i + 1) - 1)]
    BY <1>3, <2>2 DEF WaitingIs, Entry
  <2>4. tx_read_index + 1 + i - 1 = tx_read_index + (i + 1) - 1
    BY <1>8, Indices
  <2> QED BY <1>4, <1>7, <1>8, <2>1, <2>3, <2>4
<1>9. Waiting' = Tail(Waiting)
  BY <1>4, <1>7, <1>8, SeqEqual
<1> QED BY <1>1, <1>5, <1>6, <1>9

LEMMA RestFifo ==
  ASSUME Transmit \/ Refused \/ TxPoolAvailable \/ UNCHANGED vars
  PROVE  UNCHANGED <<Waiting, handed, interrupted>>
BY DEF Transmit, Refused, TxPoolAvailable, Kept, vars, indexVars, radioVars, Waiting, Slot

LEMMA StepFifo ==
  ASSUME TypeInv, PacketInv, [Next]_vars
  PROVE  [Fifo!Next]_<<Waiting, handed, interrupted>>
<1>1. CASE interrupted'
  BY <1>1 DEF Fifo!Next
<1>2. CASE ~interrupted'
  <2>1. WaitingIs'
    BY WaitingNext
  <2>2. CASE Produce \/ VbatSend
    BY <1>2, <2>1, <2>2, ProduceFifo DEF Fifo!Next, Fifo!Accept
  <2>3. CASE Flush
    BY <2>1, <2>3, FlushFifo DEF Fifo!Next, Fifo!Flush
  <2>4. CASE Accepted
    BY <1>2, <2>1, <2>4, AcceptedFifo DEF Fifo!Next, Fifo!HandOver
  <2>5. CASE Transmit \/ Refused \/ TxPoolAvailable \/ UNCHANGED vars
    BY <2>5, RestFifo
  <2> QED BY <2>2, <2>3, <2>4, <2>5 DEF Next, Consume
<1> QED BY <1>1, <1>2

LEMMA InitFifo == Init => Fifo!Init
<1> SUFFICES ASSUME Init PROVE Fifo!Init
  OBVIOUS
<1>1. handed = <<>> /\ interrupted = FALSE /\ tx_write_index - tx_read_index = 0
  BY DEF Init
<1>2. Waiting \in Seq(Entries) /\ Len(Waiting) = 0
  BY <1>1, InitTypeInv, WaitingKinds DEF WaitingIs
<1> QED BY <1>1, <1>2, EmptySeq DEF Fifo!Init

(* The ring of ble_tx_queue.c is a bounded queue, for every window and any   *)
(* number of packets, as long as the interrupt sends between two tasks.      *)
THEOREM QueueImplementsFifo == Spec => ImplementsFifo
<1>1. Init => TypeInv /\ PacketInv
  BY InitTypeInv, InitPacketInv
<1>2. TypeInv /\ PacketInv /\ [Next]_vars => TypeInv' /\ PacketInv'
  BY NextTypeInv, NextPacketInv
<1>3. TypeInv /\ PacketInv /\ [Next]_vars => [Fifo!Next]_<<Waiting, handed, interrupted>>
  BY StepFifo
<1> QED
  BY <1>1, <1>2, <1>3, InitFifo, PTL DEF Spec, ImplementsFifo, Fifo!Spec
=============================================================================
