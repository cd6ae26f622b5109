----------------------------- MODULE CrsProofs -----------------------------
(***************************************************************************)
(* Theorems about Crs, for every window, modulus and file length, every    *)
(* set of commands and every number of commands and faults.                *)
(***************************************************************************)
EXTENDS Crs, SequenceTheorems, TLAPS

Kinds == {"READ", "WRITE", "READ_DIR", "SIMPLE", "CANCEL", "FILE_DATA", "FILE_INFO",
          "FILE_ACK", "ACK", "NAK", "FOREIGN"}

(* An answer names the command it is for, any other packet a chunk.          *)
Packets == [kind : {"ACK", "NAK"}, n : {0}, c : Kinds, f : {0}]
           \union [kind : Kinds \ {"ACK", "NAK"}, n : 0 .. Modulus - 1, c : Nat, f : Nat]

Typed == TypeOK /\ rx \in Seq(Packets) /\ tx \in Seq(Packets) /\ base \in Nat

(* Every packet on the transmit queue is this service's; one of them is.     *)
AllOwn(q) == \A i \in DOMAIN q : Own(q[i])
HasOwn(q) == \E i \in DOMAIN q : Own(q[i])

(* A run changes the state once, into IDLE or out of it, and then takes no   *)
(* more packets.                                                             *)
Phases ==
  /\ Between => next_state = state
  /\ state # "IDLE" => next_state \in {state, "IDLE"}
  /\ update = "tx" /\ next_state = state => rx = <<>>

Idle == state = "IDLE" /\ next_state = "IDLE"

(* HeldDuringTransfer, also in the middle of a run.                          *)
Held ==
  /\ fatfs = IF Idle THEN 0 ELSE 1
  /\ ~Idle => file_open
  /\ file_open /\ ~disk_error => ~Idle

(* What will run the task again: the timer of a READ or a WRITE, the bit and *)
(* the queue for a DIR.                                                      *)
Timers ==
  /\ next_state \in {"READ", "WRITE"} => ack_timer \/ (timeout_flag /\ crs_task)
  /\ next_state = "DIR" /\ next_state # state => crs_task
  /\ ~Others => /\ AllOwn(tx)
                /\ Between /\ state = "DIR" => crs_task \/ tx # <<>>

(* A packet that was received wakes the task (the second part of             *)
(* WorkHasWakeup).                                                           *)
RxWakes ==
  Between /\ rx # <<>> /\ connected =>
    crs_task \/ ack_timer \/ HasOwn(tx) \/ stranded \/ (state = "DIR" /\ Others)

IInv == Typed /\ Phases /\ Held /\ Timers /\ RxWakes

LEMMA InvImpliesSafe == IInv => TransferSafe
<1> SUFFICES ASSUME IInv PROVE TransferSafe
  OBVIOUS
<1> USE DEF IInv, Typed
<1>1. HeldDuringTransfer
  BY DEF HeldDuringTransfer, Held, Phases, Idle
<1>2. WorkHasWakeup
  <2>1. WillRun <=> crs_task \/ ack_timer \/ HasOwn(tx)
    BY DEF WillRun, HasOwn
  <2>2. ASSUME Between, state # "IDLE" PROVE WillRun \/ (state = "DIR" /\ Others)
    <3>1. CASE state = "DIR"
      <4>1. ~Others /\ tx # <<>> => HasOwn(tx)
        BY EmptySeq DEF Timers, AllOwn, HasOwn
      <4> QED BY <2>1, <2>2, <3>1, <4>1 DEF Timers
    <3>2. CASE state # "DIR"
      BY <2>1, <2>2, <3>2 DEF Timers, Phases, TypeOK, States
    <3> QED BY <3>1, <3>2
  <2>3. ASSUME Between, rx # <<>>, connected
        PROVE  WillRun \/ stranded \/ (state = "DIR" /\ Others)
    BY <2>1, <2>3 DEF RxWakes
  <2> QED BY <2>2, <2>3 DEF WorkHasWakeup
<1> QED BY <1>1, <1>2 DEF TransferSafe

-----------------------------------------------------------------------------
(* Packets and the two queues *)
LEMMA ModRange ==
  ASSUME NEW k \in Int
  PROVE  k % Modulus \in 0 .. Modulus - 1
BY SizeAssumption, SMTT(30)

LEMMA PacketTypes ==
  /\ \A k \in Commands \union {"CANCEL"}, f \in Nat : Command(k, f) \in Packets
  /\ \A k \in Int, c, f \in Nat : FileData(k, c, f) \in Packets /\ FileInfo(k, c, f) \in Packets
  /\ \A p \in Packets : p.kind = "FILE_DATA" => FileAck(p) \in Packets
  /\ \A k \in Kinds : Ack(k) \in Packets /\ Nak(k) \in Packets
  /\ Foreign \in Packets
<1>1. 0 \in 0 .. Modulus - 1 /\ 0 \in Nat
  BY SizeAssumption
<1>2. \A k \in Commands \union {"CANCEL"}, f \in Nat : Command(k, f) \in Packets
  BY <1>1, ClientAssumption DEF Command, Packet, Packets, Kinds
<1>3. ASSUME NEW k \in Int, NEW c \in Nat, NEW f \in Nat
      PROVE  FileData(k, c, f) \in Packets /\ FileInfo(k, c, f) \in Packets
  BY ModRange DEF FileData, FileInfo, Packet, Packets, Kinds
<1>4. \A p \in Packets : p.kind = "FILE_DATA" => FileAck(p) \in Packets
  BY <1>1 DEF FileAck, Packet, Packets, Kinds
<1>5. \A k \in Kinds : Ack(k) \in Packets /\ Nak(k) \in Packets
  BY DEF Ack, Nak, Packet, Packets
<1>6. Foreign \in Packets
  BY <1>1 DEF Foreign, Packet, Packets, Kinds
<1> QED BY <1>2, <1>3, <1>4, <1>5, <1>6

LEMMA OwnPackets ==
  /\ \A f : \A k \in Commands \union {"CANCEL"} : Own(Command(k, f))
  /\ \A k, c, f : Own(FileData(k, c, f)) /\ Own(FileInfo(k, c, f))
  /\ \A p : Own(FileAck(p)) /\ Own(Ack(p)) /\ Own(Nak(p))
  /\ ~Own(Foreign)
BY ClientAssumption DEF Own, Command, FileData, FileInfo, FileAck, Ack, Nak, Foreign, Packet

LEMMA Taken ==
  ASSUME NEW q \in Seq(Packets), q # <<>>
  PROVE  /\ Tail(q) \in Seq(Packets) /\ Len(Tail(q)) = Len(q) - 1
         /\ Head(q) \in Packets /\ Head(q).kind \in Kinds
         /\ Head(q).n \in 0 .. Modulus - 1
         /\ Head(q).kind \notin {"ACK", "NAK"} => Head(q).c \in Nat
         /\ Head(q).f \in Nat
         /\ AllOwn(q) => AllOwn(Tail(q)) /\ Own(Head(q))
         /\ HasOwn(q) => HasOwn(Tail(q)) \/ Own(Head(q))
<1>1. /\ Tail(q) \in Seq(Packets) /\ Len(Tail(q)) = Len(q) - 1
      /\ Len(q) \in Nat \ {0} /\ Head(q) = q[1] /\ Head(q) \in Packets
      /\ DOMAIN q = 1 .. Len(q) /\ DOMAIN Tail(q) = 1 .. Len(q) - 1
  BY HeadTailProperties, EmptySeq
<1>2. \A i \in DOMAIN Tail(q) : i + 1 \in DOMAIN q /\ Tail(q)[i] = q[i + 1]
  BY <1>1, HeadTailProperties
<1>3. \A j \in DOMAIN q : j = 1 \/ (j - 1 \in DOMAIN Tail(q) /\ Tail(q)[j - 1] = q[j])
  BY <1>1, <1>2
<1>4. /\ Head(q).kind \in Kinds /\ Head(q).n \in 0 .. Modulus - 1 /\ Head(q).f \in Nat
      /\ Head(q).kind \notin {"ACK", "NAK"} => Head(q).c \in Nat
  BY <1>1, SizeAssumption DEF Packets, Kinds
<1>5. AllOwn(q) => AllOwn(Tail(q)) /\ Own(Head(q))
  BY <1>1, <1>2 DEF AllOwn
<1>6. HasOwn(q) => HasOwn(Tail(q)) \/ Own(Head(q))
  BY <1>1, <1>3 DEF HasOwn
<1> QED BY <1>1, <1>4, <1>5, <1>6

LEMMA LastDropped ==
  ASSUME NEW q \in Seq(Packets), q # <<>>
  PROVE  /\ SubSeq(q, 1, Len(q) - 1) \in Seq(Packets)
         /\ Len(SubSeq(q, 1, Len(q) - 1)) = Len(q) - 1
         /\ Len(q) \in Nat \ {0}
         /\ \A i \in 1 .. Len(q) - 1 : SubSeq(q, 1, Len(q) - 1)[i] = q[i]
<1>1. Len(q) \in Nat \ {0}
  BY EmptySeq
<1> DEFINE n == Len(q) - 1
<1>2. n \in Nat /\ \A i \in 1 .. n : q[i] \in Packets
  BY <1>1, ElementOfSeq
<1> HIDE DEF n
<1>3. /\ SubSeq(q, 1, n) \in Seq(Packets)
      /\ Len(SubSeq(q, 1, n)) = IF 1 <= n THEN n - 1 + 1 ELSE 0
      /\ \A i \in 1 .. n - 1 + 1 : SubSeq(q, 1, n)[i] = q[1 + i - 1]
  BY <1>2, SubSeqProperties
<1>4. n - 1 + 1 = n /\ \A i \in 1 .. n : 1 + i - 1 = i
  BY <1>2
<1>5. /\ SubSeq(q, 1, n) \in Seq(Packets) /\ Len(SubSeq(q, 1, n)) = n
      /\ \A i \in 1 .. n : SubSeq(q, 1, n)[i] = q[i]
  BY <1>2, <1>3, <1>4
<1> QED BY <1>1, <1>5 DEF n

LEMMA Queued ==
  ASSUME NEW q \in Seq(Packets), NEW p \in Packets
  PROVE  /\ Append(q, p) \in Seq(Packets) /\ Len(Append(q, p)) = Len(q) + 1
         /\ Append(q, p) # <<>>
         /\ AllOwn(q) /\ Own(p) => AllOwn(Append(q, p))
         /\ HasOwn(q) => HasOwn(Append(q, p))
<1> DEFINE t == Append(q, p)
<1>1. /\ t \in Seq(Packets) /\ Len(t) = Len(q) + 1 /\ Len(q) \in Nat
      /\ DOMAIN q = 1 .. Len(q) /\ DOMAIN t = 1 .. Len(q) + 1
      /\ \A i \in 1 .. Len(q) : t[i] = q[i]
      /\ t[Len(q) + 1] = p
  BY AppendProperties
<1> HIDE DEF t
<1>2. t # <<>>
  BY <1>1, EmptySeq
<1>3. AllOwn(q) /\ Own(p) => AllOwn(t)
  BY <1>1 DEF AllOwn
<1>4. HasOwn(q) => HasOwn(t)
  BY <1>1 DEF HasOwn
<1> QED BY <1>1, <1>2, <1>3, <1>4 DEF t

LEMMA NeverType == Never \in Nat
BY SizeAssumption DEF Never

LEMMA FaultCounted ==
  ASSUME Typed, Fault \/ UNCHANGED faults
  PROVE  faults' \in 0 .. MaxFaults
BY ClientAssumption DEF Typed, TypeOK, Fault

(* A packet of this service is put on the transmit queue, or dropped.        *)
LEMMA Sent ==
  ASSUME Typed, NEW p \in Packets, Send(p)
  PROVE  /\ tx' \in Seq(Packets) /\ Len(tx') <= Window
         /\ AllOwn(tx) /\ Own(p) => AllOwn(tx')
         /\ HasOwn(tx) => HasOwn(tx')
<1>1. tx \in Seq(Packets) /\ Len(tx) <= Window /\ Len(tx) \in Nat /\ Window \in Nat
  BY SizeAssumption DEF Typed, TypeOK
<1>2. CASE TxRoom
  BY <1>1, <1>2, Queued DEF Send, TxRoom
<1>3. CASE ~TxRoom
  BY <1>1, <1>3 DEF Send
<1> QED BY <1>2, <1>3

-----------------------------------------------------------------------------
(* The steps of a run *)

(* A run begins: its bit is taken, and the timer or an end is ahead of it.   *)
LEMMA BeginKeeps ==
  ASSUME IInv, RunIdle \/ RunRead \/ RunWrite \/ RunDir
  PROVE  IInv'
<1> USE DEF IInv, Typed, Between
<1>1. /\ update = "none" /\ update' = "rx" /\ crs_task /\ ~crs_task'
      /\ next_state = state /\ next_state' \in {state, "IDLE"}
      /\ UNCHANGED <<state, file_open, source, target, fatfs, stored, next_ack, last_packet,
                     rx, tx, connected, phoneVars, boundVars, histVars>>
  BY DEF Begin, RunIdle, RunRead, RunWrite, RunDir, Phases
<1>2. Typed'
  <2>1. /\ file_pos' \in Nat /\ next_packet' \in Nat
        /\ ack_timer' \in BOOLEAN /\ timeout_flag' \in BOOLEAN
    <3>1. CASE RunRead
      BY <3>1 DEF TypeOK, RunRead, Seek, timerVars
    <3>2. CASE RunIdle \/ RunWrite \/ RunDir
      BY <3>2 DEF TypeOK, RunIdle, RunWrite, RunDir, timerVars
    <3> QED BY <3>1, <3>2
  <2>2. crs_task' \in BOOLEAN
    BY DEF Begin, RunIdle, RunRead, RunWrite, RunDir
  <2>3. next_state' \in States
    BY <1>1 DEF TypeOK, States
  <2> QED BY <1>1, <2>1, <2>2, <2>3 DEF TypeOK, phoneVars, boundVars
<1>3. Phases'
  BY <1>1 DEF Phases
<1>4. Held'
  BY <1>1 DEF Held, Idle, histVars, TypeOK, States, RunIdle, Begin
<1>5. Timers'
  <2>1. CASE RunRead
    BY <1>1, <2>1 DEF RunRead, Begin, Timers, timerVars
  <2>2. CASE RunWrite
    BY <1>1, <2>2 DEF RunWrite, Begin, Timers, timerVars
  <2>3. CASE RunDir \/ RunIdle
    BY <1>1, <2>3 DEF RunDir, RunIdle, Begin, Timers, timerVars
  <2> QED BY <2>1, <2>2, <2>3
<1>6. RxWakes'
  BY <1>1 DEF RxWakes
<1> QED BY <1>2, <1>3, <1>4, <1>5, <1>6

(* A run that takes a packet: a step does not end it, and moves the state    *)
(* from IDLE into a transfer or out of one.                                  *)
Takes ==
  /\ update = "rx" /\ next_state = state /\ rx # <<>> /\ TakeRx
  /\ UNCHANGED <<state, update, connected, phoneVars>>

LEMMA TakesKeeps ==
  ASSUME IInv, Takes, TypeOK', tx' \in Seq(Packets),
         next_state' \in {state, "IDLE"} \/ state = "IDLE", Held', Timers'
  PROVE  IInv'
<1> USE DEF IInv, Typed, Between, Takes, TakeRx
<1>1. rx' \in Seq(Packets) /\ base' \in Nat
  BY Taken DEF phoneVars
<1>2. Phases'
  BY DEF Phases
<1>3. RxWakes'
  BY DEF RxWakes
<1> QED BY <1>1, <1>2, <1>3

LEMMA IdleKeeps ==
  ASSUME IInv, IdleSimple \/ IdleOpenFails \/ IdleRead \/ IdleWrite \/ IdleReadDir
  PROVE  IInv'
<1> USE DEF IInv, Typed, Receiving, FromRx
<1>1. /\ Takes /\ state = "IDLE" /\ next_state = "IDLE" /\ fatfs = 0
      /\ Head1 \in Packets /\ Head1.kind \in Kinds /\ Head1.f \in Nat
      /\ rx \in Seq(Packets) /\ Len(rx') <= Window
  <2>1. Takes /\ state = "IDLE" /\ next_state = "IDLE"
    BY DEF IdleSimple, IdleOpenFails, IdleRead, IdleWrite, IdleReadDir, Takes
  <2>2. fatfs = 0
    BY <2>1 DEF Held, Idle
  <2>3. rx' = Tail(rx) /\ Head1 = Head(rx) /\ rx \in Seq(Packets) /\ rx # <<>>
    BY <2>1 DEF Takes, TakeRx, Head1
  <2>4. Len(rx') = Len(rx) - 1 /\ Len(rx) \in Nat /\ Len(rx) <= Window
    BY <2>3, Taken DEF TypeOK
  <2> QED BY <2>1, <2>2, <2>3, <2>4, Taken, SizeAssumption
<1>2. PICK p \in Packets : Own(p) /\ Send(p)
  <2>1. {"READ", "WRITE", "READ_DIR"} \subseteq Kinds
    BY DEF Kinds
  <2> QED BY <1>1, <2>1, PacketTypes, OwnPackets
          DEF IdleSimple, IdleOpenFails, IdleRead, IdleWrite, IdleReadDir
<1>3. /\ tx' \in Seq(Packets) /\ Len(tx') <= Window /\ (AllOwn(tx) => AllOwn(tx'))
  BY <1>2, Sent
<1>4. CASE IdleSimple \/ IdleOpenFails
  <2>1. UNCHANGED <<next_state, crs_task, fileVars, windowVars, timerVars, histVars, commands>>
        /\ (UNCHANGED faults \/ Fault)
    BY <1>4 DEF IdleSimple, IdleOpenFails
  <2>2. TypeOK'
    BY <1>1, <1>3, <2>1, FaultCounted DEF TypeOK, fileVars, windowVars, timerVars, Takes
  <2>3. Held' /\ Timers'
    BY <1>1, <1>3, <2>1 DEF Held, Timers, Idle, fileVars, timerVars, histVars, Takes, Between
  <2> QED BY <1>1, <1>3, <2>1, <2>2, <2>3, TakesKeeps
<1>5. CASE IdleRead
  <2>1. /\ file_open' /\ file_pos' = 0 /\ next_packet' = 0 /\ next_ack' = 0
        /\ last_packet' = Never /\ ack_timer' /\ ~timeout_flag'
        /\ \/ /\ fatfs' = 1 /\ crs_task' /\ next_state' = "READ"
              /\ UNCHANGED <<faults, disk_error>>
           \/ Fault /\ disk_error' /\ UNCHANGED <<fatfs, crs_task, next_state>>
        /\ source' = Head1.f /\ UNCHANGED <<commands, target>>
    BY <1>1, <1>5 DEF IdleRead
  <2>2. ack_timer' \in BOOLEAN /\ timeout_flag' \in BOOLEAN /\ file_open' \in BOOLEAN
        /\ crs_task' \in BOOLEAN
    BY <1>5 DEF IdleRead, TypeOK
  <2>3. TypeOK'
    BY <1>1, <1>3, <2>1, <2>2, FaultCounted, NeverType DEF TypeOK, Takes, States
  <2>4. Held' /\ Timers'
    BY <1>1, <1>3, <2>1 DEF Held, Timers, Idle, Takes, Between
  <2> QED BY <1>1, <1>3, <2>3, <2>4, TakesKeeps
<1>6. CASE IdleWrite
  <2>1. /\ file_open' /\ next_packet' = 0 /\ ack_timer' /\ ~timeout_flag'
        /\ fatfs' = 1 /\ next_state' = "WRITE"
        /\ target' = Head1.f
        /\ UNCHANGED <<crs_task, file_pos, source, next_ack, last_packet, faults, commands,
                       disk_error>>
    BY <1>1, <1>6 DEF IdleWrite, histVars
  <2>2. ack_timer' \in BOOLEAN /\ timeout_flag' \in BOOLEAN /\ file_open' \in BOOLEAN
    BY <1>6 DEF IdleWrite
  <2>3. TypeOK'
    BY <1>1, <1>3, <2>1, <2>2 DEF TypeOK, Takes, States
  <2>4. Held' /\ Timers'
    BY <1>1, <1>3, <2>1 DEF Held, Timers, Idle, Takes, Between
  <2> QED BY <1>1, <1>3, <2>3, <2>4, TakesKeeps
<1>7. CASE IdleReadDir
  <2>1. /\ file_open' /\ file_pos' = 0 /\ next_packet' = 0 /\ crs_task'
        /\ fatfs' = 1 /\ next_state' = "DIR" /\ source' = Head1.f
        /\ UNCHANGED <<target, next_ack, last_packet, timerVars, faults, commands, disk_error>>
    BY <1>1, <1>7 DEF IdleReadDir, histVars
  <2>2. crs_task' \in BOOLEAN /\ file_open' \in BOOLEAN
    BY <1>7 DEF IdleReadDir
  <2>3. TypeOK'
    BY <1>1, <1>3, <2>1, <2>2 DEF TypeOK, Takes, States, timerVars
  <2>4. Held' /\ Timers'
    BY <1>1, <1>3, <2>1 DEF Held, Timers, Idle, Takes, Between
  <2> QED BY <1>1, <1>3, <2>3, <2>4, TakesKeeps
<1> QED BY <1>4, <1>5, <1>6, <1>7

LEMMA TransferKeeps ==
  ASSUME IInv, \/ Cancelled \/ ReadAck \/ Dropped \/ WriteData \/ WriteRepeated
               \/ WriteCancel
  PROVE  IInv'
<1> USE DEF IInv, Typed, Receiving, FromRx
<1>1. Takes /\ state # "IDLE"
  BY DEF Cancelled, ReadAck, Dropped, WriteData, WriteRepeated, WriteCancel, Takes
<1>2. rx' = Tail(rx) /\ Head1 = Head(rx) /\ rx \in Seq(Packets) /\ rx # <<>>
  BY <1>1 DEF Takes, TakeRx, Head1
<1>3. Len(rx') <= Window /\ Head1 \in Packets /\ Head1.n \in 0 .. Modulus - 1
  <2>1. Len(rx') = Len(rx) - 1 /\ Len(rx) \in Nat /\ Len(rx) <= Window
    BY <1>2, Taken DEF TypeOK
  <2> QED BY <1>2, <2>1, Taken, SizeAssumption
<1>4. /\ tx' \in Seq(Packets) /\ Len(tx') <= Window
      /\ AllOwn(tx) => AllOwn(tx')
  <2>1. CASE Cancelled
    <3>1. tx' = <<>>
      BY <2>1 DEF Cancelled
    <3> QED BY <3>1, SizeAssumption DEF AllOwn
  <2>2. CASE WriteData \/ WriteRepeated
    <3>1. CASE Send(FileAck(Head1)) /\ Head1.kind = "FILE_DATA"
      BY <1>3, <3>1, PacketTypes, OwnPackets, Sent
    <3>2. CASE UNCHANGED tx
      BY <3>2 DEF TypeOK
    <3> QED BY <2>2, <3>1, <3>2 DEF WriteData, WriteRepeated
  <2>3. CASE ReadAck \/ Dropped \/ WriteCancel
    BY <2>3 DEF ReadAck, Dropped, WriteCancel, TypeOK
  <2> QED BY <2>1, <2>2, <2>3
<1>5. UNCHANGED <<crs_task, file_open, file_pos, source, target, fatfs, last_packet,
                  timeout_flag, commands>>
      /\ (ack_timer' = ack_timer \/ ack_timer' = TRUE)
      /\ next_state' \in {state, "IDLE"}
  BY <1>1 DEF Cancelled, ReadAck, Dropped, WriteData, WriteRepeated, WriteCancel,
              fileVars, windowVars, timerVars, Takes
<1>6. next_packet' \in Nat /\ next_ack' \in Nat
  BY DEF Cancelled, ReadAck, Dropped, WriteData, WriteRepeated, WriteCancel,
         windowVars, TypeOK
<1>7. (disk_error => disk_error') /\ (Fault \/ UNCHANGED faults)
  BY DEF Cancelled, ReadAck, Dropped, WriteData, WriteRepeated, WriteCancel, histVars
<1>8. TypeOK'
  BY <1>1, <1>3, <1>4, <1>5, <1>6, <1>7, FaultCounted DEF TypeOK, Takes, States
<1>9. Held'
  BY <1>1, <1>5, <1>7 DEF Held, Idle, Takes
<1>10. Timers'
  BY <1>1, <1>4, <1>5 DEF Timers, Takes, Between
<1> QED BY <1>1, <1>4, <1>5, <1>8, <1>9, <1>10, TakesKeeps

LEMMA RxDoneKeeps ==
  ASSUME IInv, RxDone
  PROVE  IInv'
<1> USE DEF IInv, Typed, Between
<1>1. /\ update = "rx" /\ update' = "tx" /\ (rx = <<>> \/ next_state # state)
      /\ UNCHANGED <<state, next_state, crs_task, file_open, file_pos, source, target, fatfs, stored,
                     next_packet, next_ack, last_packet, ack_timer, timeout_flag, rx, tx,
                     connected, base, commands, faults, disk_error>>
  BY DEF RxDone, fileVars, windowVars, timerVars, phoneVars, boundVars, histVars
<1>2. Typed'
  BY <1>1 DEF TypeOK
<1>3. Phases' /\ Held' /\ Timers' /\ RxWakes'
  BY <1>1 DEF Phases, Held, Idle, Timers, RxWakes
<1> QED BY <1>2, <1>3

(* Packets are put on the transmit queue, or the disk ends the transfer.     *)
LEMMA TxKeeps ==
  ASSUME IInv, ReadSend \/ ReadSendEnd \/ DiskFails \/ DirSend
  PROVE  IInv'
<1> USE DEF IInv, Typed, Between, FromTx
<1>1. /\ update = "tx" /\ state # "IDLE" /\ next_state = state
      /\ next_state' \in {state, "IDLE"}
      /\ UNCHANGED <<state, update, crs_task, ack_timer, timeout_flag, rx, connected,
                     base, commands, disk_error, stranded, file_open, source, target, fatfs>>
  BY DEF ReadSend, ReadSendEnd, DiskFails, DirSend, SendingData, timerVars, phoneVars,
         histVars, fileVars
<1>2. /\ tx' \in Seq(Packets) /\ Len(tx') <= Window
      /\ AllOwn(tx) => AllOwn(tx')
  <2>1. CASE DiskFails
    BY <2>1 DEF DiskFails, TypeOK
  <2>2. CASE ReadSend \/ ReadSendEnd \/ DirSend
    <3>1. PICK p \in Packets : Own(p) /\ Send(p)
      <4>1. next_packet \in Int /\ file_pos \in Nat /\ FileLength \in Nat /\ source \in Nat
        BY SizeAssumption DEF TypeOK
      <4> QED BY <2>2, <4>1, PacketTypes, OwnPackets DEF ReadSend, ReadSendEnd, DirSend
    <3> QED BY <3>1, Sent
  <2> QED BY <2>1, <2>2
<1>3. /\ file_pos' \in Nat /\ next_packet' \in Nat /\ next_ack' \in Nat
      /\ last_packet' \in Nat /\ (Fault \/ UNCHANGED faults)
  <2>1. CASE ReadSend \/ DirSend
    BY <2>1 DEF ReadSend, DirSend, TypeOK
  <2>2. CASE ReadSendEnd \/ DiskFails
    BY <2>2 DEF ReadSendEnd, DiskFails, TypeOK, fileVars, windowVars
  <2> QED BY <2>1, <2>2
<1>4. Typed'
  BY <1>1, <1>2, <1>3, FaultCounted DEF TypeOK, States
<1>5. Phases' /\ Held'
  BY <1>1 DEF Phases, Held, Idle
<1>6. Timers' /\ RxWakes'
  BY <1>1, <1>2 DEF Timers, RxWakes
<1> QED BY <1>4, <1>5, <1>6

LEMMA FinishKeeps ==
  ASSUME IInv, Finish
  PROVE  IInv'
<1> USE DEF IInv, Typed, Between
<1> DEFINE after == IF state = "READ" /\ next_ack = last_packet THEN "IDLE" ELSE next_state
           ended == state # "IDLE" /\ after = "IDLE"
<1>1. /\ update = "tx" /\ update' = "none"
      /\ state' = after /\ next_state' = after
      /\ file_open' = (file_open /\ ~ended)
      /\ fatfs' = IF ended THEN fatfs - 1 ELSE fatfs
      /\ ack_timer' = (ack_timer /\ ~(ended /\ state # "DIR"))
      /\ stranded' = (ended /\ rx # <<>>)
  BY DEF Finish, Released
<1>2. /\ ~(state = "DIR" /\ next_state = "DIR" /\ TxRoom)
      /\ UNCHANGED <<crs_task, file_pos, source, target, stored, next_packet, next_ack, last_packet,
                     timeout_flag, rx, tx, connected, base, commands, faults, disk_error>>
  BY DEF Finish, windowVars, phoneVars, boundVars
<1>3. /\ ended => after = "IDLE" /\ ~Idle
      /\ ~ended => after = next_state /\ (after = "IDLE" => Idle)
  BY DEF Phases, Idle
<1>4. after \in States
  BY DEF TypeOK, States
<1> HIDE DEF after, ended
<1>5. file_open' \in BOOLEAN /\ ack_timer' \in BOOLEAN
  BY <1>1
<1>6. fatfs' \in 0 .. 1
  BY <1>1, <1>3 DEF Held, TypeOK
<1>7. Typed'
  BY <1>1, <1>2, <1>4, <1>5, <1>6 DEF TypeOK
<1>8. Phases'
  BY <1>1 DEF Phases
<1>9. Held'
  <2>1. CASE ended
    <3>1. state' = "IDLE" /\ next_state' = "IDLE" /\ fatfs' = fatfs - 1 /\ fatfs = 1
      BY <1>1, <1>3, <2>1 DEF Held
    <3>2. ~file_open'
      BY <1>1, <2>1
    <3> QED BY <3>1, <3>2 DEF Held, Idle
  <2>2. CASE ~ended
    BY <1>1, <1>2, <1>3, <2>2 DEF Held, Idle
  <2> QED BY <2>1, <2>2
<1>10. Timers'
  <2>1. CASE ended
    BY <1>1, <1>2, <1>3, <2>1 DEF Timers
  <2>2. CASE ~ended
    <3>1. ack_timer' <=> ack_timer
      BY <1>1, <2>2
    <3>2. next_state \in {"READ", "WRITE"} => ack_timer' \/ (timeout_flag' /\ crs_task')
      BY <1>2, <3>1 DEF Timers
    <3>3. ASSUME ~Others, next_state = "DIR" PROVE crs_task \/ tx # <<>>
      <4>1. CASE state = "DIR"
        <5>1. ~TxRoom
          BY <1>2, <3>3, <4>1
        <5> QED BY <5>1, SizeAssumption DEF TxRoom
      <4>2. CASE state # "DIR"
        BY <3>3, <4>2 DEF Timers
      <4> QED BY <4>1, <4>2
    <3> QED BY <1>1, <1>2, <1>3, <2>2, <3>2, <3>3 DEF Timers
  <2> QED BY <2>1, <2>2
<1>11. RxWakes'
  <2>1. CASE ended
    BY <1>1, <1>2, <2>1 DEF RxWakes
  <2>2. CASE ~ended
    <3>1. ack_timer' <=> ack_timer
      BY <1>1, <2>2
    <3>2. SUFFICES ASSUME rx # <<>> PROVE crs_task \/ ack_timer
      BY <1>2, <3>1 DEF RxWakes
    <3>3. next_state # state
      BY <1>1, <3>2 DEF Phases
    <3>4. next_state \in {"READ", "WRITE", "DIR"}
      BY <1>3, <2>2, <3>3 DEF Phases, Idle, TypeOK, States, ended, after
    <3> QED BY <3>3, <3>4 DEF Timers
  <2> QED BY <2>1, <2>2
<1> QED BY <1>7, <1>8, <1>9, <1>10, <1>11

LEMMA TimeoutKeeps ==
  ASSUME IInv, Timeout
  PROVE  IInv'
<1> USE DEF IInv, Typed, Between
<1>1. /\ ack_timer' = FALSE /\ timeout_flag' = TRUE /\ crs_task' = TRUE
      /\ UNCHANGED <<state, next_state, update, file_open, file_pos, source, target, fatfs, stored,
                     next_packet, next_ack, last_packet, rx, tx, connected, base,
                     commands, faults, disk_error, stranded>>
  BY DEF Timeout, Flagged, fileVars, windowVars, phoneVars, boundVars, histVars
<1>2. Typed'
  BY <1>1 DEF TypeOK
<1>3. Phases' /\ Held' /\ Timers' /\ RxWakes'
  BY <1>1 DEF Phases, Held, Idle, Timers, RxWakes
<1> QED BY <1>2, <1>3

-----------------------------------------------------------------------------
(* The queue, the phone and the link, between two runs *)

(* What these steps leave alone.                                             *)
Elsewhere ==
  UNCHANGED <<state, next_state, update, file_open, file_pos, source, target, fatfs, next_packet,
              next_ack, last_packet, ack_timer, timeout_flag, disk_error, stranded>>

(* They keep the invariant if they wake the task for what they bring and for *)
(* what they take.                                                           *)
LEMMA OutsideKeeps ==
  ASSUME IInv, Between, Elsewhere, crs_task' \in BOOLEAN, connected' \in BOOLEAN,
         crs_task => crs_task',
         rx' \in Seq(Packets), Len(rx') <= Window, tx' \in Seq(Packets), Len(tx') <= Window,
         base' \in Nat, commands' \in 0 .. MaxCommands, faults' \in 0 .. MaxFaults,
         ~Others /\ AllOwn(tx) => AllOwn(tx') /\ (crs_task' \/ tx = <<>> \/ tx' # <<>>),
         HasOwn(tx) => crs_task' \/ HasOwn(tx'),
         rx' # <<>> /\ connected' => crs_task' \/ (rx # <<>> /\ connected)
  PROVE  IInv'
<1> USE DEF IInv, Typed, Between, Elsewhere
<1>1. Typed'
  BY DEF TypeOK
<1>2. Phases' /\ Held'
  BY DEF Phases, Held, Idle
<1>3. Timers'
  BY DEF Timers
<1>4. RxWakes'
  BY DEF RxWakes
<1> QED BY <1>1, <1>2, <1>3, <1>4

LEMMA PhoneWrites ==
  ASSUME Typed, NEW p \in Packets
  PROVE  /\ Written(p) \in Seq(Packets) /\ Len(Written(p)) <= Window
         /\ Written(p) = rx \/ Len(rx) < Window
         /\ ~(Len(rx) < Window) => rx # <<>>
<1>1. rx \in Seq(Packets) /\ Len(rx) <= Window /\ Len(rx) \in Nat /\ Window \in Nat \ {0}
  BY SizeAssumption DEF Typed, TypeOK
<1>2. ~(Len(rx) < Window) => rx # <<>>
  BY <1>1
<1>3. CASE Len(rx) < Window
  BY <1>1, <1>3, Queued DEF Written
<1>4. CASE ~(Len(rx) < Window)
  BY <1>1, <1>2, <1>4 DEF Written
<1> QED BY <1>2, <1>3, <1>4

(* A packet leaves the transmit queue.                                       *)
LEMMA LeavingKeeps ==
  ASSUME IInv, \/ PacketLost \/ PhoneAnswered \/ PhoneGetsData \/ PhoneGetsEntry
               \/ PhoneGetsAck
  PROVE  IInv'
<1> USE DEF IInv, Typed
<1>1. /\ Between /\ tx # <<>> /\ tx' = Tail(tx) /\ Elsewhere /\ UNCHANGED connected
      /\ tx \in Seq(Packets) /\ rx \in Seq(Packets)
  BY DEF PacketLost, PhoneAnswered, PhoneGetsData, PhoneGetsEntry, PhoneGetsAck, Leaves,
         Received, Listens, Acknowledges, FromPhone, Elsewhere, fileVars, windowVars,
         timerVars
<1> DEFINE p == Head(tx)
<1>2. /\ tx' \in Seq(Packets) /\ Len(tx') <= Window
      /\ p \in Packets /\ p.n \in 0 .. Modulus - 1
      /\ AllOwn(tx) => AllOwn(tx') /\ Own(p)
      /\ HasOwn(tx) => HasOwn(tx') \/ Own(p)
  <2>1. Len(tx) \in Nat /\ Len(tx) <= Window /\ Len(tx') = Len(tx) - 1
    BY <1>1, Taken DEF TypeOK
  <2> QED BY <1>1, <2>1, Taken, SizeAssumption
<1>3. /\ crs_task' = TRUE \/ (crs_task' = crs_task /\ ~Own(p))
      /\ \/ rx' = rx
         \/ rx' = Written(FileAck(p)) /\ p.kind = "FILE_DATA" /\ crs_task' = TRUE
  BY DEF PacketLost, PhoneAnswered, PhoneGetsData, PhoneGetsEntry, PhoneGetsAck, Leaves,
         Received, Listens, Acknowledges, TxCallback
<1>4. base' \in Nat
  <2>1. CASE PhoneGetsAck
    <3>1. base' = base \/ base' = base + ((p.n - base) % Modulus) + 1
      BY <2>1 DEF PhoneGetsAck
    <3>2. (p.n - base) % Modulus \in 0 .. Modulus - 1
      <4>1. p.n - base \in Int
        BY <1>2
      <4> QED BY <4>1, ModRange
    <3> QED BY <3>1, <3>2
  <2>2. CASE ~PhoneGetsAck
    BY <2>2 DEF PacketLost, PhoneAnswered, PhoneGetsData, PhoneGetsEntry, Listens,
                Acknowledges, phoneVars
  <2> QED BY <2>1, <2>2
<1>5. UNCHANGED commands /\ (Fault \/ UNCHANGED faults)
  <2>1. CASE PacketLost
    BY <2>1 DEF PacketLost
  <2>2. CASE PhoneAnswered \/ PhoneGetsData \/ PhoneGetsEntry \/ PhoneGetsAck
    <3>1. UNCHANGED boundVars
      BY <2>2 DEF PhoneAnswered, PhoneGetsData, PhoneGetsEntry, PhoneGetsAck, Listens,
                  Acknowledges
    <3> QED BY <3>1 DEF boundVars
  <2> QED BY <2>1, <2>2
<1>6. crs_task' \in BOOLEAN /\ (crs_task => crs_task') /\ (Own(p) => crs_task')
  <2>1. CASE crs_task' = TRUE
    BY <2>1
  <2>2. CASE crs_task' = crs_task /\ ~Own(p)
    BY <2>2 DEF TypeOK
  <2> QED BY <1>3, <2>1, <2>2
<1>7. rx' \in Seq(Packets) /\ Len(rx') <= Window
  BY <1>1, <1>2, <1>3, PacketTypes, PhoneWrites DEF TypeOK
<1>8. faults' \in 0 .. MaxFaults /\ commands' \in 0 .. MaxCommands
      /\ connected' \in BOOLEAN
  BY <1>1, <1>5, FaultCounted DEF TypeOK
<1>9. rx' # <<>> => crs_task' \/ rx # <<>>
  BY <1>3
<1> HIDE DEF p
<1> QED BY <1>1, <1>2, <1>4, <1>6, <1>7, <1>8, <1>9, OutsideKeeps

(* The phone writes.                                                         *)
LEMMA WritingKeeps ==
  ASSUME IInv, PhoneCommands \/ PhoneCancels \/ PhoneSendsData
  PROVE  IInv'
<1> USE DEF IInv, Typed
<1>1. PICK p \in Packets : Writes(p)
  <2>1. CASE PhoneCommands \/ PhoneCancels
    BY <2>1, PacketTypes, ClientAssumption DEF PhoneCommands, PhoneCancels, TypeOK
  <2>2. CASE PhoneSendsData
    <3>1. base \in Nat /\ Window \in Nat
      BY SizeAssumption
    <3>2. PICK k \in base .. (base + Window - 1) : Writes(FileData(k, k, commands))
      BY <2>2 DEF PhoneSendsData
    <3>3. k \in Nat
      BY <3>1, <3>2
    <3> QED BY <3>2, <3>3, PacketTypes, ClientAssumption DEF TypeOK
  <2> QED BY <2>1, <2>2
<1>2. /\ Between /\ connected /\ rx' = Written(p) /\ Elsewhere
      /\ crs_task' = (crs_task \/ Len(rx) < Window)
      /\ UNCHANGED <<connected, tx>>
  BY <1>1 DEF Writes, Wakes, Elsewhere, fileVars, windowVars, timerVars
<1>3. base' \in Nat /\ UNCHANGED faults /\ commands' \in 0 .. MaxCommands
  BY ClientAssumption DEF PhoneCommands, PhoneCancels, PhoneSendsData, phoneVars,
     boundVars, TypeOK
<1>4. crs_task' \in BOOLEAN /\ (crs_task => crs_task')
      /\ (Len(rx) < Window => crs_task')
  BY <1>2 DEF TypeOK
<1>5. /\ rx' \in Seq(Packets) /\ Len(rx') <= Window
      /\ rx' = rx \/ Len(rx) < Window
  BY <1>2, PhoneWrites
<1>6. rx' # <<>> /\ connected' => crs_task' \/ (rx # <<>> /\ connected)
  BY <1>2, <1>4, <1>5
<1>7. /\ tx' \in Seq(Packets) /\ Len(tx') <= Window /\ faults' \in 0 .. MaxFaults
      /\ connected' \in BOOLEAN
  BY <1>2, <1>3 DEF TypeOK
<1> QED BY <1>2, <1>3, <1>4, <1>5, <1>6, <1>7, OutsideKeeps

LEMMA LinkKeeps ==
  ASSUME IInv, WriteLost \/ Disconnect \/ Connect \/ OtherSends
  PROVE  IInv'
<1> USE DEF IInv, Typed
<1>1. Between /\ Elsewhere /\ (Fault \/ UNCHANGED faults)
  <2> USE DEF Elsewhere, fileVars, windowVars, timerVars, histVars, boundVars, taskVars
  <2>1. CASE WriteLost
    BY <2>1 DEF WriteLost, FromPhone
  <2>2. CASE Disconnect
    BY <2>2 DEF Disconnect
  <2>3. CASE Connect
    BY <2>3 DEF Connect
  <2>4. CASE OtherSends
    BY <2>4 DEF OtherSends
  <2> QED BY <2>1, <2>2, <2>3, <2>4
<1>2. /\ crs_task' \in BOOLEAN /\ connected' \in BOOLEAN /\ (crs_task => crs_task')
      /\ base' \in Nat /\ commands' \in 0 .. MaxCommands
  <2> USE DEF TypeOK, phoneVars, boundVars, taskVars
  <2>1. CASE WriteLost
    BY <2>1 DEF WriteLost, FromPhone
  <2>2. CASE Disconnect
    <3>1. crs_task' = TRUE /\ connected' = FALSE /\ base' = 0
          /\ commands < MaxCommands /\ commands' = commands + 1
      BY <2>2 DEF Disconnect
    <3>2. crs_task' \in BOOLEAN /\ connected' \in BOOLEAN /\ (crs_task => crs_task')
      BY <3>1
    <3> QED BY <3>1, <3>2, ClientAssumption
  <2>3. CASE Connect
    BY <2>3 DEF Connect
  <2>4. CASE OtherSends
    BY <2>4 DEF OtherSends
  <2> QED BY <2>1, <2>2, <2>3, <2>4
<1>3. faults' \in 0 .. MaxFaults
  BY <1>1, FaultCounted
<1>4. /\ rx' \in Seq(Packets) /\ Len(rx') <= Window
      /\ rx' # <<>> /\ connected' => crs_task' \/ (rx # <<>> /\ connected)
  <2>1. CASE WriteLost
    <3>1. /\ rx # <<>> /\ rx' = SubSeq(rx, 1, Len(rx) - 1) /\ UNCHANGED connected
          /\ rx \in Seq(Packets) /\ Len(rx) <= Window
      BY <2>1 DEF WriteLost, TypeOK, FromPhone
    <3>2. rx' \in Seq(Packets) /\ Len(rx') = Len(rx) - 1 /\ Len(rx) \in Nat \ {0}
      BY <3>1, LastDropped
    <3> QED BY <3>1, <3>2, SizeAssumption
  <2>2. CASE Disconnect
    BY <2>2 DEF Disconnect, TypeOK
  <2>3. CASE Connect
    BY <2>3, SizeAssumption DEF Connect
  <2>4. CASE OtherSends
    BY <2>4 DEF OtherSends, TypeOK
  <2> QED BY <2>1, <2>2, <2>3, <2>4
<1>5. /\ tx' \in Seq(Packets) /\ Len(tx') <= Window
      /\ HasOwn(tx) => HasOwn(tx')
      /\ ~Others => tx' = tx
  <2>1. CASE OtherSends
    BY <2>1, PacketTypes, Sent DEF OtherSends
  <2>2. CASE ~OtherSends
    BY <2>2 DEF WriteLost, Disconnect, Connect, TypeOK
  <2> QED BY <2>1, <2>2
<1> QED BY <1>1, <1>2, <1>3, <1>4, <1>5, OutsideKeeps

-----------------------------------------------------------------------------
LEMMA InvInit == Init => IInv
<1> SUFFICES ASSUME Init PROVE IInv
  OBVIOUS
<1>1. rx = <<>> /\ tx = <<>> /\ Len(rx) = 0 /\ Len(tx) = 0
      /\ rx \in Seq(Packets) /\ tx \in Seq(Packets)
  BY DEF Init
<1>2. Typed
  <2>1. /\ crs_task \in BOOLEAN /\ file_open \in BOOLEAN /\ ack_timer \in BOOLEAN
        /\ timeout_flag \in BOOLEAN /\ connected \in BOOLEAN
    BY DEF Init
  <2>2. /\ file_pos = 0 /\ fatfs = 0 /\ next_packet = 0 /\ next_ack = 0 /\ last_packet = 0
        /\ base = 0 /\ commands = 0 /\ faults = 0 /\ source = 0 /\ target = 0 /\ update = "none"
        /\ state = "IDLE" /\ next_state = "IDLE" /\ source = 0 /\ target = 0
    BY DEF Init
  <2> QED BY <1>1, <2>1, <2>2, SizeAssumption, ClientAssumption DEF Typed, TypeOK, States
<1>3. Phases /\ Held /\ Timers /\ RxWakes
  BY <1>1 DEF Init, Phases, Held, Idle, Timers, RxWakes, AllOwn
<1> QED BY <1>2, <1>3 DEF IInv

LEMMA InvStutter ==
  ASSUME IInv, UNCHANGED vars
  PROVE  IInv'
<1> USE DEF vars, taskVars, fileVars, windowVars, timerVars, phoneVars, boundVars, histVars
<1>1. Typed'
  BY DEF IInv, Typed, TypeOK
<1>2. Phases' /\ Held' /\ Timers' /\ RxWakes'
  BY DEF IInv, Phases, Held, Idle, Timers, RxWakes, Between
<1> QED BY <1>1, <1>2 DEF IInv

LEMMA InvNext == IInv /\ [Next]_vars => IInv'
BY BeginKeeps, IdleKeeps, TransferKeeps, RxDoneKeeps, TxKeeps, FinishKeeps, TimeoutKeeps,
   LeavingKeeps, WritingKeeps, LinkKeeps, InvStutter
DEF Next, Update, Phone, Link

LEMMA AlwaysInv == Spec => []IInv
BY InvInit, InvNext, PTL DEF Spec

(* A transfer holds the file system and its file from the command to its     *)
(* end, and always has a timer, a bit or a queued packet to go on: after an  *)
(* error, a cancellation or a disconnection too. The cases the properties    *)
(* except are a listing while other services fill the queue and the packets  *)
(* behind the one that ended a transfer.                                     *)
THEOREM TransferAlwaysSafe == Spec => []TransferSafe
BY AlwaysInv, InvImpliesSafe, PTL

-----------------------------------------------------------------------------
(***************************************************************************)
(* The data: uploads and downloads arrive as the file, from its beginning, *)
(* each chunk once and in order.                                           *)
(*                                                                         *)
(* This is about a phone that lets both queues run empty before its next   *)
(* command (~hurried): then every packet in a queue belongs to the         *)
(* transfer that goes on (Turn), and the sequence numbers in flight lie in *)
(* a range of less than Modulus numbers, so that a residue is one number   *)
(* (SameResidue).  UploadInv and DownloadInv say which range.              *)
(***************************************************************************)
Has(q, K)      == \E i \in DOMAIN q : q[i].kind \in K
Only(q, K)     == \A i \in DOMAIN q : q[i].kind \in K
Answered(q, k) == \E i \in DOMAIN q : q[i] = Ack(k)
Least(a, b)    == IF a <= b THEN a ELSE b

(* A queue whose packets of the kinds K are among those of q, in its order,  *)
(* whatever was taken from q at its end or its beginning.                    *)
Keeps(t, q, K) ==
  \E d \in {0, 1} : \A i \in DOMAIN t :
    t[i].kind \in K => i + d \in DOMAIN q /\ t[i] = q[i + d]

(* A command stands alone: no packet of an earlier transfer is in a queue    *)
(* with it, and no answer while it waits.                                    *)
Alone(r, t) ==
  \A i \in DOMAIN r : r[i].kind \in Commands =>
    /\ i = 1 /\ ~HasOwn(t)
    /\ \A j \in DOMAIN r : j = 1 \/ r[j].kind = "CANCEL"

Turn ==
  /\ client \in Commands \union {"none", "reading", "writing", "listing"}
  /\ Only(rx, Commands \union {"CANCEL", "FILE_DATA", "FILE_ACK"})
  /\ Alone(rx, tx)
  /\ client \in Commands =>
       /\ rx = <<>> \/ \E f \in Nat : rx = <<Command(client, f)>>
       /\ got = <<>> /\ ~Has(tx, {"FILE_ACK"})
  /\ client = "writing" => Only(rx, {"FILE_DATA"})
  /\ client = "reading" => Only(rx, {"FILE_ACK"})
  /\ client # "writing" => base = 0

Chunks == [f : Nat, c : Nat]

(* What is left of an upload, at one end or on its way.                      *)
Uploading ==
  \/ client = "writing" \/ Has(rx, {"FILE_DATA"}) \/ Has(tx, {"FILE_ACK"})
  \/ client = "WRITE" /\ Answered(tx, "WRITE")

Order == stored \in Seq(Chunks) /\ \A i \in DOMAIN stored : stored[i].c = i - 1

Upload ==
  /\ Uploading => next_state \in {"IDLE", "WRITE"} /\ ~Has(rx, Commands)
  /\ Uploading \/ next_state = "WRITE" =>
       Len(stored) = Least(next_packet, FileLength) /\ next_packet <= FileLength + 1
  /\ next_state = "WRITE" => next_packet <= FileLength
  /\ client = "WRITE" /\ Answered(tx, "WRITE") => next_packet = 0
  /\ client = "writing" => base <= next_packet /\ next_packet <= base + Window

(* An acknowledgement on its way is for a chunk that was stored, and the     *)
(* next ones are for no earlier chunk.                                       *)
AckFits(q, i) ==
  /\ q[i].n = q[i].c % Modulus /\ q[i].c < next_packet /\ base <= q[i].c + 1
  /\ \A j \in DOMAIN q : i < j /\ q[j].kind = "FILE_ACK" => q[i].c <= q[j].c
AcksFit == \A i \in DOMAIN tx : tx[i].kind = "FILE_ACK" => AckFits(tx, i)

(* A chunk on its way is within a window of the one that is expected.        *)
DataFits(q, i) ==
  /\ q[i].n = q[i].c % Modulus /\ q[i].c <= FileLength
  /\ next_packet <= q[i].c + Window /\ q[i].c < next_packet + Window
  /\ client = "writing" => q[i].c < base + Window
  /\ \A j \in DOMAIN q : i < j /\ q[j].kind = "FILE_DATA" => q[i].c < q[j].c + Window
DataFit == \A i \in DOMAIN rx : rx[i].kind = "FILE_DATA" => DataFits(rx, i)

UploadInv == Order /\ Upload /\ AcksFit /\ DataFit

-----------------------------------------------------------------------------
(* Queues *)
LEMMA SameKept ==
  ASSUME NEW q \in Seq(Packets), NEW K
  PROVE  Keeps(q, q, K) /\ Keeps(<<>>, q, K)
<1>1. \A i \in DOMAIN q : i \in Int /\ i + 0 = i
  OBVIOUS
<1>2. DOMAIN <<>> = {}
  OBVIOUS
<1>3. Keeps(q, q, K)
  BY <1>1 DEF Keeps
<1> QED BY <1>2, <1>3 DEF Keeps

LEMMA TailKept ==
  ASSUME NEW q \in Seq(Packets), q # <<>>, NEW K
  PROVE  /\ Keeps(Tail(q), q, K)
         /\ \A i \in DOMAIN Tail(q) : i + 1 \in DOMAIN q /\ Tail(q)[i] = q[i + 1]
         /\ 1 \in DOMAIN q /\ Head(q) = q[1]
<1>1. /\ Len(q) \in Nat \ {0} /\ Head(q) = q[1]
      /\ DOMAIN q = 1 .. Len(q) /\ DOMAIN Tail(q) = 1 .. Len(q) - 1
  BY HeadTailProperties, EmptySeq
<1>2. \A i \in DOMAIN Tail(q) : i + 1 \in DOMAIN q /\ Tail(q)[i] = q[i + 1]
  BY <1>1, HeadTailProperties
<1>3. Keeps(Tail(q), q, K)
  BY <1>2 DEF Keeps
<1> QED BY <1>1, <1>2, <1>3

LEMMA PrefixKept ==
  ASSUME NEW q \in Seq(Packets), q # <<>>, NEW K
  PROVE  Keeps(SubSeq(q, 1, Len(q) - 1), q, K)
<1> DEFINE t == SubSeq(q, 1, Len(q) - 1)
<1>1. /\ Len(q) \in Nat \ {0} /\ t \in Seq(Packets) /\ Len(t) = Len(q) - 1
      /\ \A i \in 1 .. Len(q) - 1 : t[i] = q[i]
  BY LastDropped
<1>2. DOMAIN q = 1 .. Len(q) /\ DOMAIN t = 1 .. Len(q) - 1
  BY <1>1
<1> HIDE DEF t
<1>3. \A i \in DOMAIN t : i + 0 \in DOMAIN q /\ t[i] = q[i + 0]
  BY <1>1, <1>2
<1>4. Keeps(t, q, K)
  BY <1>3 DEF Keeps
<1> QED BY <1>4 DEF t

(* One packet more at the end of a queue.                                    *)
LEMMA OneMore ==
  ASSUME NEW q \in Seq(Packets), NEW p \in Packets
  PROVE  LET t == Append(q, p)
         IN  /\ \A i \in DOMAIN t : \/ i \in DOMAIN q /\ t[i] = q[i]
                                    \/ i = Len(q) + 1 /\ t[i] = p
             /\ Len(q) \in Nat /\ \A i \in DOMAIN q : i \in Int /\ i <= Len(q)
             /\ \A K : p.kind \notin K => Keeps(t, q, K)
<1> DEFINE t == Append(q, p)
<1>1. /\ t \in Seq(Packets) /\ Len(t) = Len(q) + 1 /\ Len(q) \in Nat
      /\ DOMAIN q = 1 .. Len(q) /\ DOMAIN t = 1 .. Len(q) + 1
      /\ \A i \in 1 .. Len(q) : t[i] = q[i]
      /\ t[Len(q) + 1] = p
  BY AppendProperties
<1> HIDE DEF t
<1>2. \A i \in DOMAIN t : \/ i \in DOMAIN q /\ t[i] = q[i]
                          \/ i = Len(q) + 1 /\ t[i] = p
  BY <1>1
<1>3. ASSUME NEW K, p.kind \notin K PROVE Keeps(t, q, K)
  <2>1. \A i \in DOMAIN t : t[i].kind \in K => i + 0 \in DOMAIN q /\ t[i] = q[i + 0]
    BY <1>1, <1>2, <1>3
  <2> QED BY <2>1 DEF Keeps
<1>4. \A i \in DOMAIN q : i \in Int /\ i <= Len(q)
  BY <1>1
<1> QED BY <1>1, <1>2, <1>3, <1>4 DEF t

LEMMA KeptHas ==
  ASSUME NEW q, NEW t, NEW K, NEW L, Keeps(t, q, K), L \subseteq K, Has(t, L)
  PROVE  Has(q, L)
BY DEF Keeps, Has

LEMMA KeptLess ==
  ASSUME NEW q, NEW t, NEW K, NEW L, Keeps(t, q, K), L \subseteq K
  PROVE  Keeps(t, q, L)
BY DEF Keeps

LEMMA KeptAnswered ==
  ASSUME NEW q, NEW t, NEW k, Keeps(t, q, {"ACK"}), Answered(t, k)
  PROVE  Answered(q, k)
BY DEF Keeps, Answered, Ack, Packet

(* Residues tell numbers apart that are less than the modulus apart.         *)
LEMMA Division ==
  ASSUME NEW n \in Int, NEW w \in Int, w > 0
  PROVE  n = w * (n \div w) + (n % w) /\ n \div w \in Int
BY SMTT(30)

LEMMA Remainder ==
  ASSUME NEW k \in Int, NEW x \in Int, NEW r \in 0 .. Modulus - 1, k = Modulus * x + r,
         k < Modulus, -k < Modulus
  PROVE  r = IF k >= 0 THEN k ELSE k + Modulus
<1>1. Modulus \in Int /\ Modulus > 0
  BY SizeAssumption
<1>2. CASE x >= 1
  <2>1. Modulus * x >= Modulus
    BY <1>1, <1>2
  <2> QED BY <2>1, <1>1
<1>3. CASE x <= -2
  <2>1. Modulus * x <= -2 * Modulus
    BY <1>1, <1>3
  <2> QED BY <2>1, <1>1
<1>4. CASE x = 0
  BY <1>1, <1>4
<1>5. CASE x = -1
  <2>1. Modulus * x = -Modulus
    BY <1>1, <1>5
  <2> QED BY <2>1, <1>1
<1> QED BY <1>2, <1>3, <1>4, <1>5

LEMMA SameResidue ==
  ASSUME NEW a \in Int, NEW b \in Int, a % Modulus = b % Modulus,
         a - b < Modulus, b - a < Modulus
  PROVE  a = b
<1> DEFINE x == a \div Modulus
           y == b \div Modulus
           r == a % Modulus
<1>1. Modulus \in Int /\ Modulus > 0
  BY SizeAssumption
<1>2. a = Modulus * x + r /\ x \in Int
  BY <1>1, Division
<1>3. b = Modulus * y + r /\ y \in Int
  BY <1>1, Division
<1>4. r \in Int
  BY <1>1, ModRange
<1> HIDE DEF x, y, r
<1>5. Modulus * x \in Int /\ Modulus * y \in Int /\ Modulus * (x - y) = Modulus * x - Modulus * y
  BY <1>1, <1>2, <1>3
<1>6. a - b = Modulus * (x - y) + 0 /\ x - y \in Int /\ 0 \in 0 .. Modulus - 1
  BY <1>1, <1>2, <1>3, <1>4, <1>5
<1>7. 0 = IF a - b >= 0 THEN a - b ELSE a - b + Modulus
  BY <1>6, Remainder
<1> QED BY <1>1, <1>7

LEMMA Shifted ==
  ASSUME NEW k \in Int, NEW z \in Int, NEW d \in Int, k = Modulus * z + d,
         k < Modulus, -k < Modulus
  PROVE  d % Modulus = IF k >= 0 THEN k ELSE k + Modulus
<1> DEFINE u == d \div Modulus
           r == d % Modulus
<1>1. Modulus \in Int /\ Modulus > 0
  BY SizeAssumption
<1>2. d = Modulus * u + r /\ u \in Int
  BY <1>1, Division
<1>3. r \in 0 .. Modulus - 1
  BY ModRange
<1> HIDE DEF u, r
<1>4. Modulus * z \in Int /\ Modulus * u \in Int /\ Modulus * (z + u) = Modulus * z + Modulus * u
  BY <1>1, <1>2
<1>5. k = Modulus * (z + u) + r /\ z + u \in Int
  BY <1>1, <1>2, <1>3, <1>4
<1>6. r = IF k >= 0 THEN k ELSE k + Modulus
  BY <1>3, <1>5, Remainder
<1> QED BY <1>6 DEF r

(* The distance of two numbers, one of which is known by its residue.        *)
LEMMA Distance ==
  ASSUME NEW a \in Nat, NEW b \in Nat, a - b < Modulus, b - a < Modulus
  PROVE  /\ ((a % Modulus) - b) % Modulus = IF a >= b THEN a - b ELSE a - b + Modulus
         /\ (a - (b % Modulus)) % Modulus = IF a >= b THEN a - b ELSE a - b + Modulus
<1> DEFINE x == a \div Modulus
           y == b \div Modulus
           r == a % Modulus
           s == b % Modulus
<1>1. Modulus \in Int /\ Modulus > 0
  BY SizeAssumption
<1>2. a = Modulus * x + r /\ x \in Int /\ b = Modulus * y + s /\ y \in Int
  BY <1>1, Division
<1>3. r \in Int /\ s \in Int
  BY <1>1, ModRange
<1> HIDE DEF x, y, r, s
<1>4. Modulus * x \in Int /\ Modulus * y \in Int /\ Modulus * (-y) = -(Modulus * y)
  BY <1>1, <1>2
<1>5. a - b = Modulus * x + (r - b) /\ a - b = Modulus * (-y) + (a - s)
  BY <1>2, <1>3, <1>4
<1>6. (r - b) % Modulus = IF a - b >= 0 THEN a - b ELSE a - b + Modulus
  <2>1. a - b \in Int /\ r - b \in Int /\ a - b < Modulus /\ -(a - b) < Modulus
    BY <1>1, <1>3
  <2> QED BY <2>1, <1>2, <1>5, Shifted
<1>7. (a - s) % Modulus = IF a - b >= 0 THEN a - b ELSE a - b + Modulus
  <2>1. a - b \in Int /\ a - s \in Int /\ -y \in Int /\ a - b < Modulus /\ -(a - b) < Modulus
    BY <1>1, <1>2, <1>3
  <2> QED BY <2>1, <1>5, Shifted
<1>8. a - b >= 0 <=> a >= b
  OBVIOUS
<1> QED BY <1>6, <1>7, <1>8 DEF r, s

-----------------------------------------------------------------------------
(* A command stands alone *)
LEMMA NoCommand ==
  ASSUME NEW r, NEW t, ~Has(r, Commands)
  PROVE  Alone(r, t)
BY DEF Alone, Has

LEMMA AloneTaken ==
  ASSUME NEW r \in Seq(Packets), NEW t, Alone(r, t), r # <<>>
  PROVE  /\ ~Has(Tail(r), Commands)
         /\ Has(r, Commands) => ~HasOwn(t) /\ ~Has(r, {"FILE_DATA", "FILE_ACK"})
         /\ Head(r).kind \in Commands => Has(r, Commands)
<1>1. /\ \A i \in DOMAIN Tail(r) : i + 1 \in DOMAIN r /\ Tail(r)[i] = r[i + 1]
      /\ 1 \in DOMAIN r /\ Head(r) = r[1]
  BY TailKept
<1>2. \A i \in DOMAIN Tail(r) : i \in Nat \ {0}
  OBVIOUS
<1>3. ~Has(Tail(r), Commands)
  BY <1>1, <1>2 DEF Has, Alone
<1>4. Has(r, Commands) => ~HasOwn(t) /\ ~Has(r, {"FILE_DATA", "FILE_ACK"})
  BY <1>1, ClientAssumption DEF Has, Alone
<1> QED BY <1>1, <1>3, <1>4 DEF Has

LEMMA OwnKept ==
  ASSUME NEW q \in Seq(Packets), NEW t, Keeps(t, q, Kinds \ {"FOREIGN"}), ~HasOwn(q),
         t \in Seq(Packets)
  PROVE  ~HasOwn(t)
<1>1. \A i \in DOMAIN t : t[i] \in Packets
  BY ElementOfSeq
<1>2. \A i \in DOMAIN t : Own(t[i]) => t[i].kind \in Kinds \ {"FOREIGN"}
  BY <1>1 DEF Packets, Kinds, Own
<1> QED BY <1>2 DEF HasOwn, Keeps

LEMMA SentKept ==
  ASSUME Typed, NEW p \in Packets, Send(p), NEW K, p.kind \notin K
  PROVE  Keeps(tx', tx, K)
BY SameKept, OneMore DEF Send, Typed

LEMMA TurnTakes ==
  ASSUME IInv, Turn, Takes,
         Has(tx', {"FILE_ACK"}) => Has(tx, {"FILE_ACK"}) \/ Head1.kind = "FILE_DATA"
  PROVE  Turn' /\ ~Has(rx', Commands)
<1>1. rx \in Seq(Packets) /\ rx # <<>> /\ rx' = Tail(rx) /\ UNCHANGED <<client, got, base>>
  BY DEF IInv, Typed, Takes, TakeRx, phoneVars
<1>2. ~Has(rx', Commands)
  BY <1>1, AloneTaken DEF Turn
<1>3. Alone(rx', tx')
  BY <1>2, NoCommand
<1>4. ASSUME client \in Commands
      PROVE  rx' = <<>> /\ got' = <<>> /\ ~Has(tx', {"FILE_ACK"})
  <2>1. PICK f \in Nat : rx = <<Command(client, f)>>
    BY <1>1, <1>4 DEF Turn
  <2>2. Head1 = Command(client, f) /\ rx' = <<>>
    BY <1>1, <2>1 DEF Head1
  <2>3. Head1.kind # "FILE_DATA"
    BY <1>4, <2>2, ClientAssumption DEF Command, Packet
  <2> QED BY <1>1, <1>4, <2>2, <2>3 DEF Turn
<1>5. \A i \in DOMAIN rx' : i + 1 \in DOMAIN rx /\ rx'[i] = rx[i + 1]
  BY <1>1, TailKept
<1>6. \A K : Only(rx, K) => Only(rx', K)
  BY <1>5 DEF Only
<1> QED BY <1>1, <1>2, <1>3, <1>4, <1>6 DEF Turn

(* A step of the task that takes nothing from the receive ring, or of the    *)
(* timer.                                                                    *)
LEMMA TurnRuns ==
  ASSUME IInv, Turn, UNCHANGED <<rx, client, got, base>>,
         \/ UNCHANGED tx
         \/ rx = <<>> /\ Keeps(tx', tx, {"FILE_ACK"})
  PROVE  Turn'
<1>1. CASE UNCHANGED tx
  BY <1>1 DEF Turn, Alone
<1>2. CASE rx = <<>> /\ Keeps(tx', tx, {"FILE_ACK"})
  <2>1. Alone(rx', tx')
    BY <1>2 DEF Alone
  <2>2. Has(tx', {"FILE_ACK"}) => Has(tx, {"FILE_ACK"})
    BY <1>2, KeptHas
  <2> QED BY <1>2, <2>1, <2>2 DEF Turn
<1> QED BY <1>1, <1>2


(* A packet leaves the transmit queue; what the phone does with it does not  *)
(* reach the receive ring, but for an acknowledgement of data.               *)
LEMMA TurnLeaves ==
  ASSUME IInv, Turn, \/ PacketLost \/ PhoneAnswered \/ PhoneGetsData \/ PhoneGetsEntry
                     \/ PhoneGetsAck
  PROVE  /\ Turn'
         /\ rx # <<>> /\ client \in Commands => ~HasOwn(tx)
         /\ tx # <<>> /\ tx' = Tail(tx) /\ tx \in Seq(Packets) /\ rx \in Seq(Packets)
<1>1. /\ tx # <<>> /\ tx' = Tail(tx) /\ tx \in Seq(Packets) /\ rx \in Seq(Packets)
  BY DEF PacketLost, PhoneAnswered, PhoneGetsData, PhoneGetsEntry, PhoneGetsAck, Leaves,
         Received, IInv, Typed
<1> DEFINE p == Head(tx)
<1>2. p \in Packets /\ p = tx[1] /\ 1 \in DOMAIN tx /\ (Own(p) => HasOwn(tx))
      /\ tx' \in Seq(Packets)
  BY <1>1, Taken, TailKept DEF HasOwn
<1>3. ~HasOwn(tx) => ~HasOwn(tx')
  BY <1>1, <1>2, TailKept, OwnKept
<1>4. ~Has(tx, {"FILE_ACK"}) => ~Has(tx', {"FILE_ACK"})
  BY <1>1, TailKept, KeptHas
<1>5. Has(rx, Commands) => ~HasOwn(tx)
  BY DEF Turn, Alone, Has
<1>6. ASSUME rx # <<>>, client \in Commands PROVE ~HasOwn(tx)
  <2>1. PICK f \in Nat : rx = <<Command(client, f)>>
    BY <1>6 DEF Turn
  <2>2. 1 \in DOMAIN rx /\ rx[1].kind = client
    BY <2>1 DEF Command, Packet
  <2> QED BY <1>5, <1>6, <2>2 DEF Has
<1>7. ASSUME UNCHANGED rx PROVE Alone(rx', tx')
  BY <1>3, <1>7 DEF Turn, Alone
<1> HIDE DEF p
<1>8. CASE PacketLost
  <2>1. UNCHANGED <<rx, client, got, base>>
    BY <1>8 DEF PacketLost, phoneVars
  <2> QED BY <1>1, <1>4, <1>6, <1>7, <2>1 DEF Turn
<1>9. CASE PhoneAnswered
  <2>1. Own(p) /\ UNCHANGED <<rx, base>>
    BY <1>9 DEF PhoneAnswered, Received, Listens, p
  <2>2. \/ UNCHANGED <<client, got>>
        \/ /\ client = p.c /\ got' = <<>>
           /\ \/ p.kind = "NAK" /\ client' = "none"
              \/ p.kind = "ACK" /\ p.c = "READ" /\ client' = "reading"
              \/ p.kind = "ACK" /\ p.c = "WRITE" /\ client' = "writing"
              \/ p.kind = "ACK" /\ p.c = "READ_DIR" /\ client' = "listing"
              \/ p.kind = "ACK" /\ p.c \notin {"READ", "WRITE", "READ_DIR"} /\ client' = "none"
    BY <1>9 DEF PhoneAnswered, Listens, p
  <2>3. CASE UNCHANGED <<client, got>>
    BY <1>1, <1>4, <1>6, <1>7, <2>1, <2>3 DEF Turn
  <2>4. CASE ~UNCHANGED <<client, got>>
    <3>0. client = p.c /\ p.kind \in {"ACK", "NAK"} /\ p.c \in Kinds
      BY <1>2, <2>2, <2>4 DEF Packets
    <3>1. /\ client' \in {"none", "reading", "writing", "listing"} /\ got' = <<>>
      BY <2>2, <2>4
    <3>2. client' \in {"reading", "writing"} => rx = <<>>
      <4>1. client \in Commands
        BY <3>0 DEF Turn, Kinds
      <4> QED BY <1>2, <1>6, <2>1, <4>1
    <3>3. base = 0
      BY <3>0 DEF Turn, Kinds
    <3>4. /\ client' \notin Commands
          /\ client' = "writing" => Only(rx', {"FILE_DATA"})
          /\ client' = "reading" => Only(rx', {"FILE_ACK"})
      BY <2>1, <3>1, <3>2, ClientAssumption DEF Only
    <3>5. Alone(rx', tx') /\ base' = 0
      BY <1>7, <2>1, <3>3
    <3>6. client' \in Commands \union {"none", "reading", "writing", "listing"}
      BY <3>1
    <3> QED BY <1>1, <1>6, <2>1, <3>4, <3>5, <3>6 DEF Turn
  <2> QED BY <2>3, <2>4
<1>10. CASE PhoneGetsData
  <2>1. Own(p) /\ UNCHANGED <<client, base>>
        /\ \/ UNCHANGED <<rx, got>>
           \/ client = "reading" /\ rx' = Written(FileAck(p)) /\ p.kind = "FILE_DATA"
    BY <1>10 DEF PhoneGetsData, Received, Listens, Acknowledges, p
  <2>2. CASE UNCHANGED <<rx, got>>
    BY <1>1, <1>4, <1>6, <1>7, <2>1, <2>2 DEF Turn
  <2>3. CASE client = "reading" /\ rx' = Written(FileAck(p)) /\ p.kind = "FILE_DATA"
    <3>1. FileAck(p) \in Packets /\ FileAck(p).kind = "FILE_ACK"
      BY <1>2, <2>3, PacketTypes DEF FileAck, Packet
    <3>2. \A i \in DOMAIN rx' : rx'[i].kind = "FILE_ACK"
      BY <1>1, <2>3, <3>1, OneMore DEF Written, Turn, Only
    <3>3. Alone(rx', tx')
      BY <3>2, ClientAssumption DEF Alone
    <3> QED BY <1>1, <2>1, <2>3, <3>2, <3>3, <1>6, ClientAssumption DEF Turn, Only
  <2> QED BY <2>1, <2>2, <2>3
<1>11. CASE PhoneGetsEntry
  <2>1. UNCHANGED <<rx, client, base>> /\ (UNCHANGED got \/ client = "listing")
    BY <1>11 DEF PhoneGetsEntry, Listens
  <2> QED BY <1>1, <1>4, <1>6, <1>7, <2>1, ClientAssumption DEF Turn
<1>12. CASE PhoneGetsAck
  <2>1. UNCHANGED <<rx, client, got>> /\ (UNCHANGED base \/ client = "writing")
    BY <1>12 DEF PhoneGetsAck
  <2> QED BY <1>1, <1>4, <1>6, <1>7, <2>1, ClientAssumption DEF Turn
<1> QED BY <1>8, <1>9, <1>10, <1>11, <1>12

LEMMA TurnAround ==
  ASSUME IInv, Turn, Timeout \/ PhoneCommands \/ PhoneCancels \/ PhoneSendsData \/ WriteLost
                     \/ Disconnect \/ Connect \/ OtherSends, ~hurried'
  PROVE  Turn'
<1>1. rx \in Seq(Packets) /\ tx \in Seq(Packets) /\ Window \in Nat \ {0} /\ Len(rx) \in Nat
      /\ base \in Nat /\ Typed
  BY SizeAssumption DEF IInv, Typed
<1>2. CASE Timeout
  BY <1>2, TurnRuns DEF Timeout, phoneVars
<1>3. CASE PhoneCommands
  <2>1. PICK c \in Commands : /\ rx' = Written(Command(c, commands')) /\ client' = c
                              /\ UNCHANGED tx /\ got' = <<>> /\ base' = 0
    BY <1>3 DEF PhoneCommands, Writes
  <2>0. commands' \in Nat
    BY <1>1, <1>3, ClientAssumption DEF PhoneCommands, Typed, TypeOK
  <2>2. rx = <<>> /\ ~HasOwn(tx)
    BY <1>3 DEF PhoneCommands, HasOwn
  <2>3. rx' = <<Command(c, commands')>>
    BY <1>1, <2>1, <2>2 DEF Written
  <2>4. Alone(rx', tx')
    BY <2>1, <2>2, <2>3 DEF Alone
  <2>5. ~Has(tx', {"FILE_ACK"})
    BY <2>1, <2>2 DEF Has, HasOwn, Own
  <2>6. Only(rx', Commands)
    BY <2>3 DEF Only, Command, Packet
  <2> QED BY <2>0, <2>1, <2>3, <2>4, <2>5, <2>6, ClientAssumption DEF Turn, Only
<1>4. CASE PhoneCancels
  <2>1. /\ rx' = Written(Command("CANCEL", 0)) /\ client' = "none" /\ base' = 0 /\ UNCHANGED tx
    BY <1>4 DEF PhoneCancels, Writes
  <2>2. Command("CANCEL", 0) \in Packets /\ Command("CANCEL", 0).kind = "CANCEL"
    BY PacketTypes DEF Command, Packet
  <2>3. \A i \in DOMAIN rx' : (i \in DOMAIN rx /\ rx'[i] = rx[i]) \/ rx'[i].kind = "CANCEL"
    BY <1>1, <2>1, <2>2, OneMore DEF Written
  <2>4. Alone(rx', tx')
    BY <2>1, <2>3, ClientAssumption DEF Alone, Turn
  <2> QED BY <2>1, <2>3, <2>4, ClientAssumption DEF Turn, Only
<1>5. CASE PhoneSendsData
  <2>1. PICK k \in base .. (base + Window - 1) : Writes(FileData(k, k, commands))
    BY <1>5 DEF PhoneSendsData
  <2>2. client = "writing" /\ rx' = Written(FileData(k, k, commands))
        /\ UNCHANGED <<tx, client, got, base>>
    BY <1>5, <2>1 DEF PhoneSendsData, Writes, phoneVars
  <2>3. FileData(k, k, commands) \in Packets /\ FileData(k, k, commands).kind = "FILE_DATA"
    <3>1. k \in Nat
      BY <1>1
    <3> QED BY <1>1, <3>1, PacketTypes, ClientAssumption DEF FileData, Packet, Typed, TypeOK
  <2>4. \A i \in DOMAIN rx' : rx'[i].kind = "FILE_DATA"
    BY <1>1, <2>2, <2>3, OneMore DEF Written, Turn, Only
  <2>5. Alone(rx', tx')
    BY <2>4, ClientAssumption DEF Alone
  <2> QED BY <2>2, <2>4, <2>5, ClientAssumption DEF Turn, Only
<1>6. CASE WriteLost
  <2>1. rx # <<>> /\ rx' = SubSeq(rx, 1, Len(rx) - 1) /\ UNCHANGED <<tx, client, got, base>>
    BY <1>6 DEF WriteLost, phoneVars
  <2>2. /\ rx' \in Seq(Packets) /\ Len(rx') = Len(rx) - 1
        /\ \A i \in 1 .. Len(rx) - 1 : rx'[i] = rx[i]
    BY <1>1, <2>1, LastDropped
  <2>3. \A i \in DOMAIN rx' : i \in DOMAIN rx /\ rx'[i] = rx[i]
    BY <1>1, <2>2
  <2>4. Alone(rx', tx')
    BY <2>1, <2>3 DEF Alone, Turn
  <2>5. client \in Commands => rx' = <<>>
    <3>1. client \in Commands => Len(rx') = 0
      BY <2>1, <2>2 DEF Turn
    <3> QED BY <2>2, <3>1, EmptySeq
  <2> QED BY <2>1, <2>3, <2>4, <2>5 DEF Turn, Only
<1>7. CASE Disconnect
  <2>1. client' = "none" /\ base' = 0 /\ UNCHANGED <<rx, tx>>
    BY <1>7 DEF Disconnect
  <2> QED BY <2>1, ClientAssumption DEF Turn, Alone
<1>8. CASE Connect
  <2>1. rx' = <<>> /\ UNCHANGED <<tx, client, got, base>>
    BY <1>8 DEF Connect, phoneVars
  <2> QED BY <2>1 DEF Turn, Alone, Only
<1>9. CASE OtherSends
  <2>1. Send(Foreign) /\ UNCHANGED <<rx, client, got, base>>
    BY <1>9 DEF OtherSends, phoneVars
  <2>2. Foreign \in Packets /\ Foreign.kind = "FOREIGN" /\ ~Own(Foreign)
    BY PacketTypes, OwnPackets DEF Foreign, Packet
  <2>3. Keeps(tx', tx, Kinds \ {"FOREIGN"})
    BY <1>1, <2>1, <2>2, SentKept
  <2>4. tx' \in Seq(Packets)
    BY <1>1, <2>1, <2>2, Sent
  <2>5. ~HasOwn(tx) => ~HasOwn(tx')
    BY <1>1, <2>3, <2>4, OwnKept
  <2>6. Has(tx', {"FILE_ACK"}) => Has(tx, {"FILE_ACK"})
    BY <2>3, KeptHas DEF Kinds
  <2> QED BY <2>1, <2>5, <2>6 DEF Turn, Alone
<1> QED BY <1>2, <1>3, <1>4, <1>5, <1>6, <1>7, <1>8, <1>9

-----------------------------------------------------------------------------
(* An upload *)
LEMMA InQueue ==
  ASSUME NEW q \in Seq(Packets), NEW i \in DOMAIN q
  PROVE  /\ i \in Nat /\ q[i] \in Packets /\ q[i].kind \in Kinds
         /\ q[i].n \in 0 .. Modulus - 1
         /\ q[i].kind \notin {"ACK", "NAK"} => q[i].c \in Nat
<1>1. i \in Nat /\ q[i] \in Packets
  BY ElementOfSeq
<1> QED BY <1>1, SizeAssumption DEF Packets, Kinds

(* A step that stores nothing, and neither end goes on.                      *)
LEMMA UploadRests ==
  ASSUME IInv, IInv', UploadInv,
         Keeps(rx', rx, {"FILE_DATA"}), Keeps(tx', tx, {"FILE_ACK"}),
         client' = "writing" => client = "writing" /\ base' = base,
         base' \in {base, 0},
         client' = "WRITE" /\ Answered(tx', "WRITE")
           => client = "WRITE" /\ Answered(tx, "WRITE"),
         Uploading' => ~Has(rx', Commands),
         UNCHANGED stored,
         \/ next_packet' = next_packet /\ next_state' \in {next_state, "IDLE"}
         \/ ~Uploading /\ next_state' # "WRITE"
  PROVE  UploadInv'
<1>1. /\ rx \in Seq(Packets) /\ tx \in Seq(Packets) /\ rx' \in Seq(Packets)
      /\ tx' \in Seq(Packets) /\ base \in Nat /\ base' \in Nat
      /\ next_packet \in Nat /\ Window \in Nat
  BY SizeAssumption DEF IInv, Typed, TypeOK
<1>2. Uploading' => Uploading
  <2>1. Has(rx', {"FILE_DATA"}) => Has(rx, {"FILE_DATA"})
    BY KeptHas
  <2>2. Has(tx', {"FILE_ACK"}) => Has(tx, {"FILE_ACK"})
    BY KeptHas
  <2> QED BY <2>1, <2>2 DEF Uploading
<1>3. Order'
  BY DEF UploadInv, Order
<1>4. Upload'
  <2>1. CASE next_packet' = next_packet /\ next_state' \in {next_state, "IDLE"}
    BY <1>2, <2>1 DEF UploadInv, Upload
  <2>2. CASE ~Uploading /\ next_state' # "WRITE"
    <3>1. ~Uploading'
      BY <1>2, <2>2
    <3>2. client' # "writing" /\ ~(client' = "WRITE" /\ Answered(tx', "WRITE"))
      BY <3>1 DEF Uploading
    <3> QED BY <2>2, <3>1, <3>2 DEF Upload
  <2> QED BY <2>1, <2>2
<1>5. AcksFit'
  <2> SUFFICES ASSUME NEW i \in DOMAIN tx', tx'[i].kind = "FILE_ACK"
               PROVE  AckFits(tx, i)'
    BY DEF AcksFit
  <2>1. Uploading' /\ next_packet' = next_packet
    BY <1>2 DEF Uploading, Has
  <2>2. PICK d \in {0, 1} : \A j \in DOMAIN tx' : tx'[j].kind = "FILE_ACK" =>
               j + d \in DOMAIN tx /\ tx'[j] = tx[j + d]
    BY DEF Keeps
  <2>3. AckFits(tx, i + d)
    BY <2>2 DEF UploadInv, AcksFit
  <2>4. i \in Nat /\ tx'[i].c \in Nat /\ \A j \in DOMAIN tx' : j \in Nat
    BY <1>1, InQueue
  <2>5. ASSUME NEW j \in DOMAIN tx', i < j, tx'[j].kind = "FILE_ACK"
        PROVE  tx'[i].c <= tx'[j].c
    <3>1. i + d < j + d /\ j + d \in DOMAIN tx /\ tx[j + d] = tx'[j] /\ tx[i + d] = tx'[i]
      BY <2>2, <2>4, <2>5
    <3> QED BY <2>3, <2>5, <3>1 DEF AckFits
  <2>6. base' <= tx'[i].c + 1
    BY <1>1, <2>2, <2>3, <2>4 DEF AckFits
  <2> QED BY <2>1, <2>2, <2>3, <2>5, <2>6 DEF AckFits
<1>6. DataFit'
  <2> SUFFICES ASSUME NEW i \in DOMAIN rx', rx'[i].kind = "FILE_DATA"
               PROVE  DataFits(rx, i)'
    BY DEF DataFit
  <2>1. Uploading' /\ next_packet' = next_packet
    BY <1>2 DEF Uploading, Has
  <2>2. PICK d \in {0, 1} : \A j \in DOMAIN rx' : rx'[j].kind = "FILE_DATA" =>
               j + d \in DOMAIN rx /\ rx'[j] = rx[j + d]
    BY DEF Keeps
  <2>3. DataFits(rx, i + d)
    BY <2>2 DEF UploadInv, DataFit
  <2>4. i \in Nat /\ \A j \in DOMAIN rx' : j \in Nat
    BY <1>1, InQueue
  <2>5. ASSUME NEW j \in DOMAIN rx', i < j, rx'[j].kind = "FILE_DATA"
        PROVE  rx'[i].c < rx'[j].c + Window
    <3>1. i + d < j + d /\ j + d \in DOMAIN rx /\ rx[j + d] = rx'[j] /\ rx[i + d] = rx'[i]
      BY <2>2, <2>4, <2>5
    <3> QED BY <2>3, <2>5, <3>1 DEF DataFits
  <2> QED BY <2>1, <2>2, <2>3, <2>5 DEF DataFits
<1> QED BY <1>3, <1>4, <1>5, <1>6 DEF UploadInv

LEMMA AnsweredSent ==
  ASSUME Typed, NEW p \in Packets, Send(p), NEW k, Answered(tx', k)
  PROVE  Answered(tx, k) \/ p = Ack(k)
BY OneMore DEF Send, Answered, Typed

(* A command in the ring is alone: no upload is left.                        *)
LEMMA CommandEnds ==
  ASSUME Turn, rx # <<>>, rx \in Seq(Packets), Head1.kind \in {"READ", "WRITE", "READ_DIR"}
  PROVE  /\ Head1.kind \in Commands /\ Has(rx, Commands) /\ ~HasOwn(tx)
         /\ ~Has(rx, {"FILE_DATA", "FILE_ACK"})
<1>1. 1 \in DOMAIN rx /\ Head1 = rx[1]
  BY TailKept DEF Head1
<1>2. Head1.kind \in Commands
  BY <1>1 DEF Turn, Only
<1> QED BY <1>1, <1>2, AloneTaken DEF Turn, Has

LEMMA RunsRestUpload ==
  ASSUME IInv, IInv', UploadInv,
         RunIdle \/ RunRead \/ RunWrite \/ RunDir \/ RxDone \/ Finish \/ Timeout
  PROVE  UploadInv'
<1>1. /\ UNCHANGED <<rx, tx, client, base, stored>>
      /\ next_state' \in {next_state, "IDLE"} /\ (state = "READ" \/ UNCHANGED next_packet)
      /\ (RunRead => state = "READ" /\ next_state = "READ") /\ (~RunRead => UNCHANGED next_packet)
  <2>1. CASE RunIdle \/ RunRead \/ RunWrite \/ RunDir
    BY <2>1 DEF IInv, Phases, RunIdle, RunRead, RunWrite, RunDir, Begin, phoneVars, Between
  <2>2. CASE RxDone \/ Finish
    BY <2>2 DEF RxDone, Finish, RunRead, Begin, Between, phoneVars, fileVars, windowVars
  <2>3. CASE Timeout
    BY <2>3 DEF Timeout, phoneVars, fileVars, windowVars, RunRead, Begin
  <2> QED BY <2>1, <2>2, <2>3
<1>2. Keeps(rx', rx, {"FILE_DATA"}) /\ Keeps(tx', tx, {"FILE_ACK"})
  BY <1>1, SameKept DEF IInv, Typed
<1>3. (Uploading' <=> Uploading) /\ (Uploading => ~Has(rx', Commands))
  BY <1>1 DEF Uploading, UploadInv, Upload
<1>4. \/ next_packet' = next_packet /\ next_state' \in {next_state, "IDLE"}
      \/ ~Uploading /\ next_state' # "WRITE"
  BY <1>1 DEF UploadInv, Upload
<1> QED BY <1>1, <1>2, <1>3, <1>4, UploadRests

(* An idle service answers every command.                                    *)
LEMMA IdleAnswers ==
  ASSUME Typed, rx # <<>>,
         IdleSimple \/ IdleOpenFails \/ IdleRead \/ IdleWrite \/ IdleReadDir
  PROVE  \E p \in Packets : /\ Send(p) /\ p.kind \in {"ACK", "NAK"}
                            /\ p = Ack("WRITE") => IdleWrite
                            /\ p = Ack("READ") => next_state' = "READ"
<1>1. Head1 \in Packets /\ Head1.kind \in Kinds
  BY Taken DEF Head1, Typed
<1>2. /\ \A k \in Kinds : Ack(k) \in Packets /\ Nak(k) \in Packets
      /\ \A k \in Kinds, j \in Kinds : Ack(k) = Ack(j) => k = j
      /\ \A k \in Kinds, j \in Kinds : Nak(k) # Ack(j) /\ Ack(k).kind = "ACK" /\ Nak(k).kind = "NAK"
  BY PacketTypes DEF Ack, Nak, Packet
<1>3. {"READ", "WRITE", "READ_DIR"} \subseteq Kinds
  BY DEF Kinds
<1>4. CASE IdleSimple
  BY <1>1, <1>2, <1>3, <1>4 DEF IdleSimple
<1>5. CASE IdleOpenFails
  BY <1>1, <1>2, <1>3, <1>5 DEF IdleOpenFails
<1>6. CASE IdleRead
  BY <1>2, <1>3, <1>6 DEF IdleRead
<1>7. CASE IdleWrite
  <2>1. Send(Ack("WRITE"))
    BY <1>7 DEF IdleWrite
  <2> QED BY <1>2, <1>3, <1>7, <2>1
<1>8. CASE IdleReadDir
  BY <1>2, <1>3, <1>8 DEF IdleReadDir
<1> QED BY <1>4, <1>5, <1>6, <1>7, <1>8

LEMMA TakesRestUpload ==
  ASSUME IInv, IInv', Turn, Turn', UploadInv, Takes,
         IdleSimple \/ IdleOpenFails \/ IdleRead \/ IdleReadDir
         \/ Cancelled \/ ReadAck \/ Dropped \/ WriteCancel
  PROVE  UploadInv'
<1>1. /\ Typed /\ rx \in Seq(Packets) /\ rx # <<>> /\ tx \in Seq(Packets) /\ rx' = Tail(rx)
      /\ UNCHANGED <<client, base, stored>>
  <2>1. UNCHANGED stored
    BY DEF IdleSimple, IdleOpenFails, IdleRead, IdleReadDir, Cancelled, ReadAck, Dropped,
           WriteCancel, fileVars
  <2> QED BY <2>1 DEF IInv, Typed, Takes, TakeRx, phoneVars
<1>2. Keeps(rx', rx, {"FILE_DATA"}) /\ ~Has(rx', Commands)
  BY <1>1, TailKept, AloneTaken DEF Turn
<1>3. CASE IdleSimple \/ IdleOpenFails \/ IdleRead \/ IdleReadDir
  <2>2. PICK p \in Packets : Send(p) /\ p # Ack("WRITE") /\ p.kind \in {"ACK", "NAK"}
    <3>1. ~IdleWrite
      BY <1>3 DEF IdleSimple, IdleOpenFails, IdleRead, IdleReadDir, IdleWrite, Receiving
    <3> QED BY <1>1, <1>3, <3>1, IdleAnswers
  <2>3. Keeps(tx', tx, {"FILE_ACK"})
    BY <1>1, <2>2, SentKept
  <2>4. Answered(tx', "WRITE") => Answered(tx, "WRITE")
    BY <1>1, <2>2, AnsweredSent
  <2>5. \/ next_packet' = next_packet /\ next_state' = next_state
        \/ ~Uploading /\ next_state' # "WRITE"
    <3>1. CASE IdleSimple \/ IdleOpenFails
      BY <3>1 DEF IdleSimple, IdleOpenFails, windowVars
    <3>2. CASE IdleRead \/ IdleReadDir
      <4>1. Head1.kind \in {"READ", "WRITE", "READ_DIR"}
        BY <3>2 DEF IdleRead, IdleReadDir
      <4>2. ~Uploading
        BY <1>1, <4>1, CommandEnds DEF UploadInv, Upload
      <4>3. next_state = "IDLE" /\ next_state' \in {"READ", "IDLE", "DIR"}
        BY <3>2 DEF IdleRead, IdleReadDir, Receiving
      <4> QED BY <4>2, <4>3
    <3> QED BY <1>3, <3>1, <3>2
  <2> QED BY <1>1, <1>2, <2>3, <2>4, <2>5, UploadRests
<1>4. CASE Cancelled \/ ReadAck \/ Dropped \/ WriteCancel
  <2>1. /\ tx' = tx \/ tx' = <<>>
        /\ next_state' \in {next_state, "IDLE"} /\ UNCHANGED next_packet
    BY <1>4 DEF Cancelled, ReadAck, Dropped, WriteCancel, windowVars
  <2>2. Keeps(tx', tx, {"FILE_ACK"})
    BY <1>1, <2>1, SameKept
  <2>3. Answered(tx', "WRITE") => Answered(tx, "WRITE")
    BY <2>1 DEF Answered
  <2> QED BY <1>1, <1>2, <2>1, <2>2, <2>3, UploadRests
<1> QED BY <1>3, <1>4

(* A run sends only when it has taken everything.                            *)
LEMMA RunSends ==
  ASSUME IInv, ReadSend \/ ReadSendEnd \/ DiskFails \/ DirSend
  PROVE  /\ rx = <<>> /\ UNCHANGED <<rx, client, got, base, stored>>
         /\ update = "tx" /\ next_state = state /\ state \in {"READ", "DIR"}
         /\ next_state' \in {next_state, "IDLE"}
         /\ Keeps(tx', tx, {"FILE_ACK", "ACK"}) /\ Keeps(tx', tx, {"FILE_ACK"})
<1>1. Typed /\ rx \in Seq(Packets) /\ tx \in Seq(Packets)
  BY DEF IInv, Typed
<1>2. /\ UNCHANGED <<rx, client, got, base, stored>>
      /\ update = "tx" /\ next_state = state /\ state \in {"READ", "DIR"}
      /\ next_state' \in {next_state, "IDLE"}
  BY DEF ReadSend, ReadSendEnd, DiskFails, DirSend, SendingData, FromTx, phoneVars, fileVars
<1>3. rx = <<>>
  BY <1>2 DEF IInv, Phases
<1>4. tx' = tx \/ \E p \in Packets : Send(p) /\ p.kind \notin {"FILE_ACK", "ACK"}
  <2>1. /\ next_packet \in Nat /\ file_pos \in Nat /\ FileLength \in Nat /\ source \in Nat
    BY <1>1, SizeAssumption DEF Typed, TypeOK
  <2>2. \A k \in Nat, c, f \in Nat :
          /\ FileData(k, c, f) \in Packets /\ FileInfo(k, c, f) \in Packets
          /\ FileData(k, c, f).kind = "FILE_DATA" /\ FileInfo(k, c, f).kind = "FILE_INFO"
    BY PacketTypes DEF FileData, FileInfo, Packet
  <2> QED BY <2>1, <2>2 DEF ReadSend, ReadSendEnd, DiskFails, DirSend
<1>5. Keeps(tx', tx, {"FILE_ACK", "ACK"})
  BY <1>1, <1>4, SentKept, SameKept
<1>6. Keeps(tx', tx, {"FILE_ACK"})
  BY <1>5, KeptLess
<1> QED BY <1>2, <1>3, <1>5, <1>6

LEMMA SendsRestUpload ==
  ASSUME IInv, IInv', Turn, Turn', UploadInv, ReadSend \/ ReadSendEnd \/ DiskFails \/ DirSend
  PROVE  UploadInv'
<1>1. /\ rx = <<>> /\ UNCHANGED <<rx, client, base, stored>> /\ rx \in Seq(Packets)
      /\ next_state \in {"READ", "DIR"} /\ next_state' \in {next_state, "IDLE"}
      /\ Keeps(tx', tx, {"FILE_ACK", "ACK"}) /\ Keeps(tx', tx, {"FILE_ACK"})
  BY RunSends DEF IInv, Typed
<1>2. ~Has(rx', Commands) /\ Keeps(rx', rx, {"FILE_DATA"})
  <2>1. Keeps(rx', rx, {"FILE_DATA"})
    BY <1>1, SameKept
  <2>2. ~Has(<<>>, Commands)
    BY DEF Has
  <2> QED BY <1>1, <2>1, <2>2
<1>3. ~Uploading /\ next_state' # "WRITE"
  BY <1>1 DEF UploadInv, Upload
<1>4. Answered(tx', "WRITE") => Answered(tx, "WRITE")
  BY <1>1, KeptLess, KeptAnswered
<1> QED BY <1>1, <1>2, <1>3, <1>4, UploadRests

(* A packet leaves the queue that is not an acknowledgement of this upload;  *)
(* the phone or the link do something else.                                  *)
LEMMA LeavesRestUpload ==
  ASSUME IInv, IInv', Turn, Turn', UploadInv,
         \/ PacketLost \/ PhoneGetsData \/ PhoneGetsEntry
         \/ PhoneAnswered /\ ~(client' = "writing" /\ client # "writing")
  PROVE  UploadInv'
<1>1. /\ tx # <<>> /\ tx' = Tail(tx) /\ tx \in Seq(Packets) /\ rx \in Seq(Packets)
  BY TurnLeaves
<1>2. Keeps(tx', tx, {"FILE_ACK"}) /\ (Answered(tx', "WRITE") => Answered(tx, "WRITE"))
  BY <1>1, TailKept, KeptAnswered
<1>3. UNCHANGED <<base, stored, next_packet, next_state>>
  BY DEF PacketLost, PhoneGetsData, PhoneGetsEntry, PhoneAnswered, Listens, Acknowledges,
         FromPhone, phoneVars, fileVars, windowVars
<1>4. client' = client \/ client' \in {"none", "reading", "listing"}
  BY DEF PacketLost, PhoneGetsData, PhoneGetsEntry, PhoneAnswered, Listens, Acknowledges,
         phoneVars
<1>5. \/ rx' = rx
      \/ rx' = Append(rx, FileAck(Head(tx))) /\ Head(tx).kind = "FILE_DATA" /\ client = "reading"
  BY DEF PacketLost, PhoneGetsData, PhoneGetsEntry, PhoneAnswered, Listens, Acknowledges,
         Written
<1>6. Keeps(rx', rx, {"FILE_DATA"} \union Commands)
  <2>1. Head(tx).kind = "FILE_DATA" => FileAck(Head(tx)) \in Packets
    BY <1>1, Taken, PacketTypes
  <2>2. FileAck(Head(tx)).kind \notin {"FILE_DATA"} \union Commands
    BY ClientAssumption DEF FileAck, Packet
  <2> QED BY <1>1, <1>5, <2>1, <2>2, SameKept, OneMore
<1>7. Keeps(rx', rx, {"FILE_DATA"}) /\ (Has(rx', Commands) => Has(rx, Commands))
  BY <1>6, KeptLess, KeptHas
<1>8. Uploading' => ~Has(rx', Commands)
  <2>1. Has(tx', {"FILE_ACK"}) => Has(tx, {"FILE_ACK"})
    BY <1>2, KeptHas
  <2>2. Has(rx', {"FILE_DATA"}) => Has(rx, {"FILE_DATA"})
    BY <1>7, KeptHas
  <2>3. Uploading' => Uploading
    BY <1>2, <1>4, <2>1, <2>2 DEF Uploading
  <2> QED BY <1>7, <2>3 DEF UploadInv, Upload
<1>9. client' = "writing" => client = "writing"
  BY <1>4
<1> QED BY <1>2, <1>3, <1>4, <1>7, <1>8, <1>9, UploadRests

LEMMA LinkRestsUpload ==
  ASSUME IInv, IInv', Turn, Turn', UploadInv, ~hurried',
         \/ PhoneCommands \/ PhoneCancels \/ WriteLost \/ Disconnect \/ Connect \/ OtherSends
  PROVE  UploadInv'
<1>1. /\ rx \in Seq(Packets) /\ tx \in Seq(Packets) /\ Window \in Nat \ {0}
      /\ Len(rx) \in Nat /\ base \in Nat /\ Typed
  BY SizeAssumption DEF IInv, Typed
<1>2. UNCHANGED <<stored, next_packet, next_state>>
  BY DEF PhoneCommands, PhoneCancels, WriteLost, Disconnect, Connect, OtherSends, Writes,
         FromPhone, fileVars, windowVars, taskVars
<1>3. /\ Keeps(tx', tx, {"FILE_ACK"})
      /\ Answered(tx', "WRITE") => Answered(tx, "WRITE")
  <2>1. CASE OtherSends
    <3>1. Send(Foreign) /\ Foreign \in Packets /\ Foreign.kind \notin {"FILE_ACK", "ACK"}
      BY <2>1, PacketTypes DEF OtherSends, Foreign, Packet
    <3>2. Keeps(tx', tx, {"FILE_ACK", "ACK"})
      BY <1>1, <3>1, SentKept
    <3> QED BY <3>2, KeptLess, KeptAnswered
  <2>2. CASE ~OtherSends
    <3>1. UNCHANGED tx
      BY <2>2 DEF PhoneCommands, PhoneCancels, WriteLost, Disconnect, Connect, Writes
    <3> QED BY <1>1, <3>1, SameKept
  <2> QED BY <2>1, <2>2
<1>4. CASE PhoneCommands
  <2>1. PICK c \in Commands : rx' = Written(Command(c, commands')) /\ client' = c /\ base' = 0
    BY <1>4 DEF PhoneCommands, Writes
  <2>2. rx = <<>> /\ ~HasOwn(tx) /\ UNCHANGED tx
    BY <1>4 DEF PhoneCommands, HasOwn, Writes
  <2>0. commands' \in Nat
    BY ClientAssumption DEF IInv, Typed, TypeOK
  <2>3. Command(c, commands') \in Packets /\ Command(c, commands').kind \notin {"FILE_DATA"}
    BY <2>0, PacketTypes, ClientAssumption DEF Command, Packet
  <2>4. Keeps(rx', rx, {"FILE_DATA"})
    BY <1>1, <2>1, <2>3, SameKept, OneMore DEF Written
  <2>5. ~Has(tx, {"FILE_ACK"}) /\ ~Answered(tx, "WRITE")
    BY <2>2 DEF Has, HasOwn, Own, Answered, Ack, Packet
  <2>6. ~Has(<<>>, {"FILE_DATA"})
    BY DEF Has
  <2>7. ~Has(rx', {"FILE_DATA"})
    BY <2>2, <2>4, <2>6, KeptHas
  <2>8. ~Uploading'
    BY <2>1, <2>2, <2>5, <2>7, ClientAssumption DEF Uploading
  <2> QED BY <1>2, <1>3, <2>1, <2>2, <2>4, <2>5, <2>8, ClientAssumption, UploadRests
<1>5. CASE PhoneCancels \/ WriteLost \/ Disconnect \/ Connect \/ OtherSends
  <2>1. /\ client' \in {client, "none"} /\ base' \in {base, 0}
        /\ client' = "writing" => base' = base
    BY <1>5 DEF PhoneCancels, WriteLost, Disconnect, Connect, OtherSends, phoneVars
  <2>2. Keeps(rx', rx, {"FILE_DATA"} \union Commands)
    <3>1. CASE PhoneCancels
      <4>1. rx' = Written(Command("CANCEL", 0))
        BY <3>1 DEF PhoneCancels, Writes
      <4>2. Command("CANCEL", 0) \in Packets
            /\ Command("CANCEL", 0).kind \notin {"FILE_DATA"} \union Commands
        BY PacketTypes, ClientAssumption DEF Command, Packet
      <4> QED BY <1>1, <4>1, <4>2, SameKept, OneMore DEF Written
    <3>2. CASE WriteLost
      BY <1>1, <3>2, PrefixKept DEF WriteLost
    <3>3. CASE Disconnect \/ Connect \/ OtherSends
      BY <1>1, <3>3, SameKept DEF Disconnect, Connect, OtherSends
    <3> QED BY <1>5, <3>1, <3>2, <3>3
  <2>3. Keeps(rx', rx, {"FILE_DATA"}) /\ (Has(rx', Commands) => Has(rx, Commands))
        /\ (Has(rx', {"FILE_DATA"}) => Has(rx, {"FILE_DATA"}))
    BY <2>2, KeptLess, KeptHas
  <2>4. Has(tx', {"FILE_ACK"}) => Has(tx, {"FILE_ACK"})
    BY <1>3, KeptHas
  <2>5. Uploading' => ~Has(rx', Commands)
    BY <1>3, <2>1, <2>3, <2>4 DEF Uploading, UploadInv, Upload
  <2>6. client' = "writing" => client = "writing"
    BY <2>1
  <2>7. client' = "WRITE" => client = "WRITE"
    BY <2>1
  <2> QED BY <1>2, <1>3, <2>1, <2>3, <2>5, <2>6, <2>7, UploadRests
<1> QED BY <1>4, <1>5

(* The file is opened: whatever was stored is gone.                          *)
LEMMA IdleWriteUpload ==
  ASSUME IInv, IInv', Turn, Turn', UploadInv, IdleWrite
  PROVE  UploadInv'
<1>1. /\ Typed /\ rx \in Seq(Packets) /\ rx # <<>> /\ tx \in Seq(Packets) /\ rx' = Tail(rx)
      /\ Head1.kind = "WRITE" /\ UNCHANGED client
  BY DEF IdleWrite, Receiving, FromRx, TakeRx, IInv, Typed, phoneVars
<1>2. /\ stored' = <<>> /\ next_packet' = 0 /\ next_state' = "WRITE" /\ Send(Ack("WRITE"))
  BY DEF IdleWrite
<1>3. /\ Has(rx, Commands) /\ ~HasOwn(tx) /\ ~Has(rx, {"FILE_DATA", "FILE_ACK"})
  BY <1>1, CommandEnds
<1>4. ~Uploading
  BY <1>3 DEF UploadInv, Upload
<1>5. ~Has(rx', Commands) /\ ~Has(rx', {"FILE_DATA"})
  <2>1. ~Has(rx', Commands)
    BY <1>1, AloneTaken DEF Turn
  <2>2. Has(rx', {"FILE_DATA"}) => Has(rx, {"FILE_DATA"})
    BY <1>1, TailKept, KeptHas
  <2> QED BY <2>1, <2>2, <1>4 DEF Uploading
<1>6. ~Has(tx', {"FILE_ACK"})
  <2>1. Ack("WRITE") \in Packets /\ Ack("WRITE").kind = "ACK"
    BY PacketTypes DEF Ack, Packet, Kinds
  <2>2. Keeps(tx', tx, {"FILE_ACK"})
    BY <1>1, <1>2, <2>1, SentKept
  <2> QED BY <1>4, <2>2, KeptHas DEF Uploading
<1>7. AcksFit' /\ DataFit'
  BY <1>5, <1>6 DEF AcksFit, DataFit, Has
<1>8. Order'
  BY <1>2 DEF Order
<1>9. Upload'
  <2>1. client' # "writing"
    BY <1>1, <1>4 DEF Uploading
  <2>2. Len(<<>>) = 0 /\ Least(0, FileLength) = 0 /\ 0 <= FileLength
    BY SizeAssumption DEF Least
  <2> QED BY <1>2, <1>5, <2>1, <2>2, SizeAssumption DEF Upload
<1> QED BY <1>7, <1>8, <1>9 DEF UploadInv

(* The first packet of the ring is one of this upload.                       *)
LEMMA DataTaken ==
  ASSUME IInv, Turn, UploadInv, rx # <<>>, Head1.kind = "FILE_DATA", next_state = "WRITE"
  PROVE  /\ Head1 \in Packets /\ Head1.c \in Nat
         /\ Head1 = rx[1] /\ 1 \in DOMAIN rx /\ DataFits(rx, 1)
         /\ client # "WRITE" /\ Uploading
         /\ base <= next_packet /\ next_packet <= FileLength
         /\ Len(stored) = next_packet
<1>1. rx \in Seq(Packets) /\ next_packet \in Nat /\ FileLength \in Nat
  BY SizeAssumption DEF IInv, Typed, TypeOK
<1>2. /\ Head1 = rx[1] /\ 1 \in DOMAIN rx /\ Head1 \in Packets /\ Head1.c \in Nat
  BY <1>1, TailKept, Taken DEF Head1
<1>3. DataFits(rx, 1) /\ Uploading
  BY <1>2 DEF UploadInv, DataFit, Uploading, Has
<1>4. client # "WRITE"
  <2> SUFFICES ASSUME client = "WRITE" PROVE FALSE
    OBVIOUS
  <2>1. \E f \in Nat : rx = <<Command("WRITE", f)>>
    BY DEF Turn
  <2> QED BY <2>1 DEF Head1, Command, Packet
<1>5. base <= next_packet
  BY <1>1 DEF Turn, UploadInv, Upload
<1> QED BY <1>1, <1>2, <1>3, <1>4, <1>5 DEF UploadInv, Upload, Least

LEMMA AckAdded ==
  ASSUME IInv, IInv', UploadInv, base <= next_packet, UNCHANGED base,
         NEW p \in Packets, p.kind = "FILE_DATA", p.c \in Nat, p.n = p.c % Modulus,
         next_packet' \in {next_packet, next_packet + 1},
         tx' = tx \/ (Send(FileAck(p)) /\ p.c + 1 = next_packet')
  PROVE  AcksFit'
<1>1. tx \in Seq(Packets) /\ next_packet \in Nat /\ next_packet' \in Nat /\ base \in Nat
      /\ FileAck(p) \in Packets
  BY PacketTypes DEF IInv, Typed, TypeOK
<1>2. \A i \in DOMAIN tx : i \in Nat /\ (tx[i].kind = "FILE_ACK" => tx[i].c \in Nat)
  BY <1>1, InQueue
<1>3. CASE tx' = tx
  <2>1. \A i \in DOMAIN tx : tx[i].kind = "FILE_ACK" /\ AckFits(tx, i) => AckFits(tx, i)'
    BY <1>1, <1>2, <1>3 DEF AckFits
  <2> QED BY <1>3, <2>1 DEF UploadInv, AcksFit
<1>4. CASE tx' = Append(tx, FileAck(p)) /\ p.c + 1 = next_packet'
  <2>1. /\ \A i \in DOMAIN tx' : \/ i \in DOMAIN tx /\ tx'[i] = tx[i]
                                 \/ i = Len(tx) + 1 /\ tx'[i] = FileAck(p)
        /\ Len(tx) \in Nat /\ \A i \in DOMAIN tx : i \in Int /\ i <= Len(tx)
    BY <1>1, <1>4, OneMore
  <2>2. FileAck(p).n = p.c % Modulus /\ FileAck(p).c = p.c
    BY DEF FileAck, Packet
  <2> SUFFICES ASSUME NEW i \in DOMAIN tx', tx'[i].kind = "FILE_ACK" PROVE AckFits(tx, i)'
    BY DEF AcksFit
  <2>3. CASE i \in DOMAIN tx /\ tx'[i] = tx[i]
    <3>1. AckFits(tx, i) /\ tx[i].c \in Nat
      BY <1>2, <2>3 DEF UploadInv, AcksFit
    <3>2. tx[i].c <= p.c
      BY <1>1, <1>4, <3>1 DEF AckFits
    <3>3. \A j \in DOMAIN tx' : i < j /\ tx'[j].kind = "FILE_ACK" => tx'[i].c <= tx'[j].c
      BY <2>1, <2>2, <2>3, <3>1, <3>2 DEF AckFits
    <3> QED BY <1>1, <2>3, <3>1, <3>3 DEF AckFits
  <2>4. CASE i = Len(tx) + 1 /\ tx'[i] = FileAck(p)
    <3>1. \A j \in DOMAIN tx' : ~(i < j)
      BY <2>1, <2>4
    <3> QED BY <1>1, <1>4, <2>2, <2>4, <3>1 DEF AckFits
  <2> QED BY <2>1, <2>3, <2>4
<1> QED BY <1>3, <1>4 DEF Send

(* What is left in the receive ring once its first packet is taken.          *)
LEMMA DataLeft ==
  ASSUME IInv, IInv', UploadInv, rx # <<>>, rx' = Tail(rx), UNCHANGED <<client, base>>,
         next_packet' \in {next_packet, next_packet + 1},
         \A i \in DOMAIN rx : i > 1 /\ rx[i].kind = "FILE_DATA"
           => next_packet' <= rx[i].c + Window
  PROVE  DataFit'
<1>1. /\ rx \in Seq(Packets) /\ rx' \in Seq(Packets) /\ next_packet \in Nat
      /\ next_packet' \in Nat /\ Window \in Nat
  BY SizeAssumption DEF IInv, Typed, TypeOK
<1>2. \A i \in DOMAIN rx' : i \in Nat \ {0} /\ i + 1 \in DOMAIN rx /\ rx'[i] = rx[i + 1]
  BY <1>1, TailKept
<1> SUFFICES ASSUME NEW i \in DOMAIN rx', rx'[i].kind = "FILE_DATA" PROVE DataFits(rx, i)'
  BY DEF DataFit
<1>3. DataFits(rx, i + 1) /\ rx'[i] = rx[i + 1] /\ rx'[i].c \in Nat
  BY <1>1, <1>2, InQueue DEF UploadInv, DataFit
<1>4. ASSUME NEW j \in DOMAIN rx', i < j, rx'[j].kind = "FILE_DATA"
      PROVE  rx'[i].c < rx'[j].c + Window
  <2>1. i + 1 < j + 1 /\ j + 1 \in DOMAIN rx /\ rx[j + 1] = rx'[j]
    BY <1>2, <1>4
  <2> QED BY <1>3, <1>4, <2>1 DEF DataFits
<1>5. next_packet' <= rx'[i].c + Window
  BY <1>2, <1>3
<1> QED BY <1>1, <1>3, <1>4, <1>5 DEF DataFits

LEMMA WriteDataUpload ==
  ASSUME IInv, IInv', Turn, Turn', UploadInv, WriteData, ~disk_error'
  PROVE  UploadInv'
<1>1. /\ rx \in Seq(Packets) /\ rx # <<>> /\ rx' = Tail(rx) /\ UNCHANGED <<client, base>>
      /\ Head1.kind = "FILE_DATA" /\ next_state = "WRITE"
      /\ next_packet' = next_packet + 1 /\ Send(FileAck(Head1))
      /\ Head1.n = next_packet % Modulus
      /\ stored' = IF Head1.c = FileLength THEN stored ELSE Append(stored, Brings(Head1))
      /\ next_state' = IF Head1.c = FileLength THEN "IDLE" ELSE "WRITE"
  BY DEF WriteData, Receiving, FromRx, TakeRx, IInv, Typed, phoneVars, DataExpected
<1>2. /\ next_packet \in Nat /\ Window \in Nat \ {0} /\ FileLength \in Nat /\ base \in Nat
      /\ Modulus > 3 * Window /\ Modulus \in Nat
  BY SizeAssumption DEF IInv, Typed, TypeOK
<1>3. /\ Head1 \in Packets /\ Head1.c \in Nat
      /\ Head1 = rx[1] /\ 1 \in DOMAIN rx /\ DataFits(rx, 1)
      /\ client # "WRITE" /\ Uploading
      /\ base <= next_packet /\ next_packet <= FileLength /\ Len(stored) = next_packet
  BY <1>1, DataTaken
<1>4. Head1.c = next_packet
  <2>1. /\ Head1.c % Modulus = next_packet % Modulus
        /\ next_packet <= Head1.c + Window /\ Head1.c < next_packet + Window
    BY <1>1, <1>3 DEF DataFits
  <2>2. /\ Head1.c \in Int /\ next_packet \in Int
        /\ Head1.c - next_packet < Modulus /\ next_packet - Head1.c < Modulus
    BY <1>2, <1>3, <2>1
  <2> QED BY <2>1, <2>2, SameResidue
<1>5. Order' /\ Len(stored') = Least(next_packet', FileLength)
  <2>0. stored \in Seq(Chunks) /\ \A i \in DOMAIN stored : stored[i].c = i - 1
    BY DEF UploadInv, Order
  <2>1. CASE Head1.c = FileLength
    BY <1>1, <1>2, <1>3, <1>4, <2>0, <2>1 DEF Order, Least
  <2>2. CASE Head1.c # FileLength
    <3>1. /\ stored' = Append(stored, Brings(Head1)) /\ Brings(Head1).c = next_packet
          /\ Brings(Head1) \in Chunks
      <4>1. Head1.f \in Nat
        BY <1>1, Taken DEF Head1
      <4> QED BY <1>1, <1>3, <1>4, <2>2, <4>1 DEF Brings, Chunk, Chunks
    <3>2. /\ stored' \in Seq(Chunks) /\ Len(stored') = Len(stored) + 1
          /\ DOMAIN stored' = 1 .. Len(stored) + 1
          /\ \A i \in 1 .. Len(stored) : stored'[i] = stored[i]
          /\ stored'[Len(stored) + 1].c = next_packet
          /\ DOMAIN stored = 1 .. Len(stored)
      BY <1>2, <2>0, <3>1, AppendProperties
    <3>3. \A i \in DOMAIN stored' : stored'[i].c = i - 1
      BY <1>2, <1>3, <2>0, <3>2
    <3> QED BY <1>1, <1>2, <1>3, <1>4, <2>2, <3>2, <3>3 DEF Order, Least
  <2> QED BY <2>1, <2>2
<1>6. Upload'
  <2>1. ~Has(rx', Commands)
    BY <1>1, AloneTaken DEF Turn
  <2>2. client' # "WRITE" /\ next_state' \in {"IDLE", "WRITE"}
    BY <1>1, <1>3
  <2>3. client' = "writing" => base' <= next_packet' /\ next_packet' <= base' + Window
    BY <1>1, <1>2, <1>3, <1>4 DEF DataFits
  <2>4. next_packet' <= FileLength + 1 /\ (next_state' = "WRITE" => next_packet' <= FileLength)
    BY <1>1, <1>2, <1>3, <1>4
  <2> QED BY <1>5, <2>1, <2>2, <2>3, <2>4 DEF Upload
<1>7. AcksFit'
  <2>1. Head1.n = Head1.c % Modulus /\ Head1.c + 1 = next_packet'
    BY <1>1, <1>3, <1>4 DEF DataFits
  <2> QED BY <1>1, <1>2, <1>3, <2>1, AckAdded
<1>8. DataFit'
  <2>1. ASSUME NEW i \in DOMAIN rx, i > 1, rx[i].kind = "FILE_DATA"
        PROVE  next_packet' <= rx[i].c + Window
    <3>1. Head1.c < rx[i].c + Window /\ rx[i].c \in Nat
      BY <1>1, <1>3, <2>1, InQueue DEF DataFits
    <3> QED BY <1>1, <1>2, <1>4, <3>1
  <2> QED BY <1>1, <2>1, DataLeft
<1> QED BY <1>5, <1>6, <1>7, <1>8 DEF UploadInv

LEMMA WriteRepeatedUpload ==
  ASSUME IInv, IInv', Turn, Turn', UploadInv, WriteRepeated
  PROVE  UploadInv'
<1>1. /\ rx \in Seq(Packets) /\ rx # <<>> /\ rx' = Tail(rx) /\ UNCHANGED <<client, base>>
      /\ Head1.kind = "FILE_DATA" /\ next_state = "WRITE"
      /\ UNCHANGED <<next_packet, next_state, stored>>
      /\ \/ UNCHANGED tx
         \/ Head1.n = (next_packet - 1) % Modulus /\ Send(FileAck(Head1))
  BY DEF WriteRepeated, Receiving, FromRx, TakeRx, IInv, Typed, phoneVars, windowVars, fileVars
<1>2. /\ next_packet \in Nat /\ Window \in Nat \ {0} /\ FileLength \in Nat /\ base \in Nat
      /\ Modulus > 3 * Window /\ Modulus \in Nat
  BY SizeAssumption DEF IInv, Typed, TypeOK
<1>3. /\ Head1 \in Packets /\ Head1.c \in Nat
      /\ Head1 = rx[1] /\ 1 \in DOMAIN rx /\ DataFits(rx, 1)
      /\ client # "WRITE" /\ Uploading
      /\ base <= next_packet /\ next_packet <= FileLength /\ Len(stored) = next_packet
  BY <1>1, DataTaken
<1>4. tx' = tx \/ (Send(FileAck(Head1)) /\ Head1.c + 1 = next_packet')
  <2>1. /\ Head1.n = Head1.c % Modulus
        /\ next_packet <= Head1.c + Window /\ Head1.c < next_packet + Window
    BY <1>3 DEF DataFits
  <2>2. ASSUME Head1.n = (next_packet - 1) % Modulus PROVE Head1.c = next_packet - 1
    <3>1. PICK k \in Int : k = next_packet - 1
      BY <1>2
    <3>2. Head1.c % Modulus = k % Modulus /\ Head1.c \in Int
      BY <1>3, <2>1, <2>2, <3>1
    <3>3. Head1.c - k < Modulus /\ k - Head1.c < Modulus
      BY <1>2, <1>3, <2>1, <3>1
    <3>4. Head1.c = k
      BY <3>2, <3>3, SameResidue
    <3> QED BY <3>1, <3>4
  <2> QED BY <1>1, <1>2, <2>2
<1>5. Order'
  BY <1>1 DEF UploadInv, Order
<1>6. Upload'
  <2>1. ~Has(rx', Commands)
    BY <1>1, AloneTaken DEF Turn
  <2> QED BY <1>1, <1>3, <2>1 DEF UploadInv, Upload
<1>7. AcksFit'
  <2>1. Head1.n = Head1.c % Modulus
    BY <1>3 DEF DataFits
  <2> QED BY <1>1, <1>3, <1>4, <2>1, AckAdded
<1>8. DataFit'
  <2>1. ASSUME NEW i \in DOMAIN rx, i > 1, rx[i].kind = "FILE_DATA"
        PROVE  next_packet' <= rx[i].c + Window
    BY <1>1, <2>1 DEF UploadInv, DataFit, DataFits
  <2> QED BY <1>1, <2>1, DataLeft
<1> QED BY <1>5, <1>6, <1>7, <1>8 DEF UploadInv

(* The phone hears that the file is open.                                    *)
LEMMA AnsweredUpload ==
  ASSUME IInv, IInv', Turn, Turn', UploadInv, PhoneAnswered, client' = "writing",
         client # "writing"
  PROVE  UploadInv'
<1>1. /\ tx # <<>> /\ tx' = Tail(tx) /\ tx \in Seq(Packets) /\ rx \in Seq(Packets)
      /\ rx # <<>> /\ client \in Commands => ~HasOwn(tx)
  BY TurnLeaves
<1>2. /\ Head(tx) \in Packets /\ Head(tx) = tx[1] /\ 1 \in DOMAIN tx
  BY <1>1, Taken, TailKept
<1>3. /\ Own(Head(tx)) /\ Head(tx).kind = "ACK" /\ Head(tx).c = "WRITE" /\ client = "WRITE"
      /\ UNCHANGED <<rx, base, stored, next_packet, next_state>>
  BY DEF PhoneAnswered, Received, Listens, FromPhone, fileVars, windowVars
<1>4. HasOwn(tx) /\ Answered(tx, "WRITE")
  <2>1. Head(tx) = Ack("WRITE")
    BY <1>2, <1>3 DEF Packets, Ack, Packet, Kinds
  <2> QED BY <1>2, <1>3, <2>1 DEF HasOwn, Answered
<1>5. client \in Commands /\ base = 0
  BY <1>3 DEF Turn
<1>6. rx = <<>> /\ ~Has(tx, {"FILE_ACK"}) /\ Uploading
  BY <1>1, <1>3, <1>4, <1>5 DEF Turn, Uploading
<1>7. AcksFit' /\ DataFit'
  <2>1. ~Has(tx', {"FILE_ACK"})
    BY <1>1, <1>6, TailKept, KeptHas
  <2> QED BY <1>3, <1>6, <2>1 DEF AcksFit, DataFit, Has
<1>8. Order' /\ Upload'
  <2>1. next_packet = 0 /\ Window \in Nat
    BY <1>3, <1>4, SizeAssumption DEF UploadInv, Upload
  <2> QED BY <1>3, <1>5, <1>6, <2>1 DEF UploadInv, Upload, Order
<1> QED BY <1>7, <1>8 DEF UploadInv

LEMMA FurtherStill ==
  ASSUME NEW n \in Int, NEW a \in Int, NEW b \in Int, NEW w \in Int, a <= b, n <= a + w
  PROVE  n <= b + w
OBVIOUS

(* The phone hears of a chunk that is stored.                                *)
LEMMA GetsAckUpload ==
  ASSUME IInv, IInv', Turn, Turn', UploadInv, PhoneGetsAck
  PROVE  UploadInv'
<1> DEFINE p == Head(tx)
<1>1. /\ tx # <<>> /\ tx' = Tail(tx) /\ tx \in Seq(Packets) /\ rx \in Seq(Packets)
  BY TurnLeaves
<1>2. /\ p \in Packets /\ p = tx[1] /\ 1 \in DOMAIN tx /\ p.kind = "FILE_ACK" /\ p.c \in Nat
  BY <1>1, Taken, TailKept DEF PhoneGetsAck
<1>3. AckFits(tx, 1) /\ Uploading
  BY <1>2 DEF UploadInv, AcksFit, Uploading, Has
<1>4. /\ UNCHANGED <<rx, client, stored, next_packet, next_state>>
      /\ base' = IF client = "writing" /\ base <= FileLength /\ (p.n - base) % Modulus < Window
                 THEN base + ((p.n - base) % Modulus) + 1 ELSE base
  BY DEF PhoneGetsAck, FromPhone, fileVars, windowVars
<1>5. /\ next_packet \in Nat /\ Window \in Nat \ {0} /\ base \in Nat
      /\ Modulus > 3 * Window /\ Modulus \in Nat
  BY SizeAssumption DEF IInv, Typed, TypeOK
<1> HIDE DEF p
<1>6. base' = base \/ (client = "writing" /\ base' = p.c + 1 /\ base <= p.c)
  <2> SUFFICES ASSUME client = "writing", (p.n - base) % Modulus < Window,
                      base' = base + ((p.n - base) % Modulus) + 1
               PROVE  base' = p.c + 1 /\ base <= p.c
    BY <1>4
  <2>1. /\ p.n = p.c % Modulus /\ p.c < next_packet /\ base <= p.c + 1
        /\ next_packet <= base + Window
    BY <1>2, <1>3 DEF AckFits, UploadInv, Upload
  <2>2. p.c \in Nat /\ base \in Nat /\ p.c - base < Modulus /\ base - p.c < Modulus
    BY <1>2, <1>5, <2>1
  <2>3. ((p.c % Modulus) - base) % Modulus
          = IF p.c >= base THEN p.c - base ELSE p.c - base + Modulus
    BY <2>2, Distance
  <2>4. (p.n - base) % Modulus = IF p.c >= base THEN p.c - base ELSE p.c - base + Modulus
    BY <2>1, <2>3
  <2> QED BY <1>2, <1>5, <2>1, <2>4
<1>7. base <= base' /\ base' \in Nat /\ (base' <= next_packet \/ client # "writing")
  BY <1>2, <1>3, <1>5, <1>6 DEF AckFits, UploadInv, Upload
<1>8. Order'
  BY <1>4 DEF UploadInv, Order
<1>9. Upload'
  <2>1. Answered(tx', "WRITE") => Answered(tx, "WRITE")
    BY <1>1, TailKept, KeptAnswered
  <2>2. client = "writing" => next_packet <= base' + Window
    <3>1. client = "writing" => next_packet <= base + Window
      BY DEF UploadInv, Upload
    <3>2. /\ base \in Int /\ base' \in Int /\ Window \in Int /\ next_packet \in Int
          /\ base <= base'
      BY <1>5, <1>7
    <3> QED BY <3>1, <3>2, FurtherStill
  <2>3. UNCHANGED <<rx, client, stored, next_packet, next_state>>
    BY <1>4
  <2>4. /\ next_state \in {"IDLE", "WRITE"} /\ ~Has(rx, Commands)
        /\ Len(stored) = Least(next_packet, FileLength) /\ next_packet <= FileLength + 1
        /\ next_state = "WRITE" => next_packet <= FileLength
        /\ client = "WRITE" /\ Answered(tx, "WRITE") => next_packet = 0
    BY <1>3 DEF UploadInv, Upload
  <2> QED BY <1>7, <2>1, <2>2, <2>3, <2>4 DEF Upload
<1>10. AcksFit'
  <2> SUFFICES ASSUME NEW i \in DOMAIN tx', tx'[i].kind = "FILE_ACK" PROVE AckFits(tx, i)'
    BY DEF AcksFit
  <2>1. \A j \in DOMAIN tx' : j \in Nat \ {0} /\ j + 1 \in DOMAIN tx /\ tx'[j] = tx[j + 1]
    BY <1>1, TailKept
  <2>2. AckFits(tx, i + 1) /\ tx'[i] = tx[i + 1] /\ tx'[i].c \in Nat
    BY <1>1, <2>1, InQueue DEF UploadInv, AcksFit
  <2>3. base' <= tx'[i].c + 1
    <3>1. p.c <= tx'[i].c
      BY <1>2, <1>3, <2>1 DEF AckFits
    <3> QED BY <1>2, <1>5, <1>6, <2>2, <3>1 DEF AckFits
  <2>4. ASSUME NEW j \in DOMAIN tx', i < j, tx'[j].kind = "FILE_ACK"
        PROVE  tx'[i].c <= tx'[j].c
    <3>1. i + 1 < j + 1 /\ j + 1 \in DOMAIN tx /\ tx[j + 1] = tx'[j]
      BY <2>1, <2>4
    <3> QED BY <2>2, <2>4, <3>1 DEF AckFits
  <2> QED BY <1>4, <2>2, <2>3, <2>4 DEF AckFits
<1>11. DataFit'
  <2> SUFFICES ASSUME NEW i \in DOMAIN rx, rx[i].kind = "FILE_DATA" PROVE DataFits(rx, i)'
    BY <1>4 DEF DataFit
  <2>1. DataFits(rx, i) /\ rx[i].c \in Nat
    BY <1>1, InQueue DEF UploadInv, DataFit
  <2> QED BY <1>4, <1>5, <1>7, <2>1 DEF DataFits
<1> QED BY <1>8, <1>9, <1>10, <1>11 DEF UploadInv

(* The phone sends a chunk of its window.                                    *)
LEMMA SendsDataUpload ==
  ASSUME IInv, IInv', Turn, Turn', UploadInv, PhoneSendsData
  PROVE  UploadInv'
<1>1. /\ rx \in Seq(Packets) /\ Len(rx) \in Nat /\ base \in Nat /\ next_packet \in Nat
      /\ Window \in Nat \ {0} /\ FileLength \in Nat
  BY SizeAssumption DEF IInv, Typed, TypeOK
<1>2. PICK k \in base .. (base + Window - 1) : k <= FileLength /\ Writes(FileData(k, k, commands))
  BY DEF PhoneSendsData
<1>3. /\ client = "writing" /\ rx' = Written(FileData(k, k, commands)) /\ k \in Nat
      /\ UNCHANGED <<tx, client, base, stored, next_packet, next_state>>
  BY <1>1, <1>2 DEF PhoneSendsData, Writes, phoneVars, fileVars, windowVars
<1>4. /\ FileData(k, k, commands) \in Packets /\ FileData(k, k, commands).kind = "FILE_DATA"
      /\ FileData(k, k, commands).c = k /\ FileData(k, k, commands).n = k % Modulus
  <2>1. commands \in Nat
    BY ClientAssumption DEF IInv, Typed, TypeOK
  <2> QED BY <1>3, <2>1, PacketTypes DEF FileData, Packet
<1>5. Uploading /\ base <= next_packet /\ next_packet <= base + Window
  BY <1>3 DEF UploadInv, Upload, Uploading
<1>6. Order' /\ AcksFit'
  BY <1>3 DEF UploadInv, Order, AcksFit, AckFits
<1>7. Upload'
  <2>1. ~Has(rx', Commands)
    BY <1>3, ClientAssumption DEF Turn, Only, Has
  <2> QED BY <1>3, <1>5, <2>1 DEF UploadInv, Upload
<1>8. DataFit'
  <2>1. CASE rx' = rx
    BY <1>3, <2>1 DEF UploadInv, DataFit, DataFits
  <2>2. CASE rx' = Append(rx, FileData(k, k, commands))
    <3>1. /\ \A i \in DOMAIN rx' : \/ i \in DOMAIN rx /\ rx'[i] = rx[i]
                                   \/ i = Len(rx) + 1 /\ rx'[i] = FileData(k, k, commands)
          /\ \A i \in DOMAIN rx : i \in Int /\ i <= Len(rx)
      BY <1>1, <1>4, <2>2, OneMore
    <3> SUFFICES ASSUME NEW i \in DOMAIN rx', rx'[i].kind = "FILE_DATA" PROVE DataFits(rx, i)'
      BY DEF DataFit
    <3>2. CASE i \in DOMAIN rx /\ rx'[i] = rx[i]
      <4>1. DataFits(rx, i) /\ rx[i].c \in Nat
        BY <1>1, <3>2, InQueue DEF UploadInv, DataFit
      <4>2. rx[i].c < k + Window
        BY <1>1, <1>2, <1>3, <4>1 DEF DataFits
      <4>3. \A j \in DOMAIN rx' : i < j /\ rx'[j].kind = "FILE_DATA" => rx'[i].c < rx'[j].c + Window
        BY <1>4, <3>1, <3>2, <4>1, <4>2 DEF DataFits
      <4> QED BY <1>3, <3>2, <4>1, <4>3 DEF DataFits
    <3>3. CASE i = Len(rx) + 1 /\ rx'[i] = FileData(k, k, commands)
      <4>1. \A j \in DOMAIN rx' : ~(i < j)
        BY <1>1, <3>1, <3>3
      <4> QED BY <1>1, <1>2, <1>3, <1>4, <1>5, <3>3, <4>1 DEF DataFits
    <3> QED BY <3>1, <3>2, <3>3
  <2> QED BY <1>3, <2>1, <2>2 DEF Written
<1> QED BY <1>6, <1>7, <1>8 DEF UploadInv

-----------------------------------------------------------------------------
(* An upload that is not hurried is intact *)

Taking == \/ IdleSimple \/ IdleOpenFails \/ IdleRead \/ IdleWrite \/ IdleReadDir
          \/ Cancelled \/ ReadAck \/ Dropped \/ WriteData \/ WriteRepeated \/ WriteCancel

LEMMA TakingTakes ==
  ASSUME Taking
  PROVE  Takes
BY DEF Taking, IdleSimple, IdleOpenFails, IdleRead, IdleWrite, IdleReadDir, Cancelled, ReadAck,
       Dropped, WriteData, WriteRepeated, WriteCancel, Takes, Receiving, FromRx

LEMMA TurnNext ==
  ASSUME IInv, IInv', Turn, Next, ~hurried'
  PROVE  Turn'
<1>1. Typed /\ rx \in Seq(Packets) /\ tx \in Seq(Packets)
  BY DEF IInv, Typed
<1>2. CASE RunIdle \/ RunRead \/ RunWrite \/ RunDir \/ RxDone \/ Finish
  BY <1>2, TurnRuns DEF RunIdle, RunRead, RunWrite, RunDir, RxDone, Finish, Begin, phoneVars
<1>3. CASE Taking
  <2>1. Takes
    BY <1>3, TakingTakes
  <2>2. Has(tx', {"FILE_ACK"}) => Has(tx, {"FILE_ACK"}) \/ Head1.kind = "FILE_DATA"
    <3>1. CASE IdleSimple \/ IdleOpenFails \/ IdleRead \/ IdleWrite \/ IdleReadDir
      <4>1. rx # <<>>
        BY <2>1 DEF Takes
      <4>2. PICK p \in Packets : Send(p) /\ p.kind \in {"ACK", "NAK"}
        BY <1>1, <3>1, <4>1, IdleAnswers
      <4>3. Keeps(tx', tx, {"FILE_ACK"})
        BY <1>1, <4>2, SentKept
      <4> QED BY <4>3, KeptHas
    <3>2. CASE Cancelled
      BY <3>2 DEF Cancelled, Has
    <3>3. CASE WriteData \/ WriteRepeated
      BY <3>3 DEF WriteData, WriteRepeated
    <3>4. CASE ReadAck \/ Dropped \/ WriteCancel
      BY <3>4 DEF ReadAck, Dropped, WriteCancel
    <3> QED BY <1>3, <3>1, <3>2, <3>3, <3>4 DEF Taking
  <2> QED BY <2>1, <2>2, TurnTakes
<1>4. CASE ReadSend \/ ReadSendEnd \/ DiskFails \/ DirSend
  BY <1>4, RunSends, TurnRuns
<1>5. CASE \/ PacketLost \/ PhoneAnswered \/ PhoneGetsData \/ PhoneGetsEntry \/ PhoneGetsAck
  BY <1>5, TurnLeaves
<1>6. CASE \/ Timeout \/ PhoneCommands \/ PhoneCancels \/ PhoneSendsData \/ WriteLost
           \/ Disconnect \/ Connect \/ OtherSends
  BY <1>6, TurnAround
<1> QED BY <1>2, <1>3, <1>4, <1>5, <1>6 DEF Next, Update, Phone, Link, Taking

LEMMA UploadNext ==
  ASSUME IInv, IInv', Turn, Turn', UploadInv, Next, ~hurried', ~disk_error'
  PROVE  UploadInv'
<1>1. CASE RunIdle \/ RunRead \/ RunWrite \/ RunDir \/ RxDone \/ Finish \/ Timeout
  BY <1>1, RunsRestUpload
<1>2. CASE Taking
  <2>1. Takes
    BY <1>2, TakingTakes
  <2>2. CASE WriteData
    BY <2>2, WriteDataUpload
  <2>3. CASE WriteRepeated
    BY <2>3, WriteRepeatedUpload
  <2>4. CASE IdleWrite
    BY <2>4, IdleWriteUpload
  <2>5. CASE \/ IdleSimple \/ IdleOpenFails \/ IdleRead \/ IdleReadDir
             \/ Cancelled \/ ReadAck \/ Dropped \/ WriteCancel
    BY <2>1, <2>5, TakesRestUpload
  <2> QED BY <1>2, <2>2, <2>3, <2>4, <2>5 DEF Taking
<1>3. CASE ReadSend \/ ReadSendEnd \/ DiskFails \/ DirSend
  BY <1>3, SendsRestUpload
<1>4. CASE PhoneAnswered
  <2>1. CASE client' = "writing" /\ client # "writing"
    BY <1>4, <2>1, AnsweredUpload
  <2>2. CASE ~(client' = "writing" /\ client # "writing")
    BY <1>4, <2>2, LeavesRestUpload
  <2> QED BY <2>1, <2>2
<1>5. CASE PacketLost \/ PhoneGetsData \/ PhoneGetsEntry
  BY <1>5, LeavesRestUpload
<1>6. CASE PhoneGetsAck
  BY <1>6, GetsAckUpload
<1>7. CASE PhoneSendsData
  BY <1>7, SendsDataUpload
<1>8. CASE PhoneCommands \/ PhoneCancels \/ WriteLost \/ Disconnect \/ Connect \/ OtherSends
  BY <1>8, LinkRestsUpload
<1> QED BY <1>1, <1>2, <1>3, <1>4, <1>5, <1>6, <1>7, <1>8 DEF Next, Update, Phone, Link, Taking

(* What was hurried, or failed, stays so.                                    *)
LEMMA HistoryStays ==
  ASSUME Next
  PROVE  (hurried => hurried') /\ (disk_error => disk_error')
<1>1. CASE Update
  <2>1. CASE IdleRead \/ WriteData
    <3>1. UNCHANGED hurried /\ (disk_error' = disk_error \/ disk_error' = TRUE)
      BY <2>1 DEF IdleRead, WriteData
    <3> QED BY <3>1
  <2>2. CASE Finish
    <3>1. UNCHANGED <<hurried, disk_error>>
      BY <2>2 DEF Finish
    <3> QED BY <3>1
  <2>3. CASE ~IdleRead /\ ~WriteData /\ ~Finish
    <3>1. UNCHANGED histVars
      BY <1>1, <2>3 DEF Update, RunIdle, RunRead, RunWrite, RunDir, Begin, IdleSimple,
         IdleOpenFails, IdleWrite, IdleReadDir, Cancelled, ReadAck, Dropped, WriteRepeated,
         WriteCancel, RxDone, ReadSend, ReadSendEnd, DiskFails, DirSend, FromTx
    <3> QED BY <3>1 DEF histVars
  <2> QED BY <2>1, <2>2, <2>3
<1>2. CASE Phone
  <2>1. CASE PhoneCommands
    <3>1. hurried' = (hurried \/ rx # <<>> \/ \E i \in DOMAIN tx : Own(tx[i]))
      BY <2>1 DEF PhoneCommands
    <3>2. UNCHANGED disk_error
      BY <2>1 DEF PhoneCommands, Writes
    <3> QED BY <3>1, <3>2
  <2>2. CASE ~PhoneCommands
    <3>1. UNCHANGED <<hurried, disk_error>>
      BY <1>2, <2>2 DEF Phone, PhoneAnswered, PhoneGetsData, PhoneGetsEntry, PhoneGetsAck,
         PhoneCancels, PhoneSendsData, Listens, Acknowledges, FromPhone, Writes
    <3> QED BY <3>1
  <2> QED BY <2>1, <2>2
<1>3. CASE Link \/ Timeout
  BY <1>3 DEF Link, Timeout, PacketLost, WriteLost, Disconnect, Connect, OtherSends, FromPhone,
     histVars
<1> QED BY <1>1, <1>2, <1>3 DEF Next

-----------------------------------------------------------------------------
(* A download that is not hurried is safe *)

Live        == client = "reading" \/ (client = "READ" /\ Answered(tx, "READ"))
Downloading == Live \/ Has(rx, {"FILE_ACK"})
Reading     == Downloading \/ state = "READ" \/ next_state = "READ"
Opened      == next_state = "READ" /\ (Between \/ state = "IDLE")

Windows ==
  /\ next_ack <= accepted /\ accepted <= next_ack + Window
  /\ accepted <= next_packet + Window
  /\ accepted <= FileLength + 1 /\ next_packet <= FileLength + 1
  /\ file_pos = Least(next_packet, FileLength)
  /\ last_packet \in {Never, FileLength + 1}
  /\ last_packet = Never => next_packet <= FileLength /\ accepted <= FileLength

Download ==
  /\ Downloading => next_state \in {"IDLE", "READ"} /\ ~Has(rx, Commands)
  /\ Reading => Windows
  /\ Opened => next_ack # last_packet
  /\ client = "READ" /\ Answered(tx, "READ") => accepted = 0
  /\ client = "reading" =>
       got \in Seq(Chunks) /\ accepted = Len(got) /\ \A i \in DOMAIN got : got[i].c = i - 1

(* A chunk on its way to the phone is within a window of the one that it     *)
(* expects, and the chunks behind it are not more than a window older.       *)
FlyFits(q, i) ==
  /\ q[i].n = q[i].c % Modulus /\ q[i].c <= FileLength
  /\ q[i].c = FileLength => last_packet # Never
  /\ accepted <= q[i].c + Window
  /\ q[i].c < next_ack + Window /\ q[i].c < next_packet + Window
  /\ \A j \in DOMAIN q : i < j /\ q[j].kind = "FILE_DATA" => q[i].c < q[j].c + Window
Flying == Live => \A i \in DOMAIN tx : tx[i].kind = "FILE_DATA" => FlyFits(tx, i)

(* An acknowledgement on its way back is for a chunk the phone has, within a *)
(* window of the next one the sender waits for.                              *)
ComeFits(q, i) ==
  /\ q[i].n = q[i].c % Modulus /\ q[i].c < accepted /\ next_ack <= q[i].c + Window
  /\ \A j \in DOMAIN q : i < j /\ q[j].kind = "FILE_ACK" => q[i].c < q[j].c + Window
Behind(q, i, t) == \A j \in DOMAIN t : t[j].kind = "FILE_DATA" => q[i].c < t[j].c + Window
Coming == \A i \in DOMAIN rx : rx[i].kind = "FILE_ACK" =>
            ComeFits(rx, i) /\ (Live => Behind(rx, i, tx))

DownloadInv == accepted \in Nat /\ Download /\ Flying /\ Coming

(* What is left of a queue fits as before.                                   *)
LEMMA FlyKept ==
  ASSUME IInv, IInv', Live, Flying, Keeps(tx', tx, {"FILE_DATA"}),
         NEW i \in DOMAIN tx', tx'[i].kind = "FILE_DATA"
  PROVE  \E k \in DOMAIN tx : /\ tx'[i] = tx[k] /\ FlyFits(tx, k) /\ tx[k].c \in Nat
                              /\ i \in Nat /\ k \in Nat /\ i <= k
                              /\ \A j \in DOMAIN tx' : i < j /\ tx'[j].kind = "FILE_DATA"
                                   => tx'[i].c < tx'[j].c + Window
<1>1. PICK d \in {0, 1} : \A j \in DOMAIN tx' : tx'[j].kind = "FILE_DATA" =>
             j + d \in DOMAIN tx /\ tx'[j] = tx[j + d]
  BY DEF Keeps
<1>2. tx \in Seq(Packets) /\ tx' \in Seq(Packets)
  BY DEF IInv, Typed
<1>3. i \in Nat /\ \A j \in DOMAIN tx' : j \in Nat
  BY <1>2, InQueue
<1>4. i + d \in DOMAIN tx /\ tx'[i] = tx[i + d] /\ FlyFits(tx, i + d)
  BY <1>1 DEF Flying
<1>5. tx[i + d].c \in Nat
  BY <1>2, <1>4, InQueue
<1>6. ASSUME NEW j \in DOMAIN tx', i < j, tx'[j].kind = "FILE_DATA"
      PROVE  tx'[i].c < tx'[j].c + Window
  <2>1. i + d < j + d /\ j + d \in DOMAIN tx /\ tx[j + d] = tx'[j]
    BY <1>1, <1>3, <1>6
  <2> QED BY <1>4, <1>6, <2>1 DEF FlyFits
<1>7. i + d \in Nat /\ i <= i + d
  BY <1>3
<1> QED BY <1>3, <1>4, <1>5, <1>6, <1>7

LEMMA ComeKept ==
  ASSUME IInv, IInv', Coming, Keeps(rx', rx, {"FILE_ACK"}),
         NEW i \in DOMAIN rx', rx'[i].kind = "FILE_ACK"
  PROVE  \E k \in DOMAIN rx : /\ rx'[i] = rx[k] /\ ComeFits(rx, k) /\ rx[k].c \in Nat
                              /\ Live => Behind(rx, k, tx)
                              /\ \A j \in DOMAIN rx' : i < j /\ rx'[j].kind = "FILE_ACK"
                                   => rx'[i].c < rx'[j].c + Window
<1>1. PICK d \in {0, 1} : \A j \in DOMAIN rx' : rx'[j].kind = "FILE_ACK" =>
             j + d \in DOMAIN rx /\ rx'[j] = rx[j + d]
  BY DEF Keeps
<1>2. rx \in Seq(Packets) /\ rx' \in Seq(Packets)
  BY DEF IInv, Typed
<1>3. i \in Nat /\ \A j \in DOMAIN rx' : j \in Nat
  BY <1>2, InQueue
<1>4. /\ i + d \in DOMAIN rx /\ rx'[i] = rx[i + d] /\ ComeFits(rx, i + d)
      /\ Live => Behind(rx, i + d, tx)
  BY <1>1 DEF Coming
<1>5. rx[i + d].c \in Nat
  BY <1>2, <1>4, InQueue
<1>6. ASSUME NEW j \in DOMAIN rx', i < j, rx'[j].kind = "FILE_ACK"
      PROVE  rx'[i].c < rx'[j].c + Window
  <2>1. i + d < j + d /\ j + d \in DOMAIN rx /\ rx[j + d] = rx'[j]
    BY <1>1, <1>3, <1>6
  <2> QED BY <1>4, <1>6, <2>1 DEF ComeFits
<1> QED BY <1>4, <1>5, <1>6

LEMMA BehindKept ==
  ASSUME NEW i, NEW k, rx'[i] = rx[k], Behind(rx, k, tx), Keeps(tx', tx, {"FILE_DATA"})
  PROVE  Behind(rx', i, tx')
<1>1. PICK d \in {0, 1} : \A j \in DOMAIN tx' : tx'[j].kind = "FILE_DATA" =>
             j + d \in DOMAIN tx /\ tx'[j] = tx[j + d]
  BY DEF Keeps
<1> QED BY <1>1 DEF Behind

(* A step that sends nothing of the file and accepts nothing of it.          *)
LEMMA DownloadRests ==
  ASSUME IInv, IInv', DownloadInv,
         Keeps(rx', rx, {"FILE_ACK"}), Keeps(tx', tx, {"FILE_DATA"}),
         client' = "reading" => client = "reading" /\ got' = got,
         client' = "READ" /\ Answered(tx', "READ")
           => client = "READ" /\ Answered(tx, "READ"),
         Downloading' => ~Has(rx', Commands),
         Opened' => next_ack' # last_packet',
         accepted' \in Nat,
         \/ /\ UNCHANGED <<next_packet, next_ack, last_packet, file_pos, accepted>>
            /\ state' \in {state, next_state, "IDLE"} /\ next_state' \in {next_state, "IDLE"}
         \/ ~Downloading /\ state' # "READ" /\ next_state' # "READ"
  PROVE  DownloadInv'
<1>1. /\ Live' => Live
      /\ Downloading' => Downloading
  <2>1. Has(rx', {"FILE_ACK"}) => Has(rx, {"FILE_ACK"})
    BY KeptHas
  <2> QED BY <2>1 DEF Live, Downloading
<1>2. CASE ~Downloading /\ state' # "READ" /\ next_state' # "READ"
  <2>1. ~Live' /\ ~Has(rx', {"FILE_ACK"}) /\ ~Downloading' /\ ~Reading'
    BY <1>1, <1>2 DEF Downloading, Reading
  <2>2. client' # "reading" /\ ~(client' = "READ" /\ Answered(tx', "READ"))
    BY <2>1 DEF Live
  <2>3. Download'
    BY <2>1, <2>2 DEF Download
  <2>4. Flying' /\ Coming'
    BY <2>1 DEF Flying, Coming, Has
  <2> QED BY <2>3, <2>4 DEF DownloadInv
<1>3. CASE /\ UNCHANGED <<next_packet, next_ack, last_packet, file_pos, accepted>>
           /\ state' \in {state, next_state, "IDLE"} /\ next_state' \in {next_state, "IDLE"}
  <2>1. Reading' => Reading
    BY <1>1, <1>3 DEF Reading
  <2>2. Download'
    <3>1. Reading' => Windows'
      BY <1>3, <2>1 DEF DownloadInv, Download, Windows
    <3>2. Downloading' => next_state' \in {"IDLE", "READ"}
      BY <1>1, <1>3 DEF DownloadInv, Download
    <3>3. /\ client' = "READ" /\ Answered(tx', "READ") => accepted' = 0
          /\ client' = "reading" => /\ got' \in Seq(Chunks) /\ accepted' = Len(got')
                                    /\ \A i \in DOMAIN got' : got'[i].c = i - 1
      BY <1>3 DEF DownloadInv, Download
    <3> QED BY <3>1, <3>2, <3>3 DEF Download
  <2>3. Flying'
    <3> SUFFICES ASSUME Live', NEW i \in DOMAIN tx', tx'[i].kind = "FILE_DATA"
                 PROVE  FlyFits(tx, i)'
      BY DEF Flying
    <3>1. Live /\ Flying
      BY <1>1 DEF DownloadInv
    <3>2. PICK k \in DOMAIN tx :
               /\ tx'[i] = tx[k] /\ FlyFits(tx, k)
               /\ \A j \in DOMAIN tx' : i < j /\ tx'[j].kind = "FILE_DATA"
                    => tx'[i].c < tx'[j].c + Window
      BY <3>1, FlyKept
    <3> QED BY <1>3, <3>2 DEF FlyFits
  <2>4. Coming'
    <3> SUFFICES ASSUME NEW i \in DOMAIN rx', rx'[i].kind = "FILE_ACK"
                 PROVE  ComeFits(rx, i)' /\ (Live' => Behind(rx, i, tx)')
      BY DEF Coming
    <3>1. Coming
      BY DEF DownloadInv
    <3>2. PICK k \in DOMAIN rx :
               /\ rx'[i] = rx[k] /\ ComeFits(rx, k) /\ (Live => Behind(rx, k, tx))
               /\ \A j \in DOMAIN rx' : i < j /\ rx'[j].kind = "FILE_ACK"
                    => rx'[i].c < rx'[j].c + Window
      BY <3>1, ComeKept
    <3>3. ComeFits(rx, i)'
      BY <1>3, <3>2 DEF ComeFits
    <3>4. Live' => Behind(rx, i, tx)'
      BY <1>1, <3>2, BehindKept
    <3> QED BY <3>3, <3>4
  <2> QED BY <1>3, <2>2, <2>3, <2>4 DEF DownloadInv
<1> QED BY <1>2, <1>3

LEMMA StillRests ==
  ASSUME IInv, IInv', DownloadInv,
         UNCHANGED <<rx, tx, client, got, next_packet, next_ack, last_packet, file_pos, accepted>>,
         state' \in {state, next_state, "IDLE"}, next_state' \in {next_state, "IDLE"},
         Opened' => next_ack' # last_packet'
  PROVE  DownloadInv'
<1>1. Keeps(rx', rx, {"FILE_ACK"}) /\ Keeps(tx', tx, {"FILE_DATA"})
  BY SameKept DEF IInv, Typed
<1>2. Downloading' => ~Has(rx', Commands)
  BY DEF Downloading, Live, DownloadInv, Download
<1>3. accepted' \in Nat
  BY DEF DownloadInv
<1> QED BY <1>1, <1>2, <1>3, DownloadRests

LEMMA RunsRestDownload ==
  ASSUME IInv, IInv', DownloadInv,
         \/ RunIdle \/ RunWrite \/ RunDir \/ RxDone \/ Finish \/ Timeout
         \/ RunRead /\ ~timeout_flag
  PROVE  DownloadInv'
<1> DEFINE Still == UNCHANGED <<rx, tx, client, got, next_packet, next_ack, last_packet, file_pos,
                                accepted>>
<1>1. CASE RunIdle \/ RunWrite \/ RunDir \/ (RunRead /\ ~timeout_flag)
  <2>1. Still /\ state' = state /\ next_state' \in {next_state, "IDLE"}
        /\ update' # "none" /\ next_state = state
    BY <1>1 DEF IInv, Phases, Between, RunIdle, RunRead, RunWrite, RunDir, Begin, phoneVars,
                histVars
  <2>2. ~Opened'
    BY <2>1 DEF Opened, Between
  <2> QED BY <2>1, <2>2, StillRests
<1>2. CASE RxDone \/ Timeout
  <2>1. Still /\ UNCHANGED <<state, next_state>> /\ (update' # "none" \/ update' = update)
    BY <1>2 DEF RxDone, Timeout, phoneVars, fileVars, windowVars, histVars
  <2>2. Opened' => Opened
    BY <2>1 DEF Opened, Between
  <2>3. Opened' => next_ack' # last_packet'
    BY <2>1, <2>2 DEF DownloadInv, Download
  <2> QED BY <2>1, <2>3, StillRests
<1>3. CASE Finish
  <2>1. Still /\ next_state' \in {next_state, "IDLE"} /\ state' = next_state'
        /\ (state = "READ" /\ next_ack = last_packet => next_state' = "IDLE")
    BY <1>3 DEF Finish, phoneVars, windowVars
  <2>2. ASSUME Opened' PROVE next_ack' # last_packet'
    <3>1. next_state = "READ"
      BY <2>1, <2>2 DEF Opened
    <3>2. CASE state = "READ"
      BY <2>1, <2>2, <3>2 DEF Opened
    <3>3. CASE state # "READ"
      <4>1. Opened
        BY <3>1, <3>3 DEF IInv, Phases, Opened
      <4> QED BY <2>1, <4>1 DEF DownloadInv, Download
    <3> QED BY <3>2, <3>3
  <2> QED BY <2>1, <2>2, StillRests
<1> QED BY <1>1, <1>2, <1>3

(* The sender goes back to the first chunk that is not acknowledged, which   *)
(* is one of the file.                                                       *)
LEMMA RunReadDownload ==
  ASSUME IInv, IInv', DownloadInv, RunRead, timeout_flag
  PROVE  DownloadInv'
<1>1. /\ UNCHANGED <<rx, tx, client, got, next_ack, last_packet, accepted, state>>
      /\ next_packet' = next_ack /\ file_pos' = next_ack
      /\ state = "READ" /\ next_state = "READ" /\ Between /\ update' = "rx"
      /\ next_state' \in {next_state, "IDLE"}
  BY DEF RunRead, Begin, Seek, IInv, Phases, phoneVars, histVars, Between
<1>2. /\ next_packet \in Nat /\ next_ack \in Nat /\ accepted \in Nat /\ Window \in Nat
      /\ FileLength \in Nat /\ last_packet \in Nat /\ Never = FileLength + 2
  BY SizeAssumption DEF IInv, Typed, TypeOK, DownloadInv, Never
<1>3. Windows /\ next_ack # last_packet
  BY <1>1 DEF DownloadInv, Download, Reading, Opened
<1>4. next_ack <= FileLength
  BY <1>2, <1>3 DEF Windows
<1>5. Windows'
  BY <1>1, <1>2, <1>3, <1>4 DEF Windows, Least
<1>6. Download'
  <2>1. Downloading' => Downloading
    BY <1>1 DEF Downloading, Live
  <2>2. Downloading' => next_state' \in {"IDLE", "READ"} /\ ~Has(rx', Commands)
    BY <1>1, <2>1 DEF DownloadInv, Download
  <2>3. ~Opened'
    BY <1>1 DEF Opened, Between
  <2>4. /\ client' = "READ" /\ Answered(tx', "READ") => accepted' = 0
        /\ client' = "reading" => /\ got' \in Seq(Chunks) /\ accepted' = Len(got')
                                  /\ \A i \in DOMAIN got' : got'[i].c = i - 1
    BY <1>1 DEF DownloadInv, Download
  <2> QED BY <1>5, <2>2, <2>3, <2>4 DEF Download
<1>7. Flying'
  <2>1. \A i \in DOMAIN tx : FlyFits(tx, i) => FlyFits(tx, i)'
    BY <1>1 DEF FlyFits
  <2> QED BY <1>1, <2>1 DEF DownloadInv, Flying, Live
<1>8. Coming'
  BY <1>1 DEF DownloadInv, Coming, ComeFits, Behind, Live
<1> QED BY <1>1, <1>2, <1>6, <1>7, <1>8 DEF DownloadInv

LEMMA TakesRestDownload ==
  ASSUME IInv, IInv', Turn, Turn', DownloadInv, Taking, Takes,
         ~ReadAck, ~(IdleRead /\ next_state' = "READ")
  PROVE  DownloadInv'
<1>1. /\ Typed /\ rx \in Seq(Packets) /\ rx # <<>> /\ tx \in Seq(Packets) /\ rx' = Tail(rx)
      /\ UNCHANGED <<client, got, state, update>> /\ update = "rx" /\ next_state = state
  BY DEF IInv, Typed, Takes, TakeRx, phoneVars
<1>2. Keeps(rx', rx, {"FILE_ACK"}) /\ ~Has(rx', Commands)
  BY <1>1, TailKept, AloneTaken DEF Turn
<1>3. ~Opened' /\ accepted' \in Nat
  BY <1>1 DEF Opened, Between, Taking, IdleSimple, IdleOpenFails, IdleRead, IdleWrite,
     IdleReadDir, Cancelled, Dropped, WriteData, WriteRepeated, WriteCancel, DownloadInv, histVars
<1>4. CASE IdleSimple \/ IdleOpenFails \/ IdleRead \/ IdleWrite \/ IdleReadDir
  <2>1. PICK p \in Packets : /\ Send(p) /\ p.kind \in {"ACK", "NAK"}
                             /\ p = Ack("READ") => next_state' = "READ"
    BY <1>1, <1>4, IdleAnswers
  <2>2. Keeps(tx', tx, {"FILE_DATA"})
    BY <1>1, <2>1, SentKept
  <2>3. next_state' # "READ" /\ state' # "READ"
    BY <1>1, <1>4 DEF IdleSimple, IdleOpenFails, IdleRead, IdleWrite, IdleReadDir, Receiving
  <2>4. Answered(tx', "READ") => Answered(tx, "READ")
    BY <1>1, <2>1, <2>3, AnsweredSent
  <2>5. \/ /\ UNCHANGED <<next_packet, next_ack, last_packet, file_pos, accepted>>
           /\ next_state' = next_state
        \/ ~Downloading
    <3>1. CASE IdleSimple \/ IdleOpenFails
      BY <3>1 DEF IdleSimple, IdleOpenFails, windowVars, fileVars, histVars
    <3>2. CASE IdleRead \/ IdleWrite \/ IdleReadDir
      <4>1. Head1.kind \in {"READ", "WRITE", "READ_DIR"}
        BY <3>2 DEF IdleRead, IdleWrite, IdleReadDir
      <4>2. Has(rx, Commands)
        BY <1>1, <4>1, CommandEnds
      <4> QED BY <4>2 DEF DownloadInv, Download
    <3> QED BY <1>4, <3>1, <3>2
  <2> QED BY <1>1, <1>2, <1>3, <2>2, <2>3, <2>4, <2>5, DownloadRests
<1>5. CASE Cancelled \/ Dropped \/ WriteCancel
  <2>1. /\ tx' = tx \/ tx' = <<>>
        /\ next_state' \in {next_state, "IDLE"}
        /\ UNCHANGED <<next_packet, next_ack, last_packet, file_pos, accepted>>
    BY <1>5 DEF Cancelled, Dropped, WriteCancel, windowVars, fileVars, histVars
  <2>2. Keeps(tx', tx, {"FILE_DATA"})
    BY <1>1, <2>1, SameKept
  <2>3. Answered(tx', "READ") => Answered(tx, "READ")
    BY <2>1 DEF Answered
  <2> QED BY <1>1, <1>2, <1>3, <2>1, <2>2, <2>3, DownloadRests
<1>6. CASE WriteData \/ WriteRepeated
  <2>1. next_state = "WRITE" /\ next_state' \in {"WRITE", "IDLE"} /\ state' = "WRITE"
    BY <1>1, <1>6 DEF WriteData, WriteRepeated, Receiving
  <2>2. ~Downloading
    BY <2>1 DEF DownloadInv, Download
  <2>3. tx' = tx \/ \E p \in Packets : Send(p) /\ p.kind \notin {"FILE_DATA", "ACK"}
    <3>1. Head1.kind = "FILE_DATA" /\ Head1 \in Packets
      BY <1>1, <1>6, Taken DEF WriteData, WriteRepeated, Head1
    <3>2. FileAck(Head1) \in Packets /\ FileAck(Head1).kind = "FILE_ACK"
      BY <3>1, PacketTypes DEF FileAck, Packet
    <3> QED BY <1>6, <3>2 DEF WriteData, WriteRepeated
  <2>4. Keeps(tx', tx, {"FILE_DATA", "ACK"})
    BY <1>1, <2>3, SentKept, SameKept
  <2>5. Keeps(tx', tx, {"FILE_DATA"}) /\ (Answered(tx', "READ") => Answered(tx, "READ"))
    BY <2>4, KeptLess, KeptAnswered
  <2> QED BY <1>1, <1>2, <1>3, <2>1, <2>2, <2>5, DownloadRests
<1> QED BY <1>4, <1>5, <1>6 DEF Taking

(* The file is opened: nothing of it is on its way.                          *)
LEMMA IdleReadDownload ==
  ASSUME IInv, IInv', Turn, Turn', DownloadInv, IdleRead, next_state' = "READ"
  PROVE  DownloadInv'
<1>1. /\ Typed /\ rx \in Seq(Packets) /\ rx # <<>> /\ tx \in Seq(Packets) /\ rx' = Tail(rx)
      /\ Head1.kind = "READ" /\ UNCHANGED <<client, state>> /\ state = "IDLE"
      /\ next_state = "IDLE"
  BY DEF IdleRead, Receiving, FromRx, TakeRx, IInv, Typed, phoneVars
<1>2. /\ file_pos' = 0 /\ next_packet' = 0 /\ next_ack' = 0 /\ last_packet' = Never
      /\ accepted' = 0 /\ Send(Ack("READ"))
  BY <1>1 DEF IdleRead
<1>3. /\ Has(rx, Commands) /\ ~HasOwn(tx) /\ ~Has(rx, {"FILE_DATA", "FILE_ACK"})
  BY <1>1, CommandEnds
<1>4. ~Downloading
  BY <1>3 DEF DownloadInv, Download
<1>5. ~Has(rx', Commands) /\ ~Has(rx', {"FILE_ACK"})
  <2>1. ~Has(rx', Commands)
    BY <1>1, AloneTaken DEF Turn
  <2>2. Has(rx', {"FILE_ACK"}) => Has(rx, {"FILE_ACK"})
    BY <1>1, TailKept, KeptHas
  <2> QED BY <2>1, <2>2, <1>4 DEF Downloading
<1>6. ~Has(tx', {"FILE_DATA"})
  <2>1. Ack("READ") \in Packets /\ Ack("READ").kind = "ACK"
    BY PacketTypes DEF Ack, Packet, Kinds
  <2>2. Has(tx', {"FILE_DATA"}) => Has(tx, {"FILE_DATA"})
    BY <1>1, <1>2, <2>1, SentKept, KeptHas
  <2>3. ~Has(tx, {"FILE_DATA"})
    BY <1>3 DEF Has, HasOwn, Own
  <2> QED BY <2>2, <2>3
<1>7. Flying' /\ Coming'
  BY <1>5, <1>6 DEF Flying, Coming, Has
<1>8. Download'
  <2>1. client' # "reading"
    BY <1>1, <1>4 DEF Downloading, Live
  <2>2. Never # 0 /\ 0 <= FileLength /\ 0 <= Window /\ FileLength \in Nat /\ Window \in Nat
    BY SizeAssumption DEF Never
  <2>3. Windows'
    BY <1>2, <2>2 DEF Windows, Least
  <2> QED BY <1>2, <1>5, <2>1, <2>2, <2>3 DEF Download
<1> QED BY <1>2, <1>7, <1>8 DEF DownloadInv

(* An acknowledgement moves the window only if it is for the chunk the       *)
(* sender waits for.                                                         *)
LEMMA ReadAckDownload ==
  ASSUME IInv, IInv', Turn, Turn', DownloadInv, ReadAck
  PROVE  DownloadInv'
<1>1. /\ rx \in Seq(Packets) /\ rx # <<>> /\ rx' = Tail(rx) /\ tx \in Seq(Packets)
      /\ UNCHANGED <<tx, client, got, state, next_state, update, next_packet, last_packet,
                     file_pos, accepted>>
      /\ state = "READ" /\ next_state = "READ" /\ update = "rx" /\ Head1.kind = "FILE_ACK"
  BY DEF ReadAck, Receiving, FromRx, TakeRx, IInv, Typed, phoneVars, fileVars, histVars
<1>2. /\ next_packet \in Nat /\ next_ack \in Nat /\ accepted \in Nat /\ Window \in Nat \ {0}
      /\ Modulus \in Nat /\ Modulus > 3 * Window
  BY SizeAssumption DEF IInv, Typed, TypeOK, DownloadInv
<1>3. /\ Head1 = rx[1] /\ 1 \in DOMAIN rx /\ Head1.c \in Nat
      /\ Head1.n = Head1.c % Modulus
      /\ Head1.c < accepted /\ next_ack <= Head1.c + Window
      /\ ComeFits(rx, 1) /\ Downloading
  <2>1. Head1 = rx[1] /\ 1 \in DOMAIN rx
    BY <1>1, TailKept DEF Head1
  <2>2. Head1.c \in Nat
    BY <1>1, <2>1, InQueue
  <2>3. ComeFits(rx, 1) /\ Downloading
    BY <1>1, <2>1 DEF DownloadInv, Coming, Downloading, Has
  <2> QED BY <2>1, <2>2, <2>3 DEF ComeFits
<1>4. Windows
  BY <1>3 DEF DownloadInv, Download, Reading
<1>5. Keeps(rx', rx, {"FILE_ACK"}) /\ ~Has(rx', Commands) /\ Keeps(tx', tx, {"FILE_DATA"})
  BY <1>1, TailKept, AloneTaken, SameKept DEF Turn
<1>6. ~Opened'
  BY <1>1 DEF Opened, Between
<1>7. CASE ~AckExpected(Head1.n)
  <2>1. UNCHANGED next_ack
    BY <1>7 DEF ReadAck
  <2> QED BY <1>1, <1>2, <1>5, <1>6, <2>1, DownloadRests
<1>8. CASE AckExpected(Head1.n)
  <2>1. next_ack' = next_ack + 1
    BY <1>8 DEF ReadAck
  <2>2. Head1.c = next_ack
    <3>1. Head1.c % Modulus = next_ack % Modulus
      BY <1>3, <1>8 DEF AckExpected
    <3>2. Head1.c - next_ack < Modulus /\ next_ack - Head1.c < Modulus
      BY <1>2, <1>3, <1>4 DEF Windows
    <3> QED BY <1>2, <1>3, <3>1, <3>2, SameResidue
  <2>3. Windows'
    <3>1. next_ack' <= accepted' /\ accepted' <= next_ack' + Window
      BY <1>1, <1>2, <1>3, <1>4, <2>1, <2>2 DEF Windows
    <3> QED BY <1>1, <1>4, <3>1 DEF Windows
  <2>4. Download'
    <3>1. UNCHANGED <<client, next_state, accepted, got, tx>>
      BY <1>1
    <3> QED BY <1>1, <1>5, <1>6, <2>3, <3>1 DEF DownloadInv, Download
  <2>5. Flying'
    <3> SUFFICES ASSUME Live', NEW i \in DOMAIN tx, tx[i].kind = "FILE_DATA"
                 PROVE  FlyFits(tx, i)'
      BY <1>1 DEF Flying
    <3>1. FlyFits(tx, i) /\ tx[i].c \in Nat
      BY <1>1, InQueue DEF DownloadInv, Flying, Live
    <3>2. tx[i].c < next_ack' + Window
      BY <1>2, <2>1, <3>1 DEF FlyFits
    <3> QED BY <1>1, <3>1, <3>2 DEF FlyFits
  <2>6. Coming'
    <3> SUFFICES ASSUME NEW i \in DOMAIN rx', rx'[i].kind = "FILE_ACK"
                 PROVE  ComeFits(rx, i)' /\ (Live' => Behind(rx, i, tx)')
      BY DEF Coming
    <3>1. i + 1 \in DOMAIN rx /\ rx'[i] = rx[i + 1] /\ 1 < i + 1
      <4>1. rx' \in Seq(Packets)
        BY DEF IInv, Typed
      <4> QED BY <1>1, <4>1, TailKept
    <3>2. /\ ComeFits(rx, i + 1) /\ (Live => Behind(rx, i + 1, tx)) /\ rx'[i].c \in Nat
      BY <1>1, <3>1, InQueue DEF DownloadInv, Coming
    <3>3. next_ack' <= rx'[i].c + Window
      <4>1. next_ack < rx'[i].c + Window
        BY <1>3, <2>2, <3>1 DEF ComeFits
      <4> QED BY <1>2, <2>1, <3>2, <4>1
    <3>4. ASSUME NEW j \in DOMAIN rx', i < j, rx'[j].kind = "FILE_ACK"
          PROVE  rx'[i].c < rx'[j].c + Window
      <4>1. i + 1 < j + 1 /\ j + 1 \in DOMAIN rx /\ rx[j + 1] = rx'[j]
        <5>1. rx' \in Seq(Packets)
          BY DEF IInv, Typed
        <5> QED BY <1>1, <3>4, <5>1, TailKept
      <4> QED BY <3>1, <3>2, <3>4, <4>1 DEF ComeFits
    <3>5. ComeFits(rx, i)'
      BY <1>1, <3>1, <3>2, <3>3, <3>4 DEF ComeFits
    <3>6. Live' => Behind(rx, i, tx)'
      BY <1>1, <3>1, <3>2 DEF Live, Behind
    <3> QED BY <3>5, <3>6
  <2> QED BY <1>1, <1>2, <2>4, <2>5, <2>6 DEF DownloadInv
<1> QED BY <1>7, <1>8

LEMMA SendsRestDownload ==
  ASSUME IInv, IInv', Turn, Turn', DownloadInv, DiskFails \/ DirSend
  PROVE  DownloadInv'
<1>1. /\ rx = <<>> /\ UNCHANGED <<rx, client, got, state, update>> /\ update = "tx"
      /\ next_state = state /\ state \in {"READ", "DIR"} /\ next_state' \in {next_state, "IDLE"}
      /\ Keeps(tx', tx, {"FILE_ACK", "ACK"}) /\ rx \in Seq(Packets) /\ tx \in Seq(Packets)
  BY RunSends DEF DiskFails, DirSend, FromTx, IInv, Typed
<1>2. ~Has(rx', Commands) /\ Keeps(rx', rx, {"FILE_ACK"})
  <2>1. ~Has(<<>>, Commands)
    BY DEF Has
  <2> QED BY <1>1, <2>1, SameKept
<1>3. Answered(tx', "READ") => Answered(tx, "READ")
  BY <1>1, KeptLess, KeptAnswered
<1>4. ~Opened' /\ accepted' \in Nat
  BY <1>1 DEF Opened, Between, DiskFails, DirSend, FromTx, histVars, DownloadInv
<1>5. CASE DiskFails
  <2>1. UNCHANGED <<tx, next_packet, next_ack, last_packet, file_pos, accepted>>
    BY <1>5 DEF DiskFails, fileVars, windowVars, FromTx, histVars
  <2> QED BY <1>1, <1>2, <1>3, <1>4, <2>1, SameKept, DownloadRests
<1>6. CASE DirSend
  <2>1. state = "DIR" /\ Send(FileInfo(next_packet, file_pos, source))
    BY <1>6 DEF DirSend
  <2>2. ~Downloading /\ state' # "READ" /\ next_state' # "READ"
    BY <1>1, <2>1 DEF DownloadInv, Download
  <2>3. FileInfo(next_packet, file_pos, source) \in Packets
        /\ FileInfo(next_packet, file_pos, source).kind = "FILE_INFO"
    <3>1. next_packet \in Int /\ file_pos \in Nat /\ source \in Nat
      BY DEF IInv, Typed, TypeOK
    <3> QED BY <3>1, PacketTypes DEF FileInfo, Packet
  <2>4. Keeps(tx', tx, {"FILE_DATA"})
    BY <2>1, <2>3, SentKept DEF IInv
  <2> QED BY <1>1, <1>2, <1>3, <1>4, <2>2, <2>4, DownloadRests
<1> QED BY <1>5, <1>6

(* A chunk of the file, or its end, is sent.                                 *)
LEMMA ReadSendDownload ==
  ASSUME IInv, IInv', Turn, Turn', DownloadInv, ReadSend \/ ReadSendEnd
  PROVE  DownloadInv'
<1>1. /\ rx = <<>> /\ UNCHANGED <<rx, client, got, state, update, next_ack, accepted, next_state>>
      /\ update = "tx" /\ state = "READ" /\ next_state = "READ" /\ tx \in Seq(Packets)
      /\ Keeps(tx', tx, {"FILE_ACK", "ACK"}) /\ TxRoom
      /\ next_packet < next_ack + Window /\ next_packet < last_packet
      /\ next_packet' = next_packet + 1
  BY RunSends DEF ReadSend, ReadSendEnd, SendingData, FromTx, fileVars, histVars, IInv, Typed
<1>2. /\ next_packet \in Nat /\ next_ack \in Nat /\ accepted \in Nat /\ Window \in Nat \ {0}
      /\ FileLength \in Nat /\ file_pos \in Nat /\ Never = FileLength + 2 /\ last_packet \in Nat
  BY SizeAssumption DEF IInv, Typed, TypeOK, DownloadInv, Never
<1>3. Windows
  BY <1>1 DEF DownloadInv, Download, Reading
<1>4. /\ Windows' /\ next_packet <= FileLength
      /\ Send(FileData(next_packet, next_packet, source))
      /\ last_packet # Never => last_packet' # Never
      /\ next_packet = FileLength => last_packet' # Never
  <2>1. CASE ReadSend
    <3>1. /\ file_pos < FileLength /\ Send(FileData(next_packet, file_pos, source))
          /\ file_pos' = file_pos + 1 /\ UNCHANGED last_packet
      BY <2>1 DEF ReadSend
    <3>2. file_pos = next_packet /\ next_packet < FileLength
      BY <1>2, <1>3, <3>1 DEF Windows, Least
    <3>3. Windows'
      BY <1>1, <1>2, <1>3, <3>1, <3>2 DEF Windows, Least
    <3> QED BY <1>2, <3>1, <3>2, <3>3
  <2>2. CASE ReadSendEnd
    <3>1. /\ file_pos >= FileLength /\ Send(FileData(next_packet, FileLength, source))
          /\ last_packet' = next_packet + 1 /\ UNCHANGED file_pos
      BY <2>2 DEF ReadSendEnd, fileVars
    <3>2. next_packet = FileLength /\ file_pos = FileLength
      BY <1>1, <1>2, <1>3, <3>1 DEF Windows, Least
    <3>3. Windows'
      BY <1>1, <1>2, <1>3, <3>1, <3>2 DEF Windows, Least
    <3> QED BY <1>2, <3>1, <3>2, <3>3
  <2> QED BY <2>1, <2>2
<1> DEFINE p == FileData(next_packet, next_packet, source)
<1>5. /\ p \in Packets /\ p.kind = "FILE_DATA" /\ p.c = next_packet
      /\ p.n = next_packet % Modulus /\ tx' = Append(tx, p)
  <2>1. p \in Packets
    <3>1. source \in Nat
      BY DEF IInv, Typed, TypeOK
    <3> QED BY <1>2, <3>1, PacketTypes
  <2>2. tx' = Append(tx, p)
    BY <1>1, <1>4 DEF Send
  <2>3. p.kind = "FILE_DATA" /\ p.c = next_packet /\ p.n = next_packet % Modulus
    BY DEF FileData, Packet
  <2> QED BY <2>1, <2>2, <2>3
<1> HIDE DEF p
<1>6. Live' => Live
  BY <1>1, KeptLess, KeptAnswered DEF Live
<1>7. Download'
  <2>1. ~Has(rx', Commands)
    BY <1>1 DEF Has
  <2>2. ~Opened'
    BY <1>1 DEF Opened, Between
  <2>3. /\ client' = "READ" /\ Answered(tx', "READ") => accepted' = 0
        /\ client' = "reading" => /\ got' \in Seq(Chunks) /\ accepted' = Len(got')
                                  /\ \A i \in DOMAIN got' : got'[i].c = i - 1
    BY <1>1, <1>6 DEF DownloadInv, Download, Live
  <2> QED BY <1>1, <1>4, <2>1, <2>2, <2>3 DEF Download
<1>8. Flying'
  <2>1. /\ \A i \in DOMAIN tx' : \/ i \in DOMAIN tx /\ tx'[i] = tx[i]
                                 \/ i = Len(tx) + 1 /\ tx'[i] = p
        /\ Len(tx) \in Nat /\ \A i \in DOMAIN tx : i \in Int /\ i <= Len(tx)
    BY <1>1, <1>5, OneMore
  <2> SUFFICES ASSUME Live', NEW i \in DOMAIN tx', tx'[i].kind = "FILE_DATA"
               PROVE  FlyFits(tx, i)'
    BY DEF Flying
  <2>2. CASE i \in DOMAIN tx /\ tx'[i] = tx[i]
    <3>1. FlyFits(tx, i) /\ tx[i].c \in Nat
      BY <1>1, <1>6, <2>2, InQueue DEF DownloadInv, Flying
    <3>2. tx[i].c < next_packet' + Window /\ tx[i].c < p.c + Window
      BY <1>1, <1>2, <1>5, <3>1 DEF FlyFits
    <3>3. \A j \in DOMAIN tx' : i < j /\ tx'[j].kind = "FILE_DATA"
                                  => tx'[i].c < tx'[j].c + Window
      BY <2>1, <2>2, <3>1, <3>2 DEF FlyFits
    <3>4. tx[i].c = FileLength => last_packet' # Never
      BY <1>4, <3>1 DEF FlyFits
    <3> QED BY <1>1, <2>2, <3>1, <3>2, <3>3, <3>4 DEF FlyFits
  <2>3. CASE i = Len(tx) + 1 /\ tx'[i] = p
    <3>1. \A j \in DOMAIN tx' : ~(i < j)
      BY <2>1, <2>3
    <3>2. /\ next_packet < next_packet' + Window /\ accepted' <= next_packet + Window
          /\ next_packet < next_ack' + Window
      BY <1>1, <1>2, <1>3 DEF Windows
    <3> QED BY <1>4, <1>5, <2>3, <3>1, <3>2 DEF FlyFits
  <2> QED BY <2>1, <2>2, <2>3
<1>9. Coming'
  BY <1>1 DEF Coming
<1> QED BY <1>1, <1>2, <1>7, <1>8, <1>9 DEF DownloadInv

(* A packet leaves the queue and the phone accepts nothing of a file.        *)
LEMMA LeavesRestDownload ==
  ASSUME IInv, IInv', Turn, Turn', DownloadInv,
         \/ PacketLost \/ PhoneGetsEntry \/ PhoneGetsAck
         \/ PhoneAnswered /\ ~(client' = "reading" /\ client # "reading")
         \/ PhoneGetsData /\ (client # "reading" \/ UNCHANGED <<rx, got>>)
  PROVE  DownloadInv'
<1>1. /\ tx # <<>> /\ tx' = Tail(tx) /\ tx \in Seq(Packets) /\ rx \in Seq(Packets)
  BY TurnLeaves
<1>2. Keeps(tx', tx, {"FILE_DATA"}) /\ (Answered(tx', "READ") => Answered(tx, "READ"))
  BY <1>1, TailKept, KeptAnswered
<1>3. UNCHANGED <<state, next_state, update, next_packet, next_ack, last_packet, file_pos>>
  BY DEF PacketLost, PhoneGetsData, PhoneGetsEntry, PhoneGetsAck, PhoneAnswered, Listens,
         Acknowledges, FromPhone, fileVars, windowVars
<1>4. UNCHANGED <<rx, accepted>>
  <2>1. CASE PacketLost \/ PhoneGetsEntry \/ PhoneGetsAck \/ PhoneAnswered
    BY <2>1 DEF PacketLost, PhoneGetsEntry, PhoneGetsAck, PhoneAnswered, Listens
  <2>2. CASE PhoneGetsData /\ client # "reading"
    BY <2>2 DEF PhoneGetsData, Listens
  <2>3. CASE PhoneGetsData /\ UNCHANGED <<rx, got>>
    BY <2>3 DEF PhoneGetsData, Listens, Acknowledges
  <2> QED BY <2>1, <2>2, <2>3
<1>5. /\ client' = client \/ client' \in {"none", "writing", "listing"}
      /\ client' = "reading" => client = "reading" /\ got' = got
  <2>1. CASE PacketLost \/ PhoneGetsAck
    BY <2>1 DEF PacketLost, PhoneGetsAck, phoneVars
  <2>2. CASE PhoneGetsEntry
    BY <2>2 DEF PhoneGetsEntry, Listens
  <2>3. CASE PhoneGetsData /\ client # "reading"
    BY <2>3 DEF PhoneGetsData, Listens
  <2>4. CASE PhoneGetsData /\ UNCHANGED <<rx, got>>
    BY <2>4 DEF PhoneGetsData, Listens, Acknowledges
  <2>5. CASE PhoneAnswered /\ ~(client' = "reading" /\ client # "reading")
    <3>1. Head(tx).kind \in {"ACK", "NAK"} => Head(tx).c # "reading"
      BY <1>1, Taken DEF Packets, Kinds
    <3> QED BY <2>5, <3>1 DEF PhoneAnswered, Listens
  <2> QED BY <2>1, <2>2, <2>3, <2>4, <2>5
<1>6. Keeps(rx', rx, {"FILE_ACK"})
  BY <1>1, <1>4, SameKept
<1>7. Opened' => next_ack' # last_packet'
  BY <1>3 DEF DownloadInv, Download, Opened, Between
<1>8. Downloading' => ~Has(rx', Commands)
  <2>1. Downloading' => Downloading
    BY <1>2, <1>4, <1>5 DEF Downloading, Live
  <2> QED BY <1>4, <2>1 DEF DownloadInv, Download
<1>9. accepted' \in Nat
  BY <1>4 DEF DownloadInv
<1>10. client' = "READ" /\ Answered(tx', "READ") => client = "READ" /\ Answered(tx, "READ")
  BY <1>2, <1>5
<1> QED BY <1>2, <1>3, <1>4, <1>5, <1>6, <1>7, <1>8, <1>9, <1>10, DownloadRests

(* The phone hears that the file is open.                                    *)
LEMMA AnsweredDownload ==
  ASSUME IInv, IInv', Turn, Turn', DownloadInv, PhoneAnswered, client' = "reading",
         client # "reading"
  PROVE  DownloadInv'
<1>1. /\ tx # <<>> /\ tx' = Tail(tx) /\ tx \in Seq(Packets) /\ rx \in Seq(Packets)
      /\ rx # <<>> /\ client \in Commands => ~HasOwn(tx)
  BY TurnLeaves
<1>2. /\ Head(tx) \in Packets /\ Head(tx) = tx[1] /\ 1 \in DOMAIN tx
      /\ Head(tx).kind \in {"ACK", "NAK"}
  BY <1>1, Taken, TailKept DEF PhoneAnswered
<1>3. /\ client = "READ" /\ Head(tx).kind = "ACK" /\ Head(tx).c = "READ"
      /\ got' = <<>> /\ UNCHANGED <<rx, state, next_state, update, file_pos, next_packet,
                                    next_ack, last_packet, accepted>>
  BY <1>2 DEF PhoneAnswered, Listens, FromPhone, fileVars, windowVars
<1>4. HasOwn(tx) /\ Answered(tx, "READ")
  <2>1. Head(tx) = Ack("READ")
    BY <1>2, <1>3 DEF Packets, Ack, Packet, Kinds
  <2> QED BY <1>2, <1>3, <2>1 DEF HasOwn, Own, Answered
<1>5. rx = <<>> /\ Live /\ Downloading /\ accepted = 0
  <2>1. client \in Commands
    BY <1>3 DEF Turn
  <2> QED BY <1>1, <1>3, <1>4, <2>1 DEF Live, Downloading, DownloadInv, Download
<1>6. Download'
  <2>1. Windows /\ next_state \in {"IDLE", "READ"} /\ ~Has(rx, Commands)
    BY <1>5 DEF DownloadInv, Download, Reading
  <2>2. Windows'
    BY <1>3, <2>1 DEF Windows
  <2>3. Opened' => next_ack' # last_packet'
    BY <1>3 DEF DownloadInv, Download, Opened, Between
  <2>4. <<>> \in Seq(Nat) /\ Len(<<>>) = 0 /\ DOMAIN <<>> = {}
    OBVIOUS
  <2> QED BY <1>3, <1>5, <2>1, <2>2, <2>3, <2>4 DEF Download
<1>7. Flying'
  <2> SUFFICES ASSUME NEW i \in DOMAIN tx', tx'[i].kind = "FILE_DATA" PROVE FlyFits(tx, i)'
    BY DEF Flying
  <2>1. Live /\ Flying /\ Keeps(tx', tx, {"FILE_DATA"})
    BY <1>1, <1>5, TailKept DEF DownloadInv
  <2>2. PICK k \in DOMAIN tx :
             /\ tx'[i] = tx[k] /\ FlyFits(tx, k)
             /\ \A j \in DOMAIN tx' : i < j /\ tx'[j].kind = "FILE_DATA"
                  => tx'[i].c < tx'[j].c + Window
    BY <2>1, FlyKept
  <2> QED BY <1>3, <2>2 DEF FlyFits
<1>8. Coming'
  BY <1>3, <1>5 DEF Coming
<1> QED BY <1>3, <1>6, <1>7, <1>8 DEF DownloadInv

LEMMA BehindSame ==
  ASSUME NEW i, Behind(rx, i, tx), Keeps(tx', tx, {"FILE_DATA"})
  PROVE  Behind(rx, i, tx')
<1>1. PICK d \in {0, 1} : \A j \in DOMAIN tx' : tx'[j].kind = "FILE_DATA" =>
             j + d \in DOMAIN tx /\ tx'[j] = tx[j + d]
  BY DEF Keeps
<1> QED BY <1>1 DEF Behind

(* An acknowledgement goes back for a chunk the phone has.                   *)
LEMMA AckBack ==
  ASSUME IInv, IInv', Turn, Turn', DownloadInv, PhoneGetsData, client = "reading",
         NEW p, p = Head(tx), tx # <<>>, p.c \in Nat,
         rx' = Written(FileAck(p)), p.c < accepted',
         \/ UNCHANGED <<got, accepted>>
         \/ accepted' = accepted + 1 /\ p.c = accepted /\ got' = Append(got, Brings(p))
  PROVE  DownloadInv'
<1>1. /\ tx' = Tail(tx) /\ tx \in Seq(Packets) /\ rx \in Seq(Packets) /\ rx' \in Seq(Packets)
  BY TurnLeaves DEF IInv, Typed
<1>2. /\ client' = "reading" /\ p.kind = "FILE_DATA"
      /\ UNCHANGED <<state, next_state, update, next_packet, next_ack, last_packet, file_pos>>
  BY DEF PhoneGetsData, Listens, Acknowledges, FromPhone, fileVars, windowVars
<1>3. /\ next_packet \in Nat /\ next_ack \in Nat /\ accepted \in Nat /\ Window \in Nat \ {0}
      /\ FileLength \in Nat
  BY SizeAssumption DEF IInv, Typed, TypeOK, DownloadInv
<1>4. Live /\ Live' /\ Downloading /\ Reading /\ Windows /\ Flying /\ Coming
  BY <1>2 DEF Live, Downloading, Reading, DownloadInv, Download
<1>5. p = tx[1] /\ 1 \in DOMAIN tx /\ FlyFits(tx, 1)
  BY <1>1, <1>2, <1>4, TailKept DEF Flying
<1>6. /\ p.n = p.c % Modulus /\ p.c <= FileLength /\ accepted <= p.c + Window
      /\ p.c < next_ack + Window /\ p.c < next_packet + Window
      /\ p.c = FileLength => last_packet # Never
  BY <1>5 DEF FlyFits
<1>7. accepted' \in Nat /\ accepted <= accepted'
  BY <1>3
<1>8. Windows'
  <2>1. CASE accepted' = accepted
    BY <1>2, <1>4, <2>1 DEF Windows
  <2>2. CASE accepted' = accepted + 1 /\ p.c = accepted
    <3>1. /\ next_ack <= accepted' /\ accepted' <= next_ack + Window
          /\ accepted' <= next_packet + Window /\ accepted' <= FileLength + 1
          /\ last_packet = Never => accepted' <= FileLength
      BY <1>3, <1>4, <1>6, <2>2 DEF Windows
    <3> QED BY <1>2, <1>4, <3>1 DEF Windows
  <2> QED BY <2>1, <2>2
<1>9. got' \in Seq(Chunks) /\ accepted' = Len(got') /\ \A i \in DOMAIN got' : got'[i].c = i - 1
  <2>1. got \in Seq(Chunks) /\ accepted = Len(got) /\ \A i \in DOMAIN got : got[i].c = i - 1
    BY DEF DownloadInv, Download
  <2>2. CASE UNCHANGED <<got, accepted>>
    BY <2>1, <2>2
  <2>3. CASE accepted' = accepted + 1 /\ p.c = accepted /\ got' = Append(got, Brings(p))
    <3>1. /\ got' \in Seq(Chunks) /\ Len(got') = Len(got) + 1
          /\ DOMAIN got' = 1 .. Len(got) + 1
          /\ \A i \in 1 .. Len(got) : got'[i] = got[i]
          /\ got'[Len(got) + 1].c = Len(got)
          /\ DOMAIN got = 1 .. Len(got)
      <4>1. Brings(p) \in Chunks /\ Brings(p).c = p.c
        <5>1. p.f \in Nat
          BY <1>1, Taken
        <5> QED BY <5>1 DEF Brings, Chunk, Chunks
      <4> QED BY <2>1, <2>3, <4>1, AppendProperties
    <3>2. ASSUME NEW i \in DOMAIN got' PROVE got'[i].c = i - 1
      <4>1. Len(got) \in Nat /\ i \in 1 .. Len(got) + 1
        BY <2>1, <3>1
      <4>2. CASE i \in 1 .. Len(got)
        BY <2>1, <3>1, <4>2
      <4>3. CASE i = Len(got) + 1
        BY <3>1, <4>1, <4>3
      <4> QED BY <4>1, <4>2, <4>3
    <3> QED BY <2>1, <2>3, <3>1, <3>2
  <2> QED BY <2>2, <2>3
<1>10. Download'
  <2>1. next_state' \in {"IDLE", "READ"} /\ ~Has(rx', Commands)
    <3>1. next_state' \in {"IDLE", "READ"}
      BY <1>2, <1>4 DEF DownloadInv, Download
    <3>2. Only(rx', {"FILE_ACK"})
      BY <1>2 DEF Turn
    <3> QED BY <3>1, <3>2, ClientAssumption DEF Only, Has
  <2>2. Opened' => next_ack' # last_packet'
    BY <1>2 DEF DownloadInv, Download, Opened, Between
  <2>3. client' # "READ"
    BY <1>2
  <2> QED BY <1>8, <1>9, <2>1, <2>2, <2>3 DEF Download
<1>11. Keeps(tx', tx, {"FILE_DATA"})
  BY <1>1, TailKept
<1>12. \A j \in DOMAIN tx' : tx'[j].kind = "FILE_DATA" =>
         p.c < tx'[j].c + Window /\ tx'[j].c \in Nat
  <2> SUFFICES ASSUME NEW j \in DOMAIN tx', tx'[j].kind = "FILE_DATA"
               PROVE  p.c < tx'[j].c + Window /\ tx'[j].c \in Nat
    OBVIOUS
  <2>1. tx' \in Seq(Packets)
    BY DEF IInv, Typed
  <2>2. j + 1 \in DOMAIN tx /\ tx[j + 1] = tx'[j] /\ 1 < j + 1
    BY <1>1, <2>1, TailKept
  <2>3. tx'[j].c \in Nat
    BY <2>1, InQueue
  <2> QED BY <1>5, <2>2, <2>3 DEF FlyFits
<1>13. Flying'
  <2> SUFFICES ASSUME NEW i \in DOMAIN tx', tx'[i].kind = "FILE_DATA" PROVE FlyFits(tx, i)'
    BY DEF Flying
  <2>1. PICK k \in DOMAIN tx :
             /\ tx'[i] = tx[k] /\ FlyFits(tx, k)
             /\ \A j \in DOMAIN tx' : i < j /\ tx'[j].kind = "FILE_DATA"
                  => tx'[i].c < tx'[j].c + Window
    BY <1>4, <1>11, FlyKept
  <2>2. accepted' <= tx'[i].c + Window
    <3>1. p.c < tx'[i].c + Window /\ tx'[i].c \in Nat /\ accepted <= tx'[i].c + Window
      BY <1>12, <2>1 DEF FlyFits
    <3> QED BY <1>3, <3>1
  <2> QED BY <1>2, <2>1, <2>2 DEF FlyFits
<1>14. FileAck(p) \in Packets /\ FileAck(p).kind = "FILE_ACK" /\ FileAck(p).n = p.n
       /\ FileAck(p).c = p.c
  BY <1>1, <1>2, Taken, PacketTypes DEF FileAck, Packet
<1>15. next_ack <= p.c + Window
  BY <1>3, <1>4, <1>6 DEF Windows
<1>16. Coming'
  <2>1. ASSUME NEW i \in DOMAIN rx, rx[i].kind = "FILE_ACK"
        PROVE  /\ rx[i].c \in Nat /\ rx[i].n = rx[i].c % Modulus /\ rx[i].c < accepted'
               /\ next_ack' <= rx[i].c + Window /\ rx[i].c < p.c + Window
               /\ Behind(rx, i, tx')
               /\ \A j \in DOMAIN rx : i < j /\ rx[j].kind = "FILE_ACK"
                    => rx[i].c < rx[j].c + Window
    <3>1. rx[i].c \in Nat /\ ComeFits(rx, i) /\ Behind(rx, i, tx)
      BY <1>1, <1>4, <2>1, InQueue DEF Coming
    <3>2. rx[i].c < p.c + Window
      BY <1>2, <1>5, <3>1 DEF Behind
    <3>3. Behind(rx, i, tx')
      BY <1>11, <3>1, BehindSame
    <3>4. rx[i].c < accepted'
      BY <1>3, <1>7, <3>1 DEF ComeFits
    <3> QED BY <1>2, <3>1, <3>2, <3>3, <3>4 DEF ComeFits
  <2>2. CASE rx' = rx
    <3> SUFFICES ASSUME NEW i \in DOMAIN rx, rx[i].kind = "FILE_ACK"
                 PROVE  ComeFits(rx, i)' /\ Behind(rx, i, tx)'
      BY <2>2 DEF Coming
    <3>1. Behind(rx, i, tx)'
      BY <2>1, <2>2 DEF Behind
    <3>2. ComeFits(rx, i)'
      BY <2>1, <2>2 DEF ComeFits
    <3> QED BY <3>1, <3>2
  <2>3. CASE rx' = Append(rx, FileAck(p))
    <3>1. /\ \A i \in DOMAIN rx' : \/ i \in DOMAIN rx /\ rx'[i] = rx[i]
                                   \/ i = Len(rx) + 1 /\ rx'[i] = FileAck(p)
          /\ Len(rx) \in Nat /\ \A i \in DOMAIN rx : i \in Int /\ i <= Len(rx)
      BY <1>1, <1>14, <2>3, OneMore
    <3> SUFFICES ASSUME NEW i \in DOMAIN rx', rx'[i].kind = "FILE_ACK"
                 PROVE  ComeFits(rx, i)' /\ Behind(rx, i, tx)'
      BY DEF Coming
    <3>2. CASE i \in DOMAIN rx /\ rx'[i] = rx[i]
      <4>1. /\ rx[i].c \in Nat /\ rx[i].n = rx[i].c % Modulus /\ rx[i].c < accepted'
            /\ next_ack' <= rx[i].c + Window /\ rx[i].c < p.c + Window
            /\ Behind(rx, i, tx')
            /\ \A j \in DOMAIN rx : i < j /\ rx[j].kind = "FILE_ACK"
                 => rx[i].c < rx[j].c + Window
        BY <2>1, <3>2
      <4>2. \A j \in DOMAIN rx' : i < j /\ rx'[j].kind = "FILE_ACK"
                                    => rx'[i].c < rx'[j].c + Window
        BY <1>14, <3>1, <3>2, <4>1
      <4>3. Behind(rx, i, tx)'
        BY <3>2, <4>1 DEF Behind
      <4>4. ComeFits(rx, i)'
        BY <3>2, <4>1, <4>2 DEF ComeFits
      <4> QED BY <4>3, <4>4
    <3>3. CASE i = Len(rx) + 1 /\ rx'[i] = FileAck(p)
      <4>1. \A j \in DOMAIN rx' : ~(i < j)
        BY <3>1, <3>3
      <4>2. Behind(rx, i, tx)'
        BY <1>12, <1>14, <3>3 DEF Behind
      <4>3. ComeFits(rx, i)'
        BY <1>2, <1>6, <1>14, <1>15, <3>3, <4>1 DEF ComeFits
      <4> QED BY <4>2, <4>3
    <3> QED BY <3>1, <3>2, <3>3
  <2> QED BY <2>2, <2>3 DEF Written
<1> QED BY <1>7, <1>10, <1>13, <1>16 DEF DownloadInv

LEMMA GetsDataDownload ==
  ASSUME IInv, IInv', Turn, Turn', DownloadInv, PhoneGetsData
  PROVE  DownloadInv'
<1> DEFINE p == Head(tx)
           next == p.n = Len(got) % Modulus /\ ~Ended
<1>1. CASE client # "reading" \/ UNCHANGED <<rx, got>>
  BY <1>1, LeavesRestDownload
<1>2. CASE client = "reading" /\ ~UNCHANGED <<rx, got>>
  <2>1. /\ tx # <<>> /\ tx \in Seq(Packets) /\ p.kind = "FILE_DATA"
    BY TurnLeaves DEF PhoneGetsData
  <2>2. /\ rx' = Written(FileAck(p))
        /\ \/ next /\ got' = Append(got, Brings(p))
              /\ accepted' = IF Append(got, Brings(p)) = got THEN accepted ELSE accepted + 1
           \/ ~next /\ UNCHANGED <<got, accepted>> /\ (Len(got) - p.n) % Modulus <= 2 * Window
    BY <1>2 DEF PhoneGetsData, Acknowledges, Listens
  <2>3. p = tx[1] /\ 1 \in DOMAIN tx /\ FlyFits(tx, 1) /\ p.c \in Nat
    <3>1. p = tx[1] /\ 1 \in DOMAIN tx
      BY <2>1, TailKept
    <3>2. p.c \in Nat
      BY <2>1, <3>1, InQueue
    <3>3. FlyFits(tx, 1)
      BY <1>2, <2>1, <3>1 DEF DownloadInv, Flying, Live
    <3> QED BY <3>1, <3>2, <3>3
  <2>4. /\ p.n = p.c % Modulus /\ p.c <= FileLength /\ accepted <= p.c + Window
        /\ p.c < next_ack + Window
    BY <2>3 DEF FlyFits
  <2>5. /\ got \in Seq(Chunks) /\ accepted = Len(got) /\ \A i \in DOMAIN got : got[i].c = i - 1
        /\ next_ack <= accepted
    BY <1>2 DEF DownloadInv, Download, Reading, Downloading, Live, Windows
  <2>6. /\ next_ack \in Nat /\ accepted \in Nat /\ Window \in Nat \ {0} /\ FileLength \in Nat
        /\ Modulus \in Nat /\ Modulus > 3 * Window
    BY SizeAssumption DEF IInv, Typed, TypeOK, DownloadInv
  <2>7. p.c - accepted < Modulus /\ accepted - p.c < Modulus /\ p.c < accepted + Window
    BY <2>3, <2>4, <2>5, <2>6
  <2>8. p.n = Len(got) % Modulus => p.c = accepted
    <3>1. p.n = Len(got) % Modulus => p.c % Modulus = accepted % Modulus
      BY <2>4, <2>5
    <3>2. p.c \in Int /\ accepted \in Int
      BY <2>3, <2>6
    <3> QED BY <2>7, <3>1, <3>2, SameResidue
  <2> HIDE DEF p
  <2>9. CASE next
    <3>1. p.c = accepted /\ got' = Append(got, Brings(p))
      BY <2>2, <2>8, <2>9
    <3>2. Append(got, Brings(p)) # got
      <4>1. Len(Append(got, Brings(p))) = Len(got) + 1 /\ Len(got) \in Nat
        BY <2>3, <2>5, AppendProperties
      <4> QED BY <4>1
    <3>3. accepted' = accepted + 1
      BY <2>2, <2>9, <3>2
    <3>4. p.c < accepted'
      BY <2>6, <3>1, <3>3
    <3> QED BY <1>2, <2>1, <2>2, <2>3, <3>1, <3>3, <3>4, AckBack DEF p
  <2>10. CASE ~next
    <3>1. p.c <= accepted
      <4>1. (accepted - (p.c % Modulus)) % Modulus
              = IF accepted >= p.c THEN accepted - p.c ELSE accepted - p.c + Modulus
        BY <2>3, <2>6, <2>7, Distance
      <4>2. (accepted - (p.c % Modulus)) % Modulus <= 2 * Window
        BY <2>2, <2>4, <2>5, <2>10
      <4>3. (IF accepted >= p.c THEN accepted - p.c ELSE accepted - p.c + Modulus) <= 2 * Window
        BY <4>1, <4>2
      <4> QED BY <2>3, <2>6, <2>7, <4>3
    <3>2. p.c # accepted
      <4> SUFFICES ASSUME p.c = accepted PROVE FALSE
        OBVIOUS
      <4>1. p.n = Len(got) % Modulus
        BY <2>4, <2>5
      <4>2. PICK i \in DOMAIN got : got[i].c = FileLength
        BY <2>10, <4>1 DEF Ended
      <4>3. i \in 1 .. Len(got) /\ FileLength = i - 1
        BY <2>5, <4>2
      <4> QED BY <2>4, <2>5, <2>6, <4>3
    <3>3. UNCHANGED <<got, accepted>> /\ p.c < accepted'
      BY <2>2, <2>3, <2>6, <2>10, <3>1, <3>2
    <3> QED BY <1>2, <2>1, <2>2, <2>3, <3>3, AckBack DEF p
  <2> QED BY <2>9, <2>10
<1> QED BY <1>1, <1>2

LEMMA LinkRestsDownload ==
  ASSUME IInv, IInv', Turn, Turn', DownloadInv, ~hurried',
         \/ PhoneCommands \/ PhoneCancels \/ PhoneSendsData \/ WriteLost \/ Disconnect
         \/ Connect \/ OtherSends
  PROVE  DownloadInv'
<1>1. /\ rx \in Seq(Packets) /\ tx \in Seq(Packets) /\ Window \in Nat \ {0}
      /\ Len(rx) \in Nat /\ base \in Nat /\ Typed /\ accepted \in Nat
  BY SizeAssumption DEF IInv, Typed, DownloadInv
<1>2. UNCHANGED <<state, next_state, update, next_packet, next_ack, last_packet, file_pos,
                  accepted>>
  BY DEF PhoneCommands, PhoneCancels, PhoneSendsData, WriteLost, Disconnect, Connect, OtherSends,
         Writes, FromPhone, fileVars, windowVars, taskVars, histVars
<1>3. Opened' => next_ack' # last_packet'
  BY <1>2 DEF DownloadInv, Download, Opened, Between
<1>4. /\ Keeps(tx', tx, {"FILE_DATA"})
      /\ Answered(tx', "READ") => Answered(tx, "READ")
  <2>1. CASE OtherSends
    <3>1. Send(Foreign) /\ Foreign \in Packets /\ Foreign.kind \notin {"FILE_DATA", "ACK"}
      BY <2>1, PacketTypes DEF OtherSends, Foreign, Packet
    <3>2. Keeps(tx', tx, {"FILE_DATA", "ACK"})
      BY <1>1, <3>1, SentKept
    <3> QED BY <3>2, KeptLess, KeptAnswered
  <2>2. CASE ~OtherSends
    <3>1. UNCHANGED tx
      BY <2>2 DEF PhoneCommands, PhoneCancels, PhoneSendsData, WriteLost, Disconnect, Connect,
                  Writes
    <3> QED BY <1>1, <3>1, SameKept
  <2> QED BY <2>1, <2>2
<1>5. CASE PhoneCommands
  <2>1. PICK c \in Commands : rx' = Written(Command(c, commands')) /\ client' = c
    BY <1>5 DEF PhoneCommands, Writes
  <2>2. rx = <<>> /\ ~HasOwn(tx)
    BY <1>5 DEF PhoneCommands, HasOwn
  <2>0. commands' \in Nat
    BY ClientAssumption DEF IInv, Typed, TypeOK
  <2>3. Command(c, commands') \in Packets /\ Command(c, commands').kind \notin {"FILE_ACK"}
    BY <2>0, PacketTypes, ClientAssumption DEF Command, Packet
  <2>4. Keeps(rx', rx, {"FILE_ACK"})
    BY <1>1, <2>1, <2>3, SameKept, OneMore DEF Written
  <2>5. ~Answered(tx, "READ")
    BY <2>2 DEF HasOwn, Own, Answered, Ack, Packet
  <2>6. ~Has(<<>>, {"FILE_ACK"})
    BY DEF Has
  <2>7. ~Has(rx', {"FILE_ACK"})
    BY <2>2, <2>4, <2>6, KeptHas
  <2>8. client' # "reading"
    BY <2>1, ClientAssumption
  <2>9. ~Downloading'
    BY <1>4, <2>5, <2>7, <2>8 DEF Downloading, Live
  <2> QED BY <1>1, <1>2, <1>3, <1>4, <2>4, <2>5, <2>8, <2>9, DownloadRests
<1>6. CASE \/ PhoneCancels \/ PhoneSendsData \/ WriteLost \/ Disconnect \/ Connect \/ OtherSends
  <2>1. /\ client' \in {client, "none"}
        /\ client' = client => got' = got \/ client = "none"
    BY <1>6 DEF PhoneCancels, PhoneSendsData, WriteLost, Disconnect, Connect, OtherSends, phoneVars
  <2>2. Keeps(rx', rx, {"FILE_ACK"} \union Commands)
    <3>1. CASE PhoneCancels
      <4>1. rx' = Written(Command("CANCEL", 0))
        BY <3>1 DEF PhoneCancels, Writes
      <4>2. Command("CANCEL", 0) \in Packets
            /\ Command("CANCEL", 0).kind \notin {"FILE_ACK"} \union Commands
        BY PacketTypes, ClientAssumption DEF Command, Packet
      <4> QED BY <1>1, <4>1, <4>2, SameKept, OneMore DEF Written
    <3>2. CASE PhoneSendsData
      <4>1. PICK k \in base .. (base + Window - 1) : rx' = Written(FileData(k, k, commands))
        BY <3>2 DEF PhoneSendsData, Writes
      <4>2. k \in Nat
        BY <1>1, <4>1
      <4>3. /\ FileData(k, k, commands) \in Packets
            /\ FileData(k, k, commands).kind \notin {"FILE_ACK"} \union Commands
        <5>1. commands \in Nat
          BY ClientAssumption DEF IInv, Typed, TypeOK
        <5> QED BY <4>2, <5>1, PacketTypes, ClientAssumption DEF FileData, Packet
      <4> QED BY <1>1, <4>1, <4>3, SameKept, OneMore DEF Written
    <3>3. CASE WriteLost
      BY <1>1, <3>3, PrefixKept DEF WriteLost
    <3>4. CASE Disconnect \/ Connect \/ OtherSends
      BY <1>1, <3>4, SameKept DEF Disconnect, Connect, OtherSends
    <3> QED BY <1>6, <3>1, <3>2, <3>3, <3>4
  <2>3. Keeps(rx', rx, {"FILE_ACK"}) /\ (Has(rx', Commands) => Has(rx, Commands))
        /\ (Has(rx', {"FILE_ACK"}) => Has(rx, {"FILE_ACK"}))
    BY <2>2, KeptLess, KeptHas
  <2>4. Downloading' => ~Has(rx', Commands)
    <3>1. Downloading' => Downloading
      BY <1>4, <2>1, <2>3 DEF Downloading, Live
    <3> QED BY <2>3, <3>1 DEF DownloadInv, Download
  <2>5. /\ client' = "reading" => client = "reading" /\ got' = got
        /\ client' = "READ" /\ Answered(tx', "READ") => client = "READ" /\ Answered(tx, "READ")
    BY <1>4, <2>1
  <2> QED BY <1>1, <1>2, <1>3, <1>4, <2>3, <2>4, <2>5, DownloadRests
<1> QED BY <1>5, <1>6

LEMMA DownloadNext ==
  ASSUME IInv, IInv', Turn, Turn', DownloadInv, Next, ~hurried'
  PROVE  DownloadInv'
<1>1. CASE RunRead /\ timeout_flag
  BY <1>1, RunReadDownload
<1>2. CASE \/ RunIdle \/ RunWrite \/ RunDir \/ RxDone \/ Finish \/ Timeout
           \/ RunRead /\ ~timeout_flag
  BY <1>2, RunsRestDownload
<1>3. CASE Taking
  <2>1. Takes
    BY <1>3, TakingTakes
  <2>2. CASE ReadAck
    BY <2>2, ReadAckDownload
  <2>3. CASE IdleRead /\ next_state' = "READ"
    BY <2>3, IdleReadDownload
  <2>4. CASE ~ReadAck /\ ~(IdleRead /\ next_state' = "READ")
    BY <1>3, <2>1, <2>4, TakesRestDownload
  <2> QED BY <2>2, <2>3, <2>4
<1>4. CASE ReadSend \/ ReadSendEnd
  BY <1>4, ReadSendDownload
<1>5. CASE DiskFails \/ DirSend
  BY <1>5, SendsRestDownload
<1>6. CASE PhoneAnswered
  <2>1. CASE client' = "reading" /\ client # "reading"
    BY <1>6, <2>1, AnsweredDownload
  <2>2. CASE ~(client' = "reading" /\ client # "reading")
    BY <1>6, <2>2, LeavesRestDownload
  <2> QED BY <2>1, <2>2
<1>7. CASE PhoneGetsData
  BY <1>7, GetsDataDownload
<1>8. CASE PacketLost \/ PhoneGetsEntry \/ PhoneGetsAck
  BY <1>8, LeavesRestDownload
<1>9. CASE \/ PhoneCommands \/ PhoneCancels \/ PhoneSendsData \/ WriteLost \/ Disconnect
           \/ Connect \/ OtherSends
  BY <1>9, LinkRestsDownload
<1>10. CASE RunIdle \/ RunRead \/ RunWrite \/ RunDir \/ RxDone \/ Finish \/ Timeout
  <2>1. CASE RunRead
    BY <1>1, <1>2, <2>1
  <2>2. CASE RunIdle \/ RunWrite \/ RunDir \/ RxDone \/ Finish \/ Timeout
    BY <1>2, <2>2
  <2> QED BY <1>10, <2>1, <2>2
<1>11. Update => DownloadInv'
  BY <1>3, <1>4, <1>5, <1>10 DEF Update, Taking
<1>12. Phone \/ Link \/ Timeout => DownloadInv'
  BY <1>6, <1>7, <1>8, <1>9, <1>10 DEF Phone, Link
<1> QED BY <1>11, <1>12 DEF Next

-----------------------------------------------------------------------------
(* The files: what is in the queues of a transfer is of its file             *)

Of(q, f) == \A i \in DOMAIN q : q[i].kind = "FILE_DATA" => q[i].f = f
Sends    == client = "writing" \/ (client = "WRITE" /\ Answered(tx, "WRITE"))

(* The file that the phone asked for last is the one that is read for it, or *)
(* written, and every chunk on its way or arrived is of that file.           *)
Files ==
  /\ client \in Commands => \A i \in DOMAIN rx : rx[i].f = commands
  /\ Live => source = commands /\ Of(tx, commands)
  /\ client = "reading" => \A i \in DOMAIN got : got[i].f = commands
  /\ Sends => target = commands
  /\ Of(rx, target)
  /\ stored \in Seq(Chunks) /\ \A i \in DOMAIN stored : stored[i].f = target

LEMMA OfKept ==
  ASSUME NEW q, NEW t, NEW f, Keeps(t, q, {"FILE_DATA"}), Of(q, f)
  PROVE  Of(t, f)
BY DEF Keeps, Of

(* A step that opens no file and brings no chunk.                            *)
LEMMA FilesRest ==
  ASSUME Files, UNCHANGED <<stored, target>>,
         client' \in Commands =>
           /\ client' = client /\ UNCHANGED commands
           /\ \A i \in DOMAIN rx' : \E k \in DOMAIN rx : rx'[i] = rx[k],
         Live' => Live /\ UNCHANGED <<commands, source>>,
         Sends' => Sends /\ UNCHANGED commands,
         client' = "reading" => got' = <<>> \/ (client = "reading" /\ UNCHANGED got),
         Keeps(tx', tx, {"FILE_DATA"}), Keeps(rx', rx, {"FILE_DATA"})
  PROVE  Files'
<1>1. Of(rx', target')
  BY OfKept DEF Files
<1>2. Live' => source' = commands' /\ Of(tx', commands')
  BY OfKept DEF Files
<1>3. client' = "reading" => \A i \in DOMAIN got' : got'[i].f = commands'
  BY DEF Files, Live
<1> QED BY <1>1, <1>2, <1>3 DEF Files

(* The transfers' own packets neither answer a command nor carry data.       *)
LEMMA FilesTaken ==
  ASSUME IInv, Turn, Files, Takes, UNCHANGED <<stored, source, target, commands>>,
         Keeps(tx', tx, {"FILE_DATA"}),
         Answered(tx', "READ") => Answered(tx, "READ"),
         Answered(tx', "WRITE") => Answered(tx, "WRITE")
  PROVE  Files'
<1>1. /\ rx \in Seq(Packets) /\ rx # <<>> /\ rx' = Tail(rx) /\ UNCHANGED <<client, got>>
  BY DEF IInv, Typed, Takes, TakeRx, phoneVars
<1>2. \A i \in DOMAIN rx' : i + 1 \in DOMAIN rx /\ rx'[i] = rx[i + 1]
  BY <1>1, TailKept
<1>3. Keeps(rx', rx, {"FILE_DATA"})
  BY <1>1, TailKept
<1> QED BY <1>1, <1>2, <1>3, FilesRest DEF Live, Sends

LEMMA FilesAnswered ==
  ASSUME IInv, Turn, Files, IdleSimple \/ IdleOpenFails
  PROVE  Files'
<1>1. /\ Takes /\ UNCHANGED <<stored, source, target, commands>> /\ tx \in Seq(Packets)
      /\ Typed /\ rx # <<>> /\ next_state' = "IDLE"
  BY DEF IdleSimple, IdleOpenFails, Takes, FromRx, Receiving, fileVars, IInv, Typed
<1>2. PICK p \in Packets : /\ Send(p) /\ p.kind \in {"ACK", "NAK"}
                           /\ p # Ack("WRITE") /\ p # Ack("READ")
  <2>1. ~IdleWrite
    BY DEF IdleSimple, IdleOpenFails, IdleWrite, Receiving, windowVars, fileVars, timerVars
  <2> QED BY <1>1, <2>1, IdleAnswers
<1>3. Keeps(tx', tx, {"FILE_DATA"})
  BY <1>1, <1>2, SentKept
<1>4. /\ Answered(tx', "READ") => Answered(tx, "READ")
      /\ Answered(tx', "WRITE") => Answered(tx, "WRITE")
  BY <1>1, <1>2, AnsweredSent
<1> QED BY <1>1, <1>3, <1>4, FilesTaken

LEMMA FilesGoOn ==
  ASSUME IInv, Turn, Files, Cancelled \/ ReadAck \/ Dropped \/ WriteCancel \/ WriteRepeated
  PROVE  Files'
<1>1. Takes /\ UNCHANGED <<stored, source, target, commands>> /\ tx \in Seq(Packets) /\ Typed
  BY DEF Cancelled, ReadAck, Dropped, WriteCancel, WriteRepeated, Takes, FromRx, Receiving,
     fileVars, IInv, Typed
<1>2. CASE tx' = tx \/ tx' = <<>>
  <2>1. Keeps(tx', tx, {"FILE_DATA"})
    BY <1>1, <1>2, SameKept
  <2>2. \A k : Answered(tx', k) => Answered(tx, k)
    BY <1>2 DEF Answered
  <2> QED BY <1>1, <2>1, <2>2, FilesTaken
<1>3. CASE Send(FileAck(Head1)) /\ Head1.kind = "FILE_DATA"
  <2>1. FileAck(Head1) \in Packets /\ FileAck(Head1).kind = "FILE_ACK"
    <3>1. Head1 \in Packets
      BY <1>1, Taken DEF Takes, Head1, Typed
    <3> QED BY <1>3, <3>1, PacketTypes DEF FileAck, Packet
  <2>2. Keeps(tx', tx, {"FILE_DATA", "ACK"})
    BY <1>1, <1>3, <2>1, SentKept
  <2>3. Keeps(tx', tx, {"FILE_DATA"}) /\ Keeps(tx', tx, {"ACK"})
    BY <2>2, KeptLess
  <2> QED BY <1>1, <2>3, KeptAnswered, FilesTaken
<1> QED BY <1>2, <1>3 DEF Cancelled, ReadAck, Dropped, WriteCancel, WriteRepeated

(* A command is taken: nothing else is in the queues, and if the phone still *)
(* waits for it it is the phone's last.                                      *)
LEMMA FilesCommand ==
  ASSUME IInv, Turn, Files, Takes, Head1.kind \in {"READ", "WRITE", "READ_DIR"}
  PROVE  /\ ~HasOwn(tx) /\ client \notin {"reading", "writing"}
         /\ rx' = Tail(rx) /\ rx \in Seq(Packets) /\ tx \in Seq(Packets) /\ UNCHANGED client
         /\ ~Has(rx', {"FILE_DATA"})
         /\ client \in Commands => client = Head1.kind /\ Head1.f = commands /\ rx' = <<>>
<1>1. /\ rx \in Seq(Packets) /\ rx # <<>> /\ rx' = Tail(rx) /\ UNCHANGED client
      /\ tx \in Seq(Packets)
  BY DEF IInv, Typed, Takes, TakeRx, phoneVars
<1>2. /\ Has(rx, Commands) /\ ~HasOwn(tx) /\ ~Has(rx, {"FILE_DATA", "FILE_ACK"})
  BY <1>1, CommandEnds
<1>3. ~Has(rx', {"FILE_DATA"})
  <2>1. Has(rx', {"FILE_DATA"}) => Has(rx, {"FILE_DATA"})
    BY <1>1, TailKept, KeptHas
  <2>2. ~Has(rx, {"FILE_DATA"})
    BY <1>2 DEF Has
  <2> QED BY <2>1, <2>2
<1>4. client \notin {"reading", "writing"}
  <2>1. PICK i \in DOMAIN rx : rx[i].kind \in {"READ", "WRITE", "READ_DIR", "SIMPLE"}
    BY <1>2, ClientAssumption DEF Has
  <2> QED BY <2>1 DEF Turn, Only
<1>5. ASSUME client \in Commands
      PROVE  client = Head1.kind /\ Head1.f = commands /\ rx' = <<>>
  <2>1. PICK f \in Nat : rx = <<Command(client, f)>>
    BY <1>1, <1>5 DEF Turn
  <2>2. Head1 = Command(client, f) /\ rx' = <<>> /\ rx[1] = Head1 /\ 1 \in DOMAIN rx
    BY <1>1, <2>1 DEF Head1
  <2> QED BY <1>5, <2>2 DEF Files, Command, Packet
<1> QED BY <1>1, <1>2, <1>3, <1>4, <1>5

LEMMA FilesOpened ==
  ASSUME IInv, Turn, Files, IdleRead \/ IdleWrite \/ IdleReadDir
  PROVE  Files'
<1>1. /\ Takes /\ Head1.kind \in {"READ", "WRITE", "READ_DIR"} /\ UNCHANGED commands
      /\ Typed
  BY DEF IdleRead, IdleWrite, IdleReadDir, Takes, FromRx, Receiving, IInv
<1>2. /\ ~HasOwn(tx) /\ client \notin {"reading", "writing"}
      /\ rx' = Tail(rx) /\ rx \in Seq(Packets) /\ tx \in Seq(Packets) /\ UNCHANGED client
      /\ ~Has(rx', {"FILE_DATA"})
      /\ client \in Commands => client = Head1.kind /\ Head1.f = commands /\ rx' = <<>>
  BY <1>1, FilesCommand
<1>3. Of(rx', target')
  BY <1>2 DEF Of, Has
<1>4. ~Answered(tx, "READ") /\ ~Answered(tx, "WRITE") /\ ~Has(tx, {"FILE_DATA"})
  BY <1>2 DEF Answered, Has, HasOwn, Own, Ack, Packet
<1>5. PICK k \in Kinds : Send(Ack(k)) \/ Send(Nak(k))
  BY DEF IdleRead, IdleWrite, IdleReadDir, Kinds
<1>6. Keeps(tx', tx, {"FILE_DATA"})
  BY <1>1, <1>5, PacketTypes, SentKept DEF Ack, Nak, Packet
<1>7. Of(tx', commands)
  BY <1>4, <1>6, KeptHas DEF Of, Has
<1>8. client' \in Commands => \A i \in DOMAIN rx' : rx'[i].f = commands'
  BY <1>2
<1>10. CASE IdleRead
  <2>1. source' = Head1.f /\ Head1.kind = "READ" /\ UNCHANGED <<target, stored>>
        /\ (Send(Ack("READ")) \/ Send(Nak("READ")))
    BY <1>10 DEF IdleRead
  <2>2. ~Answered(tx', "WRITE")
    <3>1. /\ Ack("READ") \in Packets /\ Nak("READ") \in Packets
          /\ Ack("READ") # Ack("WRITE") /\ Nak("READ") # Ack("WRITE")
      BY PacketTypes DEF Ack, Nak, Packet, Kinds
    <3> QED BY <1>1, <1>4, <2>1, <3>1, AnsweredSent
  <2>3. Live' => source' = commands'
    BY <1>1, <1>2, <2>1 DEF Live, Turn
  <2> QED BY <1>1, <1>2, <1>3, <1>7, <1>8, <2>1, <2>2, <2>3 DEF Files, Sends
<1>11. CASE IdleWrite
  <2>1. target' = Head1.f /\ Head1.kind = "WRITE" /\ UNCHANGED source /\ stored' = <<>>
        /\ Send(Ack("WRITE"))
    BY <1>11 DEF IdleWrite
  <2>2. ~Answered(tx', "READ")
    <3>1. Ack("WRITE") \in Packets /\ Ack("READ") # Ack("WRITE")
      BY PacketTypes DEF Ack, Packet, Kinds
    <3> QED BY <1>1, <1>4, <2>1, <3>1, AnsweredSent
  <2>3. Sends' => target' = commands'
    BY <1>1, <1>2, <2>1 DEF Sends, Turn
  <2> QED BY <1>1, <1>2, <1>3, <1>8, <2>1, <2>2, <2>3 DEF Files, Live
<1>12. CASE IdleReadDir
  <2>1. Head1.kind = "READ_DIR" /\ UNCHANGED <<target, stored>> /\ Send(Ack("READ_DIR"))
    BY <1>12 DEF IdleReadDir
  <2>2. ~Answered(tx', "READ") /\ ~Answered(tx', "WRITE")
    <3>1. /\ Ack("READ_DIR") \in Packets
          /\ Ack("READ_DIR") # Ack("READ") /\ Ack("READ_DIR") # Ack("WRITE")
      BY PacketTypes DEF Ack, Packet, Kinds
    <3> QED BY <1>1, <1>4, <2>1, <3>1, AnsweredSent
  <2> QED BY <1>1, <1>2, <1>3, <1>8, <2>1, <2>2 DEF Files, Live, Sends
<1> QED BY <1>10, <1>11, <1>12

(* The chunk that is stored is of the file that was opened.                  *)
LEMMA FilesStored ==
  ASSUME IInv, Turn, Files, WriteData
  PROVE  Files'
<1>1. /\ Takes /\ UNCHANGED <<source, target, commands>> /\ tx \in Seq(Packets) /\ Typed
      /\ Head1.kind = "FILE_DATA" /\ Send(FileAck(Head1))
      /\ stored' = stored \/ stored' = Append(stored, Brings(Head1))
      /\ rx \in Seq(Packets) /\ rx # <<>> /\ rx' = Tail(rx) /\ UNCHANGED <<client, got>>
  BY DEF WriteData, Takes, FromRx, Receiving, TakeRx, phoneVars, IInv, Typed
<1>2. Head1 = rx[1] /\ 1 \in DOMAIN rx /\ Head1 \in Packets
      /\ \A i \in DOMAIN rx' : i + 1 \in DOMAIN rx /\ rx'[i] = rx[i + 1]
  BY <1>1, TailKept, Taken DEF Head1
<1>3. FileAck(Head1) \in Packets /\ FileAck(Head1).kind = "FILE_ACK"
  BY <1>1, <1>2, PacketTypes DEF FileAck, Packet
<1>4. Keeps(tx', tx, {"FILE_DATA", "ACK"})
  BY <1>1, <1>3, SentKept
<1>5. Keeps(tx', tx, {"FILE_DATA"}) /\ Keeps(tx', tx, {"ACK"})
  BY <1>4, KeptLess
<1>6. \A k : Answered(tx', k) => Answered(tx, k)
  BY <1>5, KeptAnswered
<1>7. Of(rx', target')
  BY <1>1, <1>2 DEF Files, Of
<1>8. stored' \in Seq(Chunks) /\ \A i \in DOMAIN stored' : stored'[i].f = target'
  <2>1. CASE stored' = stored
    BY <1>1, <2>1 DEF Files
  <2>2. CASE stored' = Append(stored, Brings(Head1))
    <3>1. stored \in Seq(Chunks) /\ Brings(Head1) \in Chunks /\ Brings(Head1).f = target
      BY <1>1, <1>2, Taken DEF Files, Of, Brings, Chunk, Chunks
    <3>2. /\ DOMAIN stored' = 1 .. Len(stored) + 1 /\ DOMAIN stored = 1 .. Len(stored)
          /\ \A i \in 1 .. Len(stored) : stored'[i] = stored[i]
          /\ stored'[Len(stored) + 1] = Brings(Head1) /\ stored' \in Seq(Chunks)
      BY <2>2, <3>1, AppendProperties
    <3> QED BY <1>1, <3>1, <3>2 DEF Files
  <2> QED BY <1>1, <2>1, <2>2
<1>9. Live' => source' = commands' /\ Of(tx', commands')
  BY <1>1, <1>5, <1>6, OfKept DEF Files, Live
<1>10. Sends' => target' = commands'
  BY <1>1, <1>6 DEF Files, Sends
<1>11. client' \in Commands => \A i \in DOMAIN rx' : rx'[i].f = commands'
  BY <1>1, <1>2 DEF Files
<1> QED BY <1>1, <1>7, <1>8, <1>9, <1>10, <1>11 DEF Files

LEMMA FilesSent ==
  ASSUME IInv, Turn, Files, ReadSend \/ ReadSendEnd \/ DiskFails \/ DirSend
  PROVE  Files'
<1>1. /\ UNCHANGED <<rx, client, got, stored, source, target, commands>>
      /\ Keeps(tx', tx, {"FILE_ACK", "ACK"}) /\ tx \in Seq(Packets) /\ Typed
  <2>1. UNCHANGED <<source, target, commands>>
    BY DEF ReadSend, ReadSendEnd, DiskFails, DirSend, FromTx, fileVars
  <2> QED BY <2>1, RunSends DEF IInv, Typed
<1>2. \A k : Answered(tx', k) => Answered(tx, k)
  <2>1. Keeps(tx', tx, {"ACK"})
    BY <1>1, KeptLess
  <2> QED BY <2>1, KeptAnswered
<1>3. \/ UNCHANGED tx
      \/ \E p \in Packets : Send(p) /\ (p.kind = "FILE_DATA" => p.f = source)
  <2>1. /\ next_packet \in Nat /\ file_pos \in Nat /\ FileLength \in Nat /\ source \in Nat
    BY <1>1, SizeAssumption DEF Typed, TypeOK
  <2>2. \A k \in Nat, c, f \in Nat :
          /\ FileData(k, c, f) \in Packets /\ FileInfo(k, c, f) \in Packets
          /\ FileData(k, c, f).f = f /\ FileInfo(k, c, f).f = f
    BY PacketTypes DEF FileData, FileInfo, Packet
  <2> QED BY <2>1, <2>2 DEF ReadSend, ReadSendEnd, DiskFails, DirSend
<1>4. ASSUME Live PROVE Of(tx', commands)
  <2>1. Of(tx, commands) /\ source = commands
    BY <1>4 DEF Files
  <2>2. CASE UNCHANGED tx
    BY <2>1, <2>2 DEF Of
  <2>3. CASE \E p \in Packets : Send(p) /\ (p.kind = "FILE_DATA" => p.f = source)
    BY <1>1, <2>1, <2>3, OneMore DEF Send, Of
  <2> QED BY <1>3, <2>2, <2>3
<1>5. /\ Live' => Live
      /\ Sends' => Sends
  BY <1>1, <1>2 DEF Live, Sends
<1> QED BY <1>1, <1>4, <1>5 DEF Files

(* A packet leaves; a chunk the phone accepts is of the file it asked for.   *)
LEMMA FilesLeave ==
  ASSUME IInv, Turn, DownloadInv, Files,
         PacketLost \/ PhoneAnswered \/ PhoneGetsData \/ PhoneGetsEntry \/ PhoneGetsAck
  PROVE  Files'
<1>1. /\ tx # <<>> /\ tx' = Tail(tx) /\ tx \in Seq(Packets) /\ rx \in Seq(Packets)
      /\ UNCHANGED <<stored, source, target, commands>>
  BY DEF PacketLost, PhoneAnswered, PhoneGetsData, PhoneGetsEntry, PhoneGetsAck, Leaves,
         Received, Listens, Acknowledges, FromPhone, fileVars, boundVars, IInv, Typed
<1>2. Keeps(tx', tx, {"FILE_DATA"}) /\ Keeps(tx', tx, {"ACK"})
  BY <1>1, TailKept
<1>3. \A k : Answered(tx', k) => Answered(tx, k)
  BY <1>2, KeptAnswered
<1>4. Head(tx) = tx[1] /\ 1 \in DOMAIN tx /\ Head(tx) \in Packets
  BY <1>1, TailKept, Taken
<1>5. CASE UNCHANGED <<rx, client, got>>
  <2>1. Keeps(rx', rx, {"FILE_DATA"})
    BY <1>1, <1>5, SameKept
  <2> QED BY <1>1, <1>2, <1>3, <1>5, <2>1, FilesRest DEF Live, Sends
<1>6. CASE PhoneAnswered /\ ~UNCHANGED <<client, got>>
  <2>1. /\ UNCHANGED rx /\ got' = <<>> /\ client = Head(tx).c
        /\ Head(tx).kind = "NAK" => client' = "none"
        /\ Head(tx).kind \in {"ACK", "NAK"}
        /\ client' = "reading" => client = "READ" /\ Head(tx).kind = "ACK"
        /\ client' = "writing" => client = "WRITE" /\ Head(tx).kind = "ACK"
        /\ client' \in {"none", "reading", "writing", "listing"}
    BY <1>6 DEF PhoneAnswered, Listens
  <2>2. Head(tx).kind = "ACK" => Answered(tx, client)
    <3>1. ASSUME Head(tx).kind = "ACK" PROVE tx[1] = Ack(client)
      BY <1>4, <2>1, <3>1 DEF Packets, Ack, Packet
    <3> QED BY <1>4, <3>1 DEF Answered
  <2>3. Live' => Live
    BY <2>1, <2>2 DEF Live
  <2>4. Sends' => Sends
    BY <2>1, <2>2 DEF Sends
  <2>5. Keeps(rx', rx, {"FILE_DATA"}) /\ client' \notin Commands
    BY <1>1, <2>1, SameKept, ClientAssumption
  <2> QED BY <1>1, <1>2, <2>1, <2>3, <2>4, <2>5, FilesRest
<1>7. CASE PhoneGetsData /\ ~UNCHANGED <<rx, got>>
  <2>1. /\ client = "reading" /\ UNCHANGED client /\ Head(tx).kind = "FILE_DATA"
        /\ rx' = Written(FileAck(Head(tx)))
        /\ got' = got \/ got' = Append(got, Brings(Head(tx)))
    BY <1>7 DEF PhoneGetsData, Listens, Acknowledges
  <2>2. Of(rx', target')
    <3>1. FileAck(Head(tx)) \in Packets /\ FileAck(Head(tx)).kind = "FILE_ACK"
      BY <1>4, <2>1, PacketTypes DEF FileAck, Packet
    <3>2. Keeps(rx', rx, {"FILE_DATA"})
      BY <1>1, <2>1, <3>1, SameKept, OneMore DEF Written
    <3> QED BY <1>1, <3>2, OfKept DEF Files
  <2>3. Live /\ Of(tx, commands) /\ source = commands
    BY <2>1 DEF Files, Live
  <2>4. \A i \in DOMAIN got' : got'[i].f = commands
    <3>1. CASE got' = got
      BY <2>1, <3>1 DEF Files
    <3>2. CASE got' = Append(got, Brings(Head(tx)))
      <4>1. got \in Seq(Chunks)
        BY <2>1 DEF DownloadInv, Download
      <4>2. Brings(Head(tx)).f = commands /\ Brings(Head(tx)) \in Chunks
        BY <1>1, <1>4, <2>1, <2>3, Taken DEF Of, Brings, Chunk, Chunks
      <4>3. /\ DOMAIN got' = 1 .. Len(got) + 1 /\ DOMAIN got = 1 .. Len(got)
            /\ \A i \in 1 .. Len(got) : got'[i] = got[i]
            /\ got'[Len(got) + 1] = Brings(Head(tx))
        BY <3>2, <4>1, <4>2, AppendProperties
      <4> QED BY <2>1, <4>2, <4>3 DEF Files
    <3> QED BY <2>1, <3>1, <3>2
  <2>5. client' \notin Commands /\ ~Sends'
    BY <2>1, ClientAssumption DEF Sends
  <2> QED BY <1>1, <1>2, <2>2, <2>3, <2>4, <2>5, OfKept DEF Files
<1>8. CASE PhoneGetsEntry /\ client = "listing"
  <2>1. UNCHANGED <<rx, client>>
    BY <1>8 DEF PhoneGetsEntry, Listens
  <2>2. Keeps(rx', rx, {"FILE_DATA"}) /\ ~Live' /\ ~Sends' /\ client' \notin Commands
        /\ client' # "reading"
    BY <1>1, <1>8, <2>1, SameKept, ClientAssumption DEF Live, Sends
  <2> QED BY <1>1, <1>2, <2>1, <2>2, FilesRest
<1>9. \/ UNCHANGED <<rx, client, got>>
      \/ PhoneAnswered /\ ~UNCHANGED <<client, got>>
      \/ PhoneGetsData /\ ~UNCHANGED <<rx, got>>
      \/ PhoneGetsEntry /\ client = "listing"
  BY DEF PacketLost, PhoneAnswered, PhoneGetsData, PhoneGetsEntry, PhoneGetsAck, Listens,
         Acknowledges, phoneVars
<1> QED BY <1>5, <1>6, <1>7, <1>8, <1>9

(* The phone gives a command or sends a chunk.                               *)
LEMMA FilesWritten ==
  ASSUME IInv, Turn, Files, PhoneCommands \/ PhoneSendsData, ~hurried'
  PROVE  Files'
<1>1. /\ rx \in Seq(Packets) /\ tx \in Seq(Packets) /\ base \in Nat /\ commands \in Nat
      /\ Window \in Nat \ {0} /\ UNCHANGED <<tx, stored, source, target>>
  BY SizeAssumption, ClientAssumption
  DEF IInv, Typed, TypeOK, PhoneCommands, PhoneSendsData, Writes, fileVars
<1>2. CASE PhoneCommands
  <2>1. PICK c \in Commands : rx' = Written(Command(c, commands')) /\ client' = c
    BY <1>2 DEF PhoneCommands, Writes
  <2>2. rx = <<>> /\ ~HasOwn(tx)
    BY <1>2 DEF PhoneCommands, HasOwn
  <2>3. rx' = <<Command(c, commands')>>
    BY <1>1, <2>1, <2>2 DEF Written
  <2>4. \A i \in DOMAIN rx' : rx'[i].f = commands' /\ rx'[i].kind = c
    BY <2>3 DEF Command, Packet
  <2>5. ~Live' /\ ~Sends' /\ client' # "reading"
    <3>1. \A k : ~Answered(tx, k)
      BY <2>2 DEF Answered, HasOwn, Own, Ack, Packet
    <3> QED BY <1>1, <2>1, <3>1, ClientAssumption DEF Live, Sends, Answered
  <2>6. Of(rx', target')
    BY <2>4, ClientAssumption DEF Of
  <2> QED BY <1>1, <2>4, <2>5, <2>6 DEF Files
<1>3. CASE PhoneSendsData
  <2>1. PICK k \in base .. (base + Window - 1) : Writes(FileData(k, k, commands))
    BY <1>3 DEF PhoneSendsData
  <2>2. /\ client = "writing" /\ rx' = Written(FileData(k, k, commands))
        /\ UNCHANGED <<client, got, commands>>
    BY <1>3, <2>1 DEF PhoneSendsData, Writes, phoneVars, boundVars
  <2>3. FileData(k, k, commands) \in Packets /\ FileData(k, k, commands).f = target
    <3>1. k \in Nat /\ target = commands
      BY <1>1, <2>2 DEF Files, Sends
    <3> QED BY <1>1, <3>1, PacketTypes DEF FileData, Packet
  <2>4. Of(rx', target')
    BY <1>1, <2>2, <2>3, OneMore DEF Written, Files, Of
  <2>5. client' \notin Commands /\ ~Live' /\ client' # "reading" /\ Sends
    BY <2>2, ClientAssumption DEF Live, Sends
  <2> QED BY <1>1, <2>2, <2>4, <2>5 DEF Files
<1> QED BY <1>2, <1>3

(* The other steps around a run                                              *)
LEMMA FilesAround ==
  ASSUME IInv, Turn, Files, PhoneCancels \/ WriteLost \/ Disconnect \/ Connect \/ OtherSends
  PROVE  Files'
<1>1. /\ rx \in Seq(Packets) /\ tx \in Seq(Packets) /\ Window \in Nat \ {0} /\ Typed
      /\ UNCHANGED <<stored, source, target>>
  BY SizeAssumption
  DEF IInv, Typed, PhoneCancels, WriteLost, Disconnect, Connect, OtherSends, Writes, fileVars,
      FromPhone
<1>2. CASE PhoneCancels
  <2>1. rx' = Written(Command("CANCEL", 0)) /\ client' = "none" /\ UNCHANGED tx
    BY <1>2 DEF PhoneCancels, Writes
  <2>2. Keeps(rx', rx, {"FILE_DATA"})
    <3>1. Command("CANCEL", 0) \in Packets /\ Command("CANCEL", 0).kind = "CANCEL"
      BY PacketTypes DEF Command, Packet
    <3> QED BY <1>1, <2>1, <3>1, SameKept, OneMore DEF Written
  <2>3. Keeps(tx', tx, {"FILE_DATA"}) /\ client' \notin Commands /\ ~Live' /\ ~Sends'
        /\ client' # "reading"
    BY <1>1, <2>1, SameKept, ClientAssumption DEF Live, Sends
  <2> QED BY <1>1, <2>2, <2>3, FilesRest
<1>3. CASE WriteLost
  <2>1. rx # <<>> /\ rx' = SubSeq(rx, 1, Len(rx) - 1) /\ UNCHANGED <<tx, client, got, commands>>
    BY <1>3 DEF WriteLost, phoneVars
  <2>2. /\ rx' \in Seq(Packets) /\ Len(rx') = Len(rx) - 1 /\ Len(rx) \in Nat
        /\ \A i \in 1 .. Len(rx) - 1 : rx'[i] = rx[i]
    BY <1>1, <2>1, LastDropped
  <2>3. \A i \in DOMAIN rx' : i \in DOMAIN rx /\ rx'[i] = rx[i]
    BY <1>1, <2>2
  <2>4. Keeps(rx', rx, {"FILE_DATA"}) /\ Keeps(tx', tx, {"FILE_DATA"})
    BY <1>1, <2>1, PrefixKept, SameKept
  <2> QED BY <1>1, <2>1, <2>3, <2>4, FilesRest DEF Live, Sends
<1>4. CASE Disconnect
  <2>1. client' = "none" /\ UNCHANGED <<rx, tx>>
    BY <1>4 DEF Disconnect
  <2>2. /\ Keeps(tx', tx, {"FILE_DATA"}) /\ Keeps(rx', rx, {"FILE_DATA"})
        /\ client' \notin Commands /\ ~Live' /\ ~Sends' /\ client' # "reading"
    BY <1>1, <2>1, SameKept, ClientAssumption DEF Live, Sends
  <2> QED BY <1>1, <2>2, FilesRest
<1>5. CASE Connect
  <2>1. rx' = <<>> /\ UNCHANGED <<tx, client, got, commands>>
    BY <1>5 DEF Connect, phoneVars, boundVars
  <2>2. Keeps(rx', rx, {"FILE_DATA"}) /\ Keeps(tx', tx, {"FILE_DATA"}) /\ DOMAIN rx' = {}
    BY <1>1, <2>1, SameKept
  <2> QED BY <1>1, <2>1, <2>2, FilesRest DEF Live, Sends
<1>6. CASE OtherSends
  <2>1. Send(Foreign) /\ UNCHANGED <<rx, client, got, commands>>
    BY <1>6 DEF OtherSends, phoneVars, boundVars
  <2>2. Foreign \in Packets /\ Foreign.kind = "FOREIGN"
    BY PacketTypes DEF Foreign, Packet
  <2>3. Keeps(tx', tx, {"FILE_DATA"}) /\ Keeps(tx', tx, {"ACK"}) /\ Keeps(rx', rx, {"FILE_DATA"})
    BY <1>1, <2>1, <2>2, SentKept, SameKept
  <2>4. \A k : Answered(tx', k) => Answered(tx, k)
    BY <2>3, KeptAnswered
  <2> QED BY <1>1, <2>1, <2>3, <2>4, FilesRest DEF Live, Sends
<1> QED BY <1>2, <1>3, <1>4, <1>5, <1>6

LEMMA FilesNext ==
  ASSUME IInv, IInv', Turn, DownloadInv, Files, Next, ~hurried'
  PROVE  Files'
<1>1. CASE RunIdle \/ RunRead \/ RunWrite \/ RunDir \/ RxDone \/ Finish \/ Timeout
  <2>1. UNCHANGED <<rx, tx, client, got, stored, source, target, commands>>
    BY <1>1 DEF RunIdle, RunRead, RunWrite, RunDir, Begin, RxDone, Finish, Timeout, phoneVars,
                boundVars, fileVars
  <2> QED BY <2>1 DEF Files, Live, Sends, Of
<1>2. CASE Taking
  BY <1>2, FilesAnswered, FilesOpened, FilesGoOn, FilesStored DEF Taking
<1>3. CASE ReadSend \/ ReadSendEnd \/ DiskFails \/ DirSend
  BY <1>3, FilesSent
<1>4. CASE \/ PacketLost \/ PhoneAnswered \/ PhoneGetsData \/ PhoneGetsEntry \/ PhoneGetsAck
  BY <1>4, FilesLeave
<1>5. CASE PhoneCommands \/ PhoneSendsData
  BY <1>5, FilesWritten
<1>6. CASE PhoneCancels \/ WriteLost \/ Disconnect \/ Connect \/ OtherSends
  BY <1>6, FilesAround
<1> QED BY <1>1, <1>2, <1>3, <1>4, <1>5, <1>6 DEF Next, Update, Phone, Link, Taking

-----------------------------------------------------------------------------
DataInv ==
  /\ IInv
  /\ ~hurried => Turn
  /\ ~hurried /\ ~disk_error => UploadInv
  /\ ~hurried => DownloadInv /\ Files

LEMMA DataStutter ==
  ASSUME DataInv, UNCHANGED vars
  PROVE  DataInv'
<1> USE DEF vars, taskVars, fileVars, windowVars, phoneVars, histVars
<1>1. IInv'
  BY InvStutter DEF DataInv
<1>2. Turn => Turn'
  BY DEF Turn
<1>3. UploadInv => UploadInv'
  BY DEF UploadInv, Order, Upload, Uploading, AcksFit, AckFits, DataFit, DataFits
<1>4. DownloadInv => DownloadInv'
  <2>1. Download => Download'
    BY DEF Download, Reading, Downloading, Live, Windows, Opened, Between
  <2>2. Flying => Flying'
    BY DEF Flying, FlyFits, Live
  <2>3. Coming => Coming'
    BY DEF Coming, ComeFits, Behind, Live
  <2> QED BY <2>1, <2>2, <2>3 DEF DownloadInv
<1>5. Files => Files'
  BY DEF Files, Live, Sends, Of, boundVars
<1> QED BY <1>1, <1>2, <1>3, <1>4, <1>5 DEF DataInv

LEMMA DataInit == Init => DataInv
<1> SUFFICES ASSUME Init PROVE DataInv
  OBVIOUS
<1>1. /\ rx = <<>> /\ tx = <<>> /\ stored = <<>> /\ client = "none" /\ base = 0 /\ got = <<>>
      /\ next_packet = 0 /\ state = "IDLE" /\ next_state = "IDLE" /\ accepted = 0
  BY DEF Init
<1>2. DOMAIN rx = {} /\ DOMAIN tx = {} /\ DOMAIN stored = {}
  BY <1>1
<1>3. Turn
  BY <1>1, <1>2, ClientAssumption DEF Turn, Only, Alone
<1>4. UploadInv
  BY <1>1, <1>2, ClientAssumption
  DEF UploadInv, Order, Upload, Uploading, Has, Answered, AcksFit, DataFit
<1>5. DownloadInv
  BY <1>1, <1>2 DEF DownloadInv, Download, Reading, Downloading, Live, Has, Opened, Flying, Coming
<1>6. Files
  BY <1>1, <1>2, ClientAssumption DEF Files, Live, Sends, Of
<1> QED BY <1>3, <1>4, <1>5, <1>6, InvInit DEF DataInv

LEMMA DataNext == DataInv /\ [Next]_vars => DataInv'
<1> SUFFICES ASSUME DataInv, Next PROVE DataInv'
  BY DataStutter
<1>1. IInv /\ IInv'
  BY InvNext DEF DataInv
<1>2. ~hurried' => Turn /\ Turn'
  BY <1>1, HistoryStays, TurnNext DEF DataInv
<1>3. ~hurried' /\ ~disk_error' => UploadInv'
  BY <1>1, <1>2, HistoryStays, UploadNext DEF DataInv
<1>4. ~hurried' => DownloadInv'
  BY <1>1, <1>2, HistoryStays, DownloadNext DEF DataInv
<1>5. ~hurried' => Files'
  BY <1>1, <1>2, HistoryStays, FilesNext DEF DataInv
<1> QED BY <1>1, <1>2, <1>3, <1>4, <1>5 DEF DataInv

LEMMA AlwaysData == Spec => []DataInv
BY DataInit, DataNext, PTL DEF Spec

LEMMA DataImpliesUpload == DataInv => (~hurried => UploadIntact)
<1> SUFFICES ASSUME DataInv, ~hurried, ~disk_error
             PROVE  /\ \A i \in DOMAIN stored : stored[i].c = i - 1 /\ stored[i].f = target
                    /\ client = "writing" => IF base > FileLength THEN Len(stored) = FileLength
                                                                  ELSE base <= Len(stored)
  BY DEF UploadIntact
<1>1. UploadInv
  BY DEF DataInv
<1>2. ASSUME client = "writing"
      PROVE  IF base > FileLength THEN Len(stored) = FileLength ELSE base <= Len(stored)
  <2>1. /\ Len(stored) = Least(next_packet, FileLength)
        /\ base <= next_packet
    BY <1>1, <1>2 DEF UploadInv, Upload, Uploading
  <2>2. base \in Nat /\ next_packet \in Nat /\ FileLength \in Nat
    BY SizeAssumption DEF DataInv, IInv, Typed, TypeOK
  <2> QED BY <2>1, <2>2 DEF Least
<1> QED BY <1>1, <1>2 DEF UploadInv, Order, DataInv, Files

LEMMA DataImpliesDownload == DataInv => (~hurried => DownloadSafe)
<1> SUFFICES ASSUME DataInv, ~hurried PROVE DownloadSafe
  OBVIOUS
<1>1. Download
  BY DEF DataInv, DownloadInv
<1>2. DownloadIntact
  BY <1>1 DEF Download, DownloadIntact, DataInv, Files
<1>3. AckedIsAccepted
  BY <1>1 DEF Download, Reading, Windows, AckedIsAccepted
<1> QED BY <1>2, <1>3 DEF DownloadSafe

(* What the service has stored of an upload is the file the phone sends now, *)
(* from the beginning, every chunk once and in order and none of another     *)
(* file, whatever was lost, sent again or cancelled before, and the phone is *)
(* never told that more is stored than is: for every window and modulus, of  *)
(* a phone that lets both queues run empty before a command.                 *)
THEOREM UploadAlwaysIntact == Spec => [](~hurried => UploadIntact)
BY AlwaysData, DataImpliesUpload, PTL

(* What such a phone has accepted of a download is the file it asked for     *)
(* last, from the beginning, with no chunk of a download it cancelled, and   *)
(* the sender never takes a chunk for acknowledged that the phone has not:   *)
(* sequence numbers that come round again are never taken for one another.   *)
THEOREM DownloadAlwaysSafe == Spec => [](~hurried => DownloadSafe)
BY AlwaysData, DataImpliesDownload, PTL

=============================================================================
