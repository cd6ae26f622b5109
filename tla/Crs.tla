-------------------------------- MODULE Crs --------------------------------
(***************************************************************************)
(* The file transfer service (FlySight/crs.c): a phone reads a file by     *)
(* go-back-N, writes one, lists a directory, or sends a command that is    *)
(* answered at once.                                                       *)
(*                                                                         *)
(* FS_CRS_Update is one run of a task.  No other task runs inside it, the  *)
(* timeout interrupt does; a run is a sequence of steps, one for each      *)
(* packet it takes from the receive ring or puts on the transmit queue.    *)
(* The transmit queue is the first-in first-out queue of BleTxQueue; what  *)
(* it hands over reaches the phone or is lost.  The phone is external: it  *)
(* follows the protocol, and may cancel, disconnect or come back.          *)
(*                                                                         *)
(* A file is the chunks 0 .. FileLength-1 and an empty packet at its end,  *)
(* which is chunk FileLength here.  Each command is about a file of its    *)
(* own, which is named by the number of the command.                       *)
(***************************************************************************)
EXTENDS Integers, Sequences

CONSTANTS
  Window,      \* FS_CRS_WINDOW_LENGTH: both rings, and the sender's window
  Modulus,     \* sequence numbers are sent modulo this (256)
  FileLength,  \* chunks of a file, entries of a directory
  Commands,    \* the commands the phone sends
  Others,      \* other services use the transmit queue
  MaxCommands, \* bound: commands, cancellations and connections of the phone
  MaxFaults    \* bound: packets lost, disk errors

ASSUME SizeAssumption ==
  /\ Window \in Nat \ {0} /\ FileLength \in Nat
  /\ Modulus \in Nat /\ Modulus > 3 * Window
ASSUME ClientAssumption ==
  /\ Commands \subseteq {"READ", "WRITE", "READ_DIR", "SIMPLE"}
  /\ Others \in BOOLEAN /\ MaxCommands \in Nat /\ MaxFaults \in Nat

VARIABLES
  state, next_state,     \* of FS_CRS_Update; equal between two runs
  update,                \* where the running FS_CRS_Update stands
  crs_task,              \* the CFG_TASK_FS_CRS_UPDATE_ID bit
  file_open, file_pos,   \* the file or directory; the chunk read next
  source, target,        \* the file (or directory) opened last to be read, to be
                         \* written: the number of the command
  fatfs,                 \* FatFS references held by this service
  next_packet, next_ack, last_packet,
  ack_timer, timeout_flag,
  rx, tx,                \* the receive ring, the transmit queue
  connected,
  stored,                \* the file being written, as the card has it
  client,                \* what the phone is doing
  got,                   \* chunks or entries the phone has accepted
  base,                  \* chunks the phone knows to be stored
  commands, faults,      \* counters for the bounds
  accepted,              \* history: packets accepted since READ was opened
  hurried,               \* history: a command was given while the receive ring
                         \* or the transmit queue held something of an earlier one
  disk_error,            \* history: f_lseek or f_write failed
  stranded               \* history: the last run ended a transfer with packets in rx

taskVars   == <<state, next_state, update, crs_task>>
fileVars   == <<file_open, file_pos, source, target, fatfs, stored>>
windowVars == <<next_packet, next_ack, last_packet>>
timerVars  == <<ack_timer, timeout_flag>>
phoneVars  == <<client, got, base>>
boundVars  == <<commands, faults>>
histVars   == <<accepted, hurried, disk_error, stranded>>
vars == <<taskVars, fileVars, windowVars, timerVars, rx, tx, connected,
          phoneVars, boundVars, histVars>>

States == {"IDLE", "READ", "WRITE", "DIR"}
Never  == FileLength + 2  \* last_packet before the end of the file is met:
                          \* (uint32_t) -1, a number no packet reaches

(* Packets.  "n" is a sequence number, "c" a chunk or the command answered,  *)
(* "f" the file.  Data carries its sequence number and contents, that is the *)
(* chunk and the file, but no name of either: nobody can compare them.  An   *)
(* acknowledgement carries its sequence number only, the rest is history.    *)
Packet(kind, n, c, f) == [kind |-> kind, n |-> n, c |-> c, f |-> f]
Command(c, f)     == Packet(c, 0, 0, f)
FileData(k, c, f) == Packet("FILE_DATA", k % Modulus, c, f)
FileInfo(k, c, f) == Packet("FILE_INFO", k % Modulus, c, f)
FileAck(p)        == Packet("FILE_ACK", p.n, p.c, p.f)
Ack(c)            == Packet("ACK", 0, c, 0)
Nak(c)            == Packet("NAK", 0, c, 0)
Foreign           == Packet("FOREIGN", 0, 0, 0)

(* What a packet brings of a file *)
Chunk(f, c) == [f |-> f, c |-> c]
Brings(p)   == Chunk(p.f, p.c)

TxRoom    == Len(tx) < Window
Own(p)    == p.kind # "FOREIGN"
Send(p)   == tx' = IF TxRoom THEN Append(tx, p) ELSE tx
Fault     == faults < MaxFaults /\ faults' = faults + 1
Between   == update = "none"  \* no run of FS_CRS_Update in progress
Head1     == Head(rx)
TakeRx    == rx' = Tail(rx)

(* Mutant of Seek: the file is not repositioned with the packet number. *)
SeekForgotten == UNCHANGED file_pos

(* f_lseek to the first packet that is not acknowledged *)
Seek == file_pos' = next_ack

(* Mutant of AckExpected: any acknowledgement moves the window. *)
AckOfAny(n) == n \in 0..(Modulus - 1)

AckExpected(n) == n = next_ack % Modulus

(* Mutant of DataExpected: a packet that is sent again is stored again. *)
DataOrLast(n) == n \in {next_packet % Modulus, (next_packet - 1) % Modulus}

DataExpected(n) == n = next_packet % Modulus

(* Mutant of Released: FatFS stays referenced after a transfer. *)
NeverReleased(ended) == fatfs

Released(ended) == IF ended THEN fatfs - 1 ELSE fatfs

(* Mutant of Flagged: the task is woken but not told why. *)
Unflagged == UNCHANGED timeout_flag

Flagged == timeout_flag' = TRUE

-----------------------------------------------------------------------------
(* FS_CRS_Update begins: it goes to IDLE when the link is lost. *)

Begin(s) ==
  /\ Between /\ crs_task /\ state = s
  /\ crs_task' = FALSE /\ update' = "rx"
  /\ UNCHANGED <<state, file_open, source, target, fatfs, stored, next_ack, last_packet,
                 rx, tx, connected, phoneVars, boundVars, histVars>>

RunIdle ==
  /\ Begin("IDLE")
  /\ UNCHANGED <<next_state, file_pos, next_packet, timerVars>>

(* Go back to the first packet that is not acknowledged. *)
RunRead ==
  /\ Begin("READ")
  /\ next_state' = IF connected THEN "READ" ELSE "IDLE"
  /\ IF timeout_flag
     THEN next_packet' = next_ack /\ Seek /\ timeout_flag' = FALSE /\ ack_timer' = TRUE
     ELSE UNCHANGED <<next_packet, file_pos, timerVars>>

RunWrite ==
  /\ Begin("WRITE")
  /\ next_state' = IF connected /\ ~timeout_flag THEN "WRITE" ELSE "IDLE"
  /\ UNCHANGED <<file_pos, next_packet, timerVars>>

RunDir ==
  /\ Begin("DIR")
  /\ next_state' = IF connected THEN "DIR" ELSE "IDLE"
  /\ UNCHANGED <<file_pos, next_packet, timerVars>>

-----------------------------------------------------------------------------
(* One packet is taken from the receive ring. *)

Receiving(s) == update = "rx" /\ state = s /\ next_state = s /\ rx # <<>>
FromRx == <<state, update, connected, phoneVars, commands>>

(* CREATE, DELETE, MK_DIR, PING and unknown commands: FatFS is requested and *)
(* released, the answer is an ACK or a NAK.                                  *)
IdleSimple ==
  /\ Receiving("IDLE") /\ Head1.kind \notin {"READ", "WRITE", "READ_DIR"}
  /\ TakeRx
  /\ Send(Ack(Head1.kind)) \/ Send(Nak(Head1.kind))
  /\ UNCHANGED <<FromRx, next_state, crs_task, fileVars, windowVars, timerVars,
                 faults, histVars>>

(* FatFS or the file cannot be had. *)
IdleOpenFails ==
  /\ Receiving("IDLE") /\ Head1.kind \in {"READ", "WRITE", "READ_DIR"}
  /\ TakeRx
  /\ Fault
  /\ Send(Nak(Head1.kind))
  /\ UNCHANGED <<FromRx, next_state, crs_task, fileVars, windowVars, timerVars,
                 histVars>>

IdleRead ==
  /\ Receiving("IDLE") /\ Head1.kind = "READ"
  /\ TakeRx
  /\ file_open' = TRUE /\ source' = Head1.f /\ file_pos' = 0
  /\ next_packet' = 0 /\ next_ack' = 0 /\ last_packet' = Never
  /\ ack_timer' = TRUE /\ timeout_flag' = FALSE
  /\ accepted' = 0
  /\ \/ /\ fatfs' = fatfs + 1
        /\ Send(Ack("READ"))
        /\ crs_task' = TRUE
        /\ next_state' = "READ"
        /\ UNCHANGED <<faults, disk_error>>
     \/ /\ Fault   \* f_lseek fails: FatFS is released, the file stays open
        /\ disk_error' = TRUE
        /\ Send(Nak("READ"))
        /\ UNCHANGED <<fatfs, crs_task, next_state>>
  /\ UNCHANGED <<FromRx, target, stored, hurried, stranded>>

IdleWrite ==
  /\ Receiving("IDLE") /\ Head1.kind = "WRITE"
  /\ TakeRx
  /\ file_open' = TRUE /\ target' = Head1.f /\ stored' = <<>>
  /\ fatfs' = fatfs + 1
  /\ Send(Ack("WRITE"))
  /\ next_packet' = 0
  /\ ack_timer' = TRUE /\ timeout_flag' = FALSE
  /\ next_state' = "WRITE"
  /\ UNCHANGED <<FromRx, crs_task, file_pos, source, next_ack, last_packet, faults,
                 histVars>>

IdleReadDir ==
  /\ Receiving("IDLE") /\ Head1.kind = "READ_DIR"
  /\ TakeRx
  /\ file_open' = TRUE /\ source' = Head1.f /\ file_pos' = 0
  /\ fatfs' = fatfs + 1
  /\ Send(Ack("READ_DIR"))
  /\ next_packet' = 0
  /\ crs_task' = TRUE
  /\ next_state' = "DIR"
  /\ UNCHANGED <<FromRx, target, stored, next_ack, last_packet, timerVars, faults,
                 histVars>>

(* CANCEL during READ or DIR drops what is queued, whoever queued it. *)
Cancelled ==
  /\ \E s \in {"READ", "DIR"} : Receiving(s)
  /\ Head1.kind = "CANCEL"
  /\ TakeRx
  /\ tx' = <<>>
  /\ next_state' = "IDLE"
  /\ UNCHANGED <<FromRx, crs_task, fileVars, windowVars, timerVars, faults, histVars>>

(* Only the acknowledgement of packet next_ack moves the window. *)
ReadAck ==
  /\ Receiving("READ") /\ Head1.kind = "FILE_ACK"
  /\ TakeRx
  /\ IF AckExpected(Head1.n)
     THEN next_ack' = next_ack + 1 /\ ack_timer' = TRUE
     ELSE UNCHANGED <<next_ack, ack_timer>>
  /\ UNCHANGED <<FromRx, next_state, crs_task, fileVars, next_packet, last_packet,
                 timeout_flag, tx, faults, histVars>>

(* Any other packet that arrives in READ or DIR is dropped without a word.   *)
Dropped ==
  /\ \/ Receiving("READ") /\ Head1.kind \notin {"CANCEL", "FILE_ACK"}
     \/ Receiving("DIR") /\ Head1.kind # "CANCEL"
     \/ Receiving("WRITE") /\ Head1.kind \notin {"CANCEL", "FILE_DATA"}
  /\ TakeRx
  /\ UNCHANGED <<FromRx, next_state, crs_task, fileVars, windowVars, timerVars, tx,
                 faults, histVars>>

(* The packet that is expected.  The result of f_write is not looked at.     *)
WriteData ==
  /\ Receiving("WRITE") /\ Head1.kind = "FILE_DATA"
  /\ DataExpected(Head1.n)
  /\ TakeRx
  /\ \/ /\ stored' = IF Head1.c = FileLength THEN stored ELSE Append(stored, Brings(Head1))
        /\ UNCHANGED <<faults, disk_error>>
     \/ Fault /\ disk_error' = TRUE /\ UNCHANGED stored
  /\ Send(FileAck(Head1))
  /\ next_packet' = next_packet + 1
  /\ ack_timer' = TRUE
  /\ next_state' = IF Head1.c = FileLength THEN "IDLE" ELSE "WRITE"
  /\ UNCHANGED <<FromRx, crs_task, file_open, file_pos, source, target, fatfs, next_ack,
                 last_packet, timeout_flag, accepted, hurried, stranded>>

(* Any other data packet; the last one stored is acknowledged again. *)
WriteRepeated ==
  /\ Receiving("WRITE") /\ Head1.kind = "FILE_DATA"
  /\ ~DataExpected(Head1.n)
  /\ TakeRx
  /\ IF Head1.n = (next_packet - 1) % Modulus THEN Send(FileAck(Head1))
                                              ELSE UNCHANGED tx
  /\ UNCHANGED <<FromRx, next_state, crs_task, fileVars, windowVars, timerVars,
                 faults, histVars>>

WriteCancel ==
  /\ Receiving("WRITE") /\ Head1.kind = "CANCEL"
  /\ TakeRx
  /\ next_state' = "IDLE"
  /\ UNCHANGED <<FromRx, crs_task, fileVars, windowVars, timerVars, tx, faults, histVars>>

RxDone ==
  /\ update = "rx"
  /\ rx = <<>> \/ next_state # state
  /\ update' = "tx"
  /\ UNCHANGED <<state, next_state, crs_task, fileVars, windowVars, timerVars, rx, tx,
                 connected, phoneVars, boundVars, histVars>>

-----------------------------------------------------------------------------
(* One packet is put on the transmit queue. *)

FromTx == <<state, update, crs_task, timerVars, rx, connected, phoneVars, commands,
            histVars>>

SendingData ==
  /\ update = "tx" /\ state = "READ" /\ next_state = "READ"
  /\ TxRoom
  /\ next_packet < next_ack + Window
  /\ next_packet < last_packet

ReadSend ==
  /\ SendingData /\ file_pos < FileLength
  /\ Send(FileData(next_packet, file_pos, source))
  /\ file_pos' = file_pos + 1
  /\ next_packet' = next_packet + 1
  /\ UNCHANGED <<FromTx, next_state, file_open, source, target, fatfs, stored, next_ack,
                 last_packet, faults>>

(* f_eof: an empty packet ends the transfer. *)
ReadSendEnd ==
  /\ SendingData /\ file_pos >= FileLength
  /\ Send(FileData(next_packet, FileLength, source))
  /\ next_packet' = next_packet + 1
  /\ last_packet' = next_packet + 1
  /\ UNCHANGED <<FromTx, next_state, fileVars, next_ack, faults>>

(* f_read or f_readdir fails: the transfer ends without a word. *)
DiskFails ==
  /\ \/ SendingData /\ file_pos < FileLength
     \/ update = "tx" /\ state = "DIR" /\ next_state = "DIR" /\ TxRoom
  /\ Fault
  /\ next_state' = "IDLE"
  /\ UNCHANGED <<FromTx, fileVars, windowVars, tx>>

DirSend ==
  /\ update = "tx" /\ state = "DIR" /\ next_state = "DIR"
  /\ TxRoom
  /\ Send(FileInfo(next_packet, file_pos, source))
  /\ file_pos' = file_pos + 1
  /\ next_packet' = next_packet + 1
  /\ next_state' = IF file_pos = FileLength THEN "IDLE" ELSE "DIR"
  /\ UNCHANGED <<FromTx, file_open, source, target, fatfs, stored, next_ack, last_packet,
                 faults>>

(* The run ends; a transfer that has ended closes its file. *)
Finish ==
  /\ update = "tx"
  /\ ~SendingData
  /\ ~(state = "DIR" /\ next_state = "DIR" /\ TxRoom)
  /\ LET after == IF state = "READ" /\ next_ack = last_packet THEN "IDLE"
                                                              ELSE next_state
         ended == state # "IDLE" /\ after = "IDLE"
     IN /\ state' = after /\ next_state' = after
        /\ file_open' = (file_open /\ ~ended)
        /\ fatfs' = Released(ended)
        /\ ack_timer' = (ack_timer /\ ~(ended /\ state # "DIR"))
        /\ stranded' = (ended /\ rx # <<>>)
  /\ update' = "none"
  /\ UNCHANGED <<crs_task, file_pos, source, target, stored, windowVars, timeout_flag,
                 rx, tx, connected, phoneVars, boundVars, accepted, hurried, disk_error>>

(* FS_CRS_Timeout, in the timer interrupt *)
Timeout ==
  /\ ack_timer
  /\ ack_timer' = FALSE
  /\ Flagged
  /\ crs_task' = TRUE
  /\ UNCHANGED <<state, next_state, update, fileVars, windowVars, rx, tx, connected,
                 phoneVars, boundVars, histVars>>

-----------------------------------------------------------------------------
(* The transmit queue and the phone.  A packet the phone writes goes to the  *)
(* receive ring, which drops it when it is full.                             *)

Written(p) == IF Len(rx) < Window THEN Append(rx, p) ELSE rx
FromPhone == <<state, next_state, update, fileVars, windowVars, timerVars, connected,
               disk_error, stranded, hurried>>

(* Mutant of TxCallback: it forgets to set the task. *)
TxCallbackForgotten == UNCHANGED crs_task

(* The queue calls back for a packet of this service that left it. *)
TxCallback == crs_task' = TRUE

(* BLE_TX_Queue_Transmit gives away the first packet and calls the callback, *)
(* FS_CRS_TxCallback.                                                        *)
Leaves == /\ Between /\ tx # <<>>
          /\ tx' = Tail(tx)

PacketLost ==
  /\ Leaves
  /\ Own(Head(tx)) /\ connected => Fault
  /\ IF Own(Head(tx)) THEN TxCallback ELSE UNCHANGED crs_task
  /\ ~(Own(Head(tx)) /\ connected) => UNCHANGED faults
  /\ UNCHANGED <<FromPhone, rx, phoneVars, commands, accepted>>

(* The phone takes a packet and does not write. *)
Listens(mode, has) ==
  /\ client' = mode /\ got' = has
  /\ rx' = rx
  /\ TxCallback
  /\ UNCHANGED <<FromPhone, base, boundVars, accepted>>

(* It takes a data packet and acknowledges it. *)
Acknowledges(p, has) ==
  /\ got' = has
  /\ client' = client
  /\ rx' = Written(FileAck(p))
  /\ crs_task' = TRUE
  /\ accepted' = IF has = got THEN accepted ELSE accepted + 1
  /\ UNCHANGED <<FromPhone, base, boundVars>>

Received == Leaves /\ connected /\ Own(Head(tx))

(* The empty packet has come: the phone has the file. *)
Ended == \E i \in DOMAIN got : got[i].c = FileLength

PhoneAnswered ==
  /\ Received
  /\ LET p == Head(tx) IN
     /\ p.kind \in {"ACK", "NAK"}
     /\ IF client = p.c
        THEN IF p.kind = "NAK" THEN Listens("none", <<>>)
             ELSE CASE p.c = "READ"     -> Listens("reading", <<>>)
                    [] p.c = "WRITE"    -> Listens("writing", <<>>)
                    [] p.c = "READ_DIR" -> Listens("listing", <<>>)
                    [] OTHER            -> Listens("none", <<>>)
        ELSE Listens(client, got)

(* The next data packet is accepted, an older one acknowledged again. *)
PhoneGetsData ==
  /\ Received
  /\ LET p == Head(tx) IN
     /\ p.kind = "FILE_DATA"
     /\ IF client # "reading" THEN Listens(client, got)
        ELSE IF p.n = Len(got) % Modulus /\ ~Ended
             THEN Acknowledges(p, Append(got, Brings(p)))
             ELSE IF (Len(got) - p.n) % Modulus <= 2 * Window
                  THEN Acknowledges(p, got)
                  ELSE Listens(client, got)

PhoneGetsEntry ==
  /\ Received
  /\ LET p == Head(tx) IN
     /\ p.kind = "FILE_INFO"
     /\ IF client = "listing" THEN Listens(client, Append(got, Brings(p)))
                              ELSE Listens(client, got)

(* An acknowledgement also covers the chunks before it. *)
PhoneGetsAck ==
  /\ Received
  /\ LET p == Head(tx) IN
     /\ p.kind = "FILE_ACK"
     /\ client' = client /\ got' = got /\ rx' = rx
     /\ base' = IF client = "writing" /\ base <= FileLength
                   /\ (p.n - base) % Modulus < Window
                THEN base + ((p.n - base) % Modulus) + 1 ELSE base
     /\ TxCallback
     /\ UNCHANGED <<FromPhone, boundVars, accepted>>

(* Mutant of Wakes: the task is not set. *)
WakesNobody == UNCHANGED crs_task

Wakes == crs_task' = (crs_task \/ Len(rx) < Window)

(* Custom_CRS_OnRxWrite *)
Writes(p) == /\ Between /\ connected
             /\ rx' = Written(p)
             /\ Wakes
             /\ UNCHANGED <<state, next_state, update, fileVars, windowVars, timerVars,
                            connected, disk_error, stranded, tx, accepted>>

PhoneCommands ==
  /\ client = "none" \/ Ended \/ (client = "writing" /\ base > FileLength)
  /\ commands < MaxCommands /\ commands' = commands + 1
  /\ \E c \in Commands : Writes(Command(c, commands')) /\ client' = c
  /\ hurried' = (hurried \/ rx # <<>> \/ \E i \in DOMAIN tx : Own(tx[i]))
  /\ got' = <<>> /\ base' = 0
  /\ UNCHANGED faults

PhoneCancels ==
  /\ client # "none"
  /\ commands < MaxCommands /\ commands' = commands + 1
  /\ Writes(Command("CANCEL", 0))
  /\ client' = "none" /\ got' = <<>> /\ base' = 0
  /\ UNCHANGED <<faults, hurried>>

(* A chunk is sent, for the first time or again. *)
PhoneSendsData ==
  /\ client = "writing" /\ base <= FileLength
  /\ \E k \in base..(base + Window - 1) :
       k <= FileLength /\ Writes(FileData(k, k, commands))
  /\ UNCHANGED <<phoneVars, boundVars, hurried>>

(* A written packet is lost: the connection timeout refresh of RunWrite says *)
(* the stack may drop one.                                                   *)
WriteLost ==
  /\ Between /\ rx # <<>>
  /\ Fault
  /\ rx' = SubSeq(rx, 1, Len(rx) - 1)
  /\ UNCHANGED <<FromPhone, crs_task, tx, phoneVars, commands, accepted>>

(* Custom_CRS_OnDisconnect *)
Disconnect ==
  /\ Between /\ connected
  /\ commands < MaxCommands /\ commands' = commands + 1
  /\ connected' = FALSE
  /\ crs_task' = TRUE
  /\ client' = "none" /\ got' = <<>> /\ base' = 0
  /\ UNCHANGED <<state, next_state, update, fileVars, windowVars, timerVars, rx, tx,
                 faults, histVars>>

(* Custom_CRS_OnConnect: the receive ring is emptied.  The event may be      *)
(* handled before FS_CRS_Update has run after the disconnection.             *)
Connect ==
  /\ Between /\ ~connected
  /\ connected' = TRUE
  /\ rx' = <<>>
  /\ UNCHANGED <<taskVars, fileVars, windowVars, timerVars, tx, phoneVars, boundVars,
                 histVars>>

(* Another service queues a packet. *)
OtherSends ==
  /\ Others /\ Between /\ TxRoom
  /\ Send(Foreign)
  /\ UNCHANGED <<taskVars, fileVars, windowVars, timerVars, rx, connected, phoneVars,
                 boundVars, histVars>>

-----------------------------------------------------------------------------
Init ==
  /\ state = "IDLE" /\ next_state = "IDLE" /\ update = "none" /\ crs_task = FALSE
  /\ file_open = FALSE /\ file_pos = 0 /\ fatfs = 0 /\ source = 0 /\ target = 0
  /\ next_packet = 0 /\ next_ack = 0 /\ last_packet = 0
  /\ ack_timer = FALSE /\ timeout_flag = FALSE
  /\ rx = <<>> /\ tx = <<>> /\ connected = TRUE
  /\ stored = <<>>
  /\ client = "none" /\ got = <<>> /\ base = 0
  /\ commands = 0 /\ faults = 0
  /\ accepted = 0 /\ hurried = FALSE /\ disk_error = FALSE /\ stranded = FALSE

Update == \/ RunIdle \/ RunRead \/ RunWrite \/ RunDir
          \/ IdleSimple \/ IdleOpenFails \/ IdleRead \/ IdleWrite \/ IdleReadDir
          \/ Cancelled \/ ReadAck \/ Dropped
          \/ WriteData \/ WriteRepeated \/ WriteCancel \/ RxDone
          \/ ReadSend \/ ReadSendEnd \/ DiskFails \/ DirSend \/ Finish
Phone  == \/ PhoneAnswered \/ PhoneGetsData \/ PhoneGetsEntry \/ PhoneGetsAck
          \/ PhoneCommands \/ PhoneCancels \/ PhoneSendsData
Link   == PacketLost \/ WriteLost \/ Disconnect \/ Connect \/ OtherSends

Next == Update \/ Timeout \/ Phone \/ Link

Spec == Init /\ [][Next]_vars

(* The task runs and the timer expires; the transmit task has its turn       *)
(* although FS_CRS_Update may be set again and again (the scheduler serves   *)
(* tasks of one priority in turn, hence the strong fairness).  The phone     *)
(* only owes to take what it is given.                                       *)
Fairness ==
  /\ WF_vars(Update) /\ WF_vars(Timeout)
  /\ SF_vars(PhoneAnswered \/ PhoneGetsData \/ PhoneGetsEntry \/ PhoneGetsAck
             \/ PacketLost)

FairSpec == Spec /\ Fairness

-----------------------------------------------------------------------------
(* Every variable has its type and both rings stay within their window.      *)
TypeOK ==
  /\ state \in States /\ next_state \in States
  /\ update \in {"none", "rx", "tx"} /\ crs_task \in BOOLEAN
  /\ file_open \in BOOLEAN /\ file_pos \in Nat /\ fatfs \in 0..1
  /\ source \in Nat /\ target \in Nat
  /\ next_packet \in Nat /\ next_ack \in Nat /\ last_packet \in Nat
  /\ ack_timer \in BOOLEAN /\ timeout_flag \in BOOLEAN
  /\ Len(rx) <= Window /\ Len(tx) <= Window
  /\ connected \in BOOLEAN
  /\ commands \in 0..MaxCommands /\ faults \in 0..MaxFaults

(* What the phone accepts of a file it reads are chunks in their order, each *)
(* once, whatever is lost or sent again; and they are chunks of the file it  *)
(* asked for last, not of one whose transfer it cancelled or lost with the   *)
(* link, as long as it lets both queues run empty before it gives the next   *)
(* command.  (A phone that hurries may take the answer and the data of its   *)
(* cancelled READ for those of its next one: no packet says which file it is *)
(* of.)                                                                      *)
DownloadIntact ==
  client = "reading" =>
    \A i \in DOMAIN got : got[i].c = i - 1 /\ (~hurried => got[i].f = commands)

(* The sender never believes more than the phone has accepted: an            *)
(* acknowledgement is never taken for one of another round of sequence       *)
(* numbers, nor for one of an earlier transfer as long as the phone lets     *)
(* both queues run empty before it gives the next command.  (Packets carry   *)
(* no transfer number, and neither a disconnection nor the end of a transfer *)
(* empties the transmit queue.)                                              *)
AckedIsAccepted == state = "READ" /\ ~hurried => next_ack <= accepted

(* A download that the sender takes for done is the file, on the phone.      *)
DownloadSafe ==
  DownloadIntact /\ AckedIsAccepted

(* What is written to the card is a file from its beginning, each chunk      *)
(* once; and as long as the phone lets both queues run empty before its next *)
(* command, it is the file that was opened for it, and everything is there   *)
(* that the phone has been told is stored.                                   *)
UploadIntact ==
  ~disk_error =>
    /\ \A i \in DOMAIN stored : stored[i].c = i - 1 /\ (~hurried => stored[i].f = target)
    /\ client = "writing" /\ ~hurried =>
         IF base > FileLength THEN Len(stored) = FileLength ELSE base <= Len(stored)

(* Between two runs FatFS and the file are held exactly during a transfer    *)
(* (a failed f_lseek leaves the file open).                                  *)
HeldDuringTransfer ==
  Between =>
    /\ fatfs = IF state = "IDLE" THEN 0 ELSE 1
    /\ state # "IDLE" => file_open
    /\ file_open /\ ~disk_error => state # "IDLE"

(* A transfer in progress, and a packet that was received, have something to *)
(* wake the task: its bit, its timer or an own packet in the transmit queue. *)
(* Two cases of the code have none: the packets behind the one that ended a  *)
(* transfer, and a listing, which has no timer, once other services have     *)
(* filled the queue.                                                         *)
WillRun == crs_task \/ ack_timer \/ \E i \in DOMAIN tx : Own(tx[i])
WorkHasWakeup ==
  Between =>
    /\ state # "IDLE" => WillRun \/ (state = "DIR" /\ Others)
    /\ rx # <<>> /\ connected => WillRun \/ stranded \/ (state = "DIR" /\ Others)

(* A transfer holds the card and the file, and is never left with nothing to *)
(* wake it: not after an error, a cancellation or a disconnection either.    *)
(* The two cases in which the code leaves it so are excepted (stranded, a    *)
(* listing with Others), and a file that failed to be positioned stays open  *)
(* (disk_error).                                                             *)
TransferSafe ==
  TypeOK /\ HeldDuringTransfer /\ WorkHasWakeup

(* A phone that goes on reading gets the whole file. *)
DownloadCompletes ==
  client = "reading" ~>
    client # "reading" \/ Ended \/ state # "READ"

(* A listing ends by itself. *)
ListingEnds == state = "DIR" ~> state # "DIR"

(* Downloads and listings come to their end over a link that is full, cut or *)
(* slow.                                                                     *)
TransfersEnd ==
  DownloadCompletes /\ ListingEnds
=============================================================================
