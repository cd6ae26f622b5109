----------------------------- MODULE ImuReader -----------------------------
(***************************************************************************)
(* The accelerometer and gyroscope (FlySight/imu.c): a sample raises INT1, *)
(* the rising edge is an EXTI interrupt that reads all registers by DMA,   *)
(* and that read lowers INT1 again.  A sample that comes while a read is   *)
(* under way may leave INT1 high with its edge spent, so the completion    *)
(* runs FS_IMU_RecoverFromOverrun.                                         *)
(*                                                                         *)
(* The completion of the DMA (isr, priority 1) interrupts the EXTI handler *)
(* (exti, priority 2), and that the mode task; a critical section is one   *)
(* step.  The sensor itself goes on between any two steps.                 *)
(***************************************************************************)
EXTENDS Integers

VARIABLES
  imuState, busy, handleRead, enableLoggingCb, overrunPending,
  drdy, routed, sampling,   \* the sensor: a sample waits, INT1_CTRL, output rate
  extiOn, extiFlag,         \* EXTI line 9: unmasked, pending
  dma,                      \* the transfer; "cleared": it has read the sample
  pc,                       \* of each context: its next step
  task,                     \* how far FS_IMU_Start or FS_IMU_Stop is
  shouldLog,                \* the local of FS_IMU_Read_Callback
  failed,                   \* history: an access to the sensor failed since Start
  asked, due,               \* history: the interrupt asked for this transfer, for a row
  misled                    \* history: a row too few or too many was logged

driver == <<imuState, busy, handleRead, enableLoggingCb, overrunPending>>
sensor == <<drdy, routed, sampling>>
exti   == <<extiOn, extiFlag>>
rows   == <<asked, due, misled>>
vars   == <<driver, sensor, exti, dma, pc, task, shouldLog, failed, rows>>

Contexts == {"task", "exti", "isr"}
Above == [task |-> {"exti", "isr"}, exti |-> {"isr"}, isr |-> {}]
Idle(c) == pc[c] = "idle"
Steps(c) == \A h \in Above[c] : Idle(h)
Goto(c, step) == pc' = [pc EXCEPT ![c] = step]

(* A rising edge sets the flag, whether the line is masked or not. *)
Pin == drdy /\ routed
Edge(rises) == extiFlag' = (extiFlag \/ (~Pin /\ rises))

(* An access to the sensor may fail. *)
Fails == failed' = TRUE
Works == UNCHANGED failed

-----------------------------------------------------------------------------
(* The sensor and the transfer. *)
Sample ==
  /\ sampling /\ drdy' = TRUE /\ Edge(routed)
  /\ UNCHANGED <<driver, routed, sampling, extiOn, dma, pc, task, shouldLog, failed, rows>>

TransferReads ==
  /\ dma = "reading" /\ dma' = "cleared" /\ drdy' = FALSE
  /\ UNCHANGED <<driver, routed, sampling, exti, pc, task, shouldLog, failed, rows>>

-----------------------------------------------------------------------------
(* FS_IMU_Read, the EXTI handler.  The flag is cleared before it runs. *)
ExtiTaken ==
  /\ Idle("isr") /\ Idle("exti") /\ extiOn /\ extiFlag
  /\ extiFlag' = FALSE
  /\ Goto("exti", IF imuState = "ACTIVE" THEN "read" ELSE "idle")
  /\ UNCHANGED <<driver, sensor, extiOn, dma, task, shouldLog, failed, rows>>

(* FS_IMU_BeginRead: its critical section, then the start of the transfer.   *)
(* When the start fails the callback runs in the same context.               *)
Begin(c, enableLogging) ==
  IF busy THEN /\ overrunPending' = TRUE /\ Goto(c, "idle")
               /\ UNCHANGED <<busy, enableLoggingCb>>
          ELSE /\ busy' = TRUE /\ enableLoggingCb' = enableLogging
               /\ Goto(c, "start") /\ UNCHANGED overrunPending

(* Mutant of Asynchronous: handleRead is not looked at. *)
AsynchronousAlways == TRUE
Asynchronous == handleRead

Read ==
  /\ Steps("exti") /\ pc["exti"] = "read"
  /\ IF Asynchronous
     THEN Begin("exti", TRUE)
     ELSE Goto("exti", "idle") /\ UNCHANGED <<busy, enableLoggingCb, overrunPending>>
  /\ UNCHANGED <<imuState, handleRead, sensor, exti, dma, task, shouldLog, failed, rows>>

StartTransfer(c) ==
  /\ Steps(c) /\ pc[c] = "start"
  /\ asked' = (c = "exti")
  /\ \/ dma' = "reading" /\ Goto(c, "idle") /\ Works
     \/ Goto(c, "failed") /\ Fails /\ UNCHANGED dma
  /\ UNCHANGED <<driver, sensor, exti, task, shouldLog, due, misled>>

-----------------------------------------------------------------------------
(* Mutant of NeedsRecovery: the overrun is not remembered. *)
NeedsRecoveryNever == FALSE
NeedsRecovery == overrunPending

(* FS_IMU_Read_Callback up to the end of its critical section. *)
ReadCallback(c, ok) ==
  /\ shouldLog' = (enableLoggingCb /\ ok) /\ due' = (asked /\ ok)
  /\ overrunPending' = FALSE /\ busy' = FALSE
  /\ IF NeedsRecovery
     THEN Goto(c, "unroute") /\ extiOn' = FALSE /\ extiFlag' = FALSE
     ELSE Goto(c, "log") /\ UNCHANGED exti
  /\ UNCHANGED <<imuState, handleRead, enableLoggingCb, sensor, task, asked, misled>>

TransferEnds ==
  /\ Idle("isr") /\ dma # "none" /\ dma' = "none"
  /\ \/ dma = "cleared" /\ ReadCallback("isr", TRUE) /\ Works
     \/ ReadCallback("isr", FALSE) /\ Fails

StartFailed(c) ==
  /\ Steps(c) /\ pc[c] = "failed" /\ ReadCallback(c, FALSE) /\ UNCHANGED <<dma, failed>>

(* FS_IMU_RecoverFromOverrun.  The results of its accesses are ignored. *)
Unroute(c) ==
  /\ Steps(c) /\ pc[c] = "unroute" /\ Goto(c, "clear")
  /\ \/ routed' = FALSE /\ Works
     \/ Fails /\ UNCHANGED routed
  /\ UNCHANGED <<driver, drdy, sampling, exti, dma, task, shouldLog, rows>>

ClearLatch(c) ==
  /\ Steps(c) /\ pc[c] = "clear" /\ Goto(c, "route")
  /\ \/ drdy' = FALSE /\ Works
     \/ Fails /\ UNCHANGED drdy
  /\ UNCHANGED <<driver, routed, sampling, exti, dma, task, shouldLog, rows>>

Reroute(c) ==
  /\ Steps(c) /\ pc[c] = "route" /\ Goto(c, "kick")
  /\ \/ routed' = TRUE /\ Edge(drdy) /\ Works
     \/ Fails /\ UNCHANGED <<routed, extiFlag>>
  /\ UNCHANGED <<driver, drdy, sampling, extiOn, dma, task, shouldLog, rows>>

(* Mutant of RowIsDue: the decision is read again, after the recovery began  *)
(* another read.                                                             *)
RowIsDueNow == enableLoggingCb
RowIsDue == shouldLog

(* INT1 is high already: a read is begun at once.  When that fails, its own  *)
(* callback clears busy.                                                     *)
Kick(c) ==
  /\ Steps(c) /\ pc[c] = "kick" /\ Goto(c, "enable")
  /\ IF Pin
     THEN /\ enableLoggingCb' = FALSE /\ asked' = FALSE
          /\ \/ busy' = TRUE /\ dma' = "reading" /\ Works
             \/ Fails /\ UNCHANGED <<busy, dma>>
     ELSE UNCHANGED <<enableLoggingCb, asked, busy, dma, failed>>
  /\ UNCHANGED <<imuState, handleRead, overrunPending, sensor, exti, task, shouldLog, due, misled>>

EnableExti(c) ==
  /\ Steps(c) /\ pc[c] = "enable" /\ Goto(c, "log") /\ extiOn' = TRUE
  /\ UNCHANGED <<driver, sensor, extiFlag, dma, task, shouldLog, failed, rows>>

Log(c) ==
  /\ Steps(c) /\ pc[c] = "log" /\ Goto(c, "idle")
  /\ misled' = (misled \/ RowIsDue # due)
  /\ UNCHANGED <<driver, sensor, exti, dma, task, shouldLog, failed, asked, due>>

Runs(c) == \/ StartTransfer(c) \/ StartFailed(c)
           \/ Unroute(c) \/ ClearLatch(c) \/ Reroute(c) \/ Kick(c) \/ EnableExti(c)
           \/ Log(c)

-----------------------------------------------------------------------------
TaskAt(step, next) ==
  /\ \A c \in Contexts : Idle(c)
  /\ task = step /\ task' = next

(* FS_IMU_Start.  An INT1 left high is cleared, if that works. *)
ClearInt1(step, next) ==
  /\ TaskAt(step, next) /\ drdy' \in IF Pin THEN {TRUE, FALSE} ELSE {drdy}
  /\ UNCHANGED <<routed, sampling, dma, pc, shouldLog, rows>>

StartClears == ClearInt1("ready", "cleared") /\ failed' = FALSE /\ UNCHANGED <<driver, exti>>

StartEnables ==
  /\ TaskAt("cleared", "route") /\ extiFlag' = FALSE /\ extiOn' = TRUE
  /\ UNCHANGED <<driver, sensor, dma, pc, shouldLog, failed, rows>>

(* DRDY is routed to INT1, then the rates are set. *)
StartRoutes ==
  /\ TaskAt("route", "rate") /\ routed' = TRUE /\ Edge(drdy)
  /\ UNCHANGED <<driver, drdy, sampling, extiOn, dma, pc, shouldLog, failed, rows>>

StartRate ==
  /\ TaskAt("rate", "configure") /\ sampling' = TRUE
  /\ UNCHANGED <<driver, drdy, routed, exti, dma, pc, shouldLog, failed, rows>>

StartFails ==
  /\ task \in {"route", "rate", "configure"} /\ TaskAt(task, "running")
  /\ extiOn' = FALSE
  /\ UNCHANGED <<driver, sensor, extiFlag, dma, pc, shouldLog, failed, rows>>

StartActivates ==
  /\ TaskAt("configure", "handle") /\ imuState' = "ACTIVE"
  /\ UNCHANGED <<busy, handleRead, enableLoggingCb, overrunPending, sensor, exti, dma, pc,
                 shouldLog, failed, rows>>

StartHandles ==
  /\ TaskAt("handle", "read") /\ handleRead' = TRUE
  /\ UNCHANGED <<imuState, busy, enableLoggingCb, overrunPending, sensor, exti, dma, pc,
                 shouldLog, failed, rows>>

StartReads ==
  /\ TaskAt("read", "running") /\ Begin("task", FALSE)
  /\ UNCHANGED <<imuState, handleRead, sensor, exti, dma, shouldLog, failed, rows>>

(* FS_IMU_Stop. *)
StopMasks ==
  /\ TaskAt("running", "masked") /\ extiOn' = FALSE
  /\ UNCHANGED <<driver, sensor, extiFlag, dma, pc, shouldLog, failed, rows>>

StopHandling ==
  /\ TaskAt("masked", "waiting") /\ handleRead' = FALSE
  /\ UNCHANGED <<imuState, busy, enableLoggingCb, overrunPending, sensor, exti, dma, pc,
                 shouldLog, failed, rows>>

(* Mutant of Quiet: FS_IMU_Stop does not wait. *)
QuietAtOnce == TRUE
Quiet == ~busy

StopWaited ==
  /\ TaskAt("waiting", "reset") /\ Quiet
  /\ UNCHANGED <<driver, sensor, exti, dma, pc, shouldLog, failed, rows>>

StopResets ==
  /\ TaskAt("reset", "clear")
  /\ \/ routed' = FALSE /\ sampling' = FALSE
     \/ UNCHANGED <<routed, sampling>>
  /\ UNCHANGED <<driver, drdy, exti, dma, pc, shouldLog, failed, rows>>

StopClears ==
  /\ ClearInt1("clear", "ready") /\ imuState' = "READY"
  /\ UNCHANGED <<busy, handleRead, enableLoggingCb, overrunPending, exti, failed>>

-----------------------------------------------------------------------------
Init ==
  /\ imuState = "READY" /\ busy = FALSE /\ handleRead = FALSE
  /\ enableLoggingCb = FALSE /\ overrunPending = FALSE
  /\ drdy = FALSE /\ routed = FALSE /\ sampling = FALSE
  /\ extiOn = FALSE /\ extiFlag = FALSE /\ dma = "none"
  /\ pc = [c \in Contexts |-> "idle"] /\ task = "ready"
  /\ shouldLog = FALSE /\ failed = FALSE
  /\ asked = FALSE /\ due = FALSE /\ misled = FALSE

Start == \/ StartClears \/ StartEnables \/ StartRoutes \/ StartRate \/ StartFails
         \/ StartActivates \/ StartHandles \/ StartReads
Stop  == StopMasks \/ StopHandling \/ StopWaited \/ StopResets \/ StopClears
Interrupts == ExtiTaken \/ Read \/ TransferEnds \/ \E c \in Contexts : Runs(c)
Hardware == Sample \/ TransferReads

Next == Start \/ Stop \/ Interrupts \/ Hardware

Spec == Init /\ [][Next]_vars

(* Interrupts are served and their handlers finish, transfers end, and the   *)
(* task comes to run between two interrupts.                                 *)
Fairness == WF_vars(Interrupts) /\ WF_vars(StopWaited)
FairSpec == Spec /\ Fairness

-----------------------------------------------------------------------------
TypeOK ==
  /\ imuState \in {"READY", "ACTIVE"}
  /\ \A flag \in {busy, handleRead, enableLoggingCb, overrunPending, drdy, routed,
                  sampling, extiOn, extiFlag, shouldLog, failed, asked, due,
                  misled} : flag \in BOOLEAN
  /\ dma \in {"none", "reading", "cleared"}
  /\ pc \in [Contexts -> {"idle", "read", "start", "failed", "unroute", "clear", "route",
                          "kick", "enable", "log"}]
  /\ task \in {"ready", "cleared", "route", "rate", "configure", "handle", "read",
               "running", "masked", "waiting", "reset", "clear"}

(* The driver never waits for an edge that cannot come: while it runs and    *)
(* INT1 is high, a read is under way or will be begun, unless an access to   *)
(* the sensor has failed since FS_IMU_Start (failed).                        *)
(* FS_IMU_RecoverFromOverrun means to guarantee that in every case           *)
(* (imu.c:199-203) but looks at no result of its accesses.                   *)
Recovers(c) == pc[c] \in {"unroute", "clear", "route", "kick"}
ReadComes ==
  \/ dma = "reading" \/ (dma = "cleared" /\ overrunPending)
  \/ extiFlag /\ (extiOn \/ \E c \in Contexts : pc[c] = "enable")
  \/ pc["exti"] = "read" \/ \E c \in Contexts : pc[c] = "start" \/ Recovers(c)
NeverStuck ==
  imuState = "ACTIVE" /\ task = "running" /\ ~failed /\ Pin => ReadComes

(* The blocking register accesses of FS_IMU_Start, FS_IMU_Stop and of the    *)
(* recovery never meet a transfer on the SPI bus.                            *)
SpiExclusive ==
  dma # "none" =>
    /\ task \notin {"ready", "route", "rate", "configure", "reset", "clear"}
    /\ \A c \in Contexts : ~Recovers(c)

(* A sample is logged if it was requested by its interrupt and read well,    *)
(* and no other: the reads that only clear INT1 are not.                     *)
LoggedAsRequested == ~misled

(* The reader gets every sample it can as long as the sensor answers, has    *)
(* its bus alone, and logs each sample as asked.                             *)
ReaderSafe ==
  TypeOK /\ NeverStuck /\ SpiExclusive /\ LoggedAsRequested

(* FS_IMU_Stop returns, although the recovery may begin another read and     *)
(* unmask the interrupt while it waits.                                      *)
ImuStopReturns == task = "waiting" ~> task = "reset"
=============================================================================
