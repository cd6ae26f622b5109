----------------------------- MODULE LogSession -----------------------------
(***************************************************************************)
(* The log of a recording (FlySight/log.c): rings that interrupts and      *)
(* tasks fill, the update task that turns their samples into rows, the     *)
(* batch of sensor rows of one cluster, and the synchronisation.           *)
(*                                                                         *)
(* Tasks run one at a time.  Each sensor ring is filled by one interrupt,  *)
(* in one step as far as the tasks can see; the GNSS ring is filled by a   *)
(* task.  The files are external.                                          *)
(***************************************************************************)
EXTENDS Integers

CONSTANTS
  COUNT,         \* slots of each ring
  BatchTarget,   \* rows of a cluster: sensorBatchTargetLen
  Wrap,          \* 2^32: the rows are ordered by the low word of the time
  MaxSamples     \* bound: samples of one session

VARIABLES
  logState, enable_flags,
  buf, rdI, wrI,            \* the rings baro, imu and gnss
  timer, updateTask, syncTask,  \* the timer of the log, bits of the sequencer
  pc, next,                 \* the update task; what FS_Log_GetNextSensor found
  accepted,                 \* wrI when the update came to the sensors
  now,                      \* the microsecond clock, low word
  sensorBatchLen, sensorSyncPending,
  open, rows, stored, unsynced, \* the sensor file; rows made, written, at risk
  misread                   \* history: a row was not that of the next sample

rings  == <<buf, rdI, wrI>>
sched  == <<timer, updateTask, syncTask>>
batch  == <<sensorBatchLen, sensorSyncPending, open, rows, stored, unsynced>>
vars == <<logState, enable_flags, rings, sched, pc, next, accepted, now,
          batch, misread>>

SensorRings == {"baro", "imu"}
Rings == SensorRings \union {"gnss"}
FlagOf == [baro |-> "sensor", imu |-> "sensor", gnss |-> "gnss"]

-----------------------------------------------------------------------------
(* Producers: FS_Log_WriteBaroData and its kind.  A sample that finds its    *)
(* log off or its ring full is dropped.                                      *)
Sentinel == Wrap - 1
Blank == [n |-> MaxSamples, time |-> 0]   \* a slot not in use

(* Mutant of HasRoom: one sample too many. *)
HasRoomPlusOne(r) == wrI[r] <= rdI[r] + COUNT
HasRoom(r) == wrI[r] < rdI[r] + COUNT

Logs(r) == logState = "ACTIVE" /\ FlagOf[r] \in enable_flags

Write(r) ==
  /\ Logs(r) /\ HasRoom(r)
  /\ now' = (now + 1) % Wrap
  /\ buf' = [buf EXCEPT ![r][wrI[r] % COUNT] = [n |-> wrI[r], time |-> now]]
  /\ wrI' = [wrI EXCEPT ![r] = @ + 1]
  /\ UNCHANGED <<logState, enable_flags, rdI, sched, pc, next, accepted,
                 batch, misread>>

Sample ==
  /\ wrI["baro"] + wrI["imu"] + wrI["gnss"] < MaxSamples
  /\ \/ \E r \in SensorRings : Write(r)
     \/ pc = "idle" /\ Write("gnss")

-----------------------------------------------------------------------------
(* FS_Log_Update.  It does not ask whether a session is under way.  Each of  *)
(* its loops ends when the time is up, and then so do the later ones.        *)
Phase(from, to) ==
  /\ pc = from /\ pc' = to
  /\ UNCHANGED <<logState, enable_flags, timer, now>>

UpdateBegins ==
  /\ Phase("idle", "gnss") /\ updateTask /\ updateTask' = FALSE
  /\ UNCHANGED <<rings, syncTask, next, accepted, batch, misread>>

(* Every sample is turned into a row once, in the order of its ring. *)
Read(r) == misread' = (misread \/ buf[r][rdI[r] % COUNT].n # rdI[r])
Consume(r) ==
  /\ rdI' = [rdI EXCEPT ![r] = @ + 1]
  /\ buf' = [buf EXCEPT ![r][rdI[r] % COUNT] = Blank]

UpdateGNSS ==
  /\ IF rdI["gnss"] # wrI["gnss"]
     THEN Phase("gnss", "gnss") /\ Read("gnss") /\ Consume("gnss") /\ UNCHANGED accepted
     ELSE Phase("gnss", "baro") /\ accepted' = wrI /\ UNCHANGED <<rdI, buf, misread>>
  /\ UNCHANGED <<wrI, updateTask, syncTask, next, batch>>

(* FS_Log_GetNextSensor looks at one ring after the other. *)
None == [ring |-> "none", time |-> Sentinel]

(* Mutant of Older: a time of zero counts as no sample. *)
OlderNonZero(time, than) == time < than /\ time # 0
Older(time, than) == time < than

Oldest(r) == buf[r][rdI[r] % COUNT].time

Look(r, found) ==
  next' = IF rdI[r] # wrI[r] /\ Older(Oldest(r), found.time)
          THEN [ring |-> r, time |-> Oldest(r)] ELSE found

LookBaro == Phase("baro", "imu") /\ Look("baro", None)
LookImu  == Phase("imu", "found") /\ Look("imu", next)

GetNextSensor ==
  /\ LookBaro \/ LookImu
  /\ UNCHANGED <<rings, updateTask, syncTask, accepted, batch, misread>>

(* FS_Log_WriteSensorBatch, FS_Log_FlushFullSensorBatch.  A row that is made *)
(* after the file was closed goes nowhere.                                   *)
Flush(len) ==
  /\ sensorBatchLen' = 0
  /\ stored' = IF open THEN stored + len ELSE stored

(* Mutant of Full: the batch is flushed one row early, and that row lost. *)
FullEarly(len) == len >= BatchTarget - 1

(* Mutant of Full: one row more than the cluster holds. *)
FullLate(len) == len > BatchTarget
Full(len) == len = BatchTarget

WriteSensorBatch ==
  /\ rows' = IF open THEN rows + 1 ELSE rows
  /\ IF Full(sensorBatchLen + 1)
     THEN Flush(BatchTarget) /\ sensorSyncPending' = TRUE /\ unsynced' = open
     ELSE /\ sensorBatchLen' = sensorBatchLen + 1
          /\ UNCHANGED <<stored, sensorSyncPending, unsynced>>
  /\ UNCHANGED open

UpdateRow ==
  /\ Phase("found", "count") /\ next.ring # "none"
  /\ Read(next.ring) /\ WriteSensorBatch
  /\ UNCHANGED <<rings, updateTask, syncTask, next, accepted>>

UpdateCount ==
  /\ Phase("count", "baro") /\ Consume(next.ring)
  /\ UNCHANGED <<wrI, updateTask, syncTask, next, accepted, batch, misread>>

(* Every fifth update asks for a synchronisation. *)
Ends == syncTask' \in {syncTask, TRUE} /\ next' = None /\ accepted' = [r \in Rings |-> 0]

UpdateDone ==
  /\ Phase("found", "idle") /\ next.ring = "none" /\ Ends
  /\ UNCHANGED <<rings, updateTask, batch, misread>>

UpdateOutOfTime ==
  /\ \E step \in {"gnss", "baro"} : Phase(step, "idle")
  /\ Ends
  /\ UNCHANGED <<rings, updateTask, batch, misread>>

Update == \/ UpdateBegins \/ UpdateGNSS \/ GetNextSensor
          \/ UpdateRow \/ UpdateCount \/ UpdateDone \/ UpdateOutOfTime

-----------------------------------------------------------------------------
(* Mutant of SyncedBy: the result of f_sync is ignored. *)
SyncedByAny(ok) == TRUE
SyncedBy(ok) == ok

(* FS_Log_Sync, of the sensor file in its turn. *)
Sync ==
  /\ pc = "idle" /\ syncTask /\ syncTask' = FALSE
  /\ \/ /\ "sensor" \in enable_flags /\ sensorSyncPending
        /\ \E ok \in {open, FALSE} :
             /\ sensorSyncPending' = ~SyncedBy(ok)
             /\ unsynced' = (unsynced /\ ~ok)
     \/ UNCHANGED <<sensorSyncPending, unsynced>>
  /\ UNCHANGED <<logState, enable_flags, rings, timer, updateTask, pc, next, accepted,
                 now, sensorBatchLen, open, rows, stored, misread>>

(* Mutant of Emptied: the GNSS ring keeps what the last session left. *)
EmptiedButGnss(i) == [i EXCEPT !["baro"] = 0, !["imu"] = 0]
Emptied(i) == [r \in Rings |-> 0]

(* FS_Log_Init.  A file that cannot be opened, or a cluster larger than the  *)
(* scratch buffer, ends it.                                                  *)
SessionBegins ==
  /\ pc = "idle" /\ logState = "UNINITIALIZED"
  /\ enable_flags' \in SUBSET {"sensor", "gnss"}
  /\ rdI' = Emptied(rdI) /\ wrI' = Emptied(wrI)
  /\ buf' = [r \in Rings |-> IF wrI'[r] = 0 THEN [i \in 0..COUNT - 1 |-> Blank] ELSE buf[r]]
  /\ \/ logState' = "ACTIVE" /\ timer' = TRUE /\ open' = ("sensor" \in enable_flags')
     \/ logState' = "FAILED" /\ UNCHANGED timer /\ open' = FALSE
  /\ \/ sensorBatchLen' = 0 /\ sensorSyncPending' = FALSE
     \/ ~open' /\ UNCHANGED <<sensorBatchLen, sensorSyncPending>>
  /\ rows' = 0 /\ stored' = 0 /\ unsynced' = FALSE
  /\ UNCHANGED <<updateTask, syncTask, pc, next, accepted, now, misread>>

(* FS_Log_DeInit.  The rings are not drained. *)
SessionEnds ==
  /\ pc = "idle" /\ logState # "UNINITIALIZED" /\ logState' = "UNINITIALIZED"
  /\ timer' = FALSE
  /\ IF "sensor" \in enable_flags THEN Flush(sensorBatchLen)
                                  ELSE UNCHANGED <<sensorBatchLen, stored>>
  /\ open' = FALSE /\ unsynced' = FALSE
  /\ UNCHANGED <<enable_flags, rings, updateTask, syncTask, pc, next, accepted,
                 now, sensorSyncPending, rows, misread>>

FS_Log_Timer ==
  /\ timer /\ updateTask' = TRUE
  /\ UNCHANGED <<logState, enable_flags, rings, timer, syncTask, pc, next, accepted,
                 now, batch, misread>>

-----------------------------------------------------------------------------
Init ==
  /\ logState = "UNINITIALIZED" /\ enable_flags = {}
  /\ buf = [r \in Rings |-> [i \in 0..COUNT - 1 |-> Blank]]
  /\ rdI = [r \in Rings |-> 0] /\ wrI = [r \in Rings |-> 0]
  /\ timer = FALSE /\ updateTask = FALSE /\ syncTask = FALSE
  /\ pc = "idle" /\ next = None /\ accepted = [r \in Rings |-> 0]
  /\ now \in 0..Wrap - 1
  /\ sensorBatchLen = 0 /\ sensorSyncPending = FALSE
  /\ open = FALSE /\ rows = 0 /\ stored = 0 /\ unsynced = FALSE /\ misread = FALSE

Next == \/ Sample \/ Update \/ Sync
        \/ SessionBegins \/ SessionEnds \/ FS_Log_Timer

Spec == Init /\ [][Next]_vars

-----------------------------------------------------------------------------
TypeOK ==
  /\ logState \in {"UNINITIALIZED", "ACTIVE", "FAILED"}
  /\ enable_flags \subseteq {"sensor", "gnss"}
  /\ buf \in [Rings -> [0..COUNT - 1 -> [n : Nat, time : 0..Wrap - 1]]]
  /\ rdI \in [Rings -> Nat] /\ wrI \in [Rings -> Nat]
  /\ \A flag \in {timer, updateTask, syncTask, sensorSyncPending, open, unsynced,
                  misread} : flag \in BOOLEAN
  /\ pc \in {"idle", "gnss", "baro", "imu", "found", "count"}
  /\ next \in [ring : SensorRings \union {"none"}, time : 0..Wrap - 1]
  /\ accepted \in [Rings -> Nat] /\ now \in 0..Wrap - 1
  /\ sensorBatchLen \in 0..BatchTarget - 1 /\ rows \in Nat /\ stored \in Nat

(* The rows of a ring are its accepted samples, each once and in their       *)
(* order, although interrupts fill the rings while the task empties them.    *)
RowsInOrder ==
  /\ ~misread
  /\ \A r \in Rings : rdI[r] <= wrI[r] /\ wrI[r] <= rdI[r] + COUNT

(* Rows are made in the order of their times over the rings: of the samples  *)
(* that were accepted before the update came to the sensors, the one that is *)
(* taken is the oldest.  Times are compared by their low word, and a sample  *)
(* accepted after its ring was looked at waits for the next look.            *)
OldestFirst ==
  pc = "found" /\ next.ring # "none" =>
    \A r \in SensorRings : rdI[r] < accepted[r] => next.time <= Oldest(r)

(* As long as the file is open every sample that was accepted is one row of  *)
(* it or waits in its ring.  What waits there when FS_Log_DeInit comes never *)
(* gets a row: at most COUNT samples of each ring.                           *)
SamplesAccounted ==
  open => rows = rdI["baro"] + rdI["imu"] + (IF pc = "count" THEN 1 ELSE 0)

(* An update never finds a sample in the ring of a log that the session did  *)
(* not enable, not even of an earlier session: it would call Error_Handler.  *)
OnlyEnabledLogs ==
  \A r \in Rings : rdI[r] # wrI[r] => FlagOf[r] \in enable_flags

(* No row is lost or written twice on its way through the batch, and a file  *)
(* that was closed has them all.                                             *)
RowsAccounted == rows = stored + (IF open THEN sensorBatchLen ELSE 0)

(* What was written and not synchronised is remembered, although f_sync may  *)
(* fail: a loss of power costs no more than the next synchronisations bring. *)
UnsyncedIsPending == unsynced => sensorSyncPending

(* An update that ends with time left has logged every sample accepted       *)
(* before it came to the sensors, unless one whose low word is that of the   *)
(* sentinel of FS_Log_GetNextSensor stands before it.                        *)
UpdateDrains ==
  [][(pc = "found" /\ pc' = "idle") =>
       \A r \in SensorRings :
         rdI[r] >= accepted[r] \/ Oldest(r) = Sentinel]_vars

(* The samples of a session become its rows: in order, none twice, none lost *)
(* in the batch, and an update with time left leaves none behind.            *)
RowsKept ==
  /\ [](RowsInOrder /\ OldestFirst /\ SamplesAccounted /\ OnlyEnabledLogs /\ RowsAccounted
        /\ UnsyncedIsPending)
  /\ UpdateDrains
=============================================================================
