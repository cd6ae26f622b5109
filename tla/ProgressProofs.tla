---------------------------- MODULE ProgressProofs ----------------------------
(***************************************************************************)
(* Theorems about the parts that MCProgress puts side by side, each for    *)
(* its own specification and for every value of its constants: the I2C bus *)
(* (sensor.c), the button (button.c), the starter pistol                   *)
(* (start_control.c), the play-out of sounds (audio.c) and the IMU         *)
(* (imu.c); and at last that the parts together do what each of them does. *)
(***************************************************************************)
EXTENDS MCProgress, SequenceTheorems, TLAPS

(***************************************************************************)
(* SensorBus                                                               *)
(***************************************************************************)
(* Who holds the bus: it has marked it busy for itself, or its transfer has  *)
(* just ended.  Nobody above has a step to do, so nobody else has it.        *)
Holder(c) == c \in reserved \/ pc[c] \in {"done", "failed", "advance"}

HolderHas(c) ==
  /\ busy /\ ~transfer /\ queue # <<>>
  /\ c \in reserved => pc[c] \in {"begin", "recheck"}
  /\ \A h \in Above[c] : pc[h] = "idle"
Held ==
  /\ \A c \in Contexts : Holder(c) => HolderHas(c)
  /\ transfer => busy /\ queue # <<>>

(* A bus that is marked is used. *)
BusyWorks == busy => InUse

(* The mode is that of the session. *)
ModeFollows == mode = "ACTIVE" <=> task \in {"started", "running"}

(* Behind each measurement of the magnetometer stands its temperature, or it *)
(* is still to be asked for.                                                 *)
MagFollowed ==
  "mag" \in on /\ sensor_is_busy["mag"] =>
    \A i \in 1..Len(queue) : queue[i] = "mag" =>
      tempToRead \/ \E j \in i + 1 .. Len(queue) : queue[j] = "mag_temp"

(* Once the callback has run, the request in front is nobody's last.         *)
Asked(s) == (s = "hum" /\ readTimer) \/ (s = "mag" /\ tempToRead)
QueuedBehind(s) == \E i \in 2..Len(queue) : Owner[queue[i]] = s
BusyBehind ==
  \A c \in Contexts : pc[c] = "advance" =>
    \A s \in on : sensor_is_busy[s] => QueuedBehind(s) \/ Asked(s)

Owning == Held /\ BusyWorks /\ ModeFollows /\ NoLostWakeup /\ FreeWhenStopped
Asking == BusyHasRequest /\ MagFollowed /\ BusyBehind

IInv == TypeOK /\ BusReserved /\ Asking /\ (~collided => Owning)

-----------------------------------------------------------------------------
LEMMA AboveFacts ==
  /\ Contexts = {"task", "isr", "exti"}
  /\ Above["task"] = {"isr", "exti"} /\ Above["isr"] = {"exti"} /\ Above["exti"] = {}
  /\ \A c \in Contexts : Above[c] \subseteq Contexts /\ c \notin Above[c]
  /\ \A c, d \in Contexts : c = d \/ c \in Above[d] \/ d \in Above[c]
<1>1. /\ Contexts = {"task", "isr", "exti"}
      /\ Above["task"] = {"isr", "exti"} /\ Above["isr"] = {"exti"} /\ Above["exti"] = {}
  BY DEF Contexts, Above
<1> QED BY <1>1

LEMMA OwnerFacts ==
  /\ Owner["baro"] = "baro" /\ Owner["mag"] = "mag" /\ Owner["mag_temp"] = "mag"
  /\ Owner["hum_measure"] = "hum" /\ Owner["hum_read"] = "hum"
BY DEF Owner

(* A request at the end of the queue. *)
LEMMA Joins ==
  ASSUME NEW q \in Seq(Requests), NEW r \in Requests
  PROVE  LET t == Append(q, r)
         IN  /\ t \in Seq(Requests) /\ Len(t) = Len(q) + 1 /\ Len(q) \in Nat /\ t # <<>>
             /\ \A i \in 1..Len(q) : t[i] = q[i]
             /\ t[Len(q) + 1] = r
BY AppendProperties

LEMMA Leaves ==
  ASSUME NEW q \in Seq(Requests), q # <<>>
  PROVE  /\ Tail(q) \in Seq(Requests) /\ Len(q) \in Nat \ {0} /\ Len(Tail(q)) = Len(q) - 1
         /\ \A i \in 1..Len(q) - 1 : Tail(q)[i] = q[i + 1]
         /\ Head(q) = q[1] /\ Head(q) \in Requests
<1>1. Len(q) \in Nat \ {0}
  BY EmptySeq
<1> QED BY <1>1, HeadTailProperties

(* What a context does in the middle of its work nobody else is in.          *)
LEMMA OnlyHolder ==
  ASSUME TypeOK, Held, NEW c \in Contexts, Steps(c), pc[c] # "idle",
         NEW d \in Contexts, Holder(d)
  PROVE  d = c
<1>1. HolderHas(d) /\ pc[d] # "idle"
  BY DEF Held, HolderHas, Holder
<1>2. d \notin Above[c]
  BY <1>1 DEF Steps, Idle
<1>3. c \notin Above[d]
  BY <1>1 DEF HolderHas
<1> QED BY <1>2, <1>3, AboveFacts

-----------------------------------------------------------------------------
(* Who holds the bus, step by step. *)
LEMMA EnqueueHeld ==
  ASSUME TypeOK, Held, NEW c \in Contexts, pc[c] = "idle",
         \A h \in Above[c] : pc[h] = "idle",
         NEW r \in Requests, Enqueue(c, r), UNCHANGED transfer
  PROVE  Held'
<1>1. queue \in Seq(Requests) /\ queue' = Append(queue, r) /\ queue' # <<>>
  BY Joins DEF Enqueue, TypeOK
<1>2. CASE StartNow
  <2>1. busy' = TRUE /\ ~busy /\ ~transfer /\ ~transfer'
    BY <1>2 DEF Enqueue, StartNow, MarkBusy, Held
  <2>2. \A d \in Contexts : ~Holder(d)
    BY <2>1 DEF Held, HolderHas
  <2>3. reserved' = reserved \union {c} /\ pc' = [pc EXCEPT ![c] = "begin"]
    BY <1>2 DEF Enqueue, Goto
  <2>4. \A d \in Contexts : Holder(d)' => d = c
    BY <2>2, <2>3 DEF Holder, TypeOK
  <2>5. HolderHas(c)'
    BY <1>1, <2>1, <2>3, AboveFacts DEF HolderHas, TypeOK
  <2> QED BY <2>1, <2>4, <2>5 DEF Held
<1>3. CASE ~StartNow
  <2>1. reserved' = reserved /\ pc' = pc /\ busy' = busy /\ transfer' = transfer
    BY <1>3 DEF Enqueue, Goto, MarkBusy, TypeOK
  <2> QED BY <1>1, <2>1 DEF Held, Holder, HolderHas
<1> QED BY <1>2, <1>3

LEMMA BeginHeld ==
  ASSUME TypeOK, Held, NEW c \in Contexts, BeginRead(c), ~collided'
  PROVE  Held'
<1>1. ~transfer /\ queue # <<>> /\ queue' = queue /\ busy' = TRUE /\ reserved' = reserved \ {c}
  BY DEF BeginRead, busVars
<1>2. \/ pc' = [pc EXCEPT ![c] = "idle"] /\ transfer' = TRUE
      \/ pc' = [pc EXCEPT ![c] = "failed"] /\ transfer' = FALSE
  BY <1>1 DEF BeginRead, Goto, TypeOK
<1>3. ASSUME NEW d \in Contexts, Holder(d)'
      PROVE  d = c /\ pc' = [pc EXCEPT ![c] = "failed"] /\ transfer' = FALSE
  <2>1. d # c => Holder(d)
    BY <1>1, <1>2, <1>3 DEF Holder, TypeOK
  <2>2. d = c
    BY <2>1, OnlyHolder DEF BeginRead
  <2>3. pc'[c] # "idle"
    BY <1>1, <1>3, <2>2 DEF Holder
  <2>4. pc' # [pc EXCEPT ![c] = "idle"]
    BY <2>3 DEF TypeOK
  <2> QED BY <1>2, <2>2, <2>4
<1>4. ASSUME NEW d \in Contexts, Holder(d)' PROVE HolderHas(d)'
  <2>1. d = c /\ pc' = [pc EXCEPT ![c] = "failed"] /\ transfer' = FALSE
    BY <1>3, <1>4
  <2>2. \A h \in Above[c] : pc'[h] = "idle"
    BY <2>1, AboveFacts DEF BeginRead, Steps, Idle, TypeOK
  <2> QED BY <1>1, <2>1, <2>2 DEF HolderHas
<1>5. queue' # <<>> /\ busy' = TRUE
  BY <1>1
<1> QED BY <1>4, <1>5 DEF Held

LEMMA EndsHeld ==
  ASSUME TypeOK, Held, TransferEnds
  PROVE  Held'
<1>1. /\ busy /\ queue # <<>> /\ transfer /\ ~transfer'
      /\ busy' = busy /\ queue' = queue /\ reserved' = reserved
      /\ pc["isr"] = "idle" /\ pc["exti"] = "idle"
  BY AboveFacts DEF TransferEnds, Held, busVars, Preempt, Idle
<1>2. \A d \in Contexts : ~Holder(d)
  BY <1>1 DEF Held, HolderHas
<1>3. \/ pc' = [pc EXCEPT !["isr"] = "done"] \/ pc' = [pc EXCEPT !["isr"] = "failed"]
  BY DEF TransferEnds, Goto
<1>4. \A d \in Contexts : Holder(d)' => d = "isr"
  BY <1>1, <1>2, <1>3 DEF Holder, TypeOK
<1>5. HolderHas("isr")'
  BY <1>1, <1>2, <1>3, AboveFacts DEF HolderHas, Holder, TypeOK
<1> QED BY <1>1, <1>4, <1>5 DEF Held

LEMMA CallbackHeld ==
  ASSUME TypeOK, Held, NEW c \in Contexts, Callback(c)
  PROVE  Held'
<1>1. /\ busy' = busy /\ queue' = queue /\ reserved' = reserved /\ transfer' = transfer
      /\ Steps(c) /\ pc[c] \in {"done", "failed"} /\ pc' = [pc EXCEPT ![c] = "advance"]
  BY DEF Callback, Goto, busVars
<1>2. Holder(c) /\ HolderHas(c)
  BY <1>1 DEF Holder, Held
<1>3. \A d \in Contexts : Holder(d)' => Holder(d)
  BY <1>1, <1>2 DEF Holder, TypeOK
<1>4. \A d \in Contexts : Holder(d)' => d = c
  BY <1>1, <1>3, OnlyHolder
<1>5. HolderHas(c)'
  BY <1>1, <1>2, AboveFacts DEF HolderHas, TypeOK
<1> QED BY <1>1, <1>2, <1>4, <1>5 DEF Held, HolderHas

LEMMA AdvanceHeld ==
  ASSUME TypeOK, Held, NEW c \in Contexts, Advance(c)
  PROVE  Held'
<1>1. /\ queue' = Tail(queue) /\ transfer' = transfer
      /\ Steps(c) /\ pc[c] = "advance" /\ pc' = [pc EXCEPT ![c] = "recheck"]
      /\ reserved' = IF busy' THEN reserved \union {c} ELSE reserved
      /\ busy' => queue' # <<>>
  BY DEF Advance, Goto, Engaged
<1>2. Holder(c) /\ HolderHas(c) /\ c \notin reserved
  BY <1>1 DEF Holder, Held, HolderHas
<1>3. ASSUME NEW d \in Contexts, Holder(d)' PROVE d = c /\ busy'
  <2>1. d # c => Holder(d)
    BY <1>1, <1>3 DEF Holder, TypeOK
  <2> QED BY <1>1, <1>2, <1>3, <2>1, OnlyHolder DEF Holder, TypeOK
<1>4. ASSUME NEW d \in Contexts, Holder(d)' PROVE HolderHas(d)'
  BY <1>1, <1>2, <1>3, <1>4, AboveFacts DEF HolderHas, TypeOK
<1> QED BY <1>1, <1>2, <1>4 DEF Held, HolderHas

LEMMA RecheckHeld ==
  ASSUME TypeOK, Held, NEW c \in Contexts, Recheck(c)
  PROVE  Held'
<1>1. /\ busy' = busy /\ queue' = queue /\ reserved' = reserved /\ transfer' = transfer
      /\ Steps(c) /\ pc[c] = "recheck"
      /\ pc' = [pc EXCEPT ![c] = IF busy THEN "begin" ELSE "idle"]
  BY DEF Recheck, Goto, busVars
<1>2. \A d \in Contexts : Holder(d)' => Holder(d)
  BY <1>1 DEF Holder, TypeOK
<1>3. \A d \in Contexts : Holder(d)' => d = c
  BY <1>1, <1>2, OnlyHolder
<1>4. ASSUME Holder(c)' PROVE HolderHas(c)'
  <2>1. HolderHas(c) /\ busy
    BY <1>2, <1>4 DEF Held, HolderHas
  <2> QED BY <1>1, <2>1, AboveFacts DEF HolderHas, TypeOK
<1> QED BY <1>1, <1>3, <1>4 DEF Held

-----------------------------------------------------------------------------
(* Nobody is reserved where a transfer is begun in vain.                     *)
LEMMA BeginReserved ==
  ASSUME TypeOK, Held, BusReserved, ~collided, NEW c \in Contexts, BeginRead(c)
  PROVE  BusReserved'
<1>1. ASSUME collided' PROVE reserved' = {}
  <2>1. transfer \/ queue = <<>>
    BY <1>1 DEF BeginRead
  <2>2. \A d \in Contexts : d \notin reserved
    BY <2>1 DEF Held, HolderHas, Holder
  <2> QED BY <1>1, <2>2 DEF BeginRead, TypeOK
<1> QED BY <1>1 DEF BusReserved

-----------------------------------------------------------------------------
(* A marked bus is used, no request is forgotten, and a stopped bus is free. *)
Served == BusyWorks /\ ModeFollows /\ NoLostWakeup /\ FreeWhenStopped

LEMMA EnqueueServed ==
  ASSUME TypeOK, ~collided, ~collided', Served,
         NEW c \in Contexts, pc[c] = "idle",
         NEW r \in Requests, Enqueue(c, r), UNCHANGED <<transfer, task>>
  PROVE  Served'
<1>1. mode' = mode /\ task' = task /\ transfer' = transfer
  BY DEF Enqueue
<1>2. CASE StartNow
  <2>1. busy' = TRUE /\ pc'[c] = "begin" /\ task \in {"started", "running"}
    BY <1>2 DEF Enqueue, StartNow, MarkBusy, Goto, TypeOK, Served, ModeFollows
  <2>2. InUse'
    BY <2>1 DEF InUse, Working
  <2> QED BY <1>1, <2>1, <2>2
      DEF Served, BusyWorks, ModeFollows, NoLostWakeup, FreeWhenStopped
<1>3. CASE ~StartNow
  <2>1. pc' = pc /\ busy' = busy
    BY <1>3 DEF Enqueue, Goto, MarkBusy, TypeOK
  <2>2. InUse' = InUse
    BY <1>1, <2>1 DEF InUse, Working
  <2>3. task = "running" => busy
    BY <1>3 DEF StartNow, Served, ModeFollows
  <2> QED BY <1>1, <2>1, <2>2, <2>3
      DEF Served, BusyWorks, ModeFollows, NoLostWakeup, FreeWhenStopped
<1> QED BY <1>2, <1>3

LEMMA BeginServed ==
  ASSUME TypeOK, ~collided, ~collided', Served, NEW c \in Contexts, BeginRead(c)
  PROVE  Served'
<1>1. mode' = mode /\ task' = task /\ queue' = queue
  BY DEF BeginRead
<1>2. InUse
  BY DEF BeginRead, InUse, Working
<1>3. task \notin {"stopped", "mag_off", "hum_off", "off", "starting"}
  BY <1>2 DEF Served, FreeWhenStopped
<1>4. InUse'
  <2>1. transfer' = TRUE \/ pc' = [pc EXCEPT ![c] = "failed"]
    BY DEF BeginRead, Goto
  <2>2. transfer' = TRUE \/ pc'[c] = "failed"
    BY <2>1 DEF TypeOK
  <2> QED BY <2>2 DEF InUse, Working
<1> QED BY <1>1, <1>3, <1>4
    DEF Served, BusyWorks, ModeFollows, NoLostWakeup, FreeWhenStopped

LEMMA EndsServed ==
  ASSUME TypeOK, ~collided, ~collided', Served, TransferEnds
  PROVE  Served'
<1>1. mode' = mode /\ task' = task /\ queue' = queue
  BY DEF TransferEnds, busVars
<1>2. task \notin {"stopped", "mag_off", "hum_off", "off", "starting"}
  BY DEF TransferEnds, InUse, Served, FreeWhenStopped
<1>3. InUse'
  <2>1. pc'["isr"] \in {"done", "failed"}
    BY AboveFacts DEF TransferEnds, Goto, TypeOK
  <2> QED BY <2>1, AboveFacts DEF InUse, Working
<1> QED BY <1>1, <1>2, <1>3
    DEF Served, BusyWorks, ModeFollows, NoLostWakeup, FreeWhenStopped

LEMMA CallbackServed ==
  ASSUME TypeOK, ~collided, ~collided', Served, NEW c \in Contexts, Callback(c)
  PROVE  Served'
<1>1. mode' = mode /\ task' = task /\ queue' = queue
  BY DEF Callback, busVars
<1>2. task \notin {"stopped", "mag_off", "hum_off", "off", "starting"}
  BY DEF Callback, InUse, Working, Served, FreeWhenStopped
<1>3. InUse'
  <2>1. pc'[c] = "advance"
    BY DEF Callback, Goto, TypeOK
  <2> QED BY <2>1 DEF InUse, Working
<1> QED BY <1>1, <1>2, <1>3
    DEF Served, BusyWorks, ModeFollows, NoLostWakeup, FreeWhenStopped

LEMMA AdvanceServed ==
  ASSUME TypeOK, ~collided, ~collided', Served, NEW c \in Contexts, Advance(c)
  PROVE  Served'
<1>1. /\ mode' = mode /\ task' = task /\ busy' = (mode = "ACTIVE" /\ queue' # <<>>)
      /\ pc'[c] = "recheck"
  BY DEF Advance, Engaged, Goto, TypeOK
<1>2. task \notin {"stopped", "mag_off", "hum_off", "off", "starting"}
  BY DEF Advance, InUse, Working, Served, FreeWhenStopped
<1>3. busy' => InUse'
  BY <1>1 DEF InUse, Working
<1> QED BY <1>1, <1>2, <1>3
    DEF Served, BusyWorks, ModeFollows, NoLostWakeup, FreeWhenStopped

LEMMA RecheckServed ==
  ASSUME TypeOK, ~collided, ~collided', Served, NEW c \in Contexts, Recheck(c)
  PROVE  Served'
<1>1. /\ mode' = mode /\ task' = task /\ queue' = queue /\ busy' = busy
      /\ transfer' = transfer
      /\ pc' = [pc EXCEPT ![c] = IF busy THEN "begin" ELSE "idle"] /\ pc[c] = "recheck"
  BY DEF Recheck, Goto, busVars
<1>2. \A d \in Contexts : Working(d)' <=> Working(d)
  BY <1>1 DEF Working, TypeOK
<1>3. InUse' <=> InUse
  BY <1>1, <1>2 DEF InUse
<1> QED BY <1>1, <1>3
    DEF Served, BusyWorks, ModeFollows, NoLostWakeup, FreeWhenStopped

(* A step of a driver that leaves the bus alone. *)
LEMMA QuietOwns ==
  ASSUME Held, Served, ~collided, ~collided', UNCHANGED <<busVars, transfer, pc, task>>
  PROVE  Held' /\ Served'
BY DEF busVars, Held, Holder, HolderHas, Served, BusyWorks, ModeFollows, NoLostWakeup,
       FreeWhenStopped, InUse, Working

(* The steps of the mode task, when no context is in the middle of its work. *)
LEMMA AllIdle ==
  ASSUME TypeOK, Held, Preempt("task")
  PROVE  /\ \A c \in Contexts : pc[c] = "idle" /\ ~Holder(c)
         /\ \A c \in Contexts : ~Working(c)
         /\ ~busy => ~InUse
<1>1. \A c \in Contexts : pc[c] = "idle"
  BY AboveFacts DEF Preempt, Idle
<1>2. \A c \in Contexts : ~Holder(c) /\ ~Working(c)
  BY <1>1 DEF Holder, Held, HolderHas, Working
<1> QED BY <1>1, <1>2 DEF InUse, Held

LEMMA BeginQueuedOwns ==
  ASSUME TypeOK, Held, Served, ~collided, ~collided', BeginQueued
  PROVE  Held' /\ Served'
<1>1. /\ Preempt("task") /\ task = "started" /\ task' = "running" /\ mode' = mode
      /\ queue' = queue /\ busy' = busy /\ transfer' = transfer /\ reserved' = reserved
      /\ pc' = [pc EXCEPT !["task"] = IF queue = <<>> THEN "idle" ELSE "begin"]
  BY DEF BeginQueued, TaskAt, busVars, Goto
<1>2. \A c \in Contexts : pc[c] = "idle" /\ ~Holder(c) /\ ~Working(c)
  BY <1>1, AllIdle
<1>3. \A c \in Contexts : ~Holder(c)'
  BY <1>1, <1>2 DEF Holder, TypeOK
<1>4. queue # <<>> => InUse'
  BY <1>1, AboveFacts DEF InUse, Working, TypeOK
<1>5. busy => InUse'
  <2>1. busy => transfer
    BY <1>2 DEF Served, BusyWorks, InUse
  <2> QED BY <1>1, <2>1 DEF InUse
<1> QED BY <1>1, <1>3, <1>4, <1>5
    DEF Held, Served, BusyWorks, ModeFollows, NoLostWakeup, FreeWhenStopped

LEMMA ModeOwns ==
  ASSUME TypeOK, Held, Served, ~collided, ~collided', Mode
  PROVE  Held' /\ Served'
<1>1. CASE BeginQueued
  BY <1>1, BeginQueuedOwns
<1>2. CASE ~BeginQueued
  <2>1. /\ Preempt("task") /\ queue' = queue /\ busy' = busy /\ transfer' = transfer
        /\ reserved' = reserved /\ pc' = pc
    BY <1>2 DEF Mode, StartSensors, SensorStart, SensorStop, Waited, StopSensor, TaskAt, busVars
  <2>2. InUse' = InUse
    BY <2>1 DEF InUse, Working
  <2>3. ~busy => ~InUse
    BY <2>1, AllIdle
  <2>4. \/ task = "off" /\ task' = "starting" /\ mode' = mode
        \/ task = "starting" /\ task' = "started" /\ mode' = "ACTIVE"
        \/ task = "running" /\ task' = "stopping" /\ mode' = "INACTIVE"
        \/ task = "stopping" /\ task' = "stopped" /\ mode' = mode /\ ~busy
        \/ /\ task \in {"stopped", "mag_off", "hum_off"} /\ mode' = mode
           /\ task' \in {"mag_off", "hum_off", "off"}
    BY <1>2 DEF Mode, StartSensors, SensorStart, SensorStop, Waited, Stopped, StopSensor, TaskAt,
                busVars, StopOrder, StopNext
  <2>5. Served'
    BY <2>1, <2>2, <2>3, <2>4
    DEF Served, BusyWorks, ModeFollows, NoLostWakeup, FreeWhenStopped
  <2> QED BY <2>1, <2>5 DEF Held, Holder, HolderHas
<1> QED BY <1>1, <1>2

-----------------------------------------------------------------------------
(* What the drivers wait for: a request that is accepted is behind all       *)
(* others, one that is refused frees its sensor.                             *)
LEMMA EnqueueAsks ==
  ASSUME TypeOK, Asking, NEW c \in Contexts, pc[c] = "idle",
         NEW r \in Requests, Enqueue(c, r)
  PROVE  /\ queue' \in Seq(Requests) /\ Len(queue') = Len(queue) + 1 /\ Len(queue) \in Nat
         /\ \A i \in 1..Len(queue) : queue'[i] = queue[i]
         /\ queue'[Len(queue) + 1] = r
         /\ \A d \in Contexts : pc'[d] = "advance" => pc[d] = "advance"
<1>1. queue \in Seq(Requests) /\ queue' = Append(queue, r)
  BY DEF Enqueue, TypeOK
<1>2. pc' = [pc EXCEPT ![c] = "begin"] \/ pc' = [pc EXCEPT ![c] = "idle"]
  BY DEF Enqueue, Goto
<1>3. \A d \in Contexts : pc'[d] = "advance" => pc[d] = "advance"
  BY <1>2 DEF TypeOK
<1> QED BY <1>1, <1>3, Joins

(* The queue of a context that advances is not empty. *)
LEMMA AdvancingHas ==
  ASSUME TypeOK, Held, NEW c \in Contexts, pc[c] \in {"done", "failed", "advance"}
  PROVE  queue # <<>> /\ queue \in Seq(Requests) /\ Len(queue) \in Nat \ {0}
<1>1. HolderHas(c)
  BY DEF Held, Holder
<1> QED BY <1>1, Leaves DEF HolderHas, TypeOK

(* Ask, for a request that is not a measurement of the magnetometer or has   *)
(* its second request still to ask for.                                      *)
LEMMA AskAsks ==
  ASSUME TypeOK, Held, Asking, NEW c \in Contexts, pc[c] = "idle",
         NEW r \in {"baro", "mag", "hum_measure"}, Ask(c, r),
         on' = on, readTimer' = readTimer,
         tempToRead' = (tempToRead \/ r = "mag"), Owner[r] \in Sensors
  PROVE  Asking'
<1>1. /\ Owner[r] \in Sensors /\ r \in Requests
      /\ sensor_is_busy \in [Sensors -> BOOLEAN] /\ on \subseteq Sensors
  BY DEF TypeOK, Requests
<1>2. CASE ~Full /\ Enqueue(c, r) /\ sensor_is_busy' = [sensor_is_busy EXCEPT ![Owner[r]] = TRUE]
  <2>1. /\ queue' \in Seq(Requests) /\ Len(queue') = Len(queue) + 1 /\ Len(queue) \in Nat
        /\ \A i \in 1..Len(queue) : queue'[i] = queue[i]
        /\ queue'[Len(queue) + 1] = r
        /\ \A d \in Contexts : pc'[d] = "advance" => pc[d] = "advance"
    BY <1>1, <1>2, EnqueueAsks
  <2>2. \A s \in on : sensor_is_busy'[s] => s = Owner[r] \/ sensor_is_busy[s]
    BY <1>1, <1>2
  <2>3. Len(queue) + 1 \in 1..Len(queue') /\ Owner[queue'[Len(queue) + 1]] = Owner[r]
    BY <2>1
  <2>4. Queued(Owner[r])'
    BY <2>3 DEF Queued
  <2>5. \A s : Queued(s) => Queued(s)'
    BY <2>1 DEF Queued
  <2>6. BusyHasRequest'
    BY <2>2, <2>4, <2>5 DEF BusyHasRequest, Asking
  <2>7. MagFollowed'
    <3>1. CASE r = "mag"
      BY <3>1 DEF MagFollowed
    <3>2. CASE r # "mag"
      <4> SUFFICES ASSUME "mag" \in on, sensor_is_busy'["mag"], ~tempToRead,
                          NEW i \in 1..Len(queue'), queue'[i] = "mag"
                   PROVE  \E j \in i + 1 .. Len(queue') : queue'[j] = "mag_temp"
        BY <3>2 DEF MagFollowed
      <4>1. i \in 1..Len(queue) /\ queue[i] = "mag"
        BY <2>1, <3>2
      <4>2. sensor_is_busy["mag"]
        BY <2>2, <3>2, OwnerFacts
      <4>3. PICK j \in i + 1 .. Len(queue) : queue[j] = "mag_temp"
        BY <4>1, <4>2 DEF Asking, MagFollowed
      <4>4. j \in i + 1 .. Len(queue') /\ queue'[j] = "mag_temp"
        BY <2>1, <4>3
      <4> QED BY <4>4
    <3> QED BY <3>1, <3>2
  <2>8. BusyBehind'
    <3> SUFFICES ASSUME NEW d \in Contexts, pc'[d] = "advance", NEW s \in on,
                        sensor_is_busy'[s]
                 PROVE  QueuedBehind(s)' \/ Asked(s)'
      BY DEF BusyBehind
    <3>1. pc[d] = "advance" /\ Len(queue) \in Nat \ {0}
      BY <2>1, AdvancingHas
    <3>2. s = Owner[r] => QueuedBehind(s)'
      BY <2>1, <2>3, <3>1 DEF QueuedBehind
    <3>3. QueuedBehind(s) => QueuedBehind(s)'
      BY <2>1 DEF QueuedBehind
    <3>4. Asked(s) => Asked(s)'
      BY DEF Asked
    <3> QED BY <2>2, <3>1, <3>2, <3>3, <3>4 DEF Asking, BusyBehind
  <2> QED BY <2>6, <2>7, <2>8 DEF Asking
<1>3. CASE /\ sensor_is_busy' = [sensor_is_busy EXCEPT ![Owner[r]] = FALSE]
           /\ UNCHANGED <<busVars, pc>>
  <2>1. /\ queue' = queue /\ pc' = pc
        /\ \A s \in on : sensor_is_busy'[s] => sensor_is_busy[s]
    BY <1>1, <1>3 DEF busVars
  <2>2. \A s : Asked(s) => Asked(s)'
    BY DEF Asked
  <2>3. BusyHasRequest'
    BY <2>1 DEF BusyHasRequest, Queued, Asking
  <2>4. MagFollowed'
    BY <2>1 DEF MagFollowed, Asking
  <2>5. BusyBehind'
    BY <2>1, <2>2 DEF BusyBehind, QueuedBehind, Asking
  <2> QED BY <2>3, <2>4, <2>5 DEF Asking
<1> QED BY <1>2, <1>3 DEF Ask

(* The second request of a measurement takes the place of what was to be     *)
(* asked.                                                                    *)
LEMMA SecondAsks ==
  ASSUME TypeOK, Held, Asking, NEW c \in Contexts, pc[c] = "idle",
         NEW r \in {"mag_temp", "hum_read"}, on' = on,
         \/ ~Full /\ Enqueue(c, r) /\ UNCHANGED sensor_is_busy
         \/ /\ sensor_is_busy' = [sensor_is_busy EXCEPT ![Owner[r]] = FALSE]
            /\ UNCHANGED <<busVars, pc>>,
         \/ r = "mag_temp" /\ tempToRead' = FALSE /\ readTimer' = readTimer
         \/ r = "hum_read" /\ readTimer' = FALSE /\ tempToRead' = tempToRead
  PROVE  Asking'
<1>1. /\ r \in Requests /\ sensor_is_busy \in [Sensors -> BOOLEAN] /\ on \subseteq Sensors
  BY DEF TypeOK, Requests
<1>2. \A s : s # Owner[r] => (Asked(s) => Asked(s)')
  BY OwnerFacts DEF Asked
<1>3. CASE ~Full /\ Enqueue(c, r) /\ UNCHANGED sensor_is_busy
  <2>1. /\ queue' \in Seq(Requests) /\ Len(queue') = Len(queue) + 1 /\ Len(queue) \in Nat
        /\ \A i \in 1..Len(queue) : queue'[i] = queue[i]
        /\ queue'[Len(queue) + 1] = r
        /\ \A d \in Contexts : pc'[d] = "advance" => pc[d] = "advance"
    BY <1>1, <1>3, EnqueueAsks
  <2>2. Len(queue) + 1 \in 1..Len(queue') /\ Owner[queue'[Len(queue) + 1]] = Owner[r]
    BY <2>1
  <2>3. Queued(Owner[r])' /\ \A s : Queued(s) => Queued(s)'
    BY <2>1, <2>2 DEF Queued
  <2>4. BusyHasRequest'
    BY <1>2, <1>3, <2>3 DEF BusyHasRequest, Asking, Asked
  <2>5. MagFollowed'
    <3> SUFFICES ASSUME "mag" \in on, sensor_is_busy["mag"], ~tempToRead',
                        NEW i \in 1..Len(queue'), queue'[i] = "mag"
                 PROVE  \E j \in i + 1 .. Len(queue') : queue'[j] = "mag_temp"
      BY <1>3 DEF MagFollowed
    <3>1. i \in 1..Len(queue) /\ queue[i] = "mag"
      BY <2>1
    <3>2. CASE r = "mag_temp"
      <4>1. Len(queue) + 1 \in i + 1 .. Len(queue')
        BY <2>1, <3>1
      <4> QED BY <2>1, <3>2, <4>1
    <3>3. CASE r = "hum_read"
      <4>1. PICK j \in i + 1 .. Len(queue) : queue[j] = "mag_temp"
        BY <3>1, <3>3 DEF Asking, MagFollowed
      <4>2. j \in i + 1 .. Len(queue') /\ queue'[j] = "mag_temp"
        BY <2>1, <4>1
      <4> QED BY <4>2
    <3> QED BY <3>2, <3>3
  <2>6. BusyBehind'
    <3> SUFFICES ASSUME NEW d \in Contexts, pc'[d] = "advance", NEW s \in on,
                        sensor_is_busy[s]
                 PROVE  QueuedBehind(s)' \/ Asked(s)'
      BY <1>3 DEF BusyBehind
    <3>1. pc[d] = "advance" /\ Len(queue) \in Nat \ {0}
      BY <2>1, AdvancingHas
    <3>2. s = Owner[r] => QueuedBehind(s)'
      BY <2>1, <2>2, <3>1 DEF QueuedBehind
    <3>3. QueuedBehind(s) => QueuedBehind(s)'
      BY <2>1 DEF QueuedBehind
    <3> QED BY <1>2, <3>1, <3>2, <3>3 DEF Asking, BusyBehind
  <2> QED BY <2>4, <2>5, <2>6 DEF Asking
<1>4. CASE /\ sensor_is_busy' = [sensor_is_busy EXCEPT ![Owner[r]] = FALSE]
           /\ UNCHANGED <<busVars, pc>>
  <2>1. /\ queue' = queue /\ pc' = pc
        /\ \A s \in on : sensor_is_busy'[s] => sensor_is_busy[s] /\ s # Owner[r]
    BY <1>1, <1>4 DEF busVars
  <2>2. BusyHasRequest'
    BY <1>2, <2>1 DEF BusyHasRequest, Queued, Asking, Asked
  <2>3. MagFollowed'
    <3>1. "mag" \in on /\ sensor_is_busy'["mag"] =>
            sensor_is_busy["mag"] /\ tempToRead' = tempToRead
      BY <2>1, OwnerFacts
    <3> QED BY <2>1, <3>1 DEF MagFollowed, Asking
  <2>4. BusyBehind'
    BY <1>2, <2>1 DEF BusyBehind, QueuedBehind, Asking
  <2> QED BY <2>2, <2>3, <2>4 DEF Asking
<1> QED BY <1>3, <1>4

(* The callback ends a measurement, or it has its next request queued or     *)
(* timed.                                                                    *)
LEMMA CallbackAsks ==
  ASSUME TypeOK, Held, Asking, NEW c \in Contexts, Callback(c)
  PROVE  Asking'
<1> DEFINE r == Head(queue)
           ok == pc[c] = "done"
<1>1. /\ pc[c] \in {"done", "failed"} /\ pc' = [pc EXCEPT ![c] = "advance"]
      /\ queue' = queue /\ on' = on /\ tempToRead' = tempToRead
      /\ sensor_is_busy' = IF Completes(r, ok) THEN [sensor_is_busy EXCEPT ![Owner[r]] = FALSE]
                           ELSE sensor_is_busy
      /\ readTimer' = (readTimer \/ (r = "hum_measure" /\ ok))
  BY DEF Callback, Goto, busVars
<1>2. /\ queue \in Seq(Requests) /\ Len(queue) \in Nat \ {0}
      /\ r = queue[1] /\ r \in Requests
      /\ sensor_is_busy \in [Sensors -> BOOLEAN] /\ on \subseteq Sensors
  BY <1>1, AdvancingHas, Leaves DEF TypeOK
<1>3. \A s \in on : sensor_is_busy'[s] => sensor_is_busy[s] /\ (Completes(r, ok) => s # Owner[r])
  BY <1>1, <1>2
<1>4. \A s : Asked(s) => Asked(s)'
  BY <1>1 DEF Asked
<1>5. ASSUME NEW s \in on, sensor_is_busy'[s] PROVE QueuedBehind(s)' \/ Asked(s)'
  <2>1. CASE s # Owner[r]
    <3>1. Queued(s) \/ Asked(s)
      BY <1>3, <1>5 DEF Asking, BusyHasRequest, Asked
    <3>2. Queued(s) => QueuedBehind(s)
      <4> SUFFICES ASSUME NEW i \in 1..Len(queue), Owner[queue[i]] = s
                   PROVE  QueuedBehind(s)
        BY DEF Queued
      <4>1. i # 1
        BY <1>2, <2>1
      <4>2. i \in 2..Len(queue)
        BY <1>2, <4>1
      <4> QED BY <4>2 DEF QueuedBehind
    <3> QED BY <1>1, <1>4, <3>1, <3>2 DEF QueuedBehind
  <2>2. CASE s = Owner[r]
    <3>1. ~Completes(r, ok)
      BY <1>3, <1>5, <2>2
    <3>2. r = "mag" \/ (r = "hum_measure" /\ ok)
      BY <1>2, <3>1 DEF Completes, Requests
    <3>3. CASE r = "mag"
      <4>1. s = "mag" /\ sensor_is_busy["mag"] /\ 1 \in 1..Len(queue) /\ queue[1] = "mag"
        BY <1>2, <1>3, <1>5, <2>2, <3>3, OwnerFacts
      <4>2. tempToRead \/ \E j \in 1 + 1 .. Len(queue) : queue[j] = "mag_temp"
        BY <4>1, <1>5 DEF Asking, MagFollowed
      <4>3. (\E j \in 1 + 1 .. Len(queue) : queue[j] = "mag_temp") => QueuedBehind("mag")
        BY OwnerFacts DEF QueuedBehind
      <4> QED BY <1>1, <4>1, <4>2, <4>3 DEF QueuedBehind, Asked
    <3>4. CASE r = "hum_measure" /\ ok
      BY <1>1, <2>2, <3>4, OwnerFacts DEF Asked
    <3> QED BY <3>2, <3>3, <3>4
  <2> QED BY <2>1, <2>2
<1>6. BusyHasRequest'
  <2>1. \A s \in on : sensor_is_busy'[s] => Queued(s) \/ Asked(s)
    BY <1>3 DEF Asking, BusyHasRequest, Asked
  <2> QED BY <1>1, <1>4, <2>1 DEF BusyHasRequest, Queued, Asked
<1>7. MagFollowed'
  BY <1>1, <1>3 DEF MagFollowed, Asking
<1>8. BusyBehind'
  BY <1>1, <1>5 DEF BusyBehind
<1> QED BY <1>6, <1>7, <1>8 DEF Asking

LEMMA AdvanceAsks ==
  ASSUME TypeOK, Held, Asking, NEW c \in Contexts, Advance(c)
  PROVE  Asking'
<1>1. /\ pc[c] = "advance" /\ pc' = [pc EXCEPT ![c] = "recheck"] /\ Steps(c)
      /\ queue' = Tail(queue) /\ UNCHANGED driverVars
  BY DEF Advance, Goto
<1>2. /\ on' = on /\ sensor_is_busy' = sensor_is_busy /\ readTimer' = readTimer
      /\ tempToRead' = tempToRead
  BY <1>1 DEF driverVars
<1>3. /\ queue \in Seq(Requests) /\ Len(queue) \in Nat \ {0}
      /\ Len(queue') = Len(queue) - 1
      /\ \A i \in 1..Len(queue) - 1 : queue'[i] = queue[i + 1]
  BY <1>1, AdvancingHas, Leaves
<1>4. BusyHasRequest'
  <2> SUFFICES ASSUME NEW s \in on, sensor_is_busy[s] PROVE Queued(s)' \/ Asked(s)
    BY <1>2 DEF BusyHasRequest, Asked
  <2>1. QueuedBehind(s) \/ Asked(s)
    BY <1>1 DEF Asking, BusyBehind
  <2>2. ASSUME NEW i \in 2..Len(queue), Owner[queue[i]] = s PROVE Queued(s)'
    <3>1. i - 1 \in 1..Len(queue') /\ queue'[i - 1] = queue[i]
      BY <1>3
    <3> QED BY <2>2, <3>1 DEF Queued
  <2> QED BY <2>1, <2>2 DEF QueuedBehind
<1>5. MagFollowed'
  <2> SUFFICES ASSUME "mag" \in on, sensor_is_busy["mag"], ~tempToRead,
                      NEW i \in 1..Len(queue'), queue'[i] = "mag"
               PROVE  \E j \in i + 1 .. Len(queue') : queue'[j] = "mag_temp"
    BY <1>2 DEF MagFollowed
  <2>1. i + 1 \in 1..Len(queue) /\ queue[i + 1] = "mag"
    BY <1>3
  <2>2. PICK j \in (i + 1) + 1 .. Len(queue) : queue[j] = "mag_temp"
    BY <2>1 DEF Asking, MagFollowed
  <2>3. j - 1 \in i + 1 .. Len(queue') /\ queue'[j - 1] = queue[j]
    BY <1>3
  <2> QED BY <2>2, <2>3
<1>6. \A d \in Contexts : pc'[d] # "advance"
  <2>1. ASSUME NEW d \in Contexts, pc'[d] = "advance" PROVE FALSE
    <3>1. d # c /\ pc[d] = "advance"
      BY <1>1, <2>1 DEF TypeOK
    <3> QED BY <1>1, <3>1, OnlyHolder DEF Holder
  <2> QED BY <2>1
<1> QED BY <1>4, <1>5, <1>6 DEF Asking, BusyBehind

(* The other steps leave the requests alone. *)
LEMMA OtherAsks ==
  ASSUME Asking, queue' = queue, on' \subseteq on,
         \A d \in Contexts : pc'[d] = "advance" => pc[d] = "advance",
         \A s \in on' : sensor_is_busy'[s] => sensor_is_busy[s],
         tempToRead' = tempToRead, readTimer' # readTimer => "hum" \notin on'
  PROVE  Asking'
<1>1. \A s \in on' : /\ s \in on /\ (Asked(s) => Asked(s)')
                     /\ sensor_is_busy'[s] => sensor_is_busy[s]
  BY DEF Asked
<1>2. BusyHasRequest'
  BY <1>1 DEF BusyHasRequest, Queued, Asked, Asking
<1>3. MagFollowed'
  BY <1>1 DEF MagFollowed, Asking
<1>4. BusyBehind'
  BY <1>1 DEF BusyBehind, QueuedBehind, Asking
<1> QED BY <1>2, <1>3, <1>4 DEF Asking

LEMMA ModeAsks ==
  ASSUME TypeOK, Asking, Mode
  PROVE  Asking'
<1>1. CASE StartSensors
  <2>1. \A s \in on' : ~sensor_is_busy'[s]
    BY <1>1 DEF StartSensors
  <2> QED BY <2>1 DEF Asking, BusyHasRequest, MagFollowed, BusyBehind
<1>2. CASE BeginQueued
  <2>1. \A d \in Contexts : pc'[d] = "advance" => pc[d] = "advance"
    BY <1>2 DEF BeginQueued, Goto, TypeOK
  <2>2. queue' = queue /\ UNCHANGED driverVars
    BY <1>2 DEF BeginQueued, busVars
  <2> QED BY <2>1, <2>2, OtherAsks DEF driverVars
<1>3. CASE SensorStart \/ SensorStop \/ Waited
  <2>1. queue' = queue /\ pc' = pc /\ UNCHANGED driverVars
    BY <1>3 DEF SensorStart, SensorStop, Waited, busVars
  <2> QED BY <2>1, OtherAsks DEF driverVars
<1>4. CASE StopSensor
  <2>1. PICK step \in DOMAIN StopOrder :
          /\ on' = on \ {StopOrder[step]}
          /\ readTimer' = (readTimer /\ StopOrder[step] # "hum")
          /\ UNCHANGED <<busVars, transfer, pc, sensor_is_busy, tempToRead, collided>>
    BY <1>4 DEF StopSensor
  <2>2. readTimer' # readTimer => "hum" \notin on'
    BY <2>1 DEF TypeOK
  <2> QED BY <2>1, <2>2, OtherAsks DEF busVars
<1> QED BY <1>1, <1>2, <1>3, <1>4 DEF Mode

LEMMA BusAsks ==
  ASSUME TypeOK, Held, Asking, Bus
  PROVE  Asking'
<1>1. CASE TransferEnds
  <2>1. \A d \in Contexts : pc'[d] = "advance" => pc[d] = "advance"
    BY <1>1 DEF TransferEnds, Goto, TypeOK
  <2>2. queue' = queue /\ UNCHANGED driverVars
    BY <1>1 DEF TransferEnds, busVars
  <2> QED BY <2>1, <2>2, OtherAsks DEF driverVars
<1>2. ASSUME NEW c \in Contexts, BeginRead(c) \/ Recheck(c) PROVE Asking'
  <2>1. \A d \in Contexts : pc'[d] = "advance" => pc[d] = "advance"
    BY <1>2 DEF BeginRead, Recheck, Goto, TypeOK
  <2>2. queue' = queue /\ UNCHANGED driverVars
    BY <1>2 DEF BeginRead, Recheck, busVars
  <2> QED BY <2>1, <2>2, OtherAsks DEF driverVars
<1>3. ASSUME NEW c \in Contexts, Callback(c) \/ Advance(c) PROVE Asking'
  BY <1>3, CallbackAsks, AdvanceAsks
<1>4. CASE \E c \in Contexts : Runs(c)
  BY <1>2, <1>3, <1>4 DEF Runs
<1> QED BY <1>1, <1>4 DEF Bus

-----------------------------------------------------------------------------
LEMMA InvInit == Init => IInv
<1> SUFFICES ASSUME Init PROVE IInv
  OBVIOUS
<1>1. TypeOK
  <2>1. queue \in Seq(Requests) /\ Len(queue) = 0 /\ 0 <= HANDLER_COUNT
    BY BusAssumption DEF Init
  <2>2. pc \in [Contexts -> {"idle", "begin", "done", "failed", "advance", "recheck"}]
    BY DEF Init
  <2> QED BY <2>1, <2>2 DEF Init, TypeOK
<1>2. \A c \in Contexts : ~Holder(c) /\ ~Working(c) /\ pc[c] # "advance"
  BY DEF Init, Holder, Working
<1>3. Owning
  BY <1>2 DEF Init, Owning, Held, BusyWorks, ModeFollows, NoLostWakeup, FreeWhenStopped, InUse
<1>4. Asking
  BY <1>2 DEF Init, Asking, BusyHasRequest, MagFollowed, BusyBehind
<1> QED BY <1>1, <1>3, <1>4 DEF Init, IInv, BusReserved

LEMMA TypeEnqueue ==
  ASSUME TypeOK, NEW c \in Contexts, NEW r \in Requests, ~Full, Enqueue(c, r)
  PROVE  /\ mode' = mode /\ busy' \in BOOLEAN /\ queue' \in Seq(Requests)
         /\ Len(queue') <= HANDLER_COUNT /\ reserved' \subseteq Contexts
         /\ pc' \in [Contexts -> {"idle", "begin", "done", "failed", "advance", "recheck"}]
<1>1. /\ queue' \in Seq(Requests) /\ Len(queue') = Len(queue) + 1 /\ Len(queue) \in Nat
  BY Joins DEF Enqueue, TypeOK
<1>2. Len(queue') <= HANDLER_COUNT
  BY <1>1, BusAssumption DEF Full
<1> QED BY <1>1, <1>2 DEF Enqueue, Goto, MarkBusy, StartNow, TypeOK

LEMMA TypeReady ==
  ASSUME TypeOK, Ready
  PROVE  TypeOK'
<1>1. /\ "exti" \in Contexts /\ "isr" \in Contexts
      /\ {"baro", "mag", "mag_temp", "hum_measure", "hum_read"} = Requests
  BY DEF Contexts, Requests
<1>2. ASSUME NEW c \in Contexts, NEW r \in Requests, NEW v,
             \/ ~Full /\ Enqueue(c, r)
             \/ UNCHANGED <<busVars, pc>>,
             transfer' = transfer, task' = task, on' = on, collided' = collided,
             \/ sensor_is_busy' = sensor_is_busy
             \/ sensor_is_busy' = [sensor_is_busy EXCEPT ![Owner[v]] = TRUE]
             \/ sensor_is_busy' = [sensor_is_busy EXCEPT ![Owner[v]] = FALSE],
             readTimer' \in BOOLEAN, tempToRead' \in BOOLEAN
      PROVE  TypeOK'
  <2>1. sensor_is_busy' \in [Sensors -> BOOLEAN]
    BY <1>2 DEF TypeOK
  <2>2. CASE ~Full /\ Enqueue(c, r)
    BY <1>2, <2>1, <2>2, TypeEnqueue DEF TypeOK
  <2>3. CASE UNCHANGED <<busVars, pc>>
    BY <1>2, <2>1, <2>3 DEF TypeOK, busVars
  <2> QED BY <1>2, <2>2, <2>3
<1>3. readTimer \in BOOLEAN /\ tempToRead \in BOOLEAN
  BY DEF TypeOK
<1>4. CASE BaroReady
  BY <1>1, <1>2, <1>3, <1>4 DEF BaroReady, Ask
<1>5. CASE MagReady
  BY <1>1, <1>2, <1>3, <1>5 DEF MagReady, Ask
<1>6. CASE HumMeasure
  BY <1>1, <1>2, <1>3, <1>6 DEF HumMeasure, Ask
<1>7. CASE MagAsksTemperature
  <2>1. Owner["mag_temp"] = "mag"
    BY OwnerFacts
  <2> QED BY <1>1, <1>2, <1>3, <1>7, <2>1 DEF MagAsksTemperature
<1>8. CASE HumRead
  <2>1. Owner["hum_read"] = "hum"
    BY OwnerFacts
  <2> QED BY <1>1, <1>2, <1>3, <1>8, <2>1 DEF HumRead
<1> QED BY <1>4, <1>5, <1>6, <1>7, <1>8 DEF Ready

LEMMA TypeBus ==
  ASSUME TypeOK, Held, Bus
  PROVE  TypeOK'
<1>1. CASE TransferEnds
  BY <1>1, AboveFacts DEF TransferEnds, Goto, TypeOK, busVars, driverVars
<1>2. ASSUME NEW c \in Contexts, BeginRead(c) PROVE TypeOK'
  BY <1>2 DEF BeginRead, Goto, TypeOK, driverVars
<1>3. ASSUME NEW c \in Contexts, Recheck(c) PROVE TypeOK'
  BY <1>3 DEF Recheck, Goto, TypeOK, busVars, driverVars
<1>4. ASSUME NEW c \in Contexts, Callback(c) PROVE TypeOK'
  <2>1. sensor_is_busy' \in [Sensors -> BOOLEAN] /\ readTimer' \in BOOLEAN
    BY <1>4 DEF Callback, TypeOK
  <2> QED BY <1>4, <2>1 DEF Callback, Goto, TypeOK, busVars
<1>5. ASSUME NEW c \in Contexts, Advance(c) PROVE TypeOK'
  <2>1. queue' \in Seq(Requests) /\ Len(queue') <= HANDLER_COUNT
    BY <1>5, AdvancingHas, Leaves, BusAssumption DEF Advance, TypeOK
  <2>2. busy' \in BOOLEAN /\ reserved' \subseteq Contexts
    BY <1>5 DEF Advance, Engaged, TypeOK
  <2> QED BY <1>5, <2>1, <2>2 DEF Advance, Goto, TypeOK, driverVars
<1>6. CASE \E c \in Contexts : Runs(c)
  BY <1>2, <1>3, <1>4, <1>5, <1>6 DEF Runs
<1> QED BY <1>1, <1>6 DEF Bus

LEMMA TypeMode ==
  ASSUME TypeOK, Mode
  PROVE  TypeOK'
<1>1. CASE StartSensors
  BY <1>1 DEF StartSensors, TaskAt, TypeOK, busVars
<1>2. CASE SensorStart \/ SensorStop \/ Waited
  BY <1>2 DEF SensorStart, SensorStop, Waited, TaskAt, TypeOK, busVars, driverVars
<1>3. CASE BeginQueued
  BY <1>3, AboveFacts DEF BeginQueued, TaskAt, Goto, TypeOK, busVars, driverVars
<1>4. CASE StopSensor
  <2>1. task' \in {"mag_off", "hum_off", "off"} /\ on' \subseteq on /\ readTimer' \in BOOLEAN
    BY <1>4 DEF StopSensor, TaskAt, StopOrder, StopNext, TypeOK
  <2> QED BY <1>4, <2>1 DEF StopSensor, TypeOK, busVars
<1> QED BY <1>1, <1>2, <1>3, <1>4 DEF Mode

-----------------------------------------------------------------------------
(* A step of a driver, of the bus, of the mode task. *)
LEMMA ReadyKeeps ==
  ASSUME IInv, ~collided, Ready
  PROVE  IInv'
<1>1. /\ TypeOK /\ Held /\ Served /\ Asking /\ collided' = collided /\ TypeOK'
      /\ transfer' = transfer /\ task' = task
  BY TypeReady DEF IInv, Owning, Served, Ready, BaroReady, MagReady, MagAsksTemperature, HumMeasure,
                   HumRead
<1>2. ASSUME NEW c \in Contexts, pc[c] = "idle", \A h \in Above[c] : pc[h] = "idle",
             NEW r \in Requests,
             Enqueue(c, r) \/ UNCHANGED <<busVars, pc>>
      PROVE  Held' /\ Served'
  BY <1>1, <1>2, EnqueueHeld, EnqueueServed, QuietOwns
<1>3. /\ "exti" \in Contexts /\ "isr" \in Contexts
      /\ {"baro", "mag", "mag_temp", "hum_measure", "hum_read"} = Requests
      /\ \A s \in Sensors : sensor_is_busy[s] \in BOOLEAN
      /\ on \subseteq Sensors
      /\ tempToRead \in BOOLEAN
  BY <1>1 DEF Contexts, Requests, TypeOK
<1>4. CASE BaroReady
  <2>1. pc["exti"] = "idle" /\ Ask("exti", "baro") /\ Owner["baro"] \in Sensors
    BY <1>1, <1>3, <1>4, OwnerFacts DEF BaroReady, Preempt, Idle
  <2>2. Held' /\ Served'
    BY <1>2, <1>3, <2>1, AboveFacts DEF Ask
  <2>3. Asking'
    BY <1>1, <1>3, <1>4, <2>1, AskAsks DEF BaroReady
  <2> QED BY <1>1, <2>2, <2>3 DEF IInv, Owning, Served, BusReserved
<1>5. CASE MagReady
  <2>1. pc["exti"] = "idle" /\ Ask("exti", "mag") /\ Owner["mag"] \in Sensors
    BY <1>1, <1>3, <1>5, OwnerFacts DEF MagReady, Preempt, Idle
  <2>2. Held' /\ Served'
    BY <1>2, <1>3, <2>1, AboveFacts DEF Ask
  <2>3. Asking'
    BY <1>1, <1>3, <1>5, <2>1, AskAsks DEF MagReady
  <2> QED BY <1>1, <2>2, <2>3 DEF IInv, Owning, Served, BusReserved
<1>6. CASE HumMeasure
  <2>1. pc["isr"] = "idle" /\ pc["exti"] = "idle" /\ Ask("isr", "hum_measure")
        /\ Owner["hum_measure"] \in Sensors
    BY <1>1, <1>3, <1>6, OwnerFacts, AboveFacts DEF HumMeasure, Preempt, Idle
  <2>2. Held' /\ Served'
    BY <1>2, <1>3, <2>1, AboveFacts DEF Ask
  <2>3. Asking'
    BY <1>1, <1>3, <1>6, <2>1, AskAsks DEF HumMeasure
  <2> QED BY <1>1, <2>2, <2>3 DEF IInv, Owning, Served, BusReserved
<1>7. CASE MagAsksTemperature
  <2>1. pc["exti"] = "idle" /\ (Enqueue("exti", "mag_temp") \/ UNCHANGED <<busVars, pc>>)
    BY <1>7 DEF MagAsksTemperature
  <2>2. Held' /\ Served'
    BY <1>2, <1>3, <2>1, AboveFacts
  <2>3. Asking'
    BY <1>1, <1>3, <1>7, <2>1, SecondAsks, OwnerFacts DEF MagAsksTemperature
  <2> QED BY <1>1, <2>2, <2>3 DEF IInv, Owning, Served, BusReserved
<1>8. CASE HumRead
  <2>1. /\ pc["isr"] = "idle" /\ pc["exti"] = "idle"
        /\ Enqueue("isr", "hum_read") \/ UNCHANGED <<busVars, pc>>
    BY <1>8, AboveFacts DEF HumRead, Preempt, Idle
  <2>2. Held' /\ Served'
    BY <1>2, <1>3, <2>1, AboveFacts
  <2>3. Asking'
    BY <1>1, <1>3, <1>8, <2>1, SecondAsks, OwnerFacts DEF HumRead
  <2> QED BY <1>1, <2>2, <2>3 DEF IInv, Owning, Served, BusReserved
<1> QED BY <1>4, <1>5, <1>6, <1>7, <1>8 DEF Ready

LEMMA BusKeeps ==
  ASSUME IInv, ~collided, Bus
  PROVE  IInv'
<1>1. TypeOK /\ Held /\ Served /\ Asking /\ BusReserved /\ TypeOK' /\ Asking'
  BY TypeBus, BusAsks DEF IInv, Owning, Served
<1>2. CASE TransferEnds
  <2>1. ~collided'
    BY <1>2 DEF TransferEnds
  <2> QED BY <1>1, <1>2, <2>1, EndsHeld, EndsServed DEF IInv, Owning, Served, BusReserved
<1>3. ASSUME NEW c \in Contexts, BeginRead(c) PROVE IInv'
  <2>1. BusReserved'
    BY <1>1, <1>3, BeginReserved
  <2>2. ~collided' => Held' /\ Served'
    BY <1>1, <1>3, BeginHeld, BeginServed
  <2> QED BY <1>1, <2>1, <2>2 DEF IInv, Owning, Served
<1>4. ASSUME NEW c \in Contexts, Callback(c) \/ Advance(c) \/ Recheck(c) PROVE IInv'
  <2>1. ~collided'
    BY <1>4 DEF Callback, Advance, Recheck
  <2>2. Held'
    BY <1>1, <1>4, CallbackHeld, AdvanceHeld, RecheckHeld
  <2>3. Served'
    BY <1>1, <1>4, <2>1, CallbackServed, AdvanceServed, RecheckServed
  <2> QED BY <1>1, <2>1, <2>2, <2>3 DEF IInv, Owning, Served, BusReserved
<1>5. CASE \E c \in Contexts : Runs(c)
  BY <1>3, <1>4, <1>5 DEF Runs
<1> QED BY <1>2, <1>5 DEF Bus

LEMMA ModeKeeps ==
  ASSUME IInv, ~collided, Mode
  PROVE  IInv'
<1>1. TypeOK /\ Held /\ Served /\ Asking /\ TypeOK' /\ Asking'
  BY TypeMode, ModeAsks DEF IInv, Owning, Served
<1>2. ~collided'
  BY DEF Mode, StartSensors, SensorStart, BeginQueued, SensorStop, Waited, StopSensor
<1> QED BY <1>1, <1>2, ModeOwns DEF IInv, Owning, Served, BusReserved

LEMMA InvNext == IInv /\ [Next]_vars => IInv'
<1> SUFFICES ASSUME IInv, [Next]_vars PROVE IInv'
  OBVIOUS
<1>1. CASE Next
  BY <1>1, ReadyKeeps, BusKeeps, ModeKeeps DEF Next
<1>2. CASE UNCHANGED vars
  <2>1. TypeOK' /\ BusReserved'
    BY <1>2 DEF vars, busVars, driverVars, TypeOK, BusReserved, IInv
  <2>2. Owning => Owning'
    BY <1>2 DEF vars, busVars, driverVars, Owning, Held, Holder, HolderHas, BusyWorks, ModeFollows,
                NoLostWakeup, FreeWhenStopped, InUse, Working
  <2>3. Asking => Asking'
    BY <1>2 DEF vars, busVars, driverVars, Asking, BusyHasRequest, Queued, MagFollowed, BusyBehind,
                QueuedBehind, Asked
  <2> QED BY <1>2, <2>1, <2>2, <2>3 DEF IInv, vars
<1> QED BY <1>1, <1>2

(* The bus serves every request, one at a time, and nobody once it is        *)
(* stopped: for any queue and any sensors, wherever the interrupts come      *)
(* between the steps of FS_Sensor_Enqueue, BeginRead and NextHandler         *)
(* (sensor.c), and whatever transfers fail; until one is begun twice in one  *)
(* of the two windows of the code (collided).                                *)
THEOREM BusAlwaysSafe == Spec => []BusSafe
<1>1. IInv => BusSafe
  <2>1. CASE collided
    BY <2>1 DEF IInv, BusSafe, NoLostWakeup, FreeWhenStopped, Asking
  <2>2. CASE ~collided
    BY <2>2 DEF IInv, BusSafe, Owning, Asking
  <2> QED BY <2>1, <2>2
<1> QED BY <1>1, InvInit, InvNext, PTL DEF Spec

(***************************************************************************)
(* Button                                                                  *)
(***************************************************************************)
(* The pin is read by FS_Button_Init, before the timer is created, or by the *)
(* handler of the timer that was started, which busy says; what was read is  *)
(* still on the pin unless an edge came, and after the stop it is the state. *)
ButtonHandling ==
  /\ btn_sampling # "no" => btn_state = "INIT" \/ (btn_busy /\ btn_timer # "none")
  /\ btn_timer = "running" => btn_busy
  /\ btn_state = "INIT" => btn_timer = "none"
  /\ btn_sampling # "no" /\ ~btn_edge /\ ~btn_ignored => btn_sampling = btn_line
  /\ btn_sampling # "no" /\ btn_timer = "stopped" => btn_state = btn_sampling

ButtonInv == Btn!TypeOK /\ Btn!StateFollows /\ ButtonHandling

LEMMA ButtonChecks ==
  ASSUME NEW level \in Btn!Levels
  PROVE  Btn!Checks[level] \in 0..4
BY DEF Btn!Checks, Btn!Levels

LEMMA ButtonTypes ==
  ASSUME Btn!TypeOK, [Btn!Next]_(Btn!vars)
  PROVE  Btn!TypeOK'
<1>1. CASE Btn!Bounce
  BY <1>1 DEF Btn!Bounce, Btn!TypeOK
<1>2. CASE Btn!InitReads
  BY <1>2 DEF Btn!InitReads, Btn!InitialState, Btn!TypeOK
<1>3. CASE Btn!InitStores \/ Btn!InitCreates
  BY <1>3 DEF Btn!InitStores, Btn!InitCreates, Btn!TypeOK
<1>4. CASE Btn!Triggered
  <2>1. UNCHANGED <<btn_line, btn_state, btn_sampling>> /\ btn_edge' = FALSE
    BY <1>4 DEF Btn!Triggered
  <2>2. CASE btn_state = "INIT" \/ btn_busy
    <3>1. /\ UNCHANGED <<btn_count, btn_busy, btn_timer>>
          /\ btn_ignored' = (btn_ignored \/ btn_sampling # "no")
      BY <1>4, <2>2 DEF Btn!Triggered
    <3>2. btn_ignored' \in BOOLEAN
      BY <3>1, Zenon
    <3> QED BY <2>1, <3>1, <3>2 DEF Btn!TypeOK
  <2>3. CASE ~(btn_state = "INIT" \/ btn_busy)
    <3>1. /\ btn_busy' = TRUE /\ btn_count' = Btn!Checks[btn_state]
          /\ btn_timer' \in {"none", "running"} /\ btn_ignored' = (btn_timer = "none")
      BY <1>4, <2>3 DEF Btn!Triggered, Btn!FirstCount
    <3>2. btn_ignored' \in BOOLEAN
      BY <3>1, Zenon
    <3>3. btn_count' \in 0..4
      BY <2>3, <3>1, ButtonChecks DEF Btn!TypeOK
    <3> QED BY <2>1, <3>1, <3>2, <3>3 DEF Btn!TypeOK
  <2> QED BY <2>2, <2>3
<1>5. CASE Btn!Sample
  BY <1>5 DEF Btn!Sample, Btn!TypeOK
<1>6. CASE Btn!Counts
  <2>1. btn_count' \in 0..4
    <3>1. btn_count \in 0..4 /\ btn_count > 1 /\ btn_count' = btn_count - 1
      BY <1>6 DEF Btn!Counts, Btn!TypeOK
    <3> QED BY <3>1
  <2>2. btn_ignored' \in BOOLEAN
    BY <1>6 DEF Btn!Counts
  <2> QED BY <1>6, <2>1, <2>2 DEF Btn!Counts, Btn!TypeOK
<1>7. CASE Btn!Settles
  BY <1>7 DEF Btn!Settles, Btn!TypeOK
<1>8. CASE Btn!Ends
  BY <1>8 DEF Btn!Ends, Btn!TypeOK
<1>9. CASE UNCHANGED Btn!vars
  BY <1>9 DEF Btn!vars, Btn!TypeOK
<1> QED BY <1>1, <1>2, <1>3, <1>4, <1>5, <1>6, <1>7, <1>8, <1>9
  DEF Btn!Next, Btn!Starts, Btn!Handlers

LEMMA ButtonNext ==
  ASSUME ButtonInv, [Btn!Next]_(Btn!vars)
  PROVE  ButtonInv'
<1>1. Btn!TypeOK /\ Btn!TypeOK' /\ Btn!StateFollows /\ ButtonHandling
  BY ButtonTypes DEF ButtonInv
<1>2. SUFFICES Btn!StateFollows' /\ ButtonHandling'
  BY <1>1 DEF ButtonInv
<1>3. CASE Btn!Bounce
  BY <1>1, <1>3 DEF Btn!Bounce, Btn!StateFollows, ButtonHandling
<1>4. CASE Btn!InitReads
  BY <1>1, <1>4 DEF Btn!InitReads, Btn!InitialState, Btn!StateFollows, ButtonHandling,
    Btn!TypeOK, Btn!Levels
<1>5. CASE Btn!InitStores \/ Btn!InitCreates
  BY <1>1, <1>5 DEF Btn!InitStores, Btn!InitCreates, Btn!StateFollows, ButtonHandling,
    Btn!TypeOK, Btn!Levels
<1>6. CASE Btn!Triggered
  <2>1. UNCHANGED <<btn_line, btn_state, btn_sampling>> /\ btn_edge' = FALSE
    BY <1>6 DEF Btn!Triggered
  <2>2. CASE btn_state = "INIT" \/ btn_busy
    <3>1. /\ UNCHANGED <<btn_count, btn_busy, btn_timer>>
          /\ btn_ignored' = (btn_ignored \/ btn_sampling # "no")
      BY <1>6, <2>2 DEF Btn!Triggered
    <3>2. btn_sampling # "no" => btn_ignored'
      BY <3>1, Zenon
    <3> QED BY <1>1, <2>1, <2>2, <3>1, <3>2 DEF Btn!StateFollows, ButtonHandling
  <2>3. CASE ~(btn_state = "INIT" \/ btn_busy)
    <3>1. /\ btn_busy' /\ btn_timer' = IF btn_timer = "none" THEN "none" ELSE "running"
          /\ btn_sampling = "no"
      BY <1>1, <1>6, <2>3 DEF Btn!Triggered, ButtonHandling
    <3> QED BY <1>1, <2>1, <2>3, <3>1 DEF Btn!StateFollows, ButtonHandling
  <2> QED BY <2>2, <2>3
<1>7. CASE Btn!Sample
  BY <1>1, <1>7 DEF Btn!Sample, Btn!StateFollows, ButtonHandling
<1>8. CASE Btn!Counts
  BY <1>1, <1>8 DEF Btn!Counts, Btn!StateFollows, ButtonHandling
<1>9. CASE Btn!Settles
  BY <1>1, <1>9 DEF Btn!Settles, Btn!Differs, Btn!StateFollows, ButtonHandling, Btn!Levels
<1>10. CASE Btn!Ends
  BY <1>1, <1>10 DEF Btn!Ends, Btn!StateFollows, ButtonHandling
<1>11. CASE UNCHANGED Btn!vars
  BY <1>1, <1>11 DEF Btn!vars, Btn!StateFollows, ButtonHandling
<1> QED BY <1>3, <1>4, <1>5, <1>6, <1>7, <1>8, <1>9, <1>10, <1>11
  DEF Btn!Next, Btn!Starts, Btn!Handlers

(* At rest the button's state is that of its pin, however the pin bounced    *)
(* and wherever an edge came into FS_Button_Init or the timer's handler,     *)
(* unless the last edge was dropped or started no timer: it came between the *)
(* last sample and the end, between the read and the store of the first      *)
(* state, or before the timer was created (button.c:119-131).                *)
THEOREM ButtonAlwaysSafe == Btn!Spec => []ButtonSafe
<1>1. Btn!Init => ButtonInv
  <2> SUFFICES ASSUME Btn!Init PROVE ButtonInv
    OBVIOUS
  <2>1. btn_edge \in BOOLEAN /\ btn_busy \in BOOLEAN /\ btn_ignored \in BOOLEAN
    BY Zenon DEF Btn!Init
  <2>2. /\ btn_line \in Btn!Levels /\ btn_state = "INIT" /\ btn_count \in 0..4
        /\ btn_timer = "none" /\ btn_sampling = "no"
    BY DEF Btn!Init
  <2>3. Btn!TypeOK
    BY <2>1, <2>2 DEF Btn!TypeOK
  <2>4. Btn!StateFollows /\ ButtonHandling
    BY <2>2 DEF Btn!StateFollows, ButtonHandling
  <2> QED BY <2>3, <2>4 DEF ButtonInv
<1>2. ButtonInv => ButtonSafe
  BY DEF ButtonInv, ButtonSafe, Btn!ButtonSafe
<1> QED BY <1>1, <1>2, ButtonNext, PTL DEF Btn!Spec

(***************************************************************************)
(* StartControl                                                            *)
(***************************************************************************)
(* Where a task is, and what the timer may have done in it.                  *)
StartSteps ==
  /\ start_step = "idle" => ~start_ticked
  /\ start_step = "starting" => start_state = "COUNTING" /\ start_countdown >= 5
  /\ start_step = "starting" /\ ~start_ticked => start_countdown = 6
  /\ start_step = "leaving" => start_state = "INACTIVE"

(* While the timer counts the end is still to come, no earlier than the      *)
(* periods since its start allow.                                            *)
StillCounts ==
  start_state = "COUNTING" /\ start_timer =>
    /\ start_countdown >= 1
    /\ start_step = "starting" \/ start_ticks + start_countdown >= 5

(* A message is of this countdown's tone, or was under way before.           *)
MarkIsOfTone ==
  start_state = "COUNTING" /\ ~start_late /\ (start_marks > 0 \/ start_step = "marked") =>
    start_countdown = 0

StartInv ==
  /\ Start!TypeOK /\ Start!CountingEnds /\ Start!OwnToneReported
  /\ StartSteps /\ StillCounts /\ MarkIsOfTone

(* The interrupt of the timer. *)
LEMMA CountTimerStart ==
  ASSUME StartInv, Start!CountTimer
  PROVE  StartInv' /\ (start_extint' /\ ~start_extint => start_ticks' >= 5)
<1>1. /\ Start!TypeOK /\ Start!CountingEnds /\ Start!OwnToneReported
      /\ StartSteps /\ StillCounts /\ MarkIsOfTone
  BY DEF StartInv
<1>2. /\ start_countdown \in 0..6 /\ start_ticks \in 0..6 /\ start_marks \in 0..MaxMarks
      /\ MaxMarks \in Nat
  BY <1>1, MarksAssumption DEF Start!TypeOK, Start!Periods
<1>3. /\ start_timer /\ ~start_ticked /\ start_ticked' = (start_step # "idle")
      /\ start_ticks' = IF start_ticks < 6 THEN start_ticks + 1 ELSE start_ticks
      /\ UNCHANGED <<start_state, start_update, start_step, start_late>>
  BY DEF Start!CountTimer, Start!Periods
<1>4. start_ticks' \in 0..6 /\ start_ticks' >= start_ticks
      /\ (start_ticks' = start_ticks + 1 \/ start_ticks' = 6)
  BY <1>2, <1>3
<1>5. start_ticked' \in BOOLEAN /\ (start_step = "idle" => ~start_ticked')
  <2>1. (start_step # "idle") \in BOOLEAN
    OBVIOUS
  <2> QED BY <1>3, <2>1, Zenon
<1>6. CASE Start!Count
  <2>1. /\ start_state = "COUNTING" /\ start_countdown' = start_countdown - 1
        /\ start_countdown >= 1
        /\ start_step = "starting" \/ start_ticks + start_countdown >= 5
    BY <1>1, <1>3, <1>6 DEF Start!Count, StillCounts
  <2>2. start_countdown' \in 0..5
    BY <1>2, <2>1
  <2>3. /\ start_late \/ start_marks = 0
        /\ start_late \/ start_step # "marked"
    BY <1>1, <1>2, <2>1 DEF MarkIsOfTone
  <2>4. StartSteps'
    <3>1. start_step = "starting" => start_countdown' = 5
      BY <1>1, <1>3, <2>1 DEF StartSteps
    <3>2. start_step = "starting" => start_ticked'
      BY <1>3, Zenon
    <3>3. start_step # "leaving"
      BY <1>1, <2>1 DEF StartSteps
    <3> QED BY <1>3, <1>5, <2>1, <3>1, <3>2, <3>3 DEF StartSteps
  <2>5. start_step # "starting" => start_ticks' + start_countdown' >= 5
    <3> SUFFICES ASSUME start_step # "starting" PROVE start_ticks' + start_countdown' >= 5
      OBVIOUS
    <3>1. start_ticks + start_countdown >= 5
      BY <2>1
    <3>2. /\ start_ticks \in Nat /\ start_countdown \in Nat /\ start_ticks' \in Nat
          /\ start_countdown' \in Nat /\ start_countdown' = start_countdown - 1
      BY <1>2, <1>4, <2>1, <2>2
    <3>3. CASE start_ticks' = start_ticks + 1
      BY <3>1, <3>2, <3>3
    <3>4. CASE start_ticks' = 6
      BY <3>2, <3>4
    <3> QED BY <1>4, <3>3, <3>4
  <2>6. CASE start_countdown' = 0
    <3>1. /\ start_extint' = TRUE /\ start_timer' = FALSE
          /\ start_marks' = IF start_extint \/ start_marks = MaxMarks THEN start_marks
                                                                    ELSE start_marks + 1
      BY <1>6, <2>6 DEF Start!Count, Start!Over
    <3>2. start_marks' \in 0..MaxMarks
      <4>1. CASE start_extint \/ start_marks = MaxMarks
        BY <1>2, <3>1, <4>1
      <4>2. CASE ~(start_extint \/ start_marks = MaxMarks)
        BY <1>2, <3>1, <4>2
      <4> QED BY <4>1, <4>2
    <3>3. start_step # "starting"
      BY <1>1, <1>2, <2>1, <2>6 DEF StartSteps
    <3>4. Start!TypeOK'
      <4>1. start_timer' \in BOOLEAN /\ start_extint' \in BOOLEAN
        BY <3>1, Zenon
      <4>2. start_countdown' \in 0..6
        BY <2>2
      <4> QED BY <1>1, <1>3, <1>4, <1>5, <3>2, <4>1, <4>2 DEF Start!TypeOK, Start!Periods
    <3>5. Start!CountingEnds' /\ Start!OwnToneReported' /\ StillCounts' /\ MarkIsOfTone'
      BY <1>3, <2>1, <2>6, <3>1 DEF Start!CountingEnds, Start!OwnToneReported, StillCounts,
        MarkIsOfTone
    <3>6. start_ticks' >= 5
      <4>1. start_ticks' + start_countdown' >= 5 /\ start_ticks' \in Nat
        BY <1>4, <2>5, <3>3
      <4>2. \A n \in Nat : n + 0 = n
        OBVIOUS
      <4>3. start_ticks' + start_countdown' = start_ticks'
        BY <2>6, <4>1, <4>2, Zenon
      <4> QED BY <4>1, <4>3
    <3> QED BY <2>4, <3>4, <3>5, <3>6 DEF StartInv
  <2>7. CASE start_countdown' # 0
    <3>1. UNCHANGED <<start_extint, start_timer, start_marks>>
      BY <1>6, <2>7 DEF Start!Count, Start!Over
    <3>2. Start!TypeOK'
      BY <1>1, <1>3, <1>4, <1>5, <2>2, <3>1 DEF Start!TypeOK, Start!Periods
    <3>3. start_countdown' >= 1
      BY <2>2, <2>7
    <3>4. StillCounts' /\ Start!CountingEnds' /\ Start!OwnToneReported'
      BY <1>3, <2>1, <2>5, <3>1, <3>3 DEF StillCounts, Start!CountingEnds,
        Start!OwnToneReported
    <3>5. MarkIsOfTone'
      BY <1>2, <1>3, <2>3, <3>1 DEF MarkIsOfTone
    <3> QED BY <2>4, <3>1, <3>2, <3>4, <3>5 DEF StartInv
  <2> QED BY <2>6, <2>7
<1>7. CASE /\ start_state # "COUNTING"
           /\ UNCHANGED <<start_countdown, start_extint, start_timer, start_marks>>
  <2>1. Start!TypeOK'
    BY <1>1, <1>3, <1>4, <1>5, <1>7 DEF Start!TypeOK, Start!Periods
  <2>2. StartSteps'
    BY <1>1, <1>3, <1>5, <1>7 DEF StartSteps
  <2>3. StillCounts' /\ MarkIsOfTone' /\ Start!CountingEnds' /\ Start!OwnToneReported'
    BY <1>1, <1>3, <1>7 DEF StillCounts, MarkIsOfTone, Start!CountingEnds,
      Start!OwnToneReported
  <2> QED BY <1>7, <2>1, <2>2, <2>3 DEF StartInv
<1> QED BY <1>6, <1>7 DEF Start!CountTimer

(* The tasks, and the receiver. *)
LEMMA TasksStart ==
  ASSUME StartInv, [Start!Next]_(Start!vars), ~Start!CountTimer
  PROVE  StartInv' /\ (start_extint' => start_extint)
<1>1. /\ Start!TypeOK /\ Start!CountingEnds /\ Start!OwnToneReported
      /\ StartSteps /\ StillCounts /\ MarkIsOfTone
  BY DEF StartInv
<1>2. /\ start_countdown \in 0..6 /\ start_ticks \in 0..6 /\ start_marks \in 0..MaxMarks
      /\ MaxMarks \in Nat
  BY <1>1, MarksAssumption DEF Start!TypeOK, Start!Periods
<1>3. CASE Start!Enter \/ Start!Leave \/ Start!CancelCountdown \/ UNCHANGED Start!vars
  <2>1. /\ UNCHANGED <<start_countdown, start_timer, start_extint, start_update, start_ticked,
                       start_ticks, start_late>>
        /\ start_marks' \in {0, start_marks}
        /\ start_state' \in {"IDLE", "INACTIVE", start_state}
        /\ start_step' \in {"leaving", "cancelling", start_step}
        /\ start_step' = "leaving" => start_state' = "INACTIVE"
        /\ start_step' # start_step => start_step = "idle"
        /\ start_state' # start_state => start_step = "idle"
    BY <1>1, <1>3 DEF Start!Enter, Start!Leave, Start!CancelCountdown, Start!vars, StartSteps
  <2>2. Start!TypeOK'
    BY <1>1, <1>2, <2>1 DEF Start!TypeOK, Start!Periods
  <2>3. StartSteps'
    BY <1>1, <2>1 DEF StartSteps
  <2>4. Start!CountingEnds' /\ Start!OwnToneReported' /\ StillCounts' /\ MarkIsOfTone'
    BY <1>1, <1>2, <2>1 DEF Start!CountingEnds, Start!OwnToneReported, StillCounts,
      MarkIsOfTone
  <2> QED BY <2>1, <2>2, <2>3, <2>4 DEF StartInv
<1>4. CASE Start!StartCountdown
  <2>1. /\ start_step = "idle" /\ start_countdown' = 6 /\ start_state' = "COUNTING"
        /\ start_step' = "starting" /\ start_late' = (start_marks > 0)
        /\ UNCHANGED <<start_timer, start_extint, start_update, start_marks, start_ticked,
                       start_ticks>>
    BY <1>4 DEF Start!StartCountdown, Start!FirstCount, Start!Periods
  <2>2. start_late' \in BOOLEAN /\ (start_late' <=> start_marks > 0)
    <3>1. (start_marks > 0) \in BOOLEAN
      BY <1>2
    <3> QED BY <2>1, <3>1, Zenon
  <2>3. Start!TypeOK'
    BY <1>1, <2>1, <2>2 DEF Start!TypeOK, Start!Periods
  <2>4. StartSteps' /\ StillCounts' /\ Start!CountingEnds' /\ Start!OwnToneReported'
    BY <2>1 DEF StartSteps, StillCounts, Start!CountingEnds, Start!OwnToneReported
  <2>5. MarkIsOfTone'
    BY <1>2, <2>1, <2>2 DEF MarkIsOfTone
  <2> QED BY <2>1, <2>3, <2>4, <2>5 DEF StartInv
<1>5. ASSUME NEW from, NEW to \in {"idle", "cancelled"}, Start!Reach(from, to)
      PROVE  /\ start_step = from /\ start_step' = to
             /\ start_ticked' \in BOOLEAN /\ (to = "idle" => ~start_ticked')
  <2>1. start_step = from /\ start_step' = to /\ start_ticked' = (start_ticked /\ to # "idle")
    BY <1>5 DEF Start!Reach
  <2>2. start_ticked \in BOOLEAN
    BY <1>1 DEF Start!TypeOK
  <2>3. start_ticked' \in BOOLEAN /\ (to = "idle" => ~start_ticked')
    BY <2>1, <2>2, Zenon
  <2> QED BY <2>1, <2>3
<1>6. CASE Start!Left
  <2>1. /\ start_step = "leaving" /\ start_step' = "idle" /\ ~start_ticked'
        /\ start_ticked' \in BOOLEAN /\ start_timer' = FALSE /\ start_extint' = FALSE
        /\ UNCHANGED <<start_state, start_countdown, start_update, start_marks, start_ticks,
                       start_late>>
    BY <1>5, <1>6 DEF Start!Left
  <2>2. Start!TypeOK'
    BY <1>1, <2>1 DEF Start!TypeOK
  <2>3. start_state = "INACTIVE"
    BY <1>1, <2>1 DEF StartSteps
  <2> QED BY <2>1, <2>2, <2>3 DEF StartInv, StartSteps, StillCounts, MarkIsOfTone,
            Start!CountingEnds, Start!OwnToneReported
<1>7. CASE Start!StartTimer
  <2>1. /\ start_step = "starting" /\ start_step' = "idle" /\ ~start_ticked'
        /\ start_ticked' \in BOOLEAN /\ start_timer' = TRUE /\ start_ticks' = 0
        /\ UNCHANGED <<start_state, start_countdown, start_extint, start_update, start_marks,
                       start_late>>
    BY <1>5, <1>7 DEF Start!StartTimer
  <2>2. Start!TypeOK'
    BY <1>1, <2>1 DEF Start!TypeOK, Start!Periods
  <2>3. start_state = "COUNTING" /\ start_countdown >= 5
    BY <1>1, <2>1 DEF StartSteps
  <2>4. StillCounts' /\ Start!CountingEnds' /\ Start!OwnToneReported' /\ StartSteps'
    BY <1>2, <2>1, <2>3 DEF StillCounts, Start!CountingEnds, Start!OwnToneReported, StartSteps
  <2>5. MarkIsOfTone'
    BY <1>1, <1>2, <2>1, <2>3 DEF MarkIsOfTone
  <2> QED BY <2>1, <2>2, <2>4, <2>5 DEF StartInv
<1>8. CASE Start!CancelTimer
  <2>1. /\ start_step = "cancelling" /\ start_step' = "cancelled"
        /\ start_ticked' \in BOOLEAN /\ start_timer' = FALSE
        /\ UNCHANGED <<start_state, start_countdown, start_extint, start_update, start_marks,
                       start_ticks, start_late>>
    BY <1>5, <1>8 DEF Start!CancelTimer
  <2>2. Start!TypeOK'
    BY <1>1, <2>1 DEF Start!TypeOK
  <2>3. MarkIsOfTone'
    BY <1>1, <2>1 DEF MarkIsOfTone
  <2>4. StillCounts' /\ Start!CountingEnds' /\ Start!OwnToneReported' /\ StartSteps'
    BY <1>1, <2>1 DEF StillCounts, Start!CountingEnds, Start!OwnToneReported, StartSteps
  <2> QED BY <2>1, <2>2, <2>3, <2>4 DEF StartInv
<1>9. CASE Start!Cancelled
  <2>1. /\ start_step = "cancelled" /\ start_step' = "idle" /\ ~start_ticked'
        /\ start_ticked' \in BOOLEAN /\ start_state' = "IDLE"
        /\ UNCHANGED <<start_countdown, start_timer, start_extint, start_update, start_marks,
                       start_ticks, start_late>>
    BY <1>5, <1>9 DEF Start!Cancelled
  <2>2. Start!TypeOK'
    BY <1>1, <2>1 DEF Start!TypeOK
  <2> QED BY <2>1, <2>2 DEF StartInv, StartSteps, StillCounts, MarkIsOfTone,
            Start!CountingEnds, Start!OwnToneReported
<1>10. CASE Start!IntReady
  <2>1. /\ start_step = "idle" /\ start_marks > 0 /\ start_marks' = start_marks - 1
        /\ start_extint' = FALSE /\ start_step' = "marked"
        /\ UNCHANGED <<start_state, start_countdown, start_timer, start_update, start_ticked,
                       start_ticks, start_late>>
    BY <1>10 DEF Start!IntReady
  <2>2. start_marks' \in 0..MaxMarks
    BY <1>2, <2>1
  <2>3. Start!TypeOK'
    BY <1>1, <2>1, <2>2 DEF Start!TypeOK
  <2>4. MarkIsOfTone'
    BY <1>1, <2>1 DEF MarkIsOfTone
  <2>5. StillCounts' /\ Start!CountingEnds' /\ Start!OwnToneReported' /\ StartSteps'
    BY <1>1, <2>1 DEF StillCounts, Start!CountingEnds, Start!OwnToneReported, StartSteps
  <2> QED BY <2>1, <2>3, <2>4, <2>5 DEF StartInv
<1>11. CASE Start!IntCopied
  <2>1. /\ start_step = "marked" /\ start_step' = "idle" /\ ~start_ticked'
        /\ start_ticked' \in BOOLEAN
        /\ UNCHANGED <<start_countdown, start_timer, start_extint, start_marks, start_ticks,
                       start_late>>
    BY <1>5, <1>11 DEF Start!IntCopied
  <2>2. \/ start_state = "COUNTING" /\ start_state' = "UPDATE" /\ start_update' = TRUE
        \/ start_state # "COUNTING" /\ UNCHANGED <<start_state, start_update>>
    BY <1>11 DEF Start!IntCopied, Start!Expected
  <2>3. Start!TypeOK'
    BY <1>1, <2>1, <2>2 DEF Start!TypeOK
  <2>4. Start!OwnToneReported'
    BY <1>1, <2>1, <2>2 DEF Start!OwnToneReported, MarkIsOfTone
  <2>5. MarkIsOfTone' /\ StillCounts' /\ Start!CountingEnds' /\ StartSteps'
    BY <1>1, <2>1, <2>2 DEF MarkIsOfTone, StillCounts, Start!CountingEnds, StartSteps
  <2> QED BY <2>1, <2>3, <2>4, <2>5 DEF StartInv
<1>12. CASE Start!MarkLost
  <2>1. /\ start_marks > 0 /\ start_marks' = start_marks - 1
        /\ UNCHANGED <<start_state, start_countdown, start_timer, start_extint, start_update,
                       start_step, start_ticked, start_ticks, start_late>>
    BY <1>12 DEF Start!MarkLost
  <2>2. start_marks' \in 0..MaxMarks
    BY <1>2, <2>1
  <2>3. Start!TypeOK'
    BY <1>1, <2>1, <2>2 DEF Start!TypeOK
  <2>4. MarkIsOfTone'
    BY <1>1, <2>1 DEF MarkIsOfTone
  <2>5. StillCounts' /\ Start!CountingEnds' /\ Start!OwnToneReported' /\ StartSteps'
    BY <1>1, <2>1 DEF StillCounts, Start!CountingEnds, Start!OwnToneReported, StartSteps
  <2> QED BY <2>1, <2>3, <2>4, <2>5 DEF StartInv
<1>13. CASE Start!Update
  <2>1. /\ start_step = "idle" /\ start_update' = FALSE
        /\ start_state' = IF start_state = "UPDATE" THEN "IDLE" ELSE start_state
        /\ UNCHANGED <<start_countdown, start_timer, start_extint, start_step, start_marks,
                       start_ticked, start_ticks, start_late>>
    BY <1>13 DEF Start!Update
  <2>2. Start!TypeOK'
    BY <1>1, <2>1 DEF Start!TypeOK
  <2>3. MarkIsOfTone' /\ StillCounts' /\ Start!CountingEnds' /\ Start!OwnToneReported'
    BY <1>1, <2>1 DEF MarkIsOfTone, StillCounts, Start!CountingEnds, Start!OwnToneReported
  <2>4. StartSteps'
    BY <1>1, <2>1 DEF StartSteps
  <2> QED BY <2>1, <2>2, <2>3, <2>4 DEF StartInv
<1> QED BY <1>3, <1>4, <1>6, <1>7, <1>8, <1>9, <1>10, <1>11, <1>12, <1>13
  DEF Start!Next, Start!Goes

(* A countdown is on its way to an end, sounds its tone a whole countdown    *)
(* after it was started (less one period, if an earlier countdown's timer    *)
(* still ran) and, unless a message of an earlier one was under way when it  *)
(* began, reports the time of that tone, wherever the timer comes between    *)
(* the steps of the tasks (start_control.c).                                 *)
THEOREM CountdownAlwaysSafe == Start!Spec => CountdownSafe
<1>1. Start!Init => StartInv
  <2> SUFFICES ASSUME Start!Init PROVE StartInv
    OBVIOUS
  <2>1. /\ start_state = "INACTIVE" /\ start_countdown = 0 /\ start_step = "idle"
        /\ start_marks = 0 /\ start_ticks = 0
    BY DEF Start!Init
  <2>2. /\ start_timer \in BOOLEAN /\ start_extint \in BOOLEAN /\ start_update \in BOOLEAN
        /\ start_ticked \in BOOLEAN /\ ~start_ticked /\ start_late \in BOOLEAN
    BY Zenon DEF Start!Init
  <2>3. Start!TypeOK
    BY <2>1, <2>2, MarksAssumption DEF Start!TypeOK, Start!Periods
  <2> QED BY <2>1, <2>2, <2>3 DEF StartInv, StartSteps, StillCounts, MarkIsOfTone,
            Start!CountingEnds, Start!OwnToneReported
<1>2. StartInv /\ [Start!Next]_(Start!vars) =>
        StartInv' /\ (start_extint' /\ ~start_extint => start_ticks' >= Start!Periods - 1)
  BY CountTimerStart, TasksStart DEF Start!Periods
<1>3. StartInv => Start!TypeOK /\ Start!CountingEnds /\ Start!OwnToneReported
  BY DEF StartInv
<1>4. StartInv /\ [Start!Next]_(Start!vars) =>
        [start_extint' /\ ~start_extint => start_ticks' >= Start!Periods - 1]_(Start!vars)
  BY <1>2
<1> QED BY <1>1, <1>2, <1>3, <1>4, PTL DEF Start!Spec, CountdownSafe, Start!CountdownSafe,
          Start!ToneAfterCountdown

(***************************************************************************)
(* AudioPlayback                                                           *)
(***************************************************************************)
(* The update writes no further than one frame from the position that it has *)
(* read last, which the DMA has reached.                                     *)
Ahead ==
  /\ audio_readPos <= audio_sent
  /\ audio_writePos <= audio_readPos + AUDIO_FRAME_LEN

(* What is loaded and still to be sent is in its slot.                       *)
RingHolds ==
  \A p \in Nat : audio_sent <= p /\ p < audio_writePos =>
    audio_audioBuffer[Audio!Slot(p)] = [sound |-> audio_sounds, pos |-> p]

(* A sound that is sent has a frame to come.                                 *)
FrameToCome == audio_endless \/ audio_frameCount < audio_lastFrame

(* What holds of a sound that no interrupt began in the middle of a task: a  *)
(* task between its steps knows no more of the DMA than it has done.         *)
Within == audio_pc \in {"read", "ended", "found", "load", "copy"}
Clean ==
  /\ audio_pc \in Audio!Playing => Audio!Idle
  /\ Within => ~Audio!Idle
  /\ Audio!Idle => ~audio_dma \/ audio_endless
  /\ ~Audio!Idle => Ahead
  /\ ~Audio!Idle /\ audio_dma => RingHolds /\ FrameToCome
  /\ audio_pc \in {"read", "found"} => audio_readPos <= audio_local /\ audio_local <= audio_sent
  /\ audio_pc = "read" => audio_count <= audio_frameCount
  /\ audio_pc = "ended" => ~audio_dma \/ audio_endless
  /\ audio_pc = "copy" => /\ audio_writePos + audio_local <= audio_readPos + AUDIO_FRAME_LEN
                          /\ audio_local <= AUDIO_FRAME_LEN

(* The DMA has sent the frames that have ended. *)
Reached == audio_dma => audio_frameCount * AUDIO_FRAME_LEN <= audio_sent

(* The types, one by one. *)
AudioNumbers ==
  /\ audio_mode \in {"START", "ACTIVE"}
  /\ audio_audioState \in {"IDLE", "PLAY_TONE", "PLAY_FILE", "PLAY_LIST"}
  /\ audio_listLeft \in 0..2
  /\ audio_audioLen \in Nat /\ audio_frameCount \in Nat /\ audio_lastFrame \in Nat
  /\ audio_readPos \in Nat /\ audio_writePos \in Nat /\ audio_sent \in Nat
  /\ audio_audioBuffer \in [Audio!Slots -> [sound : Audio!Numbers, pos : Nat]]
  /\ audio_pc \in {"idle", "read", "ended", "found", "load", "copy",
                   "PLAY_TONE", "PLAY_FILE", "PLAY_LIST"}
  /\ audio_count \in Nat /\ audio_local \in Nat /\ audio_sounds \in Audio!Numbers
AudioFlags ==
  /\ audio_fileOpen \in BOOLEAN /\ audio_dma \in BOOLEAN /\ audio_timer \in BOOLEAN
  /\ audio_updateTask \in BOOLEAN /\ audio_wrong \in BOOLEAN /\ audio_disturbed \in BOOLEAN
  /\ audio_endless \in BOOLEAN

AudioInv ==
  /\ AudioNumbers /\ AudioFlags /\ Audio!FileHeld /\ Audio!HeardAsLoaded
  /\ Reached /\ (~audio_disturbed => Clean)

(* Division by the length of a frame. *)
LEMMA FrameDivision ==
  ASSUME NEW n \in Nat
  PROVE  /\ n \div AUDIO_FRAME_LEN \in Nat /\ n % AUDIO_FRAME_LEN \in Audio!Slots
         /\ n = AUDIO_FRAME_LEN * (n \div AUDIO_FRAME_LEN) + (n % AUDIO_FRAME_LEN)
<1>1. AUDIO_FRAME_LEN \in Nat /\ AUDIO_FRAME_LEN > 0
  BY SoundsAssumption
<1>2. n = AUDIO_FRAME_LEN * (n \div AUDIO_FRAME_LEN) + (n % AUDIO_FRAME_LEN)
  BY <1>1, SMTT(30)
<1>3. n % AUDIO_FRAME_LEN \in 0..AUDIO_FRAME_LEN - 1
  BY <1>1, SMTT(30)
<1>4. n \div AUDIO_FRAME_LEN \in Nat
  BY <1>1, SMTT(30)
<1> QED BY <1>2, <1>3, <1>4 DEF Audio!Slots

(* Positions within a frame of each other have slots of their own. *)
LEMMA SlotsDiffer ==
  ASSUME NEW i \in Nat, NEW j \in Nat, i < j, j < i + AUDIO_FRAME_LEN
  PROVE  Audio!Slot(i) # Audio!Slot(j)
<1> DEFINE a == i \div AUDIO_FRAME_LEN
           b == j \div AUDIO_FRAME_LEN
<1>1. SUFFICES ASSUME i % AUDIO_FRAME_LEN = j % AUDIO_FRAME_LEN PROVE FALSE
  BY DEF Audio!Slot
<1>2. /\ i = AUDIO_FRAME_LEN * a + (i % AUDIO_FRAME_LEN) /\ a \in Nat
      /\ j = AUDIO_FRAME_LEN * b + (j % AUDIO_FRAME_LEN) /\ b \in Nat
      /\ i % AUDIO_FRAME_LEN \in Nat
  BY FrameDivision DEF Audio!Slots
<1>3. AUDIO_FRAME_LEN \in Nat /\ AUDIO_FRAME_LEN > 0
  BY SoundsAssumption
<1> HIDE DEF a, b
<1>4. j - i = AUDIO_FRAME_LEN * (b - a)
  <2>1. j - i = AUDIO_FRAME_LEN * b - AUDIO_FRAME_LEN * a
    <3> DEFINE A == AUDIO_FRAME_LEN * a
               B == AUDIO_FRAME_LEN * b
    <3>1. A \in Int /\ B \in Int
      BY <1>2, <1>3
    <3>2. i = A + (i % AUDIO_FRAME_LEN) /\ j = B + (i % AUDIO_FRAME_LEN)
      BY <1>1, <1>2
    <3> HIDE DEF A, B
    <3>3. j - i = B - A
      BY <1>2, <3>1, <3>2
    <3> QED BY <3>3 DEF A, B
  <2>2. AUDIO_FRAME_LEN * (b - a) = AUDIO_FRAME_LEN * b - AUDIO_FRAME_LEN * a
    BY <1>2, <1>3
  <2> QED BY <2>1, <2>2
<1>5. CASE b - a <= 0
  <2>1. AUDIO_FRAME_LEN * (b - a) <= 0
    BY <1>2, <1>3, <1>5
  <2> QED BY <1>4, <2>1
<1>6. CASE b - a >= 1
  <2>1. AUDIO_FRAME_LEN * (b - a) >= AUDIO_FRAME_LEN
    BY <1>2, <1>3, <1>6
  <2> QED BY <1>3, <1>4, <2>1
<1> QED BY <1>2, <1>5, <1>6

(* The room that FS_Audio_LoadTone and _LoadFile find in the ring.           *)
LEMMA SizeFits ==
  ASSUME NEW read \in Nat, NEW write \in Nat, NEW left \in Nat
  PROVE  /\ Audio!Size(read, write, left) \in Nat
         /\ Audio!Size(read, write, left) <= AUDIO_FRAME_LEN
         /\ write <= read + AUDIO_FRAME_LEN =>
              write + Audio!Size(read, write, left) <= read + AUDIO_FRAME_LEN
<1> DEFINE room == read + AUDIO_FRAME_LEN - write
           space == Audio!Unsigned(room)
<1>1. AUDIO_FRAME_LEN \in Nat /\ room \in Int
  BY SoundsAssumption
<1> HIDE DEF room
<1>2. space \in Nat /\ (room >= 0 => space = room)
  <2>1. CASE room < 0
    <3>1. Word \in Nat /\ Word > 0
      BY SoundsAssumption
    <3>2. room % Word \in Nat
      BY <1>1, <3>1, SMTT(30)
    <3> QED BY <1>1, <2>1, <3>2 DEF Audio!Unsigned
  <2>2. CASE room >= 0
    BY <1>1, <2>2 DEF Audio!Unsigned
  <2> QED BY <1>1, <2>1, <2>2
<1>3. Audio!Size(read, write, left) =
        Audio!Lesser(AUDIO_FRAME_LEN, Audio!Lesser(space, left))
  BY DEF Audio!Size, Audio!Space, room
<1> HIDE DEF space
<1>4. /\ Audio!Size(read, write, left) \in Nat
      /\ Audio!Size(read, write, left) <= AUDIO_FRAME_LEN
      /\ Audio!Size(read, write, left) <= space
  BY <1>1, <1>2, <1>3 DEF Audio!Lesser
<1>5. write <= read + AUDIO_FRAME_LEN => room >= 0 /\ write + room = read + AUDIO_FRAME_LEN
  BY <1>1 DEF room
<1> QED BY <1>1, <1>2, <1>4, <1>5

(* What FS_Audio_LoadTone or _LoadFile brings.  It leaves what is no further *)
(* than one frame before its end.                                            *)
LEMMA AudioLoads ==
  ASSUME NEW sound \in Audio!Numbers, NEW write \in Nat, NEW left \in Nat, NEW size \in Nat,
         audio_audioBuffer \in [Audio!Slots -> [sound : Audio!Numbers, pos : Nat]],
         Audio!Load(sound, write, left, size)
  PROVE  /\ audio_audioBuffer' \in [Audio!Slots -> [sound : Audio!Numbers, pos : Nat]]
         /\ audio_writePos' = write + size /\ audio_audioLen' \in Nat
         /\ size <= AUDIO_FRAME_LEN =>
              \A p \in Nat : write <= p /\ p < write + size =>
                audio_audioBuffer'[Audio!Slot(p)] = [sound |-> sound, pos |-> p]
         /\ \A p \in Nat : p < write /\ write + size <= p + AUDIO_FRAME_LEN =>
              audio_audioBuffer'[Audio!Slot(p)] = audio_audioBuffer[Audio!Slot(p)]
<1> DEFINE fresh == write..write + size - 1
<1>1. /\ AUDIO_FRAME_LEN \in Nat /\ AUDIO_FRAME_LEN > 0 /\ Word \in Nat /\ Word > 0
  BY SoundsAssumption
<1>2. /\ audio_audioBuffer' =
           [s \in Audio!Slots |->
              IF \E p \in fresh : Audio!Slot(p) = s
              THEN [sound |-> sound, pos |-> CHOOSE p \in fresh : Audio!Slot(p) = s]
              ELSE audio_audioBuffer[s]]
      /\ audio_writePos' = write + size /\ audio_audioLen' = Audio!Unsigned(left - size)
  BY DEF Audio!Load
<1>3. audio_audioLen' \in Nat
  <2> DEFINE rest == left - size
  <2>1. rest \in Int
    OBVIOUS
  <2>2. audio_audioLen' = Audio!Unsigned(rest)
    BY <1>2
  <2> HIDE DEF rest
  <2>3. rest < 0 => rest % Word \in Nat
    BY <1>1, <2>1, SMTT(30)
  <2> QED BY <2>1, <2>2, <2>3 DEF Audio!Unsigned
<1>4. fresh \subseteq Nat
  OBVIOUS
<1>5. \A p \in Nat : Audio!Slot(p) \in Audio!Slots
  BY FrameDivision DEF Audio!Slot
<1>6. audio_audioBuffer' \in [Audio!Slots -> [sound : Audio!Numbers, pos : Nat]]
  <2>1. \A s \in Audio!Slots : (\E p \in fresh : Audio!Slot(p) = s) =>
          (CHOOSE p \in fresh : Audio!Slot(p) = s) \in Nat
    BY <1>4
  <2> HIDE DEF fresh
  <2>2. ASSUME NEW s \in Audio!Slots
        PROVE  (IF \E p \in fresh : Audio!Slot(p) = s
                THEN [sound |-> sound, pos |-> CHOOSE p \in fresh : Audio!Slot(p) = s]
                ELSE audio_audioBuffer[s]) \in [sound : Audio!Numbers, pos : Nat]
    <3>1. CASE \E p \in fresh : Audio!Slot(p) = s
      BY <2>1, <3>1
    <3>2. CASE ~ \E p \in fresh : Audio!Slot(p) = s
      BY <3>2
    <3> QED BY <3>1, <3>2
  <2> QED BY <1>2, <2>2
<1>7. ASSUME size <= AUDIO_FRAME_LEN, NEW p \in Nat, write <= p, p < write + size
      PROVE  audio_audioBuffer'[Audio!Slot(p)] = [sound |-> sound, pos |-> p]
  <2>1. p \in fresh
    BY <1>7
  <2>2. ASSUME NEW q \in fresh, Audio!Slot(q) = Audio!Slot(p) PROVE q = p
    <3>1. q \in Nat /\ q < p + AUDIO_FRAME_LEN /\ p < q + AUDIO_FRAME_LEN
      BY <1>1, <1>4, <1>7, <2>1
    <3>2. ~(q < p) /\ ~(p < q)
      BY <2>2, <3>1, SlotsDiffer
    <3> QED BY <3>1, <3>2
  <2> HIDE DEF fresh
  <2>3. (CHOOSE q \in fresh : Audio!Slot(q) = Audio!Slot(p)) = p
    BY <2>1, <2>2
  <2>4. audio_audioBuffer'[Audio!Slot(p)] =
          [sound |-> sound, pos |-> CHOOSE q \in fresh : Audio!Slot(q) = Audio!Slot(p)]
    BY <1>2, <1>5, <2>1
  <2> QED BY <2>3, <2>4
<1>8. ASSUME NEW p \in Nat, p < write, write + size <= p + AUDIO_FRAME_LEN
      PROVE  audio_audioBuffer'[Audio!Slot(p)] = audio_audioBuffer[Audio!Slot(p)]
  <2>1. ASSUME NEW q \in fresh PROVE Audio!Slot(q) # Audio!Slot(p)
    <3>1. q \in Nat /\ p < q /\ q < p + AUDIO_FRAME_LEN
      BY <1>1, <1>4, <1>8
    <3> QED BY <3>1, SlotsDiffer
  <2> HIDE DEF fresh
  <2> QED BY <1>2, <1>5, <2>1
<1> QED BY <1>2, <1>3, <1>6, <1>7, <1>8

(* The types of the module are these. *)
LEMMA AudioTypes == Audio!TypeOK <=> AudioNumbers /\ AudioFlags
<1>1. /\ {"IDLE"} \union Audio!Playing = {"IDLE", "PLAY_TONE", "PLAY_FILE", "PLAY_LIST"}
      /\ {"idle", "read", "ended", "found", "load", "copy"} \union Audio!Playing =
           {"idle", "read", "ended", "found", "load", "copy",
            "PLAY_TONE", "PLAY_FILE", "PLAY_LIST"}
  BY DEF Audio!Playing, Audio!FilesOpen
<1>2. (\A flag \in {audio_fileOpen, audio_dma, audio_timer, audio_updateTask, audio_wrong,
                    audio_disturbed, audio_endless} : flag \in BOOLEAN) <=> AudioFlags
  BY Zenon DEF AudioFlags
<1> QED BY <1>1, <1>2, Zenon DEF Audio!TypeOK, AudioNumbers

(* The invariant is that of the next state. *)
LEMMA AudioKept ==
  ASSUME AudioNumbers', AudioFlags', Audio!FileHeld', Audio!HeardAsLoaded', Reached',
         ~audio_disturbed' => Clean'
  PROVE  AudioInv'
BY DEF AudioInv

LEMMA AudioParts ==
  ASSUME AudioInv
  PROVE  /\ AudioNumbers /\ AudioFlags /\ Audio!FileHeld /\ Audio!HeardAsLoaded /\ ~audio_wrong
         /\ Reached /\ (~audio_disturbed => Clean)
BY Zenon DEF AudioInv, Audio!HeardAsLoaded

(* A sound is begun: it has a frame to send if it has a sample.  If the DMA  *)
(* refuses it, it goes on from where it is in its frame.                     *)
LEMMA AudioBegins ==
  ASSUME AudioNumbers, Reached, audio_sounds < MaxSounds, audio_endless \in BOOLEAN,
         NEW len \in Lengths, NEW refused \in BOOLEAN, refused => audio_dma,
         Audio!InitTransfer(len, refused)
  PROVE  /\ audio_audioLen' \in Nat /\ audio_frameCount' \in Nat /\ audio_lastFrame' \in Nat
         /\ audio_readPos' \in Nat /\ audio_writePos' \in Nat /\ audio_sent' \in Nat
         /\ audio_audioBuffer' \in [Audio!Slots -> [sound : Audio!Numbers, pos : Nat]]
         /\ audio_sounds' \in Audio!Numbers /\ audio_dma' = TRUE /\ audio_timer' = TRUE
         /\ audio_endless' \in BOOLEAN /\ Reached'
         /\ ~refused => Ahead' /\ RingHolds' /\ FrameToCome'
<1> DEFINE frames == (len + AUDIO_FRAME_LEN - 1) \div AUDIO_FRAME_LEN
           first == frames * AUDIO_FRAME_LEN - len
           size == Audio!Size(first, first, len)
<1>1. /\ AUDIO_FRAME_LEN \in Nat /\ AUDIO_FRAME_LEN > 0 /\ len \in Nat /\ MaxSounds \in Nat
  BY SoundsAssumption
<1>2. frames \in Nat /\ first \in Nat
  <2> DEFINE n == len + AUDIO_FRAME_LEN - 1
             r == n % AUDIO_FRAME_LEN
  <2>1. n \in Nat
    BY <1>1
  <2> HIDE DEF n
  <2>2. /\ n \div AUDIO_FRAME_LEN \in Nat /\ r \in 0..AUDIO_FRAME_LEN - 1
        /\ n = AUDIO_FRAME_LEN * (n \div AUDIO_FRAME_LEN) + r
    BY <2>1, FrameDivision DEF Audio!Slots
  <2>3. frames \in Nat
    BY <2>2 DEF n
  <2>4. n = AUDIO_FRAME_LEN * frames + r
    BY <2>2 DEF n
  <2> HIDE DEF frames, r
  <2>5. frames * AUDIO_FRAME_LEN = AUDIO_FRAME_LEN * frames /\ frames * AUDIO_FRAME_LEN \in Nat
    BY <1>1, <2>3
  <2> DEFINE f == frames * AUDIO_FRAME_LEN
  <2>6. f \in Nat /\ n = f + r
    BY <2>4, <2>5
  <2> HIDE DEF f
  <2>7. f - len \in Nat
    BY <1>1, <2>2, <2>6 DEF n
  <2> QED BY <2>3, <2>7 DEF f, frames
<1>3. /\ audio_lastFrame' = frames /\ audio_frameCount' = 0 /\ audio_readPos' = first
      /\ Audio!Load(audio_sounds + 1, first, len, size)
      /\ audio_dma' = TRUE /\ audio_timer' = TRUE
      /\ audio_sounds' = audio_sounds + 1
  BY DEF Audio!InitTransfer
<1>4. /\ refused => audio_sent' = audio_sent - audio_frameCount * AUDIO_FRAME_LEN
      /\ ~refused => audio_sent' = first
  BY DEF Audio!InitTransfer
<1>5. audio_endless' = (audio_endless \/ frames = 0)
  BY DEF Audio!InitTransfer
<1>6. size \in Nat /\ size <= AUDIO_FRAME_LEN
  BY <1>1, <1>2, SizeFits
<1> HIDE DEF frames, first, size
<1>7. audio_endless' \in BOOLEAN /\ (~audio_endless' => frames # 0)
  <2>1. (frames = 0) \in BOOLEAN
    OBVIOUS
  <2> QED BY <1>5, <2>1, Zenon
<1>8. audio_sounds' \in Audio!Numbers /\ audio_sounds + 1 \in Audio!Numbers
  BY <1>1, <1>3 DEF AudioNumbers, Audio!Numbers
<1>9. /\ audio_audioBuffer' \in [Audio!Slots -> [sound : Audio!Numbers, pos : Nat]]
      /\ audio_writePos' = first + size /\ audio_audioLen' \in Nat
      /\ \A p \in Nat : first <= p /\ p < first + size =>
           audio_audioBuffer'[Audio!Slot(p)] = [sound |-> audio_sounds + 1, pos |-> p]
  BY <1>1, <1>2, <1>3, <1>6, <1>8, AudioLoads DEF AudioNumbers
<1>10. audio_sent' \in Nat
  <2>1. CASE refused
    <3>1. audio_frameCount * AUDIO_FRAME_LEN \in Nat
      BY <1>1 DEF AudioNumbers
    <3>2. audio_frameCount * AUDIO_FRAME_LEN <= audio_sent
      BY <2>1 DEF Reached
    <3> DEFINE begun == audio_frameCount * AUDIO_FRAME_LEN
    <3> HIDE DEF begun
    <3>3. begun \in Nat /\ begun <= audio_sent /\ audio_sent' = audio_sent - begun
      BY <1>4, <2>1, <3>1, <3>2 DEF begun
    <3> QED BY <3>3 DEF AudioNumbers
  <2>2. CASE ~refused
    BY <1>2, <1>4, <2>2
  <2> QED BY <2>1, <2>2
<1>11. Reached'
  BY <1>1, <1>3, <1>10 DEF Reached
<1>12. ASSUME ~refused PROVE Ahead' /\ RingHolds' /\ FrameToCome'
  <2>1. Ahead'
    BY <1>1, <1>2, <1>3, <1>4, <1>6, <1>9, <1>12 DEF Ahead
  <2>2. RingHolds'
    BY <1>3, <1>4, <1>9, <1>12 DEF RingHolds
  <2>3. FrameToCome'
    BY <1>2, <1>3, <1>7 DEF FrameToCome
  <2> QED BY <2>1, <2>2, <2>3
<1> QED BY <1>1, <1>2, <1>3, <1>6, <1>7, <1>8, <1>9, <1>10, <1>11, <1>12

(* A sound that was begun while no task was between its steps, and that the  *)
(* DMA took, is clean.                                                       *)
LEMMA BegunClean ==
  ASSUME audio_pc' = "idle", audio_audioState' \in Audio!Playing, audio_dma' = TRUE,
         Ahead', RingHolds', FrameToCome'
  PROVE  Clean'
<1>1. audio_pc' \notin Audio!Playing /\ ~Within' /\ ~Audio!Idle'
  BY DEF Audio!Playing, Audio!FilesOpen, Within, Audio!Idle
<1> QED BY <1>1 DEF Clean

(* FS_Audio_Play and FS_Audio_Beep in an interrupt. *)
LEMMA InterruptKeeps ==
  ASSUME AudioInv, NEW state \in {"PLAY_TONE", "PLAY_FILE"}, Audio!InterruptBegins(state)
  PROVE  AudioInv'
<1>1. /\ AudioNumbers /\ AudioFlags /\ Audio!FileHeld /\ Audio!HeardAsLoaded /\ ~audio_wrong
      /\ Reached /\ (~audio_disturbed => Clean)
  BY AudioParts
<1>2. /\ audio_sounds < MaxSounds /\ ~audio_endless
      /\ UNCHANGED <<audio_mode, audio_listLeft, audio_updateTask, audio_pc, audio_count,
                     audio_local, audio_wrong>>
  BY DEF Audio!InterruptBegins, Audio!task
<1>3. Audio!HeardAsLoaded' /\ audio_wrong' \in BOOLEAN /\ audio_updateTask' \in BOOLEAN
  BY <1>1, <1>2, Zenon DEF Audio!HeardAsLoaded, AudioFlags
<1>4. ASSUME NEW len \in Lengths, Audio!InitTransfer(len, Audio!Idle /\ audio_dma),
             audio_audioState' = state, audio_fileOpen' = (state \in Audio!FilesOpen),
             audio_disturbed' = IF audio_pc = "idle"
                                THEN audio_disturbed /\ Audio!Idle /\ audio_dma ELSE TRUE
      PROVE  AudioInv'
  <2> DEFINE refused == Audio!Idle /\ audio_dma
  <2>1. refused \in BOOLEAN /\ (refused => audio_dma)
    OBVIOUS
  <2>2. Audio!InitTransfer(len, refused)
    BY <1>4
  <2>3. audio_endless \in BOOLEAN
    BY <1>1 DEF AudioFlags
  <2>4. ~audio_disturbed' => audio_pc = "idle" /\ ~refused
    <3>1. ~audio_disturbed /\ audio_dma => ~Audio!Idle
      BY <1>1, <1>2 DEF Clean
    <3>2. ~audio_disturbed' => audio_pc = "idle" /\ ~(audio_disturbed /\ Audio!Idle /\ audio_dma)
      BY <1>4, Zenon
    <3> QED BY <3>1, <3>2, Zenon
  <2>5. audio_disturbed' \in BOOLEAN
    BY <1>4, Zenon
  <2> HIDE DEF refused
  <2>6. /\ audio_audioLen' \in Nat /\ audio_frameCount' \in Nat /\ audio_lastFrame' \in Nat
        /\ audio_readPos' \in Nat /\ audio_writePos' \in Nat /\ audio_sent' \in Nat
        /\ audio_audioBuffer' \in [Audio!Slots -> [sound : Audio!Numbers, pos : Nat]]
        /\ audio_sounds' \in Audio!Numbers /\ audio_dma' = TRUE /\ audio_timer' = TRUE
        /\ audio_endless' \in BOOLEAN /\ Reached'
        /\ ~refused => Ahead' /\ RingHolds' /\ FrameToCome'
    BY <1>1, <1>2, <2>1, <2>2, <2>3, AudioBegins
  <2>7. AudioNumbers'
    BY <1>1, <1>2, <1>4, <2>6 DEF AudioNumbers
  <2>8. AudioFlags'
    <3>1. audio_fileOpen' \in BOOLEAN
      <4>1. audio_fileOpen' = (state \in Audio!FilesOpen)
        BY <1>4
      <4>2. (state \in Audio!FilesOpen) \in BOOLEAN
        OBVIOUS
      <4> QED BY <4>1, <4>2, Zenon
    <3> QED BY <1>3, <2>5, <2>6, <3>1, Zenon DEF AudioFlags
  <2>9. Audio!FileHeld'
    BY <1>4, Zenon DEF Audio!FileHeld
  <2>10. ASSUME ~audio_disturbed' PROVE Clean'
    <3>1. audio_pc' = "idle" /\ audio_audioState' \in Audio!Playing
      BY <1>2, <1>4, <2>4, <2>10 DEF Audio!Playing, Audio!FilesOpen
    <3> QED BY <2>4, <2>6, <2>10, <3>1, BegunClean
  <2> QED BY <1>3, <2>6, <2>7, <2>8, <2>9, <2>10, AudioKept
<1>5. ASSUME audio_audioState' = "IDLE", audio_fileOpen' = Audio!Closed(audio_fileOpen),
             IF Audio!Idle THEN UNCHANGED <<audio_dma, audio_timer>>
             ELSE audio_dma' = FALSE /\ audio_timer' = FALSE,
             audio_disturbed' = (audio_disturbed \/ audio_pc # "idle"),
             UNCHANGED <<Audio!stream, audio_frameCount, audio_sent, audio_audioBuffer,
                         audio_sounds, audio_endless>>
      PROVE  AudioInv'
  <2>1. UNCHANGED <<audio_audioLen, audio_lastFrame, audio_readPos, audio_writePos,
                    audio_frameCount, audio_sent, audio_audioBuffer, audio_sounds,
                    audio_endless>>
    BY <1>5 DEF Audio!stream
  <2>2. /\ audio_dma' \in BOOLEAN /\ audio_timer' \in BOOLEAN
        /\ audio_dma' => audio_dma /\ Audio!Idle
    BY <1>1, <1>5, Zenon DEF AudioFlags
  <2>3. /\ audio_disturbed' \in BOOLEAN /\ (~audio_disturbed' => audio_pc = "idle")
        /\ ~audio_disturbed' => ~audio_disturbed
    BY <1>1, <1>5, Zenon DEF AudioFlags
  <2>4. AudioNumbers'
    BY <1>1, <1>2, <1>5, <2>1 DEF AudioNumbers
  <2>5. audio_fileOpen' = FALSE
    BY <1>5, Zenon DEF Audio!Closed
  <2>6. AudioFlags'
    BY <1>1, <1>3, <2>1, <2>2, <2>3, <2>5, Zenon DEF AudioFlags
  <2>7. Audio!FileHeld'
    <3>1. (audio_audioState' \in Audio!FilesOpen) = FALSE
      BY <1>5 DEF Audio!FilesOpen
    <3> QED BY <2>5, <3>1, Zenon DEF Audio!FileHeld
  <2>8. Reached'
    BY <1>1, <2>1, <2>2 DEF Reached
  <2>9. ASSUME ~audio_disturbed' PROVE Clean'
    <3>1. audio_pc' = "idle" /\ Audio!Idle' /\ ~audio_dma'
      BY <1>1, <1>2, <1>5, <2>2, <2>3, <2>9 DEF Clean, Audio!Idle
    <3> QED BY <3>1 DEF Clean, Within, Audio!Playing, Audio!FilesOpen
  <2> QED BY <1>3, <2>4, <2>6, <2>7, <2>8, <2>9, AudioKept
<1> QED BY <1>4, <1>5, Zenon DEF Audio!InterruptBegins

(* FS_Audio_Stop stops the DMA and closes the file; so does a task that is   *)
(* about to begin a sound.                                                   *)
LEMMA StopKeeps ==
  ASSUME AudioInv, Audio!Callers
  PROVE  AudioInv'
<1>1. /\ AudioNumbers /\ AudioFlags /\ Audio!FileHeld /\ Audio!HeardAsLoaded /\ ~audio_wrong
      /\ Reached /\ (~audio_disturbed => Clean)
  BY AudioParts
<1>2. \/ Audio!FS_Audio_Stop
      \/ \E state \in Audio!Playing, files \in 0..2 : Audio!Call(state, files)
  BY DEF Audio!Callers, Audio!FS_Audio_Beep, Audio!FS_Audio_Play, Audio!FS_Audio_PlayList,
    Audio!Playing, Audio!FilesOpen
<1>3. /\ UNCHANGED <<audio_mode, audio_audioLen, audio_lastFrame, audio_readPos, audio_writePos,
                     audio_frameCount, audio_sent, audio_audioBuffer, audio_updateTask,
                     audio_count, audio_local, audio_sounds, audio_wrong, audio_endless>>
      /\ audio_disturbed' \in {FALSE, audio_disturbed}
      /\ audio_listLeft' \in {audio_listLeft} \union 0..2
      /\ audio_pc' \in {"idle"} \union Audio!Playing
  BY <1>2, Zenon DEF Audio!FS_Audio_Stop, Audio!Call, Audio!stream, Audio!task, Audio!marks
<1>4. \/ UNCHANGED <<audio_audioState, audio_fileOpen, audio_dma, audio_timer, audio_disturbed>>
         /\ Audio!Idle
      \/ Audio!Stopped
  BY <1>2, Zenon DEF Audio!FS_Audio_Stop, Audio!Call, Audio!marks
<1>5. AudioNumbers' /\ Audio!Idle'
  <2>1. audio_audioState' = "IDLE"
    BY <1>4 DEF Audio!Stopped, Audio!Idle
  <2>2. audio_pc' \in {"idle", "read", "ended", "found", "load", "copy",
                       "PLAY_TONE", "PLAY_FILE", "PLAY_LIST"}
    BY <1>3 DEF Audio!Playing, Audio!FilesOpen
  <2>3. audio_listLeft' \in 0..2
    BY <1>1, <1>3 DEF AudioNumbers
  <2> QED BY <1>1, <1>3, <2>1, <2>2, <2>3 DEF AudioNumbers, Audio!Idle
<1>6. AudioFlags'
  BY <1>1, <1>3, <1>4, Zenon DEF AudioFlags, Audio!Stopped, Audio!Closed
<1>7. Audio!FileHeld'
  <2>1. CASE UNCHANGED <<audio_audioState, audio_fileOpen>>
    BY <1>1, <2>1, Zenon DEF Audio!FileHeld
  <2>2. CASE Audio!Stopped
    <3>1. (audio_audioState' \in Audio!FilesOpen) = FALSE
      BY <2>2 DEF Audio!Stopped, Audio!FilesOpen
    <3>2. audio_fileOpen' = FALSE
      BY <2>2, Zenon DEF Audio!Stopped, Audio!Closed
    <3> QED BY <3>1, <3>2, Zenon DEF Audio!FileHeld
  <2> QED BY <1>4, <2>1, <2>2
<1>8. Audio!HeardAsLoaded'
  BY <1>1, <1>3, Zenon DEF Audio!HeardAsLoaded
<1>9. audio_dma' => audio_dma /\ Audio!Idle /\ UNCHANGED audio_disturbed
  BY <1>4, Zenon DEF Audio!Stopped
<1>10. Reached'
  BY <1>1, <1>3, <1>9 DEF Reached
<1>11. ASSUME ~audio_disturbed' PROVE Clean'
  <2>1. ~audio_dma' \/ audio_endless'
    <3>1. CASE audio_dma'
      BY <1>1, <1>3, <1>9, <1>11, <3>1 DEF Clean
    <3> QED BY <3>1
  <2>2. ~Within'
    BY <1>3 DEF Within, Audio!Playing, Audio!FilesOpen
  <2>3. audio_pc' \notin {"read", "found", "ended", "copy"}
    BY <2>2 DEF Within
  <2> QED BY <1>5, <2>1, <2>2, <2>3 DEF Clean
<1> QED BY <1>5, <1>6, <1>7, <1>8, <1>10, <1>11, AudioKept

(* A tone, a file or a list is begun by a task, or there is no such file.    *)
LEMMA TaskKeeps ==
  ASSUME AudioInv, Audio!TaskBegins
  PROVE  AudioInv'
<1>1. /\ AudioNumbers /\ AudioFlags /\ Audio!FileHeld /\ Audio!HeardAsLoaded /\ ~audio_wrong
      /\ Reached /\ (~audio_disturbed => Clean)
  BY AudioParts
<1>2. /\ audio_pc \in Audio!Playing /\ audio_pc' = "idle"
      /\ UNCHANGED <<audio_mode, audio_updateTask, audio_count, audio_local, audio_wrong>>
  BY DEF Audio!TaskBegins
<1>3. Audio!HeardAsLoaded' /\ audio_wrong' \in BOOLEAN /\ audio_updateTask' \in BOOLEAN
  BY <1>1, <1>2, Zenon DEF Audio!HeardAsLoaded, AudioFlags
<1>4. ASSUME audio_sounds < MaxSounds, ~audio_endless, audio_pc = "PLAY_LIST" => audio_listLeft > 0,
             NEW len \in Lengths, Audio!InitTransfer(len, audio_dma),
             audio_audioState' = audio_pc, audio_fileOpen' = (audio_pc \in Audio!FilesOpen),
             audio_listLeft' = IF audio_pc = "PLAY_LIST" THEN audio_listLeft - 1
                                                         ELSE audio_listLeft,
             audio_disturbed' = (audio_disturbed /\ audio_dma)
      PROVE  AudioInv'
  <2>1. audio_dma \in BOOLEAN /\ audio_endless \in BOOLEAN
    BY <1>1 DEF AudioFlags
  <2>2. ~audio_disturbed' => ~audio_dma
    <3>1. ~audio_disturbed => ~audio_dma
      BY <1>1, <1>2, <1>4 DEF Clean
    <3> QED BY <1>4, <3>1, Zenon
  <2>3. audio_disturbed' \in BOOLEAN
    BY <1>4, Zenon
  <2>4. /\ audio_audioLen' \in Nat /\ audio_frameCount' \in Nat /\ audio_lastFrame' \in Nat
        /\ audio_readPos' \in Nat /\ audio_writePos' \in Nat /\ audio_sent' \in Nat
        /\ audio_audioBuffer' \in [Audio!Slots -> [sound : Audio!Numbers, pos : Nat]]
        /\ audio_sounds' \in Audio!Numbers /\ audio_dma' = TRUE /\ audio_timer' = TRUE
        /\ audio_endless' \in BOOLEAN /\ Reached'
        /\ ~audio_dma => Ahead' /\ RingHolds' /\ FrameToCome'
    BY <1>1, <1>4, <2>1, AudioBegins
  <2>5. AudioNumbers'
    <3>1. audio_listLeft' \in 0..2
      BY <1>1, <1>4 DEF AudioNumbers
    <3>2. audio_audioState' \in {"IDLE", "PLAY_TONE", "PLAY_FILE", "PLAY_LIST"}
      BY <1>2, <1>4 DEF Audio!Playing, Audio!FilesOpen
    <3> QED BY <1>1, <1>2, <2>4, <3>1, <3>2 DEF AudioNumbers
  <2>6. AudioFlags'
    <3>1. audio_fileOpen' \in BOOLEAN
      <4>1. audio_fileOpen' = (audio_pc \in Audio!FilesOpen)
        BY <1>4
      <4>2. (audio_pc \in Audio!FilesOpen) \in BOOLEAN
        OBVIOUS
      <4> QED BY <4>1, <4>2, Zenon
    <3> QED BY <1>3, <2>3, <2>4, <3>1, Zenon DEF AudioFlags
  <2>7. Audio!FileHeld'
    BY <1>4, Zenon DEF Audio!FileHeld
  <2>8. ASSUME ~audio_disturbed' PROVE Clean'
    BY <1>2, <1>4, <2>2, <2>4, <2>8, BegunClean
  <2> QED BY <1>3, <2>4, <2>5, <2>6, <2>7, <2>8, AudioKept
<1>5. ASSUME audio_audioState' = "IDLE", audio_fileOpen' = FALSE, audio_listLeft' = 0,
             UNCHANGED <<Audio!stream, Audio!sending, audio_audioBuffer, audio_timer,
                         audio_sounds, audio_disturbed, audio_endless>>
      PROVE  AudioInv'
  <2>1. UNCHANGED <<audio_audioLen, audio_lastFrame, audio_readPos, audio_writePos,
                    audio_frameCount, audio_sent, audio_dma>>
    BY <1>5 DEF Audio!stream, Audio!sending
  <2>2. AudioNumbers'
    BY <1>1, <1>2, <1>5, <2>1 DEF AudioNumbers
  <2>3. AudioFlags'
    BY <1>1, <1>3, <1>5, <2>1, Zenon DEF AudioFlags
  <2>4. Audio!FileHeld'
    <3>1. (audio_audioState' \in Audio!FilesOpen) = FALSE
      BY <1>5 DEF Audio!FilesOpen
    <3> QED BY <1>5, <3>1, Zenon DEF Audio!FileHeld
  <2>5. Reached'
    BY <1>1, <2>1 DEF Reached
  <2>6. ASSUME ~audio_disturbed' PROVE Clean'
    <3>1. ~audio_dma' \/ audio_endless'
      BY <1>1, <1>2, <1>5, <2>1, <2>6 DEF Clean
    <3>2. audio_pc' = "idle" /\ Audio!Idle'
      BY <1>2, <1>5 DEF Audio!Idle
    <3> QED BY <3>1, <3>2 DEF Clean, Within, Audio!Playing, Audio!FilesOpen
  <2> QED BY <1>3, <2>2, <2>3, <2>4, <2>5, <2>6, AudioKept
<1> QED BY <1>4, <1>5, Zenon DEF Audio!TaskBegins

(* The DMA sends a sample.  What was loaded of it is in its slot.            *)
LEMMA AudioSends ==
  ASSUME AudioInv, Audio!DmaSends
  PROVE  AudioInv'
<1>1. /\ AudioNumbers /\ AudioFlags /\ Audio!FileHeld /\ Audio!HeardAsLoaded /\ ~audio_wrong
      /\ Reached /\ (~audio_disturbed => Clean)
  BY AudioParts
<1>2. /\ audio_dma /\ ~audio_endless /\ audio_sent' = audio_sent + 1
      /\ UNCHANGED <<audio_mode, audio_audioState, audio_listLeft, audio_fileOpen, audio_audioLen,
                     audio_lastFrame, audio_readPos, audio_writePos, audio_frameCount,
                     audio_audioBuffer, audio_dma, audio_timer, audio_updateTask, audio_pc,
                     audio_count, audio_local, audio_sounds, audio_disturbed, audio_endless>>
  BY DEF Audio!DmaSends, Audio!control, Audio!stream, Audio!sched, Audio!task
<1>3. AudioNumbers'
  BY <1>1, <1>2 DEF AudioNumbers
<1>4. ~audio_disturbed => ~Audio!Idle /\ Ahead /\ RingHolds /\ FrameToCome
  BY <1>1, <1>2 DEF Clean
<1>5. Audio!HeardAsLoaded' /\ audio_wrong' \in BOOLEAN
  <2> DEFINE lost == /\ ~audio_disturbed /\ audio_sent < audio_writePos
                     /\ audio_audioBuffer[Audio!Slot(audio_sent)] #
                          [sound |-> audio_sounds, pos |-> audio_sent]
  <2>1. audio_wrong' = (audio_wrong \/ lost)
    BY DEF Audio!DmaSends
  <2>2. ~lost
    BY <1>1, <1>4 DEF RingHolds, AudioNumbers
  <2> HIDE DEF lost
  <2> QED BY <1>1, <2>1, <2>2, Zenon DEF Audio!HeardAsLoaded
<1>6. AudioFlags'
  BY <1>1, <1>2, <1>5, Zenon DEF AudioFlags
<1>7. Audio!FileHeld'
  BY <1>1, <1>2, Zenon DEF Audio!FileHeld
<1>8. Reached'
  <2> DEFINE begun == audio_frameCount * AUDIO_FRAME_LEN
  <2>1. begun \in Nat /\ begun <= audio_sent /\ begun' = begun
    BY <1>1, <1>2, SoundsAssumption DEF AudioNumbers, Reached
  <2> HIDE DEF begun
  <2>2. begun' <= audio_sent'
    BY <1>1, <1>2, <2>1 DEF AudioNumbers
  <2> QED BY <2>2 DEF Reached, begun
<1>9. ASSUME ~audio_disturbed' PROVE Clean'
  <2>1. Clean /\ audio_sent \in Nat /\ audio_local \in Nat
    BY <1>1, <1>2, <1>9 DEF AudioNumbers
  <2>2. Ahead' /\ RingHolds' /\ FrameToCome'
    BY <1>1, <1>2, <1>4, <1>9 DEF Ahead, RingHolds, FrameToCome, AudioNumbers, Audio!Slot
  <2>3. (Within' <=> Within) /\ (Audio!Idle' <=> Audio!Idle)
    BY <1>2 DEF Within, Audio!Idle
  <2> QED BY <1>2, <2>1, <2>2, <2>3 DEF Clean
<1> QED BY <1>3, <1>5, <1>6, <1>7, <1>8, <1>9, AudioKept

(* The end of a frame, and of the last one.                                  *)
LEMMA AudioFrameEnds ==
  ASSUME AudioInv, Audio!TxCplt
  PROVE  AudioInv'
<1>1. /\ AudioNumbers /\ AudioFlags /\ Audio!FileHeld /\ Audio!HeardAsLoaded /\ ~audio_wrong
      /\ Reached /\ (~audio_disturbed => Clean)
  BY AudioParts
<1>2. /\ audio_dma /\ ~audio_endless /\ audio_frameCount' = audio_frameCount + 1
      /\ audio_sent = (audio_frameCount + 1) * AUDIO_FRAME_LEN
      /\ UNCHANGED <<audio_mode, audio_audioState, audio_listLeft, audio_fileOpen, audio_audioLen,
                     audio_lastFrame, audio_readPos, audio_writePos, audio_sent,
                     audio_audioBuffer, audio_pc, audio_count, audio_local, audio_sounds,
                     audio_wrong, audio_disturbed, audio_endless>>
  BY DEF Audio!TxCplt, Audio!FrameEnds, Audio!control, Audio!stream, Audio!task, Audio!marks
<1>3. /\ audio_dma' \in BOOLEAN /\ (audio_dma' => audio_frameCount' # audio_lastFrame)
  <2>1. audio_dma' = (audio_frameCount' # audio_lastFrame)
    BY DEF Audio!TxCplt
  <2>2. (audio_frameCount' # audio_lastFrame) \in BOOLEAN
    OBVIOUS
  <2> QED BY <2>1, <2>2, Zenon
<1>4. audio_timer' \in BOOLEAN /\ audio_updateTask' \in BOOLEAN
  <2>1. CASE audio_dma'
    BY <1>1, <2>1, Zenon DEF Audio!TxCplt, AudioFlags
  <2>2. CASE ~audio_dma'
    BY <2>2, Zenon DEF Audio!TxCplt, Audio!Wakes
  <2> QED BY <2>1, <2>2
<1>5. AudioNumbers'
  BY <1>1, <1>2 DEF AudioNumbers
<1>6. AudioFlags'
  BY <1>1, <1>2, <1>3, <1>4, Zenon DEF AudioFlags
<1>7. Audio!FileHeld' /\ Audio!HeardAsLoaded'
  BY <1>1, <1>2, Zenon DEF Audio!FileHeld, Audio!HeardAsLoaded
<1>8. Reached'
  BY <1>1, <1>2, SoundsAssumption DEF Reached, AudioNumbers
<1>9. ASSUME ~audio_disturbed' PROVE Clean'
  <2>1. Clean /\ ~Audio!Idle /\ Ahead /\ RingHolds /\ FrameToCome
    BY <1>1, <1>2, <1>9 DEF Clean
  <2>2. Ahead' /\ RingHolds'
    BY <1>2, <2>1 DEF Ahead, RingHolds, Audio!Slot
  <2>3. audio_dma' => FrameToCome'
    BY <1>1, <1>2, <1>3, <2>1 DEF FrameToCome, AudioNumbers
  <2>4. (Within' <=> Within) /\ ~Audio!Idle' /\ audio_pc' = audio_pc
    BY <1>2, <2>1 DEF Within, Audio!Idle
  <2>5. audio_pc = "read" => audio_count <= audio_frameCount'
    BY <1>1, <1>2, <2>1 DEF Clean, AudioNumbers
  <2> QED BY <1>2, <2>1, <2>2, <2>3, <2>4, <2>5 DEF Clean
<1> QED BY <1>5, <1>6, <1>7, <1>8, <1>9, AudioKept

(* The steps that move neither the DMA nor the sound: the timer, and the     *)
(* update until it copies.                                                   *)
AudioLooks ==
  \/ Audio!FS_Audio_Timer \/ Audio!UpdateReads \/ Audio!UpdateCompares \/ Audio!UpdateStores
  \/ Audio!UpdateSizes \/ UNCHANGED Audio!vars

LEMMA LookTypes ==
  ASSUME AudioNumbers, AudioFlags, AudioLooks
  PROVE  AudioNumbers' /\ AudioFlags'
         /\ UNCHANGED <<audio_audioState, audio_fileOpen, audio_frameCount, audio_lastFrame,
                        audio_dma, audio_sent, audio_audioBuffer, audio_sounds, audio_wrong,
                        audio_disturbed, audio_endless, audio_writePos>>
<1>1. UNCHANGED <<audio_mode, audio_audioState, audio_listLeft, audio_fileOpen, audio_audioLen,
                  audio_lastFrame, audio_writePos, audio_frameCount, audio_dma, audio_sent,
                  audio_audioBuffer, audio_timer, audio_sounds, audio_wrong, audio_disturbed,
                  audio_endless>>
  BY DEF AudioLooks, Audio!FS_Audio_Timer, Audio!UpdateReads, Audio!UpdateCompares,
    Audio!UpdateStores, Audio!UpdateSizes, Audio!vars, Audio!control, Audio!stream,
    Audio!sending, Audio!sched, Audio!marks
<1>2. audio_updateTask' \in {TRUE, FALSE, audio_updateTask}
  BY DEF AudioLooks, Audio!FS_Audio_Timer, Audio!UpdateReads, Audio!UpdateCompares,
    Audio!UpdateStores, Audio!UpdateSizes, Audio!vars, Audio!sched
<1>3. AudioFlags'
  BY <1>1, <1>2, Zenon DEF AudioFlags
<1>4. /\ audio_pc' \in {audio_pc, "read", "ended", "found", "load", "idle", "copy"}
      /\ audio_readPos' \in {audio_readPos, audio_local}
      /\ audio_count' \in {audio_count, audio_frameCount, 0}
      /\ audio_local' \in {audio_local, audio_sent, 0,
                           Audio!Size(audio_readPos, audio_writePos, audio_audioLen)}
  BY DEF AudioLooks, Audio!FS_Audio_Timer, Audio!UpdateReads, Audio!UpdateCompares,
    Audio!UpdateStores, Audio!UpdateSizes, Audio!Goto, Audio!vars, Audio!stream, Audio!task
<1>5. Audio!Size(audio_readPos, audio_writePos, audio_audioLen) \in Nat
  BY SizeFits DEF AudioNumbers
<1>6. AudioNumbers'
  BY <1>1, <1>4, <1>5 DEF AudioNumbers
<1> QED BY <1>1, <1>3, <1>6

LEMMA AudioLooksKeep ==
  ASSUME AudioInv, AudioLooks
  PROVE  AudioInv'
<1>1. /\ AudioNumbers /\ AudioFlags /\ Audio!FileHeld /\ Audio!HeardAsLoaded /\ ~audio_wrong
      /\ Reached /\ (~audio_disturbed => Clean)
  BY AudioParts
<1>2. AudioNumbers' /\ AudioFlags'
         /\ UNCHANGED <<audio_audioState, audio_fileOpen, audio_frameCount, audio_lastFrame,
                        audio_dma, audio_sent, audio_audioBuffer, audio_sounds, audio_wrong,
                        audio_disturbed, audio_endless, audio_writePos>>
  BY <1>1, LookTypes
<1>3. Audio!FileHeld' /\ Audio!HeardAsLoaded'
  BY <1>1, <1>2, Zenon DEF Audio!FileHeld, Audio!HeardAsLoaded
<1>4. Reached'
  BY <1>1, <1>2 DEF Reached
<1>5. ASSUME ~audio_disturbed' PROVE Clean'
  <2>1. /\ Clean /\ (Audio!Idle' <=> Audio!Idle) /\ (RingHolds => RingHolds')
        /\ FrameToCome => FrameToCome'
    BY <1>1, <1>2, <1>5 DEF Audio!Idle, RingHolds, Audio!Slot, FrameToCome
  <2>2. /\ AUDIO_FRAME_LEN \in Nat /\ audio_readPos \in Nat /\ audio_writePos \in Nat
        /\ audio_sent \in Nat /\ audio_local \in Nat /\ audio_count \in Nat
        /\ audio_frameCount \in Nat /\ audio_lastFrame \in Nat /\ audio_audioLen \in Nat
    BY <1>1, SoundsAssumption DEF AudioNumbers
  <2>3. CASE Audio!FS_Audio_Timer \/ UNCHANGED Audio!vars
    <3>1. UNCHANGED <<audio_readPos, audio_pc, audio_count, audio_local>>
      BY <2>3 DEF Audio!FS_Audio_Timer, Audio!vars, Audio!stream, Audio!task
    <3> QED BY <1>2, <2>1, <3>1 DEF Clean, Within, Ahead
  <2>4. CASE Audio!UpdateReads
    <3>1. /\ UNCHANGED audio_readPos
          /\ \/ UNCHANGED <<audio_pc, audio_count, audio_local>>
             \/ /\ audio_pc' = "read" /\ audio_count' = audio_frameCount
                /\ audio_local' = audio_sent /\ ~Audio!Idle
      BY <2>4 DEF Audio!UpdateReads, Audio!stream, Audio!task
    <3>2. ~Audio!Idle => audio_readPos <= audio_sent
      BY <2>1 DEF Clean, Ahead
    <3> QED BY <1>2, <2>1, <2>2, <3>1, <3>2
      DEF Clean, Within, Ahead, Audio!Playing, Audio!FilesOpen
  <2>5. CASE Audio!UpdateCompares
    <3>1. /\ UNCHANGED <<audio_readPos, audio_local>> /\ audio_pc = "read"
          /\ \/ audio_pc' = "ended" /\ audio_count = audio_lastFrame
             \/ audio_pc' = "found"
      BY <2>5 DEF Audio!UpdateCompares, Audio!Goto, Audio!Played, Audio!stream
    <3>2. ~Audio!Idle /\ audio_count <= audio_frameCount
      BY <2>1, <3>1 DEF Clean, Within
    <3>3. audio_pc' = "ended" => ~audio_dma \/ audio_endless
      BY <2>1, <2>2, <3>1, <3>2 DEF Clean, FrameToCome
    <3> QED BY <1>2, <2>1, <3>1, <3>2, <3>3
      DEF Clean, Within, Ahead, Audio!Playing, Audio!FilesOpen
  <2>6. CASE Audio!UpdateStores
    <3>1. /\ audio_readPos' = audio_local /\ audio_pc = "found" /\ audio_pc' = "load"
      BY <2>6 DEF Audio!UpdateStores, Audio!Goto
    <3>2. /\ ~Audio!Idle /\ audio_readPos <= audio_local /\ audio_local <= audio_sent
          /\ audio_writePos <= audio_readPos + AUDIO_FRAME_LEN
      BY <2>1, <3>1 DEF Clean, Within, Ahead
    <3>3. Ahead'
      BY <1>2, <2>2, <3>1, <3>2 DEF Ahead
    <3> QED BY <1>2, <2>1, <3>1, <3>2, <3>3
      DEF Clean, Within, Audio!Playing, Audio!FilesOpen
  <2>7. CASE Audio!UpdateSizes
    <3>1. audio_pc = "load" /\ UNCHANGED audio_readPos
      BY <2>7 DEF Audio!UpdateSizes, Audio!Goto, Audio!stream
    <3>2. ~Audio!Idle /\ Ahead
      BY <2>1, <3>1 DEF Clean, Within
    <3>3. /\ audio_pc' = "copy"
          /\ audio_local' = Audio!Size(audio_readPos, audio_writePos, audio_audioLen)
      BY <2>7, <3>2 DEF Audio!UpdateSizes, Audio!Goto
    <3>4. /\ audio_writePos + audio_local' <= audio_readPos + AUDIO_FRAME_LEN
          /\ audio_local' <= AUDIO_FRAME_LEN
      BY <2>2, <3>2, <3>3, SizeFits DEF Ahead
    <3> QED BY <1>2, <2>1, <3>1, <3>2, <3>3, <3>4
      DEF Clean, Within, Ahead, Audio!Playing, Audio!FilesOpen
  <2> QED BY <2>3, <2>4, <2>5, <2>6, <2>7 DEF AudioLooks
<1> QED BY <1>2, <1>3, <1>4, <1>5, AudioKept

(* The update copies up to one frame behind the position it has read, while  *)
(* the DMA may have gone on since.                                           *)
LEMMA AudioCopies ==
  ASSUME AudioInv, Audio!UpdateCopies
  PROVE  AudioInv'
<1>1. /\ AudioNumbers /\ AudioFlags /\ Audio!FileHeld /\ Audio!HeardAsLoaded /\ ~audio_wrong
      /\ Reached /\ (~audio_disturbed => Clean)
  BY AudioParts
<1>2. /\ audio_pc = "copy" /\ audio_pc' = "idle" /\ audio_local' = 0
      /\ Audio!Load(audio_sounds, audio_writePos, audio_audioLen, audio_local)
      /\ UNCHANGED <<audio_mode, audio_audioState, audio_listLeft, audio_fileOpen,
                     audio_lastFrame, audio_readPos, audio_frameCount, audio_dma, audio_sent,
                     audio_timer, audio_updateTask, audio_count, audio_sounds, audio_wrong,
                     audio_disturbed, audio_endless>>
  BY DEF Audio!UpdateCopies, Audio!Goto, Audio!control, Audio!sending, Audio!sched, Audio!marks
<1>3. /\ audio_sounds \in Audio!Numbers /\ audio_readPos \in Nat /\ audio_writePos \in Nat
      /\ audio_audioLen \in Nat /\ audio_sent \in Nat /\ audio_local \in Nat
      /\ audio_audioBuffer \in [Audio!Slots -> [sound : Audio!Numbers, pos : Nat]]
      /\ AUDIO_FRAME_LEN \in Nat
  BY <1>1, SoundsAssumption DEF AudioNumbers
<1>4. /\ audio_audioBuffer' \in [Audio!Slots -> [sound : Audio!Numbers, pos : Nat]]
      /\ audio_writePos' = audio_writePos + audio_local /\ audio_audioLen' \in Nat
      /\ audio_local <= AUDIO_FRAME_LEN =>
           \A p \in Nat : audio_writePos <= p /\ p < audio_writePos + audio_local =>
             audio_audioBuffer'[Audio!Slot(p)] = [sound |-> audio_sounds, pos |-> p]
      /\ \A p \in Nat :
           p < audio_writePos /\ audio_writePos + audio_local <= p + AUDIO_FRAME_LEN =>
             audio_audioBuffer'[Audio!Slot(p)] = audio_audioBuffer[Audio!Slot(p)]
  BY <1>2, <1>3, AudioLoads
<1>5. AudioNumbers'
  BY <1>1, <1>2, <1>3, <1>4 DEF AudioNumbers
<1>6. AudioFlags' /\ Audio!FileHeld' /\ Audio!HeardAsLoaded'
  BY <1>1, <1>2, Zenon DEF AudioFlags, Audio!FileHeld, Audio!HeardAsLoaded
<1>7. Reached'
  BY <1>1, <1>2 DEF Reached
<1>8. ASSUME ~audio_disturbed' PROVE Clean'
  <2>1. /\ Clean /\ ~Audio!Idle /\ ~Audio!Idle' /\ Ahead
        /\ audio_writePos + audio_local <= audio_readPos + AUDIO_FRAME_LEN
        /\ audio_local <= AUDIO_FRAME_LEN
    BY <1>1, <1>2, <1>8 DEF Clean, Within, Audio!Idle
  <2>2. Ahead'
    BY <1>2, <1>3, <1>4, <2>1 DEF Ahead
  <2>3. ASSUME audio_dma PROVE RingHolds'
    <3> SUFFICES ASSUME NEW p \in Nat, audio_sent <= p, p < audio_writePos'
                 PROVE  audio_audioBuffer'[Audio!Slot(p)] = [sound |-> audio_sounds, pos |-> p]
      BY <1>2 DEF RingHolds, Audio!Slot
    <3>1. CASE audio_writePos <= p
      BY <1>4, <2>1, <3>1
    <3>2. CASE p < audio_writePos
      <4>1. audio_audioBuffer[Audio!Slot(p)] = [sound |-> audio_sounds, pos |-> p]
        BY <2>1, <2>3, <3>2 DEF Clean, RingHolds
      <4>2. audio_writePos + audio_local <= p + AUDIO_FRAME_LEN
        BY <1>3, <2>1 DEF Ahead
      <4> QED BY <1>4, <3>2, <4>1, <4>2
    <3> QED BY <1>3, <3>1, <3>2
  <2>4. audio_dma => FrameToCome'
    BY <1>2, <2>1 DEF Clean, FrameToCome
  <2>5. audio_pc' = "idle" /\ (audio_dma' <=> audio_dma)
    BY <1>2
  <2> QED BY <2>1, <2>2, <2>3, <2>4, <2>5 DEF Clean, Within, Audio!Playing, Audio!FilesOpen
<1> QED BY <1>5, <1>6, <1>7, <1>8, AudioKept

(* A sound that counts as over has sent its last frame. *)
LEMMA AudioEnds ==
  ASSUME AudioInv, Audio!UpdateEnds
  PROVE  AudioInv'
<1>1. /\ AudioNumbers /\ AudioFlags /\ Audio!FileHeld /\ Audio!HeardAsLoaded /\ ~audio_wrong
      /\ Reached /\ (~audio_disturbed => Clean)
  BY AudioParts
<1>2. /\ audio_pc = "ended" /\ audio_pc' \in {"PLAY_LIST", "idle"}
      /\ audio_audioState' = "IDLE" /\ audio_fileOpen' = FALSE /\ audio_local' = 0
      /\ UNCHANGED <<audio_mode, audio_listLeft, audio_audioLen, audio_lastFrame, audio_readPos,
                     audio_writePos, audio_frameCount, audio_dma, audio_sent, audio_audioBuffer,
                     audio_timer, audio_updateTask, audio_count, audio_sounds, audio_wrong,
                     audio_disturbed, audio_endless>>
  BY DEF Audio!UpdateEnds, Audio!Goto, Audio!stream, Audio!sending, Audio!sched, Audio!marks
<1>3. AudioNumbers'
  BY <1>1, <1>2 DEF AudioNumbers
<1>4. AudioFlags' /\ Audio!HeardAsLoaded'
  BY <1>1, <1>2, Zenon DEF AudioFlags, Audio!HeardAsLoaded
<1>5. Audio!FileHeld'
  <2>1. (audio_audioState' \in Audio!FilesOpen) = FALSE
    BY <1>2 DEF Audio!FilesOpen
  <2> QED BY <1>2, <2>1, Zenon DEF Audio!FileHeld
<1>6. Reached'
  BY <1>1, <1>2 DEF Reached
<1>7. ASSUME ~audio_disturbed' PROVE Clean'
  <2>1. ~audio_dma' \/ audio_endless'
    BY <1>1, <1>2, <1>7 DEF Clean
  <2>2. Audio!Idle' /\ ~Within' /\ audio_pc' \notin {"read", "found", "ended", "copy"}
    BY <1>2 DEF Audio!Idle, Within
  <2> QED BY <2>1, <2>2 DEF Clean
<1> QED BY <1>3, <1>4, <1>5, <1>6, <1>7, AudioKept

(* Every sample that was loaded in time is sent as it was loaded and a sound *)
(* that counts as over has stopped the DMA, except of a sound that an        *)
(* interrupt began between two steps of a task (disturbed); and a file is    *)
(* open exactly while one plays, disturbed or not (audio.c:368-412, 431-676),*)
(* for every length of the frame and of the sounds.                          *)
THEOREM PlaybackAlwaysSafe == Audio!Spec => []PlaybackSafe
<1>1. Audio!Init => AudioInv
  <2> SUFFICES ASSUME Audio!Init PROVE AudioInv
    OBVIOUS
  <2>1. /\ audio_mode \in {"START", "ACTIVE"} /\ audio_pc = "idle"
        /\ audio_audioState = "IDLE" /\ audio_listLeft = 0 /\ audio_audioLen = 0
        /\ audio_frameCount = 0 /\ audio_lastFrame = 0 /\ audio_readPos = 0
        /\ audio_writePos = 0 /\ audio_sent = 0 /\ audio_sounds = 0
        /\ audio_count = 0 /\ audio_local = 0
        /\ audio_audioBuffer = [s \in Audio!Slots |-> [sound |-> 0, pos |-> s]]
    BY DEF Audio!Init
  <2>2. /\ ~audio_fileOpen /\ ~audio_dma /\ ~audio_wrong /\ AudioFlags
        /\ audio_fileOpen = FALSE
    BY Zenon DEF Audio!Init, AudioFlags
  <2>3. AUDIO_FRAME_LEN \in Nat /\ 0 \in Audio!Numbers
    BY SoundsAssumption DEF Audio!Numbers
  <2>4. \A s \in Audio!Slots : s \in Nat
    BY <2>3 DEF Audio!Slots
  <2>5. audio_audioBuffer \in [Audio!Slots -> [sound : Audio!Numbers, pos : Nat]]
    BY <2>1, <2>3, <2>4
  <2>6. AudioNumbers
    BY <2>1, <2>3, <2>5 DEF AudioNumbers
  <2>7. Audio!FileHeld
    <3>1. (audio_audioState \in Audio!FilesOpen) = FALSE
      BY <2>1 DEF Audio!FilesOpen
    <3> QED BY <2>2, <3>1, Zenon DEF Audio!FileHeld
  <2>8. Audio!HeardAsLoaded /\ Reached
    BY <2>2, Zenon DEF Audio!HeardAsLoaded, Reached
  <2>9. Clean
    BY <2>1, <2>2 DEF Clean, Audio!Idle, Within, Audio!Playing, Audio!FilesOpen
  <2> QED BY <2>2, <2>6, <2>7, <2>8, <2>9 DEF AudioInv
<1>2. AudioInv /\ [Audio!Next]_(Audio!vars) => AudioInv'
  <2> SUFFICES ASSUME AudioInv, [Audio!Next]_(Audio!vars) PROVE AudioInv'
    OBVIOUS
  <2>1. CASE Audio!Interrupts
    <3>1. CASE Audio!Countdown \/ Audio!Tone
      BY <3>1, InterruptKeeps DEF Audio!Countdown, Audio!Tone
    <3>2. CASE Audio!FS_Audio_Timer
      BY <3>2, AudioLooksKeep DEF AudioLooks
    <3> QED BY <2>1, <3>1, <3>2, AudioSends, AudioFrameEnds DEF Audio!Interrupts
  <2>2. CASE Audio!Update
    BY <2>2, AudioLooksKeep, AudioCopies, AudioEnds DEF Audio!Update, AudioLooks
  <2>3. CASE UNCHANGED Audio!vars
    BY <2>3, AudioLooksKeep DEF AudioLooks
  <2> QED BY <2>1, <2>2, <2>3, StopKeeps, TaskKeeps DEF Audio!Next
<1>3. AudioInv => PlaybackSafe
  <2> SUFFICES ASSUME AudioInv PROVE PlaybackSafe
    OBVIOUS
  <2>1. Audio!TypeOK /\ Audio!HeardAsLoaded /\ Audio!FileHeld
    BY AudioParts, AudioTypes
  <2>2. Audio!IdleIsSilent
    BY AudioParts DEF Audio!IdleIsSilent, Clean
  <2> QED BY <2>1, <2>2 DEF PlaybackSafe, Audio!PlaybackSafe
<1> QED BY <1>1, <1>2, <1>3, PTL DEF Audio!Spec

(***************************************************************************)
(* ImuReader                                                               *)
(***************************************************************************)
Underway(c) == imu_pc[c] \in {"start", "failed"}
Recovering == \E c \in Imu!Contexts : Imu!Recovers(c)
Waits == imu_imuState = "ACTIVE" /\ imu_task = "running" /\ ~imu_failed /\ Imu!Pin

ImuPlaces ==
  /\ imu_imuState \in {"READY", "ACTIVE"} /\ imu_dma \in {"none", "reading", "cleared"}
  /\ imu_task \in {"ready", "cleared", "route", "rate", "configure", "handle", "read",
                   "running", "masked", "waiting", "reset", "clear"}
  /\ imu_pc \in [Imu!Contexts -> {"idle", "read", "start", "failed", "unroute", "clear",
                                  "route", "kick", "enable", "log"}]
  /\ imu_pc["isr"] \notin {"read", "start", "failed"} /\ imu_pc["task"] # "read"
ImuFlags ==
  /\ imu_busy \in BOOLEAN /\ imu_handleRead \in BOOLEAN /\ imu_enableLoggingCb \in BOOLEAN
  /\ imu_overrunPending \in BOOLEAN /\ imu_drdy \in BOOLEAN /\ imu_routed \in BOOLEAN
  /\ imu_sampling \in BOOLEAN /\ imu_extiOn \in BOOLEAN /\ imu_extiFlag \in BOOLEAN
  /\ imu_shouldLog \in BOOLEAN /\ imu_failed \in BOOLEAN /\ imu_asked \in BOOLEAN
  /\ imu_due \in BOOLEAN /\ imu_misled \in BOOLEAN

(* A busy driver has one transfer, under way or about to be.                 *)
OneTransfer ==
  /\ imu_busy <=> imu_dma # "none" \/ Underway("exti") \/ Underway("task")
  /\ imu_dma # "none" => ~Underway("exti") /\ ~Underway("task")
  /\ ~(Underway("exti") /\ Underway("task"))

(* The recovery has the sensor to itself: nothing is under way, the          *)
(* interrupt is masked, and what could interrupt the recovery is not there.  *)
RecoversAlone ==
  /\ Recovering => ~imu_busy /\ ~imu_extiOn
  /\ Imu!Recovers("exti") => imu_pc["isr"] = "idle"
  /\ Imu!Recovers("task") => imu_pc["isr"] = "idle" /\ imu_pc["exti"] = "idle"

(* The mode and handleRead are those of the step of the task. *)
ReadsHandled ==
  /\ imu_imuState = "ACTIVE" => imu_task \in {"handle", "read", "running", "masked",
                                              "waiting", "reset", "clear"}
  /\ imu_task \in {"handle", "read"} => imu_imuState = "ACTIVE"
  /\ imu_handleRead =>
       imu_imuState = "ACTIVE" /\ imu_task \in {"read", "running", "masked"}
  /\ imu_imuState = "ACTIVE" /\ imu_task \in {"read", "running"} => imu_handleRead

(* Before the first read and once FS_IMU_Stop has waited nothing happens but *)
(* that an edge is taken and dismissed.                                      *)
QuietAround ==
  imu_task \notin {"read", "running", "masked", "waiting"} \/ imu_imuState = "READY" =>
    /\ ~imu_busy /\ imu_pc["task"] = "idle" /\ imu_pc["isr"] = "idle"
    /\ imu_pc["exti"] \in {"idle", "read"}

(* The interrupt is unmasked while samples are expected, or about to be.     *)
Unmasked ==
  \/ imu_task \in {"route", "rate", "configure"}
  \/ imu_imuState = "ACTIVE" /\ imu_task \in {"handle", "read", "running"}
  => imu_extiOn \/ Recovering \/ \E c \in Imu!Contexts : imu_pc[c] = "enable"

(* The driver knows of each transfer whether its interrupt asked for it.     *)
RowKnown ==
  /\ imu_shouldLog <=> imu_due
  /\ imu_pc["exti"] = "start" => imu_enableLoggingCb
  /\ imu_pc["task"] = "start" => ~imu_enableLoggingCb
  /\ imu_dma # "none" \/ (\E c \in Imu!Contexts : imu_pc[c] = "failed") =>
       (imu_enableLoggingCb <=> imu_asked)
FailureKnown == (\E c \in Imu!Contexts : imu_pc[c] = "failed") => imu_failed

ImuBus == OneTransfer /\ RecoversAlone /\ ReadsHandled /\ QuietAround /\ Imu!SpiExclusive
ImuEdges == (Waits => Imu!ReadComes) /\ Unmasked /\ FailureKnown
ImuRows == RowKnown /\ ~imu_misled

ImuInv == ImuPlaces /\ ImuFlags /\ ImuBus /\ ImuEdges /\ ImuRows

(* What the driver promises follows. *)
LEMMA ImuSafe == ImuInv => ReaderSafe
<1> SUFFICES ASSUME ImuInv PROVE ReaderSafe
  OBVIOUS
<1>1. \A flag \in {imu_busy, imu_handleRead, imu_enableLoggingCb, imu_overrunPending,
                   imu_drdy, imu_routed, imu_sampling, imu_extiOn, imu_extiFlag,
                   imu_shouldLog, imu_failed, imu_asked, imu_due, imu_misled} :
        flag \in BOOLEAN
  BY Zenon DEF ImuInv, ImuFlags
<1>2. Imu!TypeOK
  BY <1>1, Zenon DEF ImuInv, ImuPlaces, Imu!TypeOK
<1>3. Imu!NeverStuck
  BY DEF ImuInv, ImuEdges, Waits, Imu!NeverStuck
<1> QED BY <1>2, <1>3 DEF ImuInv, ImuBus, ImuRows, ReaderSafe, Imu!ReaderSafe,
          Imu!LoggedAsRequested

(* A context goes to its next step. *)
LEMMA ImuGoes ==
  ASSUME imu_pc \in [Imu!Contexts -> {"idle", "read", "start", "failed", "unroute", "clear",
                                      "route", "kick", "enable", "log"}],
         NEW c \in Imu!Contexts,
         NEW step \in {"idle", "read", "start", "failed", "unroute", "clear", "route",
                       "kick", "enable", "log"},
         Imu!Goto(c, step)
  PROVE  /\ imu_pc' \in [Imu!Contexts -> {"idle", "read", "start", "failed", "unroute",
                                          "clear", "route", "kick", "enable", "log"}]
         /\ imu_pc'[c] = step /\ \A d \in Imu!Contexts \ {c} : imu_pc'[d] = imu_pc[d]
BY DEF Imu!Goto

(* An edge of INT1 is kept. *)
LEMMA ImuEdge ==
  ASSUME NEW rises \in BOOLEAN, ImuFlags, Imu!Edge(rises)
  PROVE  /\ imu_extiFlag' \in BOOLEAN
         /\ imu_extiFlag' <=> imu_extiFlag \/ (~Imu!Pin /\ rises)
<1>1. (imu_extiFlag \/ (~Imu!Pin /\ rises)) \in BOOLEAN
  OBVIOUS
<1> QED BY <1>1, Zenon DEF Imu!Edge

(* The sensor, while no code runs. *)
LEMMA ImuHardware ==
  ASSUME ImuInv, Imu!Hardware
  PROVE  ImuInv'
<1>1. ImuPlaces /\ ImuFlags /\ ImuBus /\ ImuEdges /\ ImuRows
  BY DEF ImuInv
<1>2. CASE Imu!Sample
  <2>1. /\ imu_drdy' = TRUE /\ Imu!Edge(imu_routed)
        /\ UNCHANGED <<imu_imuState, imu_busy, imu_handleRead, imu_enableLoggingCb,
                       imu_overrunPending, imu_routed, imu_sampling, imu_extiOn, imu_dma,
                       imu_pc, imu_task, imu_shouldLog, imu_failed, imu_asked, imu_due,
                       imu_misled>>
    BY <1>2 DEF Imu!Sample, Imu!driver, Imu!rows
  <2>2. /\ imu_extiFlag' \in BOOLEAN
        /\ imu_extiFlag' <=> imu_extiFlag \/ (~Imu!Pin /\ imu_routed)
    <3>1. imu_routed \in BOOLEAN
      BY <1>1 DEF ImuFlags
    <3> QED BY <1>1, <2>1, <3>1, ImuEdge
  <2>3. ImuPlaces'
    BY <1>1, <2>1 DEF ImuPlaces
  <2>4. ImuFlags'
    <3>1. imu_drdy' \in BOOLEAN
      BY <2>1, Zenon
    <3> QED BY <1>1, <2>1, <2>2, <3>1 DEF ImuFlags
  <2>5. ImuBus'
    BY <1>1, <2>1 DEF ImuBus, OneTransfer, RecoversAlone, ReadsHandled, QuietAround,
      Imu!SpiExclusive, Underway, Recovering, Imu!Recovers
  <2>6. ImuEdges'
    BY <1>1, <2>1, <2>2 DEF ImuEdges, Waits, Imu!Pin, Imu!ReadComes, Unmasked, FailureKnown,
      Recovering, Imu!Recovers
  <2>7. ImuRows'
    BY <1>1, <2>1 DEF ImuRows, RowKnown
  <2> QED BY <2>3, <2>4, <2>5, <2>6, <2>7 DEF ImuInv
<1>3. CASE Imu!TransferReads
  <2>1. /\ imu_dma = "reading" /\ imu_dma' = "cleared" /\ imu_drdy' = FALSE
        /\ UNCHANGED <<imu_imuState, imu_busy, imu_handleRead, imu_enableLoggingCb,
                       imu_overrunPending, imu_routed, imu_sampling, imu_extiOn,
                       imu_extiFlag, imu_pc, imu_task, imu_shouldLog, imu_failed, imu_asked,
                       imu_due, imu_misled>>
    BY <1>3 DEF Imu!TransferReads, Imu!driver, Imu!exti, Imu!rows
  <2>2. ImuPlaces'
    BY <1>1, <2>1 DEF ImuPlaces
  <2>3. ImuFlags'
    <3>1. imu_drdy' \in BOOLEAN
      BY <2>1, Zenon
    <3> QED BY <1>1, <2>1, <3>1 DEF ImuFlags
  <2>4. ImuBus'
    BY <1>1, <2>1 DEF ImuBus, OneTransfer, RecoversAlone, ReadsHandled, QuietAround,
      Imu!SpiExclusive, Underway, Recovering, Imu!Recovers
  <2>5. ImuEdges'
    BY <1>1, <2>1 DEF ImuEdges, Waits, Imu!Pin, Unmasked, FailureKnown, Recovering,
      Imu!Recovers
  <2>6. ImuRows'
    BY <1>1, <2>1 DEF ImuRows, RowKnown
  <2> QED BY <2>2, <2>3, <2>4, <2>5, <2>6 DEF ImuInv
<1> QED BY <1>2, <1>3 DEF Imu!Hardware

(* The interrupt of an edge, and what its handler asks for. *)
LEMMA ImuExti ==
  ASSUME ImuInv, Imu!ExtiTaken
  PROVE  ImuInv'
<1>1. ImuPlaces /\ ImuFlags /\ ImuBus /\ ImuEdges /\ ImuRows
  BY DEF ImuInv
<1>2. /\ imu_pc["isr"] = "idle" /\ imu_pc["exti"] = "idle" /\ imu_extiOn /\ imu_extiFlag
      /\ imu_extiFlag' = FALSE
      /\ Imu!Goto("exti", IF imu_imuState = "ACTIVE" THEN "read" ELSE "idle")
      /\ UNCHANGED <<imu_imuState, imu_busy, imu_handleRead, imu_enableLoggingCb,
                     imu_overrunPending, imu_drdy, imu_routed, imu_sampling, imu_extiOn,
                     imu_dma, imu_task, imu_shouldLog, imu_failed, imu_asked, imu_due,
                     imu_misled>>
  BY DEF Imu!ExtiTaken, Imu!Idle, Imu!driver, Imu!sensor, Imu!rows
<1>3. /\ imu_pc' \in [Imu!Contexts -> {"idle", "read", "start", "failed", "unroute",
                                       "clear", "route", "kick", "enable", "log"}]
      /\ imu_pc'["exti"] = IF imu_imuState = "ACTIVE" THEN "read" ELSE "idle"
      /\ imu_pc'["task"] = imu_pc["task"] /\ imu_pc'["isr"] = imu_pc["isr"]
  BY <1>1, <1>2, ImuGoes DEF ImuPlaces, Imu!Contexts
<1>4. ~Recovering
  BY <1>1, <1>2 DEF ImuBus, RecoversAlone
<1>5. /\ ~Recovering' /\ ~Underway("exti") /\ ~Underway("exti")'
      /\ (Underway("task")' <=> Underway("task"))
      /\ \A c \in Imu!Contexts : ~Imu!Recovers(c)'
  BY <1>2, <1>3, <1>4 DEF Recovering, Imu!Recovers, Underway, Imu!Contexts
<1>6. ImuPlaces'
  BY <1>1, <1>2, <1>3 DEF ImuPlaces
<1>7. ImuFlags'
  <2>1. imu_extiFlag' \in BOOLEAN
    BY <1>2, Zenon
  <2> QED BY <1>1, <1>2, <2>1 DEF ImuFlags
<1>8. OneTransfer' /\ RecoversAlone'
  BY <1>1, <1>2, <1>3, <1>5 DEF ImuBus, OneTransfer, RecoversAlone, Imu!Contexts
<1>9. ReadsHandled' /\ QuietAround' /\ Imu!SpiExclusive'
  BY <1>1, <1>2, <1>3, <1>5 DEF ImuBus, ReadsHandled, QuietAround, Imu!SpiExclusive,
    Imu!Contexts
<1>10. Waits' => Imu!ReadComes'
  BY <1>2, <1>3 DEF Waits, Imu!ReadComes
<1>11. Unmasked' /\ FailureKnown' /\ ImuRows'
  BY <1>1, <1>2, <1>3 DEF ImuEdges, Unmasked, FailureKnown, ImuRows, RowKnown, Imu!Contexts
<1> QED BY <1>6, <1>7, <1>8, <1>9, <1>10, <1>11 DEF ImuInv, ImuBus, ImuEdges

(* FS_IMU_BeginRead, of the handler and of the task. *)
LEMMA ImuBegins ==
  ASSUME ImuInv, NEW c \in {"task", "exti"}, NEW log \in BOOLEAN, log <=> c = "exti",
         imu_handleRead, Imu!Begin(c, log), imu_pc[c] = IF c = "exti" THEN "read" ELSE "idle",
         \A h \in Imu!Above[c] : imu_pc[h] = "idle",
         imu_task' \in {"read", "running", "masked"}, imu_imuState' = "ACTIVE",
         imu_task \notin {"route", "rate", "configure"},
         imu_task' = "running" => imu_task \in {"read", "running"},
         imu_task' = "read" => imu_task = "read",
         UNCHANGED <<imu_imuState, imu_handleRead, imu_drdy, imu_routed, imu_sampling,
                     imu_extiOn, imu_extiFlag, imu_dma, imu_shouldLog, imu_failed,
                     imu_asked, imu_due, imu_misled>>
  PROVE  ImuInv'
<1>1. ImuPlaces /\ ImuFlags /\ ImuBus /\ ImuEdges /\ ImuRows
  BY DEF ImuInv
<1>2. Imu!Contexts = {"task", "exti", "isr"} /\ c \in Imu!Contexts /\ imu_pc["isr"] = "idle"
  BY DEF Imu!Contexts, Imu!Above
<1>3. CASE imu_busy
  <2>1. /\ imu_overrunPending' = TRUE /\ Imu!Goto(c, "idle")
        /\ UNCHANGED <<imu_busy, imu_enableLoggingCb>>
    BY <1>3 DEF Imu!Begin
  <2>2. /\ imu_pc' \in [Imu!Contexts -> {"idle", "read", "start", "failed", "unroute",
                                         "clear", "route", "kick", "enable", "log"}]
        /\ imu_pc'[c] = "idle" /\ \A d \in Imu!Contexts \ {c} : imu_pc'[d] = imu_pc[d]
    BY <1>1, <1>2, <2>1, ImuGoes DEF ImuPlaces
  <2>3. \A d \in Imu!Contexts : ~Imu!Recovers(d) /\ ~Imu!Recovers(d)'
    BY <1>1, <1>2, <1>3, <2>2 DEF ImuBus, RecoversAlone, Recovering, Imu!Recovers
  <2>4. \A d \in {"task", "exti"} : Underway(d)' <=> Underway(d)
    BY <1>2, <2>2 DEF Underway
  <2>5. ImuPlaces'
    BY <1>1, <1>2, <2>2 DEF ImuPlaces
  <2>6. ImuFlags'
    <3>1. imu_overrunPending' \in BOOLEAN
      BY <2>1, Zenon
    <3> QED BY <1>1, <2>1, <3>1 DEF ImuFlags
  <2>7. OneTransfer' /\ RecoversAlone'
    BY <1>1, <1>2, <2>1, <2>3, <2>4 DEF ImuBus, OneTransfer, RecoversAlone, Recovering
  <2>8. ReadsHandled' /\ QuietAround' /\ Imu!SpiExclusive'
    BY <1>1, <2>3 DEF ImuBus, ReadsHandled, QuietAround, Imu!SpiExclusive
  <2>9. Waits' => Imu!ReadComes'
    <3>1. CASE imu_dma # "none"
      BY <1>1, <2>1, <3>1 DEF ImuPlaces, Imu!ReadComes
    <3>2. CASE imu_dma = "none"
      <4>1. Underway("exti") \/ Underway("task")
        BY <1>1, <1>3, <3>2 DEF ImuBus, OneTransfer
      <4>2. PICK d \in {"task", "exti"} : Underway(d)
        BY <4>1
      <4>3. d # c /\ imu_pc'[d] = imu_pc[d]
        BY <1>2, <2>2, <4>2 DEF Underway
      <4>4. CASE imu_pc[d] = "start"
        BY <1>2, <4>3, <4>4 DEF Imu!ReadComes
      <4>5. CASE imu_pc[d] = "failed"
        BY <1>1, <1>2, <4>5 DEF ImuEdges, FailureKnown, Waits
      <4> QED BY <4>2, <4>4, <4>5 DEF Underway
    <3> QED BY <3>1, <3>2
  <2>10. Unmasked'
    BY <1>1, <1>2, <2>2, <2>3 DEF ImuEdges, Unmasked, Recovering
  <2>11. FailureKnown'
    BY <1>1, <1>2, <2>2 DEF ImuEdges, FailureKnown
  <2>12. ImuRows'
    BY <1>1, <1>2, <2>1, <2>2 DEF ImuRows, RowKnown
  <2> QED BY <2>5, <2>6, <2>7, <2>8, <2>9, <2>10, <2>11, <2>12 DEF ImuInv, ImuBus, ImuEdges
<1>4. CASE ~imu_busy
  <2>1. /\ imu_busy' = TRUE /\ Imu!Goto(c, "start")
        /\ imu_enableLoggingCb' = log /\ UNCHANGED imu_overrunPending
    BY <1>4 DEF Imu!Begin
  <2>2. /\ imu_pc' \in [Imu!Contexts -> {"idle", "read", "start", "failed", "unroute",
                                         "clear", "route", "kick", "enable", "log"}]
        /\ imu_pc'[c] = "start" /\ \A d \in Imu!Contexts \ {c} : imu_pc'[d] = imu_pc[d]
    BY <1>1, <1>2, <2>1, ImuGoes DEF ImuPlaces
  <2>3. imu_dma = "none" /\ \A d \in {"task", "exti"} : ~Underway(d)
    BY <1>1, <1>4 DEF ImuBus, OneTransfer
  <2>4. \A d \in {"task", "exti"} : Underway(d)' <=> d = c
    BY <1>2, <2>2, <2>3 DEF Underway
  <2>5. \A d \in Imu!Contexts : ~Imu!Recovers(d) /\ ~Imu!Recovers(d)'
    <3>1. ~Imu!Recovers(c) /\ ~Imu!Recovers("isr")
      BY <1>2 DEF Imu!Recovers
    <3>2. ~Imu!Recovers("task") /\ ~Imu!Recovers("exti")
      BY <1>1, <3>1 DEF ImuBus, RecoversAlone, Imu!Recovers, Imu!Above
    <3> QED BY <1>2, <2>2, <3>1, <3>2 DEF Imu!Recovers
  <2>6. ImuPlaces'
    BY <1>1, <1>2, <2>2 DEF ImuPlaces
  <2>7. ImuFlags'
    <3>1. imu_busy' \in BOOLEAN
      BY <2>1, Zenon
    <3> QED BY <1>1, <2>1, <3>1 DEF ImuFlags
  <2>8. OneTransfer' /\ RecoversAlone'
    BY <1>1, <1>2, <2>1, <2>3, <2>4, <2>5 DEF ImuBus, OneTransfer, RecoversAlone, Recovering
  <2>9. ReadsHandled' /\ QuietAround' /\ Imu!SpiExclusive'
    BY <1>1, <2>3, <2>5 DEF ImuBus, ReadsHandled, QuietAround, Imu!SpiExclusive
  <2>10. Imu!ReadComes'
    BY <1>2, <2>2 DEF Imu!ReadComes
  <2>11. Unmasked'
    BY <1>1, <1>2, <2>2, <2>5 DEF ImuEdges, Unmasked, Recovering
  <2>12. FailureKnown'
    BY <1>1, <1>2, <2>2 DEF ImuEdges, FailureKnown
  <2>13. ImuRows'
    BY <1>1, <1>2, <2>1, <2>2, <2>3 DEF ImuRows, RowKnown, Underway
  <2> QED BY <2>6, <2>7, <2>8, <2>9, <2>10, <2>11, <2>12, <2>13 DEF ImuInv, ImuBus, ImuEdges
<1> QED BY <1>3, <1>4

(* The handler of the interrupt, if it reads at all. *)
LEMMA ImuRead ==
  ASSUME ImuInv, Imu!Read
  PROVE  ImuInv'
<1>1. ImuPlaces /\ ImuFlags /\ ImuBus /\ ImuEdges /\ ImuRows
  BY DEF ImuInv
<1>2. /\ imu_pc["isr"] = "idle" /\ imu_pc["exti"] = "read"
      /\ UNCHANGED <<imu_imuState, imu_handleRead, imu_drdy, imu_routed, imu_sampling,
                     imu_extiOn, imu_extiFlag, imu_dma, imu_task, imu_shouldLog, imu_failed,
                     imu_asked, imu_due, imu_misled>>
  BY DEF Imu!Read, Imu!Steps, Imu!Above, Imu!Idle, Imu!sensor, Imu!exti, Imu!rows
<1>3. CASE imu_handleRead
  <2>1. imu_imuState = "ACTIVE" /\ imu_task \in {"read", "running", "masked"}
    BY <1>1, <1>3 DEF ImuBus, ReadsHandled
  <2>2. Imu!Begin("exti", TRUE)
    BY <1>3 DEF Imu!Read, Imu!Asynchronous
  <2>3. \A h \in Imu!Above["exti"] : imu_pc[h] = "idle"
    BY <1>2 DEF Imu!Above
  <2> QED BY <1>2, <1>3, <2>1, <2>2, <2>3, ImuBegins
<1>4. CASE ~imu_handleRead
  <2>1. Imu!Goto("exti", "idle") /\ UNCHANGED <<imu_busy, imu_enableLoggingCb,
                                                imu_overrunPending>>
    BY <1>4 DEF Imu!Read, Imu!Asynchronous
  <2>2. /\ imu_pc' \in [Imu!Contexts -> {"idle", "read", "start", "failed", "unroute",
                                         "clear", "route", "kick", "enable", "log"}]
        /\ imu_pc'["exti"] = "idle" /\ imu_pc'["task"] = imu_pc["task"]
        /\ imu_pc'["isr"] = imu_pc["isr"]
    BY <1>1, <2>1, ImuGoes DEF ImuPlaces, Imu!Contexts
  <2>3. /\ Recovering' <=> Recovering
        /\ Imu!Recovers("task")' <=> Imu!Recovers("task")
        /\ ~Imu!Recovers("exti")' /\ ~Imu!Recovers("isr")'
        /\ ~Underway("exti") /\ ~Underway("exti")' /\ (Underway("task")' <=> Underway("task"))
    BY <1>2, <2>2 DEF Recovering, Imu!Recovers, Underway, Imu!Contexts
  <2>4. ImuPlaces'
    BY <1>1, <1>2, <2>2 DEF ImuPlaces
  <2>5. ImuFlags'
    BY <1>1, <1>2, <2>1 DEF ImuFlags
  <2>6. OneTransfer' /\ RecoversAlone'
    BY <1>1, <1>2, <2>1, <2>2, <2>3 DEF ImuBus, OneTransfer, RecoversAlone
  <2>7. ReadsHandled' /\ QuietAround'
    BY <1>1, <1>2, <2>1, <2>2 DEF ImuBus, ReadsHandled, QuietAround
  <2>8. Imu!SpiExclusive'
    BY <1>1, <1>2, <2>3 DEF ImuBus, Imu!SpiExclusive, Imu!Contexts
  <2>9. Unmasked'
    BY <1>1, <1>2, <2>2, <2>3 DEF ImuEdges, Unmasked, Imu!Contexts
  <2>10. FailureKnown' /\ ImuRows'
    BY <1>1, <1>2, <2>1, <2>2 DEF ImuEdges, FailureKnown, ImuRows, RowKnown, Imu!Contexts
  <2>11. ~Waits'
    BY <1>1, <1>2, <1>4 DEF Waits, ImuBus, ReadsHandled
  <2> QED BY <2>4, <2>5, <2>6, <2>7, <2>8, <2>9, <2>10, <2>11 DEF ImuInv, ImuBus, ImuEdges
<1> QED BY <1>3, <1>4

(* The start of the transfer, which may fail. *)
LEMMA ImuTransfers ==
  ASSUME ImuInv, NEW c \in Imu!Contexts, Imu!StartTransfer(c)
  PROVE  ImuInv'
<1>1. ImuPlaces /\ ImuFlags /\ ImuBus /\ ImuEdges /\ ImuRows
  BY DEF ImuInv
<1>2. /\ imu_pc[c] = "start" /\ Imu!Steps(c)
      /\ UNCHANGED <<imu_imuState, imu_busy, imu_handleRead, imu_enableLoggingCb,
                     imu_overrunPending, imu_drdy, imu_routed, imu_sampling, imu_extiOn,
                     imu_extiFlag, imu_task, imu_shouldLog, imu_due, imu_misled>>
  BY DEF Imu!StartTransfer, Imu!driver, Imu!sensor, Imu!exti
<1>3. /\ c \in {"task", "exti"} /\ imu_pc["isr"] = "idle"
      /\ c = "task" => imu_pc["exti"] = "idle"
  BY <1>1, <1>2 DEF ImuPlaces, Imu!Contexts, Imu!Steps, Imu!Idle, Imu!Above
<1>4. imu_asked' \in BOOLEAN /\ (imu_asked' <=> c = "exti")
  <2>1. (c = "exti") \in BOOLEAN
    OBVIOUS
  <2> QED BY <2>1, Zenon DEF Imu!StartTransfer
<1>5. imu_busy /\ imu_dma = "none" /\ \A d \in {"task", "exti"} : Underway(d) => d = c
  BY <1>1, <1>2, <1>3 DEF ImuBus, OneTransfer, Underway
<1>6. \A d \in Imu!Contexts : ~Imu!Recovers(d)
  BY <1>1, <1>5 DEF ImuBus, RecoversAlone, Recovering
<1>7. imu_task \in {"read", "running", "masked", "waiting"} /\ imu_imuState = "ACTIVE"
  BY <1>1, <1>5 DEF ImuBus, QuietAround, ImuPlaces
<1>8. imu_enableLoggingCb <=> imu_asked'
  BY <1>1, <1>2, <1>3, <1>4 DEF ImuRows, RowKnown
<1>9. CASE imu_dma' = "reading" /\ Imu!Goto(c, "idle") /\ Imu!Works
  <2>1. /\ imu_pc' \in [Imu!Contexts -> {"idle", "read", "start", "failed", "unroute",
                                         "clear", "route", "kick", "enable", "log"}]
        /\ imu_pc'[c] = "idle" /\ \A d \in Imu!Contexts \ {c} : imu_pc'[d] = imu_pc[d]
        /\ UNCHANGED imu_failed
    BY <1>1, <1>9, ImuGoes DEF ImuPlaces, Imu!Works
  <2>2. \A d \in Imu!Contexts : ~Imu!Recovers(d)'
    BY <1>6, <2>1 DEF Imu!Recovers
  <2>3. \A d \in {"task", "exti"} : ~Underway(d)'
    BY <1>5, <2>1 DEF Underway, Imu!Contexts
  <2>4. ImuPlaces'
    BY <1>1, <1>2, <1>3, <1>9, <2>1 DEF ImuPlaces, Imu!Contexts
  <2>5. ImuFlags'
    BY <1>1, <1>2, <1>4, <2>1 DEF ImuFlags
  <2>6. OneTransfer' /\ RecoversAlone'
    BY <1>2, <1>5, <1>9, <2>2, <2>3 DEF OneTransfer, RecoversAlone, Recovering, Imu!Contexts
  <2>7. ReadsHandled' /\ QuietAround'
    BY <1>1, <1>2, <1>7 DEF ImuBus, ReadsHandled, QuietAround
  <2>8. Imu!SpiExclusive'
    BY <1>2, <1>7, <2>2 DEF Imu!SpiExclusive
  <2>9. Imu!ReadComes'
    BY <1>9 DEF Imu!ReadComes
  <2>10. Unmasked'
    BY <1>1, <1>2, <1>6, <2>1 DEF ImuEdges, Unmasked, Recovering
  <2>11. FailureKnown'
    BY <1>1, <2>1 DEF ImuEdges, FailureKnown
  <2>12. ImuRows'
    BY <1>1, <1>2, <1>3, <1>8, <2>1, <2>3 DEF ImuRows, RowKnown, Underway
  <2> QED BY <2>4, <2>5, <2>6, <2>7, <2>8, <2>9, <2>10, <2>11, <2>12
      DEF ImuInv, ImuBus, ImuEdges
<1>10. CASE Imu!Goto(c, "failed") /\ Imu!Fails /\ UNCHANGED imu_dma
  <2>1. /\ imu_pc' \in [Imu!Contexts -> {"idle", "read", "start", "failed", "unroute",
                                         "clear", "route", "kick", "enable", "log"}]
        /\ imu_pc'[c] = "failed" /\ \A d \in Imu!Contexts \ {c} : imu_pc'[d] = imu_pc[d]
        /\ imu_failed' = TRUE
    BY <1>1, <1>10, ImuGoes DEF ImuPlaces, Imu!Fails
  <2>2. \A d \in Imu!Contexts : ~Imu!Recovers(d)'
    BY <1>6, <2>1 DEF Imu!Recovers
  <2>3. \A d \in {"task", "exti"} : Underway(d)' <=> d = c
    BY <1>5, <2>1 DEF Underway, Imu!Contexts
  <2>4. ImuPlaces'
    BY <1>1, <1>2, <1>3, <1>10, <2>1 DEF ImuPlaces, Imu!Contexts
  <2>5. ImuFlags'
    <3>1. imu_failed' \in BOOLEAN
      BY <2>1, Zenon
    <3> QED BY <1>1, <1>2, <1>4, <2>1, <3>1 DEF ImuFlags
  <2>6. OneTransfer' /\ RecoversAlone'
    BY <1>2, <1>3, <1>5, <1>10, <2>2, <2>3 DEF OneTransfer, RecoversAlone, Recovering,
      Imu!Contexts
  <2>7. ReadsHandled' /\ QuietAround'
    BY <1>1, <1>2, <1>7 DEF ImuBus, ReadsHandled, QuietAround
  <2>8. Imu!SpiExclusive'
    BY <1>2, <1>7, <2>2 DEF Imu!SpiExclusive
  <2>9. ~Waits' /\ FailureKnown'
    BY <2>1 DEF Waits, FailureKnown
  <2>10. Unmasked'
    BY <1>1, <1>2, <1>6, <2>1 DEF ImuEdges, Unmasked, Recovering
  <2>11. ImuRows'
    BY <1>1, <1>2, <1>3, <1>8, <2>1, <2>3 DEF ImuRows, RowKnown, Underway
  <2> QED BY <2>4, <2>5, <2>6, <2>7, <2>8, <2>9, <2>10, <2>11 DEF ImuInv, ImuBus, ImuEdges
<1> QED BY <1>9, <1>10 DEF Imu!StartTransfer

(* FS_IMU_Read_Callback: the transfer, or the attempt at one, is over.       *)
LEMMA ImuCallback ==
  ASSUME ImuInv, NEW c \in Imu!Contexts, NEW ok \in BOOLEAN, Imu!ReadCallback(c, ok),
         \/ c = "isr" /\ imu_pc["isr"] = "idle" /\ imu_dma # "none"
         \/ c # "isr" /\ imu_pc[c] = "failed",
         \A h \in Imu!Above[c] : imu_pc[h] = "idle",
         imu_dma' = "none", ok => imu_dma = "cleared",
         imu_failed' \in BOOLEAN, imu_failed \/ ~ok => imu_failed'
  PROVE  ImuInv'
<1>1. ImuPlaces /\ ImuFlags /\ ImuBus /\ ImuEdges /\ ImuRows
  BY DEF ImuInv
<1>2. Imu!Contexts = {"task", "exti", "isr"}
  BY DEF Imu!Contexts
<1>3. /\ imu_overrunPending' = FALSE /\ imu_busy' = FALSE
      /\ UNCHANGED <<imu_imuState, imu_handleRead, imu_enableLoggingCb, imu_drdy, imu_routed,
                     imu_sampling, imu_task, imu_asked, imu_misled>>
  BY DEF Imu!ReadCallback, Imu!sensor
<1>4. imu_busy /\ \A d \in {"task", "exti"} : Underway(d) => d = c
  BY <1>1 DEF ImuBus, OneTransfer, Underway, Imu!Contexts
<1>5. \A d \in Imu!Contexts : ~Imu!Recovers(d)
  BY <1>1, <1>4 DEF ImuBus, RecoversAlone, Recovering
<1>6. imu_enableLoggingCb <=> imu_asked
  BY <1>1 DEF ImuRows, RowKnown
<1>7. /\ imu_shouldLog' \in BOOLEAN /\ imu_due' \in BOOLEAN
      /\ imu_shouldLog' <=> imu_due'
  <2>1. (imu_enableLoggingCb /\ ok) \in BOOLEAN /\ (imu_asked /\ ok) \in BOOLEAN
    OBVIOUS
  <2> QED BY <1>6, <2>1, Zenon DEF Imu!ReadCallback
<1>8. imu_task \in {"read", "running", "masked", "waiting"} /\ imu_imuState = "ACTIVE"
  BY <1>1, <1>4 DEF ImuBus, QuietAround, ImuPlaces
<1>9. ASSUME NEW step \in {"unroute", "log"}, Imu!Goto(c, step),
             imu_extiOn' \in BOOLEAN, imu_extiFlag' \in BOOLEAN,
             step = "unroute" => ~imu_extiOn',
             step = "log" => UNCHANGED <<imu_extiOn, imu_extiFlag>> /\ ~imu_overrunPending
      PROVE  ImuInv'
  <2>1. /\ imu_pc' \in [Imu!Contexts -> {"idle", "read", "start", "failed", "unroute",
                                         "clear", "route", "kick", "enable", "log"}]
        /\ imu_pc'[c] = step /\ \A d \in Imu!Contexts \ {c} : imu_pc'[d] = imu_pc[d]
    BY <1>1, <1>9, ImuGoes DEF ImuPlaces
  <2>2. \A d \in Imu!Contexts : Imu!Recovers(d)' <=> d = c /\ step = "unroute"
    BY <1>5, <1>9, <2>1 DEF Imu!Recovers
  <2>3. \A d \in {"task", "exti"} : ~Underway(d)'
    BY <1>2, <1>4, <2>1 DEF Underway
  <2>4. ImuPlaces'
    BY <1>1, <1>2, <1>3, <2>1 DEF ImuPlaces
  <2>5. ImuFlags'
    <3>1. imu_busy' \in BOOLEAN /\ imu_overrunPending' \in BOOLEAN
      BY <1>3, Zenon
    <3> QED BY <1>1, <1>3, <1>7, <1>9, <3>1 DEF ImuFlags
  <2>6. OneTransfer'
    BY <1>3, <2>3 DEF OneTransfer
  <2>7. RecoversAlone'
    <3>1. \A h \in Imu!Above[c] : imu_pc'[h] = "idle"
      BY <1>2, <2>1 DEF Imu!Above
    <3> QED BY <1>2, <1>3, <1>9, <2>2, <3>1 DEF RecoversAlone, Recovering, Imu!Above
  <2>8. ReadsHandled' /\ QuietAround' /\ Imu!SpiExclusive'
    BY <1>1, <1>3, <1>8 DEF ImuBus, ReadsHandled, QuietAround, Imu!SpiExclusive
  <2>9. Waits' => Imu!ReadComes'
    <3> SUFFICES ASSUME Waits' PROVE Imu!ReadComes'
      OBVIOUS
    <3>1. CASE step = "unroute"
      BY <2>2, <3>1 DEF Imu!ReadComes
    <3>2. CASE step = "log"
      <4>1. ok /\ imu_dma = "cleared" /\ Waits
        BY <1>3 DEF Waits, Imu!Pin
      <4>2. Imu!ReadComes
        BY <1>1, <4>1 DEF ImuEdges
      <4>3. \A d \in Imu!Contexts : imu_pc[d] # "start"
        BY <1>1, <1>2, <4>1 DEF ImuPlaces, ImuBus, OneTransfer, Underway
      <4>4. c = "isr"
        BY <1>1, <1>2, <4>1 DEF ImuBus, OneTransfer, Underway
      <4>5. \/ imu_extiFlag /\ (imu_extiOn \/ \E d \in Imu!Contexts : imu_pc[d] = "enable")
            \/ imu_pc["exti"] = "read"
        BY <1>5, <1>9, <3>2, <4>1, <4>2, <4>3 DEF Imu!ReadComes
      <4>6. \A d \in Imu!Contexts : imu_pc[d] = "enable" => imu_pc'[d] = "enable"
        BY <1>2, <2>1, <4>4
      <4>7. imu_pc["exti"] = "read" => imu_pc'["exti"] = "read"
        BY <1>2, <2>1, <4>4
      <4> QED BY <1>9, <3>2, <4>5, <4>6, <4>7 DEF Imu!ReadComes
    <3> QED BY <3>1, <3>2
  <2>10. Unmasked'
    <3>1. CASE step = "unroute"
      BY <2>2, <3>1 DEF Unmasked, Recovering
    <3>2. CASE step = "log"
      BY <1>1, <1>2, <1>3, <1>5, <1>9, <2>1, <3>2 DEF ImuEdges, Unmasked, Recovering
    <3> QED BY <3>1, <3>2
  <2>11. \A d \in Imu!Contexts : imu_pc'[d] \notin {"start", "failed"}
    BY <1>2, <2>3, <2>4 DEF Underway, ImuPlaces
  <2>12. FailureKnown'
    BY <2>11 DEF FailureKnown
  <2>13. ImuRows'
    BY <1>1, <1>2, <1>3, <1>7, <2>11 DEF ImuRows, RowKnown
  <2> QED BY <2>4, <2>5, <2>6, <2>7, <2>8, <2>9, <2>10, <2>12, <2>13
      DEF ImuInv, ImuBus, ImuEdges
<1>10. CASE imu_overrunPending
  <2>1. Imu!Goto(c, "unroute") /\ imu_extiOn' = FALSE /\ imu_extiFlag' = FALSE
    BY <1>10 DEF Imu!ReadCallback, Imu!NeedsRecovery
  <2>2. imu_extiOn' \in BOOLEAN /\ imu_extiFlag' \in BOOLEAN /\ ~imu_extiOn'
    BY <2>1, Zenon
  <2> QED BY <1>9, <2>1, <2>2
<1>11. CASE ~imu_overrunPending
  <2>1. Imu!Goto(c, "log") /\ UNCHANGED <<imu_extiOn, imu_extiFlag>>
    BY <1>11 DEF Imu!ReadCallback, Imu!NeedsRecovery, Imu!exti
  <2>2. imu_extiOn' \in BOOLEAN /\ imu_extiFlag' \in BOOLEAN
    BY <1>1, <2>1 DEF ImuFlags
  <2> QED BY <1>9, <1>11, <2>1, <2>2
<1> QED BY <1>10, <1>11

(* The end of a transfer, well or not. *)
LEMMA ImuEnds ==
  ASSUME ImuInv, Imu!TransferEnds
  PROVE  ImuInv'
<1>1. /\ imu_pc["isr"] = "idle" /\ imu_dma # "none" /\ imu_dma' = "none"
      /\ \A h \in Imu!Above["isr"] : imu_pc[h] = "idle"
      /\ "isr" \in Imu!Contexts
  BY DEF Imu!TransferEnds, Imu!Idle, Imu!Above, Imu!Contexts
<1>2. CASE imu_dma = "cleared" /\ Imu!ReadCallback("isr", TRUE) /\ Imu!Works
  <2>1. UNCHANGED imu_failed /\ imu_failed \in BOOLEAN
    BY <1>2 DEF Imu!Works, ImuInv, ImuFlags
  <2> QED BY <1>1, <1>2, <2>1, ImuCallback
<1>3. CASE Imu!ReadCallback("isr", FALSE) /\ Imu!Fails
  <2>1. imu_failed' \in BOOLEAN /\ imu_failed'
    BY <1>3, Zenon DEF Imu!Fails
  <2> QED BY <1>1, <1>3, <2>1, ImuCallback
<1> QED BY <1>2, <1>3 DEF Imu!TransferEnds

(* The transfer could not be started. *)
LEMMA ImuStartFails ==
  ASSUME ImuInv, NEW c \in Imu!Contexts, Imu!StartFailed(c)
  PROVE  ImuInv'
<1>1. /\ imu_pc[c] = "failed" /\ Imu!ReadCallback(c, FALSE) /\ UNCHANGED <<imu_dma, imu_failed>>
      /\ \A h \in Imu!Above[c] : imu_pc[h] = "idle"
  BY DEF Imu!StartFailed, Imu!Steps, Imu!Idle
<1>2. c # "isr" /\ imu_failed' \in BOOLEAN /\ imu_failed'
  BY <1>1 DEF ImuInv, ImuPlaces, ImuFlags, ImuEdges, FailureKnown
<1>3. imu_dma = "none"
  BY <1>1, <1>2 DEF ImuInv, ImuBus, OneTransfer, Underway, Imu!Contexts
<1> QED BY <1>1, <1>2, <1>3, ImuCallback

(* A context that recovers or is behind it is the only one. *)
LEMMA ImuAlone ==
  ASSUME ImuInv, NEW c \in Imu!Contexts, Imu!Steps(c), imu_pc[c] # "idle"
  PROVE  \A d \in Imu!Contexts \ {c} : ~Imu!Recovers(d)
<1>1. RecoversAlone
  BY DEF ImuInv, ImuBus
<1>2. \A h \in Imu!Above[c] : imu_pc[h] = "idle"
  BY DEF Imu!Steps, Imu!Idle
<1>3. CASE c = "task"
  BY <1>2, <1>3 DEF Imu!Above, Imu!Contexts, Imu!Recovers
<1>4. CASE c = "exti"
  BY <1>1, <1>2, <1>4 DEF RecoversAlone, Imu!Above, Imu!Contexts, Imu!Recovers
<1>5. CASE c = "isr"
  BY <1>1, <1>5 DEF RecoversAlone, Imu!Above, Imu!Contexts, Imu!Recovers
<1> QED BY <1>3, <1>4, <1>5 DEF Imu!Contexts

(* FS_IMU_RecoverFromOverrun up to its look at INT1. *)
LEMMA ImuRecovery ==
  ASSUME ImuInv, NEW c \in Imu!Contexts,
         Imu!Unroute(c) \/ Imu!ClearLatch(c) \/ Imu!Reroute(c)
  PROVE  ImuInv'
<1>1. ImuPlaces /\ ImuFlags /\ ImuBus /\ ImuEdges /\ ImuRows
  BY DEF ImuInv
<1>2. Imu!Contexts = {"task", "exti", "isr"}
  BY DEF Imu!Contexts
<1>3. /\ Imu!Steps(c) /\ Imu!Recovers(c)
      /\ UNCHANGED <<imu_imuState, imu_busy, imu_handleRead, imu_enableLoggingCb,
                     imu_overrunPending, imu_sampling, imu_extiOn, imu_dma, imu_task,
                     imu_shouldLog, imu_asked, imu_due, imu_misled>>
  BY DEF Imu!Unroute, Imu!ClearLatch, Imu!Reroute, Imu!Recovers, Imu!driver, Imu!exti,
    Imu!rows
<1>4. imu_drdy \in BOOLEAN /\ imu_routed \in BOOLEAN /\ imu_failed \in BOOLEAN
  BY <1>1 DEF ImuFlags
<1>5. /\ imu_drdy' \in BOOLEAN /\ imu_routed' \in BOOLEAN /\ imu_extiFlag' \in BOOLEAN
      /\ imu_failed' \in BOOLEAN /\ (imu_failed => imu_failed')
  <2>1. CASE Imu!Unroute(c)
    <3>1. UNCHANGED <<imu_drdy, imu_extiFlag>>
      BY <2>1 DEF Imu!Unroute, Imu!exti
    <3>2. \/ imu_routed' = FALSE /\ UNCHANGED imu_failed
          \/ imu_failed' = TRUE /\ UNCHANGED imu_routed
      BY <2>1 DEF Imu!Unroute, Imu!Works, Imu!Fails
    <3> QED BY <1>1, <3>1, <3>2 DEF ImuFlags
  <2>2. CASE Imu!ClearLatch(c)
    <3>1. UNCHANGED <<imu_routed, imu_extiFlag>>
      BY <2>2 DEF Imu!ClearLatch, Imu!exti
    <3>2. \/ imu_drdy' = FALSE /\ UNCHANGED imu_failed
          \/ imu_failed' = TRUE /\ UNCHANGED imu_drdy
      BY <2>2 DEF Imu!ClearLatch, Imu!Works, Imu!Fails
    <3> QED BY <1>1, <3>1, <3>2 DEF ImuFlags
  <2>3. CASE Imu!Reroute(c)
    <3>1. Imu!Edge(imu_drdy) => imu_extiFlag' \in BOOLEAN
      BY <1>1, <1>4, ImuEdge
    <3>2. /\ UNCHANGED imu_drdy
          /\ \/ imu_routed' = TRUE /\ Imu!Edge(imu_drdy) /\ UNCHANGED imu_failed
             \/ imu_failed' = TRUE /\ UNCHANGED <<imu_routed, imu_extiFlag>>
      BY <2>3 DEF Imu!Reroute, Imu!Works, Imu!Fails
    <3>3. CASE imu_routed' = TRUE /\ Imu!Edge(imu_drdy) /\ UNCHANGED imu_failed
      BY <1>1, <3>1, <3>2, <3>3 DEF ImuFlags
    <3>4. CASE imu_failed' = TRUE /\ UNCHANGED <<imu_routed, imu_extiFlag>>
      BY <1>1, <3>2, <3>4 DEF ImuFlags
    <3> QED BY <3>2, <3>3, <3>4
  <2> QED BY <2>1, <2>2, <2>3
<1>6. PICK step \in {"clear", "route", "kick"} : Imu!Goto(c, step)
  BY DEF Imu!Unroute, Imu!ClearLatch, Imu!Reroute
<1>7. /\ imu_pc' \in [Imu!Contexts -> {"idle", "read", "start", "failed", "unroute",
                                       "clear", "route", "kick", "enable", "log"}]
      /\ imu_pc'[c] = step /\ \A d \in Imu!Contexts \ {c} : imu_pc'[d] = imu_pc[d]
  BY <1>1, <1>6, ImuGoes DEF ImuPlaces
<1>8. \A d \in Imu!Contexts : Imu!Recovers(d)' <=> Imu!Recovers(d)
  BY <1>3, <1>7 DEF Imu!Recovers
<1>9. \A d \in {"task", "exti"} : Underway(d)' <=> Underway(d)
  BY <1>2, <1>3, <1>7 DEF Imu!Recovers, Underway
<1>10. ImuPlaces'
  BY <1>1, <1>2, <1>3, <1>7 DEF ImuPlaces
<1>11. ImuFlags'
  BY <1>1, <1>3, <1>5 DEF ImuFlags
<1>12. ~imu_busy /\ imu_dma = "none" /\ ~imu_extiOn
  BY <1>1, <1>3 DEF ImuBus, OneTransfer, RecoversAlone, Recovering
<1>13. OneTransfer'
  BY <1>1, <1>3, <1>9 DEF ImuBus, OneTransfer
<1>14. RecoversAlone'
  <2>1. \A d \in Imu!Contexts : imu_pc[d] = "idle" => imu_pc'[d] = "idle"
    BY <1>3, <1>7 DEF Imu!Recovers
  <2> QED BY <1>1, <1>2, <1>3, <1>8, <1>12, <2>1 DEF ImuBus, RecoversAlone
<1>15. imu_task \in {"read", "running", "masked", "waiting"} /\ imu_imuState = "ACTIVE"
  BY <1>1, <1>2, <1>3 DEF ImuBus, QuietAround, ImuPlaces, Imu!Recovers
<1>16. ReadsHandled' /\ QuietAround' /\ Imu!SpiExclusive'
  BY <1>1, <1>3, <1>12, <1>15 DEF ImuBus, ReadsHandled, QuietAround, Imu!SpiExclusive
<1>17. Imu!ReadComes' /\ Unmasked'
  BY <1>3, <1>8 DEF Imu!ReadComes, Unmasked, Recovering
<1>18. FailureKnown'
  BY <1>1, <1>5, <1>7 DEF ImuEdges, FailureKnown
<1>19. ImuRows'
  BY <1>1, <1>2, <1>3, <1>7 DEF ImuRows, RowKnown
<1> QED BY <1>10, <1>11, <1>13, <1>14, <1>16, <1>17, <1>18, <1>19
    DEF ImuInv, ImuBus, ImuEdges

(* Its look at INT1: a read is begun at once when it is high. *)
LEMMA ImuKicks ==
  ASSUME ImuInv, NEW c \in Imu!Contexts, Imu!Kick(c)
  PROVE  ImuInv'
<1>1. ImuPlaces /\ ImuFlags /\ ImuBus /\ ImuEdges /\ ImuRows
  BY DEF ImuInv
<1>2. Imu!Contexts = {"task", "exti", "isr"}
  BY DEF Imu!Contexts
<1>3. /\ Imu!Steps(c) /\ Imu!Recovers(c) /\ imu_pc[c] = "kick" /\ Imu!Goto(c, "enable")
      /\ UNCHANGED <<imu_imuState, imu_handleRead, imu_overrunPending, imu_drdy, imu_routed,
                     imu_sampling, imu_extiOn, imu_extiFlag, imu_task, imu_shouldLog,
                     imu_due, imu_misled>>
  BY DEF Imu!Kick, Imu!Recovers, Imu!sensor, Imu!exti
<1>4. /\ imu_pc' \in [Imu!Contexts -> {"idle", "read", "start", "failed", "unroute",
                                       "clear", "route", "kick", "enable", "log"}]
      /\ imu_pc'[c] = "enable" /\ \A d \in Imu!Contexts \ {c} : imu_pc'[d] = imu_pc[d]
  BY <1>1, <1>3, ImuGoes DEF ImuPlaces
<1>5. \A d \in Imu!Contexts : ~Imu!Recovers(d)'
  <2>1. \A d \in Imu!Contexts \ {c} : ~Imu!Recovers(d)
    BY <1>3, ImuAlone
  <2> QED BY <1>4, <2>1 DEF Imu!Recovers
<1>6. ~imu_busy /\ imu_dma = "none" /\ ~imu_extiOn
  BY <1>1, <1>3 DEF ImuBus, OneTransfer, RecoversAlone, Recovering
<1>7. \A d \in {"task", "exti"} : ~Underway(d) /\ ~Underway(d)'
  BY <1>1, <1>2, <1>4, <1>6 DEF ImuBus, OneTransfer, Underway
<1>8. /\ imu_busy' \in BOOLEAN /\ imu_enableLoggingCb' \in BOOLEAN /\ imu_asked' \in BOOLEAN
      /\ imu_failed' \in BOOLEAN /\ (imu_failed => imu_failed')
      /\ imu_dma' \in {"none", "reading"} /\ (imu_busy' <=> imu_dma' # "none")
      /\ imu_dma' # "none" => ~imu_enableLoggingCb' /\ ~imu_asked'
      /\ ~imu_failed' /\ Imu!Pin => imu_dma' = "reading"
  <2>1. CASE Imu!Pin
    <3>1. imu_enableLoggingCb' = FALSE /\ imu_asked' = FALSE
      BY <2>1 DEF Imu!Kick
    <3>2. \/ imu_busy' = TRUE /\ imu_dma' = "reading" /\ UNCHANGED imu_failed
          \/ imu_failed' = TRUE /\ UNCHANGED <<imu_busy, imu_dma>>
      BY <2>1 DEF Imu!Kick, Imu!Works, Imu!Fails
    <3>3. imu_enableLoggingCb' \in BOOLEAN /\ imu_asked' \in BOOLEAN
          /\ ~imu_enableLoggingCb' /\ ~imu_asked'
      BY <3>1, Zenon
    <3>4. CASE imu_busy' = TRUE /\ imu_dma' = "reading" /\ UNCHANGED imu_failed
      <4>1. imu_busy' /\ imu_busy' \in BOOLEAN
        BY <3>4, Zenon
      <4> QED BY <1>1, <3>3, <3>4, <4>1 DEF ImuFlags
    <3>5. CASE imu_failed' = TRUE /\ UNCHANGED <<imu_busy, imu_dma>>
      <4>1. imu_failed' /\ imu_failed' \in BOOLEAN
        BY <3>5, Zenon
      <4> QED BY <1>1, <1>6, <3>3, <3>5, <4>1 DEF ImuFlags
    <3> QED BY <3>2, <3>4, <3>5
  <2>2. CASE ~Imu!Pin
    <3>1. UNCHANGED <<imu_enableLoggingCb, imu_asked, imu_busy, imu_dma, imu_failed>>
      BY <2>2 DEF Imu!Kick
    <3> QED BY <1>1, <1>6, <2>2, <3>1 DEF ImuFlags
  <2> QED BY <2>1, <2>2
<1>9. ImuPlaces'
  BY <1>1, <1>2, <1>3, <1>4, <1>8 DEF ImuPlaces
<1>10. ImuFlags'
  BY <1>1, <1>3, <1>8 DEF ImuFlags
<1>11. OneTransfer' /\ RecoversAlone'
  BY <1>2, <1>5, <1>7, <1>8 DEF OneTransfer, RecoversAlone, Recovering
<1>12. imu_task \in {"read", "running", "masked", "waiting"} /\ imu_imuState = "ACTIVE"
  BY <1>1, <1>2, <1>3 DEF ImuBus, QuietAround, ImuPlaces, Imu!Recovers
<1>13. ReadsHandled' /\ QuietAround'
  BY <1>1, <1>3, <1>12 DEF ImuBus, ReadsHandled, QuietAround
<1>14. Imu!SpiExclusive'
  BY <1>3, <1>5, <1>12 DEF Imu!SpiExclusive
<1>15. Waits' => Imu!ReadComes'
  BY <1>3, <1>8 DEF Waits, Imu!Pin, Imu!ReadComes
<1>16. Unmasked'
  BY <1>4 DEF Unmasked
<1>17. \A d \in Imu!Contexts : imu_pc'[d] \notin {"start", "failed"}
  BY <1>2, <1>7, <1>9 DEF Underway, ImuPlaces
<1>18. FailureKnown' /\ ImuRows'
  BY <1>1, <1>2, <1>3, <1>8, <1>17 DEF FailureKnown, ImuRows, RowKnown
<1> QED BY <1>9, <1>10, <1>11, <1>13, <1>14, <1>15, <1>16, <1>18
    DEF ImuInv, ImuBus, ImuEdges

(* Behind the recovery: the interrupt is unmasked again, and the row logged. *)
LEMMA ImuFinishes ==
  ASSUME ImuInv, NEW c \in Imu!Contexts, Imu!EnableExti(c) \/ Imu!Log(c)
  PROVE  ImuInv'
<1>1. ImuPlaces /\ ImuFlags /\ ImuBus /\ ImuEdges /\ ImuRows
  BY DEF ImuInv
<1>2. Imu!Contexts = {"task", "exti", "isr"}
  BY DEF Imu!Contexts
<1>3. /\ Imu!Steps(c) /\ imu_pc[c] \in {"enable", "log"}
      /\ UNCHANGED <<imu_imuState, imu_busy, imu_handleRead, imu_enableLoggingCb,
                     imu_overrunPending, imu_drdy, imu_routed, imu_sampling, imu_extiFlag,
                     imu_dma, imu_task, imu_shouldLog, imu_failed, imu_asked, imu_due>>
  BY DEF Imu!EnableExti, Imu!Log, Imu!driver, Imu!sensor, Imu!exti, Imu!rows
<1>4. /\ imu_extiOn' \in BOOLEAN /\ (imu_extiOn => imu_extiOn')
      /\ imu_pc[c] = "enable" => imu_extiOn'
      /\ imu_misled' \in BOOLEAN /\ ~imu_misled'
  <2>1. CASE Imu!EnableExti(c)
    BY <1>1, <2>1 DEF Imu!EnableExti, Imu!rows, ImuFlags, ImuRows
  <2>2. CASE Imu!Log(c)
    <3>1. imu_pc[c] = "log" /\ UNCHANGED imu_extiOn
      BY <2>2 DEF Imu!Log, Imu!exti
    <3>2. imu_shouldLog = imu_due
      BY <1>1 DEF ImuRows, RowKnown, ImuFlags
    <3>3. imu_misled' = (imu_misled \/ imu_shouldLog # imu_due)
      BY <2>2 DEF Imu!Log, Imu!RowIsDue
    <3>4. ~imu_misled
      BY <1>1 DEF ImuRows
    <3>5. imu_misled' \in BOOLEAN /\ ~imu_misled'
      BY <3>2, <3>3, <3>4, Zenon
    <3> QED BY <1>1, <3>1, <3>5 DEF ImuFlags
  <2> QED BY <2>1, <2>2
<1>5. PICK step \in {"log", "idle"} : Imu!Goto(c, step)
  BY DEF Imu!EnableExti, Imu!Log
<1>6. /\ imu_pc' \in [Imu!Contexts -> {"idle", "read", "start", "failed", "unroute",
                                       "clear", "route", "kick", "enable", "log"}]
      /\ imu_pc'[c] = step /\ \A d \in Imu!Contexts \ {c} : imu_pc'[d] = imu_pc[d]
  BY <1>1, <1>5, ImuGoes DEF ImuPlaces
<1>7. \A d \in Imu!Contexts : ~Imu!Recovers(d) /\ ~Imu!Recovers(d)'
  <2>1. \A d \in Imu!Contexts \ {c} : ~Imu!Recovers(d)
    BY <1>3, ImuAlone
  <2> QED BY <1>3, <1>6, <2>1 DEF Imu!Recovers
<1>8. \A d \in {"task", "exti"} : Underway(d)' <=> Underway(d)
  BY <1>2, <1>3, <1>6 DEF Underway
<1>9. ImuPlaces'
  BY <1>1, <1>2, <1>3, <1>6 DEF ImuPlaces
<1>10. ImuFlags'
  BY <1>1, <1>3, <1>4 DEF ImuFlags
<1>11. OneTransfer' /\ RecoversAlone'
  BY <1>1, <1>2, <1>3, <1>7, <1>8 DEF ImuBus, OneTransfer, RecoversAlone, Recovering
<1>12. imu_task \in {"read", "running", "masked", "waiting"} /\ imu_imuState = "ACTIVE"
  BY <1>1, <1>2, <1>3 DEF ImuBus, QuietAround, ImuPlaces
<1>13. ReadsHandled' /\ QuietAround'
  BY <1>1, <1>3, <1>12 DEF ImuBus, ReadsHandled, QuietAround
<1>14. Imu!SpiExclusive'
  BY <1>3, <1>7, <1>12 DEF Imu!SpiExclusive
<1>15. Waits' => Imu!ReadComes'
  <2> SUFFICES ASSUME Waits' PROVE Imu!ReadComes'
    OBVIOUS
  <2>1. Waits
    BY <1>3 DEF Waits, Imu!Pin
  <2>2. Imu!ReadComes
    BY <1>1, <2>1 DEF ImuEdges
  <2>3. imu_pc["exti"] = "read" => imu_pc'["exti"] = "read"
    BY <1>2, <1>3, <1>6
  <2>4. \A d \in Imu!Contexts : imu_pc[d] = "start" => imu_pc'[d] = "start"
    BY <1>3, <1>6
  <2>5. \A d \in Imu!Contexts : imu_pc[d] = "enable" => imu_extiOn' \/ imu_pc'[d] = "enable"
    BY <1>4, <1>6
  <2>6. CASE imu_extiFlag
    BY <1>3, <1>4, <2>2, <2>3, <2>4, <2>5, <2>6, <1>7 DEF Imu!ReadComes
  <2>7. CASE ~imu_extiFlag
    BY <1>3, <2>2, <2>3, <2>4, <2>7, <1>7 DEF Imu!ReadComes
  <2> QED BY <2>6, <2>7
<1>16. Unmasked'
  BY <1>1, <1>3, <1>4, <1>6, <1>7 DEF ImuEdges, Unmasked, Recovering
<1>17. FailureKnown'
  BY <1>1, <1>3, <1>6 DEF ImuEdges, FailureKnown
<1>18. ImuRows'
  BY <1>1, <1>2, <1>3, <1>4, <1>6 DEF ImuRows, RowKnown
<1> QED BY <1>9, <1>10, <1>11, <1>13, <1>14, <1>15, <1>16, <1>17, <1>18
    DEF ImuInv, ImuBus, ImuEdges

(* A step of FS_IMU_Start or FS_IMU_Stop that begins no read. *)
LEMMA ImuTask ==
  ASSUME ImuInv, \A c \in Imu!Contexts : imu_pc[c] = "idle", ImuFlags', ReadsHandled',
         imu_imuState' \in {"READY", "ACTIVE"},
         imu_task' \in {"ready", "cleared", "route", "rate", "configure", "handle", "read",
                        "running", "masked", "waiting", "reset", "clear"},
         imu_task' = "running" => imu_imuState' = "READY",
         imu_task' \notin {"read", "running", "masked", "waiting"} \/ imu_imuState' = "READY" =>
           ~imu_busy,
         imu_task' \in {"route", "rate", "configure", "handle", "read"} => imu_extiOn',
         UNCHANGED <<imu_busy, imu_enableLoggingCb, imu_dma, imu_pc, imu_shouldLog, imu_asked,
                     imu_due, imu_misled>>
  PROVE  ImuInv'
<1>1. ImuPlaces /\ ImuFlags /\ ImuBus /\ ImuEdges /\ ImuRows
  BY DEF ImuInv
<1>2. \A c \in Imu!Contexts : ~Imu!Recovers(c)'
  BY DEF Imu!Recovers
<1>3. ImuPlaces'
  BY <1>1 DEF ImuPlaces
<1>4. OneTransfer' /\ RecoversAlone'
  BY <1>1, <1>2 DEF ImuBus, OneTransfer, RecoversAlone, Recovering, Underway, Imu!Contexts
<1>5. QuietAround'
  BY DEF QuietAround, Imu!Contexts
<1>6. Imu!SpiExclusive'
  BY <1>1, <1>2 DEF ImuBus, OneTransfer, Imu!SpiExclusive
<1>7. ~Waits' /\ FailureKnown'
  BY DEF Waits, FailureKnown
<1>8. Unmasked'
  BY DEF Unmasked
<1>9. ImuRows'
  BY <1>1 DEF ImuRows, RowKnown
<1> QED BY <1>3, <1>4, <1>5, <1>6, <1>7, <1>8, <1>9 DEF ImuInv, ImuBus, ImuEdges

(* FS_IMU_Start. *)
LEMMA ImuStarts ==
  ASSUME ImuInv, Imu!Start
  PROVE  ImuInv'
<1>1. ImuPlaces /\ ImuFlags /\ ReadsHandled /\ QuietAround /\ Unmasked
  BY DEF ImuInv, ImuBus, ImuEdges
<1>2. \A c \in Imu!Contexts : imu_pc[c] = "idle"
  BY DEF Imu!Start, Imu!StartClears, Imu!StartEnables, Imu!StartRoutes, Imu!StartRate,
    Imu!StartFails, Imu!StartActivates, Imu!StartHandles, Imu!StartReads, Imu!ClearInt1,
    Imu!TaskAt, Imu!Idle
<1>3. \/ imu_task \in {"route", "rate", "configure"}
      \/ imu_imuState = "ACTIVE" /\ imu_task \in {"handle", "read", "running"}
      => imu_extiOn
  BY <1>1, <1>2 DEF Unmasked, Recovering, Imu!Recovers
<1>4. CASE Imu!StartClears
  <2>1. /\ imu_task = "ready" /\ imu_task' = "cleared"
        /\ imu_drdy' \in IF Imu!Pin THEN {TRUE, FALSE} ELSE {imu_drdy}
        /\ imu_failed' = FALSE
        /\ UNCHANGED <<imu_imuState, imu_busy, imu_handleRead, imu_enableLoggingCb,
                       imu_overrunPending, imu_routed, imu_sampling, imu_extiOn,
                       imu_extiFlag, imu_dma, imu_pc, imu_shouldLog, imu_asked, imu_due,
                       imu_misled>>
    BY <1>4 DEF Imu!StartClears, Imu!ClearInt1, Imu!TaskAt, Imu!driver, Imu!exti, Imu!rows
  <2>2. imu_drdy' \in BOOLEAN /\ imu_failed' \in BOOLEAN
    BY <1>1, <2>1 DEF ImuFlags
  <2>3. ImuFlags'
    BY <1>1, <2>1, <2>2 DEF ImuFlags
  <2>4. ReadsHandled' /\ imu_imuState = "READY" /\ ~imu_busy
    BY <1>1, <2>1 DEF ReadsHandled, QuietAround, ImuPlaces
  <2> QED BY <1>2, <2>1, <2>3, <2>4, ImuTask
<1>5. CASE Imu!StartEnables
  <2>1. /\ imu_task = "cleared" /\ imu_task' = "route"
        /\ imu_extiFlag' = FALSE /\ imu_extiOn' = TRUE
        /\ UNCHANGED <<imu_imuState, imu_busy, imu_handleRead, imu_enableLoggingCb,
                       imu_overrunPending, imu_drdy, imu_routed, imu_sampling, imu_dma,
                       imu_pc, imu_shouldLog, imu_failed, imu_asked, imu_due, imu_misled>>
    BY <1>5 DEF Imu!StartEnables, Imu!TaskAt, Imu!driver, Imu!sensor, Imu!rows
  <2>2. ImuFlags' /\ imu_extiOn'
    <3>1. imu_extiOn' \in BOOLEAN /\ imu_extiFlag' \in BOOLEAN
      BY <2>1, Zenon
    <3>2. imu_extiOn'
      BY <2>1, Zenon
    <3> QED BY <1>1, <2>1, <3>1, <3>2 DEF ImuFlags
  <2>3. ReadsHandled' /\ imu_imuState = "READY" /\ ~imu_busy
    BY <1>1, <2>1 DEF ReadsHandled, QuietAround, ImuPlaces
  <2> QED BY <1>2, <2>1, <2>2, <2>3, ImuTask
<1>6. CASE Imu!StartRoutes
  <2>1. /\ imu_task = "route" /\ imu_task' = "rate"
        /\ imu_routed' = TRUE /\ Imu!Edge(imu_drdy)
        /\ UNCHANGED <<imu_imuState, imu_busy, imu_handleRead, imu_enableLoggingCb,
                       imu_overrunPending, imu_drdy, imu_sampling, imu_extiOn, imu_dma,
                       imu_pc, imu_shouldLog, imu_failed, imu_asked, imu_due, imu_misled>>
    BY <1>6 DEF Imu!StartRoutes, Imu!TaskAt, Imu!driver, Imu!rows
  <2>2. imu_extiFlag' \in BOOLEAN
    <3>1. imu_drdy \in BOOLEAN
      BY <1>1 DEF ImuFlags
    <3> QED BY <1>1, <2>1, <3>1, ImuEdge
  <2>3. ImuFlags'
    <3>1. imu_routed' \in BOOLEAN
      BY <2>1, Zenon
    <3> QED BY <1>1, <2>1, <2>2, <3>1 DEF ImuFlags
  <2>4. ReadsHandled' /\ imu_imuState = "READY" /\ ~imu_busy
    BY <1>1, <2>1 DEF ReadsHandled, QuietAround, ImuPlaces
  <2> QED BY <1>2, <1>3, <2>1, <2>3, <2>4, ImuTask
<1>7. CASE Imu!StartRate
  <2>1. /\ imu_task = "rate" /\ imu_task' = "configure" /\ imu_sampling' = TRUE
        /\ UNCHANGED <<imu_imuState, imu_busy, imu_handleRead, imu_enableLoggingCb,
                       imu_overrunPending, imu_drdy, imu_routed, imu_extiOn, imu_extiFlag,
                       imu_dma, imu_pc, imu_shouldLog, imu_failed, imu_asked, imu_due,
                       imu_misled>>
    BY <1>7 DEF Imu!StartRate, Imu!TaskAt, Imu!driver, Imu!exti, Imu!rows
  <2>2. ImuFlags'
    <3>1. imu_sampling' \in BOOLEAN
      BY <2>1, Zenon
    <3> QED BY <1>1, <2>1, <3>1 DEF ImuFlags
  <2>3. ReadsHandled' /\ imu_imuState = "READY" /\ ~imu_busy
    BY <1>1, <2>1 DEF ReadsHandled, QuietAround, ImuPlaces
  <2> QED BY <1>2, <1>3, <2>1, <2>2, <2>3, ImuTask
<1>8. CASE Imu!StartFails
  <2>1. /\ imu_task \in {"route", "rate", "configure"} /\ imu_task' = "running"
        /\ imu_extiOn' = FALSE
        /\ UNCHANGED <<imu_imuState, imu_busy, imu_handleRead, imu_enableLoggingCb,
                       imu_overrunPending, imu_drdy, imu_routed, imu_sampling, imu_extiFlag,
                       imu_dma, imu_pc, imu_shouldLog, imu_failed, imu_asked, imu_due,
                       imu_misled>>
    BY <1>8 DEF Imu!StartFails, Imu!TaskAt, Imu!driver, Imu!sensor, Imu!rows
  <2>2. ImuFlags'
    <3>1. imu_extiOn' \in BOOLEAN
      BY <2>1, Zenon
    <3> QED BY <1>1, <2>1, <3>1 DEF ImuFlags
  <2>3. ReadsHandled' /\ imu_imuState = "READY" /\ ~imu_busy
    BY <1>1, <2>1 DEF ReadsHandled, QuietAround, ImuPlaces
  <2> QED BY <1>2, <2>1, <2>2, <2>3, ImuTask
<1>9. CASE Imu!StartActivates
  <2>1. /\ imu_task = "configure" /\ imu_task' = "handle" /\ imu_imuState' = "ACTIVE"
        /\ UNCHANGED <<imu_busy, imu_handleRead, imu_enableLoggingCb, imu_overrunPending,
                       imu_drdy, imu_routed, imu_sampling, imu_extiOn, imu_extiFlag,
                       imu_dma, imu_pc, imu_shouldLog, imu_failed, imu_asked, imu_due,
                       imu_misled>>
    BY <1>9 DEF Imu!StartActivates, Imu!TaskAt, Imu!sensor, Imu!exti, Imu!rows
  <2>2. ImuFlags'
    BY <1>1, <2>1 DEF ImuFlags
  <2>3. ReadsHandled' /\ ~imu_busy
    BY <1>1, <2>1 DEF ReadsHandled, QuietAround
  <2> QED BY <1>2, <1>3, <2>1, <2>2, <2>3, ImuTask
<1>10. CASE Imu!StartHandles
  <2>1. /\ imu_task = "handle" /\ imu_task' = "read" /\ imu_handleRead' = TRUE
        /\ UNCHANGED <<imu_imuState, imu_busy, imu_enableLoggingCb, imu_overrunPending,
                       imu_drdy, imu_routed, imu_sampling, imu_extiOn, imu_extiFlag,
                       imu_dma, imu_pc, imu_shouldLog, imu_failed, imu_asked, imu_due,
                       imu_misled>>
    BY <1>10 DEF Imu!StartHandles, Imu!TaskAt, Imu!sensor, Imu!exti, Imu!rows
  <2>2. ImuFlags' /\ imu_handleRead'
    <3>1. imu_handleRead' \in BOOLEAN
      BY <2>1, Zenon
    <3>2. imu_handleRead'
      BY <2>1, Zenon
    <3> QED BY <1>1, <2>1, <3>1, <3>2 DEF ImuFlags
  <2>3. ReadsHandled' /\ imu_imuState = "ACTIVE" /\ ~imu_busy
    BY <1>1, <2>1, <2>2 DEF ReadsHandled, QuietAround
  <2> QED BY <1>2, <1>3, <2>1, <2>2, <2>3, ImuTask
<1>11. CASE Imu!StartReads
  <2>1. /\ imu_task = "read" /\ imu_task' = "running" /\ Imu!Begin("task", FALSE)
        /\ UNCHANGED <<imu_imuState, imu_handleRead, imu_drdy, imu_routed, imu_sampling,
                       imu_extiOn, imu_extiFlag, imu_dma, imu_shouldLog, imu_failed,
                       imu_asked, imu_due, imu_misled>>
    BY <1>11 DEF Imu!StartReads, Imu!TaskAt, Imu!sensor, Imu!exti, Imu!rows
  <2>2. imu_imuState = "ACTIVE" /\ imu_handleRead
    BY <1>1, <2>1 DEF ReadsHandled
  <2>3. imu_pc["task"] = "idle" /\ \A h \in Imu!Above["task"] : imu_pc[h] = "idle"
    BY <1>2 DEF Imu!Contexts, Imu!Above
  <2> QED BY <2>1, <2>2, <2>3, ImuBegins
<1> QED BY <1>4, <1>5, <1>6, <1>7, <1>8, <1>9, <1>10, <1>11 DEF Imu!Start

(* FS_IMU_Stop. *)
LEMMA ImuStops ==
  ASSUME ImuInv, Imu!Stop
  PROVE  ImuInv'
<1>1. ImuPlaces /\ ImuFlags /\ ReadsHandled /\ QuietAround /\ Unmasked
  BY DEF ImuInv, ImuBus, ImuEdges
<1>2. \A c \in Imu!Contexts : imu_pc[c] = "idle"
  BY DEF Imu!Stop, Imu!StopMasks, Imu!StopHandling, Imu!StopWaited, Imu!StopResets,
    Imu!StopClears, Imu!ClearInt1, Imu!TaskAt, Imu!Idle
<1>3. CASE Imu!StopMasks
  <2>1. /\ imu_task = "running" /\ imu_task' = "masked" /\ imu_extiOn' = FALSE
        /\ UNCHANGED <<imu_imuState, imu_busy, imu_handleRead, imu_enableLoggingCb,
                       imu_overrunPending, imu_drdy, imu_routed, imu_sampling, imu_extiFlag,
                       imu_dma, imu_pc, imu_shouldLog, imu_failed, imu_asked, imu_due,
                       imu_misled>>
    BY <1>3 DEF Imu!StopMasks, Imu!TaskAt, Imu!driver, Imu!sensor, Imu!rows
  <2>2. ImuFlags'
    <3>1. imu_extiOn' \in BOOLEAN
      BY <2>1, Zenon
    <3> QED BY <1>1, <2>1, <3>1 DEF ImuFlags
  <2>3. ReadsHandled' /\ (imu_imuState = "READY" => ~imu_busy)
    BY <1>1, <2>1 DEF ReadsHandled, QuietAround
  <2> QED BY <1>1, <1>2, <2>1, <2>2, <2>3, ImuTask DEF ImuPlaces
<1>4. CASE Imu!StopHandling
  <2>1. /\ imu_task = "masked" /\ imu_task' = "waiting" /\ imu_handleRead' = FALSE
        /\ UNCHANGED <<imu_imuState, imu_busy, imu_enableLoggingCb, imu_overrunPending,
                       imu_drdy, imu_routed, imu_sampling, imu_extiOn, imu_extiFlag,
                       imu_dma, imu_pc, imu_shouldLog, imu_failed, imu_asked, imu_due,
                       imu_misled>>
    BY <1>4 DEF Imu!StopHandling, Imu!TaskAt, Imu!sensor, Imu!exti, Imu!rows
  <2>2. ImuFlags' /\ ~imu_handleRead'
    <3>1. imu_handleRead' \in BOOLEAN
      BY <2>1, Zenon
    <3>2. ~imu_handleRead'
      BY <2>1, Zenon
    <3> QED BY <1>1, <2>1, <3>1, <3>2 DEF ImuFlags
  <2>3. ReadsHandled' /\ (imu_imuState = "READY" => ~imu_busy)
    BY <1>1, <2>1, <2>2 DEF ReadsHandled, QuietAround
  <2> QED BY <1>1, <1>2, <2>1, <2>2, <2>3, ImuTask DEF ImuPlaces
<1>5. CASE Imu!StopWaited
  <2>1. /\ imu_task = "waiting" /\ imu_task' = "reset" /\ ~imu_busy
        /\ UNCHANGED <<imu_imuState, imu_busy, imu_handleRead, imu_enableLoggingCb,
                       imu_overrunPending, imu_drdy, imu_routed, imu_sampling, imu_extiOn,
                       imu_extiFlag, imu_dma, imu_pc, imu_shouldLog, imu_failed, imu_asked,
                       imu_due, imu_misled>>
    BY <1>5 DEF Imu!StopWaited, Imu!TaskAt, Imu!Quiet, Imu!driver, Imu!sensor, Imu!exti,
      Imu!rows
  <2>2. ImuFlags'
    BY <1>1, <2>1 DEF ImuFlags
  <2>3. ReadsHandled'
    BY <1>1, <2>1 DEF ReadsHandled
  <2> QED BY <1>1, <1>2, <2>1, <2>2, <2>3, ImuTask DEF ImuPlaces
<1>6. CASE Imu!StopResets
  <2>1. /\ imu_task = "reset" /\ imu_task' = "clear"
        /\ UNCHANGED <<imu_imuState, imu_busy, imu_handleRead, imu_enableLoggingCb,
                       imu_overrunPending, imu_drdy, imu_extiOn, imu_extiFlag, imu_dma,
                       imu_pc, imu_shouldLog, imu_failed, imu_asked, imu_due, imu_misled>>
    BY <1>6 DEF Imu!StopResets, Imu!TaskAt, Imu!driver, Imu!exti, Imu!rows
  <2>2. imu_routed' \in BOOLEAN /\ imu_sampling' \in BOOLEAN
    BY <1>1, <1>6, Zenon DEF Imu!StopResets, ImuFlags
  <2>3. ImuFlags'
    BY <1>1, <2>1, <2>2 DEF ImuFlags
  <2>4. ReadsHandled' /\ ~imu_busy
    BY <1>1, <2>1 DEF ReadsHandled, QuietAround
  <2> QED BY <1>1, <1>2, <2>1, <2>3, <2>4, ImuTask DEF ImuPlaces
<1>7. CASE Imu!StopClears
  <2>1. /\ imu_task = "clear" /\ imu_task' = "ready" /\ imu_imuState' = "READY"
        /\ imu_drdy' \in IF Imu!Pin THEN {TRUE, FALSE} ELSE {imu_drdy}
        /\ UNCHANGED <<imu_busy, imu_handleRead, imu_enableLoggingCb, imu_overrunPending,
                       imu_routed, imu_sampling, imu_extiOn, imu_extiFlag, imu_dma, imu_pc,
                       imu_shouldLog, imu_failed, imu_asked, imu_due, imu_misled>>
    BY <1>7 DEF Imu!StopClears, Imu!ClearInt1, Imu!TaskAt, Imu!exti, Imu!rows
  <2>2. imu_drdy' \in BOOLEAN
    BY <1>1, <2>1 DEF ImuFlags
  <2>3. ImuFlags'
    BY <1>1, <2>1, <2>2 DEF ImuFlags
  <2>4. ReadsHandled' /\ ~imu_busy
    BY <1>1, <2>1 DEF ReadsHandled, QuietAround
  <2> QED BY <1>2, <2>1, <2>3, <2>4, ImuTask
<1> QED BY <1>3, <1>4, <1>5, <1>6, <1>7 DEF Imu!Stop

(* As long as no access to the sensor fails the driver of the IMU is never   *)
(* left waiting for an edge that cannot come; and, failures or not, its      *)
(* register accesses never meet a transfer and a row is logged exactly for   *)
(* each sample that its interrupt asked for (imu.c).                         *)
THEOREM ReaderAlwaysSafe == Imu!Spec => []ReaderSafe
<1>1. Imu!Init => ImuInv
  <2> SUFFICES ASSUME Imu!Init PROVE ImuInv
    OBVIOUS
  <2>1. /\ imu_imuState = "READY" /\ imu_dma = "none" /\ imu_task = "ready"
        /\ imu_pc = [c \in Imu!Contexts |-> "idle"]
    BY DEF Imu!Init
  <2>2. /\ ImuFlags /\ ~imu_busy /\ ~imu_handleRead /\ ~imu_misled
        /\ ~imu_shouldLog /\ ~imu_due
    BY Zenon DEF Imu!Init, ImuFlags
  <2>3. \A c \in Imu!Contexts : imu_pc[c] = "idle"
    BY <2>1
  <2>4. ImuPlaces
    BY <2>1, <2>3 DEF ImuPlaces, Imu!Contexts
  <2>5. ImuBus
    BY <2>1, <2>2, <2>3 DEF ImuBus, OneTransfer, RecoversAlone, ReadsHandled, QuietAround,
      Imu!SpiExclusive, Underway, Recovering, Imu!Recovers, Imu!Contexts
  <2>6. ImuEdges
    BY <2>1, <2>3 DEF ImuEdges, Waits, Unmasked, FailureKnown
  <2>7. ImuRows
    BY <2>1, <2>2, <2>3 DEF ImuRows, RowKnown, Imu!Contexts
  <2> QED BY <2>2, <2>4, <2>5, <2>6, <2>7 DEF ImuInv
<1>2. ImuInv /\ [Imu!Next]_(Imu!vars) => ImuInv'
  <2> SUFFICES ASSUME ImuInv, [Imu!Next]_(Imu!vars) PROVE ImuInv'
    OBVIOUS
  <2>1. CASE Imu!Interrupts
    <3>1. CASE \E c \in Imu!Contexts : Imu!Runs(c)
      BY <3>1, ImuTransfers, ImuStartFails, ImuRecovery, ImuKicks, ImuFinishes DEF Imu!Runs
    <3> QED BY <2>1, <3>1, ImuExti, ImuRead, ImuEnds DEF Imu!Interrupts
  <2>2. CASE UNCHANGED Imu!vars
    <3>1. UNCHANGED <<imu_imuState, imu_busy, imu_handleRead, imu_enableLoggingCb,
                      imu_overrunPending, imu_drdy, imu_routed, imu_sampling, imu_extiOn,
                      imu_extiFlag, imu_dma, imu_pc, imu_task, imu_shouldLog, imu_failed,
                      imu_asked, imu_due, imu_misled>>
      BY <2>2 DEF Imu!vars, Imu!driver, Imu!sensor, Imu!exti, Imu!rows
    <3>2. ImuPlaces' /\ ImuFlags' /\ ImuRows'
      BY <3>1 DEF ImuInv, ImuPlaces, ImuFlags, ImuRows, RowKnown
    <3>3. ImuBus'
      BY <3>1 DEF ImuInv, ImuBus, OneTransfer, RecoversAlone, ReadsHandled, QuietAround,
        Imu!SpiExclusive, Underway, Recovering, Imu!Recovers
    <3>4. ImuEdges'
      BY <3>1 DEF ImuInv, ImuEdges, Waits, Imu!Pin, Imu!ReadComes, Unmasked, FailureKnown,
        Recovering, Imu!Recovers
    <3> QED BY <3>2, <3>3, <3>4 DEF ImuInv
  <2> QED BY <2>1, <2>2, ImuStarts, ImuStops, ImuHardware DEF Imu!Next
<1> QED BY <1>1, <1>2, ImuSafe, PTL DEF Imu!Spec


(***************************************************************************)
(* The parts together                                                      *)
(***************************************************************************)
(* A step is of one part, and leaves the variables of the others.            *)
LEMMA OneDriverMoves ==
  ASSUME [MCNext]_all
  PROVE  /\ Next \/ UNCHANGED vars
         /\ Imu!Next \/ UNCHANGED imu_vars
         /\ Start!Next \/ UNCHANGED start_vars
         /\ Btn!Next \/ UNCHANGED btn_vars
         /\ Audio!Next \/ UNCHANGED audio_vars
         /\ Glasses!Next \/ UNCHANGED al_vars
         /\ Gnss!Next \/ UNCHANGED gnss_vars
BY DEF MCNext, ButBus, ButImu, ButStart, ButBtn, ButAudio, ButGlasses, ButGnss, all

LEMMA DriversBegin ==
  MCInit => /\ Init /\ Imu!Init /\ Start!Init /\ Btn!Init /\ Audio!Init
            /\ Glasses!Init /\ Gnss!Init
BY DEF MCInit

(* Each part behaves as its own module says, whatever is composed with it:   *)
(* what is proved of a part holds of the whole.                              *)
LEMMA DriversImplemented ==
  MCSpec => /\ Spec /\ Imu!Spec /\ Start!Spec /\ Btn!Spec /\ Audio!Spec
            /\ Glasses!Spec /\ Gnss!Spec
<1>1. [MCNext]_all => [Next]_vars
  BY OneDriverMoves
<1>2. [MCNext]_all => [Imu!Next]_(Imu!vars)
  <2>1. UNCHANGED imu_vars => UNCHANGED Imu!vars
    BY DEF imu_vars, Imu!vars, Imu!driver, Imu!sensor, Imu!exti, Imu!rows
  <2> QED BY <2>1, OneDriverMoves
<1>3. [MCNext]_all => [Start!Next]_(Start!vars)
  <2>1. UNCHANGED start_vars => UNCHANGED Start!vars
    BY DEF start_vars, Start!vars
  <2> QED BY <2>1, OneDriverMoves
<1>4. [MCNext]_all => [Btn!Next]_(Btn!vars)
  <2>1. UNCHANGED btn_vars => UNCHANGED Btn!vars
    BY DEF btn_vars, Btn!vars
  <2> QED BY <2>1, OneDriverMoves
<1>5. [MCNext]_all => [Audio!Next]_(Audio!vars)
  <2>1. UNCHANGED audio_vars => UNCHANGED Audio!vars
    BY DEF audio_vars, Audio!vars, Audio!control, Audio!stream, Audio!sending, Audio!sched,
           Audio!task, Audio!marks
  <2> QED BY <2>1, OneDriverMoves
<1>6. [MCNext]_all => [Glasses!Next]_(Glasses!vars)
  <2>1. UNCHANGED al_vars => UNCHANGED Glasses!vars
    BY DEF al_vars, Glasses!vars, Glasses!display, Glasses!tasks, Glasses!client, Glasses!air,
           Glasses!bounds, Glasses!history
  <2> QED BY <2>1, OneDriverMoves
<1>7. [MCNext]_all => [Gnss!Next]_(Gnss!vars)
  <2>1. UNCHANGED gnss_vars => UNCHANGED Gnss!vars
    BY DEF gnss_vars, Gnss!vars, Gnss!ring, Gnss!config, Gnss!task, Gnss!data, Gnss!time,
           Gnss!receiver
  <2> QED BY <2>1, OneDriverMoves
<1> QED BY <1>1, <1>2, <1>3, <1>4, <1>5, <1>6, <1>7, DriversBegin, PTL
        DEF MCSpec, Spec, Imu!Spec, Start!Spec, Btn!Spec, Audio!Spec, Glasses!Spec, Gnss!Spec

(* What the drivers promise they promise together, with the same exceptions: *)
(* the whole composition has the properties that are proved of its parts     *)
(* (sensor.c, imu.c, button.c, audio.c, start_control.c).                    *)
THEOREM DriversAlwaysSafe ==
  MCSpec => [](BusSafe /\ ReaderSafe /\ ButtonSafe /\ PlaybackSafe) /\ CountdownSafe
BY DriversImplemented, BusAlwaysSafe, ReaderAlwaysSafe, ButtonAlwaysSafe, PlaybackAlwaysSafe,
   CountdownAlwaysSafe, PTL
=============================================================================
