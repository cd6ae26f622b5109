-------------------------- MODULE UsbStorageCache --------------------------
(***************************************************************************)
(* The cache between the USB host and the microSD card                     *)
(* (FlySight/usb_storage_cache.c, USB_Device/App/usbd_storage_if.c).       *)
(*                                                                         *)
(* The cache holds one aligned group of blocks, either read from the card  *)
(* (READ) or being written by the host (WRITE, with a mask of the blocks   *)
(* that were).  Host commands are executed in the USB interrupt, one after *)
(* the other; a command is cut here into one step for each group it        *)
(* touches.  When the cable is pulled a task flushes the cache, shuts the  *)
(* device down and flushes again.  The interrupt can fall into that flush  *)
(* if the cable is back by then.                                           *)
(***************************************************************************)
EXTENDS Integers, FiniteSets

CONSTANTS
  Group,       \* USB_STORAGE_CACHE_BLOCK_COUNT
  Capacity,    \* blocks of the card
  Values,      \* what a block can hold
  Replug,      \* the cable can come back while the task shuts the device down
  MaxRequests, \* bound: host commands
  MaxFaults    \* bound: errors of the card and losses of power

ASSUME SizeAssumption == Group \in Nat \ {0} /\ Capacity \in Nat \ {0}
ASSUME ModelAssumption ==
  /\ 0 \in Values /\ Replug \in BOOLEAN
  /\ MaxRequests \in Nat /\ MaxFaults \in Nat

VARIABLES
  cacheMode, cacheBaseBlock, cacheBlockCount,
  cacheDirtyMask,  \* the set of dirty offsets
  cacheTotalBlocks,
  cacheActive,     \* the scratch buffer is held by the cache
  cache,           \* the scratch buffer: offset -> value
  card,            \* block -> value
  request,         \* the host command in execution
  task, run,       \* FS_USBMode_DeInit, and the blocks its flush is writing
  plugged,
  requests, faults,\* counters for the bounds
  answer,          \* history: what the last read returned
  stable, touched, \* history: the disk when it was last synchronised, and
                   \* the blocks written since
  raced,           \* history: a command was executed during that flush
  losses           \* history: how often the power was lost

cacheVars == <<cacheMode, cacheBaseBlock, cacheBlockCount, cacheDirtyMask,
               cacheTotalBlocks, cacheActive, cache>>
taskVars  == <<task, run, plugged>>
histVars  == <<answer, stable, touched, raced, losses>>
vars == <<cacheVars, card, request, taskVars, requests, faults, histVars>>

Offsets == 0..(Group - 1)
Blocks  == 0..(Capacity - 1)
NoRequest == [op |-> "none", addr |-> 0, left |-> 0, value |-> 0]
NoRun     == [base |-> 0, offsets |-> {}]

Least(a, b)  == IF a <= b THEN a ELSE b
BaseBlock(b) == b - (b % Group)

BlockCount(base) == Least(Group, Capacity - base)

BlockMask(count) == 0..(count - 1)

NeedsFlush == cacheMode = "WRITE" /\ cacheDirtyMask # {}
Fault      == faults < MaxFaults /\ faults' = faults + 1
Between    == request.op = "none"

(* The card with the offsets of the cache written to it *)
Written(offsets, base, buffer) ==
  [b \in Blocks |-> IF (b - base) \in offsets THEN buffer[b - base] ELSE card[b]]

(* What the host sees *)
View == IF NeedsFlush THEN Written(cacheDirtyMask, cacheBaseBlock, cache) ELSE card

(* A run: dirty offsets without a gap, written by one command to the card. *)
RunFrom(s, dirty) == {o \in dirty : o >= s /\ s..o \subseteq dirty}
RunStarts(dirty)  == {o \in dirty : (o - 1) \notin dirty}

-----------------------------------------------------------------------------
(* Mutant of FlushDone: only a full group is flushed. *)
FlushForgotten == UNCHANGED <<card, faults>>

(* FS_USBStorageCache_Flush, uninterrupted.  When the card fails, the runs   *)
(* before the failing one are written and clean, any part of the failing one *)
(* may be written, and all of it is still dirty.                             *)
FlushDone == card' = View /\ UNCHANGED faults

FlushFails ==
  /\ NeedsFlush
  /\ Fault
  /\ \E s \in RunStarts(cacheDirtyMask) :
       LET before == {o \in cacheDirtyMask : o < s}
       IN /\ \E part \in SUBSET RunFrom(s, cacheDirtyMask) :
               card' = Written(before \union part, cacheBaseBlock, cache)
          /\ cacheDirtyMask' = cacheDirtyMask \ before
  /\ UNCHANGED <<cacheMode, cacheBaseBlock, cacheBlockCount, cacheTotalBlocks, cache>>

(* FS_USBStorageCache_Reset *)
Reset ==
  /\ cacheMode' = "INVALID" /\ cacheBaseBlock' = 0 /\ cacheBlockCount' = 0
  /\ cacheDirtyMask' = {} /\ cacheTotalBlocks' = 0

-----------------------------------------------------------------------------
(* Host commands: STORAGE_Read_FS and STORAGE_Write_FS. *)

(* EnsureCapacity.  The USB library has checked the range. *)
HostCommands ==
  /\ Between /\ plugged
  /\ requests < MaxRequests /\ requests' = requests + 1
  /\ cacheActive
  /\ raced' = (raced \/ task # "none")
  /\ \E op \in {"read", "write"}, first, last \in Blocks, v \in Values :
       /\ first <= last /\ (op = "read" => v = 0)
       /\ \/ /\ request' = [op |-> op, addr |-> first, left |-> last - first + 1,
                            value |-> v]
             /\ cacheTotalBlocks' = Capacity
             /\ UNCHANGED faults
          \/ /\ cacheTotalBlocks = 0 /\ Fault   \* BSP_SD_GetCardInfo fails
             /\ UNCHANGED <<request, cacheTotalBlocks>>
  /\ UNCHANGED <<cacheMode, cacheBaseBlock, cacheBlockCount, cacheDirtyMask, cacheActive,
                 cache, card, taskVars, answer, stable, touched, losses>>

Group0   == BaseBlock(request.addr)
Caches(m) == cacheMode = m /\ cacheBaseBlock = Group0
Chunk    == Least(request.left, cacheBlockCount - (request.addr - cacheBaseBlock))
ChunkOffsets == (request.addr - cacheBaseBlock)..(request.addr - cacheBaseBlock + Chunk - 1)
(* Mutant of Advance: a command that is done is not ended. *)
AdvanceOn == request' = [request EXCEPT !.addr = @ + Chunk, !.left = @ - Chunk]

Advance  == request' = IF request.left = Chunk THEN NoRequest
                       ELSE [request EXCEPT !.addr = @ + Chunk, !.left = @ - Chunk]

(* Mutant of Takes: the mask of the group before is kept. *)
TakesDirty(m) ==
  /\ cacheMode' = m
  /\ cacheBaseBlock' = Group0 /\ cacheBlockCount' = BlockCount(Group0)
  /\ UNCHANGED <<cacheDirtyMask, cacheTotalBlocks>>

(* The cache takes the group of the request. *)
Takes(m) ==
  /\ cacheMode' = m
  /\ cacheBaseBlock' = Group0 /\ cacheBlockCount' = BlockCount(Group0)
  /\ cacheDirtyMask' = {}
  /\ UNCHANGED cacheTotalBlocks

(* Mutant of Spoilt: the result of the card is not looked at. *)
SpoiltUnseen == Takes("READ")

(* A group that was read in part is not kept. *)
Spoilt == Reset

(* FS_USBStorageCache_LoadReadCache flushes what the host wrote first. *)
LoadReadCache ==
  /\ request.op = "read" /\ ~Caches("READ")
  /\ FlushDone /\ Takes("READ")
  /\ cache' = [o \in Offsets |-> IF o < cacheBlockCount' THEN card'[Group0 + o] ELSE cache[o]]
  /\ UNCHANGED <<cacheActive, request, taskVars, requests, histVars>>

(* The card fails while it is read: some of the group is overwritten. *)
LoadFails ==
  /\ request.op = "read" /\ ~Caches("READ")
  /\ card' = View /\ Fault
  /\ Spoilt
  /\ cache' \in [Offsets -> Values]
  /\ request' = NoRequest
  /\ UNCHANGED <<cacheActive, taskVars, requests, histVars>>

ReadChunk ==
  /\ request.op = "read" /\ Caches("READ")
  /\ answer' = [b \in {cacheBaseBlock + o : o \in ChunkOffsets} |-> cache[b - cacheBaseBlock]]
  /\ Advance
  /\ UNCHANGED <<cacheVars, card, taskVars, requests, faults, stable, touched, raced, losses>>

EnsureWriteCache ==
  /\ request.op = "write" /\ ~Caches("WRITE")
  /\ FlushDone /\ Takes("WRITE")
  /\ UNCHANGED <<cacheActive, cache, request, taskVars, requests, histVars>>

(* A group that is wholly written is flushed at once. *)
WriteChunk ==
  /\ request.op = "write" /\ Caches("WRITE")
  /\ cache' = [o \in Offsets |-> IF o \in ChunkOffsets THEN request.value ELSE cache[o]]
  /\ touched' = touched \union {cacheBaseBlock + o : o \in ChunkOffsets}
  /\ LET dirty == cacheDirtyMask \union ChunkOffsets IN
     IF dirty = BlockMask(cacheBlockCount)
     THEN \/ /\ card' = Written(dirty, cacheBaseBlock, cache')
             /\ cacheDirtyMask' = {}
             /\ Advance
             /\ UNCHANGED faults
          \/ /\ Fault
             /\ \E part \in SUBSET dirty : card' = Written(part, cacheBaseBlock, cache')
             /\ cacheDirtyMask' = dirty
             /\ request' = NoRequest
     ELSE /\ cacheDirtyMask' = dirty
          /\ Advance
          /\ UNCHANGED <<card, faults>>
  /\ UNCHANGED <<cacheMode, cacheBaseBlock, cacheBlockCount, cacheTotalBlocks,
                 cacheActive, taskVars, requests, answer, stable, raced, losses>>

(* The flush that makes room fails: the command fails. *)
RoomFails ==
  /\ \/ request.op = "read" /\ ~Caches("READ")
     \/ request.op = "write" /\ ~Caches("WRITE")
  /\ FlushFails
  /\ request' = NoRequest
  /\ UNCHANGED <<cacheActive, taskVars, requests, histVars>>

(* SYNCHRONIZE CACHE and START STOP UNIT (STORAGE_Sync_FS) *)
HostSyncs ==
  /\ Between /\ plugged
  /\ requests < MaxRequests /\ requests' = requests + 1
  /\ raced' = (raced \/ task # "none")
  /\ ~NeedsFlush \/ cacheActive
  /\ \/ /\ FlushDone
        /\ cacheDirtyMask' = {}
        /\ stable' = View /\ touched' = {}
        /\ UNCHANGED <<cacheMode, cacheBaseBlock, cacheBlockCount, cacheTotalBlocks, cache>>
     \/ FlushFails /\ UNCHANGED <<stable, touched>>
  /\ UNCHANGED <<cacheActive, request, taskVars, answer, losses>>

(* SET CONFIGURATION (STORAGE_Init_FS, FS_USBStorageCache_Init): what an     *)
(* earlier configuration left is flushed before the cache is reset.          *)
HostConfigures ==
  /\ Between /\ plugged
  /\ requests < MaxRequests /\ requests' = requests + 1
  /\ raced' = (raced \/ task # "none")
  /\ \/ /\ FlushDone /\ Reset
        /\ cacheActive' = TRUE
        /\ UNCHANGED cache
     \/ /\ FlushFails
        /\ cacheActive' = FALSE
  /\ UNCHANGED <<request, taskVars, answer, stable, touched, losses>>

-----------------------------------------------------------------------------
(* FS_USBMode_DeInit.  The host's commands run to completion in the          *)
(* interrupt, so the task moves between them only.                           *)

TaskOnly == UNCHANGED <<request, requests, answer, raced, losses>>

Unplug ==
  /\ Between /\ plugged
  /\ plugged' = FALSE
  /\ task' = IF task = "none" THEN "flush" ELSE task
  /\ TaskOnly /\ UNCHANGED <<cacheVars, card, run, faults, stable, touched>>

Plug ==
  /\ Between /\ ~plugged
  /\ task = "off" \/ (Replug /\ task # "none")
  /\ plugged' = TRUE
  /\ task' = IF task = "off" THEN "none" ELSE task
  /\ UNCHANGED run
  /\ TaskOnly /\ UNCHANGED <<cacheVars, card, faults, stable, touched>>

(* The flush of USBD_SyncStorage, cut at each command to the card *)
TaskFlush ==
  /\ Between /\ task = "flush"
  /\ ~NeedsFlush \/ cacheActive
  /\ IF NeedsFlush
     THEN LET s == CHOOSE o \in cacheDirtyMask : \A p \in cacheDirtyMask : o <= p IN
          /\ run' = [base |-> cacheBaseBlock, offsets |-> RunFrom(s, cacheDirtyMask)]
          /\ task' = "transfer"
          /\ UNCHANGED <<stable, touched>>
     ELSE /\ task' = "deinit" /\ run' = NoRun
          /\ stable' = View /\ touched' = {}
  /\ TaskOnly /\ UNCHANGED <<cacheVars, card, plugged, faults>>

TaskTransfer ==
  /\ Between /\ task = "transfer"
  /\ card' = Written(run.offsets, run.base, cache)
  /\ task' = "clear"
  /\ TaskOnly /\ UNCHANGED <<cacheVars, run, plugged, faults, stable, touched>>

TaskClear ==
  /\ Between /\ task = "clear"
  /\ cacheDirtyMask' = cacheDirtyMask \ run.offsets
  /\ task' = "flush"
  /\ TaskOnly
  /\ UNCHANGED <<cacheMode, cacheBaseBlock, cacheBlockCount, cacheTotalBlocks, cacheActive,
                 cache, card, run, plugged, faults, stable, touched>>

(* USBD_DeInit; USBD_DeInitStorage, whose flush may fail no more. *)
TaskDeInit ==
  /\ Between /\ task = "deinit"
  /\ plugged' = FALSE
  /\ FlushDone /\ Reset
  /\ cacheActive' = FALSE
  /\ task' = "off"
  /\ TaskOnly /\ UNCHANGED <<cache, run, stable, touched>>

(* The power is lost, or Error_Handler waits for the watchdog because the    *)
(* task's flush failed.                                                      *)
PowerLoss ==
  /\ Fault
  /\ \E part \in SUBSET (IF NeedsFlush THEN cacheDirtyMask ELSE {}) :
       card' = Written(part, cacheBaseBlock, cache)
  /\ Reset
  /\ cacheActive' = FALSE /\ cache' = [o \in Offsets |-> 0]
  /\ request' = NoRequest
  /\ task' = "off" /\ run' = NoRun /\ plugged' = FALSE
  /\ losses' = losses + 1
  /\ UNCHANGED <<requests, answer, stable, touched, raced>>

-----------------------------------------------------------------------------
Init ==
  /\ cacheMode = "INVALID" /\ cacheBaseBlock = 0 /\ cacheBlockCount = 0
  /\ cacheDirtyMask = {} /\ cacheTotalBlocks = 0
  /\ cacheActive = FALSE
  /\ cache = [o \in Offsets |-> 0]
  /\ card = [b \in Blocks |-> 0]
  /\ request = NoRequest
  /\ task = "none" /\ run = NoRun /\ plugged = TRUE
  /\ requests = 0 /\ faults = 0
  /\ answer = [b \in {} |-> 0]
  /\ stable = card /\ touched = {}
  /\ raced = FALSE /\ losses = 0

Host == \/ HostCommands \/ HostSyncs \/ HostConfigures
        \/ LoadReadCache \/ LoadFails \/ ReadChunk
        \/ EnsureWriteCache \/ WriteChunk \/ RoomFails
Task == TaskFlush \/ TaskTransfer \/ TaskClear \/ TaskDeInit

Next == Host \/ Task \/ Unplug \/ Plug \/ PowerLoss

Spec == Init /\ [][Next]_vars

-----------------------------------------------------------------------------
(* Every variable has its type. *)
TypeOK ==
  /\ cacheMode \in {"INVALID", "READ", "WRITE"}
  /\ cacheBaseBlock \in Blocks /\ cacheBlockCount \in 0..Group
  /\ cacheDirtyMask \subseteq Offsets
  /\ cacheTotalBlocks \in {0, Capacity}
  /\ cacheActive \in BOOLEAN
  /\ cache \in [Offsets -> Values] /\ card \in [Blocks -> Values]
  /\ request \in [op : {"none", "read", "write"}, addr : Blocks, left : 0..Capacity,
                  value : Values]
  /\ task \in {"none", "flush", "transfer", "clear", "deinit", "off"}
  /\ run \in [base : Blocks, offsets : SUBSET Offsets]
  /\ plugged \in BOOLEAN /\ raced \in BOOLEAN
  /\ requests \in 0..MaxRequests /\ faults \in 0..MaxFaults
  /\ stable \in [Blocks -> Values] /\ touched \subseteq Blocks
  /\ losses \in 0..faults

(* What is cached lies on the card, dirty or not: a flush never writes past  *)
(* the last block, which the last group may not fill.                        *)
WithinCard ==
  /\ cacheBaseBlock % Group = 0
  /\ cacheBaseBlock + cacheBlockCount <= Capacity
  /\ \A o \in cacheDirtyMask : o < cacheBlockCount
  /\ cacheDirtyMask # {} => cacheMode = "WRITE"

(* What the cache holds for reading is what the card holds. *)
CacheCoherent ==
  ~raced /\ cacheMode = "READ" =>
    \A o \in 0..(cacheBlockCount - 1) : cache[o] = card[cacheBaseBlock + o]

(* The cache is a part of the card: within it, and, until a flush of the     *)
(* task and a command of the host overlap, what was read of it.              *)
CacheSafe ==
  TypeOK /\ WithinCard /\ CacheCoherent

(* A block that was not written since the host was last told that all is     *)
(* written holds its value on the card, through errors of the card and       *)
(* losses of power; until the flush of the task, when USB mode ends, and a   *)
(* command of the host that is back overlap (raced).                         *)
SyncedIsOnCard == ~raced => \A b \in Blocks \ touched : card[b] = stable[b]

(* To the host the card behind the cache is a disk: a read returns what was  *)
(* written last, and only what was not synchronised can be lost, until the   *)
(* task's last flush and a command of the host overlap.                      *)
Disk == INSTANCE BlockDevice WITH
          disk <- View, stable <- stable, touched <- touched, answer <- answer,
          losses <- losses, void <- raced
ImplementsDisk == Disk!Spec
=============================================================================
