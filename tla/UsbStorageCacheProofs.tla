----------------------- MODULE UsbStorageCacheProofs -----------------------
(***************************************************************************)
(* Proofs about UsbStorageCache, for every size of a group and of the      *)
(* card, every set of values and any number of commands and faults.        *)
(***************************************************************************)
EXTENDS UsbStorageCache, TLAPS

(* A cached group has the length its place gives it, and a command in        *)
(* execution lies on the card.                                               *)
HeldInv ==
  /\ cacheMode # "INVALID" => cacheBlockCount = BlockCount(cacheBaseBlock)
  /\ ~Between => request.left >= 1 /\ request.addr + request.left <= Capacity

(* A dirty block was written since the last synchronisation. *)
DirtyInv == ~raced => \A b \in Blocks : (b - cacheBaseBlock) \in cacheDirtyMask => b \in touched

(* As long as no command fell into the task's flush, what the task writes is *)
(* what the cache still holds.                                               *)
RunInv ==
  ~raced =>
    /\ task # "none" => Between
    /\ task \in {"transfer", "clear"} =>
         /\ cacheMode = "WRITE" /\ run.base = cacheBaseBlock
         /\ run.offsets \subseteq cacheDirtyMask
    /\ task = "clear" =>
         \A b \in Blocks : (b - cacheBaseBlock) \in run.offsets =>
           card[b] = cache[b - cacheBaseBlock]

MainInv == /\ TypeOK /\ WithinCard /\ CacheCoherent /\ SyncedIsOnCard
           /\ HeldInv /\ DirtyInv

IInv == MainInv /\ RunInv

-----------------------------------------------------------------------------
(* The operators of the cache. *)
LEMMA BaseFacts ==
  ASSUME NEW b \in Blocks
  PROVE  /\ BaseBlock(b) \in Blocks
         /\ BaseBlock(b) % Group = 0
         /\ b - BaseBlock(b) \in Offsets
<1>1. b \in Nat /\ b < Capacity /\ Group \in Nat \ {0}
  BY SizeAssumption DEF Blocks
<1>2. b % Group \in Offsets /\ b % Group <= b
  BY <1>1, SMTT(30) DEF Offsets
<1>3. (b - (b % Group)) % Group = 0
  BY <1>1, SMTT(60)
<1> QED BY <1>1, <1>2, <1>3, SizeAssumption DEF BaseBlock, Blocks, Offsets

LEMMA CountFacts ==
  ASSUME NEW base \in Blocks
  PROVE  /\ BlockCount(base) \in 1..Group
         /\ base + BlockCount(base) <= Capacity
         /\ \A b \in Blocks : b - base \in Offsets => b - base < BlockCount(base)
BY SizeAssumption DEF BlockCount, Least, Blocks, Offsets

LEMMA WrittenType ==
  ASSUME TypeOK, NEW offsets \in SUBSET Offsets, NEW base \in Blocks,
         NEW buffer \in [Offsets -> Values]
  PROVE  Written(offsets, base, buffer) \in [Blocks -> Values]
BY DEF Written, TypeOK

(* Block b as the host sees it *)
Seen(b) == IF (b - cacheBaseBlock) \in cacheDirtyMask THEN cache[b - cacheBaseBlock] ELSE card[b]

LEMMA ViewIs ==
  TypeOK /\ WithinCard => View = [b \in Blocks |-> Seen(b)]
<1> SUFFICES ASSUME TypeOK, WithinCard PROVE View = [b \in Blocks |-> Seen(b)]
  OBVIOUS
<1>1. CASE NeedsFlush
  BY <1>1 DEF View, Written, Seen
<1>2. CASE ~NeedsFlush
  <2>1. cacheDirtyMask = {}
    BY <1>2 DEF NeedsFlush, WithinCard
  <2>2. card = [b \in Blocks |-> card[b]]
    BY DEF TypeOK
  <2>3. View = card /\ \A b \in Blocks : Seen(b) = card[b]
    BY <1>2, <2>1 DEF View, Seen
  <2> QED BY <2>2, <2>3
<1> QED BY <1>1, <1>2

LEMMA ViewType ==
  TypeOK /\ WithinCard => View \in [Blocks -> Values]
<1> SUFFICES ASSUME TypeOK, WithinCard PROVE View \in [Blocks -> Values]
  OBVIOUS
<1>1. \A b \in Blocks : Seen(b) \in Values
  BY DEF Seen, TypeOK
<1> QED BY <1>1, ViewIs

(* The piece of a command that falls into the cached group is not empty, and *)
(* lies in the group.                                                        *)
LEMMA ChunkFacts ==
  ASSUME TypeOK, HeldInv, ~Between, NEW m \in {"READ", "WRITE"}, Caches(m)
  PROVE  /\ Chunk \in 1..request.left
         /\ ChunkOffsets \subseteq 0..(cacheBlockCount - 1)
         /\ cacheBlockCount \in 1..Group /\ cacheBaseBlock + cacheBlockCount <= Capacity
         /\ request.addr - cacheBaseBlock \in Offsets
<1>1. request.addr \in Blocks /\ request.left \in 1..Capacity
  BY DEF TypeOK, HeldInv, Between
<1>2. cacheBaseBlock = BaseBlock(request.addr) /\ cacheBaseBlock \in Blocks
  BY DEF Caches, Group0, TypeOK
<1>3. cacheBlockCount = BlockCount(cacheBaseBlock)
  BY DEF Caches, HeldInv
<1>4. request.addr - cacheBaseBlock \in Offsets
  BY <1>1, <1>2, BaseFacts
<1>5. /\ cacheBlockCount \in 1..Group /\ cacheBaseBlock + cacheBlockCount <= Capacity
      /\ request.addr - cacheBaseBlock < cacheBlockCount
  BY <1>1, <1>2, <1>3, <1>4, CountFacts
<1>6. Chunk \in 1..request.left /\ Chunk <= cacheBlockCount - (request.addr - cacheBaseBlock)
  BY <1>1, <1>2, <1>5, SizeAssumption DEF Chunk, Least, Blocks
<1>7. ChunkOffsets \subseteq 0..(cacheBlockCount - 1)
  BY <1>1, <1>2, <1>4, <1>5, <1>6, SizeAssumption DEF ChunkOffsets, Blocks, Offsets
<1> QED BY <1>4, <1>5, <1>6, <1>7

Requests == [op : {"none", "read", "write"}, addr : Blocks, left : 0..Capacity, value : Values]

LEMMA NoRequestFacts ==
  NoRequest \in Requests /\ NoRequest.op = "none"
BY SizeAssumption, ModelAssumption DEF NoRequest, Requests, Blocks

(* What is left of a command lies on the card. *)
LEMMA AdvanceFacts ==
  ASSUME TypeOK, HeldInv, ~Between, NEW m \in {"READ", "WRITE"}, Caches(m), Advance
  PROVE  /\ request' \in Requests
         /\ request'.op # "none" =>
              request'.left >= 1 /\ request'.addr + request'.left <= Capacity
<1>1. CASE request.left = Chunk
  BY <1>1, NoRequestFacts DEF Advance
<1>2. CASE request.left # Chunk
  <2>1. Chunk \in 1..request.left
    BY ChunkFacts
  <2>2. request \in Requests /\ request.addr + request.left <= Capacity
    BY DEF TypeOK, HeldInv, Requests
  <2>3. request' = [request EXCEPT !.addr = @ + Chunk, !.left = @ - Chunk]
    BY <1>2 DEF Advance
  <2>4. request.addr + Chunk \in Blocks /\ request.left - Chunk \in 1..Capacity
    BY <1>2, <2>1, <2>2, SizeAssumption DEF Requests, Blocks
  <2>5. request'.addr = request.addr + Chunk /\ request'.left = request.left - Chunk
    BY <2>2, <2>3 DEF Requests
  <2> DEFINE a == request.addr + Chunk
             l == request.left - Chunk
  <2>6. a \in Blocks /\ l \in 0..Capacity /\ request' = [request EXCEPT !.addr = a, !.left = l]
    BY <2>2, <2>3, <2>4 DEF Requests
  <2> HIDE DEF a, l
  <2>7. request' \in Requests
    BY <2>2, <2>6 DEF Requests
  <2> QED BY <2>1, <2>2, <2>4, <2>5, <2>7, SizeAssumption DEF Requests, Blocks
<1> QED BY <1>1, <1>2

LEMMA FaultCounts ==
  ASSUME TypeOK, Fault
  PROVE  faults' \in 0..MaxFaults /\ losses \in 0..faults' /\ losses + 1 \in 0..faults'
BY ModelAssumption DEF Fault, TypeOK

(* A flush that fails changes nothing the host can see. *)
LEMMA FlushFailsFacts ==
  ASSUME TypeOK, WithinCard, FlushFails
  PROVE  /\ card' \in [Blocks -> Values] /\ cacheDirtyMask' \subseteq cacheDirtyMask
         /\ cacheMode = "WRITE"
         /\ \A b \in Blocks : card'[b] # card[b] => (b - cacheBaseBlock) \in cacheDirtyMask
         /\ \A b \in Blocks : /\ (b - cacheBaseBlock) \in cacheDirtyMask
                              /\ (b - cacheBaseBlock) \notin cacheDirtyMask'
                              => card'[b] = cache[b - cacheBaseBlock]
<1>1. PICK s \in RunStarts(cacheDirtyMask) :
        /\ \E part \in SUBSET RunFrom(s, cacheDirtyMask) :
             card' = Written({o \in cacheDirtyMask : o < s} \union part, cacheBaseBlock, cache)
        /\ cacheDirtyMask' = cacheDirtyMask \ {o \in cacheDirtyMask : o < s}
  BY DEF FlushFails
<1>2. PICK part \in SUBSET RunFrom(s, cacheDirtyMask) :
        card' = Written({o \in cacheDirtyMask : o < s} \union part, cacheBaseBlock, cache)
  BY <1>1
<1> DEFINE W == {o \in cacheDirtyMask : o < s} \union part
<1>3. W \subseteq cacheDirtyMask /\ W \subseteq Offsets
  BY DEF RunFrom, TypeOK
<1>4. cacheDirtyMask \ cacheDirtyMask' \subseteq W /\ cacheDirtyMask' \subseteq cacheDirtyMask
  BY <1>1
<1>5. card' = Written(W, cacheBaseBlock, cache)
  BY <1>2
<1> HIDE DEF W
<1>6. card' \in [Blocks -> Values]
  BY <1>3, <1>5, WrittenType DEF TypeOK
<1>7. \A b \in Blocks : card'[b] = IF (b - cacheBaseBlock) \in W THEN cache[b - cacheBaseBlock]
                                   ELSE card[b]
  BY <1>5 DEF Written
<1> QED BY <1>3, <1>4, <1>6, <1>7 DEF FlushFails, NeedsFlush

-----------------------------------------------------------------------------
LEMMA InitInv == Init => IInv
<1> SUFFICES ASSUME Init PROVE IInv
  OBVIOUS
<1>1. 0 \in Blocks /\ NoRequest \in Requests /\ NoRequest.op = "none"
  BY SizeAssumption, NoRequestFacts DEF Blocks
<1>2. NoRun \in [base : Blocks, offsets : SUBSET Offsets]
  BY <1>1 DEF NoRun
<1>3. card \in [Blocks -> Values] /\ cache \in [Offsets -> Values]
  BY ModelAssumption DEF Init
<1>4. TypeOK
  <2>1. 0 \in 0..Group /\ 0 \in 0..MaxRequests /\ 0 \in 0..MaxFaults /\ 0 \in 0..0
    BY SizeAssumption, ModelAssumption
  <2>2. /\ request \in Requests /\ run \in [base : Blocks, offsets : SUBSET Offsets]
        /\ stable \in [Blocks -> Values]
    BY <1>1, <1>2, <1>3 DEF Init
  <2>3. losses \in 0..faults /\ cacheActive \in BOOLEAN /\ plugged \in BOOLEAN /\ raced \in BOOLEAN
    BY <2>1 DEF Init
  <2> QED BY <1>1, <1>3, <2>1, <2>2, <2>3 DEF Init, TypeOK, Requests
<1>5. 0 % Group = 0
  BY SizeAssumption, SMTT(30)
<1>6. WithinCard /\ CacheCoherent /\ SyncedIsOnCard /\ DirtyInv
  BY <1>5, SizeAssumption DEF Init, WithinCard, CacheCoherent, SyncedIsOnCard, DirtyInv
<1>7. HeldInv /\ RunInv
  BY <1>1 DEF Init, HeldInv, RunInv, Between
<1> QED BY <1>4, <1>6, <1>7 DEF IInv, MainInv

(* A command keeps RunInv: one that falls into the flush is raced.           *)
LEMMA HostRun == IInv /\ Host => RunInv'
<1> SUFFICES ASSUME IInv, Host, ~raced' PROVE task' = "none"
  BY DEF RunInv
<1>1. CASE HostCommands \/ HostSyncs \/ HostConfigures
  BY <1>1 DEF HostCommands, HostSyncs, HostConfigures, taskVars, IInv, MainInv, TypeOK
<1>2. CASE ~(HostCommands \/ HostSyncs \/ HostConfigures)
  <2>1. ~Between /\ UNCHANGED <<taskVars, raced>>
    BY <1>2 DEF Host, LoadReadCache, LoadFails, ReadChunk, EnsureWriteCache, WriteChunk,
                RoomFails, Between, histVars
  <2> QED BY <2>1 DEF IInv, RunInv, taskVars
<1> QED BY <1>1, <1>2

(* What was synchronised, and not written since, the host still sees. *)
LEMMA SyncedView ==
  ASSUME MainInv, ~raced, NEW b \in Blocks \ touched
  PROVE  View[b] = stable[b]
<1>1. View[b] = Seen(b)
  BY ViewIs DEF MainInv
<1>2. (b - cacheBaseBlock) \notin cacheDirtyMask
  BY DEF MainInv, DirtyInv
<1> QED BY <1>1, <1>2 DEF Seen, MainInv, SyncedIsOnCard

LEMMA ResetFacts ==
  ASSUME Reset
  PROVE  /\ cacheMode' = "INVALID" /\ cacheBaseBlock' \in Blocks /\ cacheBaseBlock' % Group = 0
         /\ cacheBlockCount' \in 0..Group /\ cacheBaseBlock' + cacheBlockCount' <= Capacity
         /\ cacheDirtyMask' = {} /\ cacheTotalBlocks' = 0
<1>1. 0 % Group = 0
  BY SizeAssumption, SMTT(30)
<1> QED BY <1>1, SizeAssumption DEF Reset, Blocks

-----------------------------------------------------------------------------
(* The commands of the host *)
LEMMA CommandsMain ==
  ASSUME IInv, HostCommands
  PROVE  MainInv'
<1>1. TypeOK /\ WithinCard /\ CacheCoherent /\ SyncedIsOnCard /\ HeldInv /\ DirtyInv
  BY DEF IInv, MainInv
<1>2. UNCHANGED <<cacheMode, cacheBaseBlock, cacheBlockCount, cacheDirtyMask, cacheActive,
                  cache, card, task, run, plugged, answer, stable, touched, losses>>
  BY DEF HostCommands, taskVars
<1>3. (~raced' => ~raced) /\ raced' \in BOOLEAN
  <2>1. raced \in BOOLEAN /\ raced' = (raced \/ task # "none")
    BY <1>1 DEF HostCommands, TypeOK
  <2> QED BY <2>1
<1>4. request' \in Requests /\ (request'.op # "none" =>
        request'.left >= 1 /\ request'.addr + request'.left <= Capacity)
  <2>1. CASE request' = request
    BY <1>1, <2>1 DEF TypeOK, HeldInv, Between, Requests
  <2>2. CASE request' # request
    <3>1. PICK op \in {"read", "write"}, first \in Blocks, last \in Blocks, v \in Values :
            /\ first <= last
            /\ request' = [op |-> op, addr |-> first, left |-> last - first + 1, value |-> v]
      BY <2>2 DEF HostCommands
    <3>2. last - first + 1 \in 1..Capacity /\ first + (last - first + 1) <= Capacity
      BY <3>1, SizeAssumption DEF Blocks
    <3> QED BY <3>1, <3>2 DEF Requests
  <2> QED BY <2>1, <2>2
<1>5. cacheTotalBlocks' \in {0, Capacity} /\ faults' \in 0..MaxFaults /\ losses' \in 0..faults'
  BY <1>1, <1>2, FaultCounts DEF HostCommands, TypeOK
<1>6. requests' \in 0..MaxRequests
  BY <1>1, ModelAssumption DEF HostCommands, TypeOK
<1>7. TypeOK'
  BY <1>1, <1>2, <1>3, <1>4, <1>5, <1>6 DEF TypeOK, Requests
<1>8. WithinCard' /\ CacheCoherent' /\ SyncedIsOnCard' /\ DirtyInv'
  BY <1>1, <1>2, <1>3 DEF WithinCard, CacheCoherent, SyncedIsOnCard, DirtyInv
<1>9. HeldInv'
  BY <1>1, <1>2, <1>4 DEF HeldInv, Between
<1> QED BY <1>7, <1>8, <1>9 DEF MainInv

LEMMA SyncsMain ==
  ASSUME IInv, HostSyncs
  PROVE  MainInv'
<1>1. TypeOK /\ WithinCard /\ CacheCoherent /\ SyncedIsOnCard /\ HeldInv /\ DirtyInv /\ MainInv
  BY DEF IInv, MainInv
<1>2. UNCHANGED <<cacheMode, cacheBaseBlock, cacheBlockCount, cacheTotalBlocks, cacheActive,
                  cache, request, task, run, plugged, answer, losses>>
  BY DEF HostSyncs, FlushFails, taskVars
<1>3. (~raced' => ~raced) /\ raced' \in BOOLEAN
  <2>1. raced \in BOOLEAN /\ raced' = (raced \/ task # "none")
    BY <1>1 DEF HostSyncs, TypeOK
  <2> QED BY <2>1
<1>4. requests' \in 0..MaxRequests
  BY <1>1, ModelAssumption DEF HostSyncs, TypeOK
<1>5. CASE FlushDone /\ cacheDirtyMask' = {} /\ stable' = View /\ touched' = {}
  <2>1. card' \in [Blocks -> Values] /\ stable' \in [Blocks -> Values]
    BY <1>1, <1>5, ViewType DEF FlushDone
  <2>2. faults' \in 0..MaxFaults /\ losses' \in 0..faults'
    BY <1>1, <1>2, <1>5 DEF FlushDone, TypeOK
  <2>3. TypeOK'
    BY <1>1, <1>2, <1>3, <1>4, <1>5, <2>1, <2>2 DEF TypeOK
  <2>4. cacheMode = "READ" => card' = card
    BY <1>5 DEF FlushDone, View, NeedsFlush
  <2>5. CacheCoherent'
    BY <1>1, <1>2, <1>3, <2>4 DEF CacheCoherent
  <2>6. WithinCard' /\ SyncedIsOnCard' /\ DirtyInv' /\ HeldInv'
    BY <1>1, <1>2, <1>5 DEF FlushDone, WithinCard, SyncedIsOnCard, DirtyInv, HeldInv, Between
  <2> QED BY <2>3, <2>5, <2>6 DEF MainInv
<1>6. CASE FlushFails /\ UNCHANGED <<stable, touched>>
  <2>1. /\ card' \in [Blocks -> Values] /\ cacheDirtyMask' \subseteq cacheDirtyMask
        /\ cacheMode = "WRITE"
        /\ \A b \in Blocks : card'[b] # card[b] => (b - cacheBaseBlock) \in cacheDirtyMask
    BY <1>1, <1>6, FlushFailsFacts
  <2>2. faults' \in 0..MaxFaults /\ losses' \in 0..faults'
    BY <1>1, <1>2, <1>6, FaultCounts DEF FlushFails
  <2>3. TypeOK'
    BY <1>1, <1>2, <1>3, <1>4, <1>6, <2>1, <2>2 DEF TypeOK
  <2>4. WithinCard' /\ CacheCoherent' /\ DirtyInv' /\ HeldInv'
    BY <1>1, <1>2, <1>3, <1>6, <2>1 DEF WithinCard, CacheCoherent, DirtyInv, HeldInv, Between
  <2>5. SyncedIsOnCard'
    BY <1>1, <1>3, <1>6, <2>1 DEF SyncedIsOnCard, DirtyInv
  <2> QED BY <2>3, <2>4, <2>5 DEF MainInv
<1> QED BY <1>5, <1>6 DEF HostSyncs

LEMMA ConfiguresMain ==
  ASSUME IInv, HostConfigures
  PROVE  MainInv'
<1>1. TypeOK /\ WithinCard /\ CacheCoherent /\ SyncedIsOnCard /\ HeldInv /\ DirtyInv /\ MainInv
  BY DEF IInv, MainInv
<1>2. UNCHANGED <<cache, request, task, run, plugged, answer, stable, touched, losses>>
  BY DEF HostConfigures, FlushFails, taskVars
<1>3. (~raced' => ~raced) /\ raced' \in BOOLEAN /\ cacheActive' \in BOOLEAN
  <2>1. raced \in BOOLEAN /\ raced' = (raced \/ task # "none")
    BY <1>1 DEF HostConfigures, TypeOK
  <2>2. cacheActive' \in BOOLEAN
    BY DEF HostConfigures
  <2> QED BY <2>1, <2>2
<1>4. requests' \in 0..MaxRequests
  BY <1>1, ModelAssumption DEF HostConfigures, TypeOK
<1>5. CASE FlushDone /\ Reset
  <2>1. card' \in [Blocks -> Values]
    BY <1>1, <1>5, ViewType DEF FlushDone
  <2>2. faults' \in 0..MaxFaults /\ losses' \in 0..faults'
    BY <1>1, <1>2, <1>5 DEF FlushDone, TypeOK
  <2>3. TypeOK'
    BY <1>1, <1>2, <1>3, <1>4, <1>5, <2>1, <2>2, ResetFacts DEF TypeOK
  <2>4. SyncedIsOnCard'
    BY <1>1, <1>2, <1>3, <1>5, SyncedView DEF FlushDone, SyncedIsOnCard
  <2>5. WithinCard' /\ CacheCoherent' /\ DirtyInv' /\ HeldInv'
    BY <1>1, <1>2, <1>5, ResetFacts DEF WithinCard, CacheCoherent, DirtyInv, HeldInv, Between
  <2> QED BY <2>3, <2>4, <2>5 DEF MainInv
<1>6. CASE FlushFails
  <2>1. /\ card' \in [Blocks -> Values] /\ cacheDirtyMask' \subseteq cacheDirtyMask
        /\ cacheMode = "WRITE"
        /\ \A b \in Blocks : card'[b] # card[b] => (b - cacheBaseBlock) \in cacheDirtyMask
    BY <1>1, <1>6, FlushFailsFacts
  <2>2. faults' \in 0..MaxFaults /\ losses' \in 0..faults'
    BY <1>1, <1>2, <1>6, FaultCounts DEF FlushFails
  <2>3. UNCHANGED <<cacheMode, cacheBaseBlock, cacheBlockCount, cacheTotalBlocks>>
    BY <1>6 DEF FlushFails
  <2>4. TypeOK'
    BY <1>1, <1>2, <1>3, <1>4, <1>6, <2>1, <2>2, <2>3 DEF TypeOK
  <2>5. WithinCard' /\ CacheCoherent' /\ DirtyInv' /\ HeldInv'
    BY <1>1, <1>2, <1>3, <1>6, <2>1, <2>3
    DEF WithinCard, CacheCoherent, DirtyInv, HeldInv, Between
  <2>6. SyncedIsOnCard'
    BY <1>1, <1>2, <1>3, <1>6, <2>1 DEF SyncedIsOnCard, DirtyInv
  <2> QED BY <2>4, <2>5, <2>6 DEF MainInv
<1> QED BY <1>5, <1>6 DEF HostConfigures

-----------------------------------------------------------------------------
(* The pieces of a command *)
LEMMA TakesFacts ==
  ASSUME IInv, ~Between, NEW m \in {"READ", "WRITE"}, Takes(m)
  PROVE  /\ cacheMode' = m /\ cacheBaseBlock' = Group0 /\ Group0 \in Blocks
         /\ cacheBaseBlock' % Group = 0
         /\ cacheBlockCount' = BlockCount(cacheBaseBlock') /\ cacheBlockCount' \in 0..Group
         /\ cacheBaseBlock' + cacheBlockCount' <= Capacity
         /\ cacheDirtyMask' = {} /\ cacheTotalBlocks' = cacheTotalBlocks
<1>1. Group0 \in Blocks /\ Group0 % Group = 0
  BY BaseFacts DEF IInv, MainInv, TypeOK, Group0
<1>2. BlockCount(Group0) \in 1..Group /\ Group0 + BlockCount(Group0) <= Capacity
  BY <1>1, CountFacts
<1>3. BlockCount(Group0) \in 0..Group
  BY <1>2, SizeAssumption
<1> QED BY <1>1, <1>2, <1>3 DEF Takes

LEMMA MakesRoomMain ==
  ASSUME IInv, LoadReadCache \/ EnsureWriteCache
  PROVE  MainInv'
<1>1. TypeOK /\ WithinCard /\ CacheCoherent /\ SyncedIsOnCard /\ HeldInv /\ DirtyInv /\ MainInv
  BY DEF IInv, MainInv
<1>2. /\ UNCHANGED <<cacheActive, request, task, run, plugged, requests, faults, answer, stable,
                     touched, raced, losses>>
      /\ ~Between /\ card' = View
  BY DEF LoadReadCache, EnsureWriteCache, FlushDone, taskVars, histVars, Between
<1>3. card' \in [Blocks -> Values]
  BY <1>1, <1>2, ViewType
<1>4. PICK m \in {"READ", "WRITE"} : Takes(m) /\ (m = "READ" <=> LoadReadCache)
  BY DEF LoadReadCache, EnsureWriteCache
<1>5. /\ cacheMode' = m /\ cacheBaseBlock' = Group0 /\ Group0 \in Blocks
      /\ cacheBaseBlock' % Group = 0
      /\ cacheBlockCount' = BlockCount(cacheBaseBlock') /\ cacheBlockCount' \in 0..Group
      /\ cacheBaseBlock' + cacheBlockCount' <= Capacity
      /\ cacheDirtyMask' = {} /\ cacheTotalBlocks' = cacheTotalBlocks
  BY <1>2, <1>4, TakesFacts
<1>6. cache' \in [Offsets -> Values] /\ CacheCoherent'
  <2>1. CASE LoadReadCache
    <3>1. cache' = [o \in Offsets |-> IF o < cacheBlockCount' THEN card'[Group0 + o] ELSE cache[o]]
      BY <2>1 DEF LoadReadCache
    <3>2. \A o \in Offsets : o < cacheBlockCount' => Group0 + o \in Blocks
      BY <1>5, SizeAssumption DEF Offsets, Blocks
    <3>3. cache' \in [Offsets -> Values]
      BY <1>1, <1>3, <3>1, <3>2 DEF TypeOK
    <3>4. \A o \in 0..(cacheBlockCount' - 1) : o \in Offsets /\ o < cacheBlockCount'
      BY <1>5, SizeAssumption DEF Offsets
    <3> QED BY <1>5, <3>1, <3>3, <3>4 DEF CacheCoherent
  <2>2. CASE EnsureWriteCache
    BY <1>1, <1>4, <1>5, <2>2 DEF EnsureWriteCache, LoadReadCache, CacheCoherent, TypeOK
  <2> QED BY <2>1, <2>2
<1>7. TypeOK'
  BY <1>1, <1>2, <1>3, <1>5, <1>6 DEF TypeOK
<1>8. SyncedIsOnCard'
  BY <1>1, <1>2, SyncedView DEF SyncedIsOnCard
<1>9. WithinCard' /\ DirtyInv' /\ HeldInv'
  BY <1>1, <1>2, <1>5 DEF WithinCard, DirtyInv, HeldInv, Between
<1> QED BY <1>6, <1>7, <1>8, <1>9 DEF MainInv

LEMMA FailsMain ==
  ASSUME IInv, LoadFails \/ RoomFails
  PROVE  MainInv'
<1>1. TypeOK /\ WithinCard /\ CacheCoherent /\ SyncedIsOnCard /\ HeldInv /\ DirtyInv /\ MainInv
  BY DEF IInv, MainInv
<1>2. /\ UNCHANGED <<cacheActive, task, run, plugged, requests, answer, stable, touched, raced,
                     losses>>
      /\ request' = NoRequest /\ Fault
  BY DEF LoadFails, RoomFails, FlushFails, taskVars, histVars
<1>3. request' \in Requests /\ request'.op = "none"
  BY <1>2, NoRequestFacts
<1>4. faults' \in 0..MaxFaults /\ losses' \in 0..faults'
  BY <1>1, <1>2, FaultCounts
<1>5. CASE LoadFails
  <2>1. /\ card' \in [Blocks -> Values] /\ cache' \in [Offsets -> Values]
        /\ card' = View /\ Reset
    BY <1>1, <1>5, ViewType DEF LoadFails, Spoilt
  <2>2. TypeOK'
    BY <1>1, <1>2, <1>3, <1>4, <2>1, ResetFacts DEF TypeOK, Requests
  <2>3. SyncedIsOnCard'
    BY <1>1, <1>2, <2>1, SyncedView DEF SyncedIsOnCard
  <2>4. WithinCard' /\ CacheCoherent' /\ DirtyInv' /\ HeldInv'
    BY <1>3, <2>1, ResetFacts DEF WithinCard, CacheCoherent, DirtyInv, HeldInv, Between
  <2> QED BY <2>2, <2>3, <2>4 DEF MainInv
<1>6. CASE RoomFails
  <2>1. /\ card' \in [Blocks -> Values] /\ cacheDirtyMask' \subseteq cacheDirtyMask
        /\ cacheMode = "WRITE"
        /\ \A b \in Blocks : card'[b] # card[b] => (b - cacheBaseBlock) \in cacheDirtyMask
    BY <1>1, <1>6, FlushFailsFacts DEF RoomFails
  <2>2. UNCHANGED <<cacheMode, cacheBaseBlock, cacheBlockCount, cacheTotalBlocks, cache>>
    BY <1>6 DEF RoomFails, FlushFails
  <2>3. TypeOK'
    BY <1>1, <1>2, <1>3, <1>4, <2>1, <2>2 DEF TypeOK, Requests
  <2>4. WithinCard' /\ CacheCoherent' /\ DirtyInv' /\ HeldInv'
    BY <1>1, <1>2, <1>3, <2>1, <2>2 DEF WithinCard, CacheCoherent, DirtyInv, HeldInv, Between
  <2>5. SyncedIsOnCard'
    BY <1>1, <1>2, <2>1 DEF SyncedIsOnCard, DirtyInv
  <2> QED BY <2>3, <2>4, <2>5 DEF MainInv
<1> QED BY <1>5, <1>6

LEMMA ReadMain ==
  ASSUME IInv, ReadChunk
  PROVE  MainInv'
<1>1. TypeOK /\ WithinCard /\ CacheCoherent /\ SyncedIsOnCard /\ HeldInv /\ DirtyInv
  BY DEF IInv, MainInv
<1>2. /\ UNCHANGED <<cacheVars, card, task, run, plugged, requests, faults, stable, touched,
                     raced, losses>>
      /\ ~Between /\ Caches("READ") /\ Advance
  BY DEF ReadChunk, taskVars, Between
<1>3. request' \in Requests /\ (request'.op # "none" =>
        request'.left >= 1 /\ request'.addr + request'.left <= Capacity)
  BY <1>1, <1>2, AdvanceFacts
<1>4. TypeOK'
  BY <1>1, <1>2, <1>3 DEF TypeOK, Requests, cacheVars
<1> QED
  BY <1>1, <1>2, <1>3, <1>4
  DEF MainInv, WithinCard, CacheCoherent, SyncedIsOnCard, DirtyInv, HeldInv, Between, cacheVars

(* What a piece of a write leaves in the cache and on the card.              *)
LEMMA WriteFacts ==
  ASSUME TypeOK, WithinCard, HeldInv, WriteChunk
  PROVE  /\ ~Between /\ Caches("WRITE")
         /\ cache' = [o \in Offsets |-> IF o \in ChunkOffsets THEN request.value ELSE cache[o]]
         /\ cache' \in [Offsets -> Values] /\ card' \in [Blocks -> Values]
         /\ cacheDirtyMask' \subseteq cacheDirtyMask \union ChunkOffsets
         /\ \A b \in Blocks : card'[b] = cache'[b - cacheBaseBlock]
                              \/ card'[b] = card[b]
         /\ \A b \in Blocks : (b - cacheBaseBlock) \notin cacheDirtyMask \union ChunkOffsets =>
                               card'[b] = card[b]
         /\ \A b \in Blocks : /\ (b - cacheBaseBlock) \in cacheDirtyMask \union ChunkOffsets
                              /\ (b - cacheBaseBlock) \notin cacheDirtyMask'
                              => card'[b] = cache'[b - cacheBaseBlock]
         /\ faults' \in 0..MaxFaults /\ losses \in 0..faults'
         /\ Advance \/ request' = NoRequest
<1>1. ~Between /\ Caches("WRITE")
  BY DEF WriteChunk, Between
<1>2. ChunkOffsets \subseteq 0..(cacheBlockCount - 1) /\ cacheBlockCount \in 1..Group
  BY <1>1, ChunkFacts
<1> DEFINE dirty == cacheDirtyMask \union ChunkOffsets
<1>3. dirty \subseteq Offsets
  BY <1>2, SizeAssumption DEF Offsets, TypeOK
<1>4. cache' = [o \in Offsets |-> IF o \in ChunkOffsets THEN request.value ELSE cache[o]]
  BY DEF WriteChunk
<1>5. cache' \in [Offsets -> Values]
  BY <1>4 DEF TypeOK
<1>6. PICK part \in SUBSET dirty :
        /\ card' = Written(part, cacheBaseBlock, cache') \/ (part = {} /\ card' = card)
        /\ cacheDirtyMask' = dirty \/ (cacheDirtyMask' = {} /\ part = dirty)
  <2>1. CASE card' = card /\ cacheDirtyMask' = dirty
    <3> WITNESS {} \in SUBSET dirty
    <3> QED BY <2>1
  <2>2. CASE card' = Written(dirty, cacheBaseBlock, cache') /\ cacheDirtyMask' = {}
    BY <2>2
  <2>3. CASE /\ \E part \in SUBSET dirty : card' = Written(part, cacheBaseBlock, cache')
             /\ cacheDirtyMask' = dirty
    BY <2>3
  <2> QED BY <2>1, <2>2, <2>3 DEF WriteChunk
<1>7. faults' \in 0..MaxFaults /\ losses \in 0..faults' /\ (Advance \/ request' = NoRequest)
  <2>1. (faults' = faults \/ Fault) /\ (Advance \/ request' = NoRequest)
    BY DEF WriteChunk
  <2>2. CASE faults' = faults
    BY <2>1, <2>2 DEF TypeOK
  <2>3. CASE Fault
    BY <2>1, <2>3, FaultCounts
  <2> QED BY <2>1, <2>2, <2>3
<1> HIDE DEF dirty
<1>8. card' \in [Blocks -> Values]
  <2>1. part \in SUBSET Offsets /\ cacheBaseBlock \in Blocks /\ card \in [Blocks -> Values]
    BY <1>3, <1>6 DEF TypeOK
  <2>2. Written(part, cacheBaseBlock, cache') \in [Blocks -> Values]
    BY <1>5, <2>1, WrittenType
  <2> QED BY <1>6, <2>1, <2>2
<1>9. \A b \in Blocks : card'[b] = IF (b - cacheBaseBlock) \in part
                                    THEN cache'[b - cacheBaseBlock] ELSE card[b]
  BY <1>6 DEF Written
<1>10. /\ \A b \in Blocks : (b - cacheBaseBlock) \notin dirty => card'[b] = card[b]
       /\ \A b \in Blocks : /\ (b - cacheBaseBlock) \in dirty
                            /\ (b - cacheBaseBlock) \notin cacheDirtyMask'
                            => card'[b] = cache'[b - cacheBaseBlock]
       /\ cacheDirtyMask' \subseteq dirty
  BY <1>6, <1>9
<1> QED BY <1>1, <1>4, <1>5, <1>7, <1>8, <1>9, <1>10 DEF dirty

LEMMA WriteMain ==
  ASSUME IInv, WriteChunk
  PROVE  MainInv'
<1>1. TypeOK /\ WithinCard /\ CacheCoherent /\ SyncedIsOnCard /\ HeldInv /\ DirtyInv
  BY DEF IInv, MainInv
<1>2. /\ UNCHANGED <<cacheMode, cacheBaseBlock, cacheBlockCount, cacheTotalBlocks, cacheActive,
                     task, run, plugged, requests, answer, stable, raced, losses>>
      /\ touched' = touched \union {cacheBaseBlock + o : o \in ChunkOffsets}
  BY DEF WriteChunk, taskVars
<1>3. /\ ~Between /\ Caches("WRITE") /\ cache' \in [Offsets -> Values]
      /\ card' \in [Blocks -> Values]
      /\ cacheDirtyMask' \subseteq cacheDirtyMask \union ChunkOffsets
      /\ \A b \in Blocks : (b - cacheBaseBlock) \notin cacheDirtyMask \union ChunkOffsets =>
                            card'[b] = card[b]
      /\ faults' \in 0..MaxFaults /\ losses \in 0..faults'
      /\ Advance \/ request' = NoRequest
  BY <1>1, WriteFacts
<1>4. /\ ChunkOffsets \subseteq 0..(cacheBlockCount - 1) /\ cacheBlockCount \in 1..Group
      /\ cacheBaseBlock + cacheBlockCount <= Capacity /\ cacheBaseBlock \in Blocks
  BY <1>1, <1>3, ChunkFacts DEF TypeOK
<1>5. request' \in Requests /\ (request'.op # "none" =>
        request'.left >= 1 /\ request'.addr + request'.left <= Capacity)
  BY <1>1, <1>3, AdvanceFacts, NoRequestFacts
<1>6. \A o \in ChunkOffsets : o \in Offsets /\ o < cacheBlockCount /\ cacheBaseBlock + o \in Blocks
  BY <1>4, SizeAssumption DEF Offsets, Blocks
<1>7. touched' \subseteq Blocks /\ touched \subseteq touched'
  BY <1>1, <1>2, <1>6 DEF TypeOK
<1>8. \A b \in Blocks : (b - cacheBaseBlock) \in ChunkOffsets => b \in touched'
  <2>1. \A b \in Blocks : cacheBaseBlock + (b - cacheBaseBlock) = b
    BY <1>4, SizeAssumption DEF Blocks
  <2> QED BY <1>2, <2>1
<1>9. TypeOK'
  BY <1>1, <1>2, <1>3, <1>5, <1>6, <1>7 DEF TypeOK, Requests
<1>10. cacheMode' = "WRITE"
  BY <1>2, <1>3 DEF Caches
<1>11. WithinCard' /\ CacheCoherent'
  BY <1>1, <1>2, <1>3, <1>6, <1>10 DEF WithinCard, CacheCoherent
<1>12. DirtyInv' /\ HeldInv'
  BY <1>1, <1>2, <1>3, <1>5, <1>7, <1>8 DEF DirtyInv, HeldInv, Between
<1>13. SyncedIsOnCard'
  BY <1>1, <1>2, <1>3, <1>7, <1>8 DEF SyncedIsOnCard, DirtyInv
<1> QED BY <1>9, <1>11, <1>12, <1>13 DEF MainInv

-----------------------------------------------------------------------------
(* The task, the cable and the power *)
LEMMA TaskMain ==
  ASSUME IInv, TaskFlush \/ TaskTransfer \/ TaskClear
  PROVE  MainInv'
<1>1. /\ TypeOK /\ WithinCard /\ CacheCoherent /\ SyncedIsOnCard /\ HeldInv /\ DirtyInv
      /\ RunInv /\ MainInv
  BY DEF IInv, MainInv
<1>2. /\ UNCHANGED <<cacheMode, cacheBaseBlock, cacheBlockCount, cacheTotalBlocks, cacheActive,
                     cache, request, plugged, requests, faults, answer, raced, losses>>
      /\ task' \in {"transfer", "deinit", "clear", "flush"}
  BY DEF TaskFlush, TaskTransfer, TaskClear, TaskOnly, cacheVars
<1>3. run' \in [base : Blocks, offsets : SUBSET Offsets]
  <2>1. CASE TaskFlush
    <3>1. NoRun \in [base : Blocks, offsets : SUBSET Offsets]
      BY SizeAssumption DEF NoRun, Blocks
    <3>2. \A s : RunFrom(s, cacheDirtyMask) \in SUBSET Offsets
      BY <1>1 DEF RunFrom, TypeOK
    <3>3. cacheBaseBlock \in Blocks
      BY <1>1 DEF TypeOK
    <3> QED BY <2>1, <3>1, <3>2, <3>3 DEF TaskFlush
  <2>2. CASE ~TaskFlush
    BY <1>1, <2>2 DEF TaskTransfer, TaskClear, TypeOK
  <2> QED BY <2>1, <2>2
<1>4. CASE TaskFlush
  <2>1. UNCHANGED <<card, cacheDirtyMask>>
    BY <1>4 DEF TaskFlush, cacheVars
  <2>2. CASE UNCHANGED <<stable, touched>>
    <3>1. TypeOK'
      BY <1>1, <1>2, <1>3, <2>1, <2>2 DEF TypeOK
    <3> QED
      BY <1>1, <1>2, <2>1, <2>2, <3>1
      DEF MainInv, WithinCard, CacheCoherent, SyncedIsOnCard, HeldInv, DirtyInv, Between
  <2>3. CASE ~NeedsFlush /\ stable' = View /\ touched' = {}
    <3>1. cacheDirtyMask = {} /\ stable' = card
      BY <1>1, <2>3 DEF NeedsFlush, View, WithinCard
    <3>2. TypeOK'
      BY <1>1, <1>2, <1>3, <2>1, <2>3, <3>1 DEF TypeOK
    <3> QED
      BY <1>1, <1>2, <2>1, <2>3, <3>1, <3>2
      DEF MainInv, WithinCard, CacheCoherent, SyncedIsOnCard, HeldInv, DirtyInv, Between
  <2> QED BY <1>4, <2>2, <2>3 DEF TaskFlush
<1>5. CASE TaskTransfer
  <2>1. /\ UNCHANGED <<cacheDirtyMask, stable, touched>> /\ task = "transfer"
        /\ card' = Written(run.offsets, run.base, cache)
    BY <1>5 DEF TaskTransfer, cacheVars
  <2>2. card' \in [Blocks -> Values]
    <3>1. run.offsets \in SUBSET Offsets /\ run.base \in Blocks /\ cache \in [Offsets -> Values]
      BY <1>1 DEF TypeOK
    <3> QED BY <1>1, <2>1, <3>1, WrittenType
  <2>3. TypeOK'
    BY <1>1, <1>2, <1>3, <2>1, <2>2 DEF TypeOK
  <2>4. ~raced => /\ cacheMode = "WRITE"
                  /\ \A b \in Blocks : card'[b] # card[b] => b \in touched
    BY <1>1, <2>1 DEF RunInv, DirtyInv, Written
  <2>5. SyncedIsOnCard' /\ CacheCoherent'
    BY <1>1, <1>2, <2>1, <2>4 DEF SyncedIsOnCard, CacheCoherent
  <2> QED BY <1>1, <1>2, <2>1, <2>3, <2>5 DEF MainInv, WithinCard, HeldInv, DirtyInv, Between
<1>6. CASE TaskClear
  <2>1. UNCHANGED <<card, stable, touched>> /\ cacheDirtyMask' \subseteq cacheDirtyMask
    BY <1>6 DEF TaskClear
  <2>2. TypeOK'
    BY <1>1, <1>2, <1>3, <2>1 DEF TypeOK
  <2> QED
    BY <1>1, <1>2, <2>1, <2>2
    DEF MainInv, WithinCard, CacheCoherent, SyncedIsOnCard, HeldInv, DirtyInv, Between
<1> QED BY <1>4, <1>5, <1>6

LEMMA TaskRun ==
  ASSUME IInv, TaskFlush \/ TaskTransfer \/ TaskClear
  PROVE  RunInv'
<1>1. TypeOK /\ WithinCard /\ RunInv
  BY DEF IInv, MainInv
<1>2. SUFFICES ASSUME ~raced' PROVE RunInv'
  BY DEF RunInv
<1>3. /\ UNCHANGED <<cacheMode, cacheBaseBlock, cache, request>> /\ Between /\ ~raced
  BY <1>2 DEF TaskFlush, TaskTransfer, TaskClear, TaskOnly, cacheVars
<1>4. CASE TaskFlush
  <2>1. UNCHANGED <<card, cacheDirtyMask>> /\ (task' = "transfer" \/ task' = "deinit")
    BY <1>4 DEF TaskFlush, cacheVars
  <2>2. CASE task' = "transfer"
    <3>1. NeedsFlush /\ \E s : run' = [base |-> cacheBaseBlock,
                                      offsets |-> RunFrom(s, cacheDirtyMask)]
      BY <1>4, <2>2 DEF TaskFlush
    <3>2. run'.base = cacheBaseBlock /\ run'.offsets \subseteq cacheDirtyMask
      BY <3>1 DEF RunFrom
    <3> QED BY <1>3, <2>1, <2>2, <3>1, <3>2 DEF RunInv, NeedsFlush, Between
  <2>3. CASE task' = "deinit"
    BY <1>3, <2>3 DEF RunInv, Between
  <2> QED BY <2>1, <2>2, <2>3
<1>5. CASE TaskTransfer
  <2>1. /\ UNCHANGED <<cacheDirtyMask, run>> /\ task = "transfer" /\ task' = "clear"
        /\ card' = Written(run.offsets, run.base, cache)
    BY <1>5 DEF TaskTransfer, cacheVars
  <2>2. /\ cacheMode = "WRITE" /\ run.base = cacheBaseBlock /\ run.offsets \subseteq cacheDirtyMask
    BY <1>1, <1>3, <2>1 DEF RunInv
  <2>3. \A b \in Blocks : (b - cacheBaseBlock) \in run.offsets =>
          card'[b] = cache[b - cacheBaseBlock]
    BY <2>1, <2>2 DEF Written
  <2> QED BY <1>3, <2>1, <2>2, <2>3 DEF RunInv, Between
<1>6. CASE TaskClear
  BY <1>3, <1>6 DEF TaskClear, RunInv, Between
<1> QED BY <1>4, <1>5, <1>6

LEMMA DeInitInv ==
  ASSUME IInv, TaskDeInit
  PROVE  IInv'
<1>1. TypeOK /\ WithinCard /\ CacheCoherent /\ SyncedIsOnCard /\ HeldInv /\ DirtyInv /\ MainInv
  BY DEF IInv, MainInv
<1>2. /\ UNCHANGED <<cache, run, request, requests, faults, answer, stable, touched, raced, losses>>
      /\ card' = View /\ Reset /\ cacheActive' = FALSE /\ plugged' = FALSE /\ task' = "off"
      /\ Between
  BY DEF TaskDeInit, TaskOnly, FlushDone
<1>3. card' \in [Blocks -> Values]
  BY <1>1, <1>2, ViewType
<1>4. TypeOK'
  BY <1>1, <1>2, <1>3, ResetFacts DEF TypeOK
<1>5. SyncedIsOnCard'
  BY <1>1, <1>2, SyncedView DEF SyncedIsOnCard
<1>6. WithinCard' /\ CacheCoherent' /\ DirtyInv' /\ HeldInv' /\ RunInv'
  BY <1>1, <1>2, ResetFacts DEF WithinCard, CacheCoherent, DirtyInv, HeldInv, RunInv, Between
<1> QED BY <1>4, <1>5, <1>6 DEF IInv, MainInv

LEMMA CableInv ==
  ASSUME IInv, Unplug \/ Plug
  PROVE  IInv'
<1>1. TypeOK /\ WithinCard /\ CacheCoherent /\ SyncedIsOnCard /\ HeldInv /\ DirtyInv /\ RunInv
  BY DEF IInv, MainInv
<1>2. /\ UNCHANGED <<cacheVars, card, request, run, requests, faults, answer, stable, touched,
                     raced, losses>>
      /\ plugged' \in BOOLEAN /\ Between
      /\ task' = task \/ task' \in {"flush", "none"}
  BY DEF Unplug, Plug, TaskOnly
<1>3. TypeOK'
  BY <1>1, <1>2 DEF TypeOK, cacheVars
<1>4. WithinCard' /\ CacheCoherent' /\ SyncedIsOnCard' /\ HeldInv' /\ DirtyInv'
  BY <1>1, <1>2 DEF WithinCard, CacheCoherent, SyncedIsOnCard, HeldInv, DirtyInv, Between, cacheVars
<1>5. RunInv'
  BY <1>1, <1>2 DEF RunInv, Between, cacheVars
<1> QED BY <1>3, <1>4, <1>5 DEF IInv, MainInv

(* What is lost with the power was not synchronised. *)
LEMMA LossFacts ==
  ASSUME IInv, PowerLoss
  PROVE  /\ card' \in [Blocks -> Values]
         /\ ~raced => \A b \in Blocks \ touched : card'[b] = stable[b]
<1>1. TypeOK /\ SyncedIsOnCard /\ DirtyInv
  BY DEF IInv, MainInv
<1>2. PICK part \in SUBSET cacheDirtyMask : card' = Written(part, cacheBaseBlock, cache)
  BY DEF PowerLoss
<1>3. part \in SUBSET Offsets
  BY <1>1, <1>2 DEF TypeOK
<1>4. card' \in [Blocks -> Values]
  BY <1>1, <1>2, <1>3, WrittenType DEF TypeOK
<1>5. ~raced => \A b \in Blocks \ touched : card'[b] = card[b]
  BY <1>1, <1>2 DEF Written, DirtyInv
<1> QED BY <1>1, <1>4, <1>5 DEF SyncedIsOnCard

LEMMA LossInv ==
  ASSUME IInv, PowerLoss
  PROVE  IInv'
<1>1. TypeOK /\ SyncedIsOnCard
  BY DEF IInv, MainInv
<1>2. /\ UNCHANGED <<requests, answer, stable, touched, raced>> /\ Reset /\ Fault
      /\ cacheActive' = FALSE /\ plugged' = FALSE /\ task' = "off" /\ run' = NoRun
      /\ request' = NoRequest /\ cache' = [o \in Offsets |-> 0] /\ losses' = losses + 1
  BY DEF PowerLoss
<1>3. request' \in Requests /\ request'.op = "none" /\ cache' \in [Offsets -> Values]
  BY <1>2, NoRequestFacts, ModelAssumption
<1>4. run' \in [base : Blocks, offsets : SUBSET Offsets]
  BY <1>2, SizeAssumption DEF NoRun, Blocks
<1>5. faults' \in 0..MaxFaults /\ losses' \in 0..faults'
  BY <1>1, <1>2, FaultCounts
<1>6. TypeOK'
  BY <1>1, <1>2, <1>3, <1>4, <1>5, LossFacts, ResetFacts DEF TypeOK, Requests
<1>7. SyncedIsOnCard'
  BY <1>2, LossFacts DEF SyncedIsOnCard
<1>8. WithinCard' /\ CacheCoherent' /\ DirtyInv' /\ HeldInv' /\ RunInv'
  BY <1>2, <1>3, ResetFacts DEF WithinCard, CacheCoherent, DirtyInv, HeldInv, RunInv, Between
<1> QED BY <1>6, <1>7, <1>8 DEF IInv, MainInv

LEMMA StutterInv ==
  ASSUME IInv, UNCHANGED vars
  PROVE  IInv'
BY DEF IInv, MainInv, TypeOK, WithinCard, CacheCoherent, SyncedIsOnCard, HeldInv, DirtyInv, RunInv,
       Between, vars, cacheVars, taskVars, histVars

LEMMA NextInv == IInv /\ [Next]_vars => IInv'
<1> SUFFICES ASSUME IInv, [Next]_vars PROVE IInv'
  OBVIOUS
<1>1. CASE Host
  <2>1. MainInv'
    BY <1>1, CommandsMain, SyncsMain, ConfiguresMain, MakesRoomMain, FailsMain, ReadMain, WriteMain
    DEF Host
  <2> QED BY <1>1, <2>1, HostRun DEF IInv
<1>2. CASE TaskFlush \/ TaskTransfer \/ TaskClear
  BY <1>2, TaskMain, TaskRun DEF IInv
<1>3. CASE TaskDeInit
  BY <1>3, DeInitInv
<1>4. CASE Unplug \/ Plug
  BY <1>4, CableInv
<1>5. CASE PowerLoss
  BY <1>5, LossInv
<1>6. CASE UNCHANGED vars
  BY <1>6, StutterInv
<1> QED BY <1>1, <1>2, <1>3, <1>4, <1>5, <1>6 DEF Next, Task

(* The cache never reaches past the card's last block, whose group may not   *)
(* be full, and what it holds for reading is what the card holds: for every  *)
(* group, card and number of errors and losses of power.                     *)
THEOREM CacheAlwaysSafe == Spec => []CacheSafe
<1>1. IInv => CacheSafe
  BY DEF IInv, MainInv, CacheSafe
<1> QED BY <1>1, InitInv, NextInv, PTL DEF Spec

(* What was on the card when the host was last told that all is written, and *)
(* was not written since, stays on the card through errors of the card,      *)
(* flushes cut short and losses of power, until the task's flush and a       *)
(* command of the host overlap (usb_mode.c:56).                              *)
THEOREM SyncedAlwaysOnCard == Spec => []SyncedIsOnCard
<1>1. IInv => SyncedIsOnCard
  BY DEF IInv, MainInv
<1> QED BY <1>1, InitInv, NextInv, PTL DEF Spec

-----------------------------------------------------------------------------
(* The card behind the cache is a disk. *)
LEMMA InitDisk == Init => Disk!Init
<1> SUFFICES ASSUME Init PROVE Disk!Init
  OBVIOUS
<1>1. View = card /\ card \in [Blocks -> Values]
  BY ModelAssumption DEF Init, View, NeedsFlush
<1> QED BY <1>1 DEF Init, Disk!Init, Disk!Blocks, Blocks

(* A step of the cache that the host cannot see *)
LEMMA SameView ==
  ASSUME IInv, MainInv',
         \A b \in Blocks : Seen(b)' = Seen(b)
  PROVE  View' = View
<1>1. View = [b \in Blocks |-> Seen(b)]
  BY ViewIs DEF IInv, MainInv
<1>2. (View = [b \in Blocks |-> Seen(b)])'
  <2>1. TypeOK' /\ WithinCard'
    BY DEF MainInv
  <2> QED BY <2>1, ViewIs, PTL
<1> QED BY <1>1, <1>2

LEMMA FlushedView ==
  ASSUME IInv, MainInv', card' = View, cacheDirtyMask' = {}
  PROVE  View' = View
<1>1. \A b \in Blocks : View[b] = Seen(b)
  BY ViewIs DEF IInv, MainInv
<1>2. \A b \in Blocks : Seen(b)' = Seen(b)
  BY <1>1 DEF Seen
<1> QED BY <1>2, SameView

LEMMA FailedView ==
  ASSUME IInv, MainInv', FlushFails
  PROVE  View' = View
<1>1. TypeOK /\ WithinCard /\ UNCHANGED <<cacheBaseBlock, cache>>
  BY DEF IInv, MainInv, FlushFails
<1>2. \A b \in Blocks : Seen(b)' = Seen(b)
  BY <1>1, FlushFailsFacts DEF Seen
<1> QED BY <1>2, SameView

LEMMA TaskView ==
  ASSUME IInv, MainInv', ~raced, TaskTransfer \/ TaskClear
  PROVE  View' = View
<1>1. RunInv /\ UNCHANGED <<cacheBaseBlock, cache>>
  BY DEF IInv, TaskTransfer, TaskClear, cacheVars
<1>2. CASE TaskTransfer
  <2>1. /\ run.base = cacheBaseBlock /\ run.offsets \subseteq cacheDirtyMask
        /\ card' = Written(run.offsets, run.base, cache) /\ cacheDirtyMask' = cacheDirtyMask
    BY <1>1, <1>2 DEF TaskTransfer, RunInv, cacheVars
  <2>2. \A b \in Blocks : Seen(b)' = Seen(b)
    BY <1>1, <2>1 DEF Seen, Written
  <2> QED BY <2>2, SameView
<1>3. CASE TaskClear
  <2>1. /\ cacheDirtyMask' = cacheDirtyMask \ run.offsets /\ card' = card
        /\ \A b \in Blocks : (b - cacheBaseBlock) \in run.offsets =>
             card[b] = cache[b - cacheBaseBlock]
    BY <1>1, <1>3 DEF TaskClear, RunInv
  <2>2. \A b \in Blocks : Seen(b)' = Seen(b)
    BY <1>1, <2>1 DEF Seen
  <2> QED BY <2>2, SameView
<1> QED BY <1>2, <1>3

(* The blocks of a piece are a range of the card. *)
LEMMA PieceRange ==
  ASSUME IInv, ~Between, NEW m \in {"READ", "WRITE"}, Caches(m)
  PROVE  \E first, last \in Blocks :
           /\ first..last \subseteq Blocks
           /\ {cacheBaseBlock + o : o \in ChunkOffsets} = first..last
           /\ \A b \in Blocks : b \in first..last <=> (b - cacheBaseBlock) \in ChunkOffsets
<1>1. /\ Chunk \in 1..request.left /\ ChunkOffsets \subseteq 0..(cacheBlockCount - 1)
      /\ cacheBlockCount \in 1..Group /\ cacheBaseBlock + cacheBlockCount <= Capacity
  BY ChunkFacts DEF IInv, MainInv
<1>2. /\ request.addr \in Blocks /\ cacheBaseBlock \in Blocks
      /\ request.left \in 1..Capacity /\ request.addr + request.left <= Capacity
  BY DEF IInv, MainInv, TypeOK, HeldInv, Between
<1> DEFINE last == request.addr + Chunk - 1
<1>3. last \in Blocks /\ request.addr..last \subseteq Blocks
  BY <1>1, <1>2, SizeAssumption DEF Blocks
<1>4. ASSUME NEW b \in Int
      PROVE  b \in request.addr..last <=> (b - cacheBaseBlock) \in ChunkOffsets
  BY <1>1, <1>2, SizeAssumption DEF ChunkOffsets, Blocks
<1>5. ASSUME NEW o \in ChunkOffsets
      PROVE  cacheBaseBlock + o \in request.addr..last
  <2>1. o \in Int /\ cacheBaseBlock \in Int
    BY <1>1, <1>2 DEF Blocks
  <2>2. cacheBaseBlock + o \in Int /\ (cacheBaseBlock + o) - cacheBaseBlock = o
    BY <2>1
  <2> QED BY <1>4, <1>5, <2>2
<1>6. ASSUME NEW b \in request.addr..last
      PROVE  b \in {cacheBaseBlock + o : o \in ChunkOffsets}
  <2>1. b \in Int /\ cacheBaseBlock \in Int
    BY <1>2, <1>3, <1>6 DEF Blocks
  <2>2. (b - cacheBaseBlock) \in ChunkOffsets /\ b = cacheBaseBlock + (b - cacheBaseBlock)
    BY <1>4, <2>1
  <2> QED BY <2>2
<1>7. {cacheBaseBlock + o : o \in ChunkOffsets} = request.addr..last
  BY <1>5, <1>6
<1>8. \A b \in Blocks : b \in request.addr..last <=> (b - cacheBaseBlock) \in ChunkOffsets
  BY <1>4 DEF Blocks
<1> QED BY <1>2, <1>3, <1>7, <1>8

LEMMA ReadDisk ==
  ASSUME IInv, MainInv', ~raced, ReadChunk
  PROVE  \E a, b \in Disk!Blocks : Disk!Read(a..b)
<1>1. /\ ~Between /\ Caches("READ") /\ cacheMode = "READ"
      /\ UNCHANGED <<cacheVars, card, stable, touched, losses>>
      /\ answer' = [b \in {cacheBaseBlock + o : o \in ChunkOffsets} |-> cache[b - cacheBaseBlock]]
  BY DEF ReadChunk, Between, Caches
<1>2. PICK first \in Blocks, last \in Blocks :
        /\ first..last \subseteq Blocks
        /\ {cacheBaseBlock + o : o \in ChunkOffsets} = first..last
        /\ \A b \in Blocks : b \in first..last <=> (b - cacheBaseBlock) \in ChunkOffsets
  BY <1>1, PieceRange
<1>3. View = card
  BY <1>1 DEF View, NeedsFlush
<1>4. \A b \in first..last : cache[b - cacheBaseBlock] = View[b]
  <2>1. TypeOK /\ CacheCoherent /\ ChunkOffsets \subseteq 0..(cacheBlockCount - 1)
    BY <1>1, ChunkFacts DEF IInv, MainInv
  <2>2. \A b \in Blocks : cacheBaseBlock + (b - cacheBaseBlock) = b
    BY <2>1, SizeAssumption DEF TypeOK, Blocks
  <2>3. \A o \in ChunkOffsets : cache[o] = card[cacheBaseBlock + o]
    BY <1>1, <2>1 DEF CacheCoherent
  <2> QED BY <1>2, <1>3, <2>2, <2>3
<1>5. answer' = [b \in first..last |-> View[b]]
  BY <1>1, <1>2, <1>4
<1>6. View' = View
  BY <1>1 DEF View, NeedsFlush, Written, cacheVars
<1>7. Disk!Read(first..last)
  BY <1>1, <1>5, <1>6 DEF Disk!Read
<1> QED BY <1>2, <1>7 DEF Disk!Blocks, Blocks

LEMMA WriteDisk ==
  ASSUME IInv, MainInv', WriteChunk
  PROVE  \E a, b \in Disk!Blocks : \E v \in Values : Disk!Write(a..b, v)
<1>1. /\ TypeOK /\ WithinCard /\ HeldInv
      /\ UNCHANGED <<cacheBaseBlock, stable, answer, losses>>
      /\ touched' = touched \union {cacheBaseBlock + o : o \in ChunkOffsets}
  BY DEF IInv, MainInv, WriteChunk
<1>2. /\ ~Between /\ Caches("WRITE")
      /\ cache' = [o \in Offsets |-> IF o \in ChunkOffsets THEN request.value ELSE cache[o]]
      /\ cacheDirtyMask' \subseteq cacheDirtyMask \union ChunkOffsets
      /\ \A b \in Blocks : (b - cacheBaseBlock) \notin cacheDirtyMask \union ChunkOffsets =>
                            card'[b] = card[b]
      /\ \A b \in Blocks : /\ (b - cacheBaseBlock) \in cacheDirtyMask \union ChunkOffsets
                           /\ (b - cacheBaseBlock) \notin cacheDirtyMask'
                           => card'[b] = cache'[b - cacheBaseBlock]
  BY <1>1, WriteFacts
<1>3. PICK first \in Blocks, last \in Blocks :
        /\ first..last \subseteq Blocks
        /\ {cacheBaseBlock + o : o \in ChunkOffsets} = first..last
        /\ \A b \in Blocks : b \in first..last <=> (b - cacheBaseBlock) \in ChunkOffsets
  BY <1>2, PieceRange
<1>4. ChunkOffsets \subseteq Offsets /\ cacheDirtyMask \subseteq Offsets
  BY <1>1, <1>2, ChunkFacts, SizeAssumption DEF Offsets, TypeOK
<1>5. \A b \in Blocks : Seen(b)' = IF b \in first..last THEN request.value ELSE Seen(b)
  BY <1>1, <1>2, <1>3, <1>4 DEF Seen
<1>6. View = [b \in Blocks |-> Seen(b)]
  BY <1>1, ViewIs
<1>7. (View = [b \in Blocks |-> Seen(b)])'
  <2>1. TypeOK' /\ WithinCard'
    BY DEF MainInv
  <2> QED BY <2>1, ViewIs, PTL
<1>8. View' = [b \in Disk!Blocks |-> IF b \in first..last THEN request.value ELSE View[b]]
  BY <1>5, <1>6, <1>7 DEF Disk!Blocks, Blocks
<1>9. Disk!Write(first..last, request.value) /\ request.value \in Values
  BY <1>1, <1>3, <1>8 DEF Disk!Write, TypeOK
<1> QED BY <1>3, <1>9 DEF Disk!Blocks, Blocks

LEMMA LossDisk ==
  ASSUME IInv, ~raced, PowerLoss
  PROVE  Disk!PowerLoss
<1>1. card' \in [Blocks -> Values] /\ \A b \in Blocks \ touched : card'[b] = stable[b]
  BY LossFacts
<1>2. View' = card' /\ losses' = losses + 1 /\ UNCHANGED <<stable, touched, answer>>
  BY DEF PowerLoss, Reset, View, NeedsFlush
<1> QED BY <1>1, <1>2 DEF Disk!PowerLoss, Disk!Blocks, Blocks

(* Every step of the cache is a step of the disk, or changes nothing the     *)
(* host can see.                                                             *)
LEMMA StepDisk ==
  ASSUME IInv, IInv', [Next]_vars
  PROVE  [Disk!Next]_<<View, stable, touched, answer, losses, raced>>
<1>1. CASE raced'
  BY <1>1 DEF Disk!Next
<1>2. CASE ~raced'
  <2>1. ~raced /\ raced' = raced /\ MainInv'
    <3>1. raced \in BOOLEAN /\ raced' \in BOOLEAN
      BY DEF IInv, MainInv, TypeOK
    <3>2. raced => raced'
      BY DEF Next, Host, Task, HostCommands, HostSyncs, HostConfigures, LoadReadCache, LoadFails,
             ReadChunk, EnsureWriteCache, WriteChunk, RoomFails, TaskFlush, TaskTransfer,
             TaskClear, TaskDeInit, TaskOnly, Unplug, Plug, PowerLoss, vars, histVars
    <3> QED BY <1>2, <3>1, <3>2 DEF IInv
  <2>2. CASE HostCommands \/ Unplug \/ Plug \/ UNCHANGED vars
    <3>1. UNCHANGED <<cacheMode, cacheBaseBlock, cacheDirtyMask, cache, card, stable, touched,
                      answer, losses>>
      BY <2>2 DEF HostCommands, Unplug, Plug, TaskOnly, vars, cacheVars, histVars
    <3> QED BY <2>1, <3>1 DEF View, NeedsFlush, Written
  <2>3. CASE LoadReadCache \/ LoadFails \/ EnsureWriteCache \/ TaskDeInit
    <3>1. card' = View /\ cacheDirtyMask' = {} /\ UNCHANGED <<stable, touched, answer, losses>>
      BY <2>3 DEF LoadReadCache, LoadFails, EnsureWriteCache, TaskDeInit, TaskOnly, FlushDone,
                  Takes, Spoilt, Reset, histVars
    <3> QED BY <2>1, <3>1, FlushedView
  <2>4. CASE HostConfigures \/ RoomFails
    <3>1. UNCHANGED <<stable, touched, answer, losses>>
      BY <2>4 DEF HostConfigures, RoomFails, histVars
    <3>2. FlushFails \/ (card' = View /\ cacheDirtyMask' = {})
      BY <2>4 DEF HostConfigures, RoomFails, FlushDone, Reset
    <3> QED BY <2>1, <3>1, <3>2, FlushedView, FailedView
  <2>5. CASE HostSyncs
    <3>1. UNCHANGED <<answer, losses>>
      BY <2>5 DEF HostSyncs
    <3>2. CASE FlushFails /\ UNCHANGED <<stable, touched>>
      BY <2>1, <3>1, <3>2, FailedView
    <3>3. CASE FlushDone /\ cacheDirtyMask' = {} /\ stable' = View /\ touched' = {}
      <4>1. View' = View
        BY <2>1, <3>3, FlushedView DEF FlushDone
      <4> QED BY <2>1, <3>1, <3>3, <4>1 DEF Disk!Next, Disk!Sync
    <3> QED BY <2>5, <3>2, <3>3 DEF HostSyncs
  <2>6. CASE ReadChunk
    BY <2>1, <2>6, ReadDisk DEF Disk!Next
  <2>7. CASE WriteChunk
    BY <2>1, <2>7, WriteDisk DEF Disk!Next
  <2>8. CASE TaskFlush
    <3>1. UNCHANGED <<cacheMode, cacheBaseBlock, cacheDirtyMask, cache, card, answer, losses>>
      BY <2>8 DEF TaskFlush, TaskOnly, cacheVars
    <3>2. View' = View
      BY <3>1 DEF View, NeedsFlush, Written
    <3>3. UNCHANGED <<stable, touched>> \/ (stable' = View /\ touched' = {})
      BY <2>8 DEF TaskFlush
    <3> QED BY <2>1, <3>1, <3>2, <3>3 DEF Disk!Next, Disk!Sync
  <2>9. CASE TaskTransfer \/ TaskClear
    <3>1. UNCHANGED <<stable, touched, answer, losses>>
      BY <2>9 DEF TaskTransfer, TaskClear, TaskOnly
    <3> QED BY <2>1, <2>9, <3>1, TaskView
  <2>10. CASE PowerLoss
    BY <2>1, <2>10, LossDisk DEF Disk!Next
  <2> QED
    BY <2>2, <2>3, <2>4, <2>5, <2>6, <2>7, <2>8, <2>9, <2>10 DEF Next, Host, Task
<1> QED BY <1>1, <1>2

(* To the host the card behind the cache is a disk with a write-back cache:  *)
(* a read returns what was written last, and only what was not synchronised  *)
(* is lost with the power, as long as no command falls into the flush of the *)
(* task that shuts the device down.                                          *)
THEOREM CacheImplementsDisk == Spec => ImplementsDisk
<1>1. IInv /\ [Next]_vars => IInv'
  BY NextInv
<1>2. IInv /\ IInv' /\ [Next]_vars =>
        [Disk!Next]_<<View, stable, touched, answer, losses, raced>>
  BY StepDisk
<1> QED BY <1>1, <1>2, InitInv, InitDisk, PTL DEF Spec, ImplementsDisk, Disk!Spec
=============================================================================
