----------------------- MODULE ResourceManagerProofs -----------------------
(* The counts of the resource manager match its holders, for every set of   *)
(* modes and transfers and any number of mounts and faults.                  *)
EXTENDS ResourceManager, TLAPS

(* The variables besides the counts. *)
HoldersOK ==
  /\ mode \in Modes \union {"SLEEP", "USB"} /\ leaving \in BOOLEAN
  /\ transfer \in Transfers \union {"IDLE"}
  /\ halted \in BOOLEAN /\ collided \in BOOLEAN
  /\ leaving => mode = "USB"

InUsb == mode = "USB" /\ ~leaving

(* What is left of CountsMatchHolders after a collision: FatFS is still      *)
(* counted for each of its users, the card is still held by somebody.        *)
CountsOK ==
  /\ resource_counts \in Counts
  /\ ~halted => /\ resource_counts.FATFS = UsesFatFS
                /\ resource_counts.VCC = resource_counts.MICROSD
                /\ resource_counts.MICROSD = 1 => UsesFatFS > 0 \/ InUsb

(* Without a collision the card is held whenever it is used, by one side.    *)
Apart ==
  ~collided /\ ~halted =>
    /\ UsesFatFS > 0 \/ InUsb => resource_counts.MICROSD = 1
    /\ ~(UsesFatFS > 0 /\ InUsb)

IInv == HoldersOK /\ CountsOK /\ Apart

(* What the requests and the releases do to consistent counts.               *)
LEMMA MicroSDRequest ==
  ASSUME NEW c \in Counts, c.VCC = c.MICROSD
  PROVE  /\ MicroSD_Init(c) \in Counts
         /\ MicroSD_Init(c).MICROSD = 1 /\ MicroSD_Init(c).VCC = 1
         /\ MicroSD_Init(c).FATFS = c.FATFS
<1> DEFINE more == VCC_Init(c)
<1>1. more = [VCC |-> c.VCC + 1, MICROSD |-> c.MICROSD, FATFS |-> c.FATFS]
  BY DEF VCC_Init, Counts
<1>2. MicroSD_Init(c) = IF c.MICROSD = 0 THEN [more EXCEPT !.MICROSD = 1] ELSE c
  BY DEF MicroSD_Init, MicroSD_Free
<1> HIDE DEF more
<1> QED BY <1>1, <1>2 DEF Counts

LEMMA MicroSDRelease ==
  ASSUME NEW c \in Counts, c.VCC = c.MICROSD
  PROVE  /\ MicroSD_DeInit(c) \in Counts
         /\ MicroSD_DeInit(c).MICROSD = 0 /\ MicroSD_DeInit(c).VCC = 0
         /\ MicroSD_DeInit(c).FATFS = c.FATFS
         /\ MicroSD_Held(c) <=> c.MICROSD = 1
<1> DEFINE less == [c EXCEPT !.MICROSD = 0]
<1>1. less \in Counts /\ less.VCC = c.VCC /\ less.FATFS = c.FATFS /\ less.MICROSD = 0
  BY DEF Counts
<1>2. MicroSD_Held(c) <=> c.MICROSD = 1
  BY DEF MicroSD_Held, VCC_Held, Counts
<1>3. VCC_DeInit(less) = IF less.VCC > 0 THEN [less EXCEPT !.VCC = @ - 1] ELSE less
  BY DEF VCC_DeInit, VCC_Held
<1>4. CASE c.MICROSD = 1
  <2>1. MicroSD_DeInit(c) = VCC_DeInit(less)
    BY <1>4 DEF MicroSD_DeInit
  <2> HIDE DEF less
  <2> QED BY <1>1, <1>2, <1>3, <1>4, <2>1 DEF Counts
<1>5. CASE c.MICROSD = 0
  BY <1>2, <1>5 DEF MicroSD_DeInit, Counts
<1> QED BY <1>4, <1>5 DEF Counts

LEMMA FatFSRequest ==
  ASSUME NEW c \in Counts, c.VCC = c.MICROSD, c.FATFS < 2
  PROVE  /\ FatFS_Init(c) \in Counts
         /\ FatFS_Init(c).VCC = FatFS_Init(c).MICROSD
         /\ ~FatFS_Free(c) => FatFS_Init(c) = c
         /\ FatFS_Free(c) => FatFS_Init(c).FATFS = c.FATFS + 1
         /\ c.FATFS > 0 => FatFS_Init(c).MICROSD = c.MICROSD
         /\ c.FATFS = 0 => FatFS_Init(c).MICROSD = 1
<1>1. CASE c.FATFS > 0
  BY <1>1 DEF FatFS_Init, FatFS_Free, Counts
<1>2. CASE c.FATFS = 0
  <2>1. FatFS_Init(c) = IF FatFS_Free(c) THEN [MicroSD_Init(c) EXCEPT !.FATFS = @ + 1] ELSE c
    BY <1>2 DEF FatFS_Init
  <2>2. FatFS_Free(c) <=> c.MICROSD = 0
    BY <1>2 DEF FatFS_Free, MicroSD_Free
  <2> QED BY <1>2, <2>1, <2>2, MicroSDRequest DEF Counts
<1> QED BY <1>1, <1>2 DEF Counts

LEMMA FatFSRelease ==
  ASSUME NEW c \in Counts, c.VCC = c.MICROSD, c.FATFS > 0
  PROVE  /\ FatFS_DeInit(c) \in Counts
         /\ FatFS_DeInit(c).VCC = FatFS_DeInit(c).MICROSD
         /\ FatFS_DeInit(c).FATFS = c.FATFS - 1
         /\ c.FATFS > 1 => FatFS_DeInit(c).MICROSD = c.MICROSD
         /\ c.FATFS = 1 => FatFS_DeInit(c).MICROSD = 0
         /\ FatFS_Held(c) <=> (c.FATFS > 1 \/ c.MICROSD = 1)
<1> DEFINE less == [c EXCEPT !.FATFS = @ - 1]
<1>1. /\ less \in Counts /\ less.VCC = c.VCC /\ less.MICROSD = c.MICROSD
      /\ less.FATFS = c.FATFS - 1 /\ less.FATFS \in 0..1
  BY DEF Counts
<1>2. FatFS_DeInit(c) = IF less.FATFS = 0 THEN MicroSD_DeInit(less) ELSE less
  BY DEF FatFS_DeInit, Counts
<1>3. FatFS_Held(c) <=> (c.FATFS > 1 \/ c.MICROSD = 1)
  BY MicroSDRelease DEF FatFS_Held, Counts
<1> HIDE DEF less
<1>4. CASE less.FATFS = 0
  BY <1>1, <1>2, <1>3, <1>4, MicroSDRelease DEF Counts
<1>5. CASE less.FATFS = 1
  BY <1>1, <1>2, <1>3, <1>5 DEF Counts
<1> QED BY <1>1, <1>4, <1>5
-----------------------------------------------------------------------------
LEMMA Users ==
  ASSUME IInv, ~halted
  PROVE  /\ UsesFatFS \in 0..2 /\ resource_counts.FATFS = UsesFatFS
         /\ mode = "SLEEP" \/ mode = "USB" \/ transfer = "IDLE" => UsesFatFS < 2
         /\ mode = "SLEEP" => mode \notin Modes
         /\ mode = "USB" => mode \notin Modes
BY ModelAssumption DEF IInv, HoldersOK, CountsOK, UsesFatFS

LEMMA InitHolds == Init => IInv
<1> SUFFICES ASSUME Init PROVE IInv
  OBVIOUS
<1>1. HoldersOK
  BY DEF Init, HoldersOK
<1>2. UsesFatFS = 0 /\ ~InUsb
  BY ModelAssumption DEF Init, UsesFatFS, InUsb
<1>3. resource_counts = [VCC |-> 0, MICROSD |-> 0, FATFS |-> 0]
  BY DEF Init
<1>4. CountsOK
  BY <1>2, <1>3 DEF CountsOK, Counts
<1>5. Apart
  BY <1>2 DEF Apart
<1> QED BY <1>1, <1>4, <1>5 DEF IInv

LEMMA EnterModeKeeps ==
  ASSUME IInv, NEW m \in Modes, EnterMode(m)
  PROVE  IInv'
<1>1. /\ ~halted /\ mode = "SLEEP" /\ ~leaving /\ mode' = m
      /\ resource_counts' = FatFS_Init(resource_counts)
      /\ UNCHANGED <<leaving, transfer, collided>>
  BY DEF EnterMode, Requests
<1>2. halted' \in BOOLEAN
  BY DEF EnterMode, Requests, IInv, HoldersOK
<1>3. HoldersOK'
  BY <1>1, <1>2, ModelAssumption DEF IInv, HoldersOK
<1>4. /\ resource_counts \in Counts /\ resource_counts.VCC = resource_counts.MICROSD
      /\ resource_counts.FATFS = UsesFatFS /\ UsesFatFS \in 0..1
      /\ UsesFatFS = 0 => resource_counts.MICROSD = 0
      /\ ~collided /\ UsesFatFS > 0 => resource_counts.MICROSD = 1
  BY <1>1, Users DEF IInv, CountsOK, Apart, InUsb, Counts
<1>5. UsesFatFS' = UsesFatFS + 1 /\ ~InUsb'
  BY <1>1, ModelAssumption DEF UsesFatFS, InUsb
<1>6. FatFS_Free(resource_counts)
  BY <1>4 DEF FatFS_Free, MicroSD_Free
<1>7. /\ resource_counts' \in Counts /\ resource_counts'.VCC = resource_counts'.MICROSD
      /\ resource_counts'.FATFS = UsesFatFS + 1
      /\ ~collided => resource_counts'.MICROSD = 1
  BY <1>1, <1>4, <1>6, FatFSRequest
<1>8. CountsOK'
  BY <1>4, <1>5, <1>7 DEF CountsOK
<1>9. Apart'
  BY <1>1, <1>5, <1>7 DEF Apart
<1> QED BY <1>3, <1>8, <1>9 DEF IInv

LEMMA LeaveModeKeeps ==
  ASSUME IInv, LeaveMode
  PROVE  IInv'
<1>1. /\ ~halted /\ mode \in Modes /\ mode' = "SLEEP"
      /\ resource_counts' = FatFS_DeInit(resource_counts)
      /\ UNCHANGED <<leaving, transfer, collided>>
  BY DEF LeaveMode, Releases
<1>2. halted' \in BOOLEAN
  BY DEF LeaveMode, Releases
<1>3. HoldersOK'
  BY <1>1, <1>2, ModelAssumption DEF IInv, HoldersOK
<1>4. UsesFatFS' = UsesFatFS - 1 /\ UsesFatFS \in 1..2 /\ ~InUsb /\ ~InUsb'
  BY <1>1, ModelAssumption DEF UsesFatFS, InUsb
<1>5. /\ resource_counts \in Counts /\ resource_counts.VCC = resource_counts.MICROSD
      /\ resource_counts.FATFS = UsesFatFS
      /\ ~collided => resource_counts.MICROSD = 1
  BY <1>1, <1>4 DEF IInv, CountsOK, Apart
<1>6. /\ resource_counts' \in Counts /\ resource_counts'.VCC = resource_counts'.MICROSD
      /\ resource_counts'.FATFS = UsesFatFS'
      /\ UsesFatFS' = 0 => resource_counts'.MICROSD = 0
      /\ UsesFatFS' > 0 => resource_counts'.MICROSD = resource_counts.MICROSD
  BY <1>1, <1>4, <1>5, FatFSRelease
<1>7. CountsOK'
  BY <1>4, <1>6 DEF CountsOK, Counts
<1>8. Apart'
  BY <1>1, <1>4, <1>5, <1>6 DEF Apart
<1> QED BY <1>3, <1>7, <1>8 DEF IInv

LEMMA EndTransferKeeps ==
  ASSUME IInv, EndTransfer
  PROVE  IInv'
<1>1. /\ ~halted /\ transfer # "IDLE" /\ transfer' = "IDLE"
      /\ resource_counts' = FatFS_DeInit(resource_counts)
      /\ UNCHANGED <<leaving, mode, collided>>
  BY DEF EndTransfer, Releases
<1>2. halted' \in BOOLEAN
  BY DEF EndTransfer, Releases
<1>3. HoldersOK'
  BY <1>1, <1>2 DEF IInv, HoldersOK
<1>4. UsesFatFS' = UsesFatFS - 1 /\ UsesFatFS \in 1..2 /\ InUsb' = InUsb
  BY <1>1 DEF UsesFatFS, InUsb
<1>5. /\ resource_counts \in Counts /\ resource_counts.VCC = resource_counts.MICROSD
      /\ resource_counts.FATFS = UsesFatFS
      /\ ~collided => resource_counts.MICROSD = 1 /\ ~InUsb
  BY <1>1, <1>4 DEF IInv, CountsOK, Apart
<1>6. /\ resource_counts' \in Counts /\ resource_counts'.VCC = resource_counts'.MICROSD
      /\ resource_counts'.FATFS = UsesFatFS'
      /\ UsesFatFS' = 0 => resource_counts'.MICROSD = 0
      /\ UsesFatFS' > 0 => resource_counts'.MICROSD = resource_counts.MICROSD
  BY <1>1, <1>4, <1>5, FatFSRelease
<1>7. CountsOK'
  BY <1>4, <1>6 DEF CountsOK, Counts
<1>8. Apart'
  BY <1>1, <1>4, <1>5, <1>6 DEF Apart
<1> QED BY <1>3, <1>7, <1>8 DEF IInv

LEMMA EnterUsbKeeps ==
  ASSUME IInv, EnterUsb
  PROVE  IInv'
<1>1. /\ ~halted /\ mode = "SLEEP" /\ ~leaving /\ mode' = "USB"
      /\ resource_counts' = MicroSD_Init(resource_counts)
      /\ collided' = (collided \/ ~MicroSD_Free(resource_counts))
      /\ UNCHANGED <<leaving, transfer>>
  BY DEF EnterUsb, Requests
<1>2. halted' \in BOOLEAN /\ collided' \in BOOLEAN
  BY <1>1 DEF EnterUsb, Requests, IInv, HoldersOK
<1>3. HoldersOK'
  BY <1>1, <1>2 DEF IInv, HoldersOK
<1>4. UsesFatFS' = UsesFatFS /\ InUsb'
  BY <1>1, ModelAssumption DEF UsesFatFS, InUsb
<1>5. /\ resource_counts \in Counts /\ resource_counts.VCC = resource_counts.MICROSD
      /\ resource_counts.FATFS = UsesFatFS /\ UsesFatFS \in 0..2
  BY <1>1, Users DEF IInv, CountsOK
<1>9. ASSUME ~collided' PROVE ~(UsesFatFS > 0)
  <2>1. ~collided /\ resource_counts.MICROSD = 0
    BY <1>1, <1>9 DEF MicroSD_Free
  <2> QED BY <1>1, <2>1 DEF IInv, Apart
<1>6. /\ resource_counts' \in Counts /\ resource_counts'.VCC = 1
      /\ resource_counts'.MICROSD = 1 /\ resource_counts'.FATFS = UsesFatFS
  BY <1>1, <1>5, MicroSDRequest
<1>7. CountsOK'
  BY <1>4, <1>6 DEF CountsOK
<1>8. Apart'
  BY <1>4, <1>6, <1>9 DEF Apart
<1> QED BY <1>3, <1>7, <1>8 DEF IInv

LEMMA LeaveUsbKeeps ==
  ASSUME IInv, LeaveUsb
  PROVE  IInv'
<1>1. /\ ~halted /\ mode = "USB" /\ ~leaving /\ leaving' = TRUE
      /\ resource_counts' = MicroSD_DeInit(resource_counts)
      /\ UNCHANGED <<mode, transfer, collided>>
  BY DEF LeaveUsb, Releases
<1>2. halted' \in BOOLEAN
  BY DEF LeaveUsb, Releases
<1>3. HoldersOK'
  BY <1>1, <1>2 DEF IInv, HoldersOK
<1>4. UsesFatFS' = UsesFatFS /\ InUsb /\ ~InUsb'
  BY <1>1 DEF UsesFatFS, InUsb
<1>5. /\ resource_counts \in Counts /\ resource_counts.VCC = resource_counts.MICROSD
      /\ resource_counts.FATFS = UsesFatFS
      /\ ~collided => UsesFatFS = 0
  BY <1>1, <1>4, Users DEF IInv, CountsOK, Apart
<1>6. /\ resource_counts' \in Counts /\ resource_counts'.VCC = 0
      /\ resource_counts'.MICROSD = 0 /\ resource_counts'.FATFS = UsesFatFS
  BY <1>1, <1>5, MicroSDRelease
<1>7. CountsOK'
  BY <1>4, <1>6 DEF CountsOK
<1>8. Apart'
  BY <1>1, <1>4, <1>5, <1>6 DEF Apart
<1> QED BY <1>3, <1>7, <1>8 DEF IInv

LEMMA UpdateStateKeeps ==
  ASSUME IInv, UpdateState
  PROVE  IInv'
<1> DEFINE c == FatFS_Init(resource_counts)
<1>1. /\ ~halted /\ leaving /\ mode = "USB"
      /\ leaving' = FALSE /\ mode' = "SLEEP"
      /\ UNCHANGED <<transfer, collided>>
  BY DEF UpdateState, IInv, HoldersOK
<1>2. \/ resource_counts' = FatFS_DeInit(c) /\ (halted' = ~FatFS_Held(c))
      \/ resource_counts' = c /\ halted' = TRUE
  <2>1. RequestsAndReleases
    BY DEF UpdateState
  <2>2. CASE resource_counts' = FatFS_DeInit(c) /\ (halted' = ~FatFS_Held(c))
    BY <2>2
  <2>3. CASE Requests(c) /\ halted'
    <3>1. ~halted
      BY <1>1
    <3>2. resource_counts' = c /\ halted' # halted
      BY <2>3, <3>1 DEF Requests
    <3>3. halted' = TRUE
      BY <2>3, <3>1 DEF Requests
    <3> QED BY <3>2, <3>3
  <2> QED BY <2>1, <2>2, <2>3 DEF RequestsAndReleases
<1>3. halted' \in BOOLEAN
  BY <1>2
<1>4. HoldersOK'
  BY <1>1, <1>3 DEF IInv, HoldersOK
<1>5. UsesFatFS' = UsesFatFS /\ ~InUsb /\ ~InUsb'
  BY <1>1, ModelAssumption DEF UsesFatFS, InUsb
<1>6. /\ resource_counts \in Counts /\ resource_counts.VCC = resource_counts.MICROSD
      /\ resource_counts.FATFS = UsesFatFS /\ UsesFatFS \in 0..1
      /\ UsesFatFS = 0 => resource_counts.MICROSD = 0
      /\ ~collided /\ UsesFatFS > 0 => resource_counts.MICROSD = 1
  BY <1>1, <1>5, Users DEF IInv, CountsOK, Apart, Counts
<1>7. FatFS_Free(resource_counts)
  BY <1>6 DEF FatFS_Free, MicroSD_Free
<1>8. /\ c \in Counts /\ c.VCC = c.MICROSD /\ c.FATFS = UsesFatFS + 1
      /\ UsesFatFS > 0 => c.MICROSD = resource_counts.MICROSD
  BY <1>6, <1>7, FatFSRequest
<1> HIDE DEF c
<1>9. CASE resource_counts' = c /\ halted' = TRUE
  <2>1. CountsOK' /\ Apart'
    BY <1>8, <1>9 DEF CountsOK, Apart
  <2> QED BY <1>4, <2>1 DEF IInv
<1>10. CASE resource_counts' = FatFS_DeInit(c) /\ (halted' = ~FatFS_Held(c))
  <2>1. /\ resource_counts' \in Counts /\ resource_counts'.VCC = resource_counts'.MICROSD
        /\ resource_counts'.FATFS = UsesFatFS
        /\ UsesFatFS = 0 => resource_counts'.MICROSD = 0
        /\ UsesFatFS > 0 => resource_counts'.MICROSD = resource_counts.MICROSD
    BY <1>6, <1>8, <1>10, FatFSRelease
  <2>2. CountsOK'
    BY <1>5, <1>6, <2>1 DEF CountsOK, Counts
  <2>3. Apart'
    BY <1>1, <1>5, <1>6, <2>1 DEF Apart
  <2> QED BY <1>4, <2>2, <2>3 DEF IInv
<1> QED BY <1>2, <1>9, <1>10

LEMMA BriefCommandKeeps ==
  ASSUME IInv, BriefCommand
  PROVE  IInv'
<1> DEFINE c == FatFS_Init(resource_counts)
<1>1. /\ ~halted /\ transfer = "IDLE" /\ FatFS_Free(resource_counts)
      /\ UNCHANGED <<mode, leaving, transfer, collided>>
  BY DEF BriefCommand, holders
<1>2. \/ resource_counts' = FatFS_DeInit(c) /\ (halted' = ~FatFS_Held(c))
      \/ resource_counts' = c /\ halted' = TRUE
  <2>1. RequestsAndReleases
    BY DEF BriefCommand
  <2>2. CASE resource_counts' = FatFS_DeInit(c) /\ (halted' = ~FatFS_Held(c))
    BY <2>2
  <2>3. CASE Requests(c) /\ halted'
    <3>1. ~halted
      BY <1>1
    <3>2. resource_counts' = c /\ halted' = TRUE
      BY <2>3, <3>1 DEF Requests
    <3> QED BY <3>2
  <2> QED BY <2>1, <2>2, <2>3 DEF RequestsAndReleases
<1>3. halted' \in BOOLEAN
  BY <1>2
<1>4. HoldersOK'
  BY <1>1, <1>3 DEF IInv, HoldersOK
<1>5. UsesFatFS' = UsesFatFS /\ InUsb' = InUsb
  BY <1>1 DEF UsesFatFS, InUsb
<1>6. /\ resource_counts \in Counts /\ resource_counts.VCC = resource_counts.MICROSD
      /\ resource_counts.FATFS = UsesFatFS /\ UsesFatFS \in 0..1
      /\ UsesFatFS = 0 => resource_counts.MICROSD = 0
  BY <1>1, Users DEF IInv, CountsOK, Counts, FatFS_Free, MicroSD_Free
<1>7. ASSUME ~collided
      PROVE  /\ UsesFatFS > 0 => resource_counts.MICROSD = 1
             /\ UsesFatFS = 0 => ~InUsb
             /\ ~(UsesFatFS > 0 /\ InUsb)
  BY <1>1, <1>6, <1>7 DEF IInv, Apart
<1>8. /\ c \in Counts /\ c.VCC = c.MICROSD /\ c.FATFS = UsesFatFS + 1
      /\ UsesFatFS > 0 => c.MICROSD = resource_counts.MICROSD
  BY <1>1, <1>6, FatFSRequest
<1> HIDE DEF c
<1>9. CASE resource_counts' = c /\ halted' = TRUE
  <2>1. CountsOK' /\ Apart'
    BY <1>8, <1>9 DEF CountsOK, Apart
  <2> QED BY <1>4, <2>1 DEF IInv
<1>10. CASE resource_counts' = FatFS_DeInit(c) /\ (halted' = ~FatFS_Held(c))
  <2>1. /\ resource_counts' \in Counts /\ resource_counts'.VCC = resource_counts'.MICROSD
        /\ resource_counts'.FATFS = UsesFatFS
        /\ UsesFatFS = 0 => resource_counts'.MICROSD = 0
        /\ UsesFatFS > 0 => resource_counts'.MICROSD = resource_counts.MICROSD
    BY <1>6, <1>8, <1>10, FatFSRelease
  <2>2. CountsOK'
    BY <1>5, <1>6, <2>1 DEF CountsOK, Counts
  <2>3. Apart'
    BY <1>1, <1>5, <1>6, <1>7, <2>1 DEF Apart
  <2> QED BY <1>4, <2>2, <2>3 DEF IInv
<1> QED BY <1>2, <1>9, <1>10

LEMMA BeginTransferKeeps ==
  ASSUME IInv, NEW t \in Transfers, BeginTransfer(t)
  PROVE  IInv'
<1>1. /\ ~halted /\ ~leaving /\ transfer = "IDLE"
      /\ resource_counts' = FatFS_Init(resource_counts)
      /\ transfer' = IF FatFS_Free(resource_counts) THEN t ELSE "IDLE"
      /\ UNCHANGED <<mode, leaving, collided>>
  BY DEF BeginTransfer, Requests
<1>2. halted' \in BOOLEAN
  BY DEF BeginTransfer, Requests, IInv, HoldersOK
<1>3. HoldersOK'
  BY <1>1, <1>2 DEF IInv, HoldersOK
<1>4. /\ resource_counts \in Counts /\ resource_counts.VCC = resource_counts.MICROSD
      /\ resource_counts.FATFS = UsesFatFS /\ UsesFatFS \in 0..1
      /\ resource_counts.MICROSD = 1 => UsesFatFS > 0 \/ InUsb
      /\ InUsb' = InUsb
  BY <1>1, Users DEF IInv, CountsOK, Counts, InUsb
<1>5. ASSUME ~collided
      PROVE  /\ UsesFatFS > 0 => resource_counts.MICROSD = 1 /\ ~InUsb
             /\ InUsb => resource_counts.MICROSD = 1
  BY <1>1, <1>5 DEF IInv, Apart
<1>6. /\ resource_counts' \in Counts /\ resource_counts'.VCC = resource_counts'.MICROSD
      /\ ~FatFS_Free(resource_counts) => resource_counts' = resource_counts
      /\ FatFS_Free(resource_counts) => resource_counts'.FATFS = UsesFatFS + 1
      /\ UsesFatFS > 0 => resource_counts'.MICROSD = resource_counts.MICROSD
      /\ UsesFatFS = 0 => resource_counts'.MICROSD = 1
  BY <1>1, <1>4, FatFSRequest
<1>7. CASE FatFS_Free(resource_counts)
  <2>1. UsesFatFS' = UsesFatFS + 1
    BY <1>1, <1>7, ModelAssumption DEF UsesFatFS
  <2>2. CountsOK'
    BY <1>4, <1>6, <1>7, <2>1 DEF CountsOK
  <2>3. ~collided => ~InUsb
    BY <1>4, <1>5, <1>7 DEF FatFS_Free, MicroSD_Free
  <2>4. Apart'
    BY <1>1, <1>4, <1>5, <1>6, <2>1, <2>3 DEF Apart
  <2> QED BY <1>3, <2>2, <2>4 DEF IInv
<1>8. CASE ~FatFS_Free(resource_counts)
  <2>1. UsesFatFS' = UsesFatFS
    BY <1>1, <1>8 DEF UsesFatFS
  <2>2. CountsOK'
    BY <1>4, <1>6, <1>8, <2>1 DEF CountsOK
  <2>3. Apart'
    BY <1>1, <1>4, <1>5, <1>6, <1>8, <2>1 DEF Apart
  <2> QED BY <1>3, <2>2, <2>3 DEF IInv
<1> QED BY <1>7, <1>8

-----------------------------------------------------------------------------
LEMMA NextKeeps == IInv /\ [Next]_vars => IInv'
<1> SUFFICES ASSUME IInv, [Next]_vars PROVE IInv'
  OBVIOUS
<1>1. CASE UNCHANGED vars
  BY <1>1 DEF vars, diskVars, holders, IInv, HoldersOK, CountsOK, Apart, UsesFatFS, InUsb
<1>2. CASE Next
  BY <1>2, EnterModeKeeps, LeaveModeKeeps, EnterUsbKeeps, LeaveUsbKeeps, UpdateStateKeeps,
     BeginTransferKeeps, EndTransferKeeps, BriefCommandKeeps DEF Next
<1> QED BY <1>1, <1>2

(* The counts match the holders as long as USB mode has not gone on without  *)
(* the card (resource_manager.c, and the requests and releases of its users).*)
THEOREM CountsAlwaysMatch == Spec => []CountsMatchHolders
<1>1. IInv => CountsMatchHolders
  BY DEF IInv, HoldersOK, CountsOK, Apart, CountsMatchHolders, Counts, InUsb
<1> QED BY <1>1, InitHolds, NextKeeps, PTL DEF Spec

-----------------------------------------------------------------------------
(* The volume, and the files opened on it.                                   *)
VolumeOK ==
  /\ mounts \in 0..MaxMounts /\ volume \in 0..mounts /\ faults \in 0..MaxFaults
  /\ opened \in [mode : 0..mounts, transfer : 0..mounts]

OnVolume ==
  ~halted => /\ volume > 0 <=> UsesFatFS > 0
             /\ mode \in Modes => volume = opened.mode
             /\ transfer # "IDLE" => volume = opened.transfer

VInv == IInv /\ VolumeOK /\ OnVolume /\ ReleasesMatch

LEMMA MountsKeeps ==
  ASSUME VInv, ~halted, NEW c, c.FATFS \in Nat, Mounts(c)
  PROVE  /\ mounts' \in 0..MaxMounts /\ volume' \in 0..mounts' /\ mounts <= mounts'
         /\ volume' > 0 <=> c.FATFS > 0
         /\ UsesFatFS > 0 /\ c.FATFS > 0 => volume' = volume
<1>1. /\ mounts \in 0..MaxMounts /\ volume \in 0..mounts /\ MaxMounts \in Nat
      /\ volume > 0 <=> UsesFatFS > 0
      /\ resource_counts.FATFS = UsesFatFS /\ UsesFatFS \in 0..2
  BY Users, ModelAssumption DEF VInv, VolumeOK, OnVolume
<1> QED BY <1>1 DEF Mounts

LEMMA RequestsKeeps ==
  ASSUME VInv, ~halted, NEW c, c.FATFS \in Nat, Requests(c)
  PROVE  /\ Mounts(c)
         /\ faults' \in 0..MaxFaults
         /\ ReleasesMatch'
<1>1. faults \in 0..MaxFaults /\ MaxFaults \in Nat
  BY ModelAssumption DEF VInv, VolumeOK
<1>2. CASE UNCHANGED <<halted, faults>>
  BY <1>1, <1>2 DEF Requests, ReleasesMatch
<1>3. CASE faults < MaxFaults /\ faults' = faults + 1
  BY <1>1, <1>3 DEF Requests, ReleasesMatch
<1> QED BY <1>2, <1>3 DEF Requests

LEMMA EnterModeKeepsVolume ==
  ASSUME VInv, NEW m \in Modes, EnterMode(m)
  PROVE  VInv'
<1> DEFINE c == FatFS_Init(resource_counts)
<1>1. /\ ~halted /\ mode = "SLEEP" /\ mode' = m /\ Requests(c)
      /\ opened' = [opened EXCEPT !.mode = volume']
      /\ UNCHANGED <<leaving, transfer, collided>>
  BY DEF EnterMode
<1>2. IInv'
  BY EnterModeKeeps DEF VInv
<1>3. /\ UsesFatFS \in 0..1 /\ resource_counts.FATFS = UsesFatFS
      /\ resource_counts \in Counts /\ resource_counts.VCC = resource_counts.MICROSD
      /\ UsesFatFS = 0 => resource_counts.MICROSD = 0
  BY <1>1, Users DEF VInv, IInv, CountsOK, Counts, InUsb
<1>4. c.FATFS = UsesFatFS + 1
  BY <1>3, FatFSRequest DEF FatFS_Free, MicroSD_Free
<1>5. UsesFatFS' = UsesFatFS + 1 /\ (transfer # "IDLE" => UsesFatFS > 0)
  BY <1>1, ModelAssumption DEF UsesFatFS
<1> HIDE DEF c
<1>6. Mounts(c) /\ faults' \in 0..MaxFaults /\ ReleasesMatch'
  BY <1>1, <1>3, <1>4, RequestsKeeps
<1>7. /\ mounts' \in 0..MaxMounts /\ volume' \in 0..mounts' /\ mounts <= mounts'
      /\ volume' > 0 /\ (UsesFatFS > 0 => volume' = volume)
  BY <1>1, <1>3, <1>4, <1>6, MountsKeeps
<1>8. opened' \in [mode : 0..mounts', transfer : 0..mounts'] /\ opened'.mode = volume'
      /\ opened'.transfer = opened.transfer
  BY <1>1, <1>7 DEF VInv, VolumeOK
<1>9. OnVolume'
  BY <1>1, <1>3, <1>5, <1>7, <1>8 DEF VInv, OnVolume
<1> QED BY <1>2, <1>6, <1>7, <1>8, <1>9 DEF VInv, VolumeOK

LEMMA BeginTransferKeepsVolume ==
  ASSUME VInv, NEW t \in Transfers, BeginTransfer(t)
  PROVE  VInv'
<1> DEFINE c == FatFS_Init(resource_counts)
<1>1. /\ ~halted /\ transfer = "IDLE" /\ Requests(c)
      /\ transfer' = IF FatFS_Free(resource_counts) THEN t ELSE "IDLE"
      /\ opened' = [opened EXCEPT !.transfer = volume']
      /\ UNCHANGED <<mode, leaving, collided>>
  BY DEF BeginTransfer
<1>2. IInv'
  BY BeginTransferKeeps DEF VInv
<1>3. /\ UsesFatFS \in 0..1 /\ resource_counts.FATFS = UsesFatFS
      /\ resource_counts \in Counts /\ resource_counts.VCC = resource_counts.MICROSD
  BY <1>1, Users DEF VInv, IInv, CountsOK
<1>4. UsesFatFS' = c.FATFS /\ c.FATFS \in Nat
  <2>1. CASE FatFS_Free(resource_counts)
    <3>1. c.FATFS = UsesFatFS + 1
      BY <1>3, <2>1, FatFSRequest
    <3>2. UsesFatFS' = UsesFatFS + 1
      BY <1>1, <2>1, ModelAssumption DEF UsesFatFS
    <3> QED BY <1>3, <3>1, <3>2
  <2>2. CASE ~FatFS_Free(resource_counts)
    <3>1. c.FATFS = UsesFatFS
      BY <1>3, <2>2, FatFSRequest
    <3>2. UsesFatFS' = UsesFatFS
      BY <1>1, <2>2 DEF UsesFatFS
    <3> QED BY <1>3, <3>1, <3>2
  <2> QED BY <2>1, <2>2
<1>5. UsesFatFS' >= UsesFatFS /\ (mode \in Modes => UsesFatFS > 0)
  BY <1>1, <1>3 DEF UsesFatFS
<1> HIDE DEF c
<1>6. Mounts(c) /\ faults' \in 0..MaxFaults /\ ReleasesMatch'
  BY <1>1, <1>4, RequestsKeeps
<1>7. /\ mounts' \in 0..MaxMounts /\ volume' \in 0..mounts' /\ mounts <= mounts'
      /\ volume' > 0 <=> UsesFatFS' > 0
      /\ UsesFatFS > 0 /\ UsesFatFS' > 0 => volume' = volume
  BY <1>1, <1>4, <1>6, MountsKeeps
<1>8. opened' \in [mode : 0..mounts', transfer : 0..mounts'] /\ opened'.mode = opened.mode
      /\ opened'.transfer = volume'
  BY <1>1, <1>7 DEF VInv, VolumeOK
<1>9. OnVolume'
  BY <1>1, <1>3, <1>4, <1>5, <1>7, <1>8 DEF VInv, OnVolume
<1> QED BY <1>2, <1>6, <1>7, <1>8, <1>9 DEF VInv, VolumeOK

(* A release by the mode or by the transfer, of FatFS.                       *)
LEMMA ReleaseKeeps ==
  ASSUME VInv, ~halted, UsesFatFS > 0,
         Releases(FatFS_DeInit(resource_counts), FatFS_Held(resource_counts)),
         UNCHANGED <<opened, collided>>
  PROVE  /\ VolumeOK' /\ ReleasesMatch'
         /\ volume' > 0 <=> UsesFatFS - 1 > 0
         /\ UsesFatFS > 1 => volume' = volume
<1> DEFINE c == FatFS_DeInit(resource_counts)
<1>1. /\ UsesFatFS \in 1..2 /\ resource_counts.FATFS = UsesFatFS
      /\ resource_counts \in Counts /\ resource_counts.VCC = resource_counts.MICROSD
      /\ ~collided => resource_counts.MICROSD = 1
  BY Users DEF VInv, IInv, CountsOK, Apart
<1>2. c.FATFS = UsesFatFS - 1 /\ (~collided => FatFS_Held(resource_counts))
  BY <1>1, FatFSRelease
<1> HIDE DEF c
<1>3. Mounts(c) /\ UNCHANGED <<faults, opened>> /\ (halted' = ~FatFS_Held(resource_counts))
  BY DEF Releases, c
<1>4. /\ mounts' \in 0..MaxMounts /\ volume' \in 0..mounts' /\ mounts <= mounts'
      /\ volume' > 0 <=> c.FATFS > 0
      /\ UsesFatFS > 0 /\ c.FATFS > 0 => volume' = volume
  BY <1>1, <1>2, <1>3, MountsKeeps
<1>5. VolumeOK'
  BY <1>3, <1>4 DEF VInv, VolumeOK
<1>6. ReleasesMatch'
  BY <1>2, <1>3 DEF ReleasesMatch
<1> QED BY <1>1, <1>2, <1>4, <1>5, <1>6

LEMMA LeaveModeKeepsVolume ==
  ASSUME VInv, LeaveMode
  PROVE  VInv'
<1>1. /\ ~halted /\ mode \in Modes /\ mode' = "SLEEP"
      /\ Releases(FatFS_DeInit(resource_counts), FatFS_Held(resource_counts))
      /\ UNCHANGED <<opened, leaving, transfer, collided>>
  BY DEF LeaveMode
<1>2. IInv'
  BY LeaveModeKeeps DEF VInv
<1>3. /\ UsesFatFS' = UsesFatFS - 1 /\ UsesFatFS \in 1..2 /\ mode' \notin Modes
      /\ transfer # "IDLE" => UsesFatFS = 2
  BY <1>1, ModelAssumption DEF UsesFatFS
<1>4. /\ VolumeOK' /\ ReleasesMatch' /\ (volume' > 0 <=> UsesFatFS' > 0)
      /\ UsesFatFS > 1 => volume' = volume
  BY <1>1, <1>3, ReleaseKeeps
<1>5. OnVolume'
  BY <1>1, <1>3, <1>4 DEF VInv, OnVolume
<1> QED BY <1>2, <1>4, <1>5 DEF VInv

LEMMA EndTransferKeepsVolume ==
  ASSUME VInv, EndTransfer
  PROVE  VInv'
<1>1. /\ ~halted /\ transfer # "IDLE" /\ transfer' = "IDLE"
      /\ Releases(FatFS_DeInit(resource_counts), FatFS_Held(resource_counts))
      /\ UNCHANGED <<opened, leaving, mode, collided>>
  BY DEF EndTransfer
<1>2. IInv'
  BY EndTransferKeeps DEF VInv
<1>3. /\ UsesFatFS' = UsesFatFS - 1 /\ UsesFatFS \in 1..2
      /\ mode \in Modes => UsesFatFS = 2
  BY <1>1 DEF UsesFatFS
<1>4. /\ VolumeOK' /\ ReleasesMatch' /\ (volume' > 0 <=> UsesFatFS' > 0)
      /\ UsesFatFS > 1 => volume' = volume
  BY <1>1, <1>3, ReleaseKeeps
<1>5. OnVolume'
  BY <1>1, <1>3, <1>4 DEF VInv, OnVolume
<1> QED BY <1>2, <1>4, <1>5 DEF VInv

LEMMA EnterUsbKeepsVolume ==
  ASSUME VInv, EnterUsb
  PROVE  VInv'
<1> DEFINE c == MicroSD_Init(resource_counts)
<1>1. /\ ~halted /\ mode = "SLEEP" /\ mode' = "USB" /\ Requests(c)
      /\ collided' = (collided \/ ~MicroSD_Free(resource_counts))
      /\ UNCHANGED <<opened, leaving, transfer>>
  BY DEF EnterUsb
<1>2. IInv'
  BY EnterUsbKeeps DEF VInv
<1>3. /\ UsesFatFS' = UsesFatFS /\ UsesFatFS \in 0..2 /\ mode' \notin Modes
      /\ transfer # "IDLE" => UsesFatFS > 0
  BY <1>1, Users, ModelAssumption DEF UsesFatFS, VInv
<1>4. c.FATFS = UsesFatFS
  BY <1>1, Users, MicroSDRequest DEF VInv, IInv, CountsOK
<1> HIDE DEF c
<1>5. Mounts(c) /\ faults' \in 0..MaxFaults /\ ReleasesMatch'
  BY <1>1, <1>3, <1>4, RequestsKeeps
<1>6. /\ mounts' \in 0..MaxMounts /\ volume' \in 0..mounts' /\ mounts <= mounts'
      /\ volume' > 0 <=> UsesFatFS' > 0
      /\ UsesFatFS > 0 => volume' = volume
  BY <1>1, <1>3, <1>4, <1>5, MountsKeeps
<1>7. VolumeOK'
  BY <1>1, <1>5, <1>6 DEF VInv, VolumeOK
<1>8. OnVolume'
  BY <1>1, <1>3, <1>6 DEF VInv, OnVolume
<1> QED BY <1>2, <1>5, <1>7, <1>8 DEF VInv

LEMMA LeaveUsbKeepsVolume ==
  ASSUME VInv, LeaveUsb
  PROVE  VInv'
<1> DEFINE c == MicroSD_DeInit(resource_counts)
<1>1. /\ ~halted /\ mode = "USB" /\ ~leaving /\ Mounts(c)
      /\ (halted' = ~MicroSD_Held(resource_counts))
      /\ UNCHANGED <<opened, mode, transfer, collided, faults>>
  BY DEF LeaveUsb, Releases
<1>2. IInv'
  BY LeaveUsbKeeps DEF VInv
<1>3. /\ UsesFatFS' = UsesFatFS /\ UsesFatFS \in 0..2 /\ mode \notin Modes
      /\ transfer # "IDLE" => UsesFatFS > 0
  BY <1>1, Users, ModelAssumption DEF UsesFatFS, VInv
<1>4. /\ c.FATFS = UsesFatFS
      /\ MicroSD_Held(resource_counts) <=> resource_counts.MICROSD = 1
  BY <1>1, Users, MicroSDRelease DEF VInv, IInv, CountsOK
<1>5. ~collided => resource_counts.MICROSD = 1
  BY <1>1 DEF VInv, IInv, Apart, InUsb
<1> HIDE DEF c
<1>6. /\ mounts' \in 0..MaxMounts /\ volume' \in 0..mounts' /\ mounts <= mounts'
      /\ volume' > 0 <=> UsesFatFS' > 0
      /\ UsesFatFS > 0 => volume' = volume
  BY <1>1, <1>3, <1>4, MountsKeeps
<1>7. VolumeOK'
  BY <1>1, <1>6 DEF VInv, VolumeOK
<1>8. OnVolume'
  BY <1>1, <1>3, <1>6 DEF VInv, OnVolume
<1>9. ReleasesMatch'
  BY <1>1, <1>4, <1>5 DEF ReleasesMatch
<1> QED BY <1>2, <1>7, <1>8, <1>9 DEF VInv

(* What lasts one step leaves the volume as it was.                          *)
LEMMA BriefMountKeeps ==
  ASSUME VInv, ~halted, FatFS_Free(resource_counts), UsesFatFS \in 0..1,
         RequestsAndReleases, UNCHANGED <<opened, collided>>
  PROVE  /\ VolumeOK' /\ ReleasesMatch'
         /\ ~halted' => volume' = volume
<1> DEFINE c == FatFS_Init(resource_counts)
<1>1. /\ resource_counts.FATFS = UsesFatFS
      /\ resource_counts \in Counts /\ resource_counts.VCC = resource_counts.MICROSD
      /\ ~collided /\ UsesFatFS > 0 => resource_counts.MICROSD = 1
  BY Users DEF VInv, IInv, CountsOK, Apart
<1>2. /\ c \in Counts /\ c.VCC = c.MICROSD /\ c.FATFS = UsesFatFS + 1
      /\ UsesFatFS > 0 => c.MICROSD = resource_counts.MICROSD
      /\ UsesFatFS = 0 => c.MICROSD = 1
  BY <1>1, FatFSRequest
<1>3. ~collided => FatFS_Held(c)
  BY <1>1, <1>2, FatFSRelease
<1>4. /\ mounts \in 0..MaxMounts /\ volume \in 0..mounts /\ MaxMounts \in Nat
      /\ volume > 0 <=> UsesFatFS > 0
  BY ModelAssumption DEF VInv, VolumeOK, OnVolume
<1>5. CASE Requests(c) /\ halted'
  <2>1. Mounts(c) /\ faults' \in 0..MaxFaults /\ ReleasesMatch'
    BY <1>2, <1>5, RequestsKeeps
  <2>2. /\ mounts' \in 0..MaxMounts /\ volume' \in 0..mounts' /\ mounts <= mounts'
    BY <1>2, <2>1, MountsKeeps
  <2>3. VolumeOK'
    BY <2>1, <2>2 DEF VInv, VolumeOK
  <2> QED BY <1>5, <2>1, <2>3
<1>6. CASE /\ IF resource_counts.FATFS = 0 /\ c.FATFS > 0
               THEN mounts < MaxMounts /\ mounts' = mounts + 1 /\ volume' = 0
               ELSE UNCHANGED <<mounts, volume>>
           /\ (halted' = ~FatFS_Held(c))
           /\ UNCHANGED faults
  <2>1. /\ mounts' \in 0..MaxMounts /\ volume' = volume /\ mounts <= mounts'
    BY <1>1, <1>4, <1>6
  <2>2. VolumeOK'
    BY <1>4, <1>6, <2>1 DEF VInv, VolumeOK
  <2>3. ReleasesMatch'
    BY <1>3, <1>6 DEF ReleasesMatch
  <2> QED BY <2>1, <2>2, <2>3
<1> QED BY <1>5, <1>6 DEF RequestsAndReleases

LEMMA UpdateStateKeepsVolume ==
  ASSUME VInv, UpdateState
  PROVE  VInv'
<1>1. /\ ~halted /\ leaving /\ mode = "USB" /\ mode' = "SLEEP" /\ RequestsAndReleases
      /\ UNCHANGED <<opened, transfer, collided>>
  BY DEF UpdateState, VInv, IInv, HoldersOK
<1>2. IInv'
  BY UpdateStateKeeps DEF VInv
<1>3. /\ UsesFatFS' = UsesFatFS /\ mode' \notin Modes /\ ~InUsb
  BY <1>1, ModelAssumption DEF UsesFatFS, InUsb
<1>4. FatFS_Free(resource_counts) /\ UsesFatFS \in 0..1
  BY <1>1, <1>3, Users DEF FatFS_Free, MicroSD_Free, VInv, IInv, CountsOK, Counts
<1>5. VolumeOK' /\ ReleasesMatch' /\ (~halted' => volume' = volume)
  BY <1>1, <1>4, BriefMountKeeps
<1>6. OnVolume'
  BY <1>1, <1>3, <1>5 DEF VInv, OnVolume
<1> QED BY <1>2, <1>5, <1>6 DEF VInv

LEMMA BriefCommandKeepsVolume ==
  ASSUME VInv, BriefCommand
  PROVE  VInv'
<1>1. /\ ~halted /\ transfer = "IDLE" /\ FatFS_Free(resource_counts)
      /\ RequestsAndReleases /\ UNCHANGED <<opened, mode, transfer, collided>>
  BY DEF BriefCommand, holders
<1>2. IInv'
  BY BriefCommandKeeps DEF VInv
<1>3. UsesFatFS' = UsesFatFS /\ UsesFatFS \in 0..1
  BY <1>1, Users DEF UsesFatFS, VInv
<1>4. VolumeOK' /\ ReleasesMatch' /\ (~halted' => volume' = volume)
  BY <1>1, <1>3, BriefMountKeeps
<1>5. OnVolume'
  BY <1>1, <1>3, <1>4 DEF VInv, OnVolume
<1> QED BY <1>2, <1>4, <1>5 DEF VInv

LEMMA VolumeInit == Init => VInv
<1> SUFFICES ASSUME Init PROVE VInv
  OBVIOUS
<1>1. VolumeOK
  BY ModelAssumption DEF Init, VolumeOK
<1>2. OnVolume
  BY ModelAssumption DEF Init, OnVolume, UsesFatFS
<1>3. ReleasesMatch
  BY DEF Init, ReleasesMatch
<1> QED BY <1>1, <1>2, <1>3, InitHolds DEF VInv

LEMMA VolumeNext == VInv /\ [Next]_vars => VInv'
<1> SUFFICES ASSUME VInv, [Next]_vars PROVE VInv'
  OBVIOUS
<1>1. CASE UNCHANGED vars
  <2>1. IInv'
    BY <1>1, NextKeeps DEF VInv
  <2>2. VolumeOK' /\ OnVolume' /\ ReleasesMatch'
    BY <1>1 DEF vars, diskVars, holders, VInv, VolumeOK, OnVolume, ReleasesMatch, UsesFatFS
  <2> QED BY <2>1, <2>2 DEF VInv
<1>2. CASE Next
  BY <1>2, EnterModeKeepsVolume, LeaveModeKeepsVolume, EnterUsbKeepsVolume,
     LeaveUsbKeepsVolume, UpdateStateKeepsVolume, BeginTransferKeepsVolume,
     EndTransferKeepsVolume, BriefCommandKeepsVolume DEF Next
<1> QED BY <1>1, <1>2

(* Every variable has its type; no count exceeds its two holders             *)
(* (resource_counts, resource_manager.c:50).                                 *)
THEOREM TypeCorrect == Spec => []TypeOK
<1>1. VInv => TypeOK
  BY DEF VInv, IInv, HoldersOK, CountsOK, VolumeOK, TypeOK
<1> QED BY <1>1, VolumeInit, VolumeNext, PTL DEF Spec

(* A file stays on the volume it was opened on until its user releases       *)
(* FatFS: f_mount(0) in FatFS_DeInit never unmounts it under the other user. *)
THEOREM FilesStayOnVolume == Spec => []FilesOnVolume
<1>1. VInv => FilesOnVolume
  BY DEF VInv, IInv, HoldersOK, OnVolume, FilesOnVolume, UsesFatFS
<1> QED BY <1>1, VolumeInit, VolumeNext, PTL DEF Spec

(* Without a collision only a card that cannot be mounted calls              *)
(* Error_Handler: the releases match the requests.                           *)
THEOREM ReleasesAlwaysMatch == Spec => []ReleasesMatch
<1>1. VInv => ReleasesMatch
  BY DEF VInv
<1> QED BY <1>1, VolumeInit, VolumeNext, PTL DEF Spec
=============================================================================
