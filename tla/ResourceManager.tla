-------------------------- MODULE ResourceManager --------------------------
(***************************************************************************)
(* The reference counts of the supply VCC, the microSD card and FatFS      *)
(* (FlySight/resource_manager.c) and everybody who holds them: the modes,  *)
(* the USB mode, the file transfer service and the state file.  All are    *)
(* tasks that do not wait for the radio while they request or release, so  *)
(* a request is one step.                                                  *)
(***************************************************************************)
EXTENDS Integers

CONSTANTS
  Modes,       \* modes that hold FatFS while they run (ACTIVE, START, CONFIG)
  Transfers,   \* file transfers (READ, WRITE, DIR)
  MaxMounts,   \* bound: how often the card is mounted
  MaxFaults    \* bound: cards that cannot be mounted

ASSUME ModelAssumption ==
  /\ {"SLEEP", "USB"} \cap Modes = {} /\ "IDLE" \notin Transfers
  /\ MaxMounts \in Nat /\ MaxFaults \in Nat

VARIABLES
  resource_counts,
  mode,      \* of the mode controller
  leaving,   \* FS_USBMode_DeInit: the card is released, the state file not yet read
  transfer,  \* what the file transfer service is doing
  volume,    \* the mount that is current, by its number; 0 when unmounted
  mounts,    \* mounts so far
  opened,    \* the volumes on which the mode and the transfer opened their files
  halted,    \* Error_Handler
  faults,
  collided   \* history: USB mode began although it was refused the card

holders == <<mode, leaving, transfer>>
diskVars == <<resource_counts, volume, mounts>>
vars == <<diskVars, holders, opened, halted, faults, collided>>

Counts == [VCC : 0..2, MICROSD : 0..1, FATFS : 0..2]

(* Each operation as the counts it leaves, and whether it succeeds.  A       *)
(* request that is refused leaves them as they are, a release that fails     *)
(* calls Error_Handler.                                                      *)
VCC_Init(c)   == [c EXCEPT !.VCC = @ + 1]
VCC_Held(c)   == c.VCC > 0
VCC_DeInit(c) == IF VCC_Held(c) THEN [c EXCEPT !.VCC = @ - 1] ELSE c

(* Exclusive: the card has one holder. *)
MicroSD_Free(c)   == c.MICROSD = 0
MicroSD_Init(c)   == IF MicroSD_Free(c) THEN [VCC_Init(c) EXCEPT !.MICROSD = 1] ELSE c
MicroSD_Held(c)   == c.MICROSD = 1 /\ VCC_Held(c)
MicroSD_DeInit(c) == IF c.MICROSD = 1 THEN VCC_DeInit([c EXCEPT !.MICROSD = 0]) ELSE c

FatFS_Free(c) == c.FATFS > 0 \/ MicroSD_Free(c)

(* Mutant of FatFS_Init: the count is kept when the card is refused. *)
FatFS_InitKeepsCount(c) ==
  LET mounted == IF c.FATFS = 0 THEN MicroSD_Init(c) ELSE c
  IN [mounted EXCEPT !.FATFS = @ + 1]

FatFS_Init(c) ==
  LET mounted == IF c.FATFS = 0 THEN MicroSD_Init(c) ELSE c
  IN IF FatFS_Free(c) THEN [mounted EXCEPT !.FATFS = @ + 1] ELSE c

FatFS_Held(c) == c.FATFS > 1 \/ (c.FATFS = 1 /\ MicroSD_Held(c))
FatFS_DeInit(c) ==
  IF c.FATFS = 0 THEN c
  ELSE LET less == [c EXCEPT !.FATFS = @ - 1]
       IN IF less.FATFS = 0 THEN MicroSD_DeInit(less) ELSE less

-----------------------------------------------------------------------------
(* A request that mounts the card stops the processor when that fails.  The  *)
(* last release unmounts it.                                                 *)
Mounts(counts) ==
  IF resource_counts.FATFS = 0 /\ counts.FATFS > 0
  THEN mounts < MaxMounts /\ mounts' = mounts + 1 /\ volume' = mounts'
  ELSE UNCHANGED mounts /\ volume' = IF counts.FATFS = 0 THEN 0 ELSE volume

Requests(counts) ==
  /\ resource_counts' = counts
  /\ Mounts(counts)
  /\ \/ UNCHANGED <<halted, faults>>
     \/ /\ mounts' # mounts
        /\ faults < MaxFaults /\ faults' = faults + 1
        /\ halted' = TRUE

Releases(counts, held) ==
  /\ resource_counts' = counts
  /\ Mounts(counts)
  /\ halted' = ~held
  /\ UNCHANGED faults

(* Mutant of EnterMode: what a transfer has mounted is not requested again.  *)
EnterModeSharing(m) ==
  /\ ~halted /\ mode = "SLEEP" /\ ~leaving
  /\ Requests(IF resource_counts.FATFS > 0 THEN resource_counts
              ELSE FatFS_Init(resource_counts))
  /\ mode' = m
  /\ opened' = [opened EXCEPT !.mode = volume']
  /\ UNCHANGED <<leaving, transfer, collided>>

(* FS_ActiveMode_Init, FS_StartMode_Init, FS_ConfigMode_Init do not look at  *)
(* the result.                                                               *)
EnterMode(m) ==
  /\ ~halted /\ mode = "SLEEP" /\ ~leaving
  /\ Requests(FatFS_Init(resource_counts))
  /\ mode' = m
  /\ opened' = [opened EXCEPT !.mode = volume']
  /\ UNCHANGED <<leaving, transfer, collided>>

(* Mutant of LeaveMode: a mode that is left keeps FatFS. *)
LeaveModeHolding ==
  /\ ~halted /\ mode \in Modes
  /\ mode' = "SLEEP"
  /\ UNCHANGED <<diskVars, opened, halted, faults, leaving, transfer, collided>>

LeaveMode ==
  /\ ~halted /\ mode \in Modes
  /\ Releases(FatFS_DeInit(resource_counts), FatFS_Held(resource_counts))
  /\ mode' = "SLEEP"
  /\ UNCHANGED <<opened, leaving, transfer, collided>>

(* FS_USBMode_Init does not look at the result either. *)
EnterUsb ==
  /\ ~halted /\ mode = "SLEEP" /\ ~leaving
  /\ Requests(MicroSD_Init(resource_counts))
  /\ collided' = (collided \/ ~MicroSD_Free(resource_counts))
  /\ mode' = "USB"
  /\ UNCHANGED <<opened, leaving, transfer>>

(* FS_USBMode_DeInit *)
LeaveUsb ==
  /\ ~halted /\ mode = "USB" /\ ~leaving
  /\ Releases(MicroSD_DeInit(resource_counts), MicroSD_Held(resource_counts))
  /\ leaving' = TRUE
  /\ UNCHANGED <<opened, mode, transfer, collided>>

(* FatFS requested and released within a step: a mount that lasts as long.   *)
RequestsAndReleases ==
  LET requested == FatFS_Init(resource_counts)
  IN \/ /\ IF resource_counts.FATFS = 0 /\ requested.FATFS > 0
          THEN mounts < MaxMounts /\ mounts' = mounts + 1 /\ volume' = 0
          ELSE UNCHANGED <<mounts, volume>>
       /\ resource_counts' = FatFS_DeInit(requested)
       /\ halted' = ~FatFS_Held(requested)
       /\ UNCHANGED faults
     \/ Requests(requested) /\ halted'

(* FS_State_Update, at the end of FS_USBMode_DeInit, does not look at the    *)
(* result either and releases what it was refused.                           *)
UpdateState ==
  /\ ~halted /\ leaving
  /\ RequestsAndReleases
  /\ leaving' = FALSE /\ mode' = "SLEEP"
  /\ UNCHANGED <<opened, transfer, collided>>

(* CREATE, DELETE, MK_DIR, and a file that cannot be opened. *)
BriefCommand ==
  /\ ~halted /\ ~leaving /\ transfer = "IDLE"
  /\ FatFS_Free(resource_counts)
  /\ RequestsAndReleases
  /\ UNCHANGED <<holders, opened, collided>>

(* Mutant of BeginTransfer: a refusal is not looked at. *)
BeginTransferAnyway(t) ==
  /\ ~halted /\ ~leaving /\ transfer = "IDLE"
  /\ Requests(FatFS_Init(resource_counts))
  /\ transfer' = t
  /\ opened' = [opened EXCEPT !.transfer = volume']
  /\ UNCHANGED <<mode, leaving, collided>>

(* FS_CRS_State_Idle: READ, WRITE, READ_DIR; it answers NAK when refused.    *)
BeginTransfer(t) ==
  /\ ~halted /\ ~leaving /\ transfer = "IDLE"
  /\ Requests(FatFS_Init(resource_counts))
  /\ transfer' = IF FatFS_Free(resource_counts) THEN t ELSE "IDLE"
  /\ opened' = [opened EXCEPT !.transfer = volume']
  /\ UNCHANGED <<mode, leaving, collided>>

EndTransfer ==
  /\ ~halted /\ ~leaving /\ transfer # "IDLE"
  /\ Releases(FatFS_DeInit(resource_counts), FatFS_Held(resource_counts))
  /\ transfer' = "IDLE"
  /\ UNCHANGED <<opened, mode, leaving, collided>>

-----------------------------------------------------------------------------
(* After FS_State_Init, which requests and releases FatFS. *)
Init ==
  /\ resource_counts = [VCC |-> 0, MICROSD |-> 0, FATFS |-> 0]
  /\ mode = "SLEEP" /\ leaving = FALSE /\ transfer = "IDLE"
  /\ volume = 0 /\ mounts = 0 /\ opened = [mode |-> 0, transfer |-> 0]
  /\ halted = FALSE /\ faults = 0
  /\ collided = FALSE

Next ==
  \/ \E m \in Modes : EnterMode(m)
  \/ LeaveMode \/ EnterUsb \/ LeaveUsb \/ UpdateState
  \/ \E t \in Transfers : BeginTransfer(t)
  \/ EndTransfer \/ BriefCommand

Spec == Init /\ [][Next]_vars

-----------------------------------------------------------------------------
(* Every variable has its type; a count never exceeds its two holders.       *)
TypeOK ==
  /\ resource_counts \in Counts
  /\ mode \in Modes \union {"SLEEP", "USB"} /\ leaving \in BOOLEAN
  /\ transfer \in Transfers \union {"IDLE"}
  /\ halted \in BOOLEAN /\ collided \in BOOLEAN
  /\ mounts \in 0..MaxMounts /\ volume \in 0..mounts
  /\ opened \in [mode : 0..mounts, transfer : 0..mounts]
  /\ faults \in 0..MaxFaults

UsesFatFS == IF mode \in Modes THEN IF transfer # "IDLE" THEN 2 ELSE 1
                               ELSE IF transfer # "IDLE" THEN 1 ELSE 0

(* FatFS is counted once for the mode and once for the transfer that use it, *)
(* the card is held by FatFS or by USB mode, and the supply is on exactly    *)
(* then: nobody works on a card that has no power or was unmounted, unless   *)
(* USB mode went on although it had been refused the card.                   *)
CountsMatchHolders ==
  ~collided /\ ~halted =>
    /\ resource_counts.FATFS = UsesFatFS
    /\ resource_counts.MICROSD =
         IF UsesFatFS > 0 \/ (mode = "USB" /\ ~leaving) THEN 1 ELSE 0
    /\ resource_counts.VCC = resource_counts.MICROSD

(* The files of a mode and of a transfer stay on the volume they were opened *)
(* on: whoever lets go first does not unmount it under the other.            *)
FilesOnVolume ==
  ~collided /\ ~halted =>
    /\ mode \in Modes => volume = opened.mode /\ volume > 0
    /\ transfer # "IDLE" => volume = opened.transfer /\ volume > 0

(* Without that collision only a card that cannot be mounted stops the       *)
(* processor: no release is one too many.                                    *)
ReleasesMatch == ~collided /\ faults = 0 => ~halted

(* "Initialize microSD - exclusive; fails if USB mode holds it"              *)
(* (resource_manager.c:144): USB mode and FatFS never both use the card.     *)
CardExclusive == ~(mode = "USB" /\ ~leaving /\ UsesFatFS > 0)
=============================================================================
