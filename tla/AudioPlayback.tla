--------------------------- MODULE AudioPlayback ---------------------------
(***************************************************************************)
(* The play-out of tones and recorded speech (FlySight/audio.c): a ring of *)
(* samples that the update task fills while the DMA sends it frame by      *)
(* frame, and the interrupt at the end of a frame that starts the next.    *)
(*                                                                         *)
(* A position counts the samples of a sound, from the padding of its first *)
(* frame on; position p is slot p modulo the frame.  The end of a frame is *)
(* an interrupt that comes at once.  The tasks run one at a time; the DMA, *)
(* and the timer interrupts that begin a sound, come between any two of    *)
(* their steps.                                                            *)
(***************************************************************************)
EXTENDS Integers

CONSTANTS
  AUDIO_FRAME_LEN,
  Lengths,        \* samples a sound may have
  Word,           \* 2^32: more than any sound has
  MaxSounds       \* bound

VARIABLES
  mode,                    \* who calls: start_control.c or audio_control.c
  audioState, listLeft,    \* files to play of audioListPtr
  fileOpen, audioLen, frameCount, lastFrame, readPos, writePos,
  audioBuffer,             \* the sound and the position in each slot
  dma, sent,               \* the DMA is under way; the position it sends next
  timer, updateTask,
  pc, count, local,        \* a task in here: its step, what it has read or computed
  sounds,                  \* sounds begun
  wrong,                   \* history: a sample sent was overwritten before
  disturbed,               \* history: the sound was begun by an interrupt while a task was in here
  endless                  \* history: a sound without samples was begun

control == <<mode, audioState, listLeft, fileOpen>>
stream  == <<audioLen, lastFrame, readPos, writePos>>
sending == <<frameCount, dma, sent>>
sched   == <<timer, updateTask>>
task    == <<pc, count, local>>
marks   == <<sounds, wrong, disturbed, endless>>
vars == <<control, stream, sending, audioBuffer, sched, task, marks>>

Slots == 0..AUDIO_FRAME_LEN - 1
Slot(p) == p % AUDIO_FRAME_LEN
Lesser(a, b) == IF a < b THEN a ELSE b

FilesOpen == {"PLAY_FILE", "PLAY_LIST"}
Playing == {"PLAY_TONE"} \union FilesOpen
Idle == audioState = "IDLE"

-----------------------------------------------------------------------------
(* A difference of 32 bits has no sign. *)
Unsigned(n) == IF n < 0 THEN n % Word ELSE n

(* Mutant of Space: the ring is taken for one sample longer than it is. *)
SpacePlusOne(read, write) == Unsigned(read + AUDIO_FRAME_LEN - write + 1)
Space(read, write) == Unsigned(read + AUDIO_FRAME_LEN - write)
Size(read, write, left) == Lesser(AUDIO_FRAME_LEN, Lesser(Space(read, write), left))

(* FS_Audio_LoadTone and FS_Audio_LoadFile. *)
Load(sound, write, left, size) ==
  /\ audioBuffer' =
       [s \in Slots |-> IF \E p \in write..write + size - 1 : Slot(p) = s
                        THEN [sound |-> sound,
                            pos |-> CHOOSE p \in write..write + size - 1 : Slot(p) = s]
                        ELSE audioBuffer[s]]
  /\ writePos' = write + size /\ audioLen' = Unsigned(left - size)

(* FS_Audio_InitTransfer, and the start of the timer behind it.  A DMA that  *)
(* is under way refuses the transfer and goes on.                            *)
InitTransfer(len, refused) ==
  LET frames == (len + AUDIO_FRAME_LEN - 1) \div AUDIO_FRAME_LEN
      first  == frames * AUDIO_FRAME_LEN - len
  IN /\ lastFrame' = frames /\ frameCount' = 0 /\ readPos' = first
     /\ Load(sounds + 1, first, len, Size(first, first, len))
     /\ dma' = TRUE /\ timer' = TRUE
     /\ sent' = IF refused THEN sent - frameCount * AUDIO_FRAME_LEN ELSE first
     /\ sounds' = sounds + 1 /\ endless' = (endless \/ frames = 0)

(* Mutant of Closed: a file that was stopped stays open. *)
ClosedLater(open) == open
Closed(open) == FALSE

(* FS_Audio_Play and FS_Audio_Beep in a timer interrupt, from their first    *)
(* statement to the last: they begin with FS_Audio_Stop if something plays.  *)
InterruptBegins(state) ==
  /\ sounds < MaxSounds /\ ~endless
  /\ \/ /\ \E len \in Lengths : (state = "PLAY_TONE" => len > 0) /\ InitTransfer(len, Idle /\ dma)
        /\ audioState' = state /\ fileOpen' = (state \in FilesOpen)
        /\ disturbed' = IF pc = "idle" THEN disturbed /\ Idle /\ dma ELSE TRUE
     \/ \* no file of this name
        /\ state \in FilesOpen
        /\ audioState' = "IDLE" /\ fileOpen' = Closed(fileOpen)
        /\ IF Idle THEN UNCHANGED <<dma, timer>> ELSE dma' = FALSE /\ timer' = FALSE
        /\ disturbed' = (disturbed \/ pc # "idle")
        /\ UNCHANGED <<stream, frameCount, sent, audioBuffer, sounds, endless>>
  /\ UNCHANGED <<mode, listLeft, updateTask, task, wrong>>

(* The countdown plays over whatever plays; the tone of ACTIVE mode only     *)
(* comes when nothing does.                                                  *)
Countdown == mode = "START" /\ \E state \in {"PLAY_TONE", "PLAY_FILE"} : InterruptBegins(state)
Tone == mode = "ACTIVE" /\ Idle /\ InterruptBegins("PLAY_TONE")

(* FS_Audio_Stop by a task of ACTIVE mode: the DMA and the timer are         *)
(* stopped, the file is closed.                                              *)
Stopped ==
  /\ audioState' = "IDLE" /\ fileOpen' = Closed(fileOpen)
  /\ dma' = FALSE /\ timer' = FALSE

FS_Audio_Stop ==
  /\ mode = "ACTIVE" /\ pc = "idle" /\ Stopped /\ disturbed' = FALSE
  /\ UNCHANGED <<mode, listLeft, stream, frameCount, sent, audioBuffer, updateTask, task, sounds,
                 wrong, endless>>

(* FS_Audio_Play, _PlayList and _Beep by a task: what plays is stopped, and  *)
(* then, in TaskBegins, the state is set and the sound begun.                *)
Call(state, files) ==
  /\ mode = "ACTIVE" /\ pc = "idle" /\ pc' = state /\ listLeft' = files
  /\ IF Idle THEN UNCHANGED <<audioState, fileOpen, dma, timer>> ELSE Stopped
  /\ UNCHANGED <<mode, stream, frameCount, sent, audioBuffer, updateTask, count, local, marks>>

FS_Audio_Beep == Call("PLAY_TONE", 0)
FS_Audio_Play == Call("PLAY_FILE", 0)
FS_Audio_PlayList == \E files \in 1..2 : Call("PLAY_LIST", files)

TaskBegins ==
  /\ pc \in Playing /\ pc' = "idle"
  /\ \/ /\ sounds < MaxSounds /\ ~endless /\ (pc = "PLAY_LIST" => listLeft > 0)
        /\ \E len \in Lengths : (pc = "PLAY_TONE" => len > 0) /\ InitTransfer(len, dma)
        /\ audioState' = pc /\ fileOpen' = (pc \in FilesOpen)
        /\ listLeft' = IF pc = "PLAY_LIST" THEN listLeft - 1 ELSE listLeft
        /\ disturbed' = (disturbed /\ dma)
     \/ \* no file of this name, or none of the list
        /\ pc \in FilesOpen \/ sounds = MaxSounds \/ endless
        /\ audioState' = "IDLE" /\ fileOpen' = FALSE /\ listLeft' = 0
        /\ UNCHANGED <<stream, sending, audioBuffer, timer, sounds, disturbed, endless>>
  /\ UNCHANGED <<mode, updateTask, count, local, wrong>>

-----------------------------------------------------------------------------
(* The DMA.  A sample that was loaded must still be there when it is sent;   *)
(* one that is not loaded yet, because the update is late, is noise.         *)
FrameEnds == sent = (frameCount + 1) * AUDIO_FRAME_LEN

DmaSends ==
  /\ dma /\ ~FrameEnds /\ ~endless
  /\ wrong' = (wrong \/ (~disturbed /\ sent < writePos
                          /\ audioBuffer[Slot(sent)] # [sound |-> sounds, pos |-> sent]))
  /\ sent' = sent + 1
  /\ UNCHANGED <<control, stream, frameCount, dma, audioBuffer, sched, task, sounds, disturbed,
                 endless>>

(* Mutant of Wakes: the last frame leaves the task to the timer, which it     *)
(* has stopped.                                                              *)
WakesByTimer == updateTask
Wakes == TRUE

(* HAL_SAI_TxCpltCallback.  A sound without samples has no last frame: the   *)
(* model ends there.                                                         *)
TxCplt ==
  /\ dma /\ FrameEnds /\ ~endless
  /\ frameCount' = frameCount + 1
  /\ dma' = (frameCount' # lastFrame)
  /\ IF dma' THEN UNCHANGED <<timer, updateTask>> ELSE timer' = FALSE /\ updateTask' = Wakes
  /\ UNCHANGED <<control, stream, sent, audioBuffer, task, marks>>

FS_Audio_Timer ==
  /\ timer /\ updateTask' = TRUE
  /\ UNCHANGED <<control, stream, sending, audioBuffer, timer, task, marks>>

-----------------------------------------------------------------------------
(* FS_Audio_Update reads where the DMA is, compares, stores, asks for the    *)
(* room and copies: between any two of these an interrupt may begin a sound. *)
Goto(from, to) == pc = from /\ pc' = to

UpdateReads ==
  /\ updateTask /\ updateTask' = FALSE /\ pc = "idle"
  /\ IF Idle THEN UNCHANGED task ELSE pc' = "read" /\ count' = frameCount /\ local' = sent
  /\ UNCHANGED <<control, stream, sending, audioBuffer, timer, marks>>

(* Mutant of Played: the last frame counts as played while it is sent. *)
PlayedEarly == count = lastFrame - 1
Played == count = lastFrame

UpdateCompares ==
  /\ Goto("read", IF Played THEN "ended" ELSE "found") /\ count' = 0
  /\ UNCHANGED <<control, stream, sending, audioBuffer, sched, local, marks>>

UpdateStores ==
  /\ Goto("found", "load") /\ readPos' = local /\ local' = 0
  /\ UNCHANGED <<control, audioLen, lastFrame, writePos, sending, audioBuffer, sched, count, marks>>

UpdateSizes ==
  /\ Goto("load", IF Idle THEN "idle" ELSE "copy")
  /\ local' = IF Idle THEN 0 ELSE Size(readPos, writePos, audioLen)
  /\ UNCHANGED <<control, stream, sending, audioBuffer, sched, count, marks>>

UpdateCopies ==
  /\ Goto("copy", "idle") /\ local' = 0
  /\ Load(sounds, writePos, audioLen, local)
  /\ UNCHANGED <<control, lastFrame, readPos, sending, sched, count, marks>>

(* The sound is over: its file is closed, and a list goes on with its next   *)
(* one.                                                                      *)
UpdateEnds ==
  /\ Goto("ended", IF audioState = "PLAY_LIST" THEN "PLAY_LIST" ELSE "idle")
  /\ audioState' = "IDLE" /\ fileOpen' = FALSE /\ local' = 0
  /\ UNCHANGED <<mode, listLeft, stream, sending, audioBuffer, sched, count, marks>>

-----------------------------------------------------------------------------
Init ==
  /\ mode \in {"START", "ACTIVE"}
  /\ audioState = "IDLE" /\ listLeft = 0 /\ fileOpen = FALSE
  /\ audioLen = 0 /\ frameCount = 0 /\ lastFrame = 0 /\ readPos = 0 /\ writePos = 0
  /\ audioBuffer = [s \in Slots |-> [sound |-> 0, pos |-> s]]
  /\ dma = FALSE /\ sent = 0 /\ timer = FALSE /\ updateTask = FALSE
  /\ pc = "idle" /\ count = 0 /\ local = 0
  /\ sounds = 0 /\ wrong = FALSE /\ disturbed = FALSE /\ endless = FALSE

Callers == FS_Audio_Beep \/ FS_Audio_Play \/ FS_Audio_PlayList \/ FS_Audio_Stop
Interrupts == Countdown \/ Tone \/ DmaSends \/ TxCplt \/ FS_Audio_Timer
Update == UpdateReads \/ UpdateCompares \/ UpdateStores \/ UpdateSizes \/ UpdateCopies
            \/ UpdateEnds
Next == Callers \/ TaskBegins \/ Update \/ Interrupts

Spec == Init /\ [][Next]_vars

(* The DMA goes on; the update task, once set, runs, and what a task has     *)
(* begun here it ends.                                                       *)
Sends == DmaSends \/ TxCplt
Tasks == TaskBegins \/ Update
Fairness == WF_vars(Sends) /\ SF_vars(Tasks)
FairSpec == Spec /\ Fairness

-----------------------------------------------------------------------------
Numbers == 0..MaxSounds

TypeOK ==
  /\ mode \in {"START", "ACTIVE"}
  /\ audioState \in {"IDLE"} \union Playing /\ listLeft \in 0..2
  /\ audioLen \in Nat /\ frameCount \in Nat /\ lastFrame \in Nat
  /\ readPos \in Nat /\ writePos \in Nat /\ sent \in Nat
  /\ audioBuffer \in [Slots -> [sound : Numbers, pos : Nat]]
  /\ pc \in {"idle", "read", "ended", "found", "load", "copy"} \union Playing
  /\ count \in Nat /\ local \in Nat
  /\ \A flag \in {fileOpen, dma, timer, updateTask, wrong, disturbed, endless} : flag \in BOOLEAN
  /\ sounds \in Numbers

(* The update never overwrites a sample that is still to be sent, and never  *)
(* leaves one of an earlier sound: what was loaded in time is heard.  This   *)
(* is not said of a sound that an interrupt began while a task was in here   *)
(* (disturbed): the task goes on with the position or the room of the sound  *)
(* before.                                                                   *)
HeardAsLoaded == ~wrong

(* A sound that counts as over is: the DMA sends nothing more when the next  *)
(* one is begun, or the memory of the file is used again.  A sound that was  *)
(* begun so, in the middle of a task, may be sent while it counts as over.   *)
IdleIsSilent == Idle /\ ~disturbed /\ ~endless => ~dma

(* The file is open exactly while one plays, however it ends and whoever     *)
(* begins the next sound.                                                    *)
FileHeld == fileOpen = (audioState \in FilesOpen)

(* What is heard is the sound that is played, from its file, and nothing     *)
(* else, unless an interrupt began it in the middle of a task.               *)
PlaybackSafe ==
  TypeOK /\ HeardAsLoaded /\ IdleIsSilent /\ FileHeld

(* Every sound ends, the disturbed ones too. *)
SoundEnds == audioState # "IDLE" ~> (audioState = "IDLE" \/ endless)
=============================================================================
