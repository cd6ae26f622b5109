---------------------------- MODULE MCProgress ------------------------------
(* The I2C bus and the other parts driven by interrupts, side by side, with  *)
(* the fairness of the hardware and of the scheduler: each has variables of  *)
(* its own, the choice of part decides in the initial state which of them    *)
(* moves, and the others stay as they begin.                                 *)
EXTENDS SensorBus

CONSTANTS
  MaxMarks,                            \* of StartControl
  AUDIO_FRAME_LEN, Lengths, Word, MaxSounds  \* of AudioPlayback

ASSUME MarksAssumption == MaxMarks \in Nat
ASSUME SoundsAssumption ==
  AUDIO_FRAME_LEN \in Nat \ {0} /\ Lengths \subseteq Nat /\ Word \in Nat \ {0}
  /\ MaxSounds \in Nat

VARIABLES
  part,      \* the one that moves
  imu_imuState, imu_busy, imu_handleRead, imu_enableLoggingCb,
  imu_overrunPending, imu_drdy, imu_routed, imu_sampling, imu_extiOn,
  imu_extiFlag, imu_dma, imu_pc, imu_task, imu_shouldLog, imu_failed,
  imu_asked, imu_due, imu_misled,
  start_state, start_countdown, start_timer, start_extint, start_update,
  start_step, start_marks, start_ticked, start_ticks, start_late,
  btn_line, btn_edge, btn_state, btn_count, btn_busy, btn_timer,
  btn_sampling, btn_ignored,
  audio_mode, audio_audioState, audio_listLeft, audio_fileOpen, audio_audioLen,
  audio_frameCount, audio_lastFrame, audio_readPos, audio_writePos,
  audio_audioBuffer, audio_dma, audio_sent, audio_timer, audio_updateTask,
  audio_pc, audio_count, audio_local, audio_sounds, audio_wrong,
  audio_disturbed, audio_endless,
  al_session, al_s_state, al_alTask, al_timer, al_stray, al_status,
  al_scanTask, al_connTask, al_discTask, al_found, al_discState,
  al_rxCharFound, al_call, al_radio, al_link, al_gatt, al_events,
  al_sessions, al_losses, al_faults, al_configured, al_gaveUp, al_outlived,
  gnss_phase, gnss_gnss_is_initializing, gnss_asked, gnss_setting,
  gnss_pending, gnss_configured, gnss_late, gnss_dma, gnss_slots, gnss_writeIndex, gnss_gnssRxIndex,
  gnss_updateTask, gnss_upto, gnss_gnssTimeOfWeek, gnss_gnssMsgReceived,
  gnss_gnssData, gnss_gnssTime, gnss_validTime, gnss_epoch, gnss_said,
  gnss_pulse, gnss_announced, gnss_faults, gnss_mixed, gnss_misdated,
  gnss_disordered

Imu == INSTANCE ImuReader WITH
  imuState <- imu_imuState, busy <- imu_busy, handleRead <- imu_handleRead,
  enableLoggingCb <- imu_enableLoggingCb,
  overrunPending <- imu_overrunPending, drdy <- imu_drdy,
  routed <- imu_routed, sampling <- imu_sampling, extiOn <- imu_extiOn,
  extiFlag <- imu_extiFlag, dma <- imu_dma, pc <- imu_pc, task <- imu_task,
  shouldLog <- imu_shouldLog, failed <- imu_failed, asked <- imu_asked,
  due <- imu_due, misled <- imu_misled
Start == INSTANCE StartControl WITH
  state <- start_state, countdown <- start_countdown,
  timer <- start_timer, extint <- start_extint, update <- start_update,
  step <- start_step, marks <- start_marks, ticked <- start_ticked,
  ticks <- start_ticks, late <- start_late
Btn == INSTANCE Button WITH
  line <- btn_line, edge <- btn_edge, state <- btn_state, count <- btn_count,
  busy <- btn_busy, timer <- btn_timer, sampling <- btn_sampling,
  ignored <- btn_ignored
Audio == INSTANCE AudioPlayback WITH
  mode <- audio_mode, audioState <- audio_audioState, listLeft <- audio_listLeft,
  fileOpen <- audio_fileOpen, audioLen <- audio_audioLen,
  frameCount <- audio_frameCount, lastFrame <- audio_lastFrame,
  readPos <- audio_readPos, writePos <- audio_writePos,
  audioBuffer <- audio_audioBuffer, dma <- audio_dma, sent <- audio_sent,
  timer <- audio_timer, updateTask <- audio_updateTask,
  pc <- audio_pc, count <- audio_count, local <- audio_local,
  sounds <- audio_sounds, wrong <- audio_wrong,
  disturbed <- audio_disturbed, endless <- audio_endless
Glasses == INSTANCE ActiveLook WITH
  MaxSessions <- 2, MaxLosses <- 1, MaxFaults <- 0, session <- al_session,
  s_state <- al_s_state, alTask <- al_alTask, timer <- al_timer,
  stray <- al_stray, status <- al_status, scanTask <- al_scanTask,
  connTask <- al_connTask, discTask <- al_discTask, found <- al_found,
  discState <- al_discState, rxCharFound <- al_rxCharFound, call <- al_call,
  radio <- al_radio, link <- al_link, gatt <- al_gatt, events <- al_events,
  sessions <- al_sessions, losses <- al_losses, faults <- al_faults,
  configured <- al_configured, gaveUp <- al_gaveUp, outlived <- al_outlived
Gnss == INSTANCE GnssReceiver WITH
  LEN <- 3, Settings <- 2, MsgSettings <- 2, ErrorPhases <- {"switch"},
  MaxTow <- 0, MaxFaults <- 2, MaxLate <- 1, phase <- gnss_phase,
  gnss_is_initializing <- gnss_gnss_is_initializing, asked <- gnss_asked,
  setting <- gnss_setting, pending <- gnss_pending,
  configured <- gnss_configured, late <- gnss_late, dma <- gnss_dma,
  slots <- gnss_slots, writeIndex <- gnss_writeIndex,
  gnssRxIndex <- gnss_gnssRxIndex, updateTask <- gnss_updateTask,
  upto <- gnss_upto, gnssTimeOfWeek <- gnss_gnssTimeOfWeek,
  gnssMsgReceived <- gnss_gnssMsgReceived, gnssData <- gnss_gnssData,
  gnssTime <- gnss_gnssTime, validTime <- gnss_validTime,
  epoch <- gnss_epoch, said <- gnss_said, pulse <- gnss_pulse,
  announced <- gnss_announced, faults <- gnss_faults, mixed <- gnss_mixed,
  misdated <- gnss_misdated, disordered <- gnss_disordered

imu_vars == <<
  imu_imuState, imu_busy, imu_handleRead, imu_enableLoggingCb,
  imu_overrunPending, imu_drdy, imu_routed, imu_sampling, imu_extiOn,
  imu_extiFlag, imu_dma, imu_pc, imu_task, imu_shouldLog, imu_failed,
  imu_asked, imu_due, imu_misled>>
start_vars == <<
  start_state, start_countdown, start_timer, start_extint, start_update,
  start_step, start_marks, start_ticked, start_ticks, start_late>>
btn_vars == <<
  btn_line, btn_edge, btn_state, btn_count, btn_busy, btn_timer,
  btn_sampling, btn_ignored>>
audio_vars == <<
  audio_mode, audio_audioState, audio_listLeft, audio_fileOpen, audio_audioLen,
  audio_frameCount, audio_lastFrame, audio_readPos, audio_writePos,
  audio_audioBuffer, audio_dma, audio_sent, audio_timer, audio_updateTask,
  audio_pc, audio_count, audio_local, audio_sounds, audio_wrong,
  audio_disturbed, audio_endless>>
al_vars == <<
  al_session, al_s_state, al_alTask, al_timer, al_stray, al_status,
  al_scanTask, al_connTask, al_discTask, al_found, al_discState,
  al_rxCharFound, al_call, al_radio, al_link, al_gatt, al_events,
  al_sessions, al_losses, al_faults, al_configured, al_gaveUp, al_outlived>>
gnss_vars == <<
  gnss_phase, gnss_gnss_is_initializing, gnss_asked, gnss_setting,
  gnss_pending, gnss_configured, gnss_late, gnss_dma, gnss_slots, gnss_writeIndex, gnss_gnssRxIndex,
  gnss_updateTask, gnss_upto, gnss_gnssTimeOfWeek, gnss_gnssMsgReceived,
  gnss_gnssData, gnss_gnssTime, gnss_validTime, gnss_epoch, gnss_said,
  gnss_pulse, gnss_announced, gnss_faults, gnss_mixed, gnss_misdated,
  gnss_disordered>>

(* All variables but those of one part. *)
ButBus == <<
  imu_vars, start_vars, btn_vars, audio_vars, al_vars, gnss_vars>>
ButImu == <<
  vars, start_vars, btn_vars, audio_vars, al_vars, gnss_vars>>
ButStart == <<
  vars, imu_vars, btn_vars, audio_vars, al_vars, gnss_vars>>
ButBtn == <<
  vars, imu_vars, start_vars, audio_vars, al_vars, gnss_vars>>
ButAudio == <<
  vars, imu_vars, start_vars, btn_vars, al_vars, gnss_vars>>
ButGlasses == <<
  vars, imu_vars, start_vars, btn_vars, audio_vars, gnss_vars>>
ButGnss == <<
  vars, imu_vars, start_vars, btn_vars, audio_vars, al_vars>>
all == <<
  part, vars, imu_vars, start_vars, btn_vars, audio_vars, al_vars,
  gnss_vars>>

-----------------------------------------------------------------------------
MCInit ==
  /\ part \in {"Bus", "Imu", "Start", "Btn", "Audio", "Glasses", "Gnss"}
  /\ Init /\ Imu!Init /\ Start!Init /\ Btn!Init /\ Audio!Init /\ Glasses!Init
  /\ Gnss!Init
  /\ part # "Btn" => btn_line = "RELEASED"
  /\ part # "Audio" => audio_mode = "START"

MCNext ==
  /\ UNCHANGED part
  /\ \/ part = "Bus" /\ Next /\ UNCHANGED ButBus
     \/ part = "Imu" /\ Imu!Next /\ UNCHANGED ButImu
     \/ part = "Start" /\ Start!Next /\ UNCHANGED ButStart
     \/ part = "Btn" /\ Btn!Next /\ UNCHANGED ButBtn
     \/ part = "Audio" /\ Audio!Next /\ UNCHANGED ButAudio
     \/ part = "Glasses" /\ Glasses!Next /\ UNCHANGED ButGlasses
     \/ part = "Gnss" /\ Gnss!Next /\ UNCHANGED ButGnss

(* The fairness of the part that moves: that of its own module, put together *)
(* because only one part moves in a behaviour. *)
First ==
  /\ UNCHANGED part
  /\ CASE part = "Bus" -> Finishes /\ UNCHANGED ButBus
       [] part = "Imu" -> Imu!Interrupts /\ UNCHANGED ButImu
       [] part = "Start" -> Start!Goes /\ UNCHANGED ButStart
       [] part = "Btn" -> Btn!Starts /\ UNCHANGED ButBtn
       [] part = "Audio" -> Audio!Sends /\ UNCHANGED ButAudio
       [] part = "Glasses" -> Glasses!Turns /\ UNCHANGED ButGlasses
       [] part = "Gnss" -> Gnss!InitGoesOn /\ UNCHANGED ButGnss
       [] OTHER -> FALSE
Second ==
  /\ UNCHANGED part
  /\ CASE part = "Imu" -> Imu!StopWaited /\ UNCHANGED ButImu
       [] part = "Start" -> Start!CountTimer /\ UNCHANGED ButStart
       [] part = "Btn" -> Btn!Handlers /\ UNCHANGED ButBtn
       [] part = "Glasses" -> Glasses!Proceeds /\ UNCHANGED ButGlasses
       [] OTHER -> FALSE
Third ==
  /\ UNCHANGED part
  /\ CASE part = "Glasses" -> Glasses!Closes /\ UNCHANGED ButGlasses
       [] OTHER -> FALSE
InTurn ==
  /\ UNCHANGED part
  /\ CASE part = "Bus" -> GoesOn /\ UNCHANGED ButBus
       [] part = "Start" -> Start!Reads /\ UNCHANGED ButStart
       [] part = "Audio" -> Audio!Tasks /\ UNCHANGED ButAudio
       [] part = "Glasses" -> Glasses!Handlers /\ UNCHANGED ButGlasses
       [] OTHER -> FALSE

MCSpec == /\ MCInit /\ [][MCNext]_all
          /\ WF_all(First) /\ WF_all(Second) /\ WF_all(Third) /\ SF_all(InTurn)

-----------------------------------------------------------------------------
(* The IMU is never left waiting, alone on its bus, and logs as asked        *)
(* (imu.c).                                                                  *)
ReaderSafe == Imu!ReaderSafe

(* A countdown is whole and reports the time of its own tone                 *)
(* (start_control.c).                                                        *)
CountdownSafe == Start!CountdownSafe

(* The debounced button is the button (button.c). *)
ButtonSafe == Btn!ButtonSafe

(* What is heard is the sound that is played, and nothing else (audio.c). *)
PlaybackSafe == Audio!PlaybackSafe

(* The drivers come to their end: FS_Sensor_Stop and FS_IMU_Stop return       *)
(* whatever the interrupts do, a countdown ends in the start or in a         *)
(* cancellation, a press is seen and a sound ends.                           *)
DriversProceed ==
  /\ StopReturns /\ Imu!ImuStopReturns /\ Start!CountdownResolves
  /\ Btn!PressIsSeen /\ Audio!SoundEnds

(* What waits for somebody else comes to its end: FS_GNSS_Init, once the     *)
(* line is quiet, and the display, where no known weakness is met.           *)
RemotesProceed == Gnss!InitEnds /\ Glasses!DisplayComesUp
=============================================================================
