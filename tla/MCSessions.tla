---------------------------- MODULE MCSessions ------------------------------
(* The card and the parts of a session that share no state with it, side by  *)
(* side: each has variables of its own, the choice of part decides in the    *)
(* initial state which of them moves, and the others stay as they begin.     *)
EXTENDS ResourceManager

CONSTANTS
  COUNT, BatchTarget, Wrap, MaxSamples,           \* of LogSession
  EVENT_COUNT, MaxEvents,                         \* of EventRing
  CFG_HW_TS_MAX_NBR_CONCURRENT_TIMER,             \* of VbatTimers
  Altitudes, AltMin, StepSize, Alarms, Windows,   \* of AudioControl
  MaxWords, SpRate,
  MaxSessions,                                    \* also of ActiveLook
  LEN, Settings, MsgSettings, ErrorPhases, MaxTow, GnssFaults,
  MaxLate,                                        \* of GnssReceiver
  GlassesLosses, GlassesFaults                    \* of ActiveLook

ASSUME LogAssumption ==
  COUNT \in Nat \ {0} /\ BatchTarget \in Nat \ {0} /\ Wrap \in Nat \ {0} /\ MaxSamples \in Nat
ASSUME EventAssumption == EVENT_COUNT \in Nat \ {0} /\ MaxEvents \in Nat
ASSUME TimerAssumption ==
  CFG_HW_TS_MAX_NBR_CONCURRENT_TIMER \in Nat /\ CFG_HW_TS_MAX_NBR_CONCURRENT_TIMER >= 2
ASSUME SpeechAssumption == MaxWords \in Nat /\ SpRate \in Nat /\ MaxSessions \in Nat
ASSUME GnssAssumption ==
  LEN \in Nat \ {0} /\ Settings \in Nat /\ MsgSettings \in Nat /\ MaxTow \in Nat
  /\ GnssFaults \in Nat /\ MaxLate \in Nat
ASSUME GlassesAssumption == GlassesLosses \in Nat /\ GlassesFaults \in Nat

VARIABLES
  part,      \* the one that moves
  log_logState, log_enable_flags, log_buf, log_rdI, log_wrI, log_timer,
  log_updateTask, log_syncTask, log_pc, log_next, log_accepted, log_now,
  log_sensorBatchLen, log_sensorSyncPending, log_open, log_rows, log_stored,
  log_unsynced, log_misread,
  ev_active, ev_updateTask, ev_eventBuf, ev_eventRdI, ev_eventWrI, ev_pc, ev_entry, ev_read,
  ev_eventIndex, ev_updating, ev_rows, ev_lost, ev_made, ev_dropped, ev_nested,
  gnss_phase, gnss_gnss_is_initializing, gnss_asked, gnss_setting,
  gnss_pending, gnss_configured, gnss_late, gnss_dma, gnss_slots, gnss_writeIndex, gnss_gnssRxIndex,
  gnss_updateTask, gnss_upto, gnss_gnssTimeOfWeek, gnss_gnssMsgReceived,
  gnss_gnssData, gnss_gnssTime, gnss_validTime, gnss_epoch, gnss_said,
  gnss_pulse, gnss_announced, gnss_faults, gnss_mixed, gnss_misdated,
  gnss_disordered,
  vbat_mode, vbat_connected, vbat_ble_vbat_started, vbat_ble_adc_started,
  vbat_adc, vbat_vbat_timer_id, vbat_other_id, vbat_timers, vbat_doubled,
  say_session, say_sessions, say_flags, say_prevFix, say_prevHMSL,
  say_g_suppress_tone, say_left, say_sp_counter, say_toneRate, say_toneHold,
  say_producer, say_consumer, say_audio, say_late, say_runaway,
  al_session, al_s_state, al_alTask, al_timer, al_stray, al_status,
  al_scanTask, al_connTask, al_discTask, al_found, al_discState,
  al_rxCharFound, al_call, al_radio, al_link, al_gatt, al_events,
  al_sessions, al_losses, al_faults, al_configured, al_gaveUp, al_outlived,
  cal_day, cal_year, cal_month, cal_mday

Log == INSTANCE LogSession WITH
  logState <- log_logState, enable_flags <- log_enable_flags, buf <- log_buf,
  rdI <- log_rdI, wrI <- log_wrI, timer <- log_timer,
  updateTask <- log_updateTask, syncTask <- log_syncTask, pc <- log_pc,
  next <- log_next, accepted <- log_accepted, now <- log_now,
  sensorBatchLen <- log_sensorBatchLen,
  sensorSyncPending <- log_sensorSyncPending, open <- log_open,
  rows <- log_rows, stored <- log_stored, unsynced <- log_unsynced,
  misread <- log_misread
Events == INSTANCE EventRing WITH
  active <- ev_active, updateTask <- ev_updateTask,
  eventBuf <- ev_eventBuf, eventRdI <- ev_eventRdI, eventWrI <- ev_eventWrI,
  pc <- ev_pc, entry <- ev_entry, read <- ev_read,
  eventIndex <- ev_eventIndex, updating <- ev_updating, rows <- ev_rows,
  lost <- ev_lost, made <- ev_made, dropped <- ev_dropped, nested <- ev_nested
Gnss == INSTANCE GnssReceiver WITH
  MaxFaults <- GnssFaults, phase <- gnss_phase,
  gnss_is_initializing <- gnss_gnss_is_initializing, asked <- gnss_asked,
  setting <- gnss_setting, pending <- gnss_pending,
  configured <- gnss_configured, late <- gnss_late, dma <- gnss_dma,
  slots <- gnss_slots, writeIndex <- gnss_writeIndex,
  gnssRxIndex <- gnss_gnssRxIndex, updateTask <- gnss_updateTask,
  upto <- gnss_upto, gnssTimeOfWeek <- gnss_gnssTimeOfWeek,
  gnssMsgReceived <- gnss_gnssMsgReceived, gnssData <- gnss_gnssData,
  gnssTime <- gnss_gnssTime, validTime <- gnss_validTime,
  epoch <- gnss_epoch, said <- gnss_said, pulse <- gnss_pulse,
  announced <- gnss_announced, faults <- gnss_faults, mixed <- gnss_mixed,
  misdated <- gnss_misdated, disordered <- gnss_disordered
Vbat == INSTANCE VbatTimers WITH
  mode <- vbat_mode,
  connected <- vbat_connected, ble_vbat_started <- vbat_ble_vbat_started,
  ble_adc_started <- vbat_ble_adc_started, adc <- vbat_adc,
  vbat_timer_id <- vbat_vbat_timer_id, other_id <- vbat_other_id,
  timers <- vbat_timers, doubled <- vbat_doubled
Speech == INSTANCE AudioControl WITH
  session <- say_session, sessions <- say_sessions, flags <- say_flags,
  prevFix <- say_prevFix, prevHMSL <- say_prevHMSL,
  g_suppress_tone <- say_g_suppress_tone, left <- say_left,
  sp_counter <- say_sp_counter, toneRate <- say_toneRate,
  toneHold <- say_toneHold, producer <- say_producer,
  consumer <- say_consumer, audio <- say_audio, late <- say_late,
  runaway <- say_runaway
Glasses == INSTANCE ActiveLook WITH
  MaxLosses <- GlassesLosses, MaxFaults <- GlassesFaults, session <- al_session,
  s_state <- al_s_state, alTask <- al_alTask, timer <- al_timer,
  stray <- al_stray, status <- al_status, scanTask <- al_scanTask,
  connTask <- al_connTask, discTask <- al_discTask, found <- al_found,
  discState <- al_discState, rxCharFound <- al_rxCharFound, call <- al_call,
  radio <- al_radio, link <- al_link, gatt <- al_gatt, events <- al_events,
  sessions <- al_sessions, losses <- al_losses, faults <- al_faults,
  configured <- al_configured, gaveUp <- al_gaveUp, outlived <- al_outlived
Days == INSTANCE Calendar WITH
  LastDay <- 49709, day <- cal_day, year <- cal_year, month <- cal_month,
  mday <- cal_mday

log_vars == <<
  log_logState, log_enable_flags, log_buf, log_rdI, log_wrI, log_timer,
  log_updateTask, log_syncTask, log_pc, log_next, log_accepted, log_now,
  log_sensorBatchLen, log_sensorSyncPending, log_open, log_rows, log_stored,
  log_unsynced, log_misread>>
ev_vars == <<
  ev_active, ev_updateTask, ev_eventBuf, ev_eventRdI, ev_eventWrI, ev_pc, ev_entry, ev_read,
  ev_eventIndex, ev_updating, ev_rows, ev_lost, ev_made, ev_dropped, ev_nested>>
gnss_vars == <<
  gnss_phase, gnss_gnss_is_initializing, gnss_asked, gnss_setting,
  gnss_pending, gnss_configured, gnss_late, gnss_dma, gnss_slots, gnss_writeIndex, gnss_gnssRxIndex,
  gnss_updateTask, gnss_upto, gnss_gnssTimeOfWeek, gnss_gnssMsgReceived,
  gnss_gnssData, gnss_gnssTime, gnss_validTime, gnss_epoch, gnss_said,
  gnss_pulse, gnss_announced, gnss_faults, gnss_mixed, gnss_misdated,
  gnss_disordered>>
vbat_vars == <<
  vbat_mode, vbat_connected, vbat_ble_vbat_started, vbat_ble_adc_started,
  vbat_adc, vbat_vbat_timer_id, vbat_other_id, vbat_timers, vbat_doubled>>
say_vars == <<
  say_session, say_sessions, say_flags, say_prevFix, say_prevHMSL,
  say_g_suppress_tone, say_left, say_sp_counter, say_toneRate, say_toneHold,
  say_producer, say_consumer, say_audio, say_late, say_runaway>>
al_vars == <<
  al_session, al_s_state, al_alTask, al_timer, al_stray, al_status,
  al_scanTask, al_connTask, al_discTask, al_found, al_discState,
  al_rxCharFound, al_call, al_radio, al_link, al_gatt, al_events,
  al_sessions, al_losses, al_faults, al_configured, al_gaveUp, al_outlived>>
cal_vars == <<
  cal_day, cal_year, cal_month, cal_mday>>

(* All variables but those of one part. *)
ButDisk == <<
  log_vars, ev_vars, gnss_vars, vbat_vars, say_vars, al_vars, cal_vars>>
ButLog == <<
  vars, ev_vars, gnss_vars, vbat_vars, say_vars, al_vars, cal_vars>>
ButEvents == <<
  vars, log_vars, gnss_vars, vbat_vars, say_vars, al_vars, cal_vars>>
ButGnss == <<
  vars, log_vars, ev_vars, vbat_vars, say_vars, al_vars, cal_vars>>
ButVbat == <<
  vars, log_vars, ev_vars, gnss_vars, say_vars, al_vars, cal_vars>>
ButSpeech == <<
  vars, log_vars, ev_vars, gnss_vars, vbat_vars, al_vars, cal_vars>>
ButGlasses == <<
  vars, log_vars, ev_vars, gnss_vars, vbat_vars, say_vars, cal_vars>>
ButDays == <<
  vars, log_vars, ev_vars, gnss_vars, vbat_vars, say_vars, al_vars>>
all == <<
  part, vars, log_vars, ev_vars, gnss_vars, vbat_vars, say_vars, al_vars,
  cal_vars>>

-----------------------------------------------------------------------------
MCInit ==
  /\ part \in {"Disk", "Log", "Events", "Gnss", "Vbat", "Speech", "Glasses",
               "Days"}
  /\ Init /\ Log!Init /\ Events!Init /\ Gnss!Init /\ Vbat!Init /\ Speech!Init
  /\ Glasses!Init /\ Days!Init
  /\ part # "Log" => log_now = 0

MCNext ==
  /\ UNCHANGED part
  /\ \/ part = "Disk" /\ Next /\ UNCHANGED ButDisk
     \/ part = "Log" /\ Log!Next /\ UNCHANGED ButLog
     \/ part = "Events" /\ Events!Next /\ UNCHANGED ButEvents
     \/ part = "Gnss" /\ Gnss!Next /\ UNCHANGED ButGnss
     \/ part = "Vbat" /\ Vbat!Next /\ UNCHANGED ButVbat
     \/ part = "Speech" /\ Speech!Next /\ UNCHANGED ButSpeech
     \/ part = "Glasses" /\ Glasses!Next /\ UNCHANGED ButGlasses
     \/ part = "Days" /\ Days!Next /\ UNCHANGED ButDays

MCSpec == MCInit /\ [][MCNext]_all

-----------------------------------------------------------------------------
(* Bound: a receiver that answered late is followed until it measures. *)
MCBound ==
  gnss_late = 0 \/ (gnss_epoch = 1 /\ gnss_said = {} /\ gnss_pulse = 0 /\ gnss_announced = "no")

(* The card and every part have the types of their modules. *)
PartsTypeOK ==
  /\ TypeOK
  /\ Log!TypeOK /\ Events!TypeOK /\ Gnss!TypeOK /\ Vbat!TypeOK /\ Speech!TypeOK
  /\ Glasses!TypeOK /\ Days!TypeOK

(* The samples of a session become its rows, each once and in order          *)
(* (log.c).                                                                  *)
RowsKept == Log!RowsKept

(* Every event is in the file, once and whole (log.c). *)
EventsKept == Events!EventsKept

(* A measurement is of one moment and of a configured receiver (gnss.c). *)
MeasurementsRight == Gnss!MeasurementsRight

(* ACTIVE mode measures the battery whatever connections do (vbat.c). *)
ActiveMeasures == Vbat!ActiveMeasures

(* No tone and no text over another, nothing after the session               *)
(* (audio_control.c).                                                        *)
SpeechClear == Speech!SpeechClear

(* What is drawn is on glasses that are set up, and refreshed                *)
(* (activelook.c).                                                           *)
DisplayRight == Glasses!DisplayRight

(* The dates and the times of the log are right (time.c, log.c). *)
TimesRight == Days!TimesRight
=============================================================================
