---------------------------- MODULE SessionProofs ----------------------------
(***************************************************************************)
(* Theorems about the parts of a session that MCSessions puts side by      *)
(* side, each for its own specification and for every value of its         *)
(* constants: the battery timer (vbat.c), what is heard                    *)
(* (audio_control.c), the rows and the events of the log (log.c), the      *)
(* display (activelook.c, app_ble.c), the receiver (gnss.c) and the        *)
(* calendar (time.c).  Then the types of them all, and at last that the    *)
(* parts and the card together do what each of them does.                  *)
(***************************************************************************)
EXTENDS MCSessions, ResourceManagerProofs, SequenceTheorems, TLAPS

(***************************************************************************)
(* VbatTimers                                                              *)
(***************************************************************************)
(* Until ACTIVE mode begins with the timer of a connection, there is one     *)
(* user of the measurement, and the pool holds its timer and the other one.  *)
VbatUsed == vbat_mode = "ACTIVE" \/ vbat_ble_vbat_started
VbatInv ==
  /\ vbat_vbat_timer_id \in Vbat!Ids /\ vbat_other_id \in Vbat!Ids \union {Vbat!None}
  /\ vbat_timers \in [Vbat!Ids -> {"free", "vbat", "other"}]
  /\ vbat_mode \in {"SLEEP", "ACTIVE"} /\ vbat_doubled \in BOOLEAN
  /\ ~vbat_doubled =>
       /\ vbat_ble_vbat_started => vbat_connected /\ vbat_mode # "ACTIVE"
       /\ vbat_ble_adc_started => vbat_ble_vbat_started
       /\ vbat_mode = "ACTIVE" => vbat_adc = "READY"
       /\ \A id \in Vbat!Ids :
            /\ vbat_timers[id] = "vbat" <=> VbatUsed /\ id = vbat_vbat_timer_id
            /\ vbat_timers[id] = "other" <=> id = vbat_other_id

(* A timer that is created is a free one: two users do not fill the pool.    *)
LEMMA VbatCreates ==
  ASSUME VbatInv, ~vbat_doubled, ~VbatUsed \/ vbat_other_id = Vbat!None,
         NEW user, NEW old, NEW new, Vbat!Create(user, old, new)
  PROVE  /\ new \in Vbat!Ids /\ vbat_timers[new] = "free"
         /\ vbat_timers' = [vbat_timers EXCEPT ![new] = user]
<1>1. 0 \in Vbat!Ids /\ 1 \in Vbat!Ids
  BY TimerAssumption DEF Vbat!Ids
<1>2. vbat_timers[0] = "free" \/ vbat_timers[1] = "free"
  BY <1>1, TimerAssumption DEF VbatInv, Vbat!None, Vbat!Ids
<1> QED BY <1>1, <1>2 DEF Vbat!Create, Vbat!First

(* Whatever happens, the ids are of the pool. *)
LEMMA VbatTyped ==
  ASSUME VbatInv, [Vbat!Next]_vbat_vars
  PROVE  /\ vbat_vbat_timer_id' \in Vbat!Ids /\ vbat_other_id' \in Vbat!Ids \union {Vbat!None}
         /\ vbat_timers' \in [Vbat!Ids -> {"free", "vbat", "other"}]
         /\ vbat_mode' \in {"SLEEP", "ACTIVE"} /\ vbat_doubled' \in BOOLEAN
<1>1. ASSUME NEW user \in {"vbat", "other"}, NEW old, NEW new, Vbat!Create(user, old, new)
      PROVE  /\ new \in Vbat!Ids \/ new = old
             /\ vbat_timers' \in [Vbat!Ids -> {"free", "vbat", "other"}]
  BY <1>1 DEF VbatInv, Vbat!Create
<1>2. ASSUME NEW id, Vbat!Delete(id)
      PROVE  vbat_timers' \in [Vbat!Ids -> {"free", "vbat", "other"}]
  BY <1>2 DEF VbatInv, Vbat!Delete
<1>3. CASE Vbat!Connect
  BY <1>1, <1>3 DEF VbatInv, Vbat!Connect, Vbat!FS_VBAT_Init
<1>4. CASE Vbat!Disconnect
  BY <1>2, <1>4 DEF VbatInv, Vbat!Disconnect, Vbat!FS_VBAT_DeInit
<1>5. CASE Vbat!ActiveBegins
  BY <1>1, <1>5 DEF VbatInv, Vbat!ActiveBegins, Vbat!FS_VBAT_Init
<1>6. CASE Vbat!ActiveEnds
  BY <1>2, <1>6 DEF VbatInv, Vbat!ActiveEnds, Vbat!FS_VBAT_DeInit
<1>7. CASE Vbat!OtherCreates
  BY <1>1, <1>7 DEF VbatInv, Vbat!OtherCreates
<1>8. CASE Vbat!OtherDeletes
  BY <1>2, <1>8 DEF VbatInv, Vbat!OtherDeletes
<1>9. CASE UNCHANGED vbat_vars
  BY <1>9 DEF VbatInv, vbat_vars
<1> QED BY <1>3, <1>4, <1>5, <1>6, <1>7, <1>8, <1>9 DEF Vbat!Next

LEMMA VbatNext == VbatInv /\ [Vbat!Next]_vbat_vars => VbatInv'
<1> SUFFICES ASSUME VbatInv, [Vbat!Next]_vbat_vars, ~vbat_doubled'
             PROVE  (/\ vbat_ble_vbat_started => vbat_connected /\ vbat_mode # "ACTIVE"
                     /\ vbat_ble_adc_started => vbat_ble_vbat_started
                     /\ vbat_mode = "ACTIVE" => vbat_adc = "READY"
                     /\ \A id \in Vbat!Ids :
                          /\ vbat_timers[id] = "vbat" <=> VbatUsed /\ id = vbat_vbat_timer_id
                          /\ vbat_timers[id] = "other" <=> id = vbat_other_id)'
  BY VbatTyped DEF VbatInv
<1> DEFINE Alone == \A id \in Vbat!Ids :
                      /\ vbat_timers[id] = "vbat" <=> VbatUsed /\ id = vbat_vbat_timer_id
                      /\ vbat_timers[id] = "other" <=> id = vbat_other_id
<1>1. /\ vbat_doubled = FALSE /\ Vbat!None \notin Vbat!Ids
      /\ vbat_timers \in [Vbat!Ids -> {"free", "vbat", "other"}]
      /\ vbat_vbat_timer_id \in Vbat!Ids /\ Alone
      /\ vbat_ble_vbat_started => vbat_connected /\ vbat_mode # "ACTIVE"
      /\ vbat_ble_adc_started => vbat_ble_vbat_started
      /\ vbat_mode = "ACTIVE" => vbat_adc = "READY"
  <2>1. ~vbat_doubled
    BY DEF Vbat!Next, Vbat!Connect, Vbat!Disconnect, Vbat!ActiveBegins, Vbat!ActiveEnds,
           Vbat!OtherCreates, Vbat!OtherDeletes, vbat_vars
  <2>2. Vbat!None \notin Vbat!Ids
    BY TimerAssumption DEF Vbat!None, Vbat!Ids
  <2> QED BY <2>1, <2>2 DEF VbatInv
<1>2. CASE Vbat!Connect
  <2>1. CASE vbat_mode # "ACTIVE"
    <3>1. Vbat!Create("vbat", vbat_vbat_timer_id, vbat_vbat_timer_id') /\ ~VbatUsed
      BY <1>1, <1>2, <2>1 DEF Vbat!Connect, Vbat!FS_VBAT_Init, VbatUsed
    <3>2. /\ vbat_vbat_timer_id' \in Vbat!Ids /\ vbat_timers[vbat_vbat_timer_id'] = "free"
          /\ vbat_timers' = [vbat_timers EXCEPT ![vbat_vbat_timer_id'] = "vbat"]
      BY <1>1, <3>1, VbatCreates
    <3>3. VbatUsed' /\ vbat_other_id' = vbat_other_id
      BY <1>2, <2>1 DEF Vbat!Connect, VbatUsed
    <3>4. Alone'
      BY <1>1, <3>1, <3>2, <3>3
    <3> QED BY <1>1, <1>2, <2>1, <3>4 DEF Vbat!Connect
  <2>2. CASE vbat_mode = "ACTIVE"
    <3>1. Alone'
      BY <1>1, <1>2, <2>2 DEF Vbat!Connect, VbatUsed
    <3> QED BY <1>1, <1>2, <2>2, <3>1 DEF Vbat!Connect
  <2> QED BY <2>1, <2>2
<1>3. CASE Vbat!Disconnect
  <2>1. CASE vbat_ble_vbat_started
    <3>1. /\ vbat_timers' = [vbat_timers EXCEPT ![vbat_vbat_timer_id] = "free"]
          /\ ~VbatUsed' /\ vbat_other_id' = vbat_other_id /\ vbat_mode' # "ACTIVE"
      BY <1>1, <1>3, <2>1 DEF Vbat!Disconnect, Vbat!StartedHere, Vbat!FS_VBAT_DeInit, Vbat!Delete,
                              VbatUsed
    <3>2. VbatUsed
      BY <2>1 DEF VbatUsed
    <3>3. Alone'
      BY <1>1, <3>1, <3>2
    <3> QED BY <1>1, <1>3, <3>1, <3>3 DEF Vbat!Disconnect
  <2>2. CASE ~vbat_ble_vbat_started
    <3>1. Alone'
      BY <1>1, <1>3, <2>2 DEF Vbat!Disconnect, Vbat!StartedHere, VbatUsed
    <3> QED BY <1>1, <1>3, <2>2, <3>1 DEF Vbat!Disconnect, Vbat!StartedHere
  <2> QED BY <2>1, <2>2
<1>4. CASE Vbat!ActiveBegins
  <2>1. ~vbat_ble_vbat_started /\ vbat_mode = "SLEEP"
    BY <1>4 DEF Vbat!ActiveBegins
  <2>2. Vbat!Create("vbat", vbat_vbat_timer_id, vbat_vbat_timer_id') /\ ~VbatUsed
    BY <1>4, <2>1 DEF Vbat!ActiveBegins, Vbat!FS_VBAT_Init, VbatUsed
  <2>3. /\ vbat_vbat_timer_id' \in Vbat!Ids /\ vbat_timers[vbat_vbat_timer_id'] = "free"
        /\ vbat_timers' = [vbat_timers EXCEPT ![vbat_vbat_timer_id'] = "vbat"]
    BY <1>1, <2>2, VbatCreates
  <2>4. VbatUsed' /\ vbat_other_id' = vbat_other_id
    BY <1>4 DEF Vbat!ActiveBegins, VbatUsed
  <2>5. Alone'
    BY <1>1, <2>2, <2>3, <2>4
  <2> QED BY <1>1, <1>4, <2>1, <2>5 DEF Vbat!ActiveBegins
<1>5. CASE Vbat!ActiveEnds
  <2>1. /\ vbat_timers' = [vbat_timers EXCEPT ![vbat_vbat_timer_id] = "free"]
        /\ VbatUsed /\ ~VbatUsed' /\ vbat_other_id' = vbat_other_id
    BY <1>1, <1>5 DEF Vbat!ActiveEnds, Vbat!FS_VBAT_DeInit, Vbat!Delete, VbatUsed
  <2>2. Alone'
    BY <1>1, <2>1
  <2> QED BY <1>1, <1>5, <2>2 DEF Vbat!ActiveEnds
<1>6. CASE Vbat!OtherCreates
  <2>1. /\ vbat_other_id' \in Vbat!Ids /\ vbat_timers[vbat_other_id'] = "free"
        /\ vbat_timers' = [vbat_timers EXCEPT ![vbat_other_id'] = "other"]
    BY <1>1, <1>6, VbatCreates DEF Vbat!OtherCreates
  <2>2. (VbatUsed' <=> VbatUsed) /\ vbat_vbat_timer_id' = vbat_vbat_timer_id
        /\ vbat_other_id = Vbat!None
    BY <1>6 DEF Vbat!OtherCreates, VbatUsed
  <2>3. Alone'
    BY <1>1, <2>1, <2>2
  <2> QED BY <1>1, <1>6, <2>3 DEF Vbat!OtherCreates
<1>7. CASE Vbat!OtherDeletes
  <2>1. /\ vbat_timers' = [vbat_timers EXCEPT ![vbat_other_id] = "free"]
        /\ (VbatUsed' <=> VbatUsed) /\ vbat_vbat_timer_id' = vbat_vbat_timer_id
        /\ vbat_other_id' = Vbat!None
    BY <1>7 DEF Vbat!OtherDeletes, Vbat!Delete, VbatUsed
  <2>2. Alone'
    BY <1>1, <2>1
  <2> QED BY <1>1, <1>7, <2>2 DEF Vbat!OtherDeletes
<1>8. CASE UNCHANGED vbat_vars
  BY <1>1, <1>8 DEF vbat_vars, VbatUsed
<1> QED BY <1>2, <1>3, <1>4, <1>5, <1>6, <1>7, <1>8 DEF Vbat!Next

LEMMA VbatBegins == Vbat!Init => VbatInv
<1>1. 0 \in Vbat!Ids /\ Vbat!None \notin Vbat!Ids
  BY TimerAssumption DEF Vbat!Ids, Vbat!None
<1>2. Vbat!Init => ~VbatUsed /\ vbat_timers \in [Vbat!Ids -> {"free", "vbat", "other"}]
  BY DEF Vbat!Init, VbatUsed
<1> QED BY <1>1, <1>2 DEF Vbat!Init, VbatInv

(* ACTIVE mode measures the battery whatever connections come and go, unless *)
(* a connection made in SLEEP lasted into it (custom_app.c, active_mode.c):  *)
(* for every pool of at least two timers.                                    *)
THEOREM ActiveAlwaysMeasures == Vbat!Spec => []ActiveMeasures
<1>1. VbatInv => ActiveMeasures
  BY DEF VbatInv, VbatUsed, ActiveMeasures, Vbat!ActiveMeasures
<1> QED BY <1>1, VbatBegins, VbatNext, PTL DEF Vbat!Spec, Vbat!vars, vbat_vars

(***************************************************************************)
(* AudioControl                                                            *)
(***************************************************************************)
(* From its first word until the consumer finds no more, a text holds the    *)
(* tone back, also after its last word. *)
HoldsTone == say_toneHold => say_audio # "tone"

(* What the invariants need to know of the types. *)
SpeechKinds ==
  /\ say_left \in 0..MaxWords
  /\ say_session \in BOOLEAN /\ say_g_suppress_tone \in BOOLEAN /\ say_toneHold \in BOOLEAN
  /\ say_late \in BOOLEAN

SpeechInv == SpeechKinds /\ Speech!QuietInWindow /\ HoldsTone /\ Speech!SilentAfterwards

LEMMA SoundValues ==
  ASSUME NEW what \in {"alarm", "word"}
  PROVE  /\ Speech!Sound(what) # "tone"
         /\ say_session => Speech!Sound(what) = what
         /\ Speech!Sound(what) \in {"alarm", "word", "idle", "stuck"}
BY DEF Speech!Sound

(* What is left of a text after the alarms, and where a new one may begin. *)
LEMMA TextLeft ==
  ASSUME SpeechKinds, NEW alt \in Altitudes
  PROVE  /\ Speech!AfterAlarms(alt) \in 0..MaxWords /\ Speech!AfterAlarms(alt) <= say_left
         /\ Speech!AfterAlarms(alt) = 0 => say_left = 0 \/ Speech!Alarm(alt) \/ Speech!CutOff(alt)
<1>1. say_left \in 0..MaxWords /\ MaxWords \in Nat
  BY SpeechAssumption DEF SpeechKinds
<1>2. CASE Speech!Alarm(alt) \/ Speech!CutOff(alt)
  BY <1>1, <1>2 DEF Speech!AfterAlarms
<1>3. CASE ~(Speech!Alarm(alt) \/ Speech!CutOff(alt))
  BY <1>1, <1>3 DEF Speech!AfterAlarms
<1> QED BY <1>2, <1>3

LEMMA SpeaksWhenDone ==
  ASSUME NEW alt \in Altitudes, NEW fast \in BOOLEAN,
         Speech!SaysStep(alt, fast) \/ Speech!SaysValue(alt, fast)
  PROVE  Speech!AfterAlarms(alt) = 0
BY DEF Speech!SaysStep, Speech!SaysValue, Speech!MaySpeak

(* The producer task, with a fix. *)
LEMMA FixInv ==
  ASSUME SpeechInv, Speech!ProducerFix
  PROVE  SpeechInv'
<1>1. PICK alt \in Altitudes, fast \in BOOLEAN :
        /\ say_g_suppress_tone' = Speech!Suppressed(alt)
        /\ say_audio' = IF Speech!Alarm(alt) THEN Speech!Sound("alarm")
                    ELSE IF Speech!CutOff(alt) THEN "idle" ELSE say_audio
        /\ say_late' = (say_late \/ (Speech!Alarm(alt) /\ ~say_session))
        /\ say_left' \in IF Speech!SaysStep(alt, fast) THEN {MaxWords}
                     ELSE IF Speech!SaysValue(alt, fast) THEN {0, MaxWords}
                     ELSE {Speech!AfterAlarms(alt)}
        /\ say_toneRate' \in Speech!NewRate(alt, fast)
        /\ UNCHANGED <<say_session, say_toneHold>>
  BY DEF Speech!ProducerFix
<1>2. say_left' \in {0, MaxWords, Speech!AfterAlarms(alt)}
  BY <1>1
<1>3. say_left' \in 0..MaxWords
  BY <1>2, TextLeft, SpeechAssumption DEF SpeechInv
<1>4. /\ Speech!Suppressed(alt) \in BOOLEAN /\ Speech!CutOff(alt) \in BOOLEAN
      /\ Speech!Alarm(alt) \in BOOLEAN
  BY DEF Speech!Suppressed, Speech!CutOff, Speech!Alarm
<1>5. say_late' \in BOOLEAN /\ say_g_suppress_tone' \in BOOLEAN
  BY <1>1, <1>4 DEF SpeechInv, SpeechKinds
<1>6. SpeechKinds'
  BY <1>1, <1>3, <1>5 DEF SpeechInv, SpeechKinds
<1>7. Speech!QuietInWindow'
  <2>1. SUFFICES ASSUME Speech!Suppressed(alt) PROVE say_toneRate' = "off"
    BY <1>1 DEF Speech!QuietInWindow
  <2>2. say_toneRate' = IF Speech!CutOff(alt) THEN "off" ELSE say_toneRate
    BY <1>1, <2>1 DEF Speech!NewRate, Speech!Audible
  <2>3. CASE Speech!CutOff(alt)
    BY <2>2, <2>3
  <2>4. CASE ~Speech!CutOff(alt)
    BY <2>1, <2>2, <2>4 DEF Speech!CutOff, SpeechInv, Speech!QuietInWindow
  <2> QED BY <2>3, <2>4
<1>8. HoldsTone'
  BY <1>1, SoundValues DEF SpeechInv, HoldsTone
<1>9. Speech!SilentAfterwards'
  BY <1>1, <1>4 DEF SpeechInv, Speech!SilentAfterwards, SpeechKinds
<1> QED BY <1>6, <1>7, <1>8, <1>9 DEF SpeechInv

LEMMA SpeakInv ==
  ASSUME SpeechInv, Speech!SpeakWord
  PROVE  SpeechInv'
<1>1. UNCHANGED <<say_session, say_g_suppress_tone, say_toneRate>> /\ say_left > 0
  BY DEF Speech!SpeakWord
<1>2. CASE say_audio = "idle"
  <2>1. say_toneHold' = TRUE /\ say_audio' = Speech!Sound("word") /\ say_left' = say_left - 1
          /\ say_late' = (say_late \/ ~say_session)
    BY <1>2 DEF Speech!SpeakWord
  <2>2. SpeechKinds'
    <3>1. say_left' \in 0..MaxWords
      BY <1>1, <2>1, SpeechAssumption DEF SpeechInv, SpeechKinds
    <3>2. say_late' \in BOOLEAN /\ say_toneHold' \in BOOLEAN
      BY <2>1 DEF SpeechInv, SpeechKinds
    <3> QED BY <1>1, <3>1, <3>2 DEF SpeechInv, SpeechKinds
  <2>3. Speech!QuietInWindow' /\ HoldsTone' /\ Speech!SilentAfterwards'
    BY <1>1, <2>1, SoundValues DEF SpeechInv, SpeechKinds, Speech!QuietInWindow, HoldsTone,
                                   Speech!SilentAfterwards
  <2> QED BY <2>2, <2>3 DEF SpeechInv
<1>3. CASE say_audio # "idle"
  <2>1. UNCHANGED <<say_toneHold, say_audio, say_left, say_late>>
    BY <1>3 DEF Speech!SpeakWord
  <2> QED
    BY <1>1, <2>1 DEF SpeechInv, SpeechKinds, Speech!QuietInWindow, HoldsTone,
                      Speech!SilentAfterwards
<1> QED BY <1>2, <1>3

LEMMA NoTextInv ==
  ASSUME SpeechInv, Speech!NoText
  PROVE  SpeechInv'
<1>1. say_toneHold' = FALSE /\ UNCHANGED <<say_session, say_g_suppress_tone, say_toneRate>>
  BY DEF Speech!NoText
<1>2. \/ /\ say_audio' = Speech!Sound("alarm") /\ say_late' = (say_late \/ ~say_session)
         /\ UNCHANGED say_left
      \/ say_left' = MaxWords /\ UNCHANGED <<say_audio, say_late>>
      \/ UNCHANGED <<say_left, say_audio, say_late>>
  BY DEF Speech!NoText
<1>3. say_left' \in 0..MaxWords
  BY <1>2, SpeechAssumption DEF SpeechInv, SpeechKinds
<1>4. /\ say_late' \in BOOLEAN /\ (say_late => say_late')
      /\ say_audio' # say_audio => say_late' \/ say_session
  BY <1>2 DEF SpeechInv, SpeechKinds
<1>5. SpeechKinds'
  BY <1>1, <1>3, <1>4 DEF SpeechInv, SpeechKinds
<1>6. Speech!QuietInWindow' /\ HoldsTone' /\ Speech!SilentAfterwards'
  BY <1>1, <1>4 DEF SpeechInv, Speech!QuietInWindow, HoldsTone, Speech!SilentAfterwards
<1> QED BY <1>5, <1>6 DEF SpeechInv

(* The others touch one part of the invariant at most. *)
LEMMA OthersInv ==
  ASSUME SpeechInv,
         \/ Speech!FS_AudioControl_Init \/ Speech!FS_AudioControl_DeInit
         \/ Speech!FS_AudioControl_UpdateGNSS \/ Speech!ProducerNoFix
         \/ Speech!ConsumerTimer \/ Speech!SoundEnds
  PROVE  SpeechInv'
<1>1. CASE Speech!FS_AudioControl_Init
  <2>1. /\ say_session' = TRUE /\ say_g_suppress_tone' = FALSE /\ say_toneHold' = FALSE
        /\ say_left' \in {0, MaxWords} /\ say_late' = say_late
    BY <1>1 DEF Speech!FS_AudioControl_Init, Speech!ends
  <2>2. say_left' \in 0..MaxWords
    BY <2>1, SpeechAssumption
  <2>3. SpeechKinds'
    BY <2>1, <2>2 DEF SpeechInv, SpeechKinds
  <2> QED BY <2>1, <2>3 DEF SpeechInv, Speech!QuietInWindow, HoldsTone, Speech!SilentAfterwards
<1>2. CASE Speech!FS_AudioControl_DeInit
  <2>1. /\ say_session' = FALSE /\ say_audio' = "idle"
        /\ UNCHANGED <<say_g_suppress_tone, say_toneRate, say_toneHold, say_left, say_late>>
    BY <1>2 DEF Speech!FS_AudioControl_DeInit, Speech!Silenced, Speech!tone, Speech!ends
  <2>2. SpeechKinds'
    BY <2>1 DEF SpeechInv, SpeechKinds
  <2> QED BY <2>1, <2>2 DEF SpeechInv, Speech!QuietInWindow, HoldsTone, Speech!SilentAfterwards
<1>3. CASE Speech!FS_AudioControl_UpdateGNSS
  BY <1>3 DEF Speech!FS_AudioControl_UpdateGNSS, Speech!tone, Speech!ends, SpeechInv, SpeechKinds,
              Speech!QuietInWindow, HoldsTone, Speech!SilentAfterwards
<1>4. CASE Speech!ProducerNoFix
  <2>1. /\ say_toneRate' = "off"
        /\ UNCHANGED <<say_session, say_g_suppress_tone, say_toneHold, say_left, say_audio,
                       say_late>>
    BY <1>4 DEF Speech!ProducerNoFix, Speech!ends
  <2> QED BY <2>1 DEF SpeechInv, SpeechKinds, Speech!QuietInWindow, HoldsTone,
                      Speech!SilentAfterwards
<1>5. CASE Speech!ConsumerTimer
  <2>1. /\ say_session
        /\ UNCHANGED <<say_session, say_g_suppress_tone, say_toneRate, say_toneHold, say_left,
                       say_late>>
        /\ say_audio' = "tone" => ~say_toneHold \/ say_audio = "tone"
    BY <1>5 DEF Speech!ConsumerTimer, Speech!MayBeep, Speech!tone, Speech!ends
  <2> QED BY <2>1 DEF SpeechInv, SpeechKinds, Speech!QuietInWindow, HoldsTone,
                      Speech!SilentAfterwards
<1>6. CASE Speech!SoundEnds
  <2>1. /\ say_audio' = "idle"
        /\ UNCHANGED <<say_session, say_g_suppress_tone, say_toneRate, say_toneHold, say_left,
                       say_late>>
    BY <1>6 DEF Speech!SoundEnds, Speech!tone, Speech!ends
  <2> QED BY <2>1 DEF SpeechInv, SpeechKinds, Speech!QuietInWindow, HoldsTone,
                      Speech!SilentAfterwards
<1> QED BY <1>1, <1>2, <1>3, <1>4, <1>5, <1>6

LEMMA SpeechNext ==
  ASSUME SpeechInv, [Speech!Next]_(Speech!vars)
  PROVE  SpeechInv'
<1>1. CASE UNCHANGED Speech!vars
  BY <1>1 DEF Speech!vars, Speech!tone, Speech!ends, SpeechInv, SpeechKinds, Speech!QuietInWindow,
              HoldsTone, Speech!SilentAfterwards
<1> QED BY <1>1, FixInv, SpeakInv, NoTextInv, OthersInv DEF Speech!Next

LEMMA SpeechInit ==
  ASSUME Speech!Init
  PROVE  SpeechInv
<1>1. say_left \in 0..MaxWords
  BY SpeechAssumption DEF Speech!Init
<1>2. /\ say_session = FALSE /\ say_g_suppress_tone = FALSE /\ say_toneHold = FALSE
      /\ say_late = FALSE /\ say_audio = "idle"
  BY DEF Speech!Init
<1>3. SpeechKinds
  BY <1>1, <1>2 DEF SpeechKinds
<1> QED BY <1>2, <1>3 DEF SpeechInv, Speech!QuietInWindow, HoldsTone, Speech!SilentAfterwards

(* A text that begins replaces none. *)
LEMMA OneText ==
  ASSUME SpeechInv, Speech!Next, say_left' > say_left, say_session
  PROVE  say_left = 0 \/ say_audio' = "alarm" \/ (say_g_suppress_tone' /\ ~say_g_suppress_tone)
<1>1. CASE Speech!ProducerFix
  <2>1. PICK alt \in Altitudes, fast \in BOOLEAN :
          /\ say_g_suppress_tone' = Speech!Suppressed(alt)
          /\ say_audio' = IF Speech!Alarm(alt) THEN Speech!Sound("alarm")
                      ELSE IF Speech!CutOff(alt) THEN "idle" ELSE say_audio
          /\ say_left' \in IF Speech!SaysStep(alt, fast) THEN {MaxWords}
                       ELSE IF Speech!SaysValue(alt, fast) THEN {0, MaxWords}
                       ELSE {Speech!AfterAlarms(alt)}
    BY <1>1 DEF Speech!ProducerFix
  <2>2. Speech!SaysStep(alt, fast) \/ Speech!SaysValue(alt, fast)
    <3>1. say_left' # Speech!AfterAlarms(alt)
      BY TextLeft DEF SpeechInv, SpeechKinds
    <3> QED BY <2>1, <3>1
  <2>3. say_left = 0 \/ Speech!Alarm(alt) \/ Speech!CutOff(alt)
    BY <2>2, SpeaksWhenDone, TextLeft DEF SpeechInv
  <2> QED BY <2>1, <2>3, SoundValues DEF Speech!CutOff
<1>2. CASE Speech!NoText
  BY <1>2 DEF Speech!NoText
<1>3. CASE Speech!SpeakWord
  BY <1>3 DEF Speech!SpeakWord, SpeechInv, SpeechKinds
<1>4. CASE \/ Speech!FS_AudioControl_DeInit \/ Speech!FS_AudioControl_UpdateGNSS
           \/ Speech!ProducerNoFix \/ Speech!ConsumerTimer \/ Speech!SoundEnds
  <2>1. say_left' = say_left
    BY <1>4 DEF Speech!FS_AudioControl_DeInit, Speech!FS_AudioControl_UpdateGNSS,
                Speech!ProducerNoFix, Speech!ConsumerTimer, Speech!SoundEnds
  <2> QED BY <2>1 DEF SpeechInv, SpeechKinds
<1>5. CASE Speech!FS_AudioControl_Init
  BY <1>5 DEF Speech!FS_AudioControl_Init
<1> QED BY <1>1, <1>2, <1>3, <1>4, <1>5 DEF Speech!Next

(* No tone in the silence and in a text, nothing after the session, and no   *)
(* text over another (audio_control.c): whatever the sizes, and wherever the *)
(* timer's interrupt comes between the tasks.                                *)
THEOREM SpeechAlwaysClear == Speech!Spec => SpeechClear
<1>1. Speech!Init => SpeechInv
  BY SpeechInit
<1>2. SpeechInv /\ [Speech!Next]_(Speech!vars) => SpeechInv'
  BY SpeechNext
<1>3. SpeechInv => Speech!QuietInWindow /\ Speech!NoToneInSpeech /\ Speech!SilentAfterwards
  BY DEF SpeechInv, HoldsTone, Speech!NoToneInSpeech
<1>4. SpeechInv /\ [Speech!Next]_(Speech!vars) =>
        [say_left' > say_left /\ say_session =>
           \/ say_left = 0 \/ say_audio' = "alarm"
           \/ (say_g_suppress_tone' /\ ~say_g_suppress_tone)]_(Speech!vars)
  BY OneText
<1> QED BY <1>1, <1>2, <1>3, <1>4, PTL DEF Speech!Spec, SpeechClear,
                                           Speech!SpeechClear, Speech!OneTextAtATime

(***************************************************************************)
(* LogSession                                                              *)
(***************************************************************************)
LEMMA Division ==
  ASSUME NEW n \in Int, NEW w \in Int, w > 0
  PROVE  n = w * (n \div w) + (n % w) /\ n \div w \in Int /\ n % w \in 0..w - 1
BY SMTT(30)

(* Two indices less than a ring apart have slots of their own. *)
LEMMA SlotsApart ==
  ASSUME NEW w \in Nat \ {0}, NEW i \in Nat, NEW j \in Nat, i < j, j < i + w
  PROVE  i % w # j % w
<1> DEFINE a == i \div w
           b == j \div w
<1>1. i = w * a + (i % w) /\ a \in Int
  BY Division
<1>2. j = w * b + (j % w) /\ b \in Int
  BY Division
<1>3. SUFFICES ASSUME i % w = j % w PROVE FALSE
  OBVIOUS
<1>4. i % w \in Int
  BY Division
<1> HIDE DEF a, b
<1>5. w * (b - a) = j - i
  <2>1. w * (b - a) = w * b - w * a /\ w * b \in Int /\ w * a \in Int
    BY <1>1, <1>2
  <2> QED BY <2>1, <1>1, <1>2, <1>3, <1>4
<1>6. CASE b - a <= 0
  <2>1. w * (b - a) <= 0
    BY <1>1, <1>2, <1>6
  <2> QED BY <2>1, <1>5
<1>7. CASE b - a >= 1
  <2>1. w * (b - a) >= w
    BY <1>1, <1>2, <1>7
  <2> QED BY <2>1, <1>5
<1> QED BY <1>1, <1>2, <1>6, <1>7

(* The rings hold the samples between their indices, each in its slot, of    *)
(* logs the session enabled; every row was that of the next sample.          *)
LogSamples == [n : Nat, time : 0..Wrap - 1]
LogRing(r) ==
  /\ log_rdI[r] <= log_wrI[r] /\ log_wrI[r] <= log_rdI[r] + COUNT
  /\ \A k \in Nat : log_rdI[r] <= k /\ k < log_wrI[r] => log_buf[r][k % COUNT].n = k
RingKinds ==
  /\ log_buf \in [Log!Rings -> [0..COUNT - 1 -> LogSamples]]
  /\ log_rdI \in [Log!Rings -> Nat] /\ log_wrI \in [Log!Rings -> Nat]
  /\ log_now \in 0..Wrap - 1
RingInv ==
  RingKinds /\ (\A r \in Log!Rings : LogRing(r)) /\ Log!OnlyEnabledLogs /\ log_misread = FALSE

(* What the update found is still there, and a ring it found nothing in has  *)
(* only samples that came later, or one with the time of the sentinel.       *)
Passed(r) == log_rdI[r] >= log_accepted[r] \/ Log!Oldest(r) = Log!Sentinel
LookKinds ==
  /\ log_next \in [ring : Log!SensorRings \union {"none"}, time : 0..Wrap - 1]
  /\ log_accepted \in [Log!Rings -> Nat]
  /\ \A r \in Log!Rings : log_accepted[r] <= log_wrI[r]
LookInv ==
  /\ LookKinds
  /\ log_pc \in {"idle", "gnss"} => \A r \in Log!Rings : log_accepted[r] = 0
  /\ log_next.ring = "none" => log_next.time = Log!Sentinel
  /\ log_pc = "count" => log_next.ring # "none"
  /\ log_pc \in {"imu", "found", "count"} /\ log_next.ring # "none" =>
       log_rdI[log_next.ring] # log_wrI[log_next.ring]
  /\ log_pc \in {"imu", "found"} /\ log_next.ring = "none" => Passed("baro")
  /\ log_pc = "found" /\ log_next.ring = "none" => Passed("imu")

(* The batch holds what the file has not yet, less than a cluster. *)
BatchInv ==
  /\ log_sensorBatchLen \in 0..BatchTarget - 1 /\ log_rows \in Nat /\ log_stored \in Nat
  /\ log_open \in BOOLEAN /\ log_unsynced \in BOOLEAN /\ log_sensorSyncPending \in BOOLEAN
  /\ log_open => "sensor" \in log_enable_flags
  /\ Log!RowsAccounted /\ Log!UnsyncedIsPending

(* What the search has kept is no younger than what it has looked at. *)
Seen(r) == log_rdI[r] < log_accepted[r] => log_next.time <= Log!Oldest(r)
SeenInv ==
  /\ log_pc = "imu" => Seen("baro")
  /\ log_pc = "found" => Seen("baro") /\ Seen("imu")

LogInv == RingInv /\ LookInv /\ BatchInv /\ SeenInv /\ Log!SamplesAccounted

LEMMA LogBounds ==
  /\ COUNT \in Nat \ {0} /\ BatchTarget \in Nat \ {0} /\ Wrap \in Nat \ {0}
  /\ Log!Sentinel \in 0..Wrap - 1 /\ Log!Blank \in LogSamples
  /\ \A i \in Nat : i % COUNT \in 0..COUNT - 1
<1>1. /\ COUNT \in Nat \ {0} /\ BatchTarget \in Nat \ {0} /\ Wrap \in Nat \ {0}
      /\ MaxSamples \in Nat
  BY LogAssumption
<1>2. \A i \in Nat : i % COUNT \in 0..COUNT - 1
  BY <1>1, Division
<1> QED BY <1>1, <1>2 DEF Log!Sentinel, Log!Blank, LogSamples

(* A producer fills the slot behind the last sample. *)
LEMMA WriteRing ==
  ASSUME RingInv, NEW r \in Log!Rings, Log!Write(r)
  PROVE  /\ RingInv' /\ log_rdI' = log_rdI
         /\ \A q \in Log!Rings : log_wrI'[q] >= log_wrI[q]
         /\ \A q \in Log!Rings : log_rdI[q] # log_wrI[q] =>
              log_rdI'[q] # log_wrI'[q] /\ Log!Oldest(q)' = Log!Oldest(q)
<1> DEFINE s == log_wrI[r] % COUNT
           e == [n |-> log_wrI[r], time |-> log_now]
<1>1. /\ log_now' = (log_now + 1) % Wrap /\ log_wrI' = [log_wrI EXCEPT ![r] = @ + 1]
      /\ log_buf' = [log_buf EXCEPT ![r][s] = e]
      /\ UNCHANGED <<log_rdI, log_enable_flags, log_misread>>
      /\ log_wrI[r] < log_rdI[r] + COUNT /\ Log!FlagOf[r] \in log_enable_flags
  BY DEF Log!Write, Log!Logs, Log!HasRoom
<1>2. /\ RingKinds /\ \A q \in Log!Rings : /\ LogRing(q) /\ log_rdI[q] \in Nat
                                            /\ log_wrI[q] \in Nat
  BY DEF RingInv, RingKinds
<1>3. s \in 0..COUNT - 1 /\ e \in LogSamples
  BY <1>2, LogBounds DEF RingKinds, LogSamples
<1> HIDE DEF s, e
<1>4. /\ \A q \in Log!Rings \ {r} : log_buf'[q] = log_buf[q] /\ log_wrI'[q] = log_wrI[q]
      /\ log_wrI'[r] = log_wrI[r] + 1
      /\ log_buf'[r] = [log_buf[r] EXCEPT ![s] = e]
  BY <1>1, <1>2 DEF RingKinds
<1>5. /\ log_buf'[r][s] = e
      /\ \A i \in 0..COUNT - 1 : i # s => log_buf'[r][i] = log_buf[r][i]
  BY <1>2, <1>3, <1>4 DEF RingKinds
<1>6. \A k \in Nat : log_rdI[r] <= k /\ k < log_wrI[r] =>
        log_buf'[r][k % COUNT] = log_buf[r][k % COUNT]
  <2> SUFFICES ASSUME NEW k \in Nat, log_rdI[r] <= k, k < log_wrI[r]
               PROVE  log_buf'[r][k % COUNT] = log_buf[r][k % COUNT]
    OBVIOUS
  <2>1. log_wrI[r] < k + COUNT
    BY <1>1, <1>2, LogBounds
  <2>2. k % COUNT # s
    BY <1>2, <2>1, LogBounds, SlotsApart DEF s
  <2> QED BY <1>5, <2>2, LogBounds
<1>7. RingKinds'
  <2>1. log_now' \in 0..Wrap - 1
    BY <1>1, <1>2, LogBounds, Division DEF RingKinds
  <2>2. log_buf' \in [Log!Rings -> [0..COUNT - 1 -> LogSamples]]
    <3>1. [log_buf[r] EXCEPT ![s] = e] \in [0..COUNT - 1 -> LogSamples]
      BY <1>2, <1>3 DEF RingKinds
    <3>2. log_buf' = [log_buf EXCEPT ![r] = [log_buf[r] EXCEPT ![s] = e]]
      BY <1>1
    <3> QED BY <3>1, <3>2, <1>2 DEF RingKinds
  <2>3. log_wrI' \in [Log!Rings -> Nat] /\ log_rdI' \in [Log!Rings -> Nat]
    BY <1>1, <1>2 DEF RingKinds
  <2> QED BY <2>1, <2>2, <2>3 DEF RingKinds
<1>8. \A q \in Log!Rings : LogRing(q)'
  <2> SUFFICES ASSUME NEW q \in Log!Rings PROVE LogRing(q)'
    OBVIOUS
  <2>1. CASE q # r
    BY <2>1, <1>1, <1>2, <1>4 DEF LogRing
  <2>2. CASE q = r
    <3>1. log_rdI'[r] <= log_wrI'[r] /\ log_wrI'[r] <= log_rdI'[r] + COUNT
      BY <1>1, <1>2, <1>4, LogBounds DEF LogRing
    <3>2. ASSUME NEW k \in Nat, log_rdI[r] <= k, k < log_wrI[r] + 1
          PROVE  log_buf'[r][k % COUNT].n = k
      <4>1. CASE k < log_wrI[r]
        BY <3>2, <4>1, <1>2, <1>6 DEF LogRing
      <4>2. CASE k = log_wrI[r]
        BY <4>2, <1>5 DEF s, e
      <4> QED BY <3>2, <4>1, <4>2, <1>2
    <3> QED BY <2>2, <3>1, <3>2, <1>1, <1>4 DEF LogRing
  <2> QED BY <2>1, <2>2
<1>9. Log!OnlyEnabledLogs'
  BY <1>1, <1>4 DEF RingInv, Log!OnlyEnabledLogs
<1>10. ASSUME NEW q \in Log!Rings, log_rdI[q] # log_wrI[q]
       PROVE  log_rdI'[q] # log_wrI'[q] /\ Log!Oldest(q)' = Log!Oldest(q)
  <2>1. CASE q # r
    BY <2>1, <1>10, <1>1, <1>4 DEF Log!Oldest
  <2>2. CASE q = r
    <3>1. log_rdI[r] < log_wrI[r]
      BY <1>2, <1>10, <2>2 DEF LogRing
    <3>2. log_buf'[r][log_rdI[r] % COUNT] = log_buf[r][log_rdI[r] % COUNT]
      BY <1>2, <1>6, <3>1
    <3> QED BY <2>2, <3>1, <3>2, <1>1, <1>2, <1>4 DEF Log!Oldest
  <2> QED BY <2>1, <2>2
<1>11. \A q \in Log!Rings : log_wrI'[q] >= log_wrI[q]
  BY <1>2, <1>4
<1> QED BY <1>1, <1>7, <1>8, <1>9, <1>10, <1>11 DEF RingInv

(* A sample that is consumed is the oldest of its ring. *)
LEMMA ConsumeRing ==
  ASSUME RingInv, NEW r \in Log!Rings, log_rdI[r] # log_wrI[r], Log!Consume(r),
         UNCHANGED <<log_wrI, log_enable_flags, log_now>>, log_misread' = FALSE
  PROVE  RingInv'
<1> DEFINE s == log_rdI[r] % COUNT
<1>1. /\ log_rdI' = [log_rdI EXCEPT ![r] = @ + 1]
      /\ log_buf' = [log_buf EXCEPT ![r][s] = Log!Blank]
  BY DEF Log!Consume
<1>2. /\ RingKinds /\ \A q \in Log!Rings : /\ LogRing(q) /\ log_rdI[q] \in Nat
                                            /\ log_wrI[q] \in Nat
  BY DEF RingInv, RingKinds
<1>3. s \in 0..COUNT - 1 /\ log_rdI[r] < log_wrI[r]
  BY <1>2, LogBounds DEF LogRing
<1> HIDE DEF s
<1>4. /\ \A q \in Log!Rings \ {r} : log_buf'[q] = log_buf[q] /\ log_rdI'[q] = log_rdI[q]
      /\ log_rdI'[r] = log_rdI[r] + 1
      /\ log_buf'[r] = [log_buf[r] EXCEPT ![s] = Log!Blank]
  BY <1>1, <1>2 DEF RingKinds
<1>5. \A i \in 0..COUNT - 1 : i # s => log_buf'[r][i] = log_buf[r][i]
  BY <1>2, <1>3, <1>4 DEF RingKinds
<1>6. RingKinds'
  <2>1. log_buf' \in [Log!Rings -> [0..COUNT - 1 -> LogSamples]]
    <3>1. [log_buf[r] EXCEPT ![s] = Log!Blank] \in [0..COUNT - 1 -> LogSamples]
      BY <1>2, <1>3, LogBounds DEF RingKinds
    <3>2. log_buf' = [log_buf EXCEPT ![r] = [log_buf[r] EXCEPT ![s] = Log!Blank]]
      BY <1>1
    <3> QED BY <3>1, <3>2, <1>2 DEF RingKinds
  <2>2. log_rdI' \in [Log!Rings -> Nat]
    BY <1>1, <1>2 DEF RingKinds
  <2> QED BY <2>1, <2>2, <1>2 DEF RingKinds
<1>7. \A q \in Log!Rings : LogRing(q)'
  <2> SUFFICES ASSUME NEW q \in Log!Rings PROVE LogRing(q)'
    OBVIOUS
  <2>1. CASE q # r
    BY <2>1, <1>2, <1>4 DEF LogRing
  <2>2. CASE q = r
    <3>1. log_rdI'[r] <= log_wrI[r] /\ log_wrI[r] <= log_rdI'[r] + COUNT
      BY <1>2, <1>3, <1>4, LogBounds DEF LogRing
    <3>2. ASSUME NEW k \in Nat, log_rdI[r] + 1 <= k, k < log_wrI[r]
          PROVE  log_buf'[r][k % COUNT].n = k
      <4>0. /\ log_rdI[r] \in Nat /\ log_wrI[r] \in Nat /\ COUNT \in Nat
            /\ log_wrI[r] <= log_rdI[r] + COUNT
        BY <1>2, LogBounds DEF LogRing
      <4>1. log_rdI[r] < k /\ k < log_rdI[r] + COUNT /\ log_rdI[r] <= k
        BY <3>2, <4>0
      <4>2. k % COUNT # s
        BY <4>1, <1>2, LogBounds, SlotsApart DEF s
      <4> QED BY <3>2, <4>1, <4>2, <1>2, <1>5, LogBounds DEF LogRing
    <3> QED BY <2>2, <3>1, <3>2, <1>4 DEF LogRing
  <2> QED BY <2>1, <2>2
<1>8. Log!OnlyEnabledLogs'
  BY <1>3, <1>4 DEF RingInv, Log!OnlyEnabledLogs
<1> QED BY <1>6, <1>7, <1>8 DEF RingInv

(* The row that is made of it is its own. *)
LEMMA ReadRing ==
  ASSUME RingInv, NEW r \in Log!Rings, log_rdI[r] # log_wrI[r], Log!Read(r)
  PROVE  log_misread' = FALSE
<1>1. log_rdI[r] \in Nat /\ log_wrI[r] \in Nat /\ LogRing(r) /\ log_misread = FALSE
  BY DEF RingInv, RingKinds
<1>2. log_rdI[r] <= log_rdI[r] /\ log_rdI[r] < log_wrI[r]
  BY <1>1 DEF LogRing
<1>3. log_buf[r][log_rdI[r] % COUNT].n = log_rdI[r]
  BY <1>1, <1>2 DEF LogRing
<1> QED BY <1>1, <1>3 DEF Log!Read

(* What concerns the rings, and what no action on them touches. *)
RingState == <<log_buf, log_rdI, log_wrI, log_enable_flags, log_now, log_misread>>

LEMMA RingSame ==
  ASSUME RingInv, UNCHANGED RingState
  PROVE  RingInv'
BY DEF RingState, RingInv, RingKinds, LogRing, Log!OnlyEnabledLogs

(* The sample of the row that is being made. *)
LEMMA FoundRing ==
  ASSUME LogInv, log_pc \in {"found", "count"}, log_next.ring # "none"
  PROVE  log_next.ring \in Log!Rings /\ log_rdI[log_next.ring] # log_wrI[log_next.ring]
BY DEF LogInv, LookInv, LookKinds, Log!Rings

LEMMA BeginsRing ==
  ASSUME RingInv, Log!SessionBegins
  PROVE  RingInv'
<1>1. /\ \A r \in Log!Rings : log_rdI'[r] = 0 /\ log_wrI'[r] = 0
      /\ log_rdI' \in [Log!Rings -> Nat] /\ log_wrI' \in [Log!Rings -> Nat]
      /\ UNCHANGED <<log_now, log_misread>>
  BY DEF Log!SessionBegins, Log!Emptied
<1>2. log_buf' = [r \in Log!Rings |-> [i \in 0..COUNT - 1 |-> Log!Blank]]
  BY <1>1 DEF Log!SessionBegins
<1>3. log_buf' \in [Log!Rings -> [0..COUNT - 1 -> LogSamples]]
  BY <1>2, LogBounds
<1>4. \A r \in Log!Rings : LogRing(r)'
  BY <1>1, LogBounds DEF LogRing
<1>5. Log!OnlyEnabledLogs'
  BY <1>1 DEF Log!OnlyEnabledLogs
<1> QED BY <1>1, <1>3, <1>4, <1>5 DEF RingInv, RingKinds

LEMMA RingNext ==
  ASSUME LogInv, [Log!Next]_(Log!vars)
  PROVE  RingInv'
<1>0. RingInv
  BY DEF LogInv
<1>1. CASE Log!Sample
  <2>1. PICK r \in Log!Rings : Log!Write(r)
    BY <1>1 DEF Log!Sample, Log!Rings
  <2> QED BY <1>0, <2>1, WriteRing
<1>2. CASE Log!UpdateGNSS
  <2>1. CASE log_rdI["gnss"] # log_wrI["gnss"]
    <3>1. /\ Log!Read("gnss") /\ Log!Consume("gnss") /\ "gnss" \in Log!Rings
          /\ UNCHANGED <<log_wrI, log_enable_flags, log_now>>
      BY <1>2, <2>1 DEF Log!UpdateGNSS, Log!Phase, Log!Rings
    <3>2. log_misread' = FALSE
      BY <1>0, <2>1, <3>1, ReadRing
    <3> QED BY <1>0, <2>1, <3>1, <3>2, ConsumeRing
  <2>2. CASE log_rdI["gnss"] = log_wrI["gnss"]
    <3>1. UNCHANGED RingState
      BY <1>2, <2>2 DEF Log!UpdateGNSS, Log!Phase, RingState
    <3> QED BY <1>0, <3>1, RingSame
  <2> QED BY <2>1, <2>2
<1>3. CASE Log!UpdateRow
  <2>1. /\ log_pc = "found" /\ log_next.ring # "none" /\ Log!Read(log_next.ring)
        /\ UNCHANGED <<log_buf, log_rdI, log_wrI, log_enable_flags, log_now>>
    BY <1>3 DEF Log!UpdateRow, Log!Phase, Log!rings
  <2>2. log_misread' = FALSE
    BY <1>0, <2>1, FoundRing, ReadRing
  <2> QED BY <1>0, <2>1, <2>2, RingSame DEF RingInv, RingState
<1>4. CASE Log!UpdateCount
  <2>1. /\ log_pc = "count" /\ Log!Consume(log_next.ring)
        /\ UNCHANGED <<log_wrI, log_enable_flags, log_now, log_misread>>
    BY <1>4 DEF Log!UpdateCount, Log!Phase
  <2>2. log_next.ring # "none" /\ log_misread' = FALSE
    BY <2>1 DEF LogInv, LookInv, RingInv
  <2> QED BY <1>0, <2>1, <2>2, FoundRing, ConsumeRing
<1>5. CASE Log!SessionBegins
  BY <1>0, <1>5, BeginsRing
<1>6. CASE \/ Log!UpdateBegins \/ Log!GetNextSensor \/ Log!UpdateDone \/ Log!UpdateOutOfTime
           \/ Log!Sync \/ Log!SessionEnds \/ Log!FS_Log_Timer \/ UNCHANGED Log!vars
  <2>1. UNCHANGED RingState
    BY <1>6 DEF Log!UpdateBegins, Log!GetNextSensor, Log!LookBaro, Log!LookImu, Log!UpdateDone,
                Log!UpdateOutOfTime, Log!Phase, Log!Sync, Log!SessionEnds, Log!FS_Log_Timer,
                Log!vars, Log!rings, RingState
  <2> QED BY <1>0, <2>1, RingSame
<1> QED BY <1>1, <1>2, <1>3, <1>4, <1>5, <1>6 DEF Log!Next, Log!Update

(* The search for the oldest sample. *)
LEMMA LookLeft ==
  ASSUME RingInv, NEW r \in Log!SensorRings, NEW found, Log!Look(r, found),
         found \in [ring : Log!SensorRings \union {"none"}, time : 0..Wrap - 1],
         found.ring = "none" => found.time = Log!Sentinel,
         found.ring # "none" => log_rdI[found.ring] # log_wrI[found.ring]
  PROVE  /\ log_next' \in [ring : Log!SensorRings \union {"none"}, time : 0..Wrap - 1]
         /\ log_next'.ring = "none" => log_next' = found
         /\ log_next'.ring # "none" => log_rdI[log_next'.ring] # log_wrI[log_next'.ring]
         /\ log_next'.ring = "none" =>
              log_rdI[r] = log_wrI[r] \/ Log!Oldest(r) = Log!Sentinel
<1>1. /\ r \in Log!Rings /\ log_rdI[r] \in Nat
  BY DEF RingInv, RingKinds, Log!Rings
<1>2. Log!Oldest(r) \in 0..Wrap - 1
  <2>1. log_buf[r][log_rdI[r] % COUNT] \in LogSamples
    BY <1>1, LogBounds DEF RingInv, RingKinds
  <2> QED BY <2>1 DEF Log!Oldest, LogSamples
<1>3. r # "none"
  BY DEF Log!SensorRings
<1>4. CASE log_rdI[r] # log_wrI[r] /\ Log!Older(Log!Oldest(r), found.time)
  BY <1>2, <1>3, <1>4 DEF Log!Look
<1>5. CASE ~(log_rdI[r] # log_wrI[r] /\ Log!Older(Log!Oldest(r), found.time))
  <2>1. log_next' = found
    BY <1>5 DEF Log!Look
  <2>2. ASSUME found.ring = "none", log_rdI[r] # log_wrI[r] PROVE Log!Oldest(r) = Log!Sentinel
    BY <1>2, <1>5, <2>2, LogBounds DEF Log!Older, Log!Sentinel
  <2> QED BY <2>1, <2>2
<1> QED BY <1>4, <1>5

(* A step that leaves the search alone and takes no sample it has found. *)
LEMMA LookSame ==
  ASSUME RingInv, LookInv, UNCHANGED <<log_next, log_accepted, log_pc, log_rdI>>,
         \A q \in Log!Rings : log_wrI'[q] >= log_wrI[q] /\ log_wrI'[q] \in Nat,
         \A q \in Log!Rings : log_rdI[q] # log_wrI[q] =>
           log_rdI'[q] # log_wrI'[q] /\ Log!Oldest(q)' = Log!Oldest(q)
  PROVE  LookInv'
<1>1. /\ "baro" \in Log!Rings /\ "imu" \in Log!Rings /\ Log!SensorRings \subseteq Log!Rings
      /\ Log!Sentinel' = Log!Sentinel
  BY DEF Log!Rings, Log!SensorRings, Log!Sentinel
<1>2. \A q \in Log!Rings : /\ log_wrI[q] \in Nat /\ log_rdI[q] \in Nat /\ log_accepted[q] \in Nat
                           /\ log_accepted[q] <= log_wrI[q]
  BY DEF RingInv, RingKinds, LookInv, LookKinds
<1>3. ASSUME NEW q \in Log!Rings, Passed(q) PROVE Passed(q)'
  BY <1>1, <1>2, <1>3 DEF Passed
<1>4. LookKinds'
  BY <1>2 DEF LookInv, LookKinds
<1>5. log_next.ring \in Log!Rings \union {"none"}
  BY <1>1 DEF LookInv, LookKinds
<1> QED BY <1>1, <1>3, <1>4, <1>5 DEF LookInv

(* An update that ends has nothing in mind. *)
LEMMA EndsLook ==
  ASSUME RingInv, Log!Ends, log_pc' = "idle", UNCHANGED log_wrI
  PROVE  LookInv'
<1>1. /\ log_next' = [ring |-> "none", time |-> Log!Sentinel]
      /\ log_accepted' = [r \in Log!Rings |-> 0]
  BY DEF Log!Ends, Log!None
<1>2. LookKinds'
  BY <1>1, LogBounds DEF LookKinds, RingInv, RingKinds
<1> QED BY <1>1, <1>2 DEF LookInv, Log!Sentinel

LEMMA SearchLook ==
  ASSUME RingInv, LookInv, Log!GetNextSensor
  PROVE  LookInv'
<1>1. /\ UNCHANGED <<log_buf, log_rdI, log_wrI, log_accepted>>
      /\ Log!SensorRings = {"baro", "imu"} /\ Log!SensorRings \subseteq Log!Rings
      /\ "baro" # "none" /\ "imu" # "none" /\ Log!Sentinel' = Log!Sentinel
  BY DEF Log!GetNextSensor, Log!rings, Log!SensorRings, Log!Rings, Log!Sentinel
<1>2. \A q \in Log!Rings : /\ log_wrI[q] \in Nat /\ log_rdI[q] \in Nat /\ log_accepted[q] \in Nat
                           /\ log_accepted[q] <= log_wrI[q]
  BY DEF RingInv, RingKinds, LookInv, LookKinds
<1>3. \A q \in Log!Rings : Passed(q)' <=> Passed(q)
  BY <1>1 DEF Passed, Log!Oldest
<1>4. ASSUME NEW q \in Log!Rings, log_rdI[q] = log_wrI[q] \/ Log!Oldest(q) = Log!Sentinel
      PROVE  Passed(q)
  BY <1>2, <1>4 DEF Passed
<1>5. CASE Log!LookBaro
  <2> DEFINE found == Log!None
  <2>1. /\ found \in [ring : Log!SensorRings \union {"none"}, time : 0..Wrap - 1]
        /\ found.ring = "none" /\ found.time = Log!Sentinel
    BY LogBounds DEF Log!None
  <2>2. Log!Look("baro", found) /\ log_pc' = "imu"
    BY <1>5 DEF Log!LookBaro, Log!Phase
  <2> HIDE DEF found
  <2>3. /\ log_next' \in [ring : Log!SensorRings \union {"none"}, time : 0..Wrap - 1]
        /\ log_next'.ring = "none" => log_next' = found
        /\ log_next'.ring # "none" => log_rdI[log_next'.ring] # log_wrI[log_next'.ring]
        /\ log_next'.ring = "none" =>
             log_rdI["baro"] = log_wrI["baro"] \/ Log!Oldest("baro") = Log!Sentinel
    BY <1>1, <2>1, <2>2, LookLeft
  <2>4. LookKinds'
    BY <1>1, <2>3 DEF LookInv, LookKinds
  <2>5. log_next'.ring = "none" => Passed("baro")'
    BY <1>1, <1>3, <1>4, <2>3
  <2> QED BY <1>1, <2>1, <2>2, <2>3, <2>4, <2>5 DEF LookInv
<1>6. CASE Log!LookImu
  <2>1. Log!Look("imu", log_next) /\ log_pc = "imu" /\ log_pc' = "found"
    BY <1>6 DEF Log!LookImu, Log!Phase
  <2>2. /\ log_next.ring = "none" => log_next.time = Log!Sentinel
        /\ log_next.ring # "none" => log_rdI[log_next.ring] # log_wrI[log_next.ring]
        /\ log_next.ring = "none" => Passed("baro")
    BY <2>1 DEF LookInv
  <2>3. /\ log_next' \in [ring : Log!SensorRings \union {"none"}, time : 0..Wrap - 1]
        /\ log_next'.ring = "none" => log_next' = log_next
        /\ log_next'.ring # "none" => log_rdI[log_next'.ring] # log_wrI[log_next'.ring]
        /\ log_next'.ring = "none" =>
             log_rdI["imu"] = log_wrI["imu"] \/ Log!Oldest("imu") = Log!Sentinel
    BY <1>1, <2>1, <2>2, LookLeft DEF LookInv, LookKinds
  <2>4. LookKinds'
    BY <1>1, <2>3 DEF LookInv, LookKinds
  <2>5. log_next'.ring = "none" => Passed("baro")' /\ Passed("imu")'
    BY <1>1, <1>3, <1>4, <2>2, <2>3
  <2> QED BY <1>1, <2>1, <2>2, <2>3, <2>4, <2>5 DEF LookInv
<1> QED BY <1>5, <1>6 DEF Log!GetNextSensor

LEMMA LookNext ==
  ASSUME LogInv, [Log!Next]_(Log!vars)
  PROVE  LookInv'
<1>0. /\ RingInv /\ LookInv /\ LookKinds
      /\ \A q \in Log!Rings : /\ log_wrI[q] \in Nat /\ log_rdI[q] \in Nat
                              /\ log_accepted[q] \in Nat /\ log_accepted[q] <= log_wrI[q]
  BY DEF LogInv, RingInv, RingKinds, LookInv, LookKinds
<1>1. CASE Log!Sample
  <2>1. PICK r \in Log!Rings : Log!Write(r)
    BY <1>1 DEF Log!Sample, Log!Rings
  <2>2. RingInv' /\ UNCHANGED <<log_next, log_accepted, log_pc>>
    BY <1>0, <2>1, WriteRing DEF Log!Write
  <2> QED BY <1>0, <2>1, <2>2, WriteRing, LookSame DEF RingInv, RingKinds
<1>2. CASE Log!UpdateBegins
  BY <1>0, <1>2 DEF Log!UpdateBegins, Log!Phase, Log!rings, LookInv, LookKinds, Log!Sentinel
<1>3. CASE Log!UpdateGNSS
  <2>1. UNCHANGED <<log_next, log_wrI>> /\ log_pc = "gnss" /\ log_pc' \in {"gnss", "baro"}
    BY <1>3 DEF Log!UpdateGNSS, Log!Phase
  <2>2. CASE log_pc' = "gnss" /\ UNCHANGED log_accepted
    BY <1>0, <2>1, <2>2 DEF LookInv, LookKinds, Log!Sentinel
  <2>3. CASE log_pc' = "baro" /\ log_accepted' = log_wrI
    <3>1. LookKinds'
      BY <1>0, <2>1, <2>3 DEF LookKinds, RingInv, RingKinds
    <3> QED BY <1>0, <2>1, <2>3, <3>1 DEF LookInv, Log!Sentinel
  <2> QED BY <1>3, <2>1, <2>2, <2>3 DEF Log!UpdateGNSS, Log!Phase
<1>4. CASE Log!GetNextSensor
  BY <1>0, <1>4, SearchLook
<1>5. CASE Log!UpdateRow
  <2>1. /\ UNCHANGED <<log_next, log_accepted, log_rdI, log_wrI, log_buf>>
        /\ log_pc = "found" /\ log_pc' = "count" /\ log_next.ring # "none"
    BY <1>5 DEF Log!UpdateRow, Log!Phase, Log!rings
  <2> QED BY <1>0, <2>1 DEF LookInv, LookKinds, Log!Sentinel
<1>6. CASE Log!UpdateCount
  <2>1. UNCHANGED <<log_next, log_accepted, log_wrI>> /\ log_pc' = "baro"
    BY <1>6 DEF Log!UpdateCount, Log!Phase
  <2> QED BY <1>0, <2>1 DEF LookInv, LookKinds, Log!Sentinel
<1>7. CASE Log!UpdateDone \/ Log!UpdateOutOfTime
  <2>1. Log!Ends /\ log_pc' = "idle" /\ UNCHANGED log_wrI
    BY <1>7 DEF Log!UpdateDone, Log!UpdateOutOfTime, Log!Phase, Log!rings
  <2> QED BY <1>0, <2>1, EndsLook
<1>8. CASE Log!SessionBegins
  <2>1. /\ log_pc = "idle" /\ UNCHANGED <<log_pc, log_next, log_accepted>>
        /\ \A r \in Log!Rings : log_wrI'[r] = 0
    BY <1>8 DEF Log!SessionBegins, Log!Emptied
  <2> QED BY <1>0, <2>1 DEF LookInv, LookKinds, Log!Sentinel
<1>9. CASE Log!Sync \/ Log!SessionEnds \/ Log!FS_Log_Timer \/ UNCHANGED Log!vars
  <2>1. UNCHANGED <<log_next, log_accepted, log_pc, log_rdI, log_wrI, log_buf>>
    BY <1>9 DEF Log!Sync, Log!SessionEnds, Log!FS_Log_Timer, Log!vars, Log!rings
  <2> QED BY <1>0, <2>1, LookSame DEF Log!Oldest
<1> QED BY <1>1, <1>2, <1>3, <1>4, <1>5, <1>6, <1>7, <1>8, <1>9 DEF Log!Next, Log!Update

LEMMA BatchNext ==
  ASSUME LogInv, [Log!Next]_(Log!vars)
  PROVE  BatchInv'
<1>0. BatchInv /\ BatchTarget \in Nat \ {0}
  BY LogBounds DEF LogInv
<1>1. CASE Log!UpdateRow
  <2>1. /\ Log!WriteSensorBatch /\ UNCHANGED <<log_enable_flags, log_open>>
    BY <1>1 DEF Log!UpdateRow, Log!Phase, Log!WriteSensorBatch
  <2>2. log_rows' = IF log_open THEN log_rows + 1 ELSE log_rows
    BY <2>1 DEF Log!WriteSensorBatch
  <2>3. CASE log_sensorBatchLen + 1 = BatchTarget
    <3>1. /\ log_sensorBatchLen' = 0 /\ log_sensorSyncPending' = TRUE /\ log_unsynced' = log_open
          /\ log_stored' = IF log_open THEN log_stored + BatchTarget ELSE log_stored
      BY <2>1, <2>3 DEF Log!WriteSensorBatch, Log!Full, Log!Flush
    <3> QED BY <1>0, <2>1, <2>2, <2>3, <3>1
            DEF BatchInv, Log!RowsAccounted, Log!UnsyncedIsPending
  <2>4. CASE log_sensorBatchLen + 1 # BatchTarget
    <3>1. /\ log_sensorBatchLen' = log_sensorBatchLen + 1
          /\ UNCHANGED <<log_sensorSyncPending, log_unsynced, log_stored>>
      BY <2>1, <2>4 DEF Log!WriteSensorBatch, Log!Full
    <3> QED BY <1>0, <2>1, <2>2, <2>4, <3>1
            DEF BatchInv, Log!RowsAccounted, Log!UnsyncedIsPending
  <2> QED BY <2>3, <2>4
<1>2. CASE Log!Sync
  <2>1. UNCHANGED <<log_enable_flags, log_sensorBatchLen, log_open, log_rows, log_stored>>
    BY <1>2 DEF Log!Sync
  <2>2. CASE UNCHANGED <<log_sensorSyncPending, log_unsynced>>
    BY <1>0, <2>1, <2>2 DEF BatchInv, Log!RowsAccounted, Log!UnsyncedIsPending
  <2>3. CASE \E ok \in {log_open, FALSE} :
               /\ log_sensorSyncPending' = ~ok /\ log_unsynced' = (log_unsynced /\ ~ok)
    BY <1>0, <2>1, <2>3 DEF BatchInv, Log!RowsAccounted, Log!UnsyncedIsPending
  <2> QED BY <1>2, <2>2, <2>3 DEF Log!Sync, Log!SyncedBy
<1>3. CASE Log!SessionBegins
  <2>1. /\ log_rows' = 0 /\ log_stored' = 0 /\ log_unsynced' = FALSE
    BY <1>3 DEF Log!SessionBegins
  <2>2. log_open' = FALSE \/ log_open' = ("sensor" \in log_enable_flags')
    BY <1>3 DEF Log!SessionBegins
  <2>3. \/ log_sensorBatchLen' = 0 /\ log_sensorSyncPending' = FALSE
        \/ ~log_open' /\ UNCHANGED <<log_sensorBatchLen, log_sensorSyncPending>>
    BY <1>3 DEF Log!SessionBegins
  <2>4. /\ log_open' \in BOOLEAN
        /\ log_open' => "sensor" \in log_enable_flags'
    <3>1. CASE log_open' = FALSE
      BY <3>1
    <3>2. CASE log_open' = ("sensor" \in log_enable_flags')
      <4>1. ("sensor" \in log_enable_flags') \in BOOLEAN
        OBVIOUS
      <4> QED BY <3>2, <4>1, Zenon
    <3> QED BY <2>2, <3>1, <3>2
  <2>5. /\ log_sensorBatchLen' \in 0..BatchTarget - 1 /\ log_sensorSyncPending' \in BOOLEAN
        /\ log_open' = TRUE => log_sensorBatchLen' = 0
    <3>1. /\ 0 \in 0..BatchTarget - 1 /\ log_sensorBatchLen \in 0..BatchTarget - 1
          /\ log_sensorSyncPending \in BOOLEAN
      BY <1>0 DEF BatchInv
    <3> QED BY <2>3, <3>1
  <2>6. Log!RowsAccounted'
    <3>1. CASE log_open' = TRUE
      BY <2>1, <2>5, <3>1 DEF Log!RowsAccounted
    <3>2. CASE log_open' = FALSE
      BY <2>1, <3>2 DEF Log!RowsAccounted
    <3> QED BY <2>4, <3>1, <3>2
  <2> QED BY <2>1, <2>4, <2>5, <2>6 DEF BatchInv, Log!UnsyncedIsPending
<1>4. CASE Log!SessionEnds
  <2>1. /\ log_open' = FALSE /\ log_unsynced' = FALSE
        /\ UNCHANGED <<log_rows, log_sensorSyncPending, log_enable_flags>>
    BY <1>4 DEF Log!SessionEnds
  <2>2. CASE "sensor" \in log_enable_flags
    <3>1. /\ log_sensorBatchLen' = 0
          /\ log_stored' = IF log_open THEN log_stored + log_sensorBatchLen ELSE log_stored
      BY <1>4, <2>2 DEF Log!SessionEnds, Log!Flush
    <3>2. log_rows' = log_stored' /\ log_stored' \in Nat
      <4>1. CASE log_open = TRUE
        BY <1>0, <2>1, <3>1, <4>1 DEF BatchInv, Log!RowsAccounted
      <4>2. CASE log_open = FALSE
        BY <1>0, <2>1, <3>1, <4>2 DEF BatchInv, Log!RowsAccounted
      <4> QED BY <1>0, <4>1, <4>2 DEF BatchInv
    <3>3. Log!RowsAccounted'
      <4>1. (IF log_open' THEN log_sensorBatchLen' ELSE 0) = 0
        BY <2>1, Zenon
      <4>2. \A n \in Nat : n + 0 = n
        OBVIOUS
      <4> QED BY <3>2, <4>1, <4>2, Zenon DEF Log!RowsAccounted
    <3>4. log_sensorBatchLen' \in 0..BatchTarget - 1 /\ log_rows' \in Nat
      BY <1>0, <2>1, <3>1 DEF BatchInv
    <3> QED BY <1>0, <2>1, <3>2, <3>3, <3>4 DEF BatchInv, Log!UnsyncedIsPending
  <2>3. CASE "sensor" \notin log_enable_flags
    <3>1. UNCHANGED <<log_sensorBatchLen, log_stored>>
      BY <1>4, <2>3 DEF Log!SessionEnds
    <3> QED BY <1>0, <2>1, <2>3, <3>1 DEF BatchInv, Log!RowsAccounted, Log!UnsyncedIsPending
  <2> QED BY <2>2, <2>3
<1>5. CASE \/ Log!Sample \/ Log!UpdateBegins \/ Log!UpdateGNSS \/ Log!GetNextSensor
           \/ Log!UpdateCount \/ Log!UpdateDone \/ Log!UpdateOutOfTime \/ Log!FS_Log_Timer
           \/ UNCHANGED Log!vars
  <2>1. UNCHANGED <<log_enable_flags, log_sensorBatchLen, log_sensorSyncPending, log_open,
                    log_rows, log_stored, log_unsynced>>
    BY <1>5 DEF Log!Sample, Log!Write, Log!UpdateBegins, Log!UpdateGNSS, Log!GetNextSensor,
                Log!LookBaro, Log!LookImu, Log!UpdateCount, Log!UpdateDone, Log!UpdateOutOfTime,
                Log!Phase, Log!FS_Log_Timer, Log!vars, Log!batch
  <2> QED BY <1>0, <2>1 DEF BatchInv, Log!RowsAccounted, Log!UnsyncedIsPending
<1> QED BY <1>1, <1>2, <1>3, <1>4, <1>5 DEF Log!Next, Log!Update

(* One ring is looked at, and what is kept is older than what it has. *)
LEMMA LookSeen ==
  ASSUME RingInv, NEW r \in Log!SensorRings, NEW found, Log!Look(r, found),
         found.time \in 0..Wrap - 1
  PROVE  /\ log_next'.time <= found.time
         /\ log_rdI[r] # log_wrI[r] => log_next'.time <= Log!Oldest(r)
<1>1. log_buf[r][log_rdI[r] % COUNT] \in LogSamples
  BY LogBounds DEF RingInv, RingKinds, Log!Rings
<1>2. Log!Oldest(r) \in 0..Wrap - 1
  BY <1>1 DEF Log!Oldest, LogSamples
<1>3. CASE log_rdI[r] # log_wrI[r] /\ Log!Older(Log!Oldest(r), found.time)
  BY <1>2, <1>3 DEF Log!Look, Log!Older
<1>4. CASE ~(log_rdI[r] # log_wrI[r] /\ Log!Older(Log!Oldest(r), found.time))
  <2>1. log_next' = found
    BY <1>4 DEF Log!Look
  <2> QED BY <1>2, <1>4, <2>1 DEF Log!Older
<1> QED BY <1>3, <1>4

LEMMA SeenNext ==
  ASSUME LogInv, [Log!Next]_(Log!vars)
  PROVE  SeenInv'
<1>0. /\ RingInv /\ SeenInv /\ LookKinds
      /\ \A q \in Log!Rings : /\ log_wrI[q] \in Nat /\ log_rdI[q] \in Nat
                              /\ log_accepted[q] \in Nat /\ log_accepted[q] <= log_wrI[q]
      /\ "baro" \in Log!Rings /\ "imu" \in Log!Rings
  BY DEF LogInv, RingInv, RingKinds, LookInv, LookKinds, Log!Rings, Log!SensorRings
<1>1. ASSUME UNCHANGED <<log_next, log_accepted, log_pc, log_rdI>>,
             \A q \in Log!Rings : log_rdI[q] # log_wrI[q] => Log!Oldest(q)' = Log!Oldest(q)
      PROVE  SeenInv'
  <2>1. ASSUME NEW q \in Log!Rings, Seen(q) PROVE Seen(q)'
    BY <1>0, <1>1, <2>1 DEF Seen
  <2> QED BY <1>0, <1>1, <2>1 DEF SeenInv
<1>2. CASE Log!Sample
  <2>1. PICK r \in Log!Rings : Log!Write(r)
    BY <1>2 DEF Log!Sample, Log!Rings
  <2>2. UNCHANGED <<log_next, log_accepted, log_pc>>
    BY <2>1 DEF Log!Write
  <2> QED BY <1>0, <1>1, <2>1, <2>2, WriteRing
<1>3. CASE Log!GetNextSensor
  <2>1. UNCHANGED <<log_buf, log_rdI, log_wrI, log_accepted>>
    BY <1>3 DEF Log!GetNextSensor, Log!rings
  <2>2. \A q : Log!Oldest(q)' = Log!Oldest(q)
    BY <2>1 DEF Log!Oldest
  <2>3. CASE Log!LookBaro
    <3>1. Log!Look("baro", Log!None) /\ log_pc' = "imu"
      BY <2>3 DEF Log!LookBaro, Log!Phase
    <3>2. Log!None.time \in 0..Wrap - 1 /\ "baro" \in Log!SensorRings
      BY LogBounds DEF Log!None, Log!SensorRings
    <3>3. log_rdI["baro"] # log_wrI["baro"] => log_next'.time <= Log!Oldest("baro")
      BY <1>0, <3>1, <3>2, LookSeen
    <3>4. Seen("baro")'
      BY <1>0, <2>1, <2>2, <3>3 DEF Seen
    <3> QED BY <3>1, <3>4 DEF SeenInv
  <2>4. CASE Log!LookImu
    <3>1. Log!Look("imu", log_next) /\ log_pc = "imu" /\ log_pc' = "found"
      BY <2>4 DEF Log!LookImu, Log!Phase
    <3>2. log_next.time \in 0..Wrap - 1 /\ "imu" \in Log!SensorRings
      BY <1>0 DEF LookKinds, Log!SensorRings
    <3>3. /\ log_next'.time <= log_next.time
          /\ log_rdI["imu"] # log_wrI["imu"] => log_next'.time <= Log!Oldest("imu")
      BY <1>0, <3>1, <3>2, LookSeen
    <3>4. Seen("imu")'
      BY <1>0, <2>1, <2>2, <3>3 DEF Seen
    <3>5. log_next'.time \in Int
      <4>1. log_next' = log_next \/ log_next'.time = Log!Oldest("imu")
        BY <3>1 DEF Log!Look
      <4>2. log_buf["imu"][log_rdI["imu"] % COUNT] \in LogSamples
        BY <1>0, LogBounds DEF RingInv, RingKinds
      <4> QED BY <3>2, <4>1, <4>2 DEF Log!Oldest, LogSamples
    <3>6. Log!Oldest("baro") \in Int
      <4>1. log_buf["baro"][log_rdI["baro"] % COUNT] \in LogSamples
        BY <1>0, LogBounds DEF RingInv, RingKinds
      <4> QED BY <4>1 DEF Log!Oldest, LogSamples
    <3>7. Seen("baro")'
      BY <1>0, <2>1, <2>2, <3>1, <3>2, <3>3, <3>5, <3>6 DEF SeenInv, Seen
    <3> QED BY <3>1, <3>4, <3>7 DEF SeenInv
  <2> QED BY <1>3, <2>3, <2>4 DEF Log!GetNextSensor
<1>4. CASE \/ Log!UpdateBegins \/ Log!UpdateGNSS \/ Log!UpdateRow \/ Log!UpdateCount
           \/ Log!UpdateDone \/ Log!UpdateOutOfTime
  <2>1. log_pc' \notin {"imu", "found"}
    BY <1>4 DEF Log!UpdateBegins, Log!UpdateGNSS, Log!UpdateRow, Log!UpdateCount,
                Log!UpdateDone, Log!UpdateOutOfTime, Log!Phase
  <2> QED BY <2>1 DEF SeenInv
<1>5. CASE Log!SessionBegins
  <2>1. log_pc' = "idle"
    BY <1>5 DEF Log!SessionBegins
  <2> QED BY <2>1 DEF SeenInv
<1>6. CASE Log!Sync \/ Log!SessionEnds \/ Log!FS_Log_Timer \/ UNCHANGED Log!vars
  <2>1. UNCHANGED <<log_next, log_accepted, log_pc, log_rdI, log_buf>>
    BY <1>6 DEF Log!Sync, Log!SessionEnds, Log!FS_Log_Timer, Log!vars, Log!rings
  <2> QED BY <1>1, <2>1 DEF Log!Oldest
<1> QED BY <1>2, <1>3, <1>4, <1>5, <1>6 DEF Log!Next, Log!Update

(* The rows of an open file are the samples taken from the rings. *)
LEMMA AccountNext ==
  ASSUME LogInv, [Log!Next]_(Log!vars)
  PROVE  Log!SamplesAccounted'
<1>0. /\ log_rdI \in [Log!Rings -> Nat] /\ log_rows \in Nat /\ Log!SamplesAccounted
      /\ Log!Rings = {"baro", "imu", "gnss"}
  BY DEF LogInv, RingInv, RingKinds, BatchInv, Log!Rings, Log!SensorRings
<1>1. CASE Log!UpdateGNSS
  <2>1. /\ log_rdI'["baro"] = log_rdI["baro"] /\ log_rdI'["imu"] = log_rdI["imu"]
        /\ UNCHANGED <<log_open, log_rows>> /\ log_pc # "count" /\ log_pc' # "count"
    BY <1>0, <1>1 DEF Log!UpdateGNSS, Log!Phase, Log!Consume, Log!batch
  <2> QED BY <1>0, <2>1 DEF Log!SamplesAccounted
<1>2. CASE Log!UpdateRow
  <2>1. /\ log_rdI' = log_rdI /\ log_open' = log_open /\ log_pc = "found" /\ log_pc' = "count"
        /\ log_rows' = IF log_open THEN log_rows + 1 ELSE log_rows
    BY <1>2 DEF Log!UpdateRow, Log!Phase, Log!WriteSensorBatch, Log!rings
  <2> QED BY <1>0, <2>1 DEF Log!SamplesAccounted
<1>3. CASE Log!UpdateCount
  <2>1. /\ log_rdI' = [log_rdI EXCEPT ![log_next.ring] = @ + 1]
        /\ UNCHANGED <<log_open, log_rows>> /\ log_pc = "count" /\ log_pc' = "baro"
    BY <1>3 DEF Log!UpdateCount, Log!Phase, Log!Consume, Log!batch
  <2>2. log_next.ring \in {"baro", "imu"}
    BY <2>1 DEF LogInv, LookInv, LookKinds, Log!SensorRings
  <2>3. log_rdI'["baro"] + log_rdI'["imu"] = log_rdI["baro"] + log_rdI["imu"] + 1
    BY <1>0, <2>1, <2>2
  <2> QED BY <1>0, <2>1, <2>3 DEF Log!SamplesAccounted
<1>4. CASE Log!SessionBegins
  <2>1. /\ log_rdI' = [r \in Log!Rings |-> 0] /\ log_rows' = 0 /\ log_pc' = "idle"
    BY <1>4 DEF Log!SessionBegins, Log!Emptied
  <2> QED BY <1>0, <2>1 DEF Log!SamplesAccounted
<1>5. CASE Log!SessionEnds
  BY <1>5 DEF Log!SessionEnds, Log!SamplesAccounted
<1>6. CASE \/ Log!UpdateBegins \/ Log!GetNextSensor \/ Log!UpdateDone \/ Log!UpdateOutOfTime
  <2>1. /\ UNCHANGED <<log_rdI, log_open, log_rows>> /\ log_pc # "count" /\ log_pc' # "count"
    BY <1>6 DEF Log!UpdateBegins, Log!GetNextSensor, Log!LookBaro, Log!LookImu, Log!UpdateDone,
                Log!UpdateOutOfTime, Log!Phase, Log!rings, Log!batch
  <2> QED BY <1>0, <2>1 DEF Log!SamplesAccounted
<1>7. CASE Log!Sample \/ Log!Sync \/ Log!FS_Log_Timer \/ UNCHANGED Log!vars
  <2>1. UNCHANGED <<log_rdI, log_open, log_rows, log_pc>>
    BY <1>7 DEF Log!Sample, Log!Write, Log!Sync, Log!FS_Log_Timer, Log!vars, Log!rings,
                Log!batch
  <2> QED BY <1>0, <2>1 DEF Log!SamplesAccounted
<1> QED BY <1>1, <1>2, <1>3, <1>4, <1>5, <1>6, <1>7 DEF Log!Next, Log!Update

LEMMA LogBegins == Log!Init => LogInv
<1> SUFFICES ASSUME Log!Init PROVE LogInv
  OBVIOUS
<1>1. /\ log_rdI = [r \in Log!Rings |-> 0] /\ log_wrI = [r \in Log!Rings |-> 0]
      /\ log_accepted = [r \in Log!Rings |-> 0] /\ log_pc = "idle"
      /\ log_next = [ring |-> "none", time |-> Log!Sentinel]
      /\ log_buf = [r \in Log!Rings |-> [i \in 0..COUNT - 1 |-> Log!Blank]]
      /\ log_now \in 0..Wrap - 1 /\ log_misread = FALSE
  BY DEF Log!Init, Log!None
<1>2. RingKinds
  BY <1>1, LogBounds DEF RingKinds
<1>3. RingInv
  <2>1. \A r \in Log!Rings : LogRing(r)
    BY <1>1, LogBounds DEF LogRing
  <2> QED BY <1>1, <1>2, <2>1 DEF RingInv, Log!OnlyEnabledLogs
<1>4. LookInv
  <2>1. LookKinds
    BY <1>1, LogBounds DEF LookKinds
  <2> QED BY <1>1, <2>1 DEF LookInv
<1>5. BatchInv
  <2>1. /\ log_sensorBatchLen = 0 /\ log_rows = 0 /\ log_stored = 0
        /\ log_open = FALSE /\ log_unsynced = FALSE /\ log_sensorSyncPending = FALSE
    BY DEF Log!Init
  <2>2. 0 \in 0..BatchTarget - 1
    BY LogBounds
  <2>3. Log!RowsAccounted
    BY <2>1 DEF Log!RowsAccounted
  <2> QED BY <2>1, <2>2, <2>3 DEF BatchInv, Log!UnsyncedIsPending
<1>6. SeenInv /\ Log!SamplesAccounted
  <2>1. log_pc = "idle" /\ log_open = FALSE
    BY DEF Log!Init
  <2> QED BY <2>1 DEF SeenInv, Log!SamplesAccounted
<1> QED BY <1>3, <1>4, <1>5, <1>6 DEF LogInv

(* An update that ends with time left has looked into every ring. *)
LEMMA Drained ==
  ASSUME LogInv, [Log!Next]_(Log!vars), log_pc = "found", log_pc' = "idle"
  PROVE  \A r \in Log!SensorRings :
           log_rdI[r] >= log_accepted[r] \/ Log!Oldest(r) = Log!Sentinel
<1>1. Log!UpdateDone
  BY DEF Log!Next, Log!Update, Log!Sample, Log!Write, Log!UpdateBegins, Log!UpdateGNSS,
         Log!GetNextSensor, Log!LookBaro, Log!LookImu, Log!UpdateCount, Log!UpdateRow,
         Log!UpdateOutOfTime, Log!Phase, Log!Sync, Log!SessionBegins, Log!SessionEnds,
         Log!FS_Log_Timer, Log!vars
<1>2. log_next.ring = "none"
  BY <1>1 DEF Log!UpdateDone
<1> QED BY <1>2 DEF LogInv, LookInv, Passed, Log!SensorRings

(* The samples of a session become its rows: the oldest of those that wait   *)
(* first, none twice, none lost on its way through the batch; as long as the *)
(* file is open each has its row or waits in its ring, and an update with    *)
(* time left leaves none behind (log.c).  For every size of the rings and of *)
(* the cluster.  What waits when FS_Log_DeInit comes is not logged.          *)
THEOREM RowsAlwaysKept == Log!Spec => RowsKept
<1>1. LogInv /\ [Log!Next]_(Log!vars) => LogInv'
  BY RingNext, LookNext, BatchNext, SeenNext, AccountNext DEF LogInv
<1>2. LogInv => /\ Log!RowsInOrder /\ Log!OldestFirst /\ Log!SamplesAccounted
                /\ Log!OnlyEnabledLogs /\ Log!RowsAccounted /\ Log!UnsyncedIsPending
  BY DEF LogInv, RingInv, LogRing, BatchInv, SeenInv, Seen, Log!RowsInOrder, Log!OldestFirst,
         Log!SensorRings
<1>3. LogInv /\ [Log!Next]_(Log!vars) =>
        [(log_pc = "found" /\ log_pc' = "idle") =>
           \A r \in Log!SensorRings :
             log_rdI[r] >= log_accepted[r] \/ Log!Oldest(r) = Log!Sentinel]_(Log!vars)
  BY Drained
<1> QED BY <1>1, <1>2, <1>3, LogBegins, PTL DEF Log!Spec, RowsKept, Log!RowsKept,
                                                Log!UpdateDrains

(***************************************************************************)
(* EventRing                                                               *)
(***************************************************************************)
EventKinds ==
  /\ ev_eventBuf \in [0..EVENT_COUNT - 1 -> Events!Entries]
  /\ ev_eventRdI \in Nat /\ ev_eventWrI \in Nat /\ ev_eventIndex \in Nat
  /\ ev_pc \in [Events!Contexts -> {"idle", "text", "count"}]
  /\ ev_read \in [Events!Contexts -> Nat]
  /\ ev_entry \in [Events!Contexts -> [slot : 0..EVENT_COUNT - 1, event : Events!Events]]
  /\ ev_rows \in Seq(Events!Entries) /\ ev_made \in Events!Events /\ ev_dropped \in Nat
  /\ ev_lost \in Nat /\ (ev_updating => Events!Idle("task"))

(* The event of the call under way is the last that was made, and in the     *)
(* slot behind the ring; the others are older.                               *)
Busy == \E c \in Events!Contexts : ~Events!Idle(c)
Newest == IF Busy THEN ev_made - 1 ELSE ev_made
Older(e) == e.time = e.text /\ e.text <= Newest
InSlot(i) == ev_eventBuf[Events!Slot(i)]

CallInv ==
  \A c \in Events!Contexts : ~Events!Idle(c) =>
    /\ \A d \in Events!Contexts : ~Events!Idle(d) => d = c
    /\ ev_entry[c].event = ev_made /\ ev_entry[c].slot = Events!Slot(ev_eventWrI)
    /\ ev_eventWrI < ev_eventRdI + EVENT_COUNT
    /\ InSlot(ev_eventWrI).time = ev_made
    /\ ev_pc[c] = "count" =>
         InSlot(ev_eventWrI).text = ev_made /\ ev_read[c] = ev_eventWrI

(* The events between the indices are whole, in order and newer than those   *)
(* of the file.                                                              *)
WaitingInv ==
  \A i \in Nat : ev_eventRdI <= i /\ i < ev_eventWrI =>
    /\ Older(InSlot(i))
    /\ \A j \in Nat : i < j /\ j < ev_eventWrI => InSlot(i).text < InSlot(j).text
    /\ \A n \in DOMAIN ev_rows : ev_rows[n].text < InSlot(i).text

FileInv ==
  /\ \A n \in DOMAIN ev_rows : Older(ev_rows[n])
  /\ \A m, n \in DOMAIN ev_rows : m < n => ev_rows[m].text < ev_rows[n].text

(* Whatever left the ring is in the file or was lost. *)
Gone == Len(ev_rows) + ev_lost

IndexInv ==
  /\ ev_eventRdI <= ev_eventWrI /\ ev_eventWrI <= ev_eventRdI + EVENT_COUNT
  /\ ev_updating => ev_eventRdI <= ev_eventIndex /\ ev_eventIndex <= ev_eventWrI
  /\ Newest = Gone + (ev_eventWrI - ev_eventRdI) + ev_dropped

EventInv ==
  EventKinds /\ (~ev_nested => CallInv /\ WaitingInv /\ FileInv /\ IndexInv)

LEMMA EventBounds ==
  /\ EVENT_COUNT \in Nat \ {0} /\ MaxEvents \in Nat
  /\ \A i \in Nat : Events!Slot(i) \in 0..EVENT_COUNT - 1
<1>1. EVENT_COUNT \in Nat \ {0} /\ MaxEvents \in Nat
  BY EventAssumption
<1>2. \A i \in Nat : i % EVENT_COUNT \in 0..EVENT_COUNT - 1
  BY <1>1, Division
<1> QED BY <1>1, <1>2 DEF Events!Slot

(* What a call writes is not in the slot of an event that waits. *)
LEMMA OthersKept ==
  ASSUME EventKinds, ev_eventWrI < ev_eventRdI + EVENT_COUNT,
         NEW e, ev_eventBuf' = [ev_eventBuf EXCEPT ![Events!Slot(ev_eventWrI)] = e],
         NEW i \in Nat, ev_eventRdI <= i, i < ev_eventWrI
  PROVE  ev_eventBuf'[Events!Slot(i)] = InSlot(i)
<1>1. ev_eventWrI \in Nat /\ ev_eventRdI \in Nat /\ EVENT_COUNT \in Nat \ {0}
  BY EventBounds DEF EventKinds
<1>2. ev_eventWrI < i + EVENT_COUNT
  BY <1>1
<1>3. Events!Slot(i) # Events!Slot(ev_eventWrI)
  BY <1>1, <1>2, SlotsApart DEF Events!Slot
<1> QED BY <1>1, <1>3, EventBounds DEF EventKinds, InSlot

(* A call writes a time or a text. *)
LEMMA FieldKinds ==
  ASSUME EventKinds, NEW e \in Events!Entries, NEW s \in 0..EVENT_COUNT - 1,
         ev_eventBuf' = [ev_eventBuf EXCEPT ![s] = e]
  PROVE  /\ ev_eventBuf' \in [0..EVENT_COUNT - 1 -> Events!Entries]
         /\ ev_eventBuf'[s] = e
BY DEF EventKinds

LEMMA TimeKept ==
  ASSUME NEW b \in Events!Entries, NEW t \in Events!Events
  PROVE  [b EXCEPT !.time = t] \in Events!Entries /\ [b EXCEPT !.time = t].time = t
BY DEF Events!Entries

LEMMA ClaimKinds ==
  ASSUME EventKinds, NEW c \in Events!Contexts, Events!Claim(c)
  PROVE  EventKinds'
<1>1. /\ ev_made' = ev_made + 1 /\ ev_made' \in Events!Events /\ Events!Idle(c)
      /\ UNCHANGED <<ev_eventRdI, ev_eventWrI, ev_eventIndex, ev_read, ev_rows, ev_lost, ev_updating>>
      /\ c = "task" => ~ev_updating
  <2>1. /\ ev_made' = ev_made + 1 /\ ev_made < MaxEvents /\ Events!Idle(c)
        /\ UNCHANGED <<ev_eventRdI, ev_eventWrI, ev_eventIndex, ev_read, ev_rows, ev_lost, ev_updating>>
        /\ c = "task" => ~ev_updating
    BY DEF Events!Claim, Events!reader
  <2>2. ev_made \in 0..MaxEvents /\ MaxEvents \in Nat
    BY EventBounds DEF EventKinds, Events!Events
  <2>3. ev_made' \in Events!Events
    BY <2>1, <2>2 DEF Events!Events
  <2> QED BY <2>1, <2>3
<1>2. CASE Events!HasRoom
  <2> DEFINE s == Events!Slot(ev_eventWrI)
             e == [ev_eventBuf[s] EXCEPT !.time = ev_made']
             d == [slot |-> s, event |-> ev_made']
  <2>1. /\ ev_eventBuf' = [ev_eventBuf EXCEPT ![s] = e]
        /\ ev_entry' = [ev_entry EXCEPT ![c] = d]
        /\ ev_pc' = [ev_pc EXCEPT ![c] = "text"] /\ UNCHANGED ev_dropped
    BY <1>2 DEF Events!Claim, Events!Goto
  <2>2. s \in 0..EVENT_COUNT - 1
    BY EventBounds DEF EventKinds
  <2>3. e \in Events!Entries /\ d \in [slot : 0..EVENT_COUNT - 1, event : Events!Events]
    <3>1. ev_eventBuf[s] \in Events!Entries
      BY <2>2 DEF EventKinds
    <3> QED BY <1>1, <2>2, <3>1, TimeKept
  <2> HIDE DEF s, e, d
  <2>4. ev_eventBuf' \in [0..EVENT_COUNT - 1 -> Events!Entries]
    BY <2>1, <2>2, <2>3, FieldKinds
  <2>5. /\ ev_entry' \in [Events!Contexts -> [slot : 0..EVENT_COUNT - 1, event : Events!Events]]
        /\ ev_pc' \in [Events!Contexts -> {"idle", "text", "count"}]
    BY <2>1, <2>3 DEF EventKinds
  <2>6. ev_updating' => Events!Idle("task")'
    BY <1>1, <2>1 DEF EventKinds, Events!Idle, Events!Contexts
  <2> QED BY <1>1, <2>1, <2>4, <2>5, <2>6 DEF EventKinds
<1>3. CASE ~Events!HasRoom
  <2>1. ev_dropped' = ev_dropped + 1 /\ UNCHANGED <<ev_eventBuf, ev_pc, ev_entry>>
    BY <1>3 DEF Events!Claim
  <2> QED BY <1>1, <2>1 DEF EventKinds, Events!Idle
<1> QED BY <1>2, <1>3

LEMMA TextKinds ==
  ASSUME EventKinds, NEW c \in Events!Contexts, Events!Text(c)
  PROVE  EventKinds'
<1> DEFINE s == ev_entry[c].slot
           e == [ev_eventBuf[s] EXCEPT !.text = ev_entry[c].event]
<1>1. /\ ev_eventBuf' = [ev_eventBuf EXCEPT ![s] = e]
      /\ ev_pc' = [ev_pc EXCEPT ![c] = "count"] /\ ev_read' = [ev_read EXCEPT ![c] = ev_eventWrI]
      /\ UNCHANGED <<ev_eventRdI, ev_eventWrI, ev_eventIndex, ev_entry, ev_rows, ev_lost, ev_updating,
                     ev_made, ev_dropped>>
      /\ ev_pc[c] = "text"
  BY DEF Events!Text, Events!Goto, Events!reader
<1>2. s \in 0..EVENT_COUNT - 1 /\ ev_entry[c].event \in Events!Events
  BY DEF EventKinds
<1>3. e \in Events!Entries
  BY <1>2 DEF EventKinds, Events!Entries
<1> HIDE DEF s, e
<1>4. ev_eventBuf' \in [0..EVENT_COUNT - 1 -> Events!Entries]
  BY <1>1, <1>2, <1>3, FieldKinds
<1>5. /\ ev_read' \in [Events!Contexts -> Nat]
      /\ ev_pc' \in [Events!Contexts -> {"idle", "text", "count"}]
  BY <1>1 DEF EventKinds
<1>6. ev_updating' => Events!Idle("task")'
  BY <1>1 DEF EventKinds, Events!Idle, Events!Contexts
<1> QED BY <1>1, <1>4, <1>5, <1>6 DEF EventKinds

LEMMA KindsNext ==
  ASSUME EventKinds, [Events!Next]_(Events!vars)
  PROVE  EventKinds'
<1>1. ASSUME NEW c \in Events!Contexts, Events!Count(c) PROVE EventKinds'
  <2>1. /\ ev_pc' = [ev_pc EXCEPT ![c] = "idle"] /\ ev_eventWrI' = ev_read[c] + 1
        /\ UNCHANGED <<ev_eventBuf, ev_eventRdI, ev_eventIndex, ev_entry, ev_read, ev_rows, ev_lost,
                       ev_updating, ev_made, ev_dropped>>
    BY <1>1 DEF Events!Count, Events!Goto, Events!reader, Events!Counted
  <2>2. /\ ev_pc' \in [Events!Contexts -> {"idle", "text", "count"}] /\ ev_eventWrI' \in Nat
    BY <1>1, <2>1 DEF EventKinds
  <2>3. ev_updating' => Events!Idle("task")'
    BY <2>1 DEF EventKinds, Events!Idle, Events!Contexts
  <2> QED BY <2>1, <2>2, <2>3 DEF EventKinds
<1>2. CASE Events!WriteEventEntry
  <2>1. /\ ev_rows' \in {ev_rows, Append(ev_rows, ev_eventBuf[Events!Slot(ev_eventRdI)])}
        /\ ev_lost' \in {ev_lost, ev_lost + 1} /\ ev_eventRdI' = ev_eventRdI + 1
        /\ UNCHANGED <<ev_eventBuf, ev_eventWrI, ev_eventIndex, ev_entry, ev_read, ev_pc,
                       ev_updating, ev_made, ev_dropped>>
    BY <1>2 DEF Events!WriteEventEntry, Events!callers
  <2>2. ev_eventBuf[Events!Slot(ev_eventRdI)] \in Events!Entries
    BY EventBounds DEF EventKinds
  <2>3. ev_eventRdI' \in Nat /\ ev_lost' \in Nat
    BY <2>1 DEF EventKinds
  <2>4. ev_rows' \in Seq(Events!Entries)
    <3>1. ev_rows \in Seq(Events!Entries)
      BY DEF EventKinds
    <3>2. Append(ev_rows, ev_eventBuf[Events!Slot(ev_eventRdI)]) \in Seq(Events!Entries)
      BY <2>2, <3>1, AppendProperties
    <3> QED BY <2>1, <3>1, <3>2
  <2> QED BY <2>1, <2>3, <2>4 DEF EventKinds, Events!Idle
<1>3. CASE Events!UpdateBegins
  BY <1>3 DEF Events!UpdateBegins, EventKinds, Events!Idle, Events!ring, Events!callers
<1>4. CASE \/ Events!FS_Log_Timer \/ Events!UpdateEnds \/ Events!Session
           \/ UNCHANGED Events!vars
  BY <1>4 DEF Events!FS_Log_Timer, Events!UpdateEnds, Events!Session, EventKinds, Events!Idle, Events!ring,
              Events!callers, Events!reader, Events!vars
<1> QED BY <1>1, <1>2, <1>3, <1>4, ClaimKinds, TextKinds DEF Events!Next

(* The four parts, for the calls that were never inside one another. *)
EventParts == CallInv /\ WaitingInv /\ FileInv /\ IndexInv

LEMMA EventNumbers ==
  ASSUME EventKinds
  PROVE  /\ ev_eventRdI \in Nat /\ ev_eventWrI \in Nat /\ ev_eventIndex \in Nat
         /\ ev_made \in Nat /\ ev_dropped \in Nat /\ Gone \in Nat
         /\ \A i \in Nat : /\ InSlot(i) \in Events!Entries
                           /\ InSlot(i).time \in Nat /\ InSlot(i).text \in Nat
         /\ \A n \in DOMAIN ev_rows : ev_rows[n].time \in Nat /\ ev_rows[n].text \in Nat
         /\ EVENT_COUNT \in Nat \ {0} /\ Newest \in Int
<1>1. Events!Events \subseteq Nat
  BY EventBounds DEF Events!Events
<1>2. \A e \in Events!Entries : e.time \in Nat /\ e.text \in Nat
  BY <1>1 DEF Events!Entries
<1>3. \A i \in Nat : InSlot(i) \in Events!Entries
  BY EventBounds DEF EventKinds, InSlot
<1>4. \A n \in DOMAIN ev_rows : ev_rows[n] \in Events!Entries
  BY DEF EventKinds
<1>5. ev_made \in Nat /\ Gone \in Nat
  BY <1>1 DEF EventKinds, Gone
<1>6. Newest \in Int
  BY <1>5 DEF Newest
<1>7. /\ \A i \in Nat : InSlot(i).time \in Nat /\ InSlot(i).text \in Nat
      /\ \A n \in DOMAIN ev_rows : ev_rows[n].time \in Nat /\ ev_rows[n].text \in Nat
  BY <1>2, <1>3, <1>4
<1> QED BY <1>3, <1>5, <1>6, <1>7, EventBounds DEF EventKinds

(* What is older stays older. *)
LEMMA StaysOlder ==
  ASSUME Newest \in Int, Newest' \in Int, Newest <= Newest'
  PROVE  \A e \in Events!Entries : Older(e) => Older(e)'
<1>1. ASSUME NEW e \in Events!Entries PROVE e.text \in Int
  BY EventBounds DEF Events!Entries, Events!Events
<1> QED BY <1>1 DEF Older

LEMMA EntriesOlder ==
  ASSUME EventKinds, Newest \in Int, Newest' \in Int, Newest <= Newest'
  PROVE  /\ \A i \in Nat : \A e : e = InSlot(i) /\ Older(e) => Older(e)'
         /\ \A n \in DOMAIN ev_rows : \A e : e = ev_rows[n] /\ Older(e) => Older(e)'
<1>1. \A n \in DOMAIN ev_rows : ev_rows[n] \in Events!Entries
  BY DEF EventKinds
<1> QED BY <1>1, EventNumbers, StaysOlder

LEMMA WaitingStays ==
  ASSUME EventKinds, WaitingInv, UNCHANGED <<ev_eventRdI, ev_eventWrI, ev_rows, ev_lost>>,
         Newest \in Int, Newest' \in Int, Newest <= Newest',
         \A i \in Nat : ev_eventRdI <= i /\ i < ev_eventWrI => InSlot(i)' = InSlot(i)
  PROVE  WaitingInv'
<1> SUFFICES ASSUME NEW i \in Nat, ev_eventRdI <= i, i < ev_eventWrI
             PROVE  /\ Older(InSlot(i))'
                    /\ \A j \in Nat : i < j /\ j < ev_eventWrI =>
                         InSlot(i)'.text < InSlot(j)'.text
                    /\ \A n \in DOMAIN ev_rows : ev_rows[n].text < InSlot(i)'.text
  BY DEF WaitingInv
<1>1. /\ Older(InSlot(i)) /\ InSlot(i)' = InSlot(i)
      /\ \A j \in Nat : i < j /\ j < ev_eventWrI => InSlot(i).text < InSlot(j).text
      /\ \A n \in DOMAIN ev_rows : ev_rows[n].text < InSlot(i).text
  BY DEF WaitingInv
<1>2. Older(InSlot(i))'
  BY <1>1, EntriesOlder
<1>3. \A j \in Nat : i < j /\ j < ev_eventWrI => InSlot(j)' = InSlot(j)
  <2> SUFFICES ASSUME NEW j \in Nat, i < j, j < ev_eventWrI PROVE InSlot(j)' = InSlot(j)
    OBVIOUS
  <2>1. ev_eventRdI <= j
    BY EventNumbers
  <2> QED BY <2>1
<1> QED BY <1>1, <1>2, <1>3

(* A call begins: it is the only one, and what waits or is written is older. *)
LEMMA ClaimEvents ==
  ASSUME EventKinds, EventParts, NEW c \in Events!Contexts, Events!Claim(c), ~ev_nested'
  PROVE  EventParts'
<1>1. /\ ev_made' = ev_made + 1
      /\ UNCHANGED <<ev_eventRdI, ev_eventWrI, ev_eventIndex, ev_rows, ev_lost, ev_updating>>
      /\ \A o \in Events!Contexts : Events!Idle(o)
  BY DEF Events!Claim, Events!reader
<1>2. ~Busy
  BY <1>1 DEF Busy
<1>3. CASE ~Events!HasRoom
  <2>1. ev_dropped' = ev_dropped + 1 /\ UNCHANGED <<ev_eventBuf, ev_pc, ev_entry>>
    BY <1>3 DEF Events!Claim
  <2>2. /\ \A o \in Events!Contexts : Events!Idle(o)'
        /\ ~Busy' /\ \A i : InSlot(i)' = InSlot(i)
    BY <1>1, <2>1 DEF Events!Idle, Busy, InSlot, Events!Slot
  <2>3. CallInv'
    BY <2>2 DEF CallInv
  <2>4. Newest' = Newest + 1 /\ Newest \in Int
    BY <1>1, <1>2, <2>2, EventNumbers DEF Newest
  <2>5. WaitingInv' /\ FileInv'
    BY <1>1, <2>2, <2>4, EntriesOlder DEF EventParts, WaitingInv, FileInv
  <2>6. IndexInv'
    <3>1. /\ ev_eventRdI <= ev_eventWrI /\ ev_eventWrI <= ev_eventRdI + EVENT_COUNT
          /\ ev_updating => ev_eventRdI <= ev_eventIndex /\ ev_eventIndex <= ev_eventWrI
          /\ Newest = Gone + (ev_eventWrI - ev_eventRdI) + ev_dropped
      BY DEF EventParts, IndexInv
    <3>2. /\ ev_eventRdI \in Nat /\ ev_eventWrI \in Nat
          /\ ev_dropped \in Nat /\ Gone \in Nat
      BY EventNumbers
    <3>3. UNCHANGED <<ev_eventRdI, ev_eventWrI, Gone>>
      BY <1>1 DEF Gone
    <3>4. Newest' = Gone' + (ev_eventWrI' - ev_eventRdI') + ev_dropped'
      BY <2>1, <2>4, <3>1, <3>2, <3>3
    <3> QED BY <1>1, <3>1, <3>4 DEF IndexInv
  <2> QED BY <2>3, <2>5, <2>6 DEF EventParts
<1>4. CASE Events!HasRoom
  <2> DEFINE s == Events!Slot(ev_eventWrI)
             e == [ev_eventBuf[s] EXCEPT !.time = ev_made']
  <2>1. /\ ev_eventBuf' = [ev_eventBuf EXCEPT ![s] = e]
        /\ ev_entry' = [ev_entry EXCEPT ![c] = [slot |-> s, event |-> ev_made']]
        /\ ev_pc' = [ev_pc EXCEPT ![c] = "text"] /\ ev_dropped' = ev_dropped
    BY <1>4 DEF Events!Claim, Events!Goto
  <2>2. ev_eventWrI < ev_eventRdI + EVENT_COUNT
    BY <1>4 DEF Events!HasRoom
  <2>3. /\ ev_eventBuf'[s] = e /\ e.time = ev_made + 1
    <3>1. ev_eventBuf \in [0..EVENT_COUNT - 1 -> Events!Entries] /\ s \in 0..EVENT_COUNT - 1
      BY EventNumbers, EventBounds DEF EventKinds
    <3>2. ev_made' \in Events!Events
      BY ClaimKinds DEF EventKinds
    <3>3. ev_eventBuf[s] \in Events!Entries
      BY <3>1
    <3>4. e.time = ev_made'
      BY <3>2, <3>3, TimeKept
    <3> QED BY <1>1, <2>1, <3>1, <3>4
  <2> HIDE DEF s, e
  <2>4. \A i \in Nat : ev_eventRdI <= i /\ i < ev_eventWrI => InSlot(i)' = InSlot(i)
    BY <2>1, <2>2, OthersKept DEF s, InSlot, Events!Slot
  <2>5. /\ ev_pc'[c] = "text" /\ ev_entry'[c] = [slot |-> s, event |-> ev_made + 1]
        /\ \A o \in Events!Contexts : ~Events!Idle(o)' => o = c
    BY <1>1, <2>1 DEF EventKinds, Events!Idle
  <2>6. Busy'
    BY <2>5 DEF Busy, Events!Idle
  <2>7. InSlot(ev_eventWrI)' = e /\ Events!Slot(ev_eventWrI)' = s
    BY <1>1, <2>3 DEF InSlot, s, Events!Slot
  <2>8. CallInv'
    BY <1>1, <2>2, <2>3, <2>5, <2>7 DEF CallInv
  <2>9. Newest' = Newest /\ Newest \in Int
    BY <1>1, <1>2, <2>6, EventNumbers DEF Newest
  <2>10. WaitingInv'
    BY <1>1, <2>4, <2>9, WaitingStays DEF EventParts
  <2>11. FileInv'
    BY <1>1, <2>9, EntriesOlder DEF EventParts, FileInv
  <2>12. IndexInv'
    BY <1>1, <2>1, <2>9 DEF EventParts, IndexInv, Gone
  <2> QED BY <2>8, <2>10, <2>11, <2>12 DEF EventParts
<1> QED BY <1>3, <1>4

(* It goes on in the slot it began with. *)
LEMMA TextEvents ==
  ASSUME EventKinds, EventParts, NEW c \in Events!Contexts, Events!Text(c)
  PROVE  EventParts'
<1> DEFINE s == Events!Slot(ev_eventWrI)
           e == [ev_eventBuf[s] EXCEPT !.text = ev_made]
<1>1. /\ ev_pc[c] = "text" /\ ev_pc' = [ev_pc EXCEPT ![c] = "count"]
      /\ ev_read' = [ev_read EXCEPT ![c] = ev_eventWrI]
      /\ UNCHANGED <<ev_eventRdI, ev_eventWrI, ev_eventIndex, ev_entry, ev_rows, ev_lost, ev_updating,
                     ev_made, ev_dropped>>
      /\ ev_eventBuf' = [ev_eventBuf EXCEPT ![ev_entry[c].slot].text = ev_entry[c].event]
  BY DEF Events!Text, Events!Goto, Events!reader
<1>2. /\ ~Events!Idle(c) /\ \A d \in Events!Contexts : ~Events!Idle(d) => d = c
      /\ ev_entry[c].event = ev_made /\ ev_entry[c].slot = s
      /\ ev_eventWrI < ev_eventRdI + EVENT_COUNT /\ ev_eventBuf[s].time = ev_made
  BY <1>1 DEF EventParts, CallInv, Events!Idle, InSlot
<1>3. ev_eventBuf' = [ev_eventBuf EXCEPT ![s] = e]
  BY <1>1, <1>2
<1>4. ev_eventBuf'[s] = e /\ e.time = ev_made /\ e.text = ev_made
  <2>1. s \in 0..EVENT_COUNT - 1 /\ ev_eventBuf[s] \in Events!Entries
    BY EventBounds DEF EventKinds
  <2>2. e.time = ev_eventBuf[s].time /\ e.text = ev_made
    BY <2>1 DEF Events!Entries
  <2>3. ev_eventBuf'[s] = e
    BY <1>3, <2>1 DEF EventKinds
  <2> QED BY <1>2, <2>2, <2>3
<1> HIDE DEF s, e
<1>5. \A i \in Nat : ev_eventRdI <= i /\ i < ev_eventWrI => InSlot(i)' = InSlot(i)
  BY <1>2, <1>3, OthersKept DEF s, InSlot, Events!Slot
<1>6. /\ ev_pc'[c] = "count" /\ ev_read'[c] = ev_eventWrI
      /\ \A o \in Events!Contexts : ~Events!Idle(o)' => o = c
  BY <1>1, <1>2 DEF EventKinds, Events!Idle
<1>7. Busy /\ Busy'
  BY <1>2, <1>6 DEF Busy, Events!Idle
<1>8. InSlot(ev_eventWrI)' = e /\ Events!Slot(ev_eventWrI)' = s
  BY <1>1, <1>4 DEF InSlot, s, Events!Slot
<1>9. CallInv'
  BY <1>1, <1>2, <1>4, <1>6, <1>8 DEF CallInv
<1>10. WaitingInv' /\ FileInv' /\ IndexInv'
  <2>1. Newest' = Newest /\ Newest \in Int
    BY <1>1, <1>7, EventNumbers DEF Newest
  <2>2. WaitingInv'
    BY <1>1, <1>5, <2>1, WaitingStays DEF EventParts
  <2>3. FileInv'
    BY <1>1, <2>1, EntriesOlder DEF EventParts, FileInv
  <2>4. IndexInv'
    BY <1>1, <2>1 DEF EventParts, IndexInv, Gone
  <2> QED BY <2>2, <2>3, <2>4
<1> QED BY <1>9, <1>10 DEF EventParts

(* It ends: its event waits behind the others. *)
LEMMA CountEvents ==
  ASSUME EventKinds, EventParts, NEW c \in Events!Contexts, Events!Count(c)
  PROVE  EventParts'
<1>1. /\ ev_pc[c] = "count" /\ ev_pc' = [ev_pc EXCEPT ![c] = "idle"]
      /\ ev_eventWrI' = ev_read[c] + 1
      /\ UNCHANGED <<ev_eventBuf, ev_eventRdI, ev_eventIndex, ev_rows, ev_lost, ev_updating, ev_made,
                     ev_dropped>>
  BY DEF Events!Count, Events!Goto, Events!Counted, Events!reader
<1>2. /\ ~Events!Idle(c) /\ \A d \in Events!Contexts : ~Events!Idle(d) => d = c
      /\ ev_eventWrI < ev_eventRdI + EVENT_COUNT /\ ev_read[c] = ev_eventWrI
      /\ InSlot(ev_eventWrI).time = ev_made /\ InSlot(ev_eventWrI).text = ev_made
  BY <1>1 DEF EventParts, CallInv, Events!Idle
<1>3. \A o \in Events!Contexts : Events!Idle(o)'
  BY <1>1, <1>2 DEF EventKinds, Events!Idle
<1>4. Busy /\ ~Busy'
  BY <1>2, <1>3 DEF Busy
<1>5. ev_eventWrI' = ev_eventWrI + 1 /\ \A i : InSlot(i)' = InSlot(i)
  BY <1>1, <1>2 DEF InSlot, Events!Slot
<1>6. CallInv'
  BY <1>3 DEF CallInv
<1>7. Newest' = ev_made /\ Newest = ev_made - 1 /\ ev_made \in Int
  BY <1>1, <1>4, EventNumbers DEF Newest
<1>8. FileInv'
  BY <1>1, <1>7, EntriesOlder DEF EventParts, FileInv
<1>9. WaitingInv'
  <2> SUFFICES ASSUME NEW i \in Nat, ev_eventRdI <= i, i < ev_eventWrI + 1
               PROVE  /\ Older(InSlot(i))'
                      /\ \A j \in Nat : i < j /\ j < ev_eventWrI + 1 =>
                           InSlot(i).text < InSlot(j).text
                      /\ \A n \in DOMAIN ev_rows : ev_rows[n].text < InSlot(i).text
    BY <1>1, <1>5 DEF WaitingInv
  <2>1. CASE i < ev_eventWrI
    <3>1. /\ Older(InSlot(i))
          /\ \A j \in Nat : i < j /\ j < ev_eventWrI => InSlot(i).text < InSlot(j).text
          /\ \A n \in DOMAIN ev_rows : ev_rows[n].text < InSlot(i).text
      BY <2>1 DEF EventParts, WaitingInv
    <3>2. InSlot(i).text < ev_made
      BY <1>7, <3>1, EventNumbers DEF Older
    <3>3. \A j \in Nat : i < j /\ j < ev_eventWrI + 1 => j < ev_eventWrI \/ j = ev_eventWrI
      BY EventNumbers
    <3>4. Older(InSlot(i))'
      BY <1>5, <1>7, <3>1, EntriesOlder
    <3> QED BY <1>2, <3>1, <3>2, <3>3, <3>4
  <2>2. CASE i = ev_eventWrI
    <3>1. \A n \in DOMAIN ev_rows : ev_rows[n].text < ev_made
      BY <1>7, EventNumbers DEF EventParts, FileInv, Older
    <3>2. Older(InSlot(i))'
      BY <1>2, <1>5, <1>7, <2>2 DEF Older
    <3>3. \A j \in Nat : ~(i < j /\ j < ev_eventWrI + 1)
      BY <2>2, EventNumbers
    <3> QED BY <1>2, <2>2, <3>1, <3>2, <3>3
  <2> QED BY <2>1, <2>2, EventNumbers
<1>10. IndexInv'
  <2>1. /\ ev_eventRdI \in Nat /\ ev_eventWrI \in Nat /\ ev_eventIndex \in Nat
        /\ Gone \in Nat /\ ev_dropped \in Nat /\ EVENT_COUNT \in Nat
    BY EventNumbers
  <2>2. /\ ev_eventRdI <= ev_eventWrI
        /\ ev_updating => ev_eventRdI <= ev_eventIndex /\ ev_eventIndex <= ev_eventWrI
        /\ Newest = Gone + (ev_eventWrI - ev_eventRdI) + ev_dropped
    BY DEF EventParts, IndexInv
  <2>3. /\ ev_eventRdI <= ev_eventWrI + 1 /\ ev_eventWrI + 1 <= ev_eventRdI + EVENT_COUNT
        /\ ev_updating => ev_eventRdI <= ev_eventIndex /\ ev_eventIndex <= ev_eventWrI + 1
    BY <1>2, <2>1, <2>2
  <2>4. ev_made = Gone + ((ev_eventWrI + 1) - ev_eventRdI) + ev_dropped
    BY <1>7, <2>1, <2>2
  <2>5. Newest' = Gone' + (ev_eventWrI' - ev_eventRdI') + ev_dropped'
    <3>1. UNCHANGED <<Gone, ev_eventRdI, ev_dropped>>
      BY <1>1 DEF Gone
    <3>2. ev_eventWrI' = ev_eventWrI + 1 /\ Newest' = ev_made
      BY <1>5, <1>7
    <3> QED BY <3>1, <3>2, <2>4
  <2>6. /\ ev_eventRdI' <= ev_eventWrI' /\ ev_eventWrI' <= ev_eventRdI' + EVENT_COUNT
        /\ ev_updating' => ev_eventRdI' <= ev_eventIndex' /\ ev_eventIndex' <= ev_eventWrI'
    BY <1>1, <1>5, <2>3
  <2> QED BY <2>5, <2>6 DEF IndexInv
<1> QED BY <1>6, <1>8, <1>9, <1>10 DEF EventParts

(* The log task takes the oldest event out of the ring, and into the file if *)
(* it is open.                                                               *)
LEMMA EntryEvents ==
  ASSUME EventKinds, EventParts, Events!WriteEventEntry
  PROVE  EventParts'
<1> DEFINE r == ev_eventRdI
           n == Len(ev_rows)
<1>1. /\ ev_eventRdI' = r + 1
      /\ UNCHANGED <<ev_eventBuf, ev_eventWrI, ev_eventIndex, ev_pc, ev_entry, ev_read,
                     ev_updating, ev_made, ev_dropped>>
      /\ ev_updating /\ r # ev_eventIndex /\ Events!Idle("low") /\ Events!Idle("high")
  BY DEF Events!WriteEventEntry, Events!callers, Events!Steps, Events!Above, InSlot
<1>2. \A c \in Events!Contexts : Events!Idle(c) /\ Events!Idle(c)'
  BY <1>1 DEF EventKinds, Events!Contexts, Events!Idle
<1>3. ~Busy /\ ~Busy' /\ CallInv'
  BY <1>2 DEF Busy, CallInv
<1>4. Newest' = Newest /\ Newest \in Int /\ \A i : InSlot(i)' = InSlot(i)
  BY <1>1, <1>3, EventNumbers DEF Newest, InSlot, Events!Slot
<1>5. /\ r \in Nat /\ ev_eventWrI \in Nat /\ ev_eventIndex \in Nat /\ n \in Nat
      /\ ev_dropped \in Nat /\ EVENT_COUNT \in Nat /\ ev_lost \in Nat
      /\ r < ev_eventIndex /\ ev_eventIndex <= ev_eventWrI
  <2>1. /\ r \in Nat /\ ev_eventWrI \in Nat /\ ev_eventIndex \in Nat
        /\ ev_dropped \in Nat /\ EVENT_COUNT \in Nat
    BY EventNumbers
  <2>2. ev_rows \in Seq(Events!Entries) /\ ev_lost \in Nat
    BY DEF EventKinds
  <2>3. n \in Nat
    BY <2>2, LenProperties
  <2>4. r <= ev_eventIndex /\ ev_eventIndex <= ev_eventWrI
    BY <1>1 DEF EventParts, IndexInv
  <2>5. r < ev_eventIndex
    BY <1>1, <2>1, <2>4
  <2> HIDE DEF r, n
  <2> QED BY <2>1, <2>2, <2>3, <2>4, <2>5
<1>6. /\ DOMAIN ev_rows = 1..n /\ DOMAIN ev_rows' \in {1..n, 1..(n + 1)}
      /\ n + 1 \in DOMAIN ev_rows' => ev_rows'[n + 1] = InSlot(r)
      /\ \A m \in 1..n : ev_rows'[m] = ev_rows[m]
      /\ Gone = n + ev_lost /\ Gone' = n + 1 + ev_lost
  <2>1. CASE ev_rows' = Append(ev_rows, InSlot(r)) /\ ev_lost' = ev_lost
    BY <1>5, <2>1, EventNumbers DEF EventKinds, Gone
  <2>2. CASE ev_rows' = ev_rows /\ ev_lost' = ev_lost + 1
    BY <1>5, <2>2, EventNumbers DEF EventKinds, Gone
  <2> QED BY <2>1, <2>2 DEF Events!WriteEventEntry, InSlot
<1> HIDE DEF n
<1>7. /\ Older(InSlot(r)) /\ \A m \in 1..n : ev_rows[m].text < InSlot(r).text
      /\ \A j \in Nat : r < j /\ j < ev_eventWrI => InSlot(r).text < InSlot(j).text
  <2>1. r <= r /\ r < ev_eventWrI
    BY <1>5
  <2> QED BY <1>5, <1>6, <2>1 DEF EventParts, WaitingInv
<1>8. FileInv'
  <2>1. \A m \in 1..n : Older(ev_rows[m])
    BY <1>6 DEF EventParts, FileInv
  <2>2. \A m \in DOMAIN ev_rows' : m \in 1..n \/ (m = n + 1 /\ ev_rows'[m] = InSlot(r))
    BY <1>5, <1>6
  <2>3. \A m \in DOMAIN ev_rows' : Older(ev_rows[m])'
    BY <1>4, <1>6, <1>7, <2>1, <2>2 DEF Older
  <2>4. \A k, m \in 1..n : k < m => ev_rows[k].text < ev_rows[m].text
    BY <1>6 DEF EventParts, FileInv
  <2>5. \A k, m \in DOMAIN ev_rows' : k < m => k \in 1..n
    BY <1>5, <2>2
  <2>6. \A k, m \in DOMAIN ev_rows' : k < m => ev_rows'[k].text < ev_rows'[m].text
    BY <1>6, <1>7, <2>2, <2>4, <2>5
  <2> QED BY <2>3, <2>6 DEF FileInv
<1>9. WaitingInv'
  <2> SUFFICES ASSUME NEW i \in Nat, r + 1 <= i, i < ev_eventWrI
               PROVE  /\ Older(InSlot(i))'
                      /\ \A j \in Nat : i < j /\ j < ev_eventWrI =>
                           InSlot(i).text < InSlot(j).text
                      /\ \A m \in DOMAIN ev_rows' : ev_rows'[m].text < InSlot(i).text
    BY <1>1, <1>4, <1>6 DEF WaitingInv
  <2>1. r <= i /\ r < i
    BY <1>5
  <2>2. /\ Older(InSlot(i)) /\ \A m \in 1..n : ev_rows[m].text < InSlot(i).text
        /\ \A j \in Nat : i < j /\ j < ev_eventWrI => InSlot(i).text < InSlot(j).text
    BY <1>6, <2>1 DEF EventParts, WaitingInv
  <2>3. \A m \in DOMAIN ev_rows' : m \in 1..n \/ m = n + 1
    BY <1>5, <1>6
  <2>4. \A m \in DOMAIN ev_rows' : ev_rows'[m].text < InSlot(i).text
    BY <1>6, <1>7, <2>1, <2>2, <2>3
  <2>5. Older(InSlot(i))'
    BY <1>4, <2>2 DEF Older
  <2> QED BY <2>2, <2>4, <2>5
<1>10. IndexInv'
  <2>1. /\ Newest = n + ev_lost + (ev_eventWrI - r) + ev_dropped
        /\ ev_eventWrI <= r + EVENT_COUNT
    BY <1>6 DEF EventParts, IndexInv
  <2>2. /\ r + 1 <= ev_eventWrI /\ ev_eventWrI <= (r + 1) + EVENT_COUNT
        /\ r + 1 <= ev_eventIndex
    BY <1>5, <2>1
  <2>3. Newest = (n + 1 + ev_lost) + (ev_eventWrI - (r + 1)) + ev_dropped
    BY <1>5, <2>1
  <2>4. Newest' = Gone' + (ev_eventWrI' - ev_eventRdI') + ev_dropped'
    BY <1>1, <1>4, <1>6, <2>3
  <2>5. /\ ev_eventRdI' <= ev_eventWrI' /\ ev_eventWrI' <= ev_eventRdI' + EVENT_COUNT
        /\ ev_eventRdI' <= ev_eventIndex' /\ ev_eventIndex' <= ev_eventWrI'
    BY <1>1, <1>5, <2>2
  <2> QED BY <2>4, <2>5 DEF IndexInv
<1> QED BY <1>3, <1>8, <1>9, <1>10 DEF EventParts

(* The others leave the events where they are. *)
LEMMA QuietEvents ==
  ASSUME EventKinds, EventParts,
         \/ Events!FS_Log_Timer \/ Events!UpdateBegins \/ Events!UpdateEnds
         \/ Events!Session \/ UNCHANGED Events!vars
  PROVE  EventParts'
<1>1. UNCHANGED <<ev_eventBuf, ev_eventRdI, ev_eventWrI, ev_pc, ev_entry, ev_read, ev_rows, ev_lost,
                  ev_made, ev_dropped>>
  BY DEF Events!FS_Log_Timer, Events!UpdateBegins, Events!UpdateEnds, Events!Session,
         Events!vars, Events!ring, Events!callers, Events!reader
<1>2. /\ (Busy' <=> Busy) /\ \A i : InSlot(i)' = InSlot(i)
      /\ \A c \in Events!Contexts : Events!Idle(c)' <=> Events!Idle(c)
      /\ Events!Slot(ev_eventWrI)' = Events!Slot(ev_eventWrI)
  BY <1>1 DEF Busy, InSlot, Events!Idle, Events!Slot
<1>3. Newest' = Newest /\ Newest \in Int
  BY <1>1, <1>2, EventNumbers DEF Newest
<1>4. CallInv'
  BY <1>1, <1>2 DEF EventParts, CallInv
<1>5. WaitingInv'
  BY <1>1, <1>2, <1>3, WaitingStays DEF EventParts
<1>6. FileInv'
  BY <1>1, <1>3, EntriesOlder DEF EventParts, FileInv
<1>7. \/ ev_updating' /\ ev_eventIndex' = ev_eventWrI
      \/ ~ev_updating'
      \/ ev_updating' /\ ev_updating /\ ev_eventIndex' = ev_eventIndex
  BY DEF Events!FS_Log_Timer, Events!UpdateBegins, Events!UpdateEnds, Events!Session,
         Events!vars, Events!reader
<1>8. ev_updating' => ev_eventRdI <= ev_eventIndex' /\ ev_eventIndex' <= ev_eventWrI
  BY <1>7, EventNumbers DEF EventParts, IndexInv
<1>9. IndexInv'
  BY <1>1, <1>3, <1>8 DEF EventParts, IndexInv, Gone
<1> QED BY <1>4, <1>5, <1>6, <1>9 DEF EventParts

LEMMA EventNext ==
  ASSUME EventInv, [Events!Next]_(Events!vars)
  PROVE  EventInv'
<1>1. EventKinds /\ EventKinds'
  BY KindsNext DEF EventInv
<1>2. SUFFICES ASSUME ~ev_nested' PROVE EventParts'
  BY <1>1 DEF EventInv, EventParts
<1>3. ~ev_nested
  BY <1>2 DEF Events!Next, Events!Claim, Events!Text, Events!Count, Events!FS_Log_Timer,
              Events!UpdateBegins, Events!WriteEventEntry, Events!UpdateEnds, Events!Session, Events!vars
<1>4. EventParts
  BY <1>3 DEF EventInv, EventParts
<1> QED BY <1>1, <1>2, <1>4, ClaimEvents, TextEvents, CountEvents, EntryEvents, QuietEvents
        DEF Events!Next

LEMMA EventBegins == Events!Init => EventInv
<1> SUFFICES ASSUME Events!Init PROVE EventInv
  OBVIOUS
<1>1. /\ ev_pc = [c \in Events!Contexts |-> "idle"] /\ ev_read = [c \in Events!Contexts |-> 0]
      /\ ev_entry = [c \in Events!Contexts |-> [slot |-> 0, event |-> 0]]
      /\ ev_eventBuf = [s \in 0..EVENT_COUNT - 1 |-> [time |-> 0, text |-> 0]]
      /\ ev_eventRdI = 0 /\ ev_eventWrI = 0 /\ ev_eventIndex = 0 /\ ~ev_updating
      /\ ev_rows = <<>> /\ ev_lost = 0 /\ ev_made = 0 /\ ev_dropped = 0
  BY DEF Events!Init
<1>2. 0 \in Events!Events /\ 0 \in 0..EVENT_COUNT - 1 /\ EVENT_COUNT \in Nat
  BY EventBounds DEF Events!Events
<1>3. /\ [time |-> 0, text |-> 0] \in Events!Entries
      /\ [slot |-> 0, event |-> 0] \in [slot : 0..EVENT_COUNT - 1, event : Events!Events]
      /\ <<>> \in Seq(Events!Entries)
  BY <1>2 DEF Events!Entries
<1>4. EventKinds
  BY <1>1, <1>2, <1>3 DEF EventKinds
<1>5. ~Busy /\ CallInv
  BY <1>1 DEF Busy, CallInv, Events!Idle
<1>6. WaitingInv /\ FileInv
  BY <1>1 DEF WaitingInv, FileInv
<1>7. IndexInv
  BY <1>1, <1>2, <1>5 DEF IndexInv, Newest, Gone
<1> QED BY <1>4, <1>5, <1>6, <1>7 DEF EventInv

(* If no call came inside another: every event that is in a file is there    *)
(* whole, once and in the order of the calls, and every event is in a file,  *)
(* in the ring, or counted as one that found the ring full or that was       *)
(* written by an update left over from before FS_Log_DeInit, when the file   *)
(* is closed (log.c:589-633, 1349-1379); for every size of the ring and any  *)
(* number of calls, from tasks and interrupts of two priorities.             *)
THEOREM EventsAlwaysKept == Events!Spec => []EventsKept
<1>1. EventInv => EventsKept
  <2> SUFFICES ASSUME EventInv PROVE EventsKept
    OBVIOUS
  <2>1. Events!EventsWhole
    BY DEF EventInv, FileInv, Older, Events!EventsWhole
  <2>2. ASSUME ~ev_nested
        PROVE  ev_made = Len(ev_rows) + ev_lost + (ev_eventWrI - ev_eventRdI) + ev_dropped
                 + (IF \A c \in Events!Contexts : Events!Idle(c) THEN 0 ELSE 1)
    <3>1. /\ Newest = Len(ev_rows) + ev_lost + (ev_eventWrI - ev_eventRdI) + ev_dropped
          /\ ev_made \in Nat
      BY <2>2, EventNumbers DEF EventInv, IndexInv, Gone
    <3>2. CASE Busy
      BY <3>1, <3>2 DEF Newest, Busy
    <3>3. CASE ~Busy
      BY <3>1, <3>3 DEF Newest, Busy
    <3> QED BY <3>2, <3>3
  <2> QED BY <2>1, <2>2 DEF Events!EventsAccounted, Events!EventsKept, EventsKept
<1> QED BY <1>1, EventBegins, EventNext, PTL DEF Events!Spec

(***************************************************************************)
(* ActiveLook                                                              *)
(***************************************************************************)
(* The display draws, or is to be ready once a command is answered.          *)
Drawn == {"SETUP", "CLEAR", "READY", "UPDATE"}
Drawing == al_s_state \in Drawn \/ al_call \in {"clear", "update"}

(* From a scan that found the glasses to the link there is one thing at a    *)
(* time that stands for the link to be: the event, the task, the command,    *)
(* the radio.                                                                *)
EventNames == {"scanned", "connected", "proc", "disconnected"}
Waits(event) == \E i \in 1..Len(al_events) : al_events[i] = event
FoundWaits == al_found /\ Len(al_events) > 0 /\ al_events[1] = "scanned"
Connects == FoundWaits \/ al_connTask \/ al_call = "connect" \/ al_radio = "connecting"

OneConnects ==
  /\ al_radio = "connecting" => al_call # "connect" /\ ~al_connTask /\ ~FoundWaits
  /\ al_call = "connect" => ~al_connTask /\ ~FoundWaits
  /\ al_connTask => ~FoundWaits

GlassesKinds ==
  /\ al_events \in Seq(EventNames) /\ al_link \in {"down", "up", "closing"}
  /\ al_connTask \in BOOLEAN /\ al_found \in BOOLEAN
  /\ \A i \in 1..Len(al_events) : i > 1 => al_events[i] # "scanned"

(* No link is made before the end of the last one was handled.               *)
LinkInv ==
  /\ Connects => al_link = "down" /\ ~Drawing
  /\ al_link = "down" /\ Drawing => Waits("disconnected")
  /\ al_link = "up" /\ Drawing => al_configured

TimerInv ==
  al_session /\ ~al_outlived /\ (al_s_state \in {"READY", "UPDATE"} \/ al_call = "update") =>
    al_timer = "running"

GlassesInv == GlassesKinds /\ OneConnects /\ LinkInv /\ TimerInv

(* Events are handled in their order; the one of a scan is never behind      *)
(* another.                                                                  *)
LEMMA EventsAdded ==
  ASSUME GlassesKinds, NEW t \in Seq(EventNames \ {"scanned"}), al_events' = al_events \o t,
         al_found' = al_found
  PROVE  /\ al_events' \in Seq(EventNames)
         /\ \A i \in 1..Len(al_events') : i > 1 => al_events'[i] # "scanned"
         /\ FoundWaits' => FoundWaits
         /\ \A e : Waits(e) => Waits(e)'
         /\ \A i \in 1..Len(t) : Waits(t[i])'
<1>1. /\ al_events \in Seq(EventNames) /\ t \in Seq(EventNames)
      /\ \A i \in 1..Len(al_events) : i > 1 => al_events[i] # "scanned"
  BY DEF GlassesKinds
<1>2. /\ al_events' \in Seq(EventNames) /\ Len(al_events') = Len(al_events) + Len(t)
      /\ Len(al_events) \in Nat /\ Len(t) \in Nat
      /\ \A i \in 1..Len(al_events') :
           al_events'[i] = IF i <= Len(al_events) THEN al_events[i] ELSE t[i - Len(al_events)]
  BY <1>1, ConcatProperties
<1>3. \A i \in 1..Len(al_events) : i \in 1..Len(al_events') /\ al_events'[i] = al_events[i]
  BY <1>2
<1>4. \A i \in 1..Len(t) : /\ i + Len(al_events) \in 1..Len(al_events')
                           /\ al_events'[i + Len(al_events)] = t[i]
  BY <1>2
<1>5. \A i \in 1..Len(t) : t[i] # "scanned"
  OBVIOUS
<1>6. \A i \in 1..Len(al_events') : \/ i \in 1..Len(al_events)
                                    \/ /\ i - Len(al_events) \in 1..Len(t)
                                       /\ al_events'[i] = t[i - Len(al_events)]
  BY <1>2
<1>7. \A i \in 1..Len(al_events') : i > 1 => al_events'[i] # "scanned"
  BY <1>1, <1>3, <1>5, <1>6
<1>8. FoundWaits' => FoundWaits
  <2> SUFFICES ASSUME FoundWaits' PROVE FoundWaits
    OBVIOUS
  <2>1. al_found /\ 1 \in 1..Len(al_events') /\ al_events'[1] = "scanned"
    BY <1>2 DEF FoundWaits
  <2>2. 1 \in 1..Len(al_events) /\ al_events[1] = "scanned"
    BY <1>3, <1>5, <1>6, <2>1
  <2> QED BY <1>2, <2>1, <2>2 DEF FoundWaits
<1>9. ASSUME NEW e, Waits(e) PROVE Waits(e)'
  BY <1>3, <1>9 DEF Waits
<1>10. ASSUME NEW i \in 1..Len(t) PROVE Waits(t[i])'
  BY <1>4 DEF Waits
<1> QED BY <1>2, <1>7, <1>8, <1>9, <1>10

LEMMA EventHandled ==
  ASSUME GlassesKinds, NEW event, Glasses!Handle(event)
  PROVE  /\ al_events' \in Seq(EventNames)
         /\ \A i \in 1..Len(al_events') : al_events'[i] # "scanned"
         /\ ~FoundWaits'
         /\ \A e : Waits(e) /\ e # event => Waits(e)'
         /\ event = "scanned" /\ al_found => FoundWaits
         /\ al_call = "none"
         /\ UNCHANGED <<al_session, al_found, al_radio, al_link, al_configured, al_outlived>>
<1>1. /\ al_events # <<>> /\ Head(al_events) = event /\ al_events' = Tail(al_events)
      /\ al_call = "none"
      /\ UNCHANGED <<al_session, al_found, al_radio, al_link, al_configured, al_outlived>>
  BY DEF Glasses!Handle, Glasses!Free, Glasses!bounds, Glasses!history
<1>2. /\ al_events \in Seq(EventNames)
      /\ \A i \in 1..Len(al_events) : i > 1 => al_events[i] # "scanned"
  BY DEF GlassesKinds
<1>3. /\ al_events' \in Seq(EventNames) /\ Len(al_events') = Len(al_events) - 1
      /\ Len(al_events) \in Nat /\ Len(al_events) > 0 /\ event = al_events[1]
      /\ \A i \in 1..Len(al_events') : al_events'[i] = al_events[i + 1]
  BY <1>1, <1>2, HeadTailProperties, EmptySeq
<1>4. \A i \in 1..Len(al_events') : i + 1 \in 1..Len(al_events) /\ i + 1 > 1
  BY <1>3
<1>5. \A i \in 1..Len(al_events') : al_events'[i] # "scanned"
  BY <1>2, <1>3, <1>4
<1>6. ~FoundWaits'
  BY <1>3, <1>5 DEF FoundWaits
<1>7. ASSUME NEW e, Waits(e), e # event PROVE Waits(e)'
  <2>1. PICK i \in 1..Len(al_events) : al_events[i] = e
    BY <1>7 DEF Waits
  <2>2. i # 1
    BY <1>3, <1>7, <2>1
  <2>3. i - 1 \in 1..Len(al_events') /\ al_events'[i - 1] = e
    BY <1>3, <2>1, <2>2
  <2> QED BY <2>3 DEF Waits
<1>8. event = "scanned" /\ al_found => FoundWaits
  BY <1>3 DEF FoundWaits
<1> QED BY <1>1, <1>3, <1>5, <1>6, <1>7, <1>8

(* What the invariant speaks of. *)
GlassesState ==
  <<al_session, al_s_state, al_timer, al_connTask, al_found, al_call, al_radio, al_link,
    al_events, al_configured, al_outlived>>

LEMMA GlassesSame ==
  ASSUME GlassesInv, UNCHANGED GlassesState
  PROVE  GlassesInv'
BY DEF GlassesState, GlassesInv, GlassesKinds, OneConnects, LinkInv, TimerInv, Connects,
       FoundWaits, Drawing, Waits

(* The mode task: a session that begins without the glasses of the last one  *)
(* begins with nothing to draw.                                              *)
LEMMA ModeGlasses ==
  ASSUME GlassesInv, Glasses!Mode \/ Glasses!FS_ActiveLook_Timer
  PROVE  GlassesInv'
<1>1. UNCHANGED <<al_connTask, al_found, al_call, al_radio, al_link, al_events, al_configured>>
  BY DEF Glasses!Mode, Glasses!FS_ActiveLook_Init, Glasses!FS_ActiveLook_DeInit,
         Glasses!FS_ActiveLook_Timer, Glasses!tasks, Glasses!client, Glasses!air,
         Glasses!bounds, Glasses!history
<1>2. /\ GlassesKinds' /\ OneConnects' /\ (Connects' <=> Connects)
      /\ \A e : Waits(e)' <=> Waits(e)
  BY <1>1 DEF GlassesInv, GlassesKinds, OneConnects, Connects, FoundWaits, Waits
<1>3. Drawing' => Drawing
  BY <1>1 DEF Glasses!Mode, Glasses!FS_ActiveLook_Init, Glasses!FS_ActiveLook_DeInit,
         Glasses!FS_ActiveLook_Timer, Drawing, Drawn
<1>4. LinkInv'
  BY <1>1, <1>2, <1>3 DEF GlassesInv, LinkInv
<1>5. TimerInv'
  <2>1. CASE Glasses!FS_ActiveLook_Init
    <3>1. /\ al_s_state' = "INIT"
          /\ al_outlived' = (al_status # "IDLE" \/ al_link # "down" \/ al_events # <<>>)
      BY <2>1 DEF Glasses!FS_ActiveLook_Init
    <3>2. SUFFICES ASSUME ~al_outlived', al_call = "update" PROVE FALSE
      BY <1>1, <3>1 DEF TimerInv
    <3>3. al_link = "down" /\ al_events = <<>> /\ Drawing
      BY <3>1, <3>2 DEF Drawing
    <3>4. Waits("disconnected")
      BY <3>3 DEF GlassesInv, LinkInv
    <3> QED BY <3>3, <3>4 DEF Waits
  <2>2. CASE Glasses!FS_ActiveLook_DeInit
    BY <2>2 DEF Glasses!FS_ActiveLook_DeInit, TimerInv
  <2>3. CASE Glasses!FS_ActiveLook_Timer
    BY <2>3 DEF Glasses!FS_ActiveLook_Timer, GlassesInv, TimerInv, Glasses!history
  <2> QED BY <2>1, <2>2, <2>3 DEF Glasses!Mode
<1> QED BY <1>2, <1>4, <1>5 DEF GlassesInv

(* The tasks that give a command. *)
LEMMA RequestsGlasses ==
  ASSUME GlassesInv, Glasses!Requests
  PROVE  GlassesInv'
<1>1. /\ al_call = "none"
      /\ UNCHANGED <<al_session, al_s_state, al_timer, al_radio, al_link, al_events,
                     al_configured, al_outlived>>
  BY DEF Glasses!Requests, Glasses!ScanRequest, Glasses!ConnectRequest,
         Glasses!DisconnectRequest, Glasses!TaskBegins, Glasses!Free, Glasses!display,
         Glasses!air, Glasses!bounds, Glasses!history
<1>2. \A e : Waits(e)' <=> Waits(e)
  BY <1>1 DEF Waits
<1>3. CASE Glasses!ScanRequest
  <2>1. /\ al_call' \in {"none", "scan"} /\ al_connTask' = al_connTask
        /\ (al_found' = FALSE) \/ (al_found' = al_found)
    BY <1>1, <1>3 DEF Glasses!ScanRequest, Glasses!tasks
  <2>2. (FoundWaits' => FoundWaits) /\ (Connects' => Connects) /\ (Drawing' => Drawing)
    BY <1>1, <2>1 DEF FoundWaits, Connects, Drawing
  <2>3. GlassesKinds'
    <3>1. al_found' \in BOOLEAN
      BY <2>1 DEF GlassesInv, GlassesKinds
    <3> QED BY <1>1, <2>1, <3>1 DEF GlassesInv, GlassesKinds
  <2>4. OneConnects' /\ TimerInv'
    BY <1>1, <2>1, <2>2 DEF GlassesInv, OneConnects, TimerInv
  <2>5. LinkInv'
    BY <1>1, <1>2, <2>2 DEF GlassesInv, LinkInv
  <2> QED BY <2>3, <2>4, <2>5 DEF GlassesInv
<1>4. CASE Glasses!ConnectRequest
  <2>1. /\ al_call' \in {"none", "connect"} /\ al_connTask /\ al_connTask' = FALSE
        /\ al_found' = al_found
    BY <1>1, <1>4 DEF Glasses!ConnectRequest
  <2>2. FoundWaits' <=> FoundWaits
    BY <1>1, <2>1 DEF FoundWaits
  <2> QED BY <1>1, <1>2, <2>1, <2>2 DEF GlassesInv, GlassesKinds, OneConnects, LinkInv,
                                       TimerInv, Connects, Drawing
<1>5. CASE Glasses!DisconnectRequest
  <2>1. /\ al_call' \in {"none", "terminate"} /\ UNCHANGED <<al_connTask, al_found>>
    BY <1>1, <1>5 DEF Glasses!DisconnectRequest
  <2>2. FoundWaits' <=> FoundWaits
    BY <1>1, <2>1 DEF FoundWaits
  <2> QED BY <1>1, <1>2, <2>1, <2>2 DEF GlassesInv, GlassesKinds, OneConnects, LinkInv,
                                       TimerInv, Connects, Drawing
<1>6. CASE Glasses!TaskBegins
  <2>1. UNCHANGED <<al_connTask, al_found>>
    BY <1>6 DEF Glasses!TaskBegins, Glasses!tasks
  <2>2. \/ al_call' = "none"
        \/ al_s_state = "CFG_WRITE" /\ al_call' = "cfg"
        \/ al_s_state = "SETUP" /\ al_call' = "setup"
        \/ al_s_state = "CLEAR" /\ al_call' = "clear"
        \/ al_s_state = "UPDATE" /\ al_call' = "update"
    <3>1. DOMAIN Glasses!Writes = {"CFG_WRITE", "SETUP", "CLEAR", "UPDATE"}
      BY DEF Glasses!Writes
    <3>2. /\ Glasses!Writes["CFG_WRITE"] = "cfg" /\ Glasses!Writes["SETUP"] = "setup"
          /\ Glasses!Writes["CLEAR"] = "clear" /\ Glasses!Writes["UPDATE"] = "update"
      BY DEF Glasses!Writes
    <3>3. al_call' = IF al_s_state \in DOMAIN Glasses!Writes THEN Glasses!Writes[al_s_state]
                                                            ELSE al_call
      BY <1>6 DEF Glasses!TaskBegins
    <3> QED BY <1>1, <3>1, <3>2, <3>3
  <2>3. FoundWaits' <=> FoundWaits
    BY <1>1, <2>1 DEF FoundWaits
  <2>4. /\ Drawing' <=> Drawing
        /\ al_call' # "connect" /\ (al_call' = "update" => al_s_state = "UPDATE")
    BY <1>1, <2>2 DEF Drawing, Drawn
  <2> QED BY <1>1, <1>2, <2>1, <2>3, <2>4 DEF GlassesInv, GlassesKinds, OneConnects, LinkInv,
                                             TimerInv, Connects
<1> QED BY <1>3, <1>4, <1>5, <1>6 DEF Glasses!Requests

(* The answers of the radio. *)
LEMMA AnswersGlasses ==
  ASSUME GlassesInv,
         \/ Glasses!ScanAnswered \/ Glasses!ConnectAnswered \/ Glasses!TerminateAnswered
         \/ Glasses!DiscoverAnswered \/ Glasses!NotifyAnswered \/ Glasses!ReadAnswered
  PROVE  GlassesInv'
<1>1. /\ al_call \in {"scan", "connect", "terminate", "discover", "notify", "read"}
      /\ al_call' = "none"
      /\ UNCHANGED <<al_session, al_timer, al_connTask, al_found, al_events, al_configured,
                     al_outlived>>
  BY DEF Glasses!ScanAnswered, Glasses!ConnectAnswered, Glasses!TerminateAnswered,
         Glasses!DiscoverAnswered, Glasses!NotifyAnswered, Glasses!ReadAnswered,
         Glasses!Answered, Glasses!display, Glasses!tasks, Glasses!air, Glasses!bounds,
         Glasses!history
<1>2. (\A e : Waits(e)' <=> Waits(e)) /\ (FoundWaits' <=> FoundWaits)
  BY <1>1 DEF Waits, FoundWaits
<1>3. CASE al_call = "connect"
  <2>1. Glasses!ConnectAnswered
    BY <1>3 DEF Glasses!ScanAnswered, Glasses!TerminateAnswered, Glasses!DiscoverAnswered,
                Glasses!NotifyAnswered, Glasses!ReadAnswered, Glasses!Answered
  <2>2. /\ UNCHANGED <<al_s_state, al_link>> /\ al_radio' \in {al_radio, "connecting"}
    BY <2>1 DEF Glasses!ConnectAnswered, Glasses!display
  <2>3. Drawing' <=> Drawing
    BY <1>1, <1>3, <2>2 DEF Drawing
  <2> QED BY <1>1, <1>2, <1>3, <2>2, <2>3 DEF GlassesInv, GlassesKinds, OneConnects, LinkInv,
                                             TimerInv, Connects
<1>4. CASE al_call # "connect"
  <2>1. ~Glasses!ConnectAnswered
    BY <1>4 DEF Glasses!ConnectAnswered, Glasses!Answered
  <2>2. /\ al_radio' = al_radio \/ al_radio' = "scanning"
        /\ al_link' = al_link \/ (al_link = "up" /\ al_link' = "closing")
        /\ al_s_state' = al_s_state \/ al_s_state' = "CFG_WRITE"
    BY <2>1 DEF Glasses!ScanAnswered, Glasses!TerminateAnswered, Glasses!DiscoverAnswered,
                Glasses!NotifyAnswered, Glasses!ReadAnswered, Glasses!Complete,
                Glasses!display, Glasses!air
  <2>3. Drawing' => Drawing
    BY <1>1, <2>2 DEF Drawing, Drawn
  <2>4. Connects' => Connects
    BY <1>1, <1>2, <2>2 DEF Connects
  <2>5. LinkInv'
    BY <1>1, <1>2, <2>2, <2>3, <2>4 DEF GlassesInv, LinkInv
  <2>6. OneConnects'
    BY <1>1, <1>2, <2>2 DEF GlassesInv, OneConnects
  <2>7. TimerInv'
    BY <1>1, <2>2 DEF GlassesInv, TimerInv
  <2> QED BY <1>1, <2>2, <2>5, <2>6, <2>7 DEF GlassesInv, GlassesKinds
<1> QED BY <1>3, <1>4

(* The answers to what the display's task sent. *)
LEMMA TaskGlasses ==
  ASSUME GlassesInv, Glasses!TaskGoesOn
  PROVE  GlassesInv'
<1>1. UNCHANGED <<al_session, al_connTask, al_found, al_radio, al_link, al_events, al_outlived>>
  BY DEF Glasses!TaskGoesOn, Glasses!tasks, Glasses!air
<1>2. (\A e : Waits(e)' <=> Waits(e)) /\ (FoundWaits' <=> FoundWaits)
  BY <1>1 DEF Waits, FoundWaits
<1>3. ASSUME NEW command, NEW next, command \in {"cfg", "setup"}, next \in {"SETUP", "CLEAR"},
             Glasses!Written(command, next)
      PROVE  GlassesInv'
  <2>1. al_call = command /\ al_call' = "none" /\ al_timer' = al_timer
    BY <1>3 DEF Glasses!Written, Glasses!Answered
  <2>2. CASE al_link = "up" /\ al_s_state' = next /\ al_configured' = TRUE
    BY <1>1, <1>2, <1>3, <2>1, <2>2 DEF GlassesInv, GlassesKinds, OneConnects, LinkInv,
      TimerInv, Connects
  <2>3. CASE UNCHANGED <<al_s_state, al_configured>>
    <3>1. Drawing' <=> Drawing
      BY <1>3, <2>1, <2>3 DEF Drawing
    <3> QED BY <1>1, <1>2, <1>3, <2>1, <2>3, <3>1 DEF GlassesInv, GlassesKinds, OneConnects,
              LinkInv, TimerInv, Connects
  <2> QED BY <1>3, <2>2, <2>3 DEF Glasses!Written
<1>4. ASSUME NEW command, command \in {"clear", "update"}, Glasses!Shown(command)
      PROVE  GlassesInv'
  <2>1. /\ al_call = command /\ al_call' = "none" /\ al_s_state' = "READY"
        /\ al_timer' = IF command = "clear" THEN "running" ELSE al_timer
        /\ UNCHANGED al_configured
    BY <1>4 DEF Glasses!Shown, Glasses!Answered
  <2>2. Drawing /\ Drawing'
    BY <1>4, <2>1 DEF Drawing, Drawn
  <2>3. TimerInv'
    BY <1>1, <1>4, <2>1 DEF GlassesInv, TimerInv
  <2> QED BY <1>1, <1>2, <1>4, <2>1, <2>2, <2>3 DEF GlassesInv, GlassesKinds, OneConnects,
            LinkInv, Connects
<1> QED BY <1>3, <1>4 DEF Glasses!TaskGoesOn

(* What ends with the link: a procedure that is under way, then the link.    *)
LinkEnds == (IF al_gatt THEN <<"proc">> ELSE <<>>) \o <<"disconnected">>

LEMMA LinkEndsKnown ==
  /\ LinkEnds \in Seq(EventNames \ {"scanned"}) /\ LinkEnds \in Seq(EventNames)
  /\ Len(LinkEnds) = (IF al_gatt THEN 2 ELSE 1)
  /\ \E i \in 1..Len(LinkEnds) : LinkEnds[i] = "disconnected"
<1>1. CASE al_gatt
  <2>1. LinkEnds = <<"proc">> \o <<"disconnected">>
    BY <1>1 DEF LinkEnds
  <2>2. /\ <<"proc">> \in Seq({"proc"}) /\ <<"disconnected">> \in Seq({"disconnected"})
        /\ <<"proc">> \in Seq(EventNames \ {"scanned"})
        /\ <<"disconnected">> \in Seq(EventNames \ {"scanned"})
    BY DEF EventNames
  <2>3. /\ LinkEnds \in Seq(EventNames \ {"scanned"}) /\ Len(LinkEnds) = 2
        /\ LinkEnds[2] = "disconnected"
    BY <2>1, <2>2, ConcatProperties
  <2>4. LinkEnds \in Seq(EventNames)
    BY <2>3
  <2> QED BY <1>1, <2>3, <2>4
<1>2. CASE ~al_gatt
  <2>1. LinkEnds = <<"disconnected">>
    BY <1>2 DEF LinkEnds
  <2> QED BY <1>2, <2>1 DEF EventNames
<1> QED BY <1>1, <1>2

LEMMA LinkEndsAdded ==
  ASSUME al_events \in Seq(EventNames), Glasses!LinkDown
  PROVE  al_events' = al_events \o LinkEnds
<1>1. al_events' = al_events \o (IF al_gatt THEN <<"proc">> ELSE <<>>) \o <<"disconnected">>
  BY DEF Glasses!LinkDown
<1>2. CASE al_gatt
  BY <1>1, <1>2, ConcatAssociative DEF EventNames, LinkEnds
<1>3. CASE ~al_gatt
  BY <1>1, <1>3, ConcatAssociative DEF EventNames, LinkEnds
<1> QED BY <1>2, <1>3

(* The radio. *)
LEMMA AirGlasses ==
  ASSUME GlassesInv, Glasses!Air
  PROVE  GlassesInv'
<1>1. /\ UNCHANGED <<al_session, al_s_state, al_timer, al_connTask, al_call, al_outlived>>
  BY DEF Glasses!Air, Glasses!ScanEnds, Glasses!LinkUp, Glasses!LinkDown,
         Glasses!ProcedureEnds, Glasses!display, Glasses!tasks, Glasses!air, Glasses!bounds,
         Glasses!history
<1>2. /\ GlassesKinds /\ al_events \in Seq(EventNames)
      /\ (Drawing' <=> Drawing) /\ TimerInv'
  BY <1>1 DEF GlassesInv, GlassesKinds, Drawing, TimerInv
<1>3. CASE Glasses!ScanEnds
  <2>1. /\ al_radio = "scanning" /\ al_radio' = "idle" /\ al_call = "none" /\ al_events = <<>>
        /\ ~al_connTask /\ al_events' = Append(al_events, "scanned")
        /\ al_found' = (al_link = "down") \/ al_found' = FALSE
        /\ UNCHANGED <<al_link, al_configured>>
    BY <1>3 DEF Glasses!ScanEnds, Glasses!Quiet, Glasses!Free, Glasses!history
  <2>2. Len(al_events') = 1 /\ al_events' \in Seq(EventNames) /\ al_events'[1] = "scanned"
    BY <1>2, <2>1 DEF EventNames
  <2>3. al_found' \in BOOLEAN /\ (al_found' => al_link = "down")
    <3>1. (al_link = "down") \in BOOLEAN
      OBVIOUS
    <3> QED BY <2>1, <3>1, Zenon
  <2>4. GlassesKinds'
    BY <1>1, <1>2, <2>1, <2>2, <2>3 DEF GlassesKinds
  <2>5. OneConnects'
    BY <1>1, <2>1 DEF OneConnects
  <2>6. ~Waits("disconnected")
    BY <2>1 DEF Waits
  <2>7. Connects' => al_link = "down"
    BY <1>1, <2>1, <2>3 DEF Connects, FoundWaits
  <2>8. LinkInv'
    BY <1>2, <2>1, <2>6, <2>7 DEF GlassesInv, LinkInv
  <2> QED BY <1>2, <2>4, <2>5, <2>8 DEF GlassesInv
<1>4. CASE Glasses!LinkUp
  <2>1. /\ al_radio = "connecting" /\ al_radio' = "idle" /\ al_link' = "up"
        /\ al_events' = al_events \o <<"connected">>
        /\ UNCHANGED al_found
    BY <1>2, <1>4, AppendIsConcat DEF Glasses!LinkUp, EventNames
  <2>2. /\ al_events' \in Seq(EventNames) /\ (FoundWaits' => FoundWaits)
        /\ \A i \in 1..Len(al_events') : i > 1 => al_events'[i] # "scanned"
    <3>1. <<"connected">> \in Seq(EventNames \ {"scanned"})
      BY DEF EventNames
    <3> QED BY <1>2, <2>1, <3>1, EventsAdded
  <2>3. ~Drawing /\ ~Connects'
    BY <1>1, <2>1, <2>2 DEF GlassesInv, LinkInv, OneConnects, Connects
  <2>4. GlassesKinds'
    BY <1>1, <2>1, <2>2 DEF GlassesInv, GlassesKinds
  <2> QED BY <1>2, <2>1, <2>3, <2>4 DEF GlassesInv, LinkInv, OneConnects, Connects
<1>5. CASE Glasses!LinkDown
  <2> DEFINE t == LinkEnds
  <2>1. /\ al_link \in {"up", "closing"} /\ al_link' = "down"
        /\ UNCHANGED <<al_found, al_radio>>
    BY <1>5 DEF Glasses!LinkDown
  <2>2. /\ t \in Seq(EventNames \ {"scanned"}) /\ t \in Seq(EventNames)
        /\ \E i \in 1..Len(t) : t[i] = "disconnected"
    BY LinkEndsKnown
  <2>3. al_events' = al_events \o t
    BY <1>2, <1>5, LinkEndsAdded
  <2> HIDE DEF t
  <2>4. /\ al_events' \in Seq(EventNames) /\ (FoundWaits' => FoundWaits)
        /\ \A i \in 1..Len(al_events') : i > 1 => al_events'[i] # "scanned"
        /\ Waits("disconnected")'
    BY <1>2, <2>1, <2>2, <2>3, EventsAdded
  <2>5. ~Connects /\ ~Connects'
    BY <1>1, <2>1, <2>4 DEF GlassesInv, LinkInv, Connects
  <2>6. GlassesKinds'
    BY <1>1, <2>1, <2>4 DEF GlassesInv, GlassesKinds
  <2> QED BY <1>2, <2>1, <2>4, <2>5, <2>6 DEF GlassesInv, LinkInv, OneConnects, Connects
<1>6. CASE Glasses!ProcedureEnds
  <2>1. /\ al_events' = al_events \o <<"proc">>
        /\ UNCHANGED <<al_found, al_radio, al_link, al_configured>>
    BY <1>2, <1>6, AppendIsConcat DEF Glasses!ProcedureEnds, EventNames, Glasses!history
  <2>2. /\ al_events' \in Seq(EventNames) /\ (FoundWaits' => FoundWaits)
        /\ \A i \in 1..Len(al_events') : i > 1 => al_events'[i] # "scanned"
        /\ \A e : Waits(e) => Waits(e)'
    <3>1. <<"proc">> \in Seq(EventNames \ {"scanned"})
      BY DEF EventNames
    <3> QED BY <1>2, <2>1, <3>1, EventsAdded
  <2>3. GlassesKinds'
    BY <1>1, <2>1, <2>2 DEF GlassesInv, GlassesKinds
  <2>4. Connects' => Connects
    BY <1>1, <2>1, <2>2 DEF Connects
  <2>5. OneConnects'
    BY <1>1, <2>1, <2>2 DEF GlassesInv, OneConnects
  <2>6. LinkInv'
    BY <1>2, <2>1, <2>2, <2>4 DEF GlassesInv, LinkInv
  <2> QED BY <1>2, <2>3, <2>5, <2>6 DEF GlassesInv
<1> QED BY <1>3, <1>4, <1>5, <1>6 DEF Glasses!Air

(* The events. *)
LEMMA HandlersGlasses ==
  ASSUME GlassesInv, Glasses!Handlers
  PROVE  GlassesInv'
<1>1. GlassesKinds /\ OneConnects /\ LinkInv /\ TimerInv
  BY DEF GlassesInv
<1>2. CASE Glasses!HandleScanned
  <2>1. /\ al_connTask' = (al_connTask \/ (al_found /\ al_status # "CONNECTED"))
        /\ UNCHANGED <<al_s_state, al_timer, al_call>>
    BY <1>2 DEF Glasses!HandleScanned
  <2>2. Glasses!Handle("scanned")
    BY <1>2 DEF Glasses!HandleScanned
  <2>3. /\ al_events' \in Seq(EventNames) /\ ~FoundWaits'
        /\ \A i \in 1..Len(al_events') : al_events'[i] # "scanned"
        /\ Waits("disconnected") => Waits("disconnected")'
        /\ (al_found => FoundWaits) /\ al_call = "none"
        /\ UNCHANGED <<al_session, al_found, al_radio, al_link, al_configured, al_outlived>>
    BY <1>1, <2>2, EventHandled
  <2>4. al_connTask' \in BOOLEAN /\ (al_connTask' => al_connTask \/ FoundWaits)
    <3>1. (al_connTask \/ (al_found /\ al_status # "CONNECTED")) \in BOOLEAN
      OBVIOUS
    <3> QED BY <2>1, <2>3, <3>1, Zenon
  <2>5. (Connects' => Connects) /\ (Drawing' <=> Drawing)
    BY <2>1, <2>3, <2>4 DEF Connects, Drawing
  <2>6. GlassesKinds'
    BY <1>1, <2>3, <2>4 DEF GlassesKinds
  <2>7. OneConnects' /\ TimerInv'
    BY <1>1, <2>1, <2>3, <2>4 DEF OneConnects, TimerInv
  <2>8. LinkInv'
    BY <1>1, <2>3, <2>5 DEF LinkInv
  <2> QED BY <2>6, <2>7, <2>8 DEF GlassesInv
<1>3. ASSUME NEW event, event # "disconnected", Glasses!Handle(event),
             UNCHANGED <<al_timer, al_connTask>>, al_s_state' \in {al_s_state, "CFG_WRITE"},
             al_call' \in {al_call, "discover", "notify", "read"}
      PROVE  GlassesInv'
  <2>1. /\ al_events' \in Seq(EventNames) /\ ~FoundWaits'
        /\ \A i \in 1..Len(al_events') : al_events'[i] # "scanned"
        /\ Waits("disconnected") => Waits("disconnected")'
        /\ al_call = "none"
        /\ UNCHANGED <<al_session, al_found, al_radio, al_link, al_configured, al_outlived>>
    BY <1>1, <1>3, EventHandled
  <2>2. (Connects' => Connects) /\ (Drawing' => Drawing)
    BY <1>3, <2>1 DEF Connects, Drawing, Drawn
  <2>3. GlassesKinds'
    BY <1>1, <1>3, <2>1 DEF GlassesKinds
  <2>4. OneConnects' /\ TimerInv'
    BY <1>1, <1>3, <2>1 DEF OneConnects, TimerInv
  <2>5. LinkInv'
    BY <1>1, <2>1, <2>2 DEF LinkInv
  <2> QED BY <2>3, <2>4, <2>5 DEF GlassesInv
<1>4. CASE Glasses!HandleConnected
  <2>1. /\ Glasses!Handle("connected") /\ al_call' = "discover"
        /\ UNCHANGED <<al_s_state, al_timer, al_connTask>>
    BY <1>4 DEF Glasses!HandleConnected
  <2> QED BY <1>3, <2>1
<1>5. CASE Glasses!HandleDisconnected
  <2>1. /\ Glasses!Handle("disconnected") /\ al_s_state' = "INIT"
        /\ UNCHANGED <<al_connTask, al_call>>
    BY <1>5 DEF Glasses!HandleDisconnected, Glasses!StateWithout
  <2>2. /\ al_events' \in Seq(EventNames) /\ ~FoundWaits'
        /\ \A i \in 1..Len(al_events') : al_events'[i] # "scanned"
        /\ al_call = "none"
        /\ UNCHANGED <<al_session, al_found, al_radio, al_link, al_configured, al_outlived>>
    BY <1>1, <2>1, EventHandled
  <2>3. (Connects' => Connects) /\ ~Drawing'
    BY <2>1, <2>2 DEF Connects, Drawing, Drawn
  <2>4. GlassesKinds'
    BY <1>1, <2>1, <2>2 DEF GlassesKinds
  <2>5. OneConnects' /\ TimerInv'
    BY <1>1, <2>1, <2>2 DEF OneConnects, TimerInv
  <2>6. LinkInv'
    BY <1>1, <2>2, <2>3 DEF LinkInv
  <2> QED BY <2>4, <2>5, <2>6 DEF GlassesInv
<1>6. CASE Glasses!ProcedureDone
  <2>1. Glasses!Handle("proc") /\ UNCHANGED <<al_timer, al_connTask>>
    BY <1>6 DEF Glasses!ProcedureDone
  <2>2. /\ al_s_state' \in {al_s_state, "CFG_WRITE"}
        /\ al_call' \in {al_call, "discover", "notify", "read"}
    BY <1>6 DEF Glasses!ProcedureDone, Glasses!Discover, Glasses!Finish, Glasses!Complete
  <2> QED BY <1>3, <2>1, <2>2
<1> QED BY <1>2, <1>4, <1>5, <1>6 DEF Glasses!Handlers

LEMMA GlassesNext ==
  ASSUME GlassesInv, [Glasses!Next]_(Glasses!vars)
  PROVE  GlassesInv'
<1>1. CASE Glasses!Mode \/ Glasses!FS_ActiveLook_Timer
  BY <1>1, ModeGlasses
<1>2. CASE Glasses!Answers
  BY <1>2, AnswersGlasses, TaskGlasses DEF Glasses!Answers
<1>3. CASE Glasses!Requests
  BY <1>3, RequestsGlasses
<1>4. CASE Glasses!Handlers
  BY <1>4, HandlersGlasses
<1>5. CASE Glasses!Air
  BY <1>5, AirGlasses
<1>6. CASE UNCHANGED Glasses!vars
  <2>1. UNCHANGED GlassesState
    BY <1>6 DEF GlassesState, Glasses!vars, Glasses!display, Glasses!tasks, Glasses!air,
                Glasses!history
  <2> QED BY <2>1, GlassesSame
<1> QED BY <1>1, <1>2, <1>3, <1>4, <1>5, <1>6 DEF Glasses!Next

LEMMA GlassesBegins == Glasses!Init => GlassesInv
<1> SUFFICES ASSUME Glasses!Init PROVE GlassesInv
  OBVIOUS
<1>1. /\ al_events = <<>> /\ al_connTask = FALSE /\ al_found = FALSE /\ al_call = "none"
      /\ al_radio = "idle" /\ al_link = "down" /\ al_s_state = "INIT" /\ al_session = FALSE
  BY DEF Glasses!Init
<1>2. al_events \in Seq(EventNames) /\ Len(al_events) = 0
  BY <1>1
<1>3. ~Connects /\ ~Drawing
  BY <1>1, <1>2 DEF Connects, FoundWaits, Drawing, Drawn
<1>4. GlassesKinds
  <2>1. al_connTask \in BOOLEAN /\ al_found \in BOOLEAN
    BY <1>1, Zenon
  <2> QED BY <1>1, <1>2, <2>1 DEF GlassesKinds
<1>5. OneConnects
  BY <1>1 DEF OneConnects, FoundWaits
<1>6. LinkInv /\ TimerInv
  BY <1>1, <1>3 DEF LinkInv, TimerInv
<1> QED BY <1>4, <1>5, <1>6 DEF GlassesInv

(* Nothing is drawn before the glasses have the configuration, and in a      *)
(* session a display that is set up is refreshed, whatever the radio does    *)
(* and whenever the mode task comes in (activelook.c:218-330, app_ble.c).    *)
THEOREM DisplayAlwaysRight == Glasses!Spec => []DisplayRight
<1>1. GlassesInv => DisplayRight
  BY DEF GlassesInv, LinkInv, TimerInv, Drawing, Drawn, DisplayRight, Glasses!DisplayRight,
         Glasses!DrawnWhenSetUp, Glasses!RefreshedWhenReady
<1> QED BY <1>1, GlassesBegins, GlassesNext, PTL DEF Glasses!Spec

(***************************************************************************)
(* GnssReceiver                                                            *)
(***************************************************************************)
(* The places of the buffer, and those from one up to another, round its     *)
(* end: what is Ahead of the reader is not yet read.                         *)
Places == 0..LEN - 1
Between(first, last, i) ==
  IF first <= last THEN first <= i /\ i < last ELSE i >= first \/ i < last
Ahead(i) == Between(gnss_gnssRxIndex, gnss_writeIndex, i)
PulseAhead(i) == Ahead(i) /\ gnss_slots[i].kind = "tp"

GnssKinds ==
  /\ gnss_slots \in [Places -> Gnss!Messages]
  /\ gnss_writeIndex \in Places /\ gnss_gnssRxIndex \in Places /\ gnss_upto \in 0..LEN
  /\ gnss_setting \in 0..Settings /\ gnss_gnssData \in [Gnss!UBX_MSG_ALL -> Nat]
  /\ gnss_gnssMsgReceived \subseteq Gnss!UBX_MSG_ALL
  /\ gnss_epoch \in 1..MaxTow + 1 /\ gnss_pulse \in 0..MaxTow

(* The steps of FS_GNSS_Init.  The receiver answers, and takes, only what    *)
(* was sent.                                                                 *)
Starting == gnss_phase \in {"baud", "config"}
Stage ==
  /\ Starting => gnss_upto = LEN /\ gnss_gnss_is_initializing
  /\ gnss_phase = "baud" => gnss_setting = 0
  /\ gnss_asked # "none" => gnss_asked = "wait" /\ Starting
  /\ gnss_pending \in Seq(0..gnss_setting) /\ gnss_configured \subseteq 0..gnss_setting
  /\ gnss_late \in Nat

(* An acknowledgement that will be read is for a setting that was taken, of  *)
(* its class; so of each class the first setting was.                        *)
Taken(n)  == \E t \in gnss_configured : Gnss!Class(t) = n
Listening == gnss_asked # "none" \/ gnss_phase = "config"
AckAhead(i) == Ahead(i) /\ gnss_slots[i].kind = "ack"
FirstsTaken ==
  /\ Listening => \A i \in Places : AckAhead(i) => Taken(gnss_slots[i].n)
  /\ Starting => \A k \in 0..Settings :
       k < gnss_setting /\ Gnss!FirstOfItsClass(k) => k \in gnss_configured
  /\ gnss_phase = "running" => \A k \in 0..Settings :
       Gnss!FirstOfItsClass(k) => k \in gnss_configured

(* As long as no time-out came before its answer, there is no other answer   *)
(* than that to the setting asked now, and every earlier one was taken.      *)
Asks ==
  \/ gnss_pending = <<gnss_setting>> /\ gnss_gnssRxIndex = gnss_writeIndex
  \/ /\ gnss_pending = <<>>
     /\ gnss_gnssRxIndex # gnss_writeIndex =>
          /\ gnss_writeIndex = (gnss_gnssRxIndex + 1) % LEN
          /\ gnss_slots[gnss_gnssRxIndex].kind = "ack" => gnss_setting \in gnss_configured
AllTaken ==
  /\ Starting =>
       /\ \A k \in 0..Settings : k < gnss_setting => k \in gnss_configured
       /\ gnss_asked # "none" => Asks
       /\ gnss_asked = "none" =>
            /\ gnss_pending = <<>>
            /\ gnss_phase = "baud" \/ gnss_gnssRxIndex = gnss_writeIndex
  /\ gnss_phase = "running" => gnss_configured = 0..Settings

ConfigInv == Stage /\ (~gnss_disordered => FirstsTaken /\ (gnss_late = 0 => AllTaken))

(* What was received counts for the epoch of the last message only.          *)
EpochInv ==
  /\ gnss_mixed = FALSE
  /\ \A kind \in gnss_gnssMsgReceived : gnss_gnssData[kind] = gnss_gnssTimeOfWeek

(* The one announcement that is not yet read is of the next pulse, and so is *)
(* the time that was read.                                                   *)
OnePulse ==
  /\ \A i \in Places : PulseAhead(i) =>
       gnss_slots[i].n = gnss_pulse + 1 /\ gnss_announced = "unread"
  /\ \A i \in Places, j \in Places : PulseAhead(i) /\ PulseAhead(j) => i = j
ReadsBehind == gnss_upto # LEN => gnss_upto = gnss_writeIndex \/ Ahead(gnss_upto)
TimeIsNext  == gnss_validTime => gnss_gnssTime = gnss_pulse + 1
Ordered  == ~gnss_misdated /\ OnePulse /\ ReadsBehind /\ TimeIsNext
PulseInv == gnss_disordered \/ Ordered

GnssInv == GnssKinds /\ ConfigInv /\ EpochInv /\ PulseInv

(* The place after a place. *)
LEMMA NextPlace ==
  ASSUME NEW i \in Places
  PROVE  /\ (i + 1) % LEN \in Places
         /\ (i + 1) % LEN = IF i = LEN - 1 THEN 0 ELSE i + 1
<1>1. LEN \in Nat /\ LEN > 0 /\ i \in Nat /\ i < LEN
  BY GnssAssumption DEF Places
<1>2. CASE i = LEN - 1
  <2>1. i + 1 = LEN
    BY <1>1, <1>2
  <2>2. LEN % LEN = 0
    BY <1>1, SMTT(30)
  <2> QED BY <1>1, <1>2, <2>1, <2>2 DEF Places
<1>3. CASE i # LEN - 1
  <2>1. i + 1 \in Nat /\ i + 1 < LEN
    BY <1>1, <1>3
  <2>2. (i + 1) % LEN = i + 1
    BY <1>1, <2>1, SMTT(30)
  <2> QED BY <1>1, <1>3, <2>1, <2>2 DEF Places
<1> QED BY <1>2, <1>3

LEMMA AheadGrows ==
  ASSUME NEW first \in Places, NEW last \in Places, (last + 1) % LEN # first
  PROVE  /\ ~Between(first, last, last)
         /\ \A i \in Places : Between(first, (last + 1) % LEN, i) <=>
                                Between(first, last, i) \/ i = last
<1>1. LEN \in Nat /\ LEN > 0
  BY GnssAssumption
<1> DEFINE n == (last + 1) % LEN
<1>2. n \in Places /\ n = IF last = LEN - 1 THEN 0 ELSE last + 1
  BY NextPlace
<1>3. n # first
  OBVIOUS
<1> HIDE DEF n
<1> QED BY <1>1, <1>2, <1>3 DEF Between, Places, n

LEMMA AheadShrinks ==
  ASSUME NEW first \in Places, NEW last \in Places, first # last
  PROVE  /\ Between(first, last, first)
         /\ \A i \in Places : Between((first + 1) % LEN, last, i) <=>
                                Between(first, last, i) /\ i # first
<1>1. LEN \in Nat /\ LEN > 0
  BY GnssAssumption
<1> DEFINE n == (first + 1) % LEN
<1>2. n \in Places /\ n = IF first = LEN - 1 THEN 0 ELSE first + 1
  BY NextPlace
<1> HIDE DEF n
<1> QED BY <1>1, <1>2 DEF Between, Places, n

(* A message goes over what is at its place. *)
LEMMA Received ==
  ASSUME GnssKinds, NEW message \in Gnss!Messages, Gnss!Receive(message)
  PROVE  /\ gnss_slots' \in [Places -> Gnss!Messages] /\ gnss_writeIndex' \in Places
         /\ \/ UNCHANGED <<gnss_slots, gnss_writeIndex, gnss_disordered>>
            \/ /\ gnss_writeIndex' = (gnss_writeIndex + 1) % LEN
               /\ gnss_slots'[gnss_writeIndex] = message
               /\ \A i \in Places : i # gnss_writeIndex => gnss_slots'[i] = gnss_slots[i]
               /\ ~gnss_disordered' => ~gnss_disordered /\ gnss_writeIndex' # gnss_gnssRxIndex
<1>1. /\ gnss_slots \in [Places -> Gnss!Messages] /\ gnss_writeIndex \in Places
      /\ (gnss_writeIndex + 1) % LEN \in Places
  BY NextPlace DEF GnssKinds
<1>2. CASE gnss_dma
  <2>1. /\ gnss_slots' = [gnss_slots EXCEPT ![gnss_writeIndex] = message]
        /\ gnss_writeIndex' = (gnss_writeIndex + 1) % LEN
        /\ gnss_disordered' = (gnss_disordered \/ gnss_writeIndex' = gnss_gnssRxIndex)
    BY <1>2 DEF Gnss!Receive
  <2>2. ~gnss_disordered' => ~gnss_disordered /\ gnss_writeIndex' # gnss_gnssRxIndex
    BY <2>1, Zenon
  <2>3. /\ gnss_slots' \in [Places -> Gnss!Messages]
        /\ gnss_slots'[gnss_writeIndex] = message
        /\ \A i \in Places : i # gnss_writeIndex => gnss_slots'[i] = gnss_slots[i]
    BY <1>1, <2>1
  <2> QED BY <1>1, <2>1, <2>2, <2>3
<1>3. CASE ~gnss_dma
  BY <1>1, <1>3 DEF Gnss!Receive
<1> QED BY <1>2, <1>3

LEMMA Arrived ==
  ASSUME NEW message \in Gnss!Messages, Gnss!Arrives(message)
  PROVE  /\ Gnss!Noise \in Gnss!Messages /\ Gnss!Noise.kind = "noise"
         /\ \E got \in Gnss!Messages :
              Gnss!Receive(got) /\ (got = message \/ got = Gnss!Noise)
<1>1. Gnss!Noise \in Gnss!Messages /\ Gnss!Noise.kind = "noise"
  BY GnssAssumption DEF Gnss!Noise, Gnss!Message, Gnss!Messages
<1> QED BY <1>1 DEF Gnss!Arrives

LEMMA Sent ==
  ASSUME NEW kind \in {"ack", "nak", "pvt", "vel", "tp"}, NEW n \in Nat
  PROVE  /\ Gnss!Message(kind, n) \in Gnss!Messages
         /\ Gnss!Message(kind, n).kind = kind /\ Gnss!Message(kind, n).n = n
BY DEF Gnss!Message, Gnss!Messages

(* Settings are named by their class in the answers. *)
LEMMA Answered ==
  ASSUME GnssKinds, Stage, Gnss!Answer
  PROVE  \E k \in 0..gnss_setting :
           /\ k = Head(gnss_pending) /\ k \in 0..Settings /\ gnss_pending # <<>>
           /\ gnss_pending' = Tail(gnss_pending) /\ gnss_pending' \in Seq(0..gnss_setting)
           /\ gnss_configured \subseteq gnss_configured'
           /\ gnss_configured' \subseteq gnss_configured \union {k}
           /\ \/ \E got \in Gnss!Messages :
                   /\ Gnss!Receive(got)
                   /\ \/ got = Gnss!Message("ack", Gnss!Class(k)) /\ k \in gnss_configured'
                      \/ got.kind \in {"nak", "noise"}
              \/ UNCHANGED <<gnss_slots, gnss_writeIndex, gnss_disordered>>
<1> DEFINE k == Head(gnss_pending)
           n == Gnss!Class(k)
<1>1. gnss_pending \in Seq(0..gnss_setting) /\ gnss_pending # <<>>
  BY DEF Stage, Gnss!Answer
<1>2. k \in 0..gnss_setting /\ Tail(gnss_pending) \in Seq(0..gnss_setting)
  BY <1>1, HeadTailProperties
<1>3. k \in 0..Settings /\ n \in Nat
  BY <1>2, GnssAssumption DEF GnssKinds, Gnss!Class
<1>4. /\ gnss_pending' = Tail(gnss_pending)
      /\ \/ /\ gnss_configured' = gnss_configured \union {k}
            /\ Gnss!Arrives(Gnss!Message("ack", n))
         \/ UNCHANGED gnss_configured /\ Gnss!Receive(Gnss!Message("nak", n))
         \/ UNCHANGED <<gnss_configured, gnss_slots, gnss_writeIndex, gnss_disordered>>
  BY DEF Gnss!Answer
<1> HIDE DEF k, n
<1>5. /\ Gnss!Message("ack", n) \in Gnss!Messages /\ Gnss!Message("nak", n) \in Gnss!Messages
      /\ Gnss!Message("nak", n).kind = "nak"
  BY <1>3, Sent
<1>6. CASE gnss_configured' = gnss_configured \union {k} /\ Gnss!Arrives(Gnss!Message("ack", n))
  <2>1. PICK got \in Gnss!Messages :
          /\ Gnss!Receive(got) /\ (got = Gnss!Message("ack", n) \/ got = Gnss!Noise)
          /\ Gnss!Noise.kind = "noise"
    BY <1>5, <1>6, Arrived
  <2> QED BY <1>1, <1>2, <1>3, <1>4, <1>6, <2>1 DEF k, n
<1>7. CASE UNCHANGED gnss_configured /\ Gnss!Receive(Gnss!Message("nak", n))
  BY <1>1, <1>2, <1>3, <1>4, <1>5, <1>7 DEF k
<1>8. CASE UNCHANGED <<gnss_configured, gnss_slots, gnss_writeIndex, gnss_disordered>>
  BY <1>1, <1>2, <1>3, <1>4, <1>8 DEF k
<1> QED BY <1>4, <1>6, <1>7, <1>8

LEMMA ReceiverKindsNext ==
  ASSUME GnssInv, [Gnss!Next]_(Gnss!vars)
  PROVE  GnssKinds'
<1>1. GnssKinds /\ Stage /\ LEN \in Nat /\ LEN > 0 /\ Settings \in Nat /\ MaxTow \in Nat
  BY GnssAssumption DEF GnssInv, ConfigInv
<1>2. CASE Gnss!InitBegins
  BY <1>1, <1>2 DEF Gnss!InitBegins, GnssKinds, Gnss!ring, Gnss!task, Gnss!receiver
<1>3. CASE Gnss!SendMessage
  <2>1. /\ UNCHANGED <<gnss_slots, gnss_upto, gnss_setting, gnss_gnssData,
                       gnss_gnssMsgReceived, gnss_epoch, gnss_pulse>>
        /\ gnss_writeIndex' \in {0, gnss_writeIndex} /\ gnss_gnssRxIndex' \in {0, gnss_gnssRxIndex}
    BY <1>3 DEF Gnss!SendMessage, Gnss!ReceiveDMA, Gnss!task, Gnss!data, Gnss!receiver
  <2>2. 0 \in Places
    BY <1>1 DEF Places
  <2> QED BY <1>1, <2>1, <2>2 DEF GnssKinds
<1>4. CASE Gnss!Answer
  <2>1. UNCHANGED <<gnss_gnssRxIndex, gnss_upto, gnss_setting, gnss_gnssData,
                    gnss_gnssMsgReceived, gnss_epoch, gnss_pulse>>
    BY <1>4 DEF Gnss!Answer, Gnss!task, Gnss!data, Gnss!receiver
  <2>2. \/ \E got \in Gnss!Messages : Gnss!Receive(got)
        \/ UNCHANGED <<gnss_slots, gnss_writeIndex>>
    BY <1>1, <1>4, Answered
  <2>3. gnss_slots' \in [Places -> Gnss!Messages] /\ gnss_writeIndex' \in Places
    BY <1>1, <2>2, Received DEF GnssKinds
  <2> QED BY <1>1, <2>1, <2>3 DEF GnssKinds
<1>5. CASE Gnss!WaitForAck
  <2>1. /\ UNCHANGED <<gnss_slots, gnss_writeIndex, gnss_upto, gnss_gnssData,
                       gnss_gnssMsgReceived, gnss_epoch, gnss_pulse>>
        /\ gnss_gnssRxIndex' \in {(gnss_gnssRxIndex + 1) % LEN, gnss_gnssRxIndex}
    BY <1>5 DEF Gnss!WaitForAck, Gnss!WaitReads, Gnss!WaitEnds, Gnss!ring, Gnss!task, Gnss!data,
      Gnss!receiver
  <2>2. gnss_setting' \in 0..Settings
    BY <1>1, <1>5 DEF Gnss!WaitForAck, Gnss!WaitReads, Gnss!WaitEnds, Gnss!Advance, GnssKinds
  <2> QED BY <1>1, <2>1, <2>2, NextPlace DEF GnssKinds
<1>6. CASE Gnss!DeInit
  BY <1>1, <1>6 DEF Gnss!DeInit, GnssKinds, Gnss!data, Gnss!receiver
<1>7. ASSUME NEW kind \in Gnss!UBX_MSG_ALL, Gnss!Measures(kind) PROVE GnssKinds'
  <2>1. /\ UNCHANGED <<gnss_gnssRxIndex, gnss_upto, gnss_setting, gnss_gnssData,
                       gnss_gnssMsgReceived, gnss_pulse>>
        /\ gnss_epoch <= MaxTow /\ gnss_epoch' \in {gnss_epoch, gnss_epoch + 1}
        /\ Gnss!Arrives(Gnss!Message(kind, gnss_epoch))
    BY <1>7 DEF Gnss!Measures, Gnss!config, Gnss!task, Gnss!data
  <2>2. gnss_epoch \in Nat /\ gnss_epoch' \in 1..MaxTow + 1 /\ kind \in {"pvt", "vel"}
    BY <1>1, <2>1 DEF GnssKinds, Gnss!UBX_MSG_ALL
  <2>3. gnss_slots' \in [Places -> Gnss!Messages] /\ gnss_writeIndex' \in Places
    BY <1>1, <2>1, <2>2, Sent, Arrived, Received
  <2> QED BY <1>1, <2>1, <2>2, <2>3 DEF GnssKinds
<1>8. CASE Gnss!Announces
  <2>1. /\ UNCHANGED <<gnss_gnssRxIndex, gnss_upto, gnss_setting, gnss_gnssData,
                       gnss_gnssMsgReceived, gnss_epoch, gnss_pulse>>
        /\ gnss_pulse < MaxTow /\ Gnss!Arrives(Gnss!Message("tp", gnss_pulse + 1))
    BY <1>8 DEF Gnss!Announces, Gnss!config, Gnss!task, Gnss!data
  <2>2. gnss_pulse + 1 \in Nat
    BY <1>1, <2>1 DEF GnssKinds
  <2>3. gnss_slots' \in [Places -> Gnss!Messages] /\ gnss_writeIndex' \in Places
    BY <1>1, <2>1, <2>2, Sent, Arrived, Received
  <2> QED BY <1>1, <2>1, <2>3 DEF GnssKinds
<1>9. CASE Gnss!Timepulse
  BY <1>1, <1>9 DEF Gnss!Timepulse, GnssKinds, Gnss!ring, Gnss!config, Gnss!task, Gnss!data
<1>10. CASE Gnss!UpdateBegins
  BY <1>1, <1>10 DEF Gnss!UpdateBegins, GnssKinds, Gnss!ring, Gnss!config, Gnss!data,
    Gnss!receiver, Places
<1>11. CASE Gnss!UpdateReads
  <2>1. /\ UNCHANGED <<gnss_slots, gnss_writeIndex, gnss_upto, gnss_setting, gnss_epoch,
                       gnss_pulse>>
        /\ gnss_gnssRxIndex' = (gnss_gnssRxIndex + 1) % LEN
        /\ Gnss!Handle(gnss_slots[gnss_gnssRxIndex])
    BY <1>11 DEF Gnss!UpdateReads, Gnss!config, Gnss!task
  <2>2. gnss_slots[gnss_gnssRxIndex].n \in Nat
    BY <1>1 DEF GnssKinds, Gnss!Messages
  <2>3. /\ gnss_gnssData' \in [Gnss!UBX_MSG_ALL -> Nat]
        /\ gnss_gnssMsgReceived' \subseteq Gnss!UBX_MSG_ALL
    <3>1. CASE UNCHANGED Gnss!data
      BY <1>1, <3>1 DEF Gnss!data, GnssKinds
    <3>2. ASSUME NEW kind \in Gnss!UBX_MSG_ALL, NEW tow \in Nat, Gnss!HandleNav(kind, tow)
          PROVE  <2>3
      BY <1>1, <3>2 DEF Gnss!HandleNav, Gnss!ReceivedBefore, GnssKinds
    <3> QED BY <2>1, <2>2, <3>1, <3>2 DEF Gnss!Handle
  <2> QED BY <1>1, <2>1, <2>3, NextPlace DEF GnssKinds
<1>12. CASE Gnss!UpdateEnds
  BY <1>1, <1>12 DEF Gnss!UpdateEnds, GnssKinds, Gnss!ring, Gnss!config, Gnss!data,
    Gnss!receiver
<1>13. CASE Gnss!UartError
  <2>1. /\ UNCHANGED <<gnss_slots, gnss_gnssRxIndex, gnss_upto, gnss_setting,
                       gnss_gnssData, gnss_gnssMsgReceived, gnss_epoch, gnss_pulse>>
        /\ gnss_writeIndex' \in {0, gnss_writeIndex}
    BY <1>13 DEF Gnss!UartError, Gnss!ReceiveDMA, Gnss!config, Gnss!task, Gnss!data,
      Gnss!receiver
  <2>2. 0 \in Places
    BY <1>1 DEF Places
  <2> QED BY <1>1, <2>1, <2>2 DEF GnssKinds
<1>14. CASE UNCHANGED Gnss!vars
  BY <1>1, <1>14 DEF Gnss!vars, GnssKinds, Gnss!ring, Gnss!config, Gnss!task, Gnss!data,
    Gnss!receiver
<1> QED BY <1>2, <1>3, <1>4, <1>5, <1>6, <1>7, <1>8, <1>9, <1>10, <1>11, <1>12, <1>13, <1>14
  DEF Gnss!Next, Gnss!Initialise, Gnss!Update, Gnss!Receiver

(* A disturbed reception is not undisturbed again. *)
LEMMA StaysDisordered ==
  ASSUME GnssInv, [Gnss!Next]_(Gnss!vars), ~gnss_disordered'
  PROVE  ~gnss_disordered
BY DEF Gnss!Next, Gnss!Initialise, Gnss!InitBegins, Gnss!SendMessage, Gnss!Answer, Gnss!WaitForAck,
  Gnss!WaitReads, Gnss!WaitEnds, Gnss!DeInit, Gnss!Update, Gnss!UpdateBegins, Gnss!UpdateReads,
  Gnss!UpdateEnds, Gnss!Receiver, Gnss!Measures, Gnss!Announces, Gnss!Timepulse, Gnss!UartError,
  Gnss!Arrives, Gnss!Receive, Gnss!ReceiveDMA, Gnss!ring, Gnss!vars

(* The other steps are no part of FS_GNSS_Init. *)
Outside ==
  \/ \E kind \in Gnss!UBX_MSG_ALL : Gnss!Measures(kind)
  \/ Gnss!Announces \/ Gnss!Timepulse \/ Gnss!Update \/ Gnss!DeInit

LEMMA Elsewhere ==
  ASSUME GnssInv, Outside
  PROVE  /\ UNCHANGED <<gnss_asked, gnss_setting, gnss_pending, gnss_configured, gnss_late>>
         /\ gnss_phase' \in {gnss_phase, "off"} /\ ~Starting /\ ~Starting'
<1>1. /\ UNCHANGED <<gnss_asked, gnss_setting, gnss_pending, gnss_configured, gnss_late>>
      /\ gnss_phase' \in {gnss_phase, "off"}
      /\ gnss_phase \in {"off", "running"} \/ gnss_upto # LEN
  BY DEF Outside, Gnss!Measures, Gnss!Announces, Gnss!Timepulse, Gnss!Update, Gnss!UpdateBegins,
    Gnss!UpdateReads, Gnss!UpdateEnds, Gnss!DeInit, Gnss!config
<1>2. ~Starting
  BY <1>1 DEF GnssInv, ConfigInv, Stage, Starting
<1> QED BY <1>1, <1>2 DEF Starting

(* FS_GNSS_WaitForAck takes the acknowledgement, skips a message, or ends.   *)
Acknowledges ==
  /\ gnss_slots[gnss_gnssRxIndex] = Gnss!Message("ack", Gnss!Class(gnss_setting))
  /\ gnss_late' = gnss_late /\ gnss_asked' = "none"
  /\ \/ /\ gnss_setting < Settings /\ gnss_setting' = gnss_setting + 1
        /\ gnss_phase' = "config" /\ UNCHANGED gnss_gnss_is_initializing
     \/ gnss_setting >= Settings /\ gnss_setting' = gnss_setting /\ gnss_phase' = "running"
Skips ==
  /\ UNCHANGED <<gnss_late, gnss_setting, gnss_phase, gnss_gnss_is_initializing>>
  /\ gnss_asked' \in {"none", "wait"}
GivesUp ==
  /\ UNCHANGED <<gnss_setting, gnss_phase, gnss_gnss_is_initializing, gnss_gnssRxIndex>>
  /\ gnss_asked' = "none"
  /\ \/ gnss_late' = gnss_late /\ gnss_pending = <<>> /\ gnss_gnssRxIndex = gnss_writeIndex
     \/ gnss_late' = gnss_late + 1

LEMMA WaitSteps ==
  ASSUME GnssKinds, Gnss!WaitForAck
  PROVE  /\ gnss_asked = "wait"
         /\ UNCHANGED <<gnss_pending, gnss_configured, gnss_slots, gnss_writeIndex, gnss_upto>>
         /\ \/ /\ gnss_gnssRxIndex # gnss_writeIndex
               /\ gnss_gnssRxIndex' = (gnss_gnssRxIndex + 1) % LEN
               /\ Acknowledges \/ Skips
            \/ GivesUp
<1>1. CASE Gnss!WaitReads
  <2>1. CASE Gnss!Acknowledged(gnss_slots[gnss_gnssRxIndex])
    <3>1. gnss_setting < Settings \/ gnss_setting >= Settings
      BY GnssAssumption DEF GnssKinds
    <3> QED BY <1>1, <2>1, <3>1 DEF Gnss!WaitReads, Gnss!Advance, Gnss!Acknowledged,
              Acknowledges, Gnss!Unread, Gnss!task
  <2>2. CASE ~Gnss!Acknowledged(gnss_slots[gnss_gnssRxIndex])
    BY <1>1, <2>2 DEF Gnss!WaitReads, Skips, Gnss!Unread, Gnss!task
  <2> QED BY <2>1, <2>2
<1>2. CASE Gnss!WaitEnds
  BY <1>2 DEF Gnss!WaitEnds, GivesUp, Gnss!AfterTimeout, Gnss!Unread, Gnss!ring, Gnss!task
<1> QED BY <1>1, <1>2 DEF Gnss!WaitForAck

(* The steps of FS_GNSS_Init. *)
LEMMA StageNext ==
  ASSUME GnssInv, [Gnss!Next]_(Gnss!vars)
  PROVE  Stage'
<1>1. /\ GnssKinds /\ Stage /\ Settings \in Nat
      /\ gnss_setting \in Nat /\ gnss_late \in Nat /\ gnss_pending \in Seq(0..gnss_setting)
      /\ gnss_configured \subseteq 0..gnss_setting
  BY GnssAssumption DEF GnssInv, ConfigInv, Stage, GnssKinds
<1>2. CASE Gnss!InitBegins
  <2>1. /\ gnss_pending' = <<>> /\ gnss_configured' = {} /\ gnss_setting' = 0
        /\ gnss_phase = "off" /\ gnss_phase' = "baud" /\ gnss_gnss_is_initializing'
        /\ gnss_upto' = LEN /\ gnss_asked' = gnss_asked /\ gnss_late' = 0
    BY <1>2 DEF Gnss!InitBegins, Gnss!task
  <2> QED BY <1>1, <2>1 DEF Stage, Starting
<1>3. CASE Gnss!SendMessage
  <2>1. /\ gnss_pending' = Append(gnss_pending, gnss_setting) /\ gnss_asked' = "wait"
        /\ UNCHANGED <<gnss_phase, gnss_gnss_is_initializing, gnss_setting, gnss_configured,
                       gnss_late, gnss_upto>>
        /\ Starting
    BY <1>3 DEF Gnss!SendMessage, Gnss!task, Starting
  <2>2. gnss_setting \in 0..gnss_setting
    BY <1>1
  <2>3. Append(gnss_pending, gnss_setting) \in Seq(0..gnss_setting)
    BY <1>1, <2>2
  <2> QED BY <1>1, <2>1, <2>3 DEF Stage, Starting
<1>4. CASE Gnss!Answer
  <2>1. UNCHANGED <<gnss_phase, gnss_gnss_is_initializing, gnss_asked, gnss_setting, gnss_upto,
                  gnss_late>>
    BY <1>4 DEF Gnss!Answer, Gnss!task
  <2>2. gnss_pending' \in Seq(0..gnss_setting) /\ gnss_configured' \subseteq 0..gnss_setting
    BY <1>1, <1>4, Answered
  <2> QED BY <1>1, <2>1, <2>2 DEF Stage, Starting
<1>5. CASE Gnss!WaitForAck
  <2>1. /\ gnss_asked = "wait" /\ UNCHANGED <<gnss_pending, gnss_configured, gnss_upto>>
        /\ Acknowledges \/ Skips \/ GivesUp
    BY <1>1, <1>5, WaitSteps
  <2>2. CASE Acknowledges
    <3>1. gnss_setting' \in {gnss_setting, gnss_setting + 1}
      BY <2>2 DEF Acknowledges
    <3>2. 0..gnss_setting \subseteq 0..gnss_setting'
      BY <1>1, <3>1
    <3>3. gnss_pending \in Seq(0..gnss_setting')
      BY <1>1, <3>2, SeqMonotonic
    <3> QED BY <1>1, <2>1, <2>2, <3>2, <3>3 DEF Acknowledges, Stage, Starting
  <2>3. CASE Skips
    BY <1>1, <2>1, <2>3 DEF Skips, Stage, Starting
  <2>4. CASE GivesUp
    BY <1>1, <2>1, <2>4 DEF GivesUp, Stage, Starting
  <2> QED BY <2>1, <2>2, <2>3, <2>4
<1>6. CASE Outside
  BY <1>1, <1>6, Elsewhere DEF Stage, Starting
<1>7. CASE Gnss!UartError \/ UNCHANGED Gnss!vars
  BY <1>1, <1>7 DEF Gnss!UartError, Gnss!vars, Gnss!config, Gnss!task, Stage, Starting
<1> QED BY <1>2, <1>3, <1>4, <1>5, <1>6, <1>7
          DEF Gnss!Next, Gnss!Initialise, Gnss!Receiver, Outside

(* Of each class the first setting. *)
LEMMA FirstsNext ==
  ASSUME GnssInv, [Gnss!Next]_(Gnss!vars)
  PROVE  ~gnss_disordered' => FirstsTaken'
<1> SUFFICES ASSUME ~gnss_disordered' PROVE FirstsTaken'
  OBVIOUS
<1>1. /\ GnssKinds /\ Stage /\ FirstsTaken /\ Settings \in Nat /\ LEN \in Nat
      /\ gnss_setting \in 0..Settings /\ gnss_configured \subseteq 0..gnss_setting
  BY StaysDisordered, GnssAssumption DEF GnssInv, ConfigInv, Stage, GnssKinds
<1>2. CASE Gnss!InitBegins
  <2>1. /\ gnss_setting' = 0 /\ gnss_phase = "off" /\ gnss_phase' = "baud"
        /\ gnss_asked' = gnss_asked
    BY <1>2 DEF Gnss!InitBegins
  <2> QED BY <1>1, <2>1 DEF FirstsTaken, Listening, Stage, Starting
<1>3. CASE Gnss!SendMessage
  <2>1. /\ UNCHANGED <<gnss_phase, gnss_setting, gnss_configured, gnss_slots>>
        /\ \/ gnss_writeIndex' = 0 /\ gnss_gnssRxIndex' = 0
           \/ /\ UNCHANGED <<gnss_writeIndex, gnss_gnssRxIndex>>
              /\ gnss_phase = "config"
    BY <1>3 DEF Gnss!SendMessage, Gnss!ReceiveDMA
  <2>2. \A n : Taken(n)' <=> Taken(n)
    BY <2>1 DEF Taken
  <2>3. Listening' => \A i \in Places : AckAhead(i)' => Taken(gnss_slots[i].n)'
    <3>1. CASE gnss_writeIndex' = 0 /\ gnss_gnssRxIndex' = 0
      BY <1>1, <3>1 DEF AckAhead, Ahead, Between, Places
    <3>2. CASE UNCHANGED <<gnss_writeIndex, gnss_gnssRxIndex>> /\ gnss_phase = "config"
      BY <1>1, <2>1, <2>2, <3>2 DEF FirstsTaken, Listening, AckAhead, Ahead
    <3> QED BY <2>1, <3>1, <3>2
  <2> QED BY <1>1, <2>1, <2>3 DEF FirstsTaken, Starting
<1>4. CASE Gnss!Answer
  <2>1. UNCHANGED <<gnss_phase, gnss_asked, gnss_setting, gnss_gnssRxIndex>>
    BY <1>4 DEF Gnss!Answer
  <2>2. PICK k \in 0..gnss_setting :
          /\ k \in 0..Settings /\ gnss_configured \subseteq gnss_configured'
          /\ \/ \E got \in Gnss!Messages :
                  /\ Gnss!Receive(got)
                  /\ \/ got = Gnss!Message("ack", Gnss!Class(k)) /\ k \in gnss_configured'
                     \/ got.kind \in {"nak", "noise"}
             \/ UNCHANGED <<gnss_slots, gnss_writeIndex, gnss_disordered>>
    BY <1>1, <1>4, Answered
  <2>3. \A n : Taken(n) => Taken(n)'
    BY <2>2 DEF Taken
  <2>4. ASSUME NEW got \in Gnss!Messages, Gnss!Receive(got),
               got.kind = "ack" => Taken(got.n)', Listening, NEW i \in Places, AckAhead(i)'
        PROVE  Taken(gnss_slots[i].n)'
    <3>1. gnss_writeIndex \in Places /\ gnss_gnssRxIndex \in Places
      BY <1>1 DEF GnssKinds
    <3>2. \/ UNCHANGED <<gnss_slots, gnss_writeIndex>>
          \/ /\ gnss_writeIndex' = (gnss_writeIndex + 1) % LEN
             /\ gnss_slots'[gnss_writeIndex] = got
             /\ \A j \in Places : j # gnss_writeIndex => gnss_slots'[j] = gnss_slots[j]
             /\ gnss_writeIndex' # gnss_gnssRxIndex
      BY <1>1, <2>4, Received
    <3>3. CASE UNCHANGED <<gnss_slots, gnss_writeIndex>>
      BY <1>1, <2>1, <2>3, <2>4, <3>3 DEF AckAhead, Ahead, FirstsTaken
    <3>4. CASE ~UNCHANGED <<gnss_slots, gnss_writeIndex>>
      <4>1. Ahead(i)' => Ahead(i) \/ i = gnss_writeIndex
        BY <2>1, <3>1, <3>2, <3>4, AheadGrows DEF Ahead
      <4> QED BY <1>1, <2>3, <2>4, <3>2, <3>4, <4>1 DEF AckAhead, FirstsTaken
    <3> QED BY <3>3, <3>4
  <2>5. ASSUME NEW got \in Gnss!Messages,
               got = Gnss!Message("ack", Gnss!Class(k)) /\ k \in gnss_configured'
        PROVE  Taken(got.n)'
    BY <2>5 DEF Taken, Gnss!Message, Gnss!Class
  <2>6. Listening' => \A i \in Places : AckAhead(i)' => Taken(gnss_slots[i].n)'
    <3>1. CASE UNCHANGED <<gnss_slots, gnss_writeIndex>>
      BY <1>1, <2>1, <2>3, <3>1 DEF AckAhead, Ahead, FirstsTaken, Listening
    <3>2. CASE ~UNCHANGED <<gnss_slots, gnss_writeIndex>>
      <4>1. PICK got \in Gnss!Messages :
              Gnss!Receive(got) /\ (got.kind = "ack" => Taken(got.n)')
        BY <2>2, <2>5, <3>2
      <4> QED BY <2>1, <2>4, <4>1 DEF Listening
    <3> QED BY <3>1, <3>2
  <2> QED BY <1>1, <2>1, <2>2, <2>6 DEF FirstsTaken, Starting
<1>5. CASE Gnss!WaitForAck
  <2>1. /\ gnss_asked = "wait" /\ Starting
        /\ UNCHANGED <<gnss_configured, gnss_slots, gnss_writeIndex>>
        /\ \/ /\ gnss_gnssRxIndex # gnss_writeIndex
              /\ gnss_gnssRxIndex' = (gnss_gnssRxIndex + 1) % LEN
              /\ Acknowledges \/ Skips
           \/ GivesUp
    BY <1>1, <1>5, WaitSteps DEF Stage
  <2>2. \A n : Taken(n)' <=> Taken(n)
    BY <2>1 DEF Taken
  <2>3. /\ gnss_writeIndex \in Places /\ gnss_gnssRxIndex \in Places
        /\ \A i \in Places : AckAhead(i) => Taken(gnss_slots[i].n)
    BY <1>1, <2>1 DEF GnssKinds, FirstsTaken, Listening
  <2>4. \A i \in Places : AckAhead(i)' => AckAhead(i)
    <3>1. CASE GivesUp
      BY <2>1, <3>1 DEF GivesUp, AckAhead, Ahead
    <3>2. CASE ~GivesUp
      BY <2>1, <2>3, <3>2, AheadShrinks DEF AckAhead, Ahead
    <3> QED BY <3>1, <3>2
  <2>5. \A i \in Places : AckAhead(i)' => Taken(gnss_slots[i].n)'
    BY <2>1, <2>2, <2>3, <2>4
  <2>6. CASE Acknowledges /\ ~GivesUp
    <3>1. AckAhead(gnss_gnssRxIndex)
      BY <2>1, <2>3, <2>6, AheadShrinks DEF AckAhead, Ahead, Acknowledges, Gnss!Message
    <3>2. Taken(Gnss!Class(gnss_setting))
      BY <2>3, <2>6, <3>1 DEF Acknowledges, Gnss!Message
    <3>3. PICK t \in gnss_configured : Gnss!Class(t) = Gnss!Class(gnss_setting)
      BY <3>2 DEF Taken
    <3>4. t \in 0..gnss_setting - 1 \/ t = gnss_setting
      BY <1>1, <3>3
    <3>5. Gnss!FirstOfItsClass(gnss_setting) => gnss_setting \in gnss_configured
      BY <3>3, <3>4 DEF Gnss!FirstOfItsClass
    <3>6. \A k \in 0..Settings :
            k <= gnss_setting /\ Gnss!FirstOfItsClass(k) => k \in gnss_configured
      <4> SUFFICES ASSUME NEW k \in 0..Settings, k <= gnss_setting, Gnss!FirstOfItsClass(k)
                   PROVE  k \in gnss_configured
        OBVIOUS
      <4>1. k < gnss_setting \/ k = gnss_setting
        BY <1>1
      <4> QED BY <1>1, <2>1, <3>5, <4>1 DEF FirstsTaken
    <3>7. \/ /\ gnss_phase' = "config" /\ gnss_setting' = gnss_setting + 1
          \/ /\ gnss_phase' = "running" /\ gnss_setting = Settings
      BY <1>1, <2>6 DEF Acknowledges
    <3> HIDE DEF Gnss!FirstOfItsClass
    <3> QED BY <1>1, <2>1, <2>5, <3>6, <3>7 DEF FirstsTaken, Starting
  <2>7. CASE Skips \/ GivesUp
    BY <1>1, <2>1, <2>5, <2>7 DEF Skips, GivesUp, FirstsTaken, Starting
  <2> QED BY <2>1, <2>6, <2>7
<1>6. CASE Outside
  BY <1>1, <1>6, Elsewhere DEF FirstsTaken, Listening, Stage, Starting
<1>7. CASE Gnss!UartError \/ UNCHANGED Gnss!vars
  <2>1. UNCHANGED <<gnss_phase, gnss_asked, gnss_setting, gnss_configured, gnss_slots,
                    gnss_writeIndex, gnss_gnssRxIndex>>
    BY <1>7 DEF Gnss!UartError, Gnss!vars, Gnss!config, Gnss!ring
  <2>2. \A n : Taken(n)' <=> Taken(n)
    BY <2>1 DEF Taken
  <2>3. \A i \in Places : AckAhead(i)' <=> AckAhead(i)
    BY <2>1 DEF AckAhead, Ahead
  <2> QED BY <1>1, <2>1, <2>2, <2>3 DEF FirstsTaken, Listening, Starting
<1> QED BY <1>2, <1>3, <1>4, <1>5, <1>6, <1>7
          DEF Gnss!Next, Gnss!Initialise, Gnss!Receiver, Outside

(* Every setting, without late answers. *)
LEMMA AllNext ==
  ASSUME GnssInv, [Gnss!Next]_(Gnss!vars)
  PROVE  ~gnss_disordered' => (gnss_late' = 0 => AllTaken')
<1> SUFFICES ASSUME ~gnss_disordered', gnss_late' = 0 PROVE AllTaken'
  OBVIOUS
<1>1. /\ GnssKinds /\ Stage /\ Settings \in Nat /\ LEN \in Nat /\ gnss_late \in Nat
      /\ gnss_setting \in 0..Settings /\ gnss_configured \subseteq 0..gnss_setting
      /\ gnss_late = 0 => AllTaken
  BY StaysDisordered, GnssAssumption DEF GnssInv, ConfigInv, Stage, GnssKinds
<1>2. CASE Gnss!InitBegins
  <2>1. /\ gnss_setting' = 0 /\ gnss_phase = "off" /\ gnss_phase' = "baud"
        /\ gnss_asked' = gnss_asked /\ gnss_pending' = <<>>
    BY <1>2 DEF Gnss!InitBegins
  <2> QED BY <1>1, <2>1 DEF AllTaken, Stage, Starting
<1>3. CASE Gnss!SendMessage
  <2>1. /\ UNCHANGED <<gnss_phase, gnss_setting, gnss_configured, gnss_late>>
        /\ gnss_asked = "none" /\ gnss_asked' = "wait" /\ Starting
        /\ gnss_pending' = Append(gnss_pending, gnss_setting)
        /\ \/ gnss_writeIndex' = 0 /\ gnss_gnssRxIndex' = 0
           \/ /\ UNCHANGED <<gnss_writeIndex, gnss_gnssRxIndex>>
              /\ gnss_phase = "config"
    BY <1>3 DEF Gnss!SendMessage, Gnss!ReceiveDMA, Starting
  <2>2. AllTaken /\ gnss_pending = <<>> /\ gnss_gnssRxIndex' = gnss_writeIndex'
    BY <1>1, <2>1 DEF AllTaken
  <2>3. gnss_pending' = <<gnss_setting'>>
    BY <2>1, <2>2
  <2> QED BY <2>1, <2>2, <2>3 DEF AllTaken, Asks, Starting
<1>4. CASE Gnss!Answer
  <2>1. UNCHANGED <<gnss_phase, gnss_asked, gnss_setting, gnss_gnssRxIndex, gnss_late>>
    BY <1>4 DEF Gnss!Answer
  <2>2. PICK k \in 0..gnss_setting :
          /\ k = Head(gnss_pending) /\ k \in 0..Settings /\ gnss_pending # <<>>
          /\ gnss_pending' = Tail(gnss_pending)
          /\ gnss_configured \subseteq gnss_configured'
          /\ gnss_configured' \subseteq gnss_configured \union {k}
          /\ \/ \E got \in Gnss!Messages :
                  /\ Gnss!Receive(got)
                  /\ \/ got = Gnss!Message("ack", Gnss!Class(k)) /\ k \in gnss_configured'
                     \/ got.kind \in {"nak", "noise"}
             \/ UNCHANGED <<gnss_slots, gnss_writeIndex, gnss_disordered>>
    BY <1>1, <1>4, Answered
  <2>3. CASE ~Starting
    BY <1>1, <2>1, <2>2, <2>3 DEF AllTaken, Starting
  <2>4. CASE Starting
    <3>1. AllTaken /\ gnss_asked # "none" /\ Asks
      BY <1>1, <2>1, <2>2, <2>4 DEF AllTaken
    <3>2. gnss_pending = <<gnss_setting>> /\ gnss_gnssRxIndex = gnss_writeIndex
      BY <2>2, <3>1 DEF Asks
    <3>3. k = gnss_setting /\ gnss_pending' = <<>>
      BY <2>2, <3>2
    <3>4. /\ gnss_gnssRxIndex # gnss_writeIndex' =>
               gnss_writeIndex' = (gnss_gnssRxIndex + 1) % LEN
          /\ gnss_gnssRxIndex # gnss_writeIndex' =>
               (gnss_slots'[gnss_gnssRxIndex].kind = "ack" => gnss_setting \in gnss_configured')
      <4>1. CASE UNCHANGED <<gnss_slots, gnss_writeIndex>>
        BY <3>2, <4>1
      <4>2. CASE ~UNCHANGED <<gnss_slots, gnss_writeIndex>>
        <5>1. PICK got \in Gnss!Messages :
                Gnss!Receive(got) /\ (k \in gnss_configured' \/ got.kind \in {"nak", "noise"})
          BY <2>2, <4>2
        <5>2. /\ gnss_writeIndex' = (gnss_writeIndex + 1) % LEN
              /\ gnss_slots'[gnss_writeIndex] = got
          BY <1>1, <4>2, <5>1, Received
        <5> QED BY <3>2, <3>3, <5>1, <5>2
      <4> QED BY <4>1, <4>2
    <3>5. Asks'
      BY <2>1, <3>3, <3>4 DEF Asks
    <3> QED BY <2>1, <2>2, <2>4, <3>1, <3>5 DEF AllTaken, Starting
  <2> QED BY <2>3, <2>4
<1>5. CASE Gnss!WaitForAck
  <2>1. /\ gnss_asked = "wait" /\ Starting
        /\ UNCHANGED <<gnss_pending, gnss_configured, gnss_slots, gnss_writeIndex>>
        /\ \/ /\ gnss_gnssRxIndex # gnss_writeIndex
              /\ gnss_gnssRxIndex' = (gnss_gnssRxIndex + 1) % LEN
              /\ Acknowledges \/ Skips
           \/ GivesUp
    BY <1>1, <1>5, WaitSteps DEF Stage
  <2>2. gnss_late = 0 /\ gnss_late' = gnss_late
    BY <1>1, <2>1 DEF Acknowledges, Skips, GivesUp
  <2>3. AllTaken /\ Asks
    BY <1>1, <2>1, <2>2 DEF AllTaken
  <2>4. CASE GivesUp
    <3>1. gnss_pending = <<>> /\ gnss_gnssRxIndex = gnss_writeIndex
      BY <1>1, <2>2, <2>4 DEF GivesUp
    <3> QED BY <2>1, <2>3, <2>4, <3>1 DEF GivesUp, AllTaken, Starting
  <2>5. CASE ~GivesUp
    <3>1. /\ gnss_gnssRxIndex # gnss_writeIndex /\ gnss_pending = <<>>
          /\ gnss_gnssRxIndex' = gnss_writeIndex'
          /\ gnss_slots[gnss_gnssRxIndex].kind = "ack" => gnss_setting \in gnss_configured
      BY <2>1, <2>3, <2>5 DEF Asks
    <3>2. CASE Acknowledges
      <4>1. gnss_setting \in gnss_configured
        BY <3>1, <3>2 DEF Acknowledges, Gnss!Message
      <4>2. \A k \in 0..Settings : k <= gnss_setting => k \in gnss_configured
        <5> SUFFICES ASSUME NEW k \in 0..Settings, k <= gnss_setting
                     PROVE  k \in gnss_configured
          OBVIOUS
        <5>1. k < gnss_setting \/ k = gnss_setting
          BY <1>1
        <5> QED BY <2>1, <2>3, <4>1, <5>1 DEF AllTaken
      <4>3. /\ gnss_asked' = "none"
            /\ \/ gnss_phase' = "config" /\ gnss_setting' = gnss_setting + 1
               \/ gnss_phase' = "running" /\ gnss_setting = Settings
        BY <1>1, <3>2 DEF Acknowledges
      <4>4. \A k \in 0..Settings : k < gnss_setting + 1 => k \in gnss_configured
        <5>1. \A k \in 0..Settings : k < gnss_setting + 1 => k <= gnss_setting
          BY <1>1
        <5> QED BY <4>2, <5>1
      <4>5. gnss_setting = Settings => gnss_configured = 0..Settings
        <5>1. gnss_setting = Settings => \A k \in 0..Settings : k <= gnss_setting
          BY <1>1
        <5> QED BY <1>1, <4>2, <5>1
      <4>6. CASE gnss_phase' = "config" /\ gnss_setting' = gnss_setting + 1
        BY <2>1, <3>1, <4>3, <4>4, <4>6 DEF AllTaken, Starting
      <4>7. CASE gnss_phase' = "running" /\ gnss_setting = Settings
        BY <2>1, <4>5, <4>7 DEF AllTaken, Starting
      <4> QED BY <4>3, <4>6, <4>7
    <3>3. CASE Skips
      <4>1. Asks'
        BY <2>1, <3>1 DEF Asks
      <4> QED BY <2>1, <2>3, <3>1, <3>3, <4>1 DEF Skips, AllTaken, Starting
    <3> QED BY <2>1, <2>5, <3>2, <3>3
  <2> QED BY <2>4, <2>5
<1>6. CASE Outside
  BY <1>1, <1>6, Elsewhere DEF AllTaken, Starting
<1>7. CASE Gnss!UartError \/ UNCHANGED Gnss!vars
  <2>1. UNCHANGED <<gnss_phase, gnss_asked, gnss_setting, gnss_configured, gnss_slots,
                    gnss_writeIndex, gnss_gnssRxIndex, gnss_pending, gnss_late>>
    BY <1>7 DEF Gnss!UartError, Gnss!vars, Gnss!config, Gnss!ring
  <2> QED BY <1>1, <2>1 DEF AllTaken, Asks, Starting
<1> QED BY <1>2, <1>3, <1>4, <1>5, <1>6, <1>7
          DEF Gnss!Next, Gnss!Initialise, Gnss!Receiver, Outside

(* The parts of a measurement. *)
LEMMA EpochNext ==
  ASSUME GnssInv, [Gnss!Next]_(Gnss!vars)
  PROVE  EpochInv'
<1>1. GnssKinds /\ EpochInv
  BY DEF GnssInv
<1>2. CASE UNCHANGED Gnss!data
  BY <1>1, <1>2 DEF Gnss!data, EpochInv
<1>3. CASE Gnss!InitBegins
  BY <1>1, <1>3 DEF Gnss!InitBegins, EpochInv
<1>4. ASSUME NEW kind \in Gnss!UBX_MSG_ALL, NEW tow, Gnss!HandleNav(kind, tow)
      PROVE  EpochInv'
  <2> DEFINE received == Gnss!ReceivedBefore(tow) \union {kind}
  <2>1. /\ gnss_gnssData' = [gnss_gnssData EXCEPT ![kind] = tow] /\ gnss_gnssTimeOfWeek' = tow
        /\ gnss_gnssMsgReceived' = IF received = Gnss!UBX_MSG_ALL THEN {} ELSE received
        /\ gnss_mixed' = (gnss_mixed \/ (received = Gnss!UBX_MSG_ALL /\
                            \E other \in Gnss!UBX_MSG_ALL : gnss_gnssData'[other] # tow))
    BY <1>4 DEF Gnss!HandleNav
  <2>2. \A other \in Gnss!ReceivedBefore(tow) :
          other \in Gnss!UBX_MSG_ALL /\ gnss_gnssData[other] = tow
    BY <1>1 DEF Gnss!ReceivedBefore, EpochInv, GnssKinds
  <2>3. \A other \in received : gnss_gnssData'[other] = tow
    BY <1>1, <2>1, <2>2 DEF GnssKinds
  <2>4. \A other \in gnss_gnssMsgReceived' : gnss_gnssData'[other] = gnss_gnssTimeOfWeek'
    BY <2>1, <2>3
  <2>5. ~(received = Gnss!UBX_MSG_ALL /\
            \E other \in Gnss!UBX_MSG_ALL : gnss_gnssData'[other] # tow)
    BY <2>3
  <2>6. gnss_mixed' = FALSE
    <3>1. gnss_mixed = FALSE
      BY <1>1 DEF EpochInv
    <3> HIDE DEF received
    <3> QED BY <2>1, <2>5, <3>1, Zenon
  <2> QED BY <2>4, <2>6 DEF EpochInv
<1>5. CASE Gnss!UpdateReads
  BY <1>2, <1>4, <1>5 DEF Gnss!UpdateReads, Gnss!Handle
<1>6. Gnss!InitBegins \/ Gnss!UpdateReads \/ UNCHANGED Gnss!data
  BY DEF Gnss!Next, Gnss!Initialise, Gnss!Update, Gnss!Receiver, Gnss!SendMessage, Gnss!Answer,
     Gnss!WaitForAck, Gnss!WaitReads, Gnss!WaitEnds, Gnss!DeInit, Gnss!Measures,
     Gnss!Announces, Gnss!Timepulse, Gnss!UpdateBegins, Gnss!UpdateEnds, Gnss!UartError, Gnss!vars
<1> QED BY <1>2, <1>3, <1>5, <1>6

(* The pulses. *)
LEMMA PulseArrives ==
  ASSUME GnssKinds, PulseInv, NEW got \in Gnss!Messages, Gnss!Receive(got),
         UNCHANGED <<gnss_gnssRxIndex, gnss_upto, gnss_pulse, gnss_gnssTime, gnss_validTime,
                     gnss_misdated>>,
         gnss_announced' = gnss_announced \/ gnss_announced = "no",
         got.kind = "tp" => got.n = gnss_pulse + 1 /\ gnss_announced = "no"
                              /\ gnss_announced' = "unread"
  PROVE  PulseInv'
<1>1. SUFFICES ASSUME ~gnss_disordered' PROVE Ordered'
  BY DEF PulseInv
<1>2. ~gnss_disordered
  BY <1>1, Received
<1>3. Ordered
  BY <1>2 DEF PulseInv
<1>4. TimeIsNext' /\ ~gnss_misdated'
  BY <1>3 DEF Ordered, TimeIsNext
<1>5. gnss_writeIndex \in Places /\ gnss_gnssRxIndex \in Places /\ gnss_upto \in 0..LEN
  BY DEF GnssKinds
<1>6. ASSUME NEW i \in Places, PulseAhead(i) PROVE gnss_announced' = "unread"
  BY <1>3, <1>6 DEF Ordered, OnePulse
<1>7. CASE UNCHANGED <<gnss_slots, gnss_writeIndex, gnss_disordered>>
  <2>1. \A i \in Places : PulseAhead(i)' <=> PulseAhead(i)
    BY <1>7 DEF PulseAhead, Ahead
  <2>2. OnePulse'
    BY <1>3, <1>6, <1>7, <2>1 DEF Ordered, OnePulse
  <2>3. ReadsBehind'
    BY <1>3, <1>7 DEF Ordered, ReadsBehind, Ahead
  <2> QED BY <1>4, <2>2, <2>3 DEF Ordered
<1>8. CASE /\ gnss_writeIndex' = (gnss_writeIndex + 1) % LEN
           /\ gnss_slots'[gnss_writeIndex] = got
           /\ \A i \in Places : i # gnss_writeIndex => gnss_slots'[i] = gnss_slots[i]
           /\ ~gnss_disordered' => ~gnss_disordered /\ gnss_writeIndex' # gnss_gnssRxIndex
  <2>1. /\ ~Ahead(gnss_writeIndex)
        /\ \A i \in Places : Ahead(i)' <=> Ahead(i) \/ i = gnss_writeIndex
    BY <1>1, <1>5, <1>8, AheadGrows DEF Ahead
  <2>2. \A i \in Places : PulseAhead(i)' <=>
          (PulseAhead(i) /\ i # gnss_writeIndex) \/ (i = gnss_writeIndex /\ got.kind = "tp")
    BY <1>8, <2>1 DEF PulseAhead
  <2>3. ~PulseAhead(gnss_writeIndex)
    BY <2>1 DEF PulseAhead
  <2>4. got.kind = "tp" => \A i \in Places : ~PulseAhead(i)
    BY <1>3 DEF Ordered, OnePulse
  <2>5. ASSUME NEW i \in Places, PulseAhead(i)'
        PROVE  gnss_slots'[i].n = gnss_pulse' + 1 /\ gnss_announced' = "unread"
    BY <1>3, <1>6, <1>8, <2>2, <2>5 DEF Ordered, OnePulse
  <2>6. ASSUME NEW i \in Places, NEW j \in Places, PulseAhead(i)', PulseAhead(j)' PROVE i = j
    BY <1>3, <2>2, <2>4, <2>6 DEF Ordered, OnePulse
  <2>7. OnePulse'
    BY <2>5, <2>6 DEF OnePulse
  <2>8. ReadsBehind'
    <3>1. SUFFICES ASSUME gnss_upto # LEN PROVE gnss_upto' = gnss_writeIndex' \/ Ahead(gnss_upto)'
      BY DEF ReadsBehind, Ahead
    <3>2. gnss_upto \in Places /\ (gnss_upto = gnss_writeIndex \/ Ahead(gnss_upto))
      BY <1>3, <1>5, <3>1, GnssAssumption DEF Ordered, ReadsBehind, Places
    <3> QED BY <2>1, <3>2 DEF Ahead
  <2> QED BY <1>4, <2>7, <2>8 DEF Ordered
<1> QED BY <1>7, <1>8, Received

LEMMA PulseRead ==
  ASSUME GnssKinds, Ordered, Gnss!UpdateReads
  PROVE  Ordered'
<1> DEFINE message == gnss_slots[gnss_gnssRxIndex]
<1>1. /\ gnss_upto # LEN /\ gnss_gnssRxIndex # gnss_upto /\ Gnss!Handle(message)
      /\ gnss_gnssRxIndex' = (gnss_gnssRxIndex + 1) % LEN
      /\ UNCHANGED <<gnss_slots, gnss_writeIndex, gnss_upto, gnss_pulse>>
      /\ gnss_announced' = IF message = Gnss!Message("tp", gnss_pulse + 1) THEN "read"
                                                                         ELSE gnss_announced
  BY DEF Gnss!UpdateReads, Gnss!task
<1>2. /\ gnss_writeIndex \in Places /\ gnss_gnssRxIndex \in Places /\ gnss_upto \in 0..LEN
      /\ gnss_slots \in [Places -> Gnss!Messages]
  BY DEF GnssKinds
<1>3. gnss_upto \in Places
  BY <1>1, <1>2, GnssAssumption DEF Places
<1>4. gnss_gnssRxIndex # gnss_writeIndex
  BY <1>1, <1>2, <1>3, GnssAssumption DEF Ordered, ReadsBehind, Ahead, Between, Places
<1>5. /\ Ahead(gnss_gnssRxIndex)
      /\ \A i \in Places : Ahead(i)' <=> Ahead(i) /\ i # gnss_gnssRxIndex
  BY <1>1, <1>2, <1>4, AheadShrinks DEF Ahead
<1>6. \A i \in Places : PulseAhead(i)' <=> PulseAhead(i) /\ i # gnss_gnssRxIndex
  BY <1>1, <1>5 DEF PulseAhead
<1>7. UNCHANGED gnss_misdated
  BY <1>1 DEF Gnss!Handle, Gnss!time
<1>8. CASE message.kind = "tp"
  <2>1. PulseAhead(gnss_gnssRxIndex)
    BY <1>5, <1>8 DEF PulseAhead
  <2>2. message.n = gnss_pulse + 1 /\ \A i \in Places : ~PulseAhead(i)'
    BY <1>2, <1>6, <2>1 DEF Ordered, OnePulse
  <2>3. gnss_gnssTime' = message.n
    BY <1>1, <1>8 DEF Gnss!Handle, Gnss!UBX_MSG_ALL
  <2>4. TimeIsNext'
    BY <1>1, <2>2, <2>3 DEF TimeIsNext
  <2>5. OnePulse'
    BY <2>2 DEF OnePulse
  <2>6. ReadsBehind'
    BY <1>1, <1>3, <1>5 DEF Ordered, ReadsBehind
  <2> QED BY <1>7, <2>4, <2>5, <2>6 DEF Ordered
<1>9. CASE message.kind # "tp"
  <2>1. UNCHANGED gnss_announced
    BY <1>1, <1>9 DEF Gnss!Message
  <2>2. UNCHANGED <<gnss_gnssTime, gnss_validTime>>
    BY <1>1, <1>9 DEF Gnss!Handle, Gnss!time
  <2>3. TimeIsNext'
    BY <1>1, <2>2 DEF Ordered, TimeIsNext
  <2>4. OnePulse'
    BY <1>1, <1>6, <2>1 DEF Ordered, OnePulse
  <2>5. ReadsBehind'
    BY <1>1, <1>3, <1>5 DEF Ordered, ReadsBehind
  <2> QED BY <1>7, <2>3, <2>4, <2>5 DEF Ordered
<1> QED BY <1>8, <1>9

LEMMA PulseNext ==
  ASSUME GnssInv, [Gnss!Next]_(Gnss!vars)
  PROVE  PulseInv'
<1>1. /\ GnssKinds /\ ConfigInv /\ PulseInv /\ LEN \in Nat /\ LEN > 0 /\ MaxTow \in Nat
      /\ 0 \in Places
  BY GnssAssumption DEF GnssInv, Places
<1>2. ASSUME UNCHANGED <<gnss_slots, gnss_writeIndex, gnss_pulse, gnss_announced, gnss_misdated,
                         gnss_disordered, gnss_gnssRxIndex>>,
             \/ gnss_upto' = gnss_upto \/ gnss_upto' = LEN \/ gnss_upto' = gnss_writeIndex,
             ~gnss_validTime' \/ UNCHANGED <<gnss_gnssTime, gnss_validTime>>
      PROVE  PulseInv'
  <2>1. \A i \in Places : PulseAhead(i)' <=> PulseAhead(i)
    BY <1>2 DEF PulseAhead, Ahead
  <2>2. \A i : Ahead(i)' <=> Ahead(i)
    BY <1>2 DEF Ahead
  <2>3. SUFFICES ASSUME Ordered PROVE Ordered'
    BY <1>1, <1>2 DEF PulseInv
  <2>4. OnePulse'
    BY <1>2, <2>1, <2>3 DEF Ordered, OnePulse
  <2>5. ReadsBehind'
    BY <1>2, <2>2, <2>3 DEF Ordered, ReadsBehind, Ahead
  <2>6. TimeIsNext' /\ ~gnss_misdated'
    BY <1>2, <2>3 DEF Ordered, TimeIsNext
  <2> QED BY <2>4, <2>5, <2>6 DEF Ordered
<1>3. CASE Gnss!InitBegins
  BY <1>2, <1>3 DEF Gnss!InitBegins, Gnss!ring, Gnss!task, Gnss!receiver
<1>4. CASE Gnss!SendMessage
  <2>1. CASE gnss_phase = "baud"
    <3>1. /\ gnss_writeIndex' = 0 /\ gnss_gnssRxIndex' = 0 /\ gnss_upto' = LEN
          /\ UNCHANGED <<gnss_pulse, gnss_misdated, gnss_disordered, gnss_gnssTime,
                         gnss_validTime>>
      BY <1>1, <1>4, <2>1 DEF Gnss!SendMessage, Gnss!ReceiveDMA, Gnss!task, Gnss!time,
        Gnss!receiver, ConfigInv, Stage, Starting
    <3>2. \A i \in Places : ~PulseAhead(i)'
      BY <3>1 DEF PulseAhead, Ahead, Between, Places
    <3>3. OnePulse' /\ ReadsBehind'
      BY <3>1, <3>2 DEF OnePulse, ReadsBehind
    <3> QED BY <1>1, <3>1, <3>3 DEF PulseInv, Ordered, TimeIsNext
  <2>2. CASE gnss_phase # "baud"
    BY <1>2, <1>4, <2>2 DEF Gnss!SendMessage, Gnss!task, Gnss!time, Gnss!receiver
  <2> QED BY <2>1, <2>2
<1>5. CASE Gnss!Answer
  <2>1. UNCHANGED <<gnss_gnssRxIndex, gnss_upto, gnss_pulse, gnss_gnssTime, gnss_validTime,
                    gnss_misdated, gnss_announced>>
    BY <1>5 DEF Gnss!Answer, Gnss!task, Gnss!time, Gnss!receiver
  <2>2. \/ \E got \in Gnss!Messages : Gnss!Receive(got) /\ got.kind # "tp"
        \/ UNCHANGED <<gnss_slots, gnss_writeIndex, gnss_disordered>>
    BY <1>1, <1>5, Answered DEF ConfigInv, Gnss!Message
  <2>3. ASSUME NEW got \in Gnss!Messages, Gnss!Receive(got), got.kind # "tp" PROVE PulseInv'
    BY <1>1, <2>1, <2>3, PulseArrives
  <2>4. CASE UNCHANGED <<gnss_slots, gnss_writeIndex, gnss_disordered>>
    BY <1>2, <2>1, <2>4
  <2> QED BY <2>2, <2>3, <2>4
<1>6. CASE Gnss!WaitForAck
  <2>1. /\ UNCHANGED <<gnss_slots, gnss_writeIndex, gnss_pulse, gnss_announced, gnss_misdated,
                       gnss_disordered, gnss_upto, gnss_gnssTime, gnss_validTime>>
        /\ gnss_asked # "none"
        /\ \/ UNCHANGED gnss_gnssRxIndex
           \/ /\ gnss_gnssRxIndex # gnss_writeIndex
              /\ gnss_gnssRxIndex' = (gnss_gnssRxIndex + 1) % LEN
    BY <1>6 DEF Gnss!WaitForAck, Gnss!WaitReads, Gnss!WaitEnds, Gnss!Unread, Gnss!ring,
      Gnss!task, Gnss!time, Gnss!receiver
  <2>2. gnss_upto = LEN
    BY <1>1, <2>1 DEF ConfigInv, Stage
  <2>3. CASE UNCHANGED gnss_gnssRxIndex
    BY <1>2, <2>1, <2>3
  <2>4. CASE /\ gnss_gnssRxIndex # gnss_writeIndex
             /\ gnss_gnssRxIndex' = (gnss_gnssRxIndex + 1) % LEN
    <3>1. \A i \in Places : Ahead(i)' => Ahead(i)
      BY <1>1, <2>1, <2>4, AheadShrinks DEF Ahead, GnssKinds
    <3>2. \A i \in Places : PulseAhead(i)' => PulseAhead(i)
      BY <2>1, <3>1 DEF PulseAhead
    <3>3. SUFFICES ASSUME Ordered PROVE Ordered'
      BY <1>1, <2>1 DEF PulseInv
    <3>4. OnePulse' /\ ReadsBehind'
      BY <2>1, <2>2, <3>2, <3>3 DEF Ordered, OnePulse, ReadsBehind
    <3> QED BY <2>1, <3>3, <3>4 DEF Ordered, TimeIsNext
  <2> QED BY <2>1, <2>3, <2>4
<1>7. CASE Gnss!DeInit
  BY <1>2, <1>7 DEF Gnss!DeInit, Gnss!time, Gnss!receiver
<1>8. ASSUME NEW kind \in Gnss!UBX_MSG_ALL, Gnss!Measures(kind) PROVE PulseInv'
  <2>1. /\ UNCHANGED <<gnss_gnssRxIndex, gnss_upto, gnss_pulse, gnss_gnssTime, gnss_validTime,
                       gnss_misdated, gnss_announced>>
        /\ gnss_epoch <= MaxTow /\ Gnss!Arrives(Gnss!Message(kind, gnss_epoch))
    BY <1>8 DEF Gnss!Measures, Gnss!task, Gnss!time
  <2>2. gnss_epoch \in Nat /\ kind \in {"pvt", "vel"}
    BY <1>1, <2>1 DEF GnssKinds, Gnss!UBX_MSG_ALL
  <2>3. /\ Gnss!Message(kind, gnss_epoch) \in Gnss!Messages
        /\ Gnss!Message(kind, gnss_epoch).kind = kind
    BY <2>2, Sent
  <2>4. PICK got \in Gnss!Messages : Gnss!Receive(got) /\ got.kind # "tp"
    BY <2>1, <2>2, <2>3, Arrived
  <2> QED BY <1>1, <2>1, <2>4, PulseArrives
<1>9. CASE Gnss!Announces
  <2>1. /\ UNCHANGED <<gnss_gnssRxIndex, gnss_upto, gnss_pulse, gnss_gnssTime, gnss_validTime,
                       gnss_misdated>>
        /\ gnss_announced = "no" /\ gnss_announced' = "unread" /\ gnss_pulse < MaxTow
        /\ Gnss!Arrives(Gnss!Message("tp", gnss_pulse + 1))
    BY <1>9 DEF Gnss!Announces, Gnss!task, Gnss!time
  <2>2. gnss_pulse + 1 \in Nat
    BY <1>1, <2>1 DEF GnssKinds
  <2>3. /\ Gnss!Message("tp", gnss_pulse + 1) \in Gnss!Messages
        /\ Gnss!Message("tp", gnss_pulse + 1).n = gnss_pulse + 1
    BY <2>2, Sent
  <2>4. PICK got \in Gnss!Messages :
          Gnss!Receive(got) /\ (got.kind = "tp" => got.n = gnss_pulse + 1)
    BY <2>1, <2>3, Arrived
  <2> QED BY <1>1, <2>1, <2>4, PulseArrives
<1>10. CASE Gnss!Timepulse
  <2>1. /\ UNCHANGED <<gnss_slots, gnss_writeIndex, gnss_gnssRxIndex, gnss_upto, gnss_disordered>>
        /\ gnss_pulse' = gnss_pulse + 1 /\ gnss_announced' = "no"
        /\ gnss_misdated' = (gnss_misdated \/ (gnss_validTime /\ gnss_gnssTime # gnss_pulse'))
        /\ gnss_validTime' = FALSE /\ Gnss!InTime
    BY <1>10 DEF Gnss!Timepulse, Gnss!AfterPulse, Gnss!ring, Gnss!task
  <2>2. SUFFICES ASSUME Ordered PROVE Ordered'
    BY <1>1, <2>1 DEF PulseInv
  <2>3. ASSUME NEW i \in Places, PulseAhead(i) PROVE FALSE
    <3>1. /\ gnss_slots[i].kind = "tp" /\ gnss_slots[i].n = gnss_pulse + 1
          /\ gnss_announced = "unread"
      BY <2>2, <2>3 DEF Ordered, OnePulse, PulseAhead
    <3>2. gnss_slots[i] \in Gnss!Messages
      BY <1>1 DEF GnssKinds
    <3>3. gnss_slots[i] = Gnss!Message("tp", gnss_pulse + 1)
      BY <3>1, <3>2 DEF Gnss!Messages, Gnss!Message
    <3> QED BY <2>1, <3>1, <3>3 DEF Gnss!InTime, Places
  <2>4. \A i \in Places : ~PulseAhead(i)'
    BY <2>1, <2>3 DEF PulseAhead, Ahead
  <2>5. ~gnss_misdated'
    <3>1. ~gnss_misdated /\ ~(gnss_validTime /\ gnss_gnssTime # gnss_pulse')
      BY <2>1, <2>2 DEF Ordered, TimeIsNext
    <3> QED BY <2>1, <3>1, Zenon
  <2>6. ReadsBehind'
    BY <2>1, <2>2 DEF Ordered, ReadsBehind, Ahead
  <2> QED BY <2>1, <2>4, <2>5, <2>6 DEF Ordered, OnePulse, TimeIsNext
<1>11. CASE Gnss!UpdateBegins \/ Gnss!UpdateEnds
  BY <1>2, <1>11 DEF Gnss!UpdateBegins, Gnss!UpdateEnds, Gnss!ring, Gnss!time, Gnss!receiver
<1>12. CASE Gnss!UpdateReads
  <2>1. UNCHANGED gnss_disordered
    BY <1>12 DEF Gnss!UpdateReads
  <2> QED BY <1>1, <1>12, <2>1, PulseRead DEF PulseInv
<1>13. CASE Gnss!UartError
  <2>1. \/ UNCHANGED <<gnss_writeIndex, gnss_disordered>>
        \/ gnss_disordered' = TRUE
    BY <1>13 DEF Gnss!UartError
  <2>2. CASE UNCHANGED <<gnss_writeIndex, gnss_disordered>>
    BY <1>2, <1>13, <2>2 DEF Gnss!UartError, Gnss!task, Gnss!time, Gnss!receiver
  <2> QED BY <2>1, <2>2 DEF PulseInv
<1>14. CASE UNCHANGED Gnss!vars
  BY <1>2, <1>14 DEF Gnss!vars, Gnss!ring, Gnss!task, Gnss!time, Gnss!receiver
<1> QED BY <1>3, <1>4, <1>5, <1>6, <1>7, <1>8, <1>9, <1>10, <1>11, <1>12, <1>13, <1>14
  DEF Gnss!Next, Gnss!Initialise, Gnss!Update, Gnss!Receiver

LEMMA GnssBegins == Gnss!Init => GnssInv
<1> SUFFICES ASSUME Gnss!Init PROVE GnssInv
  OBVIOUS
<1>1. /\ LEN \in Nat /\ LEN > 0 /\ Settings \in Nat /\ MaxTow \in Nat
      /\ 0 \in Places /\ 0 \in 0..Settings /\ 0 \in 0..MaxTow /\ 1 \in 1..MaxTow + 1
      /\ LEN \in 0..LEN
  BY GnssAssumption DEF Places
<1>2. GnssKinds
  <2>1. gnss_slots \in [Places -> Gnss!Messages]
    <3>1. Gnss!Noise \in Gnss!Messages
      BY <1>1 DEF Gnss!Noise, Gnss!Message, Gnss!Messages
    <3>2. gnss_slots = [i \in Places |-> Gnss!Noise]
      BY DEF Gnss!Init, Places
    <3> QED BY <3>1, <3>2
  <2>2. gnss_gnssData \in [Gnss!UBX_MSG_ALL -> Nat]
    BY <1>1 DEF Gnss!Init
  <2> QED BY <1>1, <2>1, <2>2 DEF GnssKinds, Gnss!Init
<1>3. ConfigInv
  BY <1>1 DEF Gnss!Init, ConfigInv, Stage, Starting, FirstsTaken, Listening, AllTaken
<1>4. EpochInv
  BY DEF EpochInv, Gnss!Init
<1>5. PulseInv
  <2>1. gnss_writeIndex = 0 /\ gnss_gnssRxIndex = 0 /\ gnss_upto = LEN
    BY DEF Gnss!Init
  <2>2. \A i \in Places : ~PulseAhead(i)
    BY <2>1 DEF PulseAhead, Ahead, Between, Places
  <2>3. ~gnss_validTime /\ ~gnss_misdated
    BY DEF Gnss!Init
  <2> QED BY <2>1, <2>2, <2>3 DEF PulseInv, Ordered, OnePulse, ReadsBehind, TimeIsNext
<1> QED BY <1>2, <1>3, <1>4, <1>5 DEF GnssInv

(* ACTIVE mode records with a receiver that took every setting, as long as   *)
(* no time-out came before its answer, and that took the first setting of    *)
(* each class and id after a late answer too; what is reported is of one     *)
(* epoch; and a pulse has the time announced for it.  The first and the last *)
(* until the reader is lapped or the reception begins again under it         *)
(* (gnss.c:576-741, 743-943, 1017-1084).                                     *)
THEOREM MeasurementsAlwaysRight == Gnss!Spec => []MeasurementsRight
<1>1. GnssInv => MeasurementsRight
  BY DEF GnssInv, ConfigInv, FirstsTaken, AllTaken, EpochInv, PulseInv, Ordered,
         MeasurementsRight, Gnss!MeasurementsRight, Gnss!Configured, Gnss!DataIsOneEpoch,
         Gnss!PulseHasItsTime
<1>2. GnssInv /\ [Gnss!Next]_(Gnss!vars) => GnssInv'
  BY ReceiverKindsNext, StageNext, FirstsNext, AllNext, EpochNext, PulseNext
  DEF GnssInv, ConfigInv
<1> QED BY <1>1, <1>2, GnssBegins, PTL DEF Gnss!Spec

(***************************************************************************)
(* Calendar                                                                *)
(***************************************************************************)
(* The two centuries for which the algorithms are made, and the day each     *)
(* year begins with. *)
Years  == 2000..2199
Months == 1..12
YearLength(y) == 365 + Days!is_leap_year(y)
NewYear(y)    == 365 * (y - 2000) + Days!Leaps(y - 2000)

(* A year is one of a cycle of four of a century. *)
LEMMA YearInCycle ==
  ASSUME NEW y \in Years
  PROVE  \E c \in 0..1, q \in 0..24, r \in 0..3 : y = 2000 + 100 * c + 4 * q + r
<1> DEFINE n == y - 2000
<1>1. CASE n < 100
  <2>1. n \div 4 \in 0..24 /\ n % 4 \in 0..3 /\ n = 100 * 0 + 4 * (n \div 4) + (n % 4)
    BY <1>1 DEF Years
  <2> QED BY <2>1 DEF Years
<1>2. CASE n >= 100
  <2> DEFINE m == n - 100
  <2>1. m \div 4 \in 0..24 /\ m % 4 \in 0..3 /\ n = 100 * 1 + 4 * (m \div 4) + (m % 4)
    BY <1>2 DEF Years
  <2> QED BY <2>1 DEF Years
<1> QED BY <1>1, <1>2 DEF Years

(* Whether such a year is a leap year, and the leap days before it. *)
LEMMA LeapYears ==
  ASSUME NEW c \in 0..1, NEW q \in 0..24, NEW r \in 0..3, NEW y,
         y = 2000 + 100 * c + 4 * q + r
  PROVE  /\ y \in Years
         /\ Days!is_leap_year(y) = IF r = 0 /\ (c = 0 \/ q > 0) THEN 1 ELSE 0
         /\ Days!Leaps(y - 2000) = IF c = 0 THEN q + (IF r > 0 THEN 1 ELSE 0)
                                   ELSE 25 + (IF r = 0 /\ q > 0 THEN q - 1 ELSE q)
<1> DEFINE n == y - 2000
<1>1. n \in 0..199 /\ y \in Years /\ n = 100 * c + 4 * q + r
  BY DEF Years
<1>2. y % 4 = r
  BY <1>1
<1>3. r = 0 => (y % 100 = 0 <=> q = 0)
  BY <1>1
<1>4. y \div 100 = 20 + c
  BY <1>1
<1>5. Days!is_leap_year(y) = IF r = 0 /\ (c = 0 \/ q > 0) THEN 1 ELSE 0
  BY <1>2, <1>3, <1>4 DEF Days!is_leap_year
<1> HIDE DEF n
<1>6. n > 0 => /\ (n - 1) \div 4 = 25 * c + q - (IF r = 0 THEN 1 ELSE 0)
               /\ (n - 1) \div 100 = IF c = 1 /\ (q > 0 \/ r > 0) THEN 1 ELSE 0
  BY <1>1
<1>7. n = 0 <=> c = 0 /\ q = 0 /\ r = 0
  BY <1>1
<1>8. Days!Leaps(n) = IF c = 0 THEN q + (IF r > 0 THEN 1 ELSE 0)
                      ELSE 25 + (IF r = 0 /\ q > 0 THEN q - 1 ELSE q)
  BY <1>1, <1>6, <1>7 DEF Days!Leaps
<1> QED BY <1>1, <1>5, <1>8 DEF n

(* A year begins when the one before it has ended. *)
LEMMA NextNewYear ==
  ASSUME NEW y \in 2000..2198
  PROVE  NewYear(y + 1) = NewYear(y) + YearLength(y) /\ NewYear(y) \in Nat
<1>1. PICK c \in 0..1, q \in 0..24, r \in 0..3 : y = 2000 + 100 * c + 4 * q + r
  BY YearInCycle DEF Years
<1>2. /\ Days!is_leap_year(y) = IF r = 0 /\ (c = 0 \/ q > 0) THEN 1 ELSE 0
      /\ Days!Leaps(y - 2000) = IF c = 0 THEN q + (IF r > 0 THEN 1 ELSE 0)
                         ELSE 25 + (IF r = 0 /\ q > 0 THEN q - 1 ELSE q)
  BY <1>1, LeapYears
<1>3. CASE r < 3
  <2>1. r + 1 \in 0..3 /\ y + 1 = 2000 + 100 * c + 4 * q + (r + 1)
    BY <1>1, <1>3
  <2>2. Days!Leaps((y + 1) - 2000) = IF c = 0 THEN q + 1 ELSE 25 + q
    BY <2>1, LeapYears
  <2> QED BY <1>2, <1>3, <2>2 DEF NewYear, YearLength
<1>4. CASE r = 3 /\ q < 24
  <2>1. q + 1 \in 0..24 /\ 0 \in 0..3 /\ y + 1 = 2000 + 100 * c + 4 * (q + 1) + 0
    BY <1>1, <1>4
  <2>2. Days!Leaps((y + 1) - 2000) = IF c = 0 THEN q + 1 ELSE 25 + q
    BY <2>1, LeapYears
  <2> QED BY <1>2, <1>4, <2>2 DEF NewYear, YearLength
<1>5. CASE r = 3 /\ q = 24
  <2>1. c = 0 /\ y + 1 = 2000 + 100 * 1 + 4 * 0 + 0
    BY <1>1, <1>5
  <2>2. Days!Leaps((y + 1) - 2000) = 25
    BY <2>1, LeapYears
  <2> QED BY <1>2, <1>5, <2>1, <2>2 DEF NewYear, YearLength
<1> QED BY <1>3, <1>4, <1>5

(* gmtime_r finds the year and the day in it.  On the first of January after *)
(* a cycle that was cut short it takes the year for a common one.            *)
LEMMA YearFound ==
  ASSUME NEW y \in Years, NEW yday \in Nat, yday < YearLength(y)
  PROVE  LET f == Days!YearOf(NewYear(y) + yday) IN
         /\ f.year = y - 2000 /\ f.yday = yday
         /\ f.leap = Days!is_leap_year(y) \/ (f.leap = 0 /\ yday = 0)
<1>1. PICK c \in 0..1, q \in 0..24, r \in 0..3 : y = 2000 + 100 * c + 4 * q + r
  BY YearInCycle
<1>2. /\ Days!is_leap_year(y) = IF r = 0 /\ (c = 0 \/ q > 0) THEN 1 ELSE 0
      /\ Days!Leaps(y - 2000) = IF c = 0 THEN q + (IF r > 0 THEN 1 ELSE 0)
                         ELSE 25 + (IF r = 0 /\ q > 0 THEN q - 1 ELSE q)
  BY <1>1, LeapYears
<1> DEFINE days    == NewYear(y) + yday
           leap    == Days!is_leap_year(y)
           century == 100 * (days \div 36525)
           years   == century + 4 * ((days % 36525) \div 1461)
           inCycle == ((days % 36525) % 1461) + Days!Skipped(years)
           lp      == IF years = 100 THEN 0 ELSE 1
<1>3. Days!YearOf(days) =
        IF inCycle > 364 + lp
        THEN [year |-> years + (inCycle - lp) \div 365, yday |-> (inCycle - lp) % 365, leap |-> 0]
        ELSE [year |-> years, yday |-> inCycle, leap |-> lp]
  BY DEF Days!YearOf
<1>4. yday < 365 + leap /\ leap \in {0, 1}
  BY <1>2 DEF YearLength
<1> HIDE DEF leap
<1>5. CASE c = 0
  <2> DEFINE inside == IF r = 0 THEN yday ELSE 365 * r + 1 + yday
  <2>1. CASE r = 0
    <3>1. y - 2000 = 4 * q /\ Days!Leaps(y - 2000) = q /\ leap = 1
      BY <1>1, <1>2, <1>5, <2>1 DEF leap
    <3>2. days = 1461 * q + yday
      BY <3>1 DEF NewYear
    <3>3. inside \in 0..1460 /\ days = 1461 * q + inside
      BY <1>4, <2>1, <3>1, <3>2
    <3> HIDE DEF days, inside
    <3>4. days \div 36525 = 0 /\ days % 36525 = days
      BY <3>3
    <3>5. days \div 1461 = q /\ days % 1461 = inside
      BY <3>3
    <3>6. years = 4 * q /\ lp = 1 /\ inCycle = inside
      BY <3>3, <3>4, <3>5 DEF Days!Skipped
    <3> HIDE DEF years, lp, inCycle
    <3>7. inCycle = yday /\ ~(inCycle > 365)
      BY <1>4, <2>1, <3>1, <3>6 DEF inside
    <3> QED BY <1>3, <3>1, <3>6, <3>7 DEF days, leap
  <2>2. CASE r > 0
    <3>1. y - 2000 = 4 * q + r /\ Days!Leaps(y - 2000) = q + 1 /\ leap = 0
      BY <1>1, <1>2, <1>5, <2>2 DEF leap
    <3>2. days = 1461 * q + 365 * r + 1 + yday
      BY <3>1 DEF NewYear
    <3>3. inside \in 0..1460 /\ days = 1461 * q + inside
      BY <1>4, <2>2, <3>1, <3>2
    <3> HIDE DEF days, inside
    <3>4. days \div 36525 = 0 /\ days % 36525 = days
      BY <3>3
    <3>5. days \div 1461 = q /\ days % 1461 = inside
      BY <3>3
    <3>6. years = 4 * q /\ lp = 1 /\ inCycle = inside
      BY <3>3, <3>4, <3>5 DEF Days!Skipped
    <3> HIDE DEF years, lp, inCycle
    <3>7. inCycle - 1 = 365 * r + yday /\ yday < 365 /\ inCycle \in 0..1460
      BY <1>4, <2>2, <3>1, <3>3, <3>6 DEF inside
    <3>8. (inCycle - 1) \div 365 = r /\ (inCycle - 1) % 365 = yday /\ inCycle > 365
      BY <2>2, <3>7
    <3> QED BY <1>3, <3>1, <3>6, <3>8 DEF days, leap
  <2> QED BY <2>1, <2>2
<1>6. CASE c = 1 /\ q = 0
  <2>1. days = 36525 + 365 * r + yday /\ leap = 0 /\ yday < 365
    BY <1>1, <1>2, <1>4, <1>6 DEF NewYear, leap
  <2> HIDE DEF days
  <2>2. days \div 36525 = 1 /\ days % 36525 = 365 * r + yday
    BY <2>1
  <2>3. (days % 36525) \div 1461 = 0 /\ (days % 36525) % 1461 = 365 * r + yday
    BY <2>1, <2>2
  <2>4. years = 100 /\ lp = 0 /\ inCycle = 365 * r + yday
    BY <2>2, <2>3 DEF Days!Skipped
  <2> HIDE DEF years, lp, inCycle
  <2>5. CASE r = 0
    BY <1>1, <1>3, <1>6, <2>1, <2>4, <2>5 DEF days, leap
  <2>6. CASE r > 0
    <3>1. inCycle \div 365 = r /\ inCycle % 365 = yday /\ inCycle > 364
      BY <2>1, <2>4, <2>6
    <3> QED BY <1>1, <1>3, <1>6, <2>1, <2>4, <2>6, <3>1 DEF days, leap
  <2> QED BY <2>5, <2>6
<1>7. CASE c = 1 /\ q > 0 /\ r = 0 /\ yday = 0
  <2>1. days = 36525 + 1461 * (q - 1) + 1460 /\ leap = 1
    BY <1>1, <1>2, <1>7 DEF NewYear, leap
  <2> HIDE DEF days
  <2>2. days \div 36525 = 1 /\ days % 36525 = 1461 * (q - 1) + 1460
    BY <1>7, <2>1
  <2>3. (days % 36525) \div 1461 = q - 1 /\ (days % 36525) % 1461 = 1460
    BY <1>7, <2>2
  <2>4. years = 96 + 4 * q /\ inCycle = 1460 + lp /\ inCycle > 364 + lp
    BY <1>7, <2>2, <2>3 DEF Days!Skipped
  <2> HIDE DEF years, lp, inCycle
  <2>5. lp \in {0, 1}
    BY DEF lp
  <2>6. (inCycle - lp) \div 365 = 4 /\ (inCycle - lp) % 365 = 0
    BY <2>4, <2>5
  <2> QED BY <1>1, <1>3, <1>7, <2>4, <2>6 DEF days
<1>8. CASE c = 1 /\ q > 0 /\ r = 0 /\ yday > 0
  <2>1. days = 36525 + 1461 * q + (yday - 1) /\ leap = 1 /\ yday - 1 \in 0..364
    BY <1>1, <1>2, <1>4, <1>8 DEF NewYear, leap
  <2> HIDE DEF days
  <2>2. days \div 36525 = 1 /\ days % 36525 = 1461 * q + (yday - 1)
    BY <1>8, <2>1
  <2>3. (days % 36525) \div 1461 = q /\ (days % 36525) % 1461 = yday - 1
    BY <1>8, <2>1, <2>2
  <2>4. years = 100 + 4 * q /\ inCycle = yday /\ lp = 1
    BY <1>8, <2>2, <2>3 DEF Days!Skipped
  <2> HIDE DEF years, lp, inCycle
  <2> QED BY <1>1, <1>3, <1>8, <2>1, <2>4 DEF days, leap
<1>9. CASE c = 1 /\ q > 0 /\ r > 0
  <2>1. days = 36525 + 1461 * q + (365 * r + yday) /\ leap = 0 /\ yday < 365
    BY <1>1, <1>2, <1>4, <1>9 DEF NewYear, leap
  <2> HIDE DEF days
  <2>2. days \div 36525 = 1 /\ days % 36525 = 1461 * q + (365 * r + yday)
    BY <1>9, <2>1
  <2>3. (days % 36525) \div 1461 = q /\ (days % 36525) % 1461 = 365 * r + yday
    BY <1>9, <2>1, <2>2
  <2>4. years = 100 + 4 * q /\ inCycle = 365 * r + yday + 1 /\ lp = 1
    BY <1>9, <2>2, <2>3 DEF Days!Skipped
  <2> HIDE DEF years, lp, inCycle
  <2>5. (inCycle - 1) \div 365 = r /\ (inCycle - 1) % 365 = yday /\ inCycle > 365
    BY <1>9, <2>1, <2>4
  <2> QED BY <1>1, <1>3, <1>9, <2>1, <2>4, <2>5 DEF days, leap
<1> QED BY <1>5, <1>6, <1>7, <1>8, <1>9

(* A month begins when the one before it has ended, and the year with them. *)
LEMMA MonthsFollow ==
  ASSUME NEW y \in Years, NEW m \in Months
  PROVE  /\ Days!Length(m, y) \in 28..31
         /\ Days!DaysBefore(y, m) \in 0..335
         /\ m < 12 => Days!DaysBefore(y, m + 1) =
                        Days!DaysBefore(y, m) + Days!Length(m, y)
         /\ Days!DaysBefore(y, 1) = 0
         /\ Days!DaysBefore(y, 12) + Days!Length(12, y) = YearLength(y)
<1> DEFINE leap == Days!is_leap_year(y)
<1>1. /\ leap \in {0, 1} /\ y \in Nat
      /\ leap = 1 <=> y % 400 = 0 \/ (y % 4 = 0 /\ y % 100 # 0)
  <2>1. (y \div 100) % 4 = 0 /\ y % 100 = 0 <=> y % 400 = 0
    BY DEF Years
  <2>2. y % 100 = 0 => y % 4 = 0
    BY DEF Years
  <2> QED BY <2>1, <2>2 DEF Days!is_leap_year, Years
<1>2. YearLength(y) = 365 + leap
  BY DEF YearLength
<1> HIDE DEF leap
<1>3. Days!Length(2, y) = 28 + leap
  BY <1>1 DEF Days!Length
<1>4. \A k \in {4, 6, 9, 11} : Days!Length(k, y) = 30
  BY DEF Days!Length
<1>5. \A k \in {1, 3, 5, 7, 8, 10, 12} : Days!Length(k, y) = 31
  BY DEF Days!Length
<1>6. Days!DaysBefore(y, 1) = 0 /\ Days!DaysBefore(y, 2) = 31
  BY DEF Days!DaysBefore
<1>7. /\ Days!DaysBefore(y, 3) = 59 + leap /\ Days!DaysBefore(y, 4) = 90 + leap
      /\ Days!DaysBefore(y, 5) = 120 + leap /\ Days!DaysBefore(y, 6) = 151 + leap
      /\ Days!DaysBefore(y, 7) = 181 + leap
  BY <1>1 DEF Days!DaysBefore, leap
<1>8. /\ Days!DaysBefore(y, 8) = 212 + leap /\ Days!DaysBefore(y, 9) = 243 + leap
      /\ Days!DaysBefore(y, 10) = 273 + leap /\ Days!DaysBefore(y, 11) = 304 + leap
      /\ Days!DaysBefore(y, 12) = 334 + leap
  BY <1>1 DEF Days!DaysBefore, leap
<1>9. m \in {2} \/ m \in {4, 6, 9, 11} \/ m \in {1, 3, 5, 7, 8, 10, 12}
  BY DEF Months
<1> QED BY <1>1, <1>2, <1>3, <1>4, <1>5, <1>6, <1>7, <1>8, <1>9

(* From March on a month is the half of a pair, after one of two groups. *)
LEMMA MonthPairs ==
  ASSUME NEW y \in Years, NEW m \in 3..12
  PROVE  \E a \in 0..1, b \in 0..2, e \in 0..1 :
           /\ m = 3 + 5 * a + 2 * b + e /\ ~(b = 2 /\ e = 1)
           /\ Days!DaysBefore(y, m) =
                59 + Days!is_leap_year(y) + 153 * a + 61 * b + 31 * e
           /\ e = 1 => Days!Length(m, y) = 30
<1> DEFINE a == (m - 3) \div 5
           b == ((m - 3) % 5) \div 2
           e == ((m - 3) % 5) % 2
<1>1. /\ a \in 0..1 /\ b \in 0..2 /\ e \in 0..1 /\ m = 3 + 5 * a + 2 * b + e
      /\ ~(b = 2 /\ e = 1) /\ (a = 1 <=> m - 3 > 4)
  OBVIOUS
<1>2. Days!is_leap_year(y) \in {0, 1}
  BY DEF Days!is_leap_year
<1>3. Days!DaysBefore(y, m) =
        59 + Days!is_leap_year(y) + (IF m - 3 > 4 THEN 153 ELSE 0) + b * 61 + e * 31
  BY DEF Days!DaysBefore
<1>4. e = 1 => m \in {4, 6, 9, 11}
  OBVIOUS
<1>5. e = 1 => Days!Length(m, y) = 30
  BY <1>4 DEF Days!Length
<1> HIDE DEF a, b, e
<1>6. Days!DaysBefore(y, m) =
        59 + Days!is_leap_year(y) + 153 * a + 61 * b + 31 * e
  BY <1>1, <1>2, <1>3
<1> QED BY <1>1, <1>5, <1>6

(* gmtime_r finds the date of every day of the two centuries (time.c), also  *)
(* of those that a count of 32 bits does not reach.                          *)
THEOREM DateFound ==
  ASSUME NEW y \in Years, NEW m \in Months, NEW d \in 1..Days!Length(m, y)
  PROVE  /\ Days!mk_gmtime(y, m, d) \in Nat
         /\ Days!gmtime_r(Days!mk_gmtime(y, m, d)) = <<y, m, d>>
<1> DEFINE before == Days!DaysBefore(y, m)
           yday   == before + d - 1
           leap   == Days!is_leap_year(y)
           f      == Days!YearOf(NewYear(y) + yday)
           rest   == f.yday - (59 + f.leap)
           pair   == rest % 153
<1>1. /\ before \in 0..335 /\ leap \in {0, 1} /\ YearLength(y) = 365 + leap /\ y \in Nat
      /\ Days!Length(m, y) \in 28..31 /\ d \in 1..31 /\ d <= Days!Length(m, y)
  <2>1. leap \in {0, 1} /\ YearLength(y) = 365 + leap /\ y \in Nat
    BY DEF Days!is_leap_year, YearLength, Years
  <2>2. before \in 0..335 /\ Days!Length(m, y) \in 28..31
    BY MonthsFollow DEF Months
  <2> QED BY <2>1, <2>2
<1> HIDE DEF leap, before
<1>2. yday \in Nat /\ yday < YearLength(y)
  <2>1. CASE m = 12
    <3>1. before + Days!Length(m, y) = YearLength(y)
      BY <2>1, MonthsFollow DEF before
    <3> QED BY <1>1, <3>1
  <2>2. CASE m < 12
    <3>1. m + 1 \in Months /\ Days!DaysBefore(y, m + 1) = before + Days!Length(m, y)
      BY <2>2, MonthsFollow DEF Months, before
    <3>2. Days!DaysBefore(y, m + 1) \in 0..335
      BY <3>1, MonthsFollow
    <3> QED BY <1>1, <3>1, <3>2
  <2> QED BY <2>1, <2>2 DEF Months
<1>3. /\ f.year = y - 2000 /\ f.yday = yday
      /\ f.leap = leap \/ (f.leap = 0 /\ yday = 0)
  BY <1>2, YearFound DEF leap
<1>4. NewYear(y) \in Nat /\ Days!mk_gmtime(y, m, d) = NewYear(y) + yday
  <2>1. Days!Leaps(y - 2000) \in Nat
    BY DEF Days!Leaps, Years
  <2> QED BY <1>1, <2>1 DEF NewYear, Days!mk_gmtime, Years, before
<1>5. Days!gmtime_r(NewYear(y) + yday) =
        IF f.yday < 59 + f.leap
        THEN <<2000 + f.year, f.yday \div 31 + 1, (f.yday % 31) + 1>>
        ELSE <<2000 + f.year,
               3 + 5 * (rest \div 153) + 2 * (pair \div 61) + ((pair % 61) \div 31),
               ((pair % 61) % 31) + 1>>
  BY DEF Days!gmtime_r
<1> HIDE DEF f
<1>6. CASE m \in {1, 2}
  <2>1. before = 31 * (m - 1)
    BY <1>6 DEF Days!DaysBefore, before
  <2>2. m = 2 => Days!Length(m, y) = 28 + leap
    <3>1. Days!Length(2, y) + 31 = Days!DaysBefore(y, 3)
      <4>1. 2 \in Months /\ Days!DaysBefore(y, 2) = 31
        BY DEF Months, Days!DaysBefore
      <4>2. Days!DaysBefore(y, 2 + 1) = Days!DaysBefore(y, 2) + Days!Length(2, y)
        BY <4>1, MonthsFollow
      <4>3. Days!Length(2, y) \in 28..31
        BY <4>1, MonthsFollow
      <4> QED BY <4>1, <4>2, <4>3
    <3>2. Days!DaysBefore(y, 3) = 59 + leap
      BY <1>1 DEF Days!DaysBefore, leap
    <3>3. Days!Length(2, y) \in 28..31
      BY MonthsFollow DEF Months
    <3> QED BY <1>1, <3>1, <3>2, <3>3
  <2>3. yday < 59 + leap /\ yday \div 31 + 1 = m /\ (yday % 31) + 1 = d
    <3>1. CASE m = 1
      BY <1>1, <2>1, <3>1
    <3>2. CASE m = 2
      BY <1>1, <2>1, <2>2, <3>2
    <3> QED BY <1>6, <3>1, <3>2
  <2> QED BY <1>1, <1>3, <1>4, <1>5, <2>3
<1>7. CASE m \in 3..12
  <2>1. PICK a \in 0..1, b \in 0..2, e \in 0..1 :
          /\ m = 3 + 5 * a + 2 * b + e /\ ~(b = 2 /\ e = 1)
          /\ before = 59 + leap + 153 * a + 61 * b + 31 * e
          /\ e = 1 => Days!Length(m, y) = 30
    BY <1>7, MonthPairs DEF before, leap
  <2> DEFINE half   == 31 * e + (d - 1)
             inside == 61 * b + half
  <2>2. half \in 0..60 /\ (b = 2 => half \in 0..30) /\ inside \in 0..152
    BY <1>1, <2>1
  <2>3. yday = 59 + leap + 153 * a + inside
    BY <1>1, <2>1
  <2>4. f.leap = leap /\ ~(f.yday < 59 + f.leap) /\ rest = 153 * a + inside
    BY <1>1, <1>3, <2>2, <2>3
  <2> HIDE DEF rest, inside, half
  <2>5. rest \div 153 = a /\ pair = inside
    BY <2>2, <2>4
  <2>6. inside \div 61 = b /\ inside % 61 = half
    BY <2>2 DEF inside
  <2>7. half \div 31 = e /\ half % 31 = d - 1
    <3>1. d - 1 \in 0..30
      BY <1>1
    <3> QED BY <3>1 DEF half
  <2> HIDE DEF pair, yday
  <2>8. 3 + 5 * (rest \div 153) + 2 * (pair \div 61) + ((pair % 61) \div 31) = m
    BY <2>1, <2>5, <2>6, <2>7
  <2>9. ((pair % 61) % 31) + 1 = d
    BY <1>1, <2>5, <2>6, <2>7
  <2>10. ~(f.yday < 59 + f.leap) /\ f.year = y - 2000 /\ 2000 + (y - 2000) = y
    BY <1>1, <1>3, <2>4
  <2>11. Days!gmtime_r(NewYear(y) + yday) = <<2000 + f.year, 3 + 5 * (rest \div 153) + 2 * (pair \div 61)
                                   + ((pair % 61) \div 31), ((pair % 61) % 31) + 1>>
    BY <1>5, <2>10
  <2> HIDE DEF rest
  <2>12. Days!gmtime_r(NewYear(y) + yday) = <<y, m, d>>
    BY <2>8, <2>9, <2>10, <2>11
  <2> QED BY <1>2, <1>4, <2>12
<1> QED BY <1>6, <1>7 DEF Months

(* The state holds a date of the calendar, which mk_gmtime counts as the day. *)
Last == 49709

IsDate(day, y, m, d) ==
  /\ day \in 0..Last /\ m \in Months /\ y \in 2000..2136
  /\ d \in 1..Days!Length(m, y)
  /\ Days!mk_gmtime(y, m, d) = day

CalInv == IsDate(cal_day, cal_year, cal_month, cal_mday)

(* The days to a date, counted from the beginning of its year. *)
LEMMA DaysCounted ==
  ASSUME NEW y \in Years, NEW m \in Months, NEW d \in 1..31
  PROVE  Days!mk_gmtime(y, m, d) = NewYear(y) + Days!DaysBefore(y, m) + d - 1
<1>1. Days!Leaps(y - 2000) \in Nat
  BY DEF Days!Leaps, Years
<1>2. Days!DaysBefore(y, m) \in 0..335
  BY MonthsFollow
<1> QED BY <1>1, <1>2 DEF NewYear, Days!mk_gmtime, Years

LEMMA CalNext == CalInv /\ [Days!Next]_(Days!vars) => CalInv'
<1>0. ASSUME CalInv, UNCHANGED Days!vars PROVE CalInv'
  <2>1. cal_day' = cal_day /\ cal_year' = cal_year /\ cal_month' = cal_month /\ cal_mday' = cal_mday
    BY <1>0 DEF Days!vars
  <2> QED BY <1>0, <2>1 DEF CalInv
<1> SUFFICES ASSUME CalInv, Days!Tomorrow PROVE CalInv'
  BY <1>0 DEF Days!Next
<1>1. cal_year \in Years /\ cal_year \in 2000..2136
  BY DEF CalInv, IsDate, Years
<1> DEFINE y == cal_year
           m == cal_month
           d == cal_mday
           before == Days!DaysBefore(y, m)
           length == Days!Length(m, y)
<1>2. /\ cal_day \in Nat /\ cal_day + 1 \in 0..Last /\ cal_day' = cal_day + 1
      /\ m \in Months /\ d \in 1..length /\ y \in Years /\ length \in 28..31 /\ before \in 0..335
      /\ cal_day = NewYear(y) + before + d - 1
  <2>1. Days!Leaps(y - 2000) \in Nat
    BY <1>1 DEF Days!Leaps, Years
  <2>2. cal_day < Last /\ cal_day' = cal_day + 1
    BY DEF Last, Days!Tomorrow
  <2>3. Last \in Nat
    BY DEF Last
  <2>4. cal_day + 1 \in 0..Last
    BY <2>2, <2>3 DEF CalInv, IsDate
  <2> QED BY <1>1, <2>1, <2>2, <2>4, MonthsFollow
           DEF CalInv, IsDate, Days!Tomorrow, NewYear, Days!mk_gmtime
<1>4. NewYear(y) \in Nat
  BY <1>1, NextNewYear
<1>5. CASE d < length
  <2>1. cal_mday' = d + 1 /\ cal_month' = m /\ cal_year' = y
    BY <1>5 DEF Days!Tomorrow
  <2>3. d + 1 \in 1..length /\ d + 1 \in 1..31
    BY <1>2, <1>5
  <2>2. Days!mk_gmtime(y, m, d + 1) = cal_day + 1
    <3>1. Days!mk_gmtime(y, m, d + 1) = NewYear(y) + before + (d + 1) - 1
      BY <1>2, <2>3, DaysCounted
    <3> QED BY <1>2, <1>4, <3>1
  <2>4. IsDate(cal_day + 1, y, m, d + 1)
    BY <1>1, <1>2, <2>2, <2>3 DEF IsDate
  <2> QED BY <1>2, <2>1, <2>4 DEF CalInv
<1>6. CASE ~(d < length) /\ m < 12
  <2>1. cal_mday' = 1 /\ cal_month' = m + 1 /\ cal_year' = y /\ m + 1 \in Months
    BY <1>2, <1>6 DEF Days!Tomorrow, Months
  <2>2. Days!DaysBefore(y, m + 1) = before + length /\ Days!Length(m + 1, y) \in 28..31
    BY <1>1, <1>2, <1>6, <2>1, MonthsFollow
  <2>3. Days!mk_gmtime(y, m + 1, 1) = cal_day + 1
    <3>1. Days!mk_gmtime(y, m + 1, 1) = NewYear(y) + (before + length) + 1 - 1
      BY <1>2, <2>1, <2>2, DaysCounted
    <3> QED BY <1>2, <1>4, <1>6, <3>1
  <2>4. IsDate(cal_day + 1, y, m + 1, 1)
    BY <1>1, <1>2, <2>1, <2>2, <2>3 DEF IsDate
  <2> QED BY <1>2, <2>1, <2>4 DEF CalInv
<1>7. CASE ~(d < length) /\ m = 12
  <2>1. cal_mday' = 1 /\ cal_month' = 1 /\ cal_year' = y + 1 /\ 1 \in Months
    BY <1>2, <1>7 DEF Days!Tomorrow, Months
  <2>2. before + length = YearLength(y) /\ NewYear(y + 1) = NewYear(y) + YearLength(y)
    BY <1>1, <1>2, <1>7, MonthsFollow, NextNewYear
  <2>3. cal_day + 1 = NewYear(y + 1)
    BY <1>2, <1>4, <1>7, <2>2
  <2>4. y + 1 \in 2000..2136 /\ y + 1 \in Years
    <3>1. CASE y = 2136
      <4>1. NewYear(2136 + 1) > Last /\ Last \in Nat
        BY DEF NewYear, Days!Leaps, Last
      <4> QED BY <1>2, <2>3, <3>1, <4>1
    <3> QED BY <1>1, <3>1 DEF Years
  <2>5. Days!DaysBefore(y + 1, 1) = 0 /\ Days!Length(1, y + 1) \in 28..31
    BY <2>1, <2>4, MonthsFollow
  <2>6. Days!mk_gmtime(y + 1, 1, 1) = cal_day + 1
    <3>1. Days!mk_gmtime(y + 1, 1, 1) = NewYear(y + 1) + 0 + 1 - 1
      BY <2>1, <2>4, <2>5, DaysCounted
    <3> QED BY <1>2, <2>3, <3>1
  <2>7. IsDate(cal_day + 1, y + 1, 1, 1)
    BY <1>2, <2>1, <2>4, <2>5, <2>6 DEF IsDate
  <2> QED BY <1>2, <2>1, <2>7 DEF CalInv
<1> QED BY <1>2, <1>5, <1>6, <1>7 DEF Months

LEMMA CalBegins == Days!Init => CalInv
<1> SUFFICES ASSUME Days!Init PROVE CalInv
  OBVIOUS
<1>1. 1 \in Months
  BY DEF Days!Init, Months
<1>2. Days!Length(1, 2000) = 31
  BY DEF Days!Length
<1>3. Days!mk_gmtime(2000, 1, 1) = 0
  BY DEF Days!mk_gmtime, Days!Leaps, Days!DaysBefore
<1>4. 0 \in 0..Last
  BY DEF Last
<1> QED BY <1>1, <1>2, <1>3, <1>4 DEF CalInv, IsDate, Days!Init

(* What GNSS says of the part of a second.                                   *)
Nanos == {n \in Int : -1000000000 <= n /\ n <= 1000000000}

RowIsNear(d, s, nano) ==
  LET n       == Days!Normalized(d, s, nano)
      seconds == (n.day - d) * Days!SecondsPerDay + n.sec - s
      late    == 1000000 * (1000 * seconds + n.millis) - nano
  IN n.millis \in 0..999 /\ seconds \in -1..1 /\ -500000 <= late /\ late <= 500000

(* A row of the log has the time of its solution to the nearest millisecond  *)
(* (normalizeGNSSTime), whatever the second of the day and the part of it.   *)
THEOREM RowTime ==
  ASSUME NEW d \in Nat, NEW s \in Int, NEW nano \in Nanos
  PROVE  RowIsNear(d, s, nano)
<1> DEFINE ms     == Days!Millis(nano)
           borrow == Days!Borrow(ms)
           total  == s + borrow
<1>1. /\ ms \in -1000..1000
      /\ -500000 <= 1000000 * ms - nano /\ 1000000 * ms - nano <= 500000
  <2>1. ASSUME NEW a \in Int, NEW m \in Int, a >= 0, m = a \div 1000000
        PROVE  1000000 * m <= a /\ a < 1000000 * m + 1000000
    BY <2>1
  <2>2. CASE nano >= 0
    <3>1. ms = (nano + 500000) \div 1000000 /\ ms \in Int
      BY <2>2 DEF Nanos, Days!Millis, Days!Trunc
    <3>2. 1000000 * ms <= nano + 500000 /\ nano + 500000 < 1000000 * ms + 1000000
      BY <2>1, <2>2, <3>1 DEF Nanos
    <3> HIDE DEF ms
    <3> QED BY <2>2, <3>1, <3>2 DEF Nanos
  <2>3. CASE nano < 0
    <3> DEFINE m == (499999 - nano) \div 1000000
    <3>1. ms = -m /\ m \in Int
      BY <2>3 DEF Nanos, Days!Millis, Days!Trunc
    <3>2. 1000000 * m <= 499999 - nano /\ 499999 - nano < 1000000 * m + 1000000
      BY <2>1, <2>3, <3>1 DEF Nanos
    <3> HIDE DEF ms, m
    <3> QED BY <2>3, <3>1, <3>2 DEF Nanos
  <2> QED BY <2>2, <2>3 DEF Nanos
<1> HIDE DEF ms
<1>2. borrow \in -1..1 /\ ms - 1000 * borrow \in 0..999
  BY <1>1 DEF Days!Borrow
<1> HIDE DEF borrow
<1> DEFINE quotient  == total \div Days!SecondsPerDay
           rest      == total % Days!SecondsPerDay
           midnights == quotient * Days!SecondsPerDay
<1>3. s \in Int /\ total \in Int /\ total - s = borrow
  <2>1. borrow \in Int
    BY <1>2
  <2> QED BY <2>1
<1> HIDE DEF total
<1>4. quotient \in Int /\ rest \in Int /\ midnights \in Int /\ midnights + rest = total
  <2>1. Days!SecondsPerDay = 86400
    BY DEF Days!SecondsPerDay
  <2>2. total = 86400 * (total \div 86400) + (total % 86400)
    BY <1>3
  <2>3. total \div 86400 \in Int /\ total % 86400 \in Int
    BY <1>3
  <2> QED BY <2>1, <2>2, <2>3
<1> DEFINE n == Days!Normalized(d, s, nano)
<1>5. n = [day |-> d + quotient, sec |-> rest, millis |-> ms - 1000 * borrow]
  BY DEF Days!Normalized, ms, borrow, total
<1> HIDE DEF n, quotient, rest
<1>6. n.day - d = quotient /\ n.sec = rest /\ n.millis = ms - 1000 * borrow
  BY <1>4, <1>5
<1> DEFINE passed == (n.day - d) * Days!SecondsPerDay + n.sec - s
<1>7. passed = borrow
  <2>1. passed = midnights + rest - s
    BY <1>6
  <2> HIDE DEF midnights, passed
  <2> QED BY <1>2, <1>3, <1>4, <2>1
<1> HIDE DEF passed
<1>8. 1000000 * (1000 * passed + n.millis) - nano = 1000000 * ms - nano
  <2>1. 1000 * passed + n.millis = ms
    BY <1>1, <1>2, <1>6, <1>7
  <2> QED BY <2>1
<1>9. n.millis \in 0..999 /\ passed \in -1..1
  BY <1>2, <1>6, <1>7
<1>10. /\ -500000 <= 1000000 * (1000 * passed + n.millis) - nano
       /\ 1000000 * (1000 * passed + n.millis) - nano <= 500000
  BY <1>1, <1>8
<1> QED BY <1>9, <1>10 DEF n, passed, RowIsNear

(* The dates and the times of the log are right for every day that 32 bits   *)
(* of seconds reach (time.c, log.c).                                         *)
THEOREM TimesAlwaysRight == Days!Spec => []TimesRight
<1>1. CalInv => TimesRight
  <2> SUFFICES ASSUME CalInv PROVE TimesRight
    OBVIOUS
  <2>1. cal_year \in Years
    BY DEF CalInv, IsDate, Years
  <2>2. Days!DateIsRight
    BY <2>1, DateFound DEF CalInv, IsDate, Days!DateIsRight
  <2>3. Days!RowTimeIsNear
    <3>1. cal_day \in Nat
      BY DEF CalInv, IsDate
    <3>2. \A s \in {0, 1, Days!SecondsPerDay - 1}, nano \in Days!Edges : RowIsNear(cal_day, s, nano)
      <4> SUFFICES ASSUME NEW s \in {0, 1, Days!SecondsPerDay - 1}, NEW nano \in Days!Edges
                   PROVE  RowIsNear(cal_day, s, nano)
        OBVIOUS
      <4>1. s \in Int
        BY DEF Days!SecondsPerDay
      <4>2. nano \in Nanos
        BY DEF Days!Edges, Nanos
      <4> QED BY <3>1, <4>1, <4>2, RowTime
    <3>3. \A s \in {0, 1, Days!SecondsPerDay - 1}, nano \in Days!Edges :
            cal_day > 0 => RowIsNear(cal_day, s, nano)
      BY <3>2
    <3> QED BY <3>3 DEF Days!RowTimeIsNear, RowIsNear
  <2> QED BY <2>2, <2>3 DEF TimesRight, Days!TimesRight
<1> QED BY <1>1, CalBegins, CalNext, PTL DEF Days!Spec

(***************************************************************************)
(* The types                                                               *)
(***************************************************************************)
(* What the invariants above leave open of the battery timer.                *)
VbatFlags ==
  /\ vbat_adc \in {"RESET", "READY"} /\ vbat_connected \in BOOLEAN
  /\ vbat_ble_vbat_started \in BOOLEAN /\ vbat_ble_adc_started \in BOOLEAN

LEMMA VbatFlagsNext == VbatFlags /\ [Vbat!Next]_(Vbat!vars) => VbatFlags'
<1> USE DEF VbatFlags
<1> SUFFICES ASSUME VbatFlags, [Vbat!Next]_(Vbat!vars) PROVE VbatFlags'
  OBVIOUS
<1>1. CASE Vbat!Connect
  BY <1>1 DEF Vbat!Connect
<1>2. CASE Vbat!Disconnect
  BY <1>2 DEF Vbat!Disconnect
<1>3. CASE Vbat!ActiveBegins \/ Vbat!ActiveEnds
  BY <1>3 DEF Vbat!ActiveBegins, Vbat!ActiveEnds
<1>4. CASE Vbat!OtherCreates \/ Vbat!OtherDeletes
  BY <1>4 DEF Vbat!OtherCreates, Vbat!OtherDeletes
<1>5. CASE UNCHANGED Vbat!vars
  BY <1>5 DEF Vbat!vars
<1> QED BY <1>1, <1>2, <1>3, <1>4, <1>5 DEF Vbat!Next

(* The types of the battery timer (vbat.c). *)
LEMMA VbatTypeCorrect == Vbat!Spec => []Vbat!TypeOK
<1>1. Vbat!Init => VbatFlags /\ VbatInv
  BY VbatBegins DEF Vbat!Init, VbatFlags
<1>2. VbatInv /\ VbatFlags => Vbat!TypeOK
  BY DEF VbatInv, VbatFlags, Vbat!TypeOK
<1>3. VbatInv /\ [Vbat!Next]_(Vbat!vars) => VbatInv'
  BY VbatNext DEF Vbat!vars, vbat_vars
<1> QED BY <1>1, <1>2, <1>3, VbatFlagsNext, PTL DEF Vbat!Spec

(* The values of a session of the audio control. *)
SpeechValues ==
  /\ say_flags \subseteq {"HAS_FIX", "FIRST_FIX", "BEEP_DONE", "SAY_ALTITUDE", "VERTICAL_ACC"}
  /\ say_prevFix \in BOOLEAN /\ say_producer \in BOOLEAN /\ say_consumer \in BOOLEAN
  /\ say_runaway \in BOOLEAN
  /\ say_sessions \in 0..MaxSessions /\ say_prevHMSL \in Altitudes \union {0}
  /\ say_sp_counter \in 0..SpRate /\ say_toneRate \in Speech!Rates
  /\ say_audio \in {"idle", "tone", "alarm", "word", "stuck"}

LEMMA SpeechValuesNext ==
  ASSUME SpeechKinds, SpeechValues, [Speech!Next]_(Speech!vars)
  PROVE  SpeechValues'
<1>0. MaxSessions \in Nat /\ SpRate \in Nat /\ "off" \in Speech!Rates
  BY SpeechAssumption DEF Speech!Rates
<1>1. CASE Speech!FS_AudioControl_Init
  <2>1. /\ say_sessions < MaxSessions /\ say_sessions' = say_sessions + 1
        /\ say_flags' \in {{}, {"SAY_ALTITUDE"}} /\ say_prevFix' = FALSE
        /\ say_sp_counter' = 0 /\ say_toneRate' = "off"
        /\ UNCHANGED <<say_prevHMSL, say_producer, say_consumer, say_audio, say_runaway>>
    BY <1>1 DEF Speech!FS_AudioControl_Init, Speech!ends
  <2>2. say_sessions' \in 0..MaxSessions /\ 0 \in 0..SpRate
    BY <1>0, <2>1 DEF SpeechValues
  <2> QED BY <1>0, <2>1, <2>2 DEF SpeechValues
<1>2. CASE Speech!FS_AudioControl_DeInit
  BY <1>2 DEF Speech!FS_AudioControl_DeInit, Speech!ends, Speech!memory, Speech!tone,
              Speech!Silenced, SpeechValues
<1>3. CASE Speech!FS_AudioControl_UpdateGNSS
  BY <1>3 DEF Speech!FS_AudioControl_UpdateGNSS, Speech!ends, Speech!memory, Speech!tone,
              SpeechValues
<1>4. CASE Speech!ProducerFix
  <2>1. PICK alt \in Altitudes, fast \in BOOLEAN :
          /\ say_audio' = IF Speech!Alarm(alt) THEN Speech!Sound("alarm")
                          ELSE IF Speech!CutOff(alt) THEN "idle" ELSE say_audio
          /\ say_runaway' \in {FALSE, Speech!SaysValue(alt, fast)}
          /\ say_toneRate' \in Speech!NewRate(alt, fast)
          /\ say_sp_counter' = IF Speech!SaysValue(alt, fast) THEN 1
                               ELSE IF say_sp_counter < SpRate THEN say_sp_counter + 1
                               ELSE say_sp_counter
          /\ say_prevHMSL' = alt /\ say_prevFix' = TRUE
    BY <1>4 DEF Speech!ProducerFix
  <2>2. say_audio' \in {"idle", "tone", "alarm", "word", "stuck"}
    BY <2>1, SoundValues DEF SpeechValues
  <2>3. say_toneRate' \in Speech!Rates
    BY <1>0, <2>1 DEF Speech!NewRate, SpeechValues
  <2>4. Speech!SaysValue(alt, fast) \in BOOLEAN
    BY DEF Speech!SaysValue
  <2>5. say_sp_counter' \in 0..SpRate
    <3>1. CASE Speech!SaysValue(alt, fast)
      BY <1>0, <2>1, <3>1 DEF Speech!SaysValue
    <3>2. CASE ~Speech!SaysValue(alt, fast)
      BY <1>0, <2>1, <3>2 DEF SpeechValues
    <3> QED BY <3>1, <3>2
  <2>6. say_flags' \subseteq {"HAS_FIX", "FIRST_FIX", "BEEP_DONE", "SAY_ALTITUDE",
                              "VERTICAL_ACC"}
    BY <1>4 DEF Speech!ProducerFix, Speech!Accuracy, SpeechValues
  <2>7. UNCHANGED <<say_sessions, say_consumer>> /\ say_producer' = FALSE
    BY <1>4 DEF Speech!ProducerFix
  <2>8. say_runaway' \in BOOLEAN
    BY <2>1, <2>4
  <2> QED BY <2>1, <2>2, <2>3, <2>5, <2>6, <2>7, <2>8 DEF SpeechValues
<1>5. CASE Speech!ProducerNoFix
  BY <1>0, <1>5 DEF Speech!ProducerNoFix, Speech!Accuracy, Speech!ends, SpeechValues
<1>6. CASE Speech!ConsumerTimer
  BY <1>6 DEF Speech!ConsumerTimer, Speech!ends, Speech!memory, Speech!tone, SpeechValues
<1>7. CASE Speech!SpeakWord
  BY <1>7, SoundValues DEF Speech!SpeakWord, Speech!Consumer, Speech!memory, SpeechValues
<1>8. CASE Speech!NoText
  <2>1. say_flags' \subseteq say_flags \union {"BEEP_DONE"}
    BY <1>8 DEF Speech!NoText
  <2>2. say_audio' \in {"idle", "tone", "alarm", "word", "stuck"}
    BY <1>8, SoundValues DEF Speech!NoText, SpeechValues
  <2>3. /\ UNCHANGED <<say_sessions, say_prevFix, say_prevHMSL, say_toneRate, say_sp_counter,
                       say_producer, say_runaway>>
        /\ say_consumer' = FALSE
    BY <1>8 DEF Speech!NoText, Speech!Consumer, Speech!memory
  <2> QED BY <2>1, <2>2, <2>3 DEF SpeechValues
<1>9. CASE Speech!SoundEnds
  BY <1>9 DEF Speech!SoundEnds, Speech!ends, Speech!memory, Speech!tone, SpeechValues
<1>10. CASE UNCHANGED Speech!vars
  BY <1>10 DEF Speech!vars, Speech!ends, Speech!memory, Speech!tone, SpeechValues
<1> QED BY <1>1, <1>2, <1>3, <1>4, <1>5, <1>6, <1>7, <1>8, <1>9, <1>10 DEF Speech!Next

(* The types of what is heard (audio_control.c): the speech counter never    *)
(* runs past the rate.                                                       *)
LEMMA SpeechTypeCorrect == Speech!Spec => []Speech!TypeOK
<1>1. Speech!Init => SpeechInv /\ SpeechValues
  <2>1. Speech!Init => SpeechValues
    <3>1. 0 \in 0..MaxSessions /\ 0 \in 0..SpRate /\ "off" \in Speech!Rates
      BY SpeechAssumption DEF Speech!Rates
    <3> QED BY <3>1 DEF Speech!Init, SpeechValues
  <2> QED BY <2>1, SpeechInit
<1>2. SpeechInv /\ SpeechValues => Speech!TypeOK
  BY DEF SpeechInv, SpeechKinds, SpeechValues, Speech!TypeOK
<1>3. SpeechInv /\ SpeechValues /\ [Speech!Next]_(Speech!vars) => SpeechValues'
  BY SpeechValuesNext DEF SpeechInv
<1> QED BY <1>1, <1>2, <1>3, SpeechNext, PTL DEF Speech!Spec

(* The tasks of the log, and the flags and the state of its session. *)
LogValues ==
  /\ log_logState \in {"UNINITIALIZED", "ACTIVE", "FAILED"}
  /\ log_enable_flags \subseteq {"sensor", "gnss"}
  /\ log_timer \in BOOLEAN /\ log_updateTask \in BOOLEAN /\ log_syncTask \in BOOLEAN
  /\ log_pc \in {"idle", "gnss", "baro", "imu", "found", "count"}

LEMMA LogValuesNext == LogValues /\ [Log!Next]_(Log!vars) => LogValues'
<1> SUFFICES ASSUME LogValues, [Log!Next]_(Log!vars) PROVE LogValues'
  OBVIOUS
<1> USE DEF LogValues
<1>1. CASE Log!Sample
  <2>1. UNCHANGED <<log_logState, log_enable_flags, log_timer, log_updateTask, log_syncTask,
                    log_pc>>
    BY <1>1 DEF Log!Sample, Log!Write, Log!sched
  <2> QED BY <2>1
<1>2. CASE Log!UpdateBegins \/ Log!UpdateGNSS
  BY <1>2 DEF Log!UpdateBegins, Log!UpdateGNSS, Log!Phase
<1>3. CASE Log!GetNextSensor
  BY <1>3 DEF Log!GetNextSensor, Log!LookBaro, Log!LookImu, Log!Phase
<1>4. CASE Log!UpdateRow \/ Log!UpdateCount
  BY <1>4 DEF Log!UpdateRow, Log!UpdateCount, Log!Phase
<1>5. CASE Log!UpdateDone \/ Log!UpdateOutOfTime
  BY <1>5 DEF Log!UpdateDone, Log!UpdateOutOfTime, Log!Ends, Log!Phase
<1>6. CASE Log!Sync
  BY <1>6 DEF Log!Sync
<1>7. CASE Log!SessionBegins
  BY <1>7 DEF Log!SessionBegins
<1>8. CASE Log!SessionEnds
  BY <1>8 DEF Log!SessionEnds
<1>9. CASE Log!FS_Log_Timer
  BY <1>9 DEF Log!FS_Log_Timer
<1>10. CASE UNCHANGED Log!vars
  BY <1>10 DEF Log!vars, Log!sched
<1> QED BY <1>1, <1>2, <1>3, <1>4, <1>5, <1>6, <1>7, <1>8, <1>9, <1>10
        DEF Log!Next, Log!Update

(* The types of the log (log.c): the indices stay in their rings. *)
LEMMA LogTypeCorrect == Log!Spec => []Log!TypeOK
<1>1. Log!Init => LogValues
  BY DEF Log!Init, LogValues
<1>2. LogInv /\ LogValues => Log!TypeOK
  <2>1. log_misread \in BOOLEAN \/ ~LogInv
    BY DEF LogInv, RingInv
  <2> QED BY <2>1 DEF LogInv, RingInv, RingKinds, LogSamples, LookInv, LookKinds, BatchInv,
                      LogValues, Log!TypeOK
<1>3. LogInv /\ [Log!Next]_(Log!vars) => LogInv'
  BY RingNext, LookNext, BatchNext, SeenNext, AccountNext DEF LogInv
<1> QED BY <1>1, <1>2, <1>3, LogBegins, LogValuesNext, PTL DEF Log!Spec

(* No more events are dropped than made. *)
EventFlags ==
  /\ ev_active \in BOOLEAN /\ ev_updateTask \in BOOLEAN
  /\ ev_updating \in BOOLEAN /\ ev_nested \in BOOLEAN
  /\ ev_dropped <= ev_made

LEMMA EventFlagsNext ==
  ASSUME EventKinds, EventFlags, [Events!Next]_(Events!vars)
  PROVE  EventFlags'
<1>0. ev_made \in Nat /\ ev_dropped \in Nat
  BY EventBounds DEF EventKinds, Events!Events
<1>1. ASSUME NEW c \in Events!Contexts, Events!Claim(c) PROVE EventFlags'
  <2>1. /\ ev_made' = ev_made + 1 /\ ev_dropped' \in {ev_dropped, ev_dropped + 1}
        /\ ev_nested' \in BOOLEAN /\ UNCHANGED <<ev_active, ev_updateTask, ev_updating>>
    BY <1>1 DEF Events!Claim, Events!reader
  <2> QED BY <1>0, <2>1 DEF EventFlags
<1>2. ASSUME NEW c \in Events!Contexts, Events!Text(c) \/ Events!Count(c) PROVE EventFlags'
  BY <1>2 DEF Events!Text, Events!Count, Events!reader, EventFlags
<1>3. CASE \/ Events!FS_Log_Timer \/ Events!UpdateBegins \/ Events!WriteEventEntry
           \/ Events!UpdateEnds
  BY <1>3 DEF Events!FS_Log_Timer, Events!UpdateBegins, Events!WriteEventEntry, Events!UpdateEnds, EventFlags
<1>4. CASE Events!Session
  BY <1>4 DEF Events!Session, Events!reader, EventFlags
<1>5. CASE UNCHANGED Events!vars
  BY <1>5 DEF Events!vars, Events!reader, EventFlags
<1> QED BY <1>1, <1>2, <1>3, <1>4, <1>5 DEF Events!Next

(* The types of the ring of events (log.c). *)
LEMMA EventTypeCorrect == Events!Spec => []Events!TypeOK
<1>1. Events!Init => EventFlags
  <2>1. Events!Init => /\ ev_active = FALSE /\ ev_updateTask = FALSE /\ ev_updating = FALSE /\ ev_nested = FALSE
                       /\ ev_made = 0 /\ ev_dropped = 0
    BY DEF Events!Init
  <2>2. 0 <= 0
    OBVIOUS
  <2> QED BY <2>1, <2>2, Zenon DEF EventFlags
<1>2. EventInv /\ EventFlags => Events!TypeOK
  <2> SUFFICES ASSUME EventInv, EventFlags PROVE Events!TypeOK
    OBVIOUS
  <2>1. ev_dropped \in Events!Events
    BY EventBounds DEF EventInv, EventKinds, EventFlags, Events!Events
  <2> QED BY <2>1 DEF EventInv, EventKinds, EventFlags, Events!TypeOK
<1>3. EventInv /\ EventFlags /\ [Events!Next]_(Events!vars) => EventFlags'
  BY EventFlagsNext DEF EventInv
<1> QED BY <1>1, <1>2, <1>3, EventBegins, EventNext, PTL DEF Events!Spec

(* What the receiver and its tasks hold; a set of messages that is complete  *)
(* is counted at once.                                                       *)
GnssTimes ==
  /\ gnss_gnssTimeOfWeek \in Nat /\ gnss_gnssTime \in Nat
  /\ gnss_gnssMsgReceived \in (SUBSET Gnss!UBX_MSG_ALL) \ {Gnss!UBX_MSG_ALL}
  /\ gnss_said \subseteq Gnss!UBX_MSG_ALL
GnssModes ==
  /\ gnss_phase \in {"off", "baud", "config", "running"}
  /\ gnss_asked \in {"none", "wait"} /\ gnss_late \in 0..MaxLate
  /\ gnss_announced \in {"no", "unread", "read"} /\ gnss_faults \in 0..GnssFaults
GnssFlags ==
  /\ gnss_gnss_is_initializing \in BOOLEAN /\ gnss_dma \in BOOLEAN
  /\ gnss_updateTask \in BOOLEAN /\ gnss_validTime \in BOOLEAN /\ gnss_mixed \in BOOLEAN
  /\ gnss_misdated \in BOOLEAN /\ gnss_disordered \in BOOLEAN
GnssValues == GnssTimes /\ GnssModes /\ GnssFlags

LEMMA FaultCounted ==
  ASSUME GnssModes, Gnss!Fault
  PROVE  gnss_faults' \in 0..GnssFaults
BY GnssAssumption DEF GnssModes, Gnss!Fault

LEMMA ArrivesValues ==
  ASSUME GnssModes, GnssFlags, NEW message, Gnss!Arrives(message)
  PROVE  gnss_faults' \in 0..GnssFaults /\ gnss_disordered' \in BOOLEAN
<1>1. ASSUME NEW m, Gnss!Receive(m) PROVE gnss_disordered' \in BOOLEAN
  BY <1>1 DEF Gnss!Receive, GnssFlags
<1>2. gnss_faults' = gnss_faults \/ Gnss!Fault
  BY DEF Gnss!Arrives
<1>3. gnss_faults' \in 0..GnssFaults
  BY <1>2, FaultCounted DEF GnssModes
<1> QED BY <1>1, <1>3 DEF Gnss!Arrives

LEMMA InitialiseValues ==
  ASSUME GnssValues, Gnss!Initialise
  PROVE  GnssValues'
<1>0. MaxLate \in Nat /\ {} \in (SUBSET Gnss!UBX_MSG_ALL) \ {Gnss!UBX_MSG_ALL}
  BY GnssAssumption DEF Gnss!UBX_MSG_ALL
<1>1. CASE Gnss!InitBegins
  <2>1. GnssTimes'
    <3>1. /\ gnss_gnssTimeOfWeek' = 0 /\ gnss_gnssMsgReceived' = {}
          /\ gnss_gnssTime' = gnss_gnssTime /\ gnss_said' = gnss_said
      BY <1>0, <1>1 DEF Gnss!InitBegins, Gnss!receiver
    <3> QED BY <1>0, <3>1 DEF GnssValues, GnssTimes
  <2>2. GnssModes'
    BY <1>0, <1>1 DEF Gnss!InitBegins, Gnss!receiver, GnssValues, GnssModes
  <2>3. GnssFlags'
    BY <1>1 DEF Gnss!InitBegins, Gnss!ring, Gnss!task, GnssValues, GnssFlags
  <2> QED BY <2>1, <2>2, <2>3 DEF GnssValues
<1>2. CASE Gnss!SendMessage
  BY <1>2 DEF Gnss!SendMessage, Gnss!ReceiveDMA, Gnss!task, Gnss!data, Gnss!time, Gnss!receiver,
              GnssValues, GnssTimes, GnssModes, GnssFlags
<1>3. CASE Gnss!Answer
  <2>1. gnss_faults' \in 0..GnssFaults /\ gnss_disordered' \in BOOLEAN
    <3>1. ASSUME NEW message, Gnss!Arrives(message) PROVE <2>1
      BY <3>1, ArrivesValues DEF GnssValues
    <3>2. ASSUME NEW message, Gnss!Receive(message), Gnss!Fault PROVE <2>1
      BY <3>2, FaultCounted DEF Gnss!Receive, GnssValues, GnssFlags
    <3>3. CASE UNCHANGED gnss_disordered /\ Gnss!Fault
      BY <3>3, FaultCounted DEF GnssValues, GnssFlags
    <3> QED BY <1>3, <3>1, <3>2, <3>3 DEF Gnss!Answer
  <2>2. UNCHANGED <<gnss_phase, gnss_gnss_is_initializing, gnss_asked, gnss_late, gnss_dma,
                    gnss_gnssRxIndex, Gnss!task, Gnss!data, Gnss!time, Gnss!receiver>>
    BY <1>3 DEF Gnss!Answer
  <2> QED BY <2>1, <2>2 DEF Gnss!task, Gnss!data, Gnss!time, Gnss!receiver,
                            GnssValues, GnssTimes, GnssModes, GnssFlags
<1>4. CASE Gnss!WaitForAck
  <2>1. /\ gnss_asked' \in {"none", "wait"}
        /\ gnss_late' = gnss_late \/ (gnss_late < MaxLate /\ gnss_late' = gnss_late + 1)
    BY <1>4 DEF Gnss!WaitForAck, Gnss!WaitReads, Gnss!WaitEnds, Gnss!Advance, Gnss!AfterTimeout
  <2>2. /\ gnss_phase' \in {gnss_phase, "config", "running"}
        /\ gnss_gnss_is_initializing' \in {gnss_gnss_is_initializing, FALSE}
    BY <1>4 DEF Gnss!WaitForAck, Gnss!WaitReads, Gnss!WaitEnds, Gnss!Advance
  <2>3. UNCHANGED <<gnss_dma, gnss_disordered, gnss_faults, Gnss!task, Gnss!data, Gnss!time,
                    Gnss!receiver>>
    BY <1>4 DEF Gnss!WaitForAck, Gnss!WaitReads, Gnss!WaitEnds, Gnss!ring
  <2>4. GnssTimes'
    BY <2>3 DEF Gnss!data, Gnss!time, Gnss!receiver, GnssValues, GnssTimes
  <2>5. GnssModes'
    BY <1>0, <2>1, <2>2, <2>3 DEF Gnss!receiver, GnssValues, GnssModes
  <2>6. GnssFlags'
    BY <2>2, <2>3 DEF Gnss!task, Gnss!data, Gnss!time, GnssValues, GnssFlags
  <2> QED BY <2>4, <2>5, <2>6 DEF GnssValues
<1> QED BY <1>1, <1>2, <1>3, <1>4 DEF Gnss!Initialise

LEMMA ReceiverValues ==
  ASSUME GnssValues, Gnss!Receiver
  PROVE  GnssValues'
<1>1. ASSUME NEW kind \in Gnss!UBX_MSG_ALL, Gnss!Measures(kind) PROVE GnssValues'
  <2>1. gnss_faults' \in 0..GnssFaults /\ gnss_disordered' \in BOOLEAN
    BY <1>1, ArrivesValues DEF Gnss!Measures, GnssValues
  <2>2. /\ gnss_said' \subseteq Gnss!UBX_MSG_ALL
        /\ UNCHANGED <<gnss_dma, gnss_gnssRxIndex, Gnss!config, Gnss!task, Gnss!data, Gnss!time,
                       gnss_announced>>
    BY <1>1 DEF Gnss!Measures, GnssValues, GnssTimes
  <2> QED BY <2>1, <2>2 DEF Gnss!config, Gnss!task, Gnss!data, Gnss!time,
                            GnssValues, GnssTimes, GnssModes, GnssFlags
<1>2. CASE Gnss!Announces
  <2>1. gnss_faults' \in 0..GnssFaults /\ gnss_disordered' \in BOOLEAN
    BY <1>2, ArrivesValues DEF Gnss!Announces, GnssValues
  <2>2. /\ gnss_announced' = "unread"
        /\ UNCHANGED <<gnss_dma, gnss_gnssRxIndex, Gnss!config, Gnss!task, Gnss!data, Gnss!time,
                       gnss_said>>
    BY <1>2 DEF Gnss!Announces
  <2> QED BY <2>1, <2>2 DEF Gnss!config, Gnss!task, Gnss!data, Gnss!time,
                            GnssValues, GnssTimes, GnssModes, GnssFlags
<1>3. CASE Gnss!Timepulse
  BY <1>3 DEF Gnss!Timepulse, Gnss!AfterPulse, Gnss!ring, Gnss!config, Gnss!task, Gnss!data,
              GnssValues, GnssTimes, GnssModes, GnssFlags
<1> QED BY <1>1, <1>2, <1>3 DEF Gnss!Receiver

LEMMA UpdateValues ==
  ASSUME GnssKinds, GnssValues, Gnss!Update
  PROVE  GnssValues'
<1>1. CASE Gnss!UpdateBegins
  BY <1>1 DEF Gnss!UpdateBegins, Gnss!ring, Gnss!config, Gnss!data, Gnss!time, Gnss!receiver,
              GnssValues, GnssTimes, GnssModes, GnssFlags
<1>2. CASE Gnss!UpdateEnds
  BY <1>2 DEF Gnss!UpdateEnds, Gnss!ring, Gnss!config, Gnss!data, Gnss!time, Gnss!receiver,
              GnssValues, GnssTimes, GnssModes, GnssFlags
<1>3. CASE Gnss!UpdateReads
  <2> DEFINE message == gnss_slots[gnss_gnssRxIndex]
  <2>1. message \in Gnss!Messages /\ message.n \in Nat
    BY DEF GnssKinds, Gnss!Messages
  <2>2. Gnss!Handle(message)
    BY <1>3 DEF Gnss!UpdateReads
  <2>3. /\ gnss_announced' \in {gnss_announced, "read"}
        /\ UNCHANGED <<gnss_dma, gnss_slots, gnss_writeIndex, Gnss!config, Gnss!task, gnss_epoch,
                       gnss_said, gnss_pulse, gnss_faults, gnss_disordered>>
    BY <1>3 DEF Gnss!UpdateReads
  <2> HIDE DEF message
  <2>4. /\ gnss_gnssTimeOfWeek' \in Nat /\ gnss_gnssTime' \in Nat
        /\ gnss_gnssMsgReceived' \in (SUBSET Gnss!UBX_MSG_ALL) \ {Gnss!UBX_MSG_ALL}
        /\ gnss_validTime' \in BOOLEAN /\ gnss_mixed' \in BOOLEAN /\ gnss_misdated' \in BOOLEAN
    <3>1. CASE message.kind \in Gnss!UBX_MSG_ALL /\ Gnss!HandleNav(message.kind, message.n)
               /\ UNCHANGED Gnss!time
      <4> DEFINE received == Gnss!ReceivedBefore(message.n) \union {message.kind}
      <4>1. received \subseteq Gnss!UBX_MSG_ALL
        BY <3>1 DEF Gnss!ReceivedBefore, GnssValues, GnssTimes
      <4>2. /\ gnss_gnssTimeOfWeek' = message.n
            /\ gnss_gnssMsgReceived' = IF received = Gnss!UBX_MSG_ALL THEN {} ELSE received
            /\ gnss_mixed' \in BOOLEAN
        BY <3>1 DEF Gnss!HandleNav, GnssValues, GnssFlags
      <4>3. {} # Gnss!UBX_MSG_ALL
        BY DEF Gnss!UBX_MSG_ALL
      <4> HIDE DEF received
      <4>4. gnss_gnssMsgReceived' \in (SUBSET Gnss!UBX_MSG_ALL) \ {Gnss!UBX_MSG_ALL}
        BY <4>1, <4>2, <4>3
      <4> QED BY <2>1, <3>1, <4>2, <4>4 DEF Gnss!time, GnssValues, GnssTimes, GnssFlags
    <3>2. CASE gnss_gnssTime' = message.n /\ gnss_validTime' = TRUE
               /\ UNCHANGED <<Gnss!data, gnss_misdated>>
      BY <2>1, <3>2 DEF Gnss!data, GnssValues, GnssTimes, GnssFlags
    <3>3. CASE UNCHANGED <<Gnss!data, Gnss!time>>
      BY <3>3 DEF Gnss!data, Gnss!time, GnssValues, GnssTimes, GnssFlags
    <3> QED BY <2>2, <3>1, <3>2, <3>3 DEF Gnss!Handle
  <2> QED BY <2>3, <2>4 DEF Gnss!config, Gnss!task, GnssValues, GnssTimes, GnssModes, GnssFlags
<1> QED BY <1>1, <1>2, <1>3 DEF Gnss!Update

LEMMA GnssValuesNext ==
  ASSUME GnssKinds, GnssValues, [Gnss!Next]_(Gnss!vars)
  PROVE  GnssValues'
<1>1. CASE Gnss!DeInit
  BY <1>1 DEF Gnss!DeInit, Gnss!data, Gnss!time, Gnss!receiver,
              GnssValues, GnssTimes, GnssModes, GnssFlags
<1>2. CASE Gnss!UartError
  <2>1. gnss_faults' \in 0..GnssFaults
    BY <1>2, FaultCounted DEF Gnss!UartError, GnssValues
  <2>2. /\ gnss_dma' \in BOOLEAN /\ gnss_disordered' \in {gnss_disordered, TRUE}
        /\ UNCHANGED <<gnss_slots, gnss_gnssRxIndex, Gnss!config, Gnss!task, Gnss!data, Gnss!time,
                       Gnss!receiver>>
    BY <1>2 DEF Gnss!UartError, Gnss!ReceiveDMA
  <2>3. GnssTimes'
    BY <2>2 DEF Gnss!data, Gnss!time, Gnss!receiver, GnssValues, GnssTimes
  <2>4. GnssModes'
    BY <2>1, <2>2 DEF Gnss!config, Gnss!receiver, GnssValues, GnssModes
  <2>5. GnssFlags'
    BY <2>2 DEF Gnss!config, Gnss!task, Gnss!data, Gnss!time, GnssValues, GnssFlags
  <2> QED BY <2>3, <2>4, <2>5 DEF GnssValues
<1>3. CASE UNCHANGED Gnss!vars
  BY <1>3 DEF Gnss!vars, Gnss!ring, Gnss!config, Gnss!task, Gnss!data, Gnss!time, Gnss!receiver,
              GnssValues, GnssTimes, GnssModes, GnssFlags
<1> QED BY <1>1, <1>2, <1>3, InitialiseValues, ReceiverValues, UpdateValues DEF Gnss!Next

(* The types of the receiver (gnss.c): the DMA writes inside the buffer,     *)
(* and what is kept of a solution is never all of its messages.              *)
LEMMA GnssTypeCorrect == Gnss!Spec => []Gnss!TypeOK
<1>1. Gnss!Init => GnssValues
  <2>1. 0 \in 0..MaxLate /\ 0 \in 0..GnssFaults
    BY GnssAssumption
  <2>2. {} \in (SUBSET Gnss!UBX_MSG_ALL) \ {Gnss!UBX_MSG_ALL}
    BY DEF Gnss!UBX_MSG_ALL
  <2>3. Gnss!Init => GnssTimes
    BY <2>1, <2>2 DEF Gnss!Init, GnssTimes
  <2>4. Gnss!Init => GnssModes
    BY <2>1 DEF Gnss!Init, GnssModes
  <2>5. Gnss!Init => GnssFlags
    BY DEF Gnss!Init, GnssFlags
  <2> QED BY <2>3, <2>4, <2>5 DEF GnssValues
<1>2. GnssInv /\ GnssValues => Gnss!TypeOK
  <2> SUFFICES ASSUME GnssInv, GnssValues PROVE Gnss!TypeOK
    OBVIOUS
  <2>1. \A flag \in {gnss_gnss_is_initializing, gnss_dma, gnss_updateTask, gnss_validTime,
                     gnss_mixed, gnss_misdated, gnss_disordered} : flag \in BOOLEAN
    BY Zenon DEF GnssValues, GnssFlags
  <2>2. /\ gnss_slots \in [0..LEN - 1 -> Gnss!Messages]
        /\ gnss_writeIndex \in 0..LEN - 1 /\ gnss_gnssRxIndex \in 0..LEN - 1
        /\ gnss_upto \in 0..LEN
        /\ gnss_setting \in 0..Settings /\ gnss_gnssData \in [Gnss!UBX_MSG_ALL -> Nat]
        /\ gnss_epoch \in 1..MaxTow + 1 /\ gnss_pulse \in 0..MaxTow
    BY DEF GnssInv, GnssKinds, Places
  <2>3. gnss_pending \in Seq(0..Settings) /\ gnss_configured \subseteq 0..Settings
    <3>1. gnss_pending \in Seq(0..gnss_setting) /\ gnss_configured \subseteq 0..gnss_setting
      BY DEF GnssInv, ConfigInv, Stage
    <3>2. 0..gnss_setting \subseteq 0..Settings
      BY <2>2, GnssAssumption
    <3> QED BY <3>1, <3>2, SeqMonotonic
  <2> QED BY <2>1, <2>2, <2>3 DEF GnssValues, GnssTimes, GnssModes, Gnss!TypeOK
<1>3. GnssInv /\ GnssValues /\ [Gnss!Next]_(Gnss!vars) => GnssValues'
  BY GnssValuesNext DEF GnssInv
<1>4. GnssInv /\ [Gnss!Next]_(Gnss!vars) => GnssInv'
  BY ReceiverKindsNext, StageNext, FirstsNext, AllNext, EpochNext, PulseNext
  DEF GnssInv, ConfigInv
<1> QED BY <1>1, <1>2, <1>3, <1>4, GnssBegins, PTL DEF Gnss!Spec

(* The queue of the glasses' events.  A scan ends when it is empty; behind   *)
(* its event come at most the end of the one procedure of the client and     *)
(* that of the link, and the link is not made again before they are handled. *)
ClientCalls == {"discover", "notify", "read"}
Pending == (IF al_link = "down" THEN 0 ELSE 1) + (IF al_gatt THEN 1 ELSE 0)
             + (IF al_call \in ClientCalls THEN 1 ELSE 0)

QueueInv ==
  /\ al_gatt \in BOOLEAN /\ (al_link = "down" => ~al_gatt)
  /\ Len(al_events) + Pending <= 3
  /\ Connects => /\ ~al_gatt /\ al_call \notin ClientCalls
                 /\ Len(al_events) <= 1
                 /\ al_events # <<>> => Head(al_events) = "scanned"

QueueState == <<al_connTask, al_found, al_call, al_radio, al_link, al_gatt, al_events>>

LEMMA QueueSame ==
  ASSUME QueueInv, UNCHANGED QueueState
  PROVE  QueueInv'
BY DEF QueueState, QueueInv, Pending, Connects, FoundWaits

LEMMA QueueLength ==
  ASSUME GlassesKinds
  PROVE  /\ Len(al_events) \in Nat /\ Pending \in 0..3
         /\ al_events # <<>> <=> Len(al_events) > 0
<1>1. Len(al_events) \in Nat /\ (al_events # <<>> <=> Len(al_events) > 0)
  BY EmptySeq DEF GlassesKinds
<1> QED BY <1>1 DEF Pending

(* Whatever leaves the queue, the link and the procedures as they are, and   *)
(* begins none.                                                              *)
LEMMA QueueQuiet ==
  ASSUME GlassesKinds, QueueInv, UNCHANGED <<al_events, al_link, al_gatt>>,
         al_call' \in ClientCalls => al_call' = al_call, Connects' => Connects
  PROVE  QueueInv'
<1>1. Pending' <= Pending /\ Pending' \in 0..3 /\ Pending \in 0..3
  BY DEF Pending
<1>2. Len(al_events)' + Pending' <= 3
  BY <1>1, QueueLength DEF QueueInv
<1> QED BY <1>2 DEF QueueInv

LEMMA ModeQueue ==
  ASSUME QueueInv, Glasses!Mode \/ Glasses!FS_ActiveLook_Timer
  PROVE  QueueInv'
<1>1. UNCHANGED QueueState
  BY DEF Glasses!Mode, Glasses!FS_ActiveLook_Timer, Glasses!FS_ActiveLook_Init,
         Glasses!FS_ActiveLook_DeInit, Glasses!air, Glasses!tasks, QueueState
<1> QED BY <1>1, QueueSame

LEMMA RequestsQueue ==
  ASSUME GlassesInv, QueueInv, Glasses!Requests
  PROVE  QueueInv'
<1>0. GlassesKinds
  BY DEF GlassesInv
<1>1. CASE Glasses!ScanRequest
  <2>1. /\ UNCHANGED <<al_events, al_link, al_gatt, al_radio, al_connTask>>
        /\ al_call' \in {al_call, "scan"} /\ al_found' \in {al_found, FALSE}
    BY <1>1 DEF Glasses!ScanRequest, Glasses!air
  <2>2. Connects' => Connects
    BY <2>1 DEF Connects, FoundWaits
  <2> QED BY <1>0, <2>1, <2>2, QueueQuiet DEF ClientCalls
<1>2. CASE Glasses!ConnectRequest
  <2>1. /\ UNCHANGED <<al_events, al_link, al_gatt, al_radio, al_found>> /\ al_connTask
        /\ al_call' \in {al_call, "connect"}
    BY <1>2 DEF Glasses!ConnectRequest, Glasses!air
  <2>2. Connects
    BY <2>1 DEF Connects
  <2> QED BY <1>0, <2>1, <2>2, QueueQuiet DEF ClientCalls
<1>3. CASE Glasses!DisconnectRequest
  <2>1. /\ UNCHANGED <<al_events, al_link, al_gatt, al_radio, al_found, al_connTask>>
        /\ al_call' \in {al_call, "terminate"}
    BY <1>3 DEF Glasses!DisconnectRequest, Glasses!air
  <2>2. Connects' => Connects
    BY <2>1 DEF Connects, FoundWaits
  <2> QED BY <1>0, <2>1, <2>2, QueueQuiet DEF ClientCalls
<1>4. CASE Glasses!TaskBegins
  <2>1. /\ UNCHANGED <<al_events, al_link, al_gatt, al_radio, al_found, al_connTask>>
        /\ al_call' \in {al_call, "cfg", "setup", "clear", "update"}
    BY <1>4 DEF Glasses!TaskBegins, Glasses!air, Glasses!tasks, Glasses!Writes
  <2>2. Connects' => Connects
    BY <2>1 DEF Connects, FoundWaits
  <2> QED BY <1>0, <2>1, <2>2, QueueQuiet DEF ClientCalls
<1> QED BY <1>1, <1>2, <1>3, <1>4 DEF Glasses!Requests

LEMMA AnswersQueue ==
  ASSUME GlassesInv, QueueInv, Glasses!Answers
  PROVE  QueueInv'
<1>0. GlassesKinds /\ LinkInv /\ al_call' = "none"
  BY DEF GlassesInv, Glasses!Answers, Glasses!ScanAnswered, Glasses!ConnectAnswered,
         Glasses!TerminateAnswered, Glasses!DiscoverAnswered, Glasses!NotifyAnswered,
         Glasses!ReadAnswered, Glasses!TaskGoesOn, Glasses!Written, Glasses!Shown,
         Glasses!Answered
<1>1. CASE Glasses!ScanAnswered
  <2>1. /\ UNCHANGED <<al_events, al_link, al_gatt, al_connTask, al_found>>
        /\ al_radio' \in {al_radio, "scanning"} /\ (al_radio' # al_radio => al_radio = "idle")
    BY <1>1 DEF Glasses!ScanAnswered, Glasses!tasks
  <2>2. Connects' => Connects
    BY <1>0, <2>1 DEF Connects, FoundWaits
  <2> QED BY <1>0, <2>1, <2>2, QueueQuiet DEF ClientCalls
<1>2. CASE Glasses!ConnectAnswered
  <2>1. UNCHANGED <<al_events, al_link, al_gatt>> /\ al_call = "connect"
    BY <1>2 DEF Glasses!ConnectAnswered, Glasses!Answered
  <2>2. Connects
    BY <2>1 DEF Connects
  <2> QED BY <1>0, <2>1, <2>2, QueueQuiet DEF ClientCalls
<1>3. CASE Glasses!TerminateAnswered
  <2>1. /\ UNCHANGED <<al_events, al_gatt, al_radio, al_connTask, al_found>>
        /\ al_link' = al_link \/ (al_link = "up" /\ al_link' = "closing")
    BY <1>3 DEF Glasses!TerminateAnswered, Glasses!tasks
  <2>2. Connects' => Connects
    BY <1>0, <2>1 DEF Connects, FoundWaits
  <2>3. Pending' <= Pending /\ Pending' \in 0..3 /\ Pending \in 0..3
    BY <1>0, <2>1 DEF Pending, ClientCalls
  <2>4. Len(al_events)' + Pending' <= 3
    BY <1>0, <2>1, <2>3, QueueLength DEF QueueInv
  <2> QED BY <1>0, <2>1, <2>2, <2>4 DEF QueueInv, ClientCalls
<1>4. ASSUME al_call \in ClientCalls, al_gatt' \in BOOLEAN,
             al_link # "up" => al_gatt' \in {al_gatt, FALSE},
             UNCHANGED <<al_events, al_link, al_radio, al_connTask, al_found>>
      PROVE  QueueInv'
  <2>1. ~Connects
    BY <1>4 DEF QueueInv
  <2>2. ~Connects'
    BY <1>0, <1>4, <2>1 DEF Connects, FoundWaits
  <2>3. Pending' <= Pending /\ Pending' \in 0..3 /\ Pending \in 0..3
    BY <1>0, <1>4 DEF Pending, ClientCalls
  <2>4. Len(al_events)' + Pending' <= 3
    BY <1>0, <1>4, <2>3, QueueLength DEF QueueInv
  <2> QED BY <1>4, <2>2, <2>4 DEF QueueInv
<1>5. CASE Glasses!DiscoverAnswered
  <2>1. /\ al_call = "discover" /\ (al_gatt' = al_gatt \/ (al_link = "up" /\ al_gatt' = TRUE))
        /\ UNCHANGED <<al_events, al_link, al_radio, al_connTask, al_found>>
    BY <1>5 DEF Glasses!DiscoverAnswered, Glasses!Answered, Glasses!tasks
  <2> QED BY <1>4, <2>1 DEF ClientCalls, QueueInv
<1>6. CASE Glasses!NotifyAnswered
  <2>1. /\ al_call = "notify" /\ (al_gatt' = al_gatt \/ (al_link = "up" /\ al_gatt' = TRUE))
        /\ UNCHANGED <<al_events, al_link, al_radio, al_connTask, al_found>>
    BY <1>6 DEF Glasses!NotifyAnswered, Glasses!Answered, Glasses!tasks
  <2> QED BY <1>4, <2>1 DEF ClientCalls, QueueInv
<1>7. CASE Glasses!ReadAnswered
  <2>1. /\ al_call = "read" /\ al_gatt' \in {al_gatt, al_link = "up"}
        /\ UNCHANGED <<al_events, al_link, al_radio, al_connTask, al_found>>
    BY <1>7 DEF Glasses!ReadAnswered, Glasses!Answered, Glasses!tasks
  <2>2. al_gatt' \in BOOLEAN
    BY <2>1, Zenon DEF QueueInv
  <2>3. al_link # "up" => al_gatt' \in {al_gatt, FALSE}
    BY <2>1
  <2> QED BY <1>4, <2>1, <2>2, <2>3 DEF ClientCalls
<1>8. CASE Glasses!TaskGoesOn
  <2>1. UNCHANGED <<al_events, al_link, al_gatt, al_radio, al_connTask, al_found>>
    BY <1>8 DEF Glasses!TaskGoesOn, Glasses!air, Glasses!tasks
  <2>2. Connects' => Connects
    BY <1>0, <2>1 DEF Connects, FoundWaits
  <2> QED BY <1>0, <2>1, <2>2, QueueQuiet DEF ClientCalls
<1> QED BY <1>1, <1>2, <1>3, <1>5, <1>6, <1>7, <1>8 DEF Glasses!Answers

LEMMA HandlersQueue ==
  ASSUME GlassesInv, QueueInv, Glasses!Handlers
  PROVE  QueueInv'
<1>0. GlassesKinds /\ al_gatt' = al_gatt /\ al_link' = al_link /\ al_radio' = al_radio
  BY DEF GlassesInv, Glasses!Handlers, Glasses!HandleScanned, Glasses!HandleConnected,
         Glasses!HandleDisconnected, Glasses!ProcedureDone, Glasses!Handle
<1>1. ASSUME NEW event, Glasses!Handle(event)
      PROVE  /\ al_call = "none" /\ ~FoundWaits' /\ (event = "scanned" /\ al_found => FoundWaits)
             /\ Len(al_events)' = Len(al_events) - 1 /\ Len(al_events) \in Nat
             /\ Connects => event = "scanned" /\ Len(al_events)' = 0
  <2>1. /\ al_call = "none" /\ ~FoundWaits' /\ (event = "scanned" /\ al_found => FoundWaits)
    BY <1>0, <1>1, EventHandled
  <2>2. al_events # <<>> /\ Head(al_events) = event /\ al_events' = Tail(al_events)
    BY <1>1 DEF Glasses!Handle
  <2>3. Len(al_events') = Len(al_events) - 1 /\ Len(al_events) \in Nat /\ Len(al_events) > 0
    BY <1>0, <2>2, HeadTailProperties, QueueLength DEF GlassesKinds
  <2> QED BY <2>1, <2>2, <2>3 DEF QueueInv
<1>2. ASSUME NEW event, Glasses!Handle(event), event # "scanned", al_connTask' = al_connTask,
             al_call' \in ClientCalls \cup {"none"}
      PROVE  QueueInv'
  <2>1. ~Connects
    BY <1>1, <1>2
  <2>2. ~Connects'
    BY <1>0, <1>1, <1>2, <2>1 DEF Connects, ClientCalls
  <2>3. Pending' <= Pending + 1 /\ Pending' \in 0..3 /\ Pending \in 0..3
    BY <1>0, <1>1, <1>2 DEF Pending, ClientCalls
  <2>4. Len(al_events)' + Pending' <= 3
    BY <1>1, <1>2, <2>3 DEF QueueInv
  <2> QED BY <1>0, <2>2, <2>4 DEF QueueInv
<1>3. CASE Glasses!HandleScanned
  <2>1. /\ Glasses!Handle("scanned") /\ al_call' = al_call
        /\ al_connTask' = (al_connTask \/ (al_found /\ al_status # "CONNECTED"))
    BY <1>3 DEF Glasses!HandleScanned
  <2>2. Connects' => Connects
    BY <1>0, <1>1, <2>1 DEF Connects
  <2>3. Pending' = Pending /\ Pending \in 0..3
    BY <1>0, <2>1 DEF Pending
  <2>4. Len(al_events)' + Pending' <= 3
    BY <1>1, <2>1, <2>3 DEF QueueInv
  <2>5. Connects' => Len(al_events)' = 0 /\ al_events' = <<>>
    <3>1. al_events' \in Seq(EventNames)
      BY <1>0, <2>1, EventHandled
    <3> QED BY <1>1, <2>1, <2>2, <3>1, EmptySeq
  <2> QED BY <1>0, <1>1, <2>1, <2>2, <2>4, <2>5 DEF QueueInv
<1>4. CASE Glasses!HandleConnected
  <2>1. Glasses!Handle("connected") /\ al_call' = "discover" /\ al_connTask' = al_connTask
    BY <1>4 DEF Glasses!HandleConnected
  <2> QED BY <1>2, <2>1 DEF ClientCalls
<1>5. CASE Glasses!HandleDisconnected
  <2>1. Glasses!Handle("disconnected") /\ al_call' = al_call /\ al_connTask' = al_connTask
    BY <1>5 DEF Glasses!HandleDisconnected
  <2> QED BY <1>1, <1>2, <2>1 DEF ClientCalls
<1>6. CASE Glasses!ProcedureDone
  <2>1. Glasses!Handle("proc") /\ al_connTask' = al_connTask
    BY <1>6 DEF Glasses!ProcedureDone
  <2>2. al_call' \in {al_call, "discover", "notify", "read"}
    BY <1>6 DEF Glasses!ProcedureDone, Glasses!Discover, Glasses!Finish
  <2> QED BY <1>1, <1>2, <2>1, <2>2 DEF ClientCalls
<1> QED BY <1>3, <1>4, <1>5, <1>6 DEF Glasses!Handlers

LEMMA AirQueue ==
  ASSUME GlassesInv, QueueInv, Glasses!Air
  PROVE  QueueInv'
<1>0. GlassesKinds /\ LinkInv /\ OneConnects /\ al_call' = al_call /\ al_connTask' = al_connTask
  BY DEF GlassesInv, Glasses!Air, Glasses!ScanEnds, Glasses!LinkUp, Glasses!LinkDown,
         Glasses!ProcedureEnds, Glasses!tasks
<1>1. Len(al_events) \in Nat /\ Pending \in 0..3 /\ (al_events # <<>> <=> Len(al_events) > 0)
  BY <1>0, QueueLength
<1>2. ASSUME NEW e \in EventNames, al_events' = Append(al_events, e)
      PROVE  Len(al_events)' = Len(al_events) + 1 /\ al_events' = al_events \o <<e>>
  BY <1>0, <1>2, AppendProperties DEF GlassesKinds
<1>3. CASE Glasses!ScanEnds
  <2>1. /\ al_radio = "scanning" /\ al_radio' = "idle" /\ al_events = <<>> /\ al_call = "none"
        /\ ~al_connTask /\ al_events' = Append(al_events, "scanned")
        /\ al_found' \in {al_link = "down", FALSE} /\ UNCHANGED <<al_link, al_gatt>>
    BY <1>3 DEF Glasses!ScanEnds, Glasses!Quiet, Glasses!Free
  <2>2. Len(al_events)' = 1 /\ Head(al_events)' = "scanned"
    BY <2>1
  <2>3. Pending' \in 0..2
    BY <1>0, <2>1 DEF Pending, ClientCalls
  <2>4. Connects' => al_link = "down"
    BY <1>0, <2>1 DEF Connects, FoundWaits
  <2>5. al_gatt \in BOOLEAN /\ (al_link = "down" => ~al_gatt)
    BY DEF QueueInv
  <2>6. Len(al_events)' + Pending' <= 3
    <3>1. \A p \in 0..2 : 1 + p <= 3
      OBVIOUS
    <3> QED BY <2>2, <2>3, <3>1
  <2>7. al_call' \notin ClientCalls
    BY <1>0, <2>1 DEF ClientCalls
  <2> QED BY <2>1, <2>2, <2>4, <2>5, <2>6, <2>7 DEF QueueInv
<1>4. CASE Glasses!LinkUp
  <2>1. /\ al_radio = "connecting" /\ al_radio' = "idle" /\ al_link = "down" /\ al_link' = "up"
        /\ al_events' = Append(al_events, "connected") /\ UNCHANGED <<al_gatt, al_found>>
    BY <1>4 DEF Glasses!LinkUp
  <2>2. Connects /\ al_call # "connect" /\ ~al_connTask /\ ~FoundWaits
    BY <1>0, <2>1 DEF Connects, OneConnects
  <2>3. "connected" \in EventNames
    BY DEF EventNames
  <2>4. Len(al_events)' = Len(al_events) + 1 /\ Len(al_events) <= 1
    BY <1>2, <2>1, <2>2, <2>3 DEF QueueInv
  <2>5. Pending' = 1
    BY <1>0, <2>1, <2>2 DEF Pending, QueueInv
  <2>6. ~FoundWaits'
    <3>1. <<"connected">> \in Seq(EventNames \ {"scanned"}) /\ al_events' = al_events \o <<"connected">>
      BY <1>2, <2>1, <2>3
    <3> QED BY <1>0, <2>1, <2>2, <3>1, EventsAdded
  <2>7. ~Connects'
    BY <1>0, <2>1, <2>2, <2>6 DEF Connects
  <2> QED BY <1>1, <2>1, <2>2, <2>4, <2>5, <2>7 DEF QueueInv
<1>5. CASE Glasses!LinkDown
  <2>1. /\ al_link \in {"up", "closing"} /\ al_link' = "down" /\ al_gatt' = FALSE
        /\ UNCHANGED <<al_radio, al_found>>
    BY <1>5 DEF Glasses!LinkDown
  <2> DEFINE t == LinkEnds
  <2>2. /\ t \in Seq(EventNames \ {"scanned"}) /\ t \in Seq(EventNames)
        /\ Len(t) = (IF al_gatt THEN 2 ELSE 1)
    BY LinkEndsKnown
  <2>3. al_events' = al_events \o t
    BY <1>0, <1>5, LinkEndsAdded DEF GlassesKinds
  <2> HIDE DEF t
  <2>4. Len(al_events') = Len(al_events) + Len(t)
    <3>1. al_events \in Seq(EventNames) /\ t \in Seq(EventNames)
      BY <1>0, <2>2 DEF GlassesKinds
    <3> QED BY <2>3, <3>1, ConcatProperties
  <2>5. ~Connects
    BY <1>0, <2>1 DEF LinkInv
  <2>6. ~FoundWaits'
    BY <1>0, <2>1, <2>2, <2>3, <2>5, EventsAdded DEF Connects
  <2>7. ~Connects'
    BY <1>0, <2>1, <2>5, <2>6 DEF Connects
  <2>8. Len(t) + Pending' = Pending /\ Pending' \in 0..3 /\ Len(t) \in Nat
    BY <1>0, <2>1, <2>2 DEF Pending, QueueInv
  <2>9. Len(al_events)' + Pending' <= 3
    BY <1>1, <2>4, <2>8 DEF QueueInv
  <2> QED BY <2>1, <2>7, <2>9 DEF QueueInv
<1>6. CASE Glasses!ProcedureEnds
  <2>1. /\ al_gatt /\ al_gatt' = FALSE /\ al_events' = Append(al_events, "proc")
        /\ UNCHANGED <<al_radio, al_link, al_found>>
    BY <1>6 DEF Glasses!ProcedureEnds
  <2>2. ~Connects
    BY <2>1 DEF QueueInv
  <2>3. "proc" \in EventNames
    BY DEF EventNames
  <2>4. ~FoundWaits'
    <3>1. <<"proc">> \in Seq(EventNames \ {"scanned"}) /\ al_events' = al_events \o <<"proc">>
      BY <1>2, <2>1, <2>3
    <3> QED BY <1>0, <2>1, <2>2, <3>1, EventsAdded DEF Connects
  <2>5. ~Connects'
    BY <1>0, <2>1, <2>2, <2>4 DEF Connects
  <2>6. Len(al_events)' = Len(al_events) + 1 /\ Pending' = Pending - 1 /\ Pending' \in 0..3
    BY <1>0, <1>2, <2>1, <2>3 DEF Pending
  <2>7. Len(al_events)' + Pending' <= 3
    BY <1>1, <2>6 DEF QueueInv
  <2> QED BY <2>1, <2>5, <2>7 DEF QueueInv
<1> QED BY <1>3, <1>4, <1>5, <1>6 DEF Glasses!Air

LEMMA QueueNext ==
  ASSUME GlassesInv, QueueInv, [Glasses!Next]_(Glasses!vars)
  PROVE  QueueInv'
<1>1. CASE UNCHANGED Glasses!vars
  <2>1. UNCHANGED QueueState
    BY <1>1 DEF Glasses!vars, Glasses!air, Glasses!tasks, QueueState
  <2> QED BY <2>1, QueueSame
<1> QED BY <1>1, ModeQueue, RequestsQueue, AnswersQueue, HandlersQueue, AirQueue DEF Glasses!Next

(* The other values of the glasses. *)
GlassesStates ==
  /\ al_s_state \in {"INIT", "CFG_WRITE", "SETUP", "CLEAR", "READY", "UPDATE"}
  /\ al_timer \in {"none", "stopped", "running"}
  /\ al_status \in {"IDLE", "CONNECTING", "CONNECTED"}
  /\ al_discState \in {"IDLE", "EXCH_MTU", "SVC", "CHAR", "BATTERY", "DESC", "NOTIFY"}
  /\ al_call \in {"none", "scan", "connect", "terminate", "discover", "notify", "read",
                  "cfg", "setup", "clear", "update"}
  /\ al_radio \in {"idle", "scanning", "connecting"}
GlassesBounds ==
  /\ al_sessions \in 0..MaxSessions /\ al_losses \in 0..GlassesLosses
  /\ al_faults \in 0..GlassesFaults
GlassesFlags ==
  /\ al_session \in BOOLEAN /\ al_alTask \in BOOLEAN /\ al_stray \in BOOLEAN
  /\ al_scanTask \in BOOLEAN /\ al_discTask \in BOOLEAN /\ al_rxCharFound \in BOOLEAN
  /\ al_configured \in BOOLEAN /\ al_gaveUp \in BOOLEAN /\ al_outlived \in BOOLEAN
GlassesValues == GlassesStates /\ GlassesBounds /\ GlassesFlags

LEMMA Counted ==
  ASSUME NEW n, NEW bound \in Nat, n \in 0..bound, n < bound
  PROVE  n + 1 \in 0..bound
OBVIOUS

LEMMA GlassesCounted ==
  ASSUME GlassesBounds
  PROVE  /\ al_sessions < MaxSessions => al_sessions + 1 \in 0..MaxSessions
         /\ al_losses < GlassesLosses => al_losses + 1 \in 0..GlassesLosses
         /\ Glasses!Refused => al_faults' \in 0..GlassesFaults
BY Counted, GlassesAssumption, SpeechAssumption DEF GlassesBounds, Glasses!Refused

LEMMA ModeValues ==
  ASSUME GlassesValues, Glasses!Mode \/ Glasses!FS_ActiveLook_Timer
  PROVE  GlassesValues'
<1> USE DEF Glasses!tasks, Glasses!client, Glasses!air, Glasses!bounds, Glasses!history
<1>1. CASE Glasses!FS_ActiveLook_Init
  <2>1. GlassesStates'
    BY <1>1 DEF Glasses!FS_ActiveLook_Init, GlassesValues, GlassesStates
  <2>2. GlassesBounds'
    BY <1>1, GlassesCounted DEF Glasses!FS_ActiveLook_Init, GlassesValues, GlassesBounds
  <2>3. /\ al_session' = TRUE /\ al_scanTask' = TRUE
        /\ al_stray' = (al_stray \/ al_timer = "running")
        /\ al_outlived' = (al_status # "IDLE" \/ al_link # "down" \/ al_events # <<>>)
        /\ UNCHANGED <<al_alTask, al_discTask, al_rxCharFound, al_configured, al_gaveUp>>
    BY <1>1 DEF Glasses!FS_ActiveLook_Init
  <2>4. GlassesFlags'
    BY <2>3, Zenon DEF GlassesValues, GlassesFlags
  <2> QED BY <2>1, <2>2, <2>4 DEF GlassesValues
<1>2. CASE Glasses!FS_ActiveLook_DeInit
  <2>1. GlassesStates'
    BY <1>2 DEF Glasses!FS_ActiveLook_DeInit, GlassesValues, GlassesStates
  <2>2. GlassesBounds'
    BY <1>2 DEF Glasses!FS_ActiveLook_DeInit, GlassesValues, GlassesBounds
  <2>3. GlassesFlags'
    BY <1>2 DEF Glasses!FS_ActiveLook_DeInit, GlassesValues, GlassesFlags
  <2> QED BY <2>1, <2>2, <2>3 DEF GlassesValues
<1>3. CASE Glasses!FS_ActiveLook_Timer
  BY <1>3 DEF Glasses!FS_ActiveLook_Timer, GlassesValues, GlassesStates, GlassesBounds, GlassesFlags
<1> QED BY <1>1, <1>2, <1>3 DEF Glasses!Mode

LEMMA RequestsValues ==
  ASSUME GlassesValues, Glasses!Requests
  PROVE  GlassesValues'
<1> USE DEF Glasses!display, Glasses!tasks, Glasses!client, Glasses!air, Glasses!bounds,
            Glasses!history
<1>1. /\ UNCHANGED <<al_s_state, al_timer, al_status, al_discState, al_radio>>
      /\ al_call' \in {al_call, "scan", "connect", "terminate", "cfg", "setup", "clear", "update"}
  BY DEF Glasses!Requests, Glasses!ScanRequest, Glasses!ConnectRequest,
         Glasses!DisconnectRequest, Glasses!TaskBegins, Glasses!Writes
<1>2. GlassesStates'
  BY <1>1 DEF GlassesValues, GlassesStates
<1>3. GlassesBounds'
  BY DEF Glasses!Requests, Glasses!ScanRequest, Glasses!ConnectRequest,
         Glasses!DisconnectRequest, Glasses!TaskBegins, GlassesValues, GlassesBounds
<1>4. /\ UNCHANGED <<al_session, al_stray, al_rxCharFound, al_configured, al_gaveUp, al_outlived>>
      /\ al_alTask' \in {al_alTask, FALSE} /\ al_scanTask' \in {al_scanTask, FALSE}
      /\ al_discTask' \in {al_discTask, FALSE}
  BY DEF Glasses!Requests, Glasses!ScanRequest, Glasses!ConnectRequest,
         Glasses!DisconnectRequest, Glasses!TaskBegins
<1>5. GlassesFlags'
  BY <1>4 DEF GlassesValues, GlassesFlags
<1> QED BY <1>2, <1>3, <1>5 DEF GlassesValues

LEMMA AnswersValues ==
  ASSUME GlassesValues, Glasses!Answers
  PROVE  GlassesValues'
<1> USE DEF Glasses!display, Glasses!tasks, Glasses!client, Glasses!air, Glasses!bounds,
            Glasses!history, Glasses!Answered
<1>1. GlassesStates'
  <2>1. CASE Glasses!ScanAnswered \/ Glasses!ConnectAnswered \/ Glasses!TerminateAnswered
    BY <2>1 DEF Glasses!ScanAnswered, Glasses!ConnectAnswered, Glasses!TerminateAnswered,
                GlassesValues, GlassesStates
  <2>2. CASE Glasses!DiscoverAnswered \/ Glasses!NotifyAnswered \/ Glasses!ReadAnswered
    BY <2>2 DEF Glasses!DiscoverAnswered, Glasses!NotifyAnswered, Glasses!ReadAnswered,
                Glasses!Complete, GlassesValues, GlassesStates
  <2>3. CASE Glasses!TaskGoesOn
    BY <2>3 DEF Glasses!TaskGoesOn, Glasses!Written, Glasses!Shown, GlassesValues, GlassesStates
  <2> QED BY <2>1, <2>2, <2>3 DEF Glasses!Answers
<1>2. GlassesBounds'
  <2>1. /\ UNCHANGED <<al_sessions, al_losses>>
        /\ al_faults' = al_faults \/ Glasses!Refused
    BY DEF Glasses!Answers, Glasses!ScanAnswered, Glasses!ConnectAnswered,
           Glasses!TerminateAnswered, Glasses!DiscoverAnswered, Glasses!NotifyAnswered,
           Glasses!ReadAnswered, Glasses!TaskGoesOn, Glasses!Written, Glasses!Shown
  <2> QED BY <2>1, GlassesCounted DEF GlassesValues, GlassesBounds
<1>3. GlassesFlags'
  <2>1. /\ UNCHANGED <<al_session, al_stray, al_scanTask, al_discTask, al_rxCharFound, al_outlived>>
        /\ al_alTask' \in {al_alTask, TRUE} /\ al_configured' \in {al_configured, TRUE}
    BY DEF Glasses!Answers, Glasses!ScanAnswered, Glasses!ConnectAnswered,
           Glasses!TerminateAnswered, Glasses!DiscoverAnswered, Glasses!NotifyAnswered,
           Glasses!ReadAnswered, Glasses!TaskGoesOn, Glasses!Written, Glasses!Shown,
           Glasses!Complete
  <2>2. al_gaveUp' \in {al_gaveUp, TRUE} \/ al_gaveUp' = (al_gaveUp \/ al_link = "up")
    BY DEF Glasses!Answers, Glasses!ScanAnswered, Glasses!ConnectAnswered,
           Glasses!TerminateAnswered, Glasses!DiscoverAnswered, Glasses!NotifyAnswered,
           Glasses!ReadAnswered, Glasses!TaskGoesOn
  <2>3. al_gaveUp' \in BOOLEAN
    BY <2>2, Zenon DEF GlassesValues, GlassesFlags
  <2> QED BY <2>1, <2>3 DEF GlassesValues, GlassesFlags
<1> QED BY <1>1, <1>2, <1>3 DEF GlassesValues

LEMMA HandlersValues ==
  ASSUME GlassesKinds, GlassesValues, Glasses!Handlers
  PROVE  GlassesValues'
<1> USE DEF Glasses!Handle, Glasses!bounds, Glasses!history
<1>1. GlassesStates'
  <2>1. CASE Glasses!HandleScanned \/ Glasses!HandleConnected \/ Glasses!HandleDisconnected
    <3>1. /\ al_s_state' \in {al_s_state, "INIT"} /\ al_timer' \in {al_timer, "stopped"}
          /\ al_status' \in {al_status, "CONNECTED", "IDLE"}
          /\ al_discState' \in {al_discState, "EXCH_MTU"} /\ al_call' \in {al_call, "discover"}
          /\ UNCHANGED al_radio
      BY <2>1 DEF Glasses!HandleScanned, Glasses!HandleConnected, Glasses!HandleDisconnected,
                  Glasses!StateWithout, Glasses!client
    <3> QED BY <3>1 DEF GlassesValues, GlassesStates
  <2>2. CASE Glasses!ProcedureDone
    BY <2>2 DEF Glasses!ProcedureDone, Glasses!Discover, Glasses!Finish, Glasses!Complete,
                GlassesValues, GlassesStates
  <2> QED BY <2>1, <2>2 DEF Glasses!Handlers
<1>2. GlassesBounds' /\ UNCHANGED <<al_session, al_stray, al_discTask, al_configured, al_gaveUp, al_outlived>>
  BY DEF Glasses!Handlers, Glasses!HandleScanned, Glasses!HandleConnected,
         Glasses!HandleDisconnected, Glasses!ProcedureDone, GlassesValues, GlassesBounds
<1>3. al_alTask' \in {al_alTask, TRUE}
  BY DEF Glasses!Handlers, Glasses!HandleScanned, Glasses!HandleConnected,
         Glasses!HandleDisconnected, Glasses!ProcedureDone, Glasses!Discover, Glasses!Finish,
         Glasses!Complete
<1>4. al_scanTask' \in {al_scanTask, TRUE} \/ al_scanTask' = (al_scanTask \/ Glasses!Retries)
  BY DEF Glasses!Handlers, Glasses!HandleScanned, Glasses!HandleConnected,
         Glasses!HandleDisconnected, Glasses!ProcedureDone
<1>5. \/ al_rxCharFound' \in {al_rxCharFound, FALSE}
      \/ al_rxCharFound' = (al_rxCharFound \/ (al_discState = "CHAR" /\ al_link = "up"))
  BY DEF Glasses!Handlers, Glasses!HandleScanned, Glasses!HandleConnected,
         Glasses!HandleDisconnected, Glasses!ProcedureDone, Glasses!client
<1>6. al_scanTask' \in BOOLEAN /\ al_rxCharFound' \in BOOLEAN
  BY <1>4, <1>5, Zenon DEF GlassesValues, GlassesFlags
<1> QED BY <1>1, <1>2, <1>3, <1>6 DEF GlassesValues, GlassesFlags

LEMMA AirValues ==
  ASSUME GlassesValues, Glasses!Air
  PROVE  GlassesValues'
<1> USE DEF Glasses!display, Glasses!tasks, Glasses!client, Glasses!bounds, Glasses!history
<1>1. GlassesStates'
  BY DEF Glasses!Air, Glasses!ScanEnds, Glasses!LinkUp, Glasses!LinkDown,
         Glasses!ProcedureEnds, GlassesValues, GlassesStates
<1>2. GlassesBounds'
  <2>1. /\ UNCHANGED <<al_sessions, al_faults>>
        /\ al_losses' = al_losses \/ (al_losses < GlassesLosses /\ al_losses' = al_losses + 1)
    BY DEF Glasses!Air, Glasses!ScanEnds, Glasses!LinkUp, Glasses!LinkDown, Glasses!ProcedureEnds
  <2> QED BY <2>1, GlassesCounted DEF GlassesValues, GlassesBounds
<1>3. /\ UNCHANGED <<al_session, al_alTask, al_stray, al_scanTask, al_discTask, al_rxCharFound,
                     al_gaveUp, al_outlived>>
      /\ al_configured' \in {al_configured, FALSE}
  BY DEF Glasses!Air, Glasses!ScanEnds, Glasses!LinkUp, Glasses!LinkDown, Glasses!ProcedureEnds
<1>4. GlassesFlags'
  BY <1>3 DEF GlassesValues, GlassesFlags
<1> QED BY <1>1, <1>2, <1>4 DEF GlassesValues

LEMMA GlassesValuesNext ==
  ASSUME GlassesKinds, GlassesValues, [Glasses!Next]_(Glasses!vars)
  PROVE  GlassesValues'
<1>1. CASE UNCHANGED Glasses!vars
  BY <1>1 DEF Glasses!vars, Glasses!display, Glasses!tasks, Glasses!client, Glasses!air,
              Glasses!bounds, Glasses!history, GlassesValues, GlassesStates, GlassesBounds,
              GlassesFlags
<1> QED BY <1>1, ModeValues, RequestsValues, AnswersValues, HandlersValues, AirValues
        DEF Glasses!Next

(* The types of the glasses (activelook.c, app_ble.c).  Of their events no   *)
(* more than three wait at a time, where the type allows four.               *)
LEMMA GlassesTypeCorrect == Glasses!Spec => []Glasses!TypeOK
<1>1. Glasses!Init => GlassesValues /\ QueueInv
  <2>1. 0 \in 0..MaxSessions /\ 0 \in 0..GlassesLosses /\ 0 \in 0..GlassesFaults
    BY GlassesAssumption, SpeechAssumption
  <2>2. Glasses!Init => GlassesValues
    BY <2>1 DEF Glasses!Init, GlassesValues, GlassesStates, GlassesBounds, GlassesFlags
  <2>3. Glasses!Init => QueueInv
    <3> SUFFICES ASSUME Glasses!Init PROVE QueueInv
      OBVIOUS
    <3>1. Len(al_events) = 0 /\ Pending = 0
      BY EmptySeq DEF Glasses!Init, Pending, ClientCalls
    <3>2. ~Connects
      BY <3>1 DEF Glasses!Init, Connects, FoundWaits
    <3>3. al_gatt \in BOOLEAN /\ (al_link = "down" => ~al_gatt)
      BY DEF Glasses!Init
    <3>4. Len(al_events) + Pending <= 3
      BY <3>1
    <3> QED BY <3>2, <3>3, <3>4 DEF QueueInv
  <2> QED BY <2>2, <2>3
<1>2. GlassesInv /\ QueueInv /\ GlassesValues => Glasses!TypeOK
  <2> SUFFICES ASSUME GlassesInv, QueueInv, GlassesValues PROVE Glasses!TypeOK
    OBVIOUS
  <2>1. \A flag \in {al_session, al_alTask, al_stray, al_scanTask, al_connTask, al_discTask,
                     al_found, al_rxCharFound, al_gatt, al_configured, al_gaveUp, al_outlived} :
          flag \in BOOLEAN
    BY Zenon DEF GlassesValues, GlassesFlags, GlassesInv, GlassesKinds, QueueInv
  <2>2. Len(al_events) <= 4
    BY QueueLength DEF GlassesInv, QueueInv
  <2>3. al_link \in {"down", "up", "closing"}
        /\ al_events \in Seq({"scanned", "connected", "proc", "disconnected"})
    BY DEF GlassesInv, GlassesKinds, EventNames
  <2> QED BY <2>1, <2>2, <2>3 DEF GlassesValues, GlassesStates, GlassesBounds, Glasses!TypeOK
<1>3. GlassesInv /\ QueueInv /\ GlassesValues /\ [Glasses!Next]_(Glasses!vars) => GlassesValues'
  BY GlassesValuesNext DEF GlassesInv
<1>4. GlassesInv /\ QueueInv /\ [Glasses!Next]_(Glasses!vars) => GlassesInv' /\ QueueInv'
  BY GlassesNext, QueueNext
<1> QED BY <1>1, <1>2, <1>3, <1>4, GlassesBegins, PTL DEF Glasses!Spec

(* The types of the calendar (time.c). *)
LEMMA DaysTypeCorrect == Days!Spec => []Days!TypeOK
<1>1. CalInv => Days!TypeOK
  <2> SUFFICES ASSUME CalInv PROVE Days!TypeOK
    OBVIOUS
  <2>1. cal_year \in Years /\ cal_year >= 2000 /\ cal_month \in Months
    BY DEF CalInv, IsDate, Years
  <2>2. cal_mday \in 1..31
    <3>1. Days!Length(cal_month, cal_year) \in 28..31
      BY <2>1, MonthsFollow
    <3>2. cal_mday \in 1..Days!Length(cal_month, cal_year)
      BY DEF CalInv, IsDate
    <3>3. ASSUME NEW n \in 28..31, NEW k \in 1..n PROVE k \in 1..31
      OBVIOUS
    <3> QED BY <3>1, <3>2, <3>3, Zenon
  <2>3. cal_day \in 0..Last
    BY DEF CalInv, IsDate
  <2>4. Days!TypeOK <=> /\ cal_day \in 0..Last /\ cal_year >= 2000
                        /\ cal_month \in Months /\ cal_mday \in 1..31
    BY DEF Days!TypeOK, Last, Months
  <2> QED BY <2>1, <2>2, <2>3, <2>4
<1> QED BY <1>1, CalBegins, CalNext, PTL DEF Days!Spec

(***************************************************************************)
(* The card and the parts together                                         *)
(***************************************************************************)
(* A step is of one part, and leaves the variables of the others.            *)
LEMMA OnePartMoves ==
  ASSUME [MCNext]_all
  PROVE  /\ Next \/ UNCHANGED vars
         /\ Log!Next \/ UNCHANGED log_vars
         /\ Events!Next \/ UNCHANGED ev_vars
         /\ Gnss!Next \/ UNCHANGED gnss_vars
         /\ Vbat!Next \/ UNCHANGED vbat_vars
         /\ Speech!Next \/ UNCHANGED say_vars
         /\ Glasses!Next \/ UNCHANGED al_vars
         /\ Days!Next \/ UNCHANGED cal_vars
BY DEF MCNext, ButDisk, ButLog, ButEvents, ButGnss, ButVbat, ButSpeech, ButGlasses, ButDays, all

LEMMA PartsBegin ==
  MCInit => /\ Init /\ Log!Init /\ Events!Init /\ Gnss!Init /\ Vbat!Init /\ Speech!Init
            /\ Glasses!Init /\ Days!Init
BY DEF MCInit

(* Each part behaves as its own module says, whatever is composed with it:   *)
(* what is proved of a part holds of the whole.                              *)
LEMMA PartsImplemented ==
  MCSpec => /\ Spec /\ Log!Spec /\ Events!Spec /\ Gnss!Spec /\ Vbat!Spec /\ Speech!Spec
            /\ Glasses!Spec /\ Days!Spec
<1>1. [MCNext]_all => [Next]_vars
  BY OnePartMoves
<1>2. [MCNext]_all => [Log!Next]_(Log!vars)
  <2>1. UNCHANGED log_vars => UNCHANGED Log!vars
    BY DEF log_vars, Log!vars, Log!rings, Log!sched, Log!batch
  <2> QED BY <2>1, OnePartMoves
<1>3. [MCNext]_all => [Events!Next]_(Events!vars)
  <2>1. UNCHANGED ev_vars => UNCHANGED Events!vars
    BY DEF ev_vars, Events!vars, Events!ring, Events!callers, Events!reader
  <2> QED BY <2>1, OnePartMoves
<1>4. [MCNext]_all => [Gnss!Next]_(Gnss!vars)
  <2>1. UNCHANGED gnss_vars => UNCHANGED Gnss!vars
    BY DEF gnss_vars, Gnss!vars, Gnss!ring, Gnss!config, Gnss!task, Gnss!data, Gnss!time,
           Gnss!receiver
  <2> QED BY <2>1, OnePartMoves
<1>5. [MCNext]_all => [Vbat!Next]_(Vbat!vars)
  <2>1. UNCHANGED vbat_vars => UNCHANGED Vbat!vars
    BY DEF vbat_vars, Vbat!vars
  <2> QED BY <2>1, OnePartMoves
<1>6. [MCNext]_all => [Speech!Next]_(Speech!vars)
  <2>1. UNCHANGED say_vars => UNCHANGED Speech!vars
    BY DEF say_vars, Speech!vars, Speech!memory, Speech!tone, Speech!ends
  <2> QED BY <2>1, OnePartMoves
<1>7. [MCNext]_all => [Glasses!Next]_(Glasses!vars)
  <2>1. UNCHANGED al_vars => UNCHANGED Glasses!vars
    BY DEF al_vars, Glasses!vars, Glasses!display, Glasses!tasks, Glasses!client, Glasses!air,
           Glasses!bounds, Glasses!history
  <2> QED BY <2>1, OnePartMoves
<1>8. [MCNext]_all => [Days!Next]_(Days!vars)
  <2>1. UNCHANGED cal_vars => UNCHANGED Days!vars
    BY DEF cal_vars, Days!vars
  <2> QED BY <2>1, OnePartMoves
<1> QED BY <1>1, <1>2, <1>3, <1>4, <1>5, <1>6, <1>7, <1>8, PartsBegin, PTL
        DEF MCSpec, Spec, Log!Spec, Events!Spec, Gnss!Spec, Vbat!Spec, Speech!Spec,
            Glasses!Spec, Days!Spec

(* The card and every part keep to the types of their modules, the parts of  *)
(* a session side by side as well (log.c, gnss.c, vbat.c, audio_control.c,   *)
(* activelook.c, time.c).                                                    *)
THEOREM PartsAlwaysTyped == MCSpec => []PartsTypeOK
<1>1. /\ TypeOK /\ Log!TypeOK /\ Events!TypeOK /\ Gnss!TypeOK /\ Vbat!TypeOK
      /\ Speech!TypeOK /\ Glasses!TypeOK /\ Days!TypeOK
      => PartsTypeOK
  BY DEF PartsTypeOK
<1> QED BY <1>1, PartsImplemented, TypeCorrect, LogTypeCorrect, EventTypeCorrect, GnssTypeCorrect,
           VbatTypeCorrect, SpeechTypeCorrect, GlassesTypeCorrect, DaysTypeCorrect, PTL

(* What the parts promise they promise together, with the same exceptions:   *)
(* the whole composition has the properties that are proved of its parts.    *)
THEOREM SessionAlwaysRight ==
  MCSpec => /\ [](/\ CountsMatchHolders /\ FilesOnVolume /\ EventsKept /\ MeasurementsRight
                  /\ ActiveMeasures /\ DisplayRight /\ TimesRight)
            /\ []ReleasesMatch /\ RowsKept /\ SpeechClear
BY PartsImplemented, CountsAlwaysMatch, FilesStayOnVolume, ReleasesAlwaysMatch, EventsAlwaysKept,
   MeasurementsAlwaysRight, ActiveAlwaysMeasures, DisplayAlwaysRight, TimesAlwaysRight,
   RowsAlwaysKept, SpeechAlwaysClear, PTL
=============================================================================
