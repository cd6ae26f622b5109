---------------------------- MODULE AudioControl ----------------------------
(***************************************************************************)
(* What ACTIVE mode lets be heard (FlySight/audio_control.c): the producer *)
(* task turns a GNSS solution into a tone rate, a text or an alarm; the    *)
(* consumer task speaks the text word by word; a timer interrupt begins    *)
(* the tones and wakes the consumer.  They share the player, which here is *)
(* external (AudioPlayback is the model of it).                            *)
(*                                                                         *)
(* The tasks run one at a time; the interrupt may come between any two.    *)
(* The values that are spoken or drive the tone are left out, so a rate is *)
(* any.  The windows around alarms and announced altitudes have no height. *)
(***************************************************************************)
EXTENDS Integers

CONSTANTS
  Altitudes, AltMin,      \* altitudes of the flight; the lowest announced
  StepSize,               \* between two announced altitudes (alt_step)
  Alarms, Windows,        \* elevations of the alarms; altitudes in a silence window
  MaxWords, SpRate,
  MaxSessions             \* bound

VARIABLES
  session, sessions,
  flags, prevFix, prevHMSL,   \* of prev_flags only the fix is used
  g_suppress_tone,
  left,                       \* words at speech_ptr
  sp_counter, toneRate, toneHold,
  producer, consumer,         \* the tasks' bits
  audio,                      \* what the player has
  late,                       \* history: a task began a sound after the session
  runaway                     \* history: a text without an end was made

memory == <<prevFix, prevHMSL>>
tone   == <<g_suppress_tone, toneRate, toneHold>>
ends   == <<late, runaway>>
vars == <<session, sessions, flags, memory, tone, left, sp_counter,
          producer, consumer, audio, ends>>

-----------------------------------------------------------------------------
(* FS_Audio_Beep, FS_Audio_Play and FS_Audio_Stop, as the tasks use them.    *)
(* Outside of a session the SAI and the volume are off and no volume is      *)
(* mounted: a file cannot be opened, and a beep is begun but never ends.     *)
Sound(what) == IF session THEN what ELSE IF what = "word" THEN "idle" ELSE "stuck"

-----------------------------------------------------------------------------
(* FS_AudioControl_Init.  A text may be there from the start (init_mode).    *)
FS_AudioControl_Init ==
  /\ ~session /\ sessions < MaxSessions /\ ~runaway
  /\ session' = TRUE /\ sessions' = sessions + 1
  /\ flags' \in {{}, {"SAY_ALTITUDE"}}
  /\ prevFix' = FALSE /\ g_suppress_tone' = FALSE /\ left' \in {0, MaxWords}
  /\ sp_counter' = 0 /\ toneRate' = "off" /\ toneHold' = FALSE
  /\ UNCHANGED <<prevHMSL, producer, consumer, audio, ends>>

(* Mutant of Silenced: the player is left as it is. *)
SilencedNot == audio
Silenced == "idle"

(* FS_AudioControl_DeInit, and FS_Audio_DeInit behind it.  The timer is      *)
(* deleted; the tasks' bits stay set.                                        *)
FS_AudioControl_DeInit ==
  /\ session /\ session' = FALSE /\ audio' = Silenced
  /\ UNCHANGED <<sessions, flags, memory, tone, left, sp_counter, producer, consumer, ends>>

FS_AudioControl_UpdateGNSS ==
  /\ session /\ producer' = TRUE
  /\ UNCHANGED <<session, sessions, flags, memory, tone, left, sp_counter, consumer,
                 audio, ends>>

-----------------------------------------------------------------------------
(* updateAlarms.  At an alarm, in a window or at an announced altitude there *)
(* is no tone.  The announced altitude is the nearest one.                   *)
Step(alt) == ((alt + StepSize \div 2) \div StepSize) * StepSize
Suppressed(alt) == alt \in Alarms \union Windows \/ (alt = Step(alt) /\ alt >= AltMin)

(* An elevation between this altitude and the last one, if there was a fix. *)
Between(elev, a, b) == (a <= elev /\ elev < b) \/ (b <= elev /\ elev < a)
Passes(elev, alt) == prevFix /\ Between(elev, prevHMSL, alt)
Alarm(alt) == \E elev \in Alarms : Passes(elev, alt)

(* What is heard is cut off by an alarm, and where the silence begins. *)
CutOff(alt) == Suppressed(alt) /\ ~g_suppress_tone
AfterAlarms(alt) == IF Alarm(alt) \/ CutOff(alt) THEN 0 ELSE left

(* Mutant of MaySpeak: a text begins although another is being spoken. *)
MaySpeakOver(words) == "SAY_ALTITUDE" \notin flags
MaySpeak(words) == words = 0 /\ "SAY_ALTITUDE" \notin flags

SaysStep(alt, fast) ==
  /\ fast /\ Passes(Step(alt), alt) /\ ~Alarm(alt) /\ alt \notin Windows
  /\ prevHMSL >= AltMin /\ MaySpeak(AfterAlarms(alt))

(* updateTones.  Outside of the silence the tone follows the values while    *)
(* the flight is fast enough, and every sp_rate one is spoken (none if that  *)
(* is 0), if there is one to say.  The one that cannot be formed (a          *)
(* navigation value too far away) leaves a text without an end.              *)
Rates == {"off", "beeps", "flatline"}

(* Mutant of Audible: the tone is set in the silence too. *)
AudibleAlways(alt) == TRUE
Audible(alt) == ~Suppressed(alt)

SaysValue(alt, fast) ==
  /\ Audible(alt) /\ fast /\ SpRate # 0 /\ sp_counter >= SpRate
  /\ ~SaysStep(alt, fast) /\ MaySpeak(AfterAlarms(alt))

NewRate(alt, fast) ==
  IF ~Audible(alt) THEN {IF CutOff(alt) THEN "off" ELSE toneRate}
  ELSE IF fast THEN Rates ELSE {"off"}

(* producerTask, with a fix and without.  With the first fix the consumer is *)
(* to beep.                                                                  *)
Accuracy(set) == \/ flags' = set \union {"VERTICAL_ACC"} \/ flags' = set \ {"VERTICAL_ACC"}

ProducerFix ==
  /\ producer /\ ~runaway /\ producer' = FALSE
  /\ \E alt \in Altitudes, fast \in BOOLEAN :
       /\ g_suppress_tone' = Suppressed(alt)
       /\ audio' = IF Alarm(alt) THEN Sound("alarm")
                   ELSE IF CutOff(alt) THEN "idle" ELSE audio
       /\ late' = (late \/ (Alarm(alt) /\ ~session))
       /\ left' \in IF SaysStep(alt, fast) THEN {MaxWords}
                    ELSE IF SaysValue(alt, fast) THEN {0, MaxWords}
                    ELSE {AfterAlarms(alt)}
       /\ runaway' \in {FALSE, SaysValue(alt, fast)}
       /\ toneRate' \in NewRate(alt, fast)
       /\ sp_counter' = IF SaysValue(alt, fast) THEN 1
                        ELSE IF sp_counter < SpRate THEN sp_counter + 1 ELSE sp_counter
       /\ prevHMSL' = alt /\ prevFix' = TRUE
  /\ Accuracy(flags \union {"HAS_FIX"}
                \union (IF "BEEP_DONE" \in flags THEN {} ELSE {"FIRST_FIX"}))
  /\ UNCHANGED <<session, sessions, toneHold, consumer>>

ProducerNoFix ==
  /\ producer /\ ~runaway /\ producer' = FALSE
  /\ toneRate' = "off" /\ prevHMSL' \in Altitudes /\ prevFix' = FALSE
  /\ Accuracy(flags \ {"HAS_FIX"})
  /\ UNCHANGED <<session, sessions, g_suppress_tone, toneHold, left, sp_counter, consumer,
                 audio, ends>>

-----------------------------------------------------------------------------
(* Mutant of MayBeep: a tone may begin between two words. *)
MayBeepBetween == audio = "idle"
MayBeep == audio = "idle" /\ ~toneHold

(* consumerTimer, in an interrupt.  A flat line begins a tone whenever the   *)
(* player is idle, beeps do when their period is over.                       *)
ConsumerTimer ==
  /\ session /\ consumer' = TRUE
  /\ \/ /\ MayBeep /\ toneRate # "off" /\ audio' = "tone"
     \/ ~(MayBeep /\ toneRate = "flatline") /\ UNCHANGED audio
  /\ UNCHANGED <<session, sessions, flags, memory, tone, left, sp_counter, producer, ends>>

(* consumerTask. *)
Consumer == consumer /\ ~runaway /\ consumer' = FALSE

SpeakWord ==
  /\ Consumer /\ left > 0
  /\ IF audio = "idle"
     THEN toneHold' = TRUE /\ audio' = Sound("word") /\ left' = left - 1
          /\ late' = (late \/ ~session)
     ELSE UNCHANGED <<toneHold, audio, left, late>>
  /\ UNCHANGED <<session, sessions, flags, memory, g_suppress_tone, toneRate, sp_counter,
                 producer, runaway>>

(* No text is left: the first fix is beeped, and the altitude said where     *)
(* announcements are on and it is known.                                     *)
NoText ==
  /\ Consumer /\ left = 0 /\ toneHold' = FALSE
  /\ \/ /\ audio = "idle" /\ "FIRST_FIX" \in flags
        /\ flags' = (flags \ {"FIRST_FIX"}) \union {"BEEP_DONE"}
        /\ audio' = Sound("alarm") /\ late' = (late \/ ~session) /\ UNCHANGED left
     \/ /\ audio = "idle" /\ "FIRST_FIX" \notin flags
        /\ {"SAY_ALTITUDE", "HAS_FIX", "VERTICAL_ACC"} \subseteq flags
        /\ flags' = flags \ {"SAY_ALTITUDE"} /\ left' = MaxWords
        /\ UNCHANGED <<audio, late>>
     \/ /\ audio # "idle" \/ ("FIRST_FIX" \notin flags
             /\ ~({"SAY_ALTITUDE", "HAS_FIX", "VERTICAL_ACC"} \subseteq flags))
        /\ UNCHANGED <<flags, left, audio, late>>
  /\ UNCHANGED <<session, sessions, memory, g_suppress_tone, toneRate, sp_counter, producer,
                 runaway>>

(* The player is done (FS_Audio_Update). *)
SoundEnds ==
  /\ audio \in {"tone", "alarm", "word"} /\ audio' = "idle"
  /\ UNCHANGED <<session, sessions, flags, memory, tone, left, sp_counter, producer, consumer,
                 ends>>

-----------------------------------------------------------------------------
Init ==
  /\ session = FALSE /\ sessions = 0 /\ flags = {} /\ prevFix = FALSE /\ prevHMSL = 0
  /\ g_suppress_tone = FALSE /\ left = 0 /\ sp_counter = 0 /\ toneRate = "off"
  /\ toneHold = FALSE /\ producer = FALSE /\ consumer = FALSE /\ audio = "idle"
  /\ late = FALSE /\ runaway = FALSE

Next == \/ FS_AudioControl_Init \/ FS_AudioControl_DeInit \/ FS_AudioControl_UpdateGNSS
        \/ ProducerFix \/ ProducerNoFix \/ ConsumerTimer \/ SpeakWord \/ NoText \/ SoundEnds

Spec == Init /\ [][Next]_vars

-----------------------------------------------------------------------------
TypeOK ==
  /\ flags \subseteq {"HAS_FIX", "FIRST_FIX", "BEEP_DONE", "SAY_ALTITUDE", "VERTICAL_ACC"}
  /\ \A flag \in {session, prevFix, g_suppress_tone, toneHold, producer, consumer, late,
                  runaway} : flag \in BOOLEAN
  /\ sessions \in 0..MaxSessions /\ prevHMSL \in Altitudes \union {0}
  /\ left \in 0..MaxWords /\ sp_counter \in 0..SpRate /\ toneRate \in Rates
  /\ audio \in {"idle", "tone", "alarm", "word", "stuck"}

(* Near an alarm, in a silence window and at an announced altitude no tone   *)
(* is begun by the timer, until the flight has left it.                      *)
QuietInWindow == g_suppress_tone => toneRate = "off"

(* From the first word of a text to its last no tone is heard, whenever the  *)
(* interrupt comes.                                                          *)
NoToneInSpeech == toneHold /\ left > 0 => audio # "tone"

(* A text is spoken to its end or cut off, by an alarm or where a silence    *)
(* begins: none of the four places that make one replaces another.           *)
OneTextAtATime ==
  [][left' > left /\ session =>
       left = 0 \/ audio' = "alarm" \/ (g_suppress_tone' /\ ~g_suppress_tone)]_vars

(* Nothing is heard after the session, unless a task whose bit was still set *)
(* had a sound to begin: a beep then never ends, and the player is not idle  *)
(* in the next session either (FS_Audio_Init does not reset it).             *)
SilentAfterwards == ~session /\ ~late => audio = "idle"

(* What is said can be understood: no tone over it or in the silence, no     *)
(* text over another, nothing after the session.                             *)
SpeechClear ==
  /\ [](QuietInWindow /\ NoToneInSpeech /\ SilentAfterwards)
  /\ OneTextAtATime
=============================================================================
