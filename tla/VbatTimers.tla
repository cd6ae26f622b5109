----------------------------- MODULE VbatTimers -----------------------------
(***************************************************************************)
(* The battery measurement (FlySight/vbat.c) and its two users: ACTIVE     *)
(* mode (active_mode.c) and a connection outside of it (custom_app.c).     *)
(* There is one timer id for both, taken from the timer server's pool      *)
(* (Core/Src/hw_timerserver.c), whose other users are "other".             *)
(***************************************************************************)
EXTENDS Integers

CONSTANTS CFG_HW_TS_MAX_NBR_CONCURRENT_TIMER

VARIABLES
  mode, connected,
  ble_vbat_started, ble_adc_started,
  adc,             \* "RESET", or "READY" once MX_ADC1_Init has set it up
  vbat_timer_id,
  other_id,        \* the timer of another component; the pool's size: it has none
  timers,          \* whose each timer of the pool is
  doubled          \* history: ACTIVE mode began with the timer of a connection

vars == <<mode, connected, ble_vbat_started, ble_adc_started, adc,
          vbat_timer_id, other_id, timers, doubled>>

Ids == 0..CFG_HW_TS_MAX_NBR_CONCURRENT_TIMER - 1
None == CFG_HW_TS_MAX_NBR_CONCURRENT_TIMER

-----------------------------------------------------------------------------
(* HW_TS_Create takes the first free timer; when there is none the id of the *)
(* caller is left as it is.  HW_TS_Delete frees whatever has the id.         *)
First(id) == timers[id] = "free" /\ \A i \in 0..id - 1 : timers[i] # "free"

Create(user, old, new) ==
  \/ \E id \in Ids : First(id) /\ new = id /\ timers' = [timers EXCEPT ![id] = user]
  \/ new = old /\ UNCHANGED timers /\ \A id \in Ids : timers[id] # "free"

Delete(id) == timers' = [timers EXCEPT ![id] = "free"]

FS_VBAT_Init == Create("vbat", vbat_timer_id, vbat_timer_id')
FS_VBAT_DeInit == Delete(vbat_timer_id) /\ UNCHANGED vbat_timer_id

-----------------------------------------------------------------------------
(* Custom_CRS_OnConnect. *)
Connect ==
  /\ ~connected /\ connected' = TRUE
  /\ IF mode # "ACTIVE"
     THEN /\ FS_VBAT_Init /\ ble_vbat_started' = TRUE
          /\ ble_adc_started' = (ble_adc_started \/ adc = "RESET") /\ adc' = "READY"
     ELSE UNCHANGED <<ble_vbat_started, ble_adc_started, adc, vbat_timer_id, timers>>
  /\ UNCHANGED <<mode, other_id, doubled>>

(* Mutant of StartedHere: the measurement is stopped whoever started it. *)
StartedAnywhere == TRUE
StartedHere == ble_vbat_started

(* Custom_CRS_OnDisconnect: what the connection started is stopped. *)
Disconnect ==
  /\ connected /\ connected' = FALSE
  /\ IF StartedHere THEN FS_VBAT_DeInit ELSE UNCHANGED <<vbat_timer_id, timers>>
  /\ adc' = IF ble_adc_started THEN "RESET" ELSE adc
  /\ ble_vbat_started' = FALSE /\ ble_adc_started' = FALSE
  /\ UNCHANGED <<mode, other_id, doubled>>

(* FS_ActiveMode_Init and _DeInit, with enable_vbat. *)
ActiveBegins ==
  /\ mode = "SLEEP" /\ mode' = "ACTIVE" /\ adc' = "READY" /\ FS_VBAT_Init
  /\ doubled' = (doubled \/ ble_vbat_started)
  /\ UNCHANGED <<connected, ble_vbat_started, ble_adc_started, other_id>>

ActiveEnds ==
  /\ mode = "ACTIVE" /\ mode' = "SLEEP" /\ adc' = "RESET" /\ FS_VBAT_DeInit
  /\ UNCHANGED <<connected, ble_vbat_started, ble_adc_started, other_id, doubled>>

(* The timers of other components come and go. *)
OtherCreates ==
  /\ other_id = None /\ Create("other", other_id, other_id')
  /\ UNCHANGED <<mode, connected, ble_vbat_started, ble_adc_started, adc, vbat_timer_id,
                 doubled>>

OtherDeletes ==
  /\ other_id # None /\ Delete(other_id) /\ other_id' = None
  /\ UNCHANGED <<mode, connected, ble_vbat_started, ble_adc_started, adc, vbat_timer_id,
                 doubled>>

-----------------------------------------------------------------------------
Init ==
  /\ mode = "SLEEP" /\ connected = FALSE
  /\ ble_vbat_started = FALSE /\ ble_adc_started = FALSE /\ adc = "RESET"
  /\ vbat_timer_id = 0 /\ other_id = None
  /\ timers = [id \in Ids |-> "free"] /\ doubled = FALSE

Next == Connect \/ Disconnect \/ ActiveBegins \/ ActiveEnds \/ OtherCreates \/ OtherDeletes

Spec == Init /\ [][Next]_vars

-----------------------------------------------------------------------------
TypeOK ==
  /\ mode \in {"SLEEP", "ACTIVE"} /\ adc \in {"RESET", "READY"}
  /\ \A flag \in {connected, ble_vbat_started, ble_adc_started, doubled} : flag \in BOOLEAN
  /\ vbat_timer_id \in Ids /\ other_id \in Ids \union {None}
  /\ timers \in [Ids -> {"free", "vbat", "other"}]

(* ACTIVE mode measures the battery whatever connections do ("active mode    *)
(* manages VBAT independently"): it has a timer of its own, and the ADC is   *)
(* set up.  That fails once a connection made in SLEEP lasts into ACTIVE     *)
(* mode: both then have one id, and the disconnection deletes the timer, or  *)
(* resets the ADC, of the mode.                                              *)
ActiveMeasures ==
  mode = "ACTIVE" /\ ~doubled => timers[vbat_timer_id] = "vbat" /\ adc = "READY"
=============================================================================
