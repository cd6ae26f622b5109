------------------------------- MODULE Button -------------------------------
(***************************************************************************)
(* The push button (FlySight/button.c).  An edge starts a repeated timer   *)
(* that samples the pin; enough samples in a row that differ from the      *)
(* state change it and push an event.  While busy is set, edges are        *)
(* ignored.                                                                *)
(*                                                                         *)
(* The edge interrupt has priority 2: it comes at once, between any two    *)
(* steps of the timer's handler, which has priority 3.                     *)
(***************************************************************************)
EXTENDS Integers

VARIABLES
  line,       \* the pin
  edge,       \* the EXTI line is pending
  state, count, busy,
  timer,      \* "none" before HW_TS_Create
  sampling,   \* what FS_Button_Init or FS_Button_Timer has read of the pin
  ignored     \* history: the last edge was dropped, or started no timer

vars == <<line, edge, state, count, busy, timer, sampling, ignored>>

Levels == {"RELEASED", "PRESSED"}

(* PRESS_MSEC / CHECK_MSEC, and RELEASE_MSEC / CHECK_MSEC: 20 in the code. *)
Checks == [RELEASED |-> 2, PRESSED |-> 4]

-----------------------------------------------------------------------------
Bounce ==
  /\ line' \in Levels \ {line} /\ edge' = TRUE
  /\ UNCHANGED <<state, count, busy, timer, sampling, ignored>>

(* Mutant of InitialState: at start the button is taken for released. *)
InitialStateReleased == "RELEASED"
InitialState == line

(* FS_Button_Init: the pin is read, the state set, then the timer created.   *)
(* The interrupt of the pin is enabled all along.                            *)
InitReads ==
  /\ state = "INIT" /\ sampling = "no" /\ ~edge /\ sampling' = InitialState
  /\ UNCHANGED <<line, edge, state, count, busy, timer, ignored>>

InitStores ==
  /\ state = "INIT" /\ sampling # "no" /\ ~edge
  /\ state' = sampling /\ sampling' = "no"
  /\ UNCHANGED <<line, edge, count, busy, timer, ignored>>

InitCreates ==
  /\ state # "INIT" /\ ~edge /\ timer = "none" /\ timer' = "stopped"
  /\ UNCHANGED <<line, edge, state, count, busy, sampling, ignored>>

-----------------------------------------------------------------------------
(* Mutant of FirstCount: the counter is not set. *)
FirstCountKept == count
FirstCount == Checks[state]

(* FS_Button_Triggered, the interrupt of an edge.  Started before it was     *)
(* created, the timer would never call back.                                 *)
Triggered ==
  /\ edge /\ edge' = FALSE
  /\ IF state = "INIT" \/ busy
     THEN /\ ignored' = (ignored \/ sampling # "no")
          /\ UNCHANGED <<count, busy, timer>>
     ELSE /\ busy' = TRUE /\ count' = FirstCount
          /\ timer' = IF timer = "none" THEN "none" ELSE "running"
          /\ ignored' = (timer = "none")
  /\ UNCHANGED <<line, state, sampling>>

(* FS_Button_Timer, up to the stop of the timer and then to its end. *)
Sample ==
  /\ timer = "running" /\ sampling = "no" /\ ~edge
  /\ sampling' = line
  /\ UNCHANGED <<line, edge, state, count, busy, timer, ignored>>

Differs(level) == level # state

Counts ==
  /\ sampling # "no" /\ Differs(sampling) /\ count > 1 /\ ~edge
  /\ count' = count - 1 /\ sampling' = "no" /\ ignored' = FALSE
  /\ UNCHANGED <<line, edge, state, busy, timer>>

Settles ==
  /\ sampling \in Levels /\ timer = "running" /\ ~edge
  /\ \/ ~Differs(sampling) /\ UNCHANGED <<state, count>>
     \/ Differs(sampling) /\ count = 1 /\ state' = sampling /\ count' = 0
  /\ timer' = "stopped"
  /\ UNCHANGED <<line, edge, busy, sampling, ignored>>

Ends ==
  /\ sampling # "no" /\ timer = "stopped" /\ ~edge
  /\ busy' = FALSE /\ sampling' = "no"
  /\ UNCHANGED <<line, edge, state, count, timer, ignored>>

-----------------------------------------------------------------------------
Init ==
  /\ line \in Levels /\ edge = FALSE
  /\ state = "INIT" /\ count = 0 /\ busy = FALSE
  /\ timer = "none" /\ sampling = "no" /\ ignored = FALSE

Handlers == Triggered \/ Sample \/ Counts \/ Settles \/ Ends
Starts   == InitReads \/ InitStores \/ InitCreates
Next == Bounce \/ Starts \/ Handlers

Spec == Init /\ [][Next]_vars

(* Interrupts are served, and the timer ticks. *)
Fairness == WF_vars(Starts) /\ WF_vars(Handlers)
FairSpec == Spec /\ Fairness

-----------------------------------------------------------------------------
TypeOK ==
  /\ line \in Levels /\ edge \in BOOLEAN /\ state \in Levels \union {"INIT"}
  /\ count \in 0..4 /\ busy \in BOOLEAN /\ timer \in {"none", "stopped", "running"}
  /\ sampling \in Levels \union {"no"} /\ ignored \in BOOLEAN

(* At rest the state is that of the pin, however it bounced.  Three edges    *)
(* are dropped for good (ignored), and then it is not, until the next edge:  *)
(* one between the last sample and busy = false, one in FS_Button_Init       *)
(* between the read and the store, and one before the timer is created.      *)
StateFollows ==
  state # "INIT" /\ ~busy /\ ~edge /\ ~ignored => state = line

(* The debounced button is the button.                                       *)
ButtonSafe ==
  TypeOK /\ StateFollows

(* A button that is held down is reported, unless its edge was one of these. *)
PressIsSeen ==
  (line = "PRESSED" /\ state = "RELEASED")
    ~> (state = "PRESSED" \/ line = "RELEASED" \/ ignored)
=============================================================================
