---------------------------- MODULE StartControl ----------------------------
(***************************************************************************)
(* The starter pistol (FlySight/start_control.c): on a command it counts   *)
(* down, sounds the tone and marks the moment with the EXTINT pin of the   *)
(* GNSS receiver, whose TIM-TM2 message then tells the exact time to       *)
(* report.                                                                 *)
(*                                                                         *)
(* The count timer is an interrupt; the commands, the message's callback   *)
(* and the update task run in tasks, one at a time, each as the steps the  *)
(* interrupt may come between.  The receiver is external: it answers a     *)
(* rising edge of EXTINT with one message, later, or never.                *)
(***************************************************************************)
EXTENDS Integers

CONSTANTS
  MaxMarks    \* bound: messages under way

Periods == 6  \* the value countdown starts from

VARIABLES
  state, countdown,
  timer,      \* count_timer_id runs
  extint,     \* the EXTINT pin
  update,     \* the CFG_TASK_FS_START_UPDATE_ID bit
  step,       \* where the running task is
  marks,      \* TIM-TM2 messages under way
  ticked,     \* the timer has ticked since the running task began
  ticks,      \* history: periods of the timer since it was started
  late        \* history: a message was under way when this countdown was started

vars == <<state, countdown, timer, extint, update, step, marks, ticked, ticks, late>>

(* The next step of the running task.  A task takes far less than a period,  *)
(* so the timer ticks at most once in it.                                    *)
Reach(from, to) ==
  step = from /\ step' = to /\ ticked' = (ticked /\ to # "idle")

-----------------------------------------------------------------------------
(* FS_StartControl_Init and _DeInit, by START mode. *)
Enter ==
  /\ step = "idle" /\ state = "INACTIVE" /\ state' = "IDLE"
  /\ marks' = 0  \* FS_GNSS_Init discards what the receiver sent
  /\ UNCHANGED <<countdown, timer, extint, update, step, ticked, ticks, late>>

Leave ==
  /\ step = "idle" /\ state # "INACTIVE" /\ state' = "INACTIVE" /\ step' = "leaving"
  /\ UNCHANGED <<countdown, timer, extint, update, marks, ticked, ticks, late>>

Left ==
  /\ Reach("leaving", "idle")
  /\ timer' = FALSE /\ extint' = FALSE
  /\ UNCHANGED <<state, countdown, update, marks, ticks, late>>

-----------------------------------------------------------------------------
(* Mutant of FirstCount: a countdown goes on where the last one was cancelled. *)
FirstCountKept == IF countdown = 0 THEN Periods ELSE countdown
FirstCount == Periods

(* SP_CMD_START_COUNTDOWN.  Another state answers BUSY or NOT_PERMITTED. *)
StartCountdown ==
  /\ step = "idle" /\ state = "IDLE"
  /\ countdown' = FirstCount /\ state' = "COUNTING" /\ step' = "starting"
  /\ late' = (marks > 0)
  /\ UNCHANGED <<timer, extint, update, marks, ticked, ticks>>

StartTimer ==
  /\ Reach("starting", "idle")
  /\ timer' = TRUE /\ ticks' = 0
  /\ UNCHANGED <<state, countdown, extint, update, marks, late>>

(* SP_CMD_CANCEL_COUNTDOWN.  EXTINT is left as it is. *)
CancelCountdown ==
  /\ step = "idle" /\ state = "COUNTING" /\ step' = "cancelling"
  /\ UNCHANGED <<state, countdown, timer, extint, update, marks, ticked, ticks, late>>

CancelTimer ==
  /\ Reach("cancelling", "cancelled") /\ timer' = FALSE
  /\ UNCHANGED <<state, countdown, extint, update, marks, ticks, late>>

Cancelled ==
  /\ Reach("cancelled", "idle") /\ state' = "IDLE"
  /\ UNCHANGED <<countdown, timer, extint, update, marks, ticks, late>>

-----------------------------------------------------------------------------
(* Mutant of Over: the tone comes a period early. *)
OverEarly(count) == count = 1
Over(count) == count = 0

(* FS_StartControl_Count_Timer. *)
Count ==
  /\ state = "COUNTING" /\ countdown' = countdown - 1
  /\ IF Over(countdown')
     THEN /\ extint' = TRUE /\ timer' = FALSE
          /\ marks' = IF extint \/ marks = MaxMarks THEN marks ELSE marks + 1
     ELSE UNCHANGED <<extint, timer, marks>>

CountTimer ==
  /\ timer /\ ~ticked /\ ticked' = (step # "idle")
  /\ ticks' = IF ticks < Periods THEN ticks + 1 ELSE ticks
  /\ \/ Count
     \/ state # "COUNTING" /\ UNCHANGED <<countdown, extint, timer, marks>>
  /\ UNCHANGED <<state, update, step, late>>

(* FS_StartControl_IntReady_Callback, in the update task of the receiver. *)
IntReady ==
  /\ step = "idle" /\ state # "INACTIVE" /\ marks > 0
  /\ marks' = marks - 1 /\ extint' = FALSE /\ step' = "marked"
  /\ UNCHANGED <<state, countdown, timer, update, ticked, ticks, late>>

(* Mutant of Expected: the time is taken only while the timer counts. *)
ExpectedEarlier == state = "COUNTING" /\ timer
Expected == state = "COUNTING"

IntCopied ==
  /\ Reach("marked", "idle")
  /\ IF Expected THEN state' = "UPDATE" /\ update' = TRUE
                 ELSE UNCHANGED <<state, update>>
  /\ UNCHANGED <<countdown, timer, extint, marks, ticks, late>>

MarkLost ==
  /\ marks > 0 /\ marks' = marks - 1
  /\ UNCHANGED <<state, countdown, timer, extint, update, step, ticked, ticks, late>>

(* FS_StartControl_Update. *)
Update ==
  /\ step = "idle" /\ update /\ update' = FALSE
  /\ state' = IF state = "UPDATE" THEN "IDLE" ELSE state
  /\ UNCHANGED <<countdown, timer, extint, step, marks, ticked, ticks, late>>

-----------------------------------------------------------------------------
Init ==
  /\ state = "INACTIVE" /\ countdown = 0 /\ timer = FALSE /\ extint = FALSE
  /\ update = FALSE /\ step = "idle" /\ marks = 0
  /\ ticked = FALSE /\ ticks = 0 /\ late = FALSE

Goes == StartTimer \/ CancelTimer \/ Cancelled \/ IntCopied \/ Left
Next ==
  \/ Enter \/ Leave \/ StartCountdown \/ CancelCountdown
  \/ CountTimer \/ IntReady \/ MarkLost \/ Update \/ Goes

Spec == Init /\ [][Next]_vars

(* The timer ticks, a task that is pending comes to run whatever the phone   *)
(* sends, and the receiver's messages are read.                              *)
Reads == IntReady \/ Update
Fairness == WF_vars(Goes) /\ WF_vars(CountTimer) /\ SF_vars(Reads)
FairSpec == Spec /\ Fairness

-----------------------------------------------------------------------------
(* countdown never passes below 0, where it would start again at 255. *)
TypeOK ==
  /\ state \in {"INACTIVE", "IDLE", "COUNTING", "UPDATE"}
  /\ countdown \in 0..Periods
  /\ timer \in BOOLEAN /\ extint \in BOOLEAN /\ update \in BOOLEAN
  /\ step \in {"idle", "starting", "cancelling", "cancelled", "marked", "leaving"}
  /\ marks \in 0..MaxMarks /\ ticked \in BOOLEAN /\ ticks \in 0..Periods
  /\ late \in BOOLEAN

(* A countdown that was started is always on its way to an end: the timer    *)
(* runs, or the tone has sounded and EXTINT asks for its time, or the time   *)
(* is about to be reported.                                                  *)
CountingEnds ==
  /\ state = "COUNTING" /\ step = "idle" => timer \/ (countdown = 0 /\ extint)
  /\ state = "UPDATE" => update

(* The tone sounds when the whole countdown has passed.  A timer that an     *)
(* earlier countdown left running may take one period off: it may tick       *)
(* between the two statements that set the countdown and start the timer.    *)
ToneAfterCountdown ==
  [][extint' /\ ~extint => ticks' >= Periods - 1]_vars

(* The time that is reported is that of this countdown's tone. A countdown   *)
(* that was cancelled after its tone may have left a message under way       *)
(* (late), which ends the next countdown and is reported as its tone: of     *)
(* such a countdown nothing is said. A message is of a rising edge of        *)
(* EXTINT: the code does not look at the flags that say so (gnss.c:703-712), *)
(* and the receiver is taken to send none of a falling one.                  *)
OwnToneReported == state = "UPDATE" /\ ~late => countdown = 0

(* A countdown is whole, ends in its own tone and reports the time of that,  *)
(* unless a message of an earlier one was under way when it began.           *)
CountdownSafe ==
  /\ [](TypeOK /\ CountingEnds /\ OwnToneReported)
  /\ ToneAfterCountdown

(* A countdown ends, if the receiver's message is not lost. *)
CountdownResolves ==
  state = "COUNTING" ~> (state # "COUNTING" \/ (extint /\ marks = 0))
=============================================================================
