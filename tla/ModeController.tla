--------------------------- MODULE ModeController ---------------------------
(***************************************************************************)
(* The mode state machine of the firmware (FlySight/mode.c) together with  *)
(* everything that feeds it or that it waits for:                          *)
(*                                                                         *)
(*   - interrupts that push events: the debounced button, the VBUS pin,    *)
(*     the one-second hold timer, remote requests (Device_State service);  *)
(*   - the config-mode task and the BLE advertising callback, which push   *)
(*     FORCE_UPDATE;                                                       *)
(*   - the handlers that wait for the radio.  A wait for an HCI response   *)
(*     runs the sequencer again (UTIL_SEQ_EvtIdle), so FS_Mode_Update may  *)
(*     be entered again while one of its own handlers is suspended.        *)
(*     "stack" is the C stack seen from this component: one frame for each *)
(*     unfinished run of FS_Mode_Update or of a BLE task that restarts     *)
(*     advertising.                                                        *)
(***************************************************************************)
EXTENDS Integers, Sequences

CONSTANTS
  QueueLength, \* QUEUE_LENGTH: capacity of the event queue
  EnableBle,   \* FS_State_Get()->enable_ble
  DefaultMode, \* the mode FS_State_Get()->active_mode selects
  MaxNesting,  \* bound: unfinished task runs on the C stack
  Sources,     \* the kinds of external input that occur
  MaxInputs    \* bound: external inputs in one behaviour

ASSUME QueueLengthAssumption == QueueLength \in Nat \ {0}
ASSUME ConfigurationAssumption ==
  EnableBle \in BOOLEAN /\ DefaultMode \in {"ACTIVE", "START"}
ASSUME BoundsAssumption ==
  /\ MaxNesting \in Nat /\ MaxInputs \in Nat
  /\ Sources \subseteq {"button", "vbus", "request", "terminal", "phone"}

VARIABLES
  mode_state,
  requested_state,         \* "NONE" is FS_MODE_STATE_COUNT
  pending_terminal_action,
  button_state,
  event_queue,             \* event_queue between queue_read and queue_write
  mode_task,               \* the CFG_TASK_FS_MODE_UPDATE_ID bit
  hold_timer,              \* timer_id of mode.c is running
  stack,                   \* unfinished task runs, innermost last
  live,                    \* Init calls minus DeInit calls of each mode
  button_down,             \* debounced level of the button (button.c)
  vbus, vbus_irq,          \* VBUS_DIV pin, and its EXTI line pending
  config_timer, config_task, \* the timer and the task bit of config_mode.c
  adv, adv_timer, adv_task,  \* advertising status, its timer, its task bit
  phone,                     \* a phone is connected (connectionHandleCentral)
  Adv_Callback, Next_Adv_Callback, request_pairing,
  inputs,                  \* external inputs so far
  overflowed,              \* history: FS_Mode_PushQueue dropped an event
  stale_recheck,           \* history: VBUS fell between re-check and push
  reentered                \* history: FS_Mode_Update ran inside itself

requestVars == <<requested_state, pending_terminal_action>>
queueVars   == <<event_queue, mode_task, overflowed>>
configVars  == <<config_timer, config_task>>
bleVars     == <<adv, adv_timer, adv_task, phone,
                 Adv_Callback, Next_Adv_Callback, request_pairing>>
envVars     == <<button_down, vbus, vbus_irq, inputs>>
historyVars == <<stale_recheck, reentered>>
vars == <<mode_state, requestVars, button_state, queueVars, hold_timer, stack,
          live, envVars, configVars, bleVars, historyVars>>

-----------------------------------------------------------------------------
Modes   == {"SLEEP", "ACTIVE", "CONFIG", "USB", "PAIRING", "START"}
Events  == {"BUTTON_PRESSED", "BUTTON_RELEASED", "TIMER", "VBUS_HIGH",
            "VBUS_LOW", "FORCE_UPDATE", "REQUEST_STATE", "TERMINAL_ACTION"}
Actions == {"RESET", "INSTALL"}
AdvStatus == {"IDLE", "FAST", "LP", "CONNECTED"}
Advertising == {"FAST", "LP"}

(* Where a task run stands.  The first set are the points at which it waits *)
(* for the answer to an HCI command, so that other tasks run on top of it.  *)
WaitPoints  == {"booting", "stopping", "counting", "starting", "clearing",
                "naming"}
OtherPoints == {"loop", "settle", "recheck", "final",
                "advertise", "restart", "done"}

(* A run of FS_Mode_Update ("mode") or of a BLE task ("ble").  adv is the    *)
(* status FS_Adv_Request was called with, then is where it returns to.      *)
Frames == [task : {"mode", "ble"}, pc : WaitPoints \union OtherPoints,
           event : Events \union {"NONE"}, old : Modes, next : Modes,
           adv : AdvStatus, then : {"settle", "naming", "done"}]

BleFrame(pc, status) == [task |-> "ble", pc |-> pc, event |-> "NONE",
                         old |-> "SLEEP", next |-> "SLEEP",
                         adv |-> status, then |-> "done"]

UpdateFrame == [task |-> "mode", pc |-> "loop", event |-> "NONE",
                old |-> "SLEEP", next |-> "SLEEP",
                adv |-> "IDLE", then |-> "settle"]

Top       == stack[Len(stack)]
At(pc)    == stack # <<>> /\ Top.pc = pc
GoTo(pc)  == stack' = [stack EXCEPT ![Len(stack)].pc = pc]
Return    == stack' = SubSeq(stack, 1, Len(stack) - 1)
InHandler(f) == f.task = "mode" /\ f.pc # "loop"

(* A task whose bit is set starts from the main loop or on top of a wait;   *)
(* tasks of the HCI list are paused while a command is outstanding.         *)
CanRunTask    == stack # <<>> => Top.pc \in WaitPoints
CanRunHciTask == stack = <<>>

-----------------------------------------------------------------------------
(* Mutant of Pushed: a full queue keeps growing. *)
PushedUnbounded(q, e) == Append(q, e)

(* FS_Mode_PushQueue: a full queue loses its oldest event. *)
Pushed(q, e) == Append(IF Len(q) >= QueueLength THEN Tail(q) ELSE q, e)

PushOn(q, e) ==
  /\ event_queue' = Pushed(q, e)
  /\ overflowed' = (overflowed \/ Len(q) >= QueueLength)
  /\ mode_task' = TRUE

PushQueue(e) == PushOn(event_queue, e)

Input(source) == source \in Sources /\ inputs < MaxInputs /\ inputs' = inputs + 1

-----------------------------------------------------------------------------
(* Interrupts and remote requests. *)

(* FS_Button_Timer reports a debounced edge.  A press and its release count  *)
(* as one input.                                                             *)
ButtonEdge ==
  /\ IF button_down THEN UNCHANGED inputs ELSE Input("button")
  /\ button_down' = ~button_down
  /\ PushQueue(IF button_down THEN "BUTTON_RELEASED" ELSE "BUTTON_PRESSED")
  /\ UNCHANGED <<mode_state, requestVars, button_state, hold_timer, stack,
                 live, vbus, vbus_irq, configVars, bleVars, historyVars>>

(* The cable is plugged or unplugged; EXTI latches the edge. *)
VbusEdge ==
  /\ Input("vbus")
  /\ vbus' = ~vbus
  /\ vbus_irq' = TRUE
  /\ UNCHANGED <<mode_state, requestVars, button_state, queueVars, hold_timer,
                 stack, live, button_down, configVars, bleVars, historyVars>>

(* FS_VBUS_Triggered reads the pin as it is now, not as it was at the edge. *)
VbusTriggered ==
  /\ vbus_irq
  /\ vbus_irq' = FALSE
  /\ PushQueue(IF vbus THEN "VBUS_HIGH" ELSE "VBUS_LOW")
  /\ UNCHANGED <<mode_state, requestVars, button_state, hold_timer, stack,
                 live, button_down, vbus, inputs, configVars, bleVars,
                 historyVars>>

(* FS_Mode_Timer: the single-shot hold timer expires. *)
HoldTimer ==
  /\ hold_timer
  /\ hold_timer' = FALSE
  /\ PushQueue("TIMER")
  /\ UNCHANGED <<mode_state, requestVars, button_state, stack, live, envVars,
                 configVars, bleVars, historyVars>>

(* Mutant of HasPendingRequest: a pending terminal action is not looked at. *)
HasPendingState == requested_state # "NONE"

HasPendingRequest ==
  requested_state # "NONE" \/ pending_terminal_action # "NONE"

(* FS_Mode_RequestState, for a request that validation accepts. *)
RequestState(target) ==
  /\ Input("request")
  /\ ~HasPendingRequest
  /\ mode_state # "USB" /\ target # "USB"
  /\ mode_state = "SLEEP" \/ target = "SLEEP"
  /\ requested_state' = target
  /\ button_state' = "IDLE"
  /\ PushQueue("REQUEST_STATE")
  /\ UNCHANGED <<mode_state, pending_terminal_action, hold_timer, stack, live,
                 button_down, vbus, vbus_irq, configVars, bleVars, historyVars>>

(* FS_Mode_RequestTerminalAction, for a request that validation accepts. *)
RequestTerminalAction(action) ==
  /\ Input("terminal")
  /\ ~HasPendingRequest
  /\ mode_state # "USB"
  /\ pending_terminal_action' = action
  /\ button_state' = "IDLE"
  /\ PushQueue("TERMINAL_ACTION")
  /\ UNCHANGED <<mode_state, requested_state, hold_timer, stack, live,
                 button_down, vbus, vbus_irq, configVars, bleVars, historyVars>>

-----------------------------------------------------------------------------
(* The sequencer starts FS_Mode_Update and clears its bit. *)
RunModeTask ==
  /\ mode_task
  /\ CanRunTask
  /\ Len(stack) < MaxNesting
  /\ mode_task' = FALSE
  /\ stack' = Append(stack, UpdateFrame)
  /\ reentered' = (reentered \/ \E i \in DOMAIN stack : stack[i].task = "mode")
  /\ UNCHANGED <<mode_state, requestVars, button_state, event_queue, overflowed,
                 hold_timer, live, envVars, configVars, bleVars, stale_recheck>>

(* while (!FS_Mode_QueueEmpty()) ends. *)
UpdateReturns ==
  /\ At("loop")
  /\ event_queue = <<>>
  /\ Return
  /\ UNCHANGED <<mode_state, requestVars, button_state, queueVars, hold_timer,
                 live, envVars, configVars, bleVars, historyVars>>

(* The head of the queue is taken by the handler of the current mode. *)
Event(m, e) == At("loop") /\ mode_state = m
               /\ event_queue # <<>> /\ Head(event_queue) = e
Pop == event_queue' = Tail(event_queue) /\ UNCHANGED <<mode_task, overflowed>>

(* The handler is at pc, and will return next. *)
Handler(pc, next) ==
  stack' = [stack EXCEPT ![Len(stack)] =
              [@ EXCEPT !.pc = pc, !.event = Head(event_queue),
                        !.old = mode_state, !.next = next]]

(* The handler calls FS_Adv_Request(status) before it returns next. *)
HandlerAdvertises(status, next) ==
  stack' = [stack EXCEPT ![Len(stack)] =
              [@ EXCEPT !.pc = "advertise", !.event = Head(event_queue),
                        !.old = mode_state, !.next = next,
                        !.adv = status, !.then = "settle"]]

Started(m) == live' = [live EXCEPT ![m] = @ + 1]
Stopped(m) == live' = [live EXCEPT ![m] = @ - 1]

(* FS_ActiveMode_Init, FS_StartMode_Init, FS_USBMode_Init *)
EnterPlain(m) ==
  /\ Started(m) /\ Pop /\ Handler("settle", m)
  /\ UNCHANGED <<configVars, bleVars>>

(* FS_ConfigMode_Init: the first call of updateTask finds a file to announce *)
(* and starts the timer, or there is none and config mode ends at once.      *)
EnterConfig ==
  /\ Started("CONFIG") /\ Handler("settle", "CONFIG")
  /\ \/ Pop /\ config_timer' = TRUE
     \/ PushOn(Tail(event_queue), "FORCE_UPDATE") /\ UNCHANGED config_timer
  /\ UNCHANGED <<config_task, bleVars>>

(* FS_PairingMode_Init and APP_BLE_RequestPairing *)
EnterPairing ==
  /\ Started("PAIRING") /\ Pop
  /\ Next_Adv_Callback' = TRUE
  /\ request_pairing' = TRUE
  /\ HandlerAdvertises("FAST", "PAIRING")
  /\ UNCHANGED <<configVars, adv, adv_timer, adv_task, phone, Adv_Callback>>

Enter(m) == \/ m \in {"ACTIVE", "START", "USB"} /\ EnterPlain(m)
            \/ m = "CONFIG" /\ EnterConfig
            \/ m = "PAIRING" /\ EnterPairing

(* FS_ActiveMode_DeInit, FS_StartMode_DeInit *)
LeavePlain(m) ==
  /\ Stopped(m) /\ Pop /\ Handler("settle", "SLEEP")
  /\ UNCHANGED <<configVars, bleVars>>

(* FS_ConfigMode_DeInit deletes the timer; a task bit already set stays. *)
LeaveConfig ==
  /\ Stopped("CONFIG") /\ Pop /\ Handler("settle", "SLEEP")
  /\ config_timer' = FALSE
  /\ UNCHANGED <<config_task, bleVars>>

(* FS_PairingMode_DeInit and APP_BLE_CancelPairing *)
LeavePairing ==
  /\ Stopped("PAIRING") /\ Pop
  /\ Next_Adv_Callback' = FALSE
  /\ request_pairing' = FALSE
  /\ IF adv = "FAST" THEN HandlerAdvertises("LP", "SLEEP")
                     ELSE Handler("settle", "SLEEP")
  /\ UNCHANGED <<configVars, adv, adv_timer, adv_task, phone, Adv_Callback>>

(* FS_USBMode_DeInit, up to the first HCI command of FS_State_Update: the    *)
(* state file read back from the card may ask for the bonds to be cleared.   *)
LeaveUsb ==
  /\ Stopped("USB") /\ Pop
  /\ \E pc \in {"clearing", "naming"} : Handler(pc, "SLEEP")
  /\ UNCHANGED <<configVars, bleVars>>

Leave(m) == \/ m \in {"ACTIVE", "START"} /\ LeavePlain(m)
            \/ m = "CONFIG" /\ LeaveConfig
            \/ m = "PAIRING" /\ LeavePairing

Stay == Pop /\ Handler("settle", mode_state)
        /\ UNCHANGED <<live, configVars, bleVars>>

-----------------------------------------------------------------------------
(* FS_Mode_State_Sleep *)
SleepPressed ==
  /\ Event("SLEEP", "BUTTON_PRESSED")
  /\ button_state' = CASE button_state = "IDLE"     -> "FIRST_PRESS"
                       [] button_state = "RELEASED" -> "SECOND_PRESS"
                       [] OTHER                     -> button_state
  /\ hold_timer' = TRUE
  /\ Stay
  /\ UNCHANGED <<mode_state, requestVars, envVars, historyVars>>

SleepReleased ==
  /\ Event("SLEEP", "BUTTON_RELEASED")
  /\ button_state' = IF button_state = "FIRST_PRESS" THEN "RELEASED" ELSE "IDLE"
  /\ IF button_state = "SECOND_PRESS" /\ EnableBle THEN Enter("PAIRING")
                                                   ELSE Stay
  /\ UNCHANGED <<mode_state, requestVars, hold_timer, envVars, historyVars>>

SleepTimer ==
  /\ Event("SLEEP", "TIMER")
  /\ button_state' = "IDLE"
  /\ CASE button_state = "FIRST_PRESS"  -> Enter(DefaultMode)
       [] button_state = "SECOND_PRESS" -> Enter("CONFIG")
       [] OTHER                         -> Stay
  /\ UNCHANGED <<mode_state, requestVars, hold_timer, envVars, historyVars>>

SleepVbusHigh ==
  /\ Event("SLEEP", "VBUS_HIGH")
  /\ Enter("USB")
  /\ UNCHANGED <<mode_state, requestVars, button_state, hold_timer, envVars,
                 historyVars>>

(* FS_Mode_EnterRequestedState *)
SleepRequest ==
  /\ Event("SLEEP", "REQUEST_STATE")
  /\ requested_state' = "NONE"
  /\ hold_timer' = FALSE
  /\ button_state' = "IDLE"
  /\ IF requested_state \in {"NONE", "SLEEP"} THEN Stay
                                              ELSE Enter(requested_state)
  /\ UNCHANGED <<mode_state, pending_terminal_action, envVars, historyVars>>

SleepIgnores ==
  /\ \E e \in {"VBUS_LOW", "FORCE_UPDATE", "TERMINAL_ACTION"} : Event("SLEEP", e)
  /\ Stay
  /\ UNCHANGED <<mode_state, requestVars, button_state, hold_timer, envVars,
                 historyVars>>

(* FS_Mode_State_Active and FS_Mode_State_Start: held for a second to leave. *)
Held == {"ACTIVE", "START"}

HeldPressed(m) ==
  /\ Event(m, "BUTTON_PRESSED")
  /\ hold_timer' = TRUE
  /\ Stay
  /\ UNCHANGED <<mode_state, requestVars, button_state, envVars, historyVars>>

HeldReleased(m) ==
  /\ Event(m, "BUTTON_RELEASED")
  /\ hold_timer' = FALSE
  /\ Stay
  /\ UNCHANGED <<mode_state, requestVars, button_state, envVars, historyVars>>

HeldTimer(m) ==
  /\ Event(m, "TIMER")
  /\ Leave(m)
  /\ UNCHANGED <<mode_state, requestVars, button_state, hold_timer, envVars,
                 historyVars>>

HeldRequest(m) ==
  /\ Event(m, "REQUEST_STATE")
  /\ requested_state' = "NONE"
  /\ IF requested_state = "SLEEP" THEN hold_timer' = FALSE /\ Leave(m)
                                  ELSE Stay /\ UNCHANGED hold_timer
  /\ UNCHANGED <<mode_state, pending_terminal_action, button_state, envVars,
                 historyVars>>

(* Mutant of HeldTerminalAction: the mode is left without its DeInit. *)
HeldTerminalActionRunning(m) ==
  /\ Event(m, "TERMINAL_ACTION")
  /\ hold_timer' = FALSE
  /\ Pop /\ Handler("settle", "SLEEP")
  /\ UNCHANGED <<live, configVars, bleVars, mode_state, requestVars,
                 button_state, envVars, historyVars>>

HeldTerminalAction(m) ==
  /\ Event(m, "TERMINAL_ACTION")
  /\ hold_timer' = FALSE
  /\ Leave(m)
  /\ UNCHANGED <<mode_state, requestVars, button_state, envVars, historyVars>>

HeldIgnores(m) ==
  /\ \E e \in {"VBUS_HIGH", "VBUS_LOW", "FORCE_UPDATE"} : Event(m, e)
  /\ Stay
  /\ UNCHANGED <<mode_state, requestVars, button_state, hold_timer, envVars,
                 historyVars>>

(* FS_Mode_State_Config and FS_Mode_State_Pairing: any press leaves. *)
Brief == {"CONFIG", "PAIRING"}

BriefEnds(m) ==
  /\ \E e \in {"BUTTON_PRESSED", "FORCE_UPDATE", "TERMINAL_ACTION"} : Event(m, e)
  /\ Leave(m)
  /\ UNCHANGED <<mode_state, requestVars, button_state, hold_timer, envVars,
                 historyVars>>

BriefRequest(m) ==
  /\ Event(m, "REQUEST_STATE")
  /\ requested_state' = "NONE"
  /\ IF requested_state = "SLEEP" THEN Leave(m) ELSE Stay
  /\ UNCHANGED <<mode_state, pending_terminal_action, button_state, hold_timer,
                 envVars, historyVars>>

BriefIgnores(m) ==
  /\ \E e \in {"BUTTON_RELEASED", "TIMER", "VBUS_HIGH", "VBUS_LOW"} : Event(m, e)
  /\ Stay
  /\ UNCHANGED <<mode_state, requestVars, button_state, hold_timer, envVars,
                 historyVars>>

(* FS_Mode_State_USB: only unplugging leaves, requests are dropped. *)
UsbVbusLow ==
  /\ Event("USB", "VBUS_LOW")
  /\ LeaveUsb
  /\ UNCHANGED <<mode_state, requestVars, button_state, hold_timer, envVars,
                 historyVars>>

(* Mutant of UsbRequest: a request that meets USB mode is not dropped. *)
UsbRequestIgnored ==
  /\ Event("USB", "REQUEST_STATE")
  /\ Stay
  /\ UNCHANGED <<mode_state, requestVars, button_state, hold_timer, envVars,
                 historyVars>>

UsbRequest ==
  /\ Event("USB", "REQUEST_STATE")
  /\ requested_state' = "NONE"
  /\ Stay
  /\ UNCHANGED <<mode_state, pending_terminal_action, button_state, hold_timer,
                 envVars, historyVars>>

(* Mutant of UsbTerminalAction: the action stays pending. *)
UsbTerminalActionIgnored ==
  /\ Event("USB", "TERMINAL_ACTION")
  /\ Stay
  /\ UNCHANGED <<mode_state, requestVars, button_state, hold_timer, envVars,
                 historyVars>>

UsbTerminalAction ==
  /\ Event("USB", "TERMINAL_ACTION")
  /\ pending_terminal_action' = "NONE"
  /\ Stay
  /\ UNCHANGED <<mode_state, requested_state, button_state, hold_timer, envVars,
                 historyVars>>

UsbIgnores ==
  /\ \E e \in {"BUTTON_PRESSED", "BUTTON_RELEASED", "TIMER", "VBUS_HIGH",
               "FORCE_UPDATE"} : Event("USB", e)
  /\ Stay
  /\ UNCHANGED <<mode_state, requestVars, button_state, hold_timer, envVars,
                 historyVars>>

-----------------------------------------------------------------------------
(* FS_Adv_Request, cut at its HCI commands. *)
FromAdv == <<mode_state, requestVars, button_state, hold_timer, live, envVars,
             configVars, historyVars>>

(* The gatekeeper, then the old advertising is stopped. *)
AdvBegin ==
  /\ At("advertise")
  /\ adv_timer' = FALSE
  /\ IF EnableBle
     THEN /\ GoTo(IF adv \in Advertising THEN "stopping" ELSE "restart")
          /\ UNCHANGED adv
     ELSE GoTo(Top.then) /\ adv' = "IDLE"
  /\ UNCHANGED <<FromAdv, queueVars, adv_task, phone, Adv_Callback, Next_Adv_Callback,
                 request_pairing>>

AdvStopped ==
  /\ At("stopping")
  /\ GoTo("restart")
  /\ UNCHANGED <<FromAdv, queueVars, bleVars>>

(* The advertising callback is FS_PairingMode_Callback. *)
AdvRestart ==
  /\ At("restart")
  /\ IF Adv_Callback THEN PushQueue("FORCE_UPDATE") ELSE UNCHANGED queueVars
  /\ Adv_Callback' = Next_Adv_Callback
  /\ Next_Adv_Callback' = FALSE
  /\ adv' = Top.adv
  /\ GoTo("counting")
  /\ UNCHANGED <<FromAdv, adv_timer, adv_task, phone, request_pairing>>

AdvCounted ==
  /\ At("counting")
  /\ GoTo("starting")
  /\ UNCHANGED <<FromAdv, queueVars, bleVars>>

(* Mutant of AdvStarted: fast advertising has no time limit. *)
AdvStartedForever ==
  /\ At("starting")
  /\ GoTo(Top.then)
  /\ UNCHANGED <<FromAdv, queueVars, bleVars>>

AdvStarted ==
  /\ At("starting")
  /\ adv_timer' = IF Top.adv = "FAST" THEN TRUE ELSE adv_timer
  /\ GoTo(Top.then)
  /\ UNCHANGED <<FromAdv, queueVars, adv, adv_task, phone, Adv_Callback,
                 Next_Adv_Callback, request_pairing>>

(* APP_BLE_Reset after aci_gap_clear_security_db: the status passed on is    *)
(* the one read when the command has been answered.                          *)
BondsCleared ==
  /\ At("clearing")
  /\ stack' = [stack EXCEPT ![Len(stack)] =
                 [@ EXCEPT !.pc = "advertise", !.adv = adv, !.then = "naming"]]
  /\ UNCHANGED <<FromAdv, queueVars, bleVars>>

(* APP_BLE_UpdateDeviceName has been answered. *)
NameUpdated ==
  /\ At("naming")
  /\ GoTo("settle")
  /\ UNCHANGED <<FromAdv, queueVars, bleVars>>

-----------------------------------------------------------------------------
(* BLE tasks that restart advertising; the sequencer pauses them while an    *)
(* HCI command is outstanding.                                               *)

(* The last command of APP_BLE_Init has been answered. *)
BleInitialised ==
  /\ At("booting")
  /\ GoTo("advertise")
  /\ UNCHANGED <<FromAdv, queueVars, bleVars>>

(* Adv_Update_Req *)
AdvTimeout ==
  /\ adv_timer
  /\ adv_timer' = FALSE
  /\ adv_task' = TRUE
  /\ UNCHANGED <<FromAdv, queueVars, stack, adv, phone, Adv_Callback,
                 Next_Adv_Callback, request_pairing>>

(* Adv_Update *)
RunAdvUpdate ==
  /\ adv_task
  /\ CanRunHciTask /\ Len(stack) < MaxNesting
  /\ adv_task' = FALSE
  /\ stack' = Append(stack, BleFrame("advertise", "LP"))
  /\ UNCHANGED <<FromAdv, queueVars, adv, adv_timer, phone, Adv_Callback,
                 Next_Adv_Callback, request_pairing>>

(* The enhanced connection complete event of a phone *)
Connected ==
  /\ Input("phone")
  /\ CanRunHciTask /\ adv \in Advertising /\ ~phone
  /\ adv' = "CONNECTED"
  /\ phone' = TRUE
  /\ adv_timer' = FALSE
  /\ IF Adv_Callback THEN PushQueue("FORCE_UPDATE") ELSE UNCHANGED queueVars
  /\ Adv_Callback' = Next_Adv_Callback
  /\ Next_Adv_Callback' = FALSE
  /\ UNCHANGED <<mode_state, requestVars, button_state, hold_timer, stack, live,
                 button_down, vbus, vbus_irq, configVars, historyVars, adv_task,
                 request_pairing>>

(* The disconnection complete event of the phone *)
Disconnected ==
  /\ Input("phone")
  /\ CanRunHciTask /\ Len(stack) < MaxNesting /\ phone
  /\ adv' = "IDLE"
  /\ phone' = FALSE
  /\ stack' = IF EnableBle THEN Append(stack, BleFrame("advertise", "FAST")) ELSE stack
  /\ UNCHANGED <<mode_state, requestVars, button_state, queueVars, hold_timer,
                 live, button_down, vbus, vbus_irq, configVars, historyVars,
                 adv_timer, adv_task, Adv_Callback, Next_Adv_Callback,
                 request_pairing>>

BleTaskReturns ==
  /\ At("done")
  /\ Return
  /\ UNCHANGED <<FromAdv, queueVars, bleVars>>

-----------------------------------------------------------------------------
(* updateTimer of config_mode.c *)
ConfigTimer ==
  /\ config_timer
  /\ config_timer' = FALSE
  /\ config_task' = TRUE
  /\ UNCHANGED <<mode_state, requestVars, button_state, queueVars, hold_timer,
                 stack, live, envVars, bleVars, historyVars>>

(* updateTask of config_mode.c: another file or pause, or the directory is   *)
(* at its end.  Once the directory is closed there is never another file.    *)
RunConfigTask ==
  /\ config_task
  /\ CanRunTask
  /\ config_task' = FALSE
  /\ \/ live["CONFIG"] > 0 /\ config_timer' = TRUE /\ UNCHANGED queueVars
     \/ PushQueue("FORCE_UPDATE") /\ UNCHANGED config_timer
  /\ UNCHANGED <<mode_state, requestVars, button_state, hold_timer, stack, live,
                 envVars, bleVars, historyVars>>

-----------------------------------------------------------------------------
(* Mutant of Settle: VBUS is not looked at again on the way to SLEEP. *)
SettleNoRecheck ==
  /\ At("settle")
  /\ mode_state' = IF Top.next # Top.old THEN Top.next ELSE mode_state
  /\ GoTo("final")
  /\ UNCHANGED <<requestVars, button_state, queueVars, hold_timer, live,
                 envVars, configVars, bleVars, historyVars>>

(* The rest of the loop body of FS_Mode_Update, once the handler returned. *)
Settle ==
  /\ At("settle")
  /\ LET changed == Top.next # Top.old IN
     /\ mode_state' = IF changed THEN Top.next ELSE mode_state
     /\ GoTo(IF changed /\ Top.next = "SLEEP" /\ vbus THEN "recheck"
                                                      ELSE "final")
  /\ UNCHANGED <<requestVars, button_state, queueVars, hold_timer, live,
                 envVars, configVars, bleVars, historyVars>>

(* VBUS was high when it was re-checked; the push is a second step. *)
RecheckPush ==
  /\ At("recheck")
  /\ PushQueue("VBUS_HIGH")
  /\ stale_recheck' = (stale_recheck \/ ~vbus)
  /\ GoTo("final")
  /\ UNCHANGED <<mode_state, requestVars, button_state, hold_timer, live,
                 envVars, configVars, bleVars, reentered>>

NextEvent ==
  /\ At("final")
  /\ ~(pending_terminal_action # "NONE" /\ mode_state = "SLEEP")
  /\ stack' = [stack EXCEPT ![Len(stack)] = UpdateFrame]
  /\ UNCHANGED <<mode_state, requestVars, button_state, queueVars, hold_timer,
                 live, envVars, configVars, bleVars, historyVars>>

(* What main() leaves up to the end of FS_Mode_Init, with the radio in the    *)
(* middle of APP_BLE_Init.                                                   *)
BootQueue(v) == IF v THEN <<"VBUS_HIGH">> ELSE <<>>
BootStack    == <<BleFrame("booting", "FAST")>>

(* FS_Mode_ExecutePendingTerminalAction: the processor restarts. *)
TerminalReset ==
  /\ At("final")
  /\ pending_terminal_action # "NONE" /\ mode_state = "SLEEP"
  /\ mode_state' = "SLEEP"
  /\ requested_state' = "NONE" /\ pending_terminal_action' = "NONE"
  /\ button_state' = "IDLE"
  /\ event_queue' = BootQueue(vbus)
  /\ mode_task' = vbus
  /\ hold_timer' = FALSE /\ stack' = BootStack
  /\ live' = [m \in Modes |-> 0]
  /\ vbus_irq' = FALSE
  /\ config_timer' = FALSE /\ config_task' = FALSE
  /\ adv' = "IDLE" /\ adv_timer' = FALSE /\ adv_task' = FALSE
  /\ phone' = FALSE /\ Adv_Callback' = FALSE /\ Next_Adv_Callback' = FALSE
  /\ request_pairing' = FALSE
  /\ overflowed' = FALSE /\ stale_recheck' = FALSE /\ reentered' = FALSE
  /\ UNCHANGED <<button_down, vbus, inputs>>

-----------------------------------------------------------------------------
Init ==
  /\ vbus \in BOOLEAN
  /\ mode_state = "SLEEP"
  /\ requested_state = "NONE" /\ pending_terminal_action = "NONE"
  /\ button_state = "IDLE"
  /\ event_queue = BootQueue(vbus)
  /\ mode_task = vbus
  /\ hold_timer = FALSE /\ stack = BootStack
  /\ live = [m \in Modes |-> 0]
  /\ button_down = FALSE /\ vbus_irq = FALSE /\ inputs = 0
  /\ config_timer = FALSE /\ config_task = FALSE
  /\ adv = "IDLE" /\ adv_timer = FALSE /\ adv_task = FALSE
  /\ phone = FALSE /\ Adv_Callback = FALSE /\ Next_Adv_Callback = FALSE
  /\ request_pairing = FALSE
  /\ overflowed = FALSE /\ stale_recheck = FALSE /\ reentered = FALSE

Remote ==
  /\ EnableBle
  /\ \/ \E target \in Modes : RequestState(target)
     \/ \E action \in Actions : RequestTerminalAction(action)

Interrupt == ButtonEdge \/ VbusEdge \/ VbusTriggered \/ HoldTimer
             \/ AdvTimeout \/ ConfigTimer \/ Remote

SleepHandler == SleepPressed \/ SleepReleased \/ SleepTimer \/ SleepVbusHigh
                \/ SleepRequest \/ SleepIgnores
HeldHandler  == \E m \in Held :
                  HeldPressed(m) \/ HeldReleased(m) \/ HeldTimer(m)
                  \/ HeldRequest(m) \/ HeldTerminalAction(m) \/ HeldIgnores(m)
BriefHandler == \E m \in Brief : BriefEnds(m) \/ BriefRequest(m) \/ BriefIgnores(m)
UsbHandler   == UsbVbusLow \/ UsbRequest \/ UsbTerminalAction \/ UsbIgnores

ModeTask == RunModeTask \/ UpdateReturns
            \/ SleepHandler \/ HeldHandler \/ BriefHandler \/ UsbHandler
            \/ Settle \/ RecheckPush \/ NextEvent \/ TerminalReset
Radio    == BleInitialised \/ AdvBegin \/ AdvStopped \/ AdvRestart \/ AdvCounted \/ AdvStarted
            \/ BondsCleared \/ NameUpdated
BleTask  == RunAdvUpdate \/ Connected \/ Disconnected \/ BleTaskReturns

Next == Interrupt \/ ModeTask \/ Radio \/ BleTask \/ RunConfigTask

Spec == Init /\ [][Next]_vars

(* The main loop never stops running tasks, the radio answers every command, *)
(* a pending interrupt is taken and a started timer expires.                 *)
Fairness ==
  /\ WF_vars(ModeTask) /\ WF_vars(Radio)
  /\ WF_vars(RunAdvUpdate \/ BleTaskReturns) /\ WF_vars(RunConfigTask)
  /\ WF_vars(VbusTriggered) /\ WF_vars(AdvTimeout) /\ WF_vars(ConfigTimer)

FairSpec == Spec /\ Fairness

-----------------------------------------------------------------------------
(* Every variable has its type, and the queue never holds more than          *)
(* QUEUE_LENGTH events: FS_Mode_PushQueue drops before it appends.           *)
TypeOK ==
  /\ mode_state \in Modes
  /\ requested_state \in Modes \union {"NONE"}
  /\ pending_terminal_action \in Actions \union {"NONE"}
  /\ button_state \in {"IDLE", "FIRST_PRESS", "RELEASED", "SECOND_PRESS"}
  /\ event_queue \in Seq(Events) /\ Len(event_queue) <= QueueLength
  /\ mode_task \in BOOLEAN /\ hold_timer \in BOOLEAN
  /\ stack \in Seq(Frames)
  /\ live \in [Modes -> Int]
  /\ button_down \in BOOLEAN /\ vbus \in BOOLEAN /\ vbus_irq \in BOOLEAN
  /\ config_timer \in BOOLEAN /\ config_task \in BOOLEAN
  /\ adv \in AdvStatus /\ adv_timer \in BOOLEAN /\ adv_task \in BOOLEAN
  /\ phone \in BOOLEAN /\ Adv_Callback \in BOOLEAN
  /\ Next_Adv_Callback \in BOOLEAN /\ request_pairing \in BOOLEAN
  /\ inputs \in Nat
  /\ overflowed \in BOOLEAN /\ stale_recheck \in BOOLEAN /\ reentered \in BOOLEAN

Queued(e)     == \E i \in DOMAIN event_queue : event_queue[i] = e
AtMostOnce(e) == \A i, j \in DOMAIN event_queue :
                   event_queue[i] = e /\ event_queue[j] = e => i = j

(* A request event in the queue belongs to the one request that is pending:  *)
(* no stale REQUEST_STATE or TERMINAL_ACTION event outlives its request, so  *)
(* none can be charged to a request accepted later, however events overflow  *)
(* and however FS_Mode_Update is nested.                                     *)
RequestEventsMatch ==
  /\ AtMostOnce("REQUEST_STATE") /\ AtMostOnce("TERMINAL_ACTION")
  /\ Queued("REQUEST_STATE") => requested_state # "NONE"
  /\ Queued("TERMINAL_ACTION") => pending_terminal_action # "NONE"
  /\ requested_state = "NONE" \/ pending_terminal_action = "NONE"

(* Handling the terminal event: it has been popped and its run of            *)
(* FS_Mode_Update has not yet reached the check at the end of the loop.      *)
HandlingTerminal ==
  \E i \in DOMAIN stack : InHandler(stack[i]) /\ stack[i].event = "TERMINAL_ACTION"

(* A pending request has an event on its way as long as the queue has not    *)
(* overflowed: otherwise every later request would be refused as BUSY for    *)
(* ever (FS_Mode_ValidateStateRequest).                                      *)
PendingHasEvent ==
  ~overflowed =>
    /\ requested_state # "NONE" => Queued("REQUEST_STATE")
    /\ pending_terminal_action # "NONE" =>
         Queued("TERMINAL_ACTION") \/ HandlingTerminal

(* A remote request and its event go together, whatever overflows and        *)
(* however FS_Mode_Update is nested: no event without its request, no        *)
(* request without its event.                                                *)
RequestsMatch ==
  RequestEventsMatch /\ PendingHasEvent

(* The mode whose Init has run and whose DeInit has not, as the handler in   *)
(* progress leaves it.                                                       *)
CurrentMode ==
  LET running == {i \in DOMAIN stack : InHandler(stack[i])}
  IN  IF running = {} THEN mode_state
      ELSE LET i == CHOOSE i \in running : TRUE
           IN  IF stack[i].pc \in {"final", "recheck"} THEN mode_state
                                                       ELSE stack[i].next

(* While FS_Mode_Update has not been entered inside itself, every mode that  *)
(* was initialised is de-initialised before another starts, exactly once.    *)
LiveMatchesMode ==
  ~reentered =>
    \A m \in Modes :
      live[m] = IF m = CurrentMode /\ m # "SLEEP" THEN 1 ELSE 0

AtRest == stack = <<>> /\ event_queue = <<>> /\ ~vbus_irq

(* At rest the mode agrees with the cable: plugged in the device is not      *)
(* asleep, unplugged it is not in USB mode.  Three things break it, each     *)
(* recorded by a history variable: a lost event, a cable pulled between the  *)
(* re-check of VBUS and its push, and FS_Mode_Update entered inside itself.  *)
VbusHonoured ==
  AtRest /\ ~overflowed /\ ~stale_recheck /\ ~reentered =>
    IF vbus THEN mode_state # "SLEEP" ELSE mode_state # "USB"

(* The processor is only restarted when no mode is running: the card is not  *)
(* mounted and nothing is being logged. This is not said once FS_Mode_Update *)
(* has been entered inside its own handler (reentered): the inner run may    *)
(* have begun a mode that the outer run does not know of.                    *)
Restarts == pending_terminal_action # "NONE" /\ stack # <<>>
            /\ stack' = BootStack /\ At("final")
RestartOnlyWhenQuiet ==
  [][Restarts /\ ~reentered => \A m \in Modes : live[m] = 0]_vars

(* An accepted request is resolved, unless the queue lost its event. *)
RequestResolved ==
  HasPendingRequest ~> (~HasPendingRequest \/ overflowed)

(* Pairing mode does not last: the end of fast advertising, a connection or  *)
(* the button ends it, unless the queue loses an event or FS_Mode_Update is  *)
(* entered inside its own handler.                                           *)
PairingEnds ==
  mode_state = "PAIRING" ~> (mode_state # "PAIRING" \/ overflowed \/ reentered)

(* app_conf.h lists CFG_TASK_FS_MODE_UPDATE_ID among the tasks "that never   *)
(* send a ACI/HCI command".                                                  *)
ModeTaskSendsNoCommand ==
  \A i \in DOMAIN stack :
    stack[i].task = "mode" => stack[i].pc \notin WaitPoints
=============================================================================
