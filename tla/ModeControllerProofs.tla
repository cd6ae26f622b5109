------------------------ MODULE ModeControllerProofs ------------------------
(***************************************************************************)
(* Theorems about ModeController, for every queue length, nesting depth    *)
(* and number of inputs.                                                   *)
(***************************************************************************)
EXTENDS ModeController, SequenceTheorems, TLAPS

(* A run of FS_Mode_Update is never "done"; a BLE task is only ever inside    *)
(* FS_Adv_Request.                                                           *)
Proper(f) ==
  IF f.task = "mode" THEN f.pc # "done" /\ f.then # "done"
  ELSE /\ f.pc \in {"booting", "advertise", "stopping", "restart", "counting",
                    "starting", "done"}
       /\ f.then = "done"

(* Every frame below the top of the stack is waiting for the radio.          *)
Shape(s) ==
  /\ \A i \in 1 .. Len(s) - 1 : s[i].pc \in WaitPoints
  /\ \A i \in DOMAIN s : Proper(s[i])

(* In mode m, frame f has popped TERMINAL_ACTION and is bound to reach the   *)
(* check at the end of the loop in SLEEP.                                    *)
Resolves(f, m) ==
  /\ InHandler(f) /\ f.event = "TERMINAL_ACTION" /\ f.next = "SLEEP"
  /\ f.pc \in {"recheck", "final"} => m = "SLEEP"
  /\ f.old = "SLEEP" => f.pc \in {"settle", "recheck", "final"} /\ m = "SLEEP"

Resolved(s, m) == \E i \in DOMAIN s : Resolves(s[i], m)

(* PendingHasEvent, strengthened to be inductive: the frame that handles the *)
(* terminal action will in fact carry it out.                                *)
PendingIsResolved ==
  ~overflowed =>
    /\ requested_state # "NONE" => Queued("REQUEST_STATE")
    /\ pending_terminal_action # "NONE" =>
         Queued("TERMINAL_ACTION") \/ Resolved(stack, mode_state)

IInv == TypeOK /\ Shape(stack) /\ RequestEventsMatch /\ PendingIsResolved

Points == WaitPoints \union OtherPoints

-----------------------------------------------------------------------------
(* The queue. *)

(* FS_Mode_PushQueue keeps the queue within its capacity. *)
LEMMA PushedType ==
  ASSUME NEW q \in Seq(Events), Len(q) <= QueueLength, NEW e \in Events
  PROVE  Pushed(q, e) \in Seq(Events) /\ Len(Pushed(q, e)) <= QueueLength
<1>1. CASE Len(q) >= QueueLength
  <2>1. q # <<>> /\ Tail(q) \in Seq(Events) /\ Len(Tail(q)) = Len(q) - 1
    BY <1>1, QueueLengthAssumption, HeadTailProperties
  <2>2. QED BY <1>1, <2>1, QueueLengthAssumption, AppendProperties DEF Pushed
<1>2. CASE ~(Len(q) >= QueueLength)
  BY <1>2, QueueLengthAssumption, AppendProperties DEF Pushed
<1>3. QED BY <1>1, <1>2

(* Taking the head of the queue. *)
LEMMA PopType ==
  ASSUME NEW q \in Seq(Events), Len(q) <= QueueLength, q # <<>>
  PROVE  /\ Head(q) \in Events /\ Tail(q) \in Seq(Events)
         /\ Len(Tail(q)) <= QueueLength /\ Len(Tail(q)) = Len(q) - 1
BY HeadTailProperties, QueueLengthAssumption

-----------------------------------------------------------------------------
(* The stack. *)

(* Replacing the innermost frame leaves the others alone. *)
LEMMA TopReplaced ==
  ASSUME NEW s \in Seq(Frames), s # <<>>, NEW f \in Frames
  PROVE  LET t == [s EXCEPT ![Len(s)] = f]
         IN  /\ t \in Seq(Frames) /\ Len(t) = Len(s) /\ t # <<>>
             /\ t[Len(t)] = f
             /\ \A i \in 1 .. Len(s) - 1 : t[i] = s[i]
<1>1. Len(s) \in Nat \ {0}
  BY EmptySeq
<1>2. QED BY <1>1, ExceptSeq, EmptySeq

(* Removing the innermost frame. *)
LEMMA TopRemoved ==
  ASSUME NEW s \in Seq(Frames), s # <<>>
  PROVE  /\ SubSeq(s, 1, Len(s) - 1) \in Seq(Frames)
         /\ Len(SubSeq(s, 1, Len(s) - 1)) = Len(s) - 1
         /\ \A i \in 1 .. Len(s) - 1 : SubSeq(s, 1, Len(s) - 1)[i] = s[i]
<1>1. Len(s) \in Nat \ {0}
  BY EmptySeq
<1>2. \A i \in 1 .. Len(s) - 1 : s[i] \in Frames
  BY <1>1, ElementOfSeq
<1> DEFINE n == Len(s) - 1
<1>3. n \in Nat
  BY <1>1
<1>4. /\ SubSeq(s, 1, n) \in Seq(Frames)
      /\ Len(SubSeq(s, 1, n)) = IF 1 <= n THEN n - 1 + 1 ELSE 0
      /\ \A i \in 1 .. n - 1 + 1 : SubSeq(s, 1, n)[i] = s[1 + i - 1]
  <2>1. \A i \in 1 .. n : s[i] \in Frames
    BY <1>2
  <2> HIDE DEF n
  <2>2. QED BY <1>3, <2>1, SubSeqProperties
<1>5. /\ Len(SubSeq(s, 1, n)) = n
      /\ \A i \in 1 .. n : SubSeq(s, 1, n)[i] = s[i]
  <2> HIDE DEF n
  <2>1. n - 1 + 1 = n /\ \A i \in 1 .. n : 1 + i - 1 = i
    BY <1>3
  <2>2. QED BY <1>3, <1>4, <2>1
<1>6. QED BY <1>4, <1>5

LEMMA TopIsFrame ==
  ASSUME TypeOK, stack # <<>>
  PROVE  Top \in Frames /\ Len(stack) \in Nat \ {0}
BY EmptySeq, ElementOfSeq DEF TypeOK, Top

LEMMA UpdateFrameType == UpdateFrame \in Frames
BY DEF UpdateFrame, Frames, WaitPoints, OtherPoints, Events, Modes, AdvStatus

LEMMA BleFrameType ==
  ASSUME NEW pc \in Points, NEW status \in AdvStatus
  PROVE  BleFrame(pc, status) \in Frames
BY DEF BleFrame, Frames, Points, WaitPoints, OtherPoints, Events, Modes, AdvStatus

LEMMA GoToType ==
  ASSUME TypeOK, stack # <<>>, NEW pc \in Points, GoTo(pc)
  PROVE  /\ stack' \in Seq(Frames) /\ Len(stack') = Len(stack)
         /\ stack'[Len(stack)] = [Top EXCEPT !.pc = pc]
         /\ \A i \in 1 .. Len(stack) - 1 : stack'[i] = stack[i]
<1>1. Top \in Frames
  BY TopIsFrame
<1>2. [Top EXCEPT !.pc = pc] \in Frames
  BY <1>1 DEF Frames, Points
<1>3. stack' = [stack EXCEPT ![Len(stack)] = [Top EXCEPT !.pc = pc]]
  BY DEF GoTo, Top
<1>4. stack \in Seq(Frames)
  BY DEF TypeOK
<1>5. QED BY <1>2, <1>3, <1>4, TopReplaced

LEMMA HandlerType ==
  ASSUME TypeOK, stack # <<>>, event_queue # <<>>,
         NEW pc \in Points, NEW next \in Modes, Handler(pc, next)
  PROVE  /\ stack' \in Seq(Frames) /\ Len(stack') = Len(stack)
         /\ stack'[Len(stack)] =
              [Top EXCEPT !.pc = pc, !.event = Head(event_queue),
                          !.old = mode_state, !.next = next]
         /\ \A i \in 1 .. Len(stack) - 1 : stack'[i] = stack[i]
<1> DEFINE f == [Top EXCEPT !.pc = pc, !.event = Head(event_queue),
                            !.old = mode_state, !.next = next]
<1>1. Top \in Frames /\ Head(event_queue) \in Events /\ mode_state \in Modes
  BY TopIsFrame, HeadTailProperties DEF TypeOK
<1>2. f \in Frames
  BY <1>1 DEF Frames, Points
<1>3. stack' = [stack EXCEPT ![Len(stack)] = f]
  BY DEF Handler, Top
<1>4. stack \in Seq(Frames)
  BY DEF TypeOK
<1>5. QED BY <1>2, <1>3, <1>4, TopReplaced

LEMMA HandlerAdvertisesType ==
  ASSUME TypeOK, stack # <<>>, event_queue # <<>>,
         NEW status \in AdvStatus, NEW next \in Modes,
         HandlerAdvertises(status, next)
  PROVE  /\ stack' \in Seq(Frames) /\ Len(stack') = Len(stack)
         /\ stack'[Len(stack)] =
              [Top EXCEPT !.pc = "advertise", !.event = Head(event_queue),
                          !.old = mode_state, !.next = next,
                          !.adv = status, !.then = "settle"]
         /\ \A i \in 1 .. Len(stack) - 1 : stack'[i] = stack[i]
<1> DEFINE f == [Top EXCEPT !.pc = "advertise", !.event = Head(event_queue),
                            !.old = mode_state, !.next = next,
                            !.adv = status, !.then = "settle"]
<1>1. Top \in Frames /\ Head(event_queue) \in Events /\ mode_state \in Modes
  BY TopIsFrame, HeadTailProperties DEF TypeOK
<1>2. f \in Frames
  BY <1>1 DEF Frames, OtherPoints
<1>3. stack' = [stack EXCEPT ![Len(stack)] = f]
  BY DEF HandlerAdvertises, Top
<1>4. stack \in Seq(Frames)
  BY DEF TypeOK
<1>5. QED BY <1>2, <1>3, <1>4, TopReplaced

-----------------------------------------------------------------------------
(* Type correctness. *)

(* What a mode handler may change besides the mode's own bookkeeping. *)
HandlerTyped ==
  /\ stack' \in Seq(Frames) /\ live' \in [Modes -> Int]
  /\ event_queue' \in Seq(Events) /\ Len(event_queue') <= QueueLength
  /\ mode_task' \in BOOLEAN /\ overflowed' \in BOOLEAN
  /\ config_timer' \in BOOLEAN /\ config_task' \in BOOLEAN
  /\ adv' \in AdvStatus /\ adv_timer' \in BOOLEAN /\ adv_task' \in BOOLEAN
  /\ phone' \in BOOLEAN /\ Adv_Callback' \in BOOLEAN
  /\ Next_Adv_Callback' \in BOOLEAN /\ request_pairing' \in BOOLEAN

LEMMA PointsType ==
  /\ WaitPoints \subseteq Points /\ OtherPoints \subseteq Points
  /\ \A x \in {"settle", "clearing", "naming", "advertise", "restart",
               "recheck", "final", "done", "booting", "stopping", "counting",
               "starting"} : x \in Points
BY DEF Points, WaitPoints, OtherPoints

LEMMA PopTyped ==
  ASSUME TypeOK, event_queue # <<>>, Pop
  PROVE  /\ event_queue' \in Seq(Events) /\ Len(event_queue') <= QueueLength
         /\ mode_task' \in BOOLEAN /\ overflowed' \in BOOLEAN
BY PopType DEF TypeOK, Pop

LEMMA PushTyped ==
  ASSUME TypeOK, NEW e \in Events, PushQueue(e)
  PROVE  /\ event_queue' \in Seq(Events) /\ Len(event_queue') <= QueueLength
         /\ mode_task' \in BOOLEAN /\ overflowed' \in BOOLEAN
<1>1. (Len(event_queue) >= QueueLength) \in BOOLEAN
  BY DEF TypeOK
<1>2. QED BY <1>1, PushedType DEF TypeOK, PushQueue, PushOn

LEMMA StayTyped ==
  ASSUME TypeOK, stack # <<>>, event_queue # <<>>, Stay
  PROVE  HandlerTyped
<1>1. Pop /\ Handler("settle", mode_state)
  BY DEF Stay
<1>2. mode_state \in Modes
  BY DEF TypeOK
<1>3. stack' \in Seq(Frames)
  BY <1>1, <1>2, HandlerType, PointsType
<1>4. QED BY <1>1, <1>3, PopTyped DEF Stay, HandlerTyped, TypeOK, configVars, bleVars

LEMMA LiveTyped ==
  ASSUME TypeOK, NEW m \in Modes, Started(m) \/ Stopped(m)
  PROVE  live' \in [Modes -> Int]
BY DEF TypeOK, Started, Stopped

LEMMA EnterTyped ==
  ASSUME TypeOK, stack # <<>>, event_queue # <<>>, NEW m \in Modes, Enter(m)
  PROVE  HandlerTyped
<1>1. CASE EnterPlain(m)
  <2>1. Pop /\ Started(m) /\ Handler("settle", m)
    BY <1>1 DEF EnterPlain
  <2>2. stack' \in Seq(Frames)
    BY <2>1, HandlerType, PointsType
  <2>3. QED BY <1>1, <2>1, <2>2, PopTyped, LiveTyped
            DEF EnterPlain, HandlerTyped, TypeOK, configVars, bleVars
<1>2. CASE m = "CONFIG" /\ EnterConfig
  <2>1. Started("CONFIG") /\ Handler("settle", "CONFIG") /\ "CONFIG" \in Modes
    BY <1>2 DEF EnterConfig, Modes
  <2>2. stack' \in Seq(Frames)
    BY <2>1, HandlerType, PointsType
  <2>3. /\ event_queue' \in Seq(Events) /\ Len(event_queue') <= QueueLength
        /\ mode_task' \in BOOLEAN /\ overflowed' \in BOOLEAN
        /\ config_timer' \in BOOLEAN
    <3>1. CASE Pop /\ config_timer' = TRUE
      BY <3>1, PopTyped
    <3>2. CASE PushOn(Tail(event_queue), "FORCE_UPDATE") /\ UNCHANGED config_timer
      <4>1. /\ Tail(event_queue) \in Seq(Events)
            /\ Len(Tail(event_queue)) <= QueueLength
            /\ Len(Tail(event_queue)) \in Nat
        BY PopType DEF TypeOK
      <4>2. "FORCE_UPDATE" \in Events
        BY DEF Events
      <4>3. QED BY <3>2, <4>1, <4>2, PushedType DEF PushOn, TypeOK
    <3>3. QED BY <1>2, <3>1, <3>2 DEF EnterConfig
  <2>4. QED BY <1>2, <2>1, <2>2, <2>3, LiveTyped
            DEF EnterConfig, HandlerTyped, TypeOK, bleVars
<1>3. CASE m = "PAIRING" /\ EnterPairing
  <2>1. Started("PAIRING") /\ Pop /\ HandlerAdvertises("FAST", "PAIRING")
    BY <1>3 DEF EnterPairing
  <2>2. "PAIRING" \in Modes /\ "FAST" \in AdvStatus
    BY DEF Modes, AdvStatus
  <2>3. stack' \in Seq(Frames)
    BY <2>1, <2>2, HandlerAdvertisesType
  <2>4. QED BY <1>3, <2>1, <2>2, <2>3, PopTyped, LiveTyped
            DEF EnterPairing, HandlerTyped, TypeOK, configVars
<1>4. QED BY <1>1, <1>2, <1>3 DEF Enter

LEMMA LeaveTyped ==
  ASSUME TypeOK, stack # <<>>, event_queue # <<>>, NEW m \in Modes, Leave(m)
  PROVE  HandlerTyped
<1>0. {"SLEEP", "CONFIG", "PAIRING"} \subseteq Modes /\ "LP" \in AdvStatus
  BY DEF Modes, AdvStatus
<1>1. CASE LeavePlain(m)
  <2>1. Pop /\ Stopped(m) /\ Handler("settle", "SLEEP")
    BY <1>1 DEF LeavePlain
  <2>2. stack' \in Seq(Frames)
    BY <1>0, <2>1, HandlerType, PointsType
  <2>3. QED BY <1>1, <2>1, <2>2, PopTyped, LiveTyped
            DEF LeavePlain, HandlerTyped, TypeOK, configVars, bleVars
<1>2. CASE LeaveConfig
  <2>1. Pop /\ Stopped("CONFIG") /\ Handler("settle", "SLEEP")
    BY <1>2 DEF LeaveConfig
  <2>2. stack' \in Seq(Frames)
    BY <1>0, <2>1, HandlerType, PointsType
  <2>3. QED BY <1>0, <1>2, <2>1, <2>2, PopTyped, LiveTyped
            DEF LeaveConfig, HandlerTyped, TypeOK, bleVars
<1>3. CASE LeavePairing
  <2>1. /\ Pop /\ Stopped("PAIRING")
        /\ HandlerAdvertises("LP", "SLEEP") \/ Handler("settle", "SLEEP")
    BY <1>3 DEF LeavePairing
  <2>2. stack' \in Seq(Frames)
    BY <1>0, <2>1, HandlerType, HandlerAdvertisesType, PointsType
  <2>3. QED BY <1>0, <1>3, <2>1, <2>2, PopTyped, LiveTyped
            DEF LeavePairing, HandlerTyped, TypeOK, configVars
<1>4. QED BY <1>1, <1>2, <1>3 DEF Leave

LEMMA LeaveUsbTyped ==
  ASSUME TypeOK, stack # <<>>, event_queue # <<>>, LeaveUsb
  PROVE  HandlerTyped
<1>1. /\ Pop /\ Stopped("USB")
      /\ \E pc \in {"clearing", "naming"} : Handler(pc, "SLEEP")
  BY DEF LeaveUsb
<1>2. {"SLEEP", "USB"} \subseteq Modes
  BY DEF Modes
<1>3. stack' \in Seq(Frames)
  BY <1>1, <1>2, HandlerType, PointsType
<1>4. QED BY <1>1, <1>2, <1>3, PopTyped, LiveTyped
          DEF LeaveUsb, HandlerTyped, TypeOK, configVars, bleVars

(* Every step of a mode handler ends with one of the four calls above.       *)
LEMMA HandlerStepTyped ==
  ASSUME TypeOK,
         SleepHandler \/ HeldHandler \/ BriefHandler \/ UsbHandler
  PROVE  HandlerTyped /\ UNCHANGED <<mode_state, envVars, historyVars>>
         /\ requested_state' \in {requested_state, "NONE"}
         /\ pending_terminal_action' \in {pending_terminal_action, "NONE"}
         /\ button_state' \in {"IDLE", "FIRST_PRESS", "RELEASED", "SECOND_PRESS"}
         /\ hold_timer' \in BOOLEAN
<1> USE DEF Event, At
<1>0. ASSUME stack # <<>>, event_queue # <<>>,
             Stay \/ (\E m \in Modes : Enter(m) \/ Leave(m)) \/ LeaveUsb
      PROVE  HandlerTyped
  BY <1>0, StayTyped, EnterTyped, LeaveTyped, LeaveUsbTyped
<1>1. CASE SleepHandler
  <2>1. DefaultMode \in Modes /\ {"CONFIG", "PAIRING", "USB"} \subseteq Modes
    BY ConfigurationAssumption DEF Modes
  <2>2. CASE SleepPressed
    BY <1>0, <2>2 DEF SleepPressed, requestVars, TypeOK
  <2>3. CASE SleepReleased
    BY <1>0, <2>1, <2>3 DEF SleepReleased, requestVars, TypeOK
  <2>4. CASE SleepTimer
    BY <1>0, <2>1, <2>4 DEF SleepTimer, requestVars, TypeOK
  <2>5. CASE SleepVbusHigh
    BY <1>0, <2>1, <2>5 DEF SleepVbusHigh, requestVars, TypeOK
  <2>6. CASE SleepRequest
    BY <1>0, <2>6 DEF SleepRequest, TypeOK
  <2>7. CASE SleepIgnores
    BY <1>0, <2>7 DEF SleepIgnores, requestVars, TypeOK
  <2>8. QED BY <1>1, <2>2, <2>3, <2>4, <2>5, <2>6, <2>7 DEF SleepHandler
<1>2. CASE HeldHandler
  <2>0. PICK m \in Held : HeldPressed(m) \/ HeldReleased(m) \/ HeldTimer(m)
                  \/ HeldRequest(m) \/ HeldTerminalAction(m) \/ HeldIgnores(m)
    BY <1>2 DEF HeldHandler
  <2>1. m \in Modes
    BY <2>0 DEF Held, Modes
  <2>2. CASE HeldPressed(m) \/ HeldReleased(m) \/ HeldIgnores(m)
    BY <1>0, <2>2 DEF HeldPressed, HeldReleased, HeldIgnores, requestVars, TypeOK
  <2>3. CASE HeldTimer(m) \/ HeldTerminalAction(m)
    BY <1>0, <2>1, <2>3 DEF HeldTimer, HeldTerminalAction, requestVars, TypeOK
  <2>4. CASE HeldRequest(m)
    BY <1>0, <2>1, <2>4 DEF HeldRequest, TypeOK
  <2>5. QED BY <2>0, <2>2, <2>3, <2>4
<1>3. CASE BriefHandler
  <2>0. PICK m \in Brief : BriefEnds(m) \/ BriefRequest(m) \/ BriefIgnores(m)
    BY <1>3 DEF BriefHandler
  <2>1. m \in Modes
    BY <2>0 DEF Brief, Modes
  <2>2. QED BY <1>0, <2>0, <2>1 DEF BriefEnds, BriefRequest, BriefIgnores,
                                    requestVars, TypeOK
<1>4. CASE UsbHandler
  BY <1>0, <1>4 DEF UsbHandler, UsbVbusLow, UsbRequest, UsbTerminalAction,
                    UsbIgnores, requestVars, TypeOK
<1>5. QED BY <1>1, <1>2, <1>3, <1>4

(* What FS_Mode_Init leaves. *)
LEMMA BootTyped ==
  ASSUME NEW v \in BOOLEAN
  PROVE  /\ BootQueue(v) \in Seq(Events) /\ Len(BootQueue(v)) <= QueueLength
         /\ BootStack \in Seq(Frames)
         /\ [m \in Modes |-> 0] \in [Modes -> Int]
<1>1. BleFrame("booting", "FAST") \in Frames
  BY BleFrameType DEF Points, WaitPoints, AdvStatus
<1>2. BootStack \in Seq(Frames)
  BY <1>1 DEF BootStack
<1>3. CASE v
  BY <1>2, <1>3, QueueLengthAssumption DEF BootQueue, Events
<1>4. CASE ~v
  BY <1>2, <1>4, QueueLengthAssumption DEF BootQueue, Events
<1>5. QED BY <1>3, <1>4

(* The type invariant holds initially. *)
LEMMA TypeInit == Init => TypeOK
<1>1. SUFFICES ASSUME Init PROVE TypeOK
  OBVIOUS
<1>2. vbus \in BOOLEAN
  BY <1>1 DEF Init
<1>3. /\ event_queue \in Seq(Events) /\ Len(event_queue) <= QueueLength
      /\ stack \in Seq(Frames) /\ live \in [Modes -> Int]
  BY <1>1, <1>2, BootTyped DEF Init
<1>4. mode_state \in Modes /\ adv \in AdvStatus
  BY <1>1 DEF Init, Modes, AdvStatus
<1>5. /\ requested_state \in Modes \union {"NONE"}
      /\ pending_terminal_action \in Actions \union {"NONE"}
      /\ button_state \in {"IDLE", "FIRST_PRESS", "RELEASED", "SECOND_PRESS"}
      /\ mode_task \in BOOLEAN /\ hold_timer \in BOOLEAN /\ inputs \in Nat
  BY <1>1, <1>2 DEF Init
<1>6. QED BY <1>1, <1>2, <1>3, <1>4, <1>5 DEF Init, TypeOK

(* Each group of steps preserves the types. *)
LEMMA TypeHandler ==
  ASSUME TypeOK,
         SleepHandler \/ HeldHandler \/ BriefHandler \/ UsbHandler
  PROVE  TypeOK'
BY HandlerStepTyped DEF TypeOK, HandlerTyped, envVars, historyVars

LEMMA TypeInterrupt ==
  ASSUME TypeOK, Interrupt
  PROVE  TypeOK'
<1> USE DEF requestVars, queueVars, configVars, bleVars, envVars, historyVars
<1>0. \A e \in Events : PushQueue(e) =>
        /\ event_queue' \in Seq(Events) /\ Len(event_queue') <= QueueLength
        /\ mode_task' \in BOOLEAN /\ overflowed' \in BOOLEAN
  BY PushTyped
<1>1. CASE ButtonEdge
  <2>1. PushQueue("BUTTON_RELEASED") \/ PushQueue("BUTTON_PRESSED")
    BY <1>1 DEF ButtonEdge
  <2>2. inputs' \in Nat
    BY <1>1 DEF ButtonEdge, Input, TypeOK
  <2>3. {"BUTTON_RELEASED", "BUTTON_PRESSED"} \subseteq Events
    BY DEF Events
  <2>4. QED BY <1>0, <1>1, <2>1, <2>2, <2>3 DEF ButtonEdge, TypeOK
<1>2. CASE VbusEdge
  BY <1>2 DEF VbusEdge, Input, TypeOK
<1>3. CASE VbusTriggered
  <2>1. PushQueue("VBUS_HIGH") \/ PushQueue("VBUS_LOW")
    BY <1>3 DEF VbusTriggered
  <2>2. {"VBUS_HIGH", "VBUS_LOW"} \subseteq Events
    BY DEF Events
  <2>3. /\ vbus_irq' \in BOOLEAN
        /\ UNCHANGED <<mode_state, requestVars, button_state, hold_timer, stack,
                       live, button_down, vbus, inputs, configVars, bleVars,
                       historyVars>>
    BY <1>3 DEF VbusTriggered
  <2>4. QED BY <1>0, <2>1, <2>2, <2>3 DEF TypeOK
<1>4. CASE HoldTimer
  <2>1. "TIMER" \in Events
    BY DEF Events
  <2>2. /\ hold_timer' \in BOOLEAN /\ PushQueue("TIMER")
        /\ UNCHANGED <<mode_state, requestVars, button_state, stack, live,
                       envVars, configVars, bleVars, historyVars>>
    BY <1>4 DEF HoldTimer
  <2>3. QED BY <1>0, <2>1, <2>2 DEF TypeOK
<1>5. CASE AdvTimeout
  <2>1. /\ adv_timer' \in BOOLEAN /\ adv_task' \in BOOLEAN
        /\ UNCHANGED <<FromAdv, queueVars, stack, adv, phone, Adv_Callback,
                       Next_Adv_Callback, request_pairing>>
    BY <1>5 DEF AdvTimeout
  <2>2. QED BY <2>1 DEF FromAdv, TypeOK
<1>6. CASE ConfigTimer
  <2>1. /\ config_timer' \in BOOLEAN /\ config_task' \in BOOLEAN
        /\ UNCHANGED <<mode_state, requestVars, button_state, queueVars,
                       hold_timer, stack, live, envVars, bleVars, historyVars>>
    BY <1>6 DEF ConfigTimer
  <2>2. QED BY <2>1 DEF TypeOK
<1>7. CASE Remote
  <2>1. {"REQUEST_STATE", "TERMINAL_ACTION"} \subseteq Events
    BY DEF Events
  <2>2. ASSUME NEW target \in Modes, RequestState(target)
        PROVE  TypeOK'
    BY <1>0, <2>1, <2>2 DEF RequestState, Input, TypeOK
  <2>3. ASSUME NEW action \in Actions, RequestTerminalAction(action)
        PROVE  TypeOK'
    BY <1>0, <2>1, <2>3 DEF RequestTerminalAction, Input, TypeOK
  <2>4. QED BY <1>7, <2>2, <2>3 DEF Remote
<1>8. QED BY <1>1, <1>2, <1>3, <1>4, <1>5, <1>6, <1>7 DEF Interrupt

(* Moving the innermost run on, or ending it. *)
LEMMA StackTyped ==
  ASSUME TypeOK, stack # <<>>,
         Return \/ (\E pc \in Points : GoTo(pc)) \/ GoTo(Top.then)
  PROVE  stack' \in Seq(Frames)
<1>1. Top.then \in Points
  BY TopIsFrame DEF Frames, Points, OtherPoints, WaitPoints
<1>2. QED BY <1>1, GoToType, TopRemoved DEF Return, TypeOK

LEMMA TypeLoop ==
  ASSUME TypeOK,
         RunModeTask \/ UpdateReturns \/ Settle \/ RecheckPush \/ NextEvent
         \/ TerminalReset
  PROVE  TypeOK'
<1> USE DEF requestVars, queueVars, configVars, bleVars, envVars, historyVars, At
<1>1. CASE RunModeTask
  <2>1. stack' \in Seq(Frames)
    BY <1>1, UpdateFrameType DEF RunModeTask, TypeOK
  <2>2. /\ reentered' \in BOOLEAN /\ mode_task' \in BOOLEAN
        /\ UNCHANGED <<mode_state, requestVars, button_state, event_queue,
                       overflowed, hold_timer, live, envVars, configVars,
                       bleVars, stale_recheck>>
    BY <1>1 DEF RunModeTask, TypeOK
  <2>3. QED BY <2>1, <2>2 DEF TypeOK
<1>2. CASE UpdateReturns
  <2>1. stack' \in Seq(Frames)
    BY <1>2, StackTyped DEF UpdateReturns
  <2>2. QED BY <1>2, <2>1 DEF UpdateReturns, TypeOK
<1>3. CASE Settle
  <2>1. stack # <<>> /\ \E pc \in Points : GoTo(pc)
    BY <1>3, PointsType DEF Settle
  <2>2. stack' \in Seq(Frames)
    BY <2>1, StackTyped
  <2>3. mode_state' \in Modes
    BY <1>3, <2>1, TopIsFrame DEF Settle, TypeOK, Frames
  <2>4. QED BY <1>3, <2>2, <2>3 DEF Settle, TypeOK
<1>4. CASE RecheckPush
  <2>1. stack # <<>> /\ \E pc \in Points : GoTo(pc)
    BY <1>4, PointsType DEF RecheckPush
  <2>2. stack' \in Seq(Frames)
    BY <2>1, StackTyped
  <2>3. PushQueue("VBUS_HIGH") /\ "VBUS_HIGH" \in Events
    BY <1>4 DEF RecheckPush, Events
  <2>4. stale_recheck' \in BOOLEAN
    BY <1>4 DEF RecheckPush, TypeOK
  <2>5. QED BY <1>4, <2>2, <2>3, <2>4, PushTyped DEF RecheckPush, TypeOK
<1>5. CASE NextEvent
  <2>1. stack' \in Seq(Frames)
    BY <1>5, UpdateFrameType, TopReplaced DEF NextEvent, TypeOK
  <2>2. QED BY <1>5, <2>1 DEF NextEvent, TypeOK
<1>6. CASE TerminalReset
  <2>1. vbus \in BOOLEAN
    BY DEF TypeOK
  <2>2. /\ event_queue' \in Seq(Events) /\ Len(event_queue') <= QueueLength
        /\ stack' \in Seq(Frames) /\ live' \in [Modes -> Int]
    BY <1>6, <2>1, BootTyped DEF TerminalReset
  <2>3. "SLEEP" \in Modes /\ "IDLE" \in AdvStatus
    BY DEF Modes, AdvStatus
  <2>4. QED BY <1>6, <2>2, <2>3 DEF TerminalReset, TypeOK
<1>7. QED BY <1>1, <1>2, <1>3, <1>4, <1>5, <1>6

LEMMA TypeRadio ==
  ASSUME TypeOK, Radio
  PROVE  TypeOK'
<1> USE DEF requestVars, queueVars, configVars, bleVars, envVars, historyVars,
            FromAdv, At
<1>1. "FORCE_UPDATE" \in Events
  BY DEF Events
<1>2. CASE BondsCleared
  <2>1. [Top EXCEPT !.pc = "advertise", !.adv = adv, !.then = "naming"] \in Frames
    BY <1>2, TopIsFrame DEF BondsCleared, Frames, OtherPoints, TypeOK
  <2>2. stack' \in Seq(Frames)
    BY <1>2, <2>1, TopReplaced DEF BondsCleared, TypeOK, Top
  <2>3. QED BY <1>2, <2>2 DEF BondsCleared, TypeOK
<1>3. ASSUME Radio, ~BondsCleared
      PROVE  stack' \in Seq(Frames)
  <2>1. stack # <<>> /\ ((\E pc \in Points : GoTo(pc)) \/ GoTo(Top.then))
    BY <1>3, PointsType DEF Radio, BleInitialised, AdvBegin, AdvStopped,
           AdvRestart, AdvCounted, AdvStarted, NameUpdated
  <2>2. QED BY <2>1, StackTyped
<1>4. CASE BleInitialised \/ AdvStopped \/ AdvCounted \/ NameUpdated
  <2>1. stack' \in Seq(Frames)
    BY <1>3, <1>4, <1>2 DEF Radio, BleInitialised, AdvStopped, AdvCounted,
       NameUpdated, BondsCleared
  <2>2. QED BY <1>4, <2>1 DEF BleInitialised, AdvStopped, AdvCounted,
                             NameUpdated, TypeOK
<1>5. CASE AdvBegin
  <2>1. stack' \in Seq(Frames)
    BY <1>3, <1>5 DEF Radio, AdvBegin, BondsCleared
  <2>2. adv' \in AdvStatus
    BY <1>5 DEF AdvBegin, TypeOK, AdvStatus
  <2>3. /\ adv_timer' \in BOOLEAN
        /\ UNCHANGED <<FromAdv, queueVars, adv_task, phone, Adv_Callback,
                       Next_Adv_Callback, request_pairing>>
    BY <1>5 DEF AdvBegin
  <2>4. QED BY <2>1, <2>2, <2>3 DEF TypeOK
<1>6. CASE AdvRestart
  <2>1. stack' \in Seq(Frames)
    BY <1>3, <1>6 DEF Radio, AdvRestart, BondsCleared
  <2>2. adv' \in AdvStatus
    BY <1>6, TopIsFrame DEF AdvRestart, Frames
  <2>3. /\ event_queue' \in Seq(Events) /\ Len(event_queue') <= QueueLength
        /\ mode_task' \in BOOLEAN /\ overflowed' \in BOOLEAN
    BY <1>1, <1>6, PushTyped DEF AdvRestart, TypeOK
  <2>4. /\ Adv_Callback' \in BOOLEAN /\ Next_Adv_Callback' \in BOOLEAN
        /\ UNCHANGED <<FromAdv, adv_timer, adv_task, phone, request_pairing>>
    BY <1>6 DEF AdvRestart, TypeOK
  <2>5. QED BY <2>1, <2>2, <2>3, <2>4 DEF TypeOK
<1>7. CASE AdvStarted
  <2>1. stack' \in Seq(Frames)
    BY <1>3, <1>7 DEF Radio, AdvStarted, BondsCleared
  <2>2. /\ adv_timer' \in BOOLEAN
        /\ UNCHANGED <<FromAdv, queueVars, adv, adv_task, phone, Adv_Callback,
                       Next_Adv_Callback, request_pairing>>
    BY <1>7 DEF AdvStarted, TypeOK
  <2>3. QED BY <2>1, <2>2 DEF TypeOK
<1>8. QED BY <1>2, <1>4, <1>5, <1>6, <1>7 DEF Radio

LEMMA TypeBleTask ==
  ASSUME TypeOK, BleTask \/ RunConfigTask
  PROVE  TypeOK'
<1> USE DEF requestVars, queueVars, configVars, bleVars, envVars, historyVars,
            FromAdv, At
<1>1. {"FAST", "LP", "CONNECTED", "IDLE"} \subseteq AdvStatus
      /\ "FORCE_UPDATE" \in Events /\ "advertise" \in Points
  BY DEF AdvStatus, Events, Points, OtherPoints
<1>2. CASE RunAdvUpdate
  <2>1. stack' \in Seq(Frames)
    BY <1>1, <1>2, BleFrameType DEF RunAdvUpdate, TypeOK
  <2>2. /\ adv_task' \in BOOLEAN
        /\ UNCHANGED <<FromAdv, queueVars, adv, adv_timer, phone, Adv_Callback,
                       Next_Adv_Callback, request_pairing>>
    BY <1>2 DEF RunAdvUpdate
  <2>3. QED BY <2>1, <2>2 DEF TypeOK
<1>3. CASE Connected
  <2>1. /\ event_queue' \in Seq(Events) /\ Len(event_queue') <= QueueLength
        /\ mode_task' \in BOOLEAN /\ overflowed' \in BOOLEAN
    BY <1>1, <1>3, PushTyped DEF Connected, TypeOK
  <2>2. inputs' \in Nat
    BY <1>3 DEF Connected, Input, TypeOK
  <2>3. /\ adv' \in AdvStatus /\ phone' \in BOOLEAN /\ adv_timer' \in BOOLEAN
        /\ Adv_Callback' \in BOOLEAN /\ Next_Adv_Callback' \in BOOLEAN
        /\ UNCHANGED <<mode_state, requestVars, button_state, hold_timer, stack,
                       live, button_down, vbus, vbus_irq, configVars,
                       historyVars, adv_task, request_pairing>>
    BY <1>1, <1>3 DEF Connected, TypeOK
  <2>4. QED BY <2>1, <2>2, <2>3 DEF TypeOK
<1>4. CASE Disconnected
  <2>1. stack' \in Seq(Frames)
    BY <1>1, <1>4, BleFrameType DEF Disconnected, TypeOK
  <2>2. inputs' \in Nat
    BY <1>4 DEF Disconnected, Input, TypeOK
  <2>3. /\ adv' \in AdvStatus /\ phone' \in BOOLEAN
        /\ UNCHANGED <<mode_state, requestVars, button_state, queueVars,
                       hold_timer, live, button_down, vbus, vbus_irq,
                       configVars, historyVars, adv_timer, adv_task,
                       Adv_Callback, Next_Adv_Callback, request_pairing>>
    BY <1>1, <1>4 DEF Disconnected
  <2>4. QED BY <2>1, <2>2, <2>3 DEF TypeOK
<1>5. CASE BleTaskReturns
  <2>1. stack' \in Seq(Frames)
    BY <1>5, StackTyped DEF BleTaskReturns
  <2>2. QED BY <1>5, <2>1 DEF BleTaskReturns, TypeOK
<1>6. CASE RunConfigTask
  <2>1. /\ event_queue' \in Seq(Events) /\ Len(event_queue') <= QueueLength
        /\ mode_task' \in BOOLEAN /\ overflowed' \in BOOLEAN
        /\ config_timer' \in BOOLEAN
    BY <1>1, <1>6, PushTyped DEF RunConfigTask, TypeOK
  <2>2. /\ config_task' \in BOOLEAN
        /\ UNCHANGED <<mode_state, requestVars, button_state, hold_timer, stack,
                       live, envVars, bleVars, historyVars>>
    BY <1>6 DEF RunConfigTask
  <2>3. QED BY <2>1, <2>2 DEF TypeOK
<1>7. QED BY <1>2, <1>3, <1>4, <1>5, <1>6 DEF BleTask

LEMMA TypeNext == TypeOK /\ [Next]_vars => TypeOK'
<1>1. ASSUME TypeOK, Next PROVE TypeOK'
  <2>1. CASE ModeTask
    BY <1>1, <2>1, TypeHandler, TypeLoop DEF ModeTask
  <2>2. QED BY <1>1, <2>1, TypeInterrupt, TypeRadio, TypeBleTask DEF Next
<1>2. ASSUME TypeOK, UNCHANGED vars PROVE TypeOK'
  BY <1>2 DEF TypeOK, vars, requestVars, queueVars, envVars, configVars,
              bleVars, historyVars
<1>3. QED BY <1>1, <1>2

(* In every reachable state each variable has its type and the event queue   *)
(* holds at most QUEUE_LENGTH events, whatever that length is.               *)
THEOREM TypeCorrect == Spec => []TypeOK
BY TypeInit, TypeNext, PTL DEF Spec

-----------------------------------------------------------------------------
(* Requests and their events. *)

In(q, e)   == \E i \in DOMAIN q : q[i] = e
Once(q, e) == \A i, j \in DOMAIN q : q[i] = e /\ q[j] = e => i = j

(* RequestEventsMatch of a queue q, a requested state r and an action t.     *)
Match(q, r, t) ==
  /\ Once(q, "REQUEST_STATE") /\ Once(q, "TERMINAL_ACTION")
  /\ In(q, "REQUEST_STATE") => r # "NONE"
  /\ In(q, "TERMINAL_ACTION") => t # "NONE"
  /\ r = "NONE" \/ t = "NONE"

LEMMA MatchIsRequestEventsMatch ==
  RequestEventsMatch <=> Match(event_queue, requested_state, pending_terminal_action)
BY DEF RequestEventsMatch, Match, AtMostOnce, Queued, In, Once

(* Dropping the head of the queue. *)
LEMMA TailEvents ==
  ASSUME NEW q \in Seq(Events), q # <<>>, NEW e
  PROVE  /\ In(Tail(q), e) => In(q, e)
         /\ Once(q, e) => Once(Tail(q), e)
         /\ Once(q, e) /\ Head(q) = e => ~In(Tail(q), e)
         /\ In(q, e) => In(Tail(q), e) \/ Head(q) = e
<1>1. /\ Tail(q) \in Seq(Events) /\ Len(Tail(q)) = Len(q) - 1
      /\ Len(q) \in Nat \ {0} /\ Head(q) = q[1]
      /\ DOMAIN q = 1 .. Len(q) /\ DOMAIN Tail(q) = 1 .. Len(q) - 1
  BY HeadTailProperties, EmptySeq
<1>2. \A i \in DOMAIN Tail(q) : i + 1 \in DOMAIN q /\ Tail(q)[i] = q[i + 1]
  BY <1>1, HeadTailProperties
<1>3. \A i \in DOMAIN q : i = 1 \/ (i - 1 \in DOMAIN Tail(q) /\ Tail(q)[i - 1] = q[i])
  BY <1>1, <1>2
<1>4. In(Tail(q), e) => In(q, e)
  BY <1>2 DEF In
<1>5. Once(q, e) => Once(Tail(q), e)
  <2>1. SUFFICES ASSUME Once(q, e), NEW i \in DOMAIN Tail(q),
                        NEW j \in DOMAIN Tail(q), Tail(q)[i] = e, Tail(q)[j] = e
                 PROVE  i = j
    BY DEF Once
  <2>2. i + 1 = j + 1
    BY <1>2, <2>1 DEF Once
  <2>3. QED BY <1>1, <2>2
<1>6. Once(q, e) /\ Head(q) = e => ~In(Tail(q), e)
  <2>1. SUFFICES ASSUME Once(q, e), Head(q) = e, NEW i \in DOMAIN Tail(q),
                        Tail(q)[i] = e
                 PROVE  FALSE
    BY DEF In
  <2>2. 1 \in DOMAIN q /\ i + 1 \in DOMAIN q /\ q[1] = e /\ q[i + 1] = e
    BY <1>1, <1>2, <2>1
  <2>3. i + 1 = 1
    BY <2>1, <2>2 DEF Once
  <2>4. QED BY <1>1, <2>3
<1>7. In(q, e) => In(Tail(q), e) \/ Head(q) = e
  BY <1>1, <1>3 DEF In
<1>8. QED BY <1>4, <1>5, <1>6, <1>7

(* Appending to the queue. *)
LEMMA AppendEvents ==
  ASSUME NEW q \in Seq(Events), NEW e \in Events, NEW d
  PROVE  /\ In(Append(q, e), d) <=> In(q, d) \/ d = e
         /\ Once(q, d) /\ (d # e \/ ~In(q, e)) => Once(Append(q, e), d)
<1>1. /\ DOMAIN q = 1 .. Len(q) /\ Len(q) \in Nat
      /\ DOMAIN Append(q, e) = 1 .. Len(q) + 1
      /\ \A i \in 1 .. Len(q) : Append(q, e)[i] = q[i]
      /\ Append(q, e)[Len(q) + 1] = e
  BY AppendProperties
<1>2. QED BY <1>1 DEF In, Once

(* FS_Mode_PushQueue: nothing but e comes in, and without an overflow        *)
(* nothing is lost.                                                          *)
LEMMA PushedEvents ==
  ASSUME NEW q \in Seq(Events), NEW e \in Events, NEW d
  PROVE  /\ In(Pushed(q, e), d) => In(q, d) \/ d = e
         /\ In(Pushed(q, e), e)
         /\ Once(q, d) /\ (d # e \/ ~In(q, e)) => Once(Pushed(q, e), d)
         /\ ~(Len(q) >= QueueLength) /\ In(q, d) => In(Pushed(q, e), d)
<1>1. CASE Len(q) >= QueueLength
  <2>1. q # <<>> /\ Tail(q) \in Seq(Events)
    BY <1>1, QueueLengthAssumption, HeadTailProperties
  <2>2. Pushed(q, e) = Append(Tail(q), e)
    BY <1>1 DEF Pushed
  <2>3. /\ In(Tail(q), e) => In(q, e)
        /\ In(Tail(q), d) => In(q, d)
        /\ Once(q, d) => Once(Tail(q), d)
    BY <2>1, TailEvents
  <2> DEFINE p == Tail(q)
  <2>4. p \in Seq(Events)
    BY <2>1
  <2> HIDE DEF p
  <2>5. /\ In(Append(p, e), d) <=> In(p, d) \/ d = e
        /\ Once(p, d) /\ (d # e \/ ~In(p, e)) => Once(Append(p, e), d)
    BY <2>4, AppendEvents
  <2>6. In(Append(p, e), e)
    BY <2>4, AppendEvents
  <2>7. QED BY <1>1, <2>2, <2>3, <2>5, <2>6 DEF p
<1>2. CASE ~(Len(q) >= QueueLength)
  <2>1. Pushed(q, e) = Append(q, e)
    BY <1>2 DEF Pushed
  <2>2. QED BY <2>1, AppendEvents
<1>3. QED BY <1>1, <1>2

(* Every step of a mode handler takes the head of the queue, and may push    *)
(* FORCE_UPDATE into the place it left.                                      *)
LEMMA HandlerQueue ==
  ASSUME TypeOK,
         SleepHandler \/ HeldHandler \/ BriefHandler \/ UsbHandler
  PROVE  /\ stack # <<>> /\ Top.pc = "loop" /\ event_queue # <<>>
         /\ \/ event_queue' = Tail(event_queue)
            \/ event_queue' = Append(Tail(event_queue), "FORCE_UPDATE")
         /\ overflowed' = overflowed
<1> USE DEF Event, At
<1>1. stack # <<>> /\ Top.pc = "loop" /\ event_queue # <<>>
  BY DEF SleepHandler, SleepPressed, SleepReleased, SleepTimer, SleepVbusHigh,
         SleepRequest, SleepIgnores, HeldHandler, HeldPressed, HeldReleased,
         HeldTimer, HeldRequest, HeldTerminalAction, HeldIgnores, BriefHandler,
         BriefEnds, BriefRequest, BriefIgnores, UsbHandler, UsbVbusLow,
         UsbRequest, UsbTerminalAction, UsbIgnores
<1>2. Stay \/ (\E m \in Modes : Enter(m) \/ Leave(m)) \/ LeaveUsb
  <2>1. DefaultMode \in Modes /\ {"CONFIG", "PAIRING", "USB"} \subseteq Modes
    BY ConfigurationAssumption DEF Modes
  <2>2. Held \subseteq Modes /\ Brief \subseteq Modes
    BY DEF Held, Brief, Modes
  <2>3. CASE SleepHandler
    <3>1. requested_state \notin {"NONE", "SLEEP"} => requested_state \in Modes
      BY DEF TypeOK
    <3>2. QED BY <2>1, <2>3, <3>1 DEF SleepHandler, SleepPressed,
          SleepReleased, SleepTimer, SleepVbusHigh, SleepRequest, SleepIgnores
  <2>4. CASE HeldHandler
    BY <2>2, <2>4 DEF HeldHandler, HeldPressed, HeldReleased, HeldTimer,
                      HeldRequest, HeldTerminalAction, HeldIgnores
  <2>5. CASE BriefHandler
    BY <2>2, <2>5 DEF BriefHandler, BriefEnds, BriefRequest, BriefIgnores
  <2>6. CASE UsbHandler
    BY <2>6 DEF UsbHandler, UsbVbusLow, UsbRequest, UsbTerminalAction, UsbIgnores
  <2>7. QED BY <2>3, <2>4, <2>5, <2>6
<1>3. Pop \/ PushOn(Tail(event_queue), "FORCE_UPDATE")
  BY <1>2 DEF Stay, Enter, Leave, EnterPlain, EnterConfig, EnterPairing,
              LeavePlain, LeaveConfig, LeavePairing, LeaveUsb
<1>4. ASSUME PushOn(Tail(event_queue), "FORCE_UPDATE")
      PROVE  /\ event_queue' = Append(Tail(event_queue), "FORCE_UPDATE")
             /\ overflowed' = overflowed
  <2>1. ~(Len(Tail(event_queue)) >= QueueLength)
    BY <1>1, PopType, QueueLengthAssumption DEF TypeOK
  <2>2. overflowed \in BOOLEAN
    BY DEF TypeOK
  <2>3. QED BY <1>4, <2>1, <2>2 DEF PushOn, Pushed
<1>5. QED BY <1>1, <1>3, <1>4 DEF Pop


(* What a handler does to the two requests: it drops one exactly when it has *)
(* just taken that one's event, and it always does for REQUEST_STATE.        *)
LEMMA HandlerRequests ==
  ASSUME TypeOK,
         SleepHandler \/ HeldHandler \/ BriefHandler \/ UsbHandler
  PROVE  /\ requested_state' = IF Head(event_queue) = "REQUEST_STATE"
                               THEN "NONE" ELSE requested_state
         /\ pending_terminal_action' =
              IF Head(event_queue) = "TERMINAL_ACTION" /\ mode_state = "USB"
              THEN "NONE" ELSE pending_terminal_action
<1> USE DEF Event, At, requestVars
<1>1. CASE SleepHandler
  BY <1>1 DEF SleepHandler, SleepPressed, SleepReleased, SleepTimer,
              SleepVbusHigh, SleepRequest, SleepIgnores
<1>2. CASE HeldHandler
  BY <1>2 DEF HeldHandler, HeldPressed, HeldReleased, HeldTimer, HeldRequest,
              HeldTerminalAction, HeldIgnores, Held
<1>3. CASE BriefHandler
  BY <1>3 DEF BriefHandler, BriefEnds, BriefRequest, BriefIgnores, Brief
<1>4. CASE UsbHandler
  BY <1>4 DEF UsbHandler, UsbVbusLow, UsbRequest, UsbTerminalAction, UsbIgnores
<1>5. QED BY <1>1, <1>2, <1>3, <1>4

LEMMA MatchHandler ==
  ASSUME TypeOK, RequestEventsMatch,
         SleepHandler \/ HeldHandler \/ BriefHandler \/ UsbHandler
  PROVE  RequestEventsMatch'
<1> DEFINE q == event_queue  r == requested_state  t == pending_terminal_action
<1>1. Match(q, r, t)
  BY MatchIsRequestEventsMatch
<1>2. /\ q # <<>> /\ q \in Seq(Events) /\ Tail(q) \in Seq(Events)
      /\ q' = Tail(q) \/ q' = Append(Tail(q), "FORCE_UPDATE")
  BY HandlerQueue, HeadTailProperties DEF TypeOK
<1>3. "FORCE_UPDATE" \in Events
  BY DEF Events
<1>4. ASSUME NEW d \in {"REQUEST_STATE", "TERMINAL_ACTION"}
      PROVE  /\ In(q', d) => In(q, d) /\ Head(q) # d
             /\ Once(q', d)
  <2>1. Once(q, d)
    BY <1>1 DEF Match
  <2>2. /\ In(Tail(q), d) => In(q, d) /\ Head(q) # d
        /\ Once(Tail(q), d)
    BY <1>2, <2>1, TailEvents
  <2>3. /\ In(Append(Tail(q), "FORCE_UPDATE"), d) => In(Tail(q), d)
        /\ Once(Append(Tail(q), "FORCE_UPDATE"), d)
    BY <1>2, <1>3, <2>2, AppendEvents
  <2>4. QED BY <1>2, <2>2, <2>3
<1>5. /\ r' = IF Head(q) = "REQUEST_STATE" THEN "NONE" ELSE r
      /\ t' = t \/ (t' = "NONE" /\ Head(q) = "TERMINAL_ACTION")
  BY HandlerRequests
<1>6. Match(q', r', t')
  BY <1>1, <1>4, <1>5 DEF Match
<1>7. QED BY <1>6 DEF RequestEventsMatch, Match, AtMostOnce, Queued, In, Once

(* An event that is not a request is pushed, or nothing is.                  *)
LEMMA MatchQuiet ==
  ASSUME TypeOK, RequestEventsMatch, UNCHANGED requestVars,
         NEW e \in Events \ {"REQUEST_STATE", "TERMINAL_ACTION"},
         UNCHANGED event_queue \/ PushQueue(e)
  PROVE  RequestEventsMatch'
<1>1. CASE UNCHANGED event_queue
  BY <1>1 DEF requestVars, RequestEventsMatch, AtMostOnce, Queued
<1>2. CASE PushQueue(e)
  <2>1. event_queue \in Seq(Events) /\ event_queue' = Pushed(event_queue, e)
    BY <1>2 DEF TypeOK, PushQueue, PushOn
  <2>2. Match(event_queue, requested_state, pending_terminal_action)
    BY MatchIsRequestEventsMatch
  <2>3. ASSUME NEW d \in {"REQUEST_STATE", "TERMINAL_ACTION"}, Once(event_queue, d)
        PROVE  /\ In(event_queue', d) => In(event_queue, d)
               /\ Once(event_queue', d)
    BY <2>1, <2>3, PushedEvents
  <2>4. Match(event_queue', requested_state', pending_terminal_action')
    BY <2>2, <2>3 DEF Match, requestVars
  <2>5. QED BY <2>4 DEF RequestEventsMatch, Match, AtMostOnce, Queued, In, Once
<1>3. QED BY <1>1, <1>2

(* Every step but those of the handlers, the two requests and the restart    *)
(* leaves the requests alone and pushes at most one such event.              *)
LEMMA QuietSteps ==
  ASSUME TypeOK,
         \/ ButtonEdge \/ VbusEdge \/ VbusTriggered \/ HoldTimer \/ AdvTimeout
         \/ ConfigTimer \/ RunModeTask \/ UpdateReturns \/ Settle \/ RecheckPush
         \/ NextEvent \/ Radio \/ BleTask \/ RunConfigTask \/ UNCHANGED vars
  PROVE  /\ UNCHANGED requestVars
         /\ \/ UNCHANGED <<event_queue, overflowed>>
            \/ \E e \in Events \ {"REQUEST_STATE", "TERMINAL_ACTION"} : PushQueue(e)
<1> USE DEF queueVars
<1>1. {"BUTTON_PRESSED", "BUTTON_RELEASED", "TIMER", "VBUS_HIGH", "VBUS_LOW",
       "FORCE_UPDATE"} \subseteq Events \ {"REQUEST_STATE", "TERMINAL_ACTION"}
  BY DEF Events
<1>2. CASE ButtonEdge \/ VbusEdge \/ VbusTriggered \/ HoldTimer
  BY <1>1, <1>2 DEF ButtonEdge, VbusEdge, VbusTriggered, HoldTimer
<1>3. CASE AdvTimeout \/ ConfigTimer \/ RunConfigTask
  BY <1>1, <1>3 DEF AdvTimeout, ConfigTimer, RunConfigTask, FromAdv
<1>4. CASE RunModeTask \/ UpdateReturns \/ Settle \/ RecheckPush \/ NextEvent
  BY <1>1, <1>4 DEF RunModeTask, UpdateReturns, Settle, RecheckPush, NextEvent
<1>5. CASE Radio
  BY <1>1, <1>5 DEF Radio, BleInitialised, AdvBegin, AdvStopped, AdvRestart,
     AdvCounted, AdvStarted, BondsCleared, NameUpdated, FromAdv
<1>6. CASE BleTask
  BY <1>1, <1>6 DEF BleTask, RunAdvUpdate, Connected, Disconnected,
     BleTaskReturns, FromAdv
<1>7. CASE UNCHANGED vars
  BY <1>7 DEF vars
<1>8. QED BY <1>2, <1>3, <1>4, <1>5, <1>6, <1>7

LEMMA MatchRemote ==
  ASSUME TypeOK, RequestEventsMatch, Remote
  PROVE  RequestEventsMatch'
<1> DEFINE q == event_queue  r == requested_state  t == pending_terminal_action
<1>1. Match(q, r, t) /\ q \in Seq(Events)
  BY MatchIsRequestEventsMatch DEF TypeOK
<1>2. {"REQUEST_STATE", "TERMINAL_ACTION"} \subseteq Events
  BY DEF Events
<1>3. PICK e \in {"REQUEST_STATE", "TERMINAL_ACTION"} :
        /\ q' = Pushed(q, e) /\ r = "NONE" /\ t = "NONE"
        /\ e = "REQUEST_STATE" => r' # "NONE" /\ t' = "NONE"
        /\ e = "TERMINAL_ACTION" => r' = "NONE" /\ t' # "NONE"
  BY DEF Remote, RequestState, RequestTerminalAction, HasPendingRequest,
         PushQueue, PushOn, Modes, Actions
<1>4. ASSUME NEW d \in {"REQUEST_STATE", "TERMINAL_ACTION"}
      PROVE  Once(q', d) /\ (In(q', d) => d = e)
  <2>1. Once(q, d) /\ ~In(q, d) /\ ~In(q, e)
    BY <1>1, <1>3 DEF Match
  <2>2. QED BY <1>1, <1>2, <1>3, <2>1, PushedEvents
<1>5. Match(q', r', t')
  BY <1>3, <1>4 DEF Match
<1>6. QED BY <1>5 DEF RequestEventsMatch, Match, AtMostOnce, Queued, In, Once

LEMMA MatchBoot ==
  ASSUME NEW v \in BOOLEAN
  PROVE  Match(BootQueue(v), "NONE", "NONE")
<1>1. CASE v
  BY <1>1 DEF BootQueue, Match, In, Once
<1>2. CASE ~v
  BY <1>2 DEF BootQueue, Match, In, Once
<1>3. QED BY <1>1, <1>2

LEMMA MatchInit == Init => RequestEventsMatch
<1>1. ASSUME Init PROVE Match(event_queue, requested_state, pending_terminal_action)
  BY <1>1, MatchBoot DEF Init
<1>2. QED BY <1>1, MatchIsRequestEventsMatch

LEMMA MatchNext == TypeOK /\ RequestEventsMatch /\ [Next]_vars => RequestEventsMatch'
<1>1. ASSUME TypeOK, RequestEventsMatch, [Next]_vars
      PROVE  RequestEventsMatch'
  <2>1. CASE SleepHandler \/ HeldHandler \/ BriefHandler \/ UsbHandler
    BY <1>1, <2>1, MatchHandler
  <2>2. CASE Remote
    BY <1>1, <2>2, MatchRemote
  <2>3. CASE TerminalReset
    <3>1. Match(event_queue', requested_state', pending_terminal_action')
      BY <1>1, <2>3, MatchBoot DEF TerminalReset, TypeOK
    <3>2. QED BY <3>1 DEF RequestEventsMatch, Match, AtMostOnce, Queued, In, Once
  <2>4. CASE \/ ButtonEdge \/ VbusEdge \/ VbusTriggered \/ HoldTimer \/ AdvTimeout
             \/ ConfigTimer \/ RunModeTask \/ UpdateReturns \/ Settle
             \/ RecheckPush \/ NextEvent \/ Radio \/ BleTask \/ RunConfigTask
             \/ UNCHANGED vars
    <3>1. "TIMER" \in Events \ {"REQUEST_STATE", "TERMINAL_ACTION"}
      BY DEF Events
    <3>2. QED BY <1>1, <2>4, <3>1, QuietSteps, MatchQuiet
  <2>5. QED BY <1>1, <2>1, <2>2, <2>3, <2>4 DEF Next, Interrupt, ModeTask
<1>2. QED BY <1>1

(* No request event outlives its request or is queued twice, whatever the    *)
(* length of the queue, the nesting of FS_Mode_Update and the events lost.   *)
THEOREM RequestEventsAlwaysMatch == Spec => []RequestEventsMatch
<1>1. Init => TypeOK /\ RequestEventsMatch
  BY TypeInit, MatchInit
<1>2. TypeOK /\ RequestEventsMatch /\ [Next]_vars => (TypeOK /\ RequestEventsMatch)'
  BY TypeNext, MatchNext
<1>3. QED BY <1>1, <1>2, PTL DEF Spec

-----------------------------------------------------------------------------
(* The stack discipline, and who carries out a pending terminal action. *)

(* The verdict on a frame that waits does not depend on the mode.            *)
LEMMA WaitingResolves ==
  ASSUME NEW f, f.pc \in WaitPoints, NEW m, Resolves(f, m), NEW n
  PROVE  Resolves(f, n)
BY DEF Resolves, WaitPoints

(* A task starts on top of the stack. *)
LEMMA AppendShape ==
  ASSUME NEW s \in Seq(Frames), Shape(s), NEW g \in Frames, Proper(g),
         s # <<>> => s[Len(s)].pc \in WaitPoints
  PROVE  /\ Shape(Append(s, g))
         /\ \A m : Resolved(s, m) => Resolved(Append(s, g), m)
<1>1. /\ DOMAIN s = 1 .. Len(s) /\ Len(s) \in Nat
      /\ Len(Append(s, g)) = Len(s) + 1
      /\ DOMAIN Append(s, g) = 1 .. Len(s) + 1
      /\ \A i \in 1 .. Len(s) : Append(s, g)[i] = s[i]
      /\ Append(s, g)[Len(s) + 1] = g
  BY AppendProperties
<1>2. \A i \in 1 .. Len(s) : s[i].pc \in WaitPoints
  <2>1. CASE s = <<>>
    BY <1>1, <2>1
  <2>2. CASE s # <<>>
    BY <1>1, <2>2 DEF Shape
  <2>3. QED BY <2>1, <2>2
<1>3. QED BY <1>1, <1>2 DEF Shape, Resolved

(* The innermost frame moves on. *)
LEMMA ReplaceShape ==
  ASSUME NEW s \in Seq(Frames), Shape(s), s # <<>>, NEW g \in Frames, Proper(g),
         NEW t \in Seq(Frames), Len(t) = Len(s), t[Len(s)] = g,
         \A i \in 1 .. Len(s) - 1 : t[i] = s[i]
  PROVE  /\ Shape(t)
         /\ \A m, n : Resolved(s, m) /\ (Resolves(s[Len(s)], m) => Resolves(g, n))
                        => Resolved(t, n)
<1>1. /\ Len(s) \in Nat \ {0} /\ DOMAIN s = 1 .. Len(s) /\ DOMAIN t = 1 .. Len(s)
  BY EmptySeq
<1>2. Shape(t)
  BY <1>1 DEF Shape
<1>3. ASSUME NEW m, NEW n, NEW i \in DOMAIN s, Resolves(s[i], m),
             Resolves(s[Len(s)], m) => Resolves(g, n)
      PROVE  Resolved(t, n)
  <2>1. CASE i = Len(s)
    BY <1>1, <1>3, <2>1 DEF Resolved
  <2>2. CASE i # Len(s)
    <3>1. i \in 1 .. Len(s) - 1 /\ s[i].pc \in WaitPoints
      BY <1>1, <2>2 DEF Shape
    <3>2. Resolves(t[i], n)
      BY <1>3, <3>1, WaitingResolves
    <3>3. QED BY <1>1, <3>2 DEF Resolved
  <2>3. QED BY <2>1, <2>2
<1>4. QED BY <1>2, <1>3 DEF Resolved

(* The innermost run ends. *)
LEMMA RemoveShape ==
  ASSUME NEW s \in Seq(Frames), Shape(s), s # <<>>
  PROVE  /\ Shape(SubSeq(s, 1, Len(s) - 1))
         /\ \A m : Resolved(s, m) /\ ~Resolves(s[Len(s)], m)
                     => Resolved(SubSeq(s, 1, Len(s) - 1), m)
<1> DEFINE t == SubSeq(s, 1, Len(s) - 1)
<1>1. /\ Len(s) \in Nat \ {0} /\ DOMAIN s = 1 .. Len(s)
      /\ Len(t) = Len(s) - 1 /\ DOMAIN t = 1 .. Len(s) - 1
      /\ \A i \in 1 .. Len(s) - 1 : t[i] = s[i]
  BY TopRemoved, EmptySeq
<1> HIDE DEF t
<1>2. Shape(t)
  BY <1>1 DEF Shape
<1>3. ASSUME NEW m, NEW i \in DOMAIN s, Resolves(s[i], m), ~Resolves(s[Len(s)], m)
      PROVE  Resolved(t, m)
  <2>1. i \in 1 .. Len(s) - 1
    BY <1>1, <1>3
  <2>2. QED BY <1>1, <1>3, <2>1 DEF Resolved
<1>4. QED BY <1>2, <1>3 DEF Resolved, t

(* Where a handler leaves its frame; one that has taken TERMINAL_ACTION is    *)
(* on its way to SLEEP.                                                      *)
HandlerFrame(g) ==
  /\ g \in Frames /\ Proper(g)
  /\ stack' \in Seq(Frames) /\ Len(stack') = Len(stack)
  /\ stack'[Len(stack)] = g
  /\ \A i \in 1 .. Len(stack) - 1 : stack'[i] = stack[i]
  /\ Head(event_queue) = "TERMINAL_ACTION" /\ mode_state # "USB" =>
       Resolves(g, mode_state)

LEMMA PlainFrame ==
  ASSUME TypeOK, Shape(stack), stack # <<>>, event_queue # <<>>,
         Top.pc = "loop", NEW pc \in {"settle", "clearing", "naming"},
         NEW next \in Modes, Handler(pc, next),
         Head(event_queue) = "TERMINAL_ACTION" /\ mode_state # "USB" =>
           next = "SLEEP" /\ (mode_state = "SLEEP" => pc = "settle")
  PROVE  \E g : HandlerFrame(g)
<1> DEFINE g == [Top EXCEPT !.pc = pc, !.event = Head(event_queue),
                            !.old = mode_state, !.next = next]
<1>1. /\ stack' \in Seq(Frames) /\ Len(stack') = Len(stack)
      /\ stack'[Len(stack)] = g
      /\ \A i \in 1 .. Len(stack) - 1 : stack'[i] = stack[i]
  BY HandlerType, PointsType
<1>2. Top \in Frames /\ Proper(Top)
  BY TopIsFrame, EmptySeq DEF Shape, Top, TypeOK
<1>3. Top.task = "mode" /\ Top.then # "done"
  BY <1>2 DEF Proper
<1>4. Head(event_queue) \in Events /\ mode_state \in Modes
  BY HeadTailProperties DEF TypeOK
<1>5. g \in Frames
  BY <1>2, <1>4 DEF Frames, WaitPoints, OtherPoints
<1>6. /\ g.task = "mode" /\ g.pc = pc /\ g.event = Head(event_queue)
      /\ g.old = mode_state /\ g.next = next /\ g.then = Top.then
  BY <1>2, <1>3 DEF Frames
<1> HIDE DEF g
<1>7. Proper(g)
  BY <1>3, <1>6 DEF Proper
<1>8. Head(event_queue) = "TERMINAL_ACTION" /\ mode_state # "USB" =>
        Resolves(g, mode_state)
  BY <1>6 DEF Resolves, InHandler
<1>9. QED BY <1>1, <1>5, <1>7, <1>8 DEF HandlerFrame

LEMMA AdvertisingFrame ==
  ASSUME TypeOK, Shape(stack), stack # <<>>, event_queue # <<>>,
         Top.pc = "loop", NEW status \in AdvStatus,
         NEW next \in Modes, HandlerAdvertises(status, next),
         Head(event_queue) = "TERMINAL_ACTION" =>
           next = "SLEEP" /\ mode_state # "SLEEP"
  PROVE  \E g : HandlerFrame(g)
<1> DEFINE g == [Top EXCEPT !.pc = "advertise", !.event = Head(event_queue),
                            !.old = mode_state, !.next = next,
                            !.adv = status, !.then = "settle"]
<1>1. /\ stack' \in Seq(Frames) /\ Len(stack') = Len(stack)
      /\ stack'[Len(stack)] = g
      /\ \A i \in 1 .. Len(stack) - 1 : stack'[i] = stack[i]
  BY HandlerAdvertisesType
<1>2. Top \in Frames /\ Proper(Top)
  BY TopIsFrame, EmptySeq DEF Shape, Top, TypeOK
<1>3. Top.task = "mode"
  BY <1>2 DEF Proper
<1>4. Head(event_queue) \in Events /\ mode_state \in Modes
  BY HeadTailProperties DEF TypeOK
<1>5. g \in Frames
  BY <1>2, <1>4 DEF Frames, WaitPoints, OtherPoints
<1>6. /\ g.task = "mode" /\ g.pc = "advertise" /\ g.event = Head(event_queue)
      /\ g.old = mode_state /\ g.next = next /\ g.then = "settle"
  BY <1>2, <1>3 DEF Frames
<1> HIDE DEF g
<1>7. Proper(g)
  BY <1>6 DEF Proper
<1>8. Head(event_queue) = "TERMINAL_ACTION" /\ mode_state # "USB" =>
        Resolves(g, mode_state)
  BY <1>6 DEF Resolves, InHandler
<1>9. QED BY <1>1, <1>5, <1>7, <1>8 DEF HandlerFrame

LEMMA HandlerStep ==
  ASSUME TypeOK, Shape(stack),
         SleepHandler \/ HeldHandler \/ BriefHandler \/ UsbHandler
  PROVE  \E g : HandlerFrame(g)
<1> USE DEF Event, At
<1>0. stack # <<>> /\ Top.pc = "loop" /\ event_queue # <<>>
  BY HandlerQueue
<1> DEFINE terminal == Head(event_queue) = "TERMINAL_ACTION"
<1>1. {"SLEEP", "ACTIVE", "START", "USB", "CONFIG", "PAIRING"} \subseteq Modes
      /\ {"FAST", "LP"} \subseteq AdvStatus /\ DefaultMode \in Modes
      /\ mode_state \in Modes
  BY ConfigurationAssumption DEF Modes, AdvStatus, TypeOK
<1>2. ASSUME NEW m \in Modes, Enter(m), ~terminal
      PROVE  \E g : HandlerFrame(g)
  <2>1. Handler("settle", m) \/ HandlerAdvertises("FAST", "PAIRING")
    BY <1>2 DEF Enter, EnterPlain, EnterConfig, EnterPairing
  <2>2. QED BY <1>0, <1>1, <1>2, <2>1, PlainFrame, AdvertisingFrame
<1>3. ASSUME NEW m, Leave(m), mode_state # "SLEEP"
      PROVE  \E g : HandlerFrame(g)
  <2>1. Handler("settle", "SLEEP") \/ HandlerAdvertises("LP", "SLEEP")
    BY <1>3 DEF Leave, LeavePlain, LeaveConfig, LeavePairing
  <2>2. QED BY <1>0, <1>1, <1>3, <2>1, PlainFrame, AdvertisingFrame
<1>4. ASSUME Stay, ~terminal \/ mode_state = "SLEEP" \/ mode_state = "USB"
      PROVE  \E g : HandlerFrame(g)
  BY <1>0, <1>1, <1>4, PlainFrame DEF Stay
<1>5. CASE SleepHandler
  <2>1. CASE SleepIgnores
    BY <1>4, <2>1 DEF SleepIgnores
  <2>2. CASE SleepRequest
    <3>1. requested_state \notin {"NONE", "SLEEP"} => requested_state \in Modes
      BY DEF TypeOK
    <3>2. QED BY <1>2, <1>4, <2>2, <3>1 DEF SleepRequest
  <2>3. QED BY <1>1, <1>2, <1>4, <1>5, <2>1, <2>2 DEF SleepHandler,
               SleepPressed, SleepReleased, SleepTimer, SleepVbusHigh
<1>6. CASE HeldHandler
  BY <1>3, <1>4, <1>6 DEF HeldHandler, HeldPressed, HeldReleased, HeldTimer,
     HeldRequest, HeldTerminalAction, HeldIgnores, Held
<1>7. CASE BriefHandler
  BY <1>3, <1>4, <1>7 DEF BriefHandler, BriefEnds, BriefRequest, BriefIgnores,
     Brief
<1>8. CASE UsbHandler
  <2>1. CASE UsbVbusLow
    <3>1. mode_state = "USB" /\ \E pc \in {"clearing", "naming"} : Handler(pc, "SLEEP")
      BY <2>1 DEF UsbVbusLow, LeaveUsb
    <3>2. QED BY <1>0, <1>1, <3>1, PlainFrame
  <2>2. QED BY <1>4, <1>8, <2>1 DEF UsbHandler, UsbRequest, UsbTerminalAction,
               UsbIgnores
<1>9. QED BY <1>5, <1>6, <1>7, <1>8

(* The innermost frame becomes g, in the mode the step leads to.             *)
TopBecomes(g) ==
  /\ g \in Frames /\ Proper(g)
  /\ stack' \in Seq(Frames) /\ Len(stack') = Len(stack)
  /\ stack'[Len(stack)] = g
  /\ \A i \in 1 .. Len(stack) - 1 : stack'[i] = stack[i]
  /\ Resolves(Top, mode_state) => Resolves(g, mode_state')

StaysResolved == Resolved(stack, mode_state) => Resolved(stack, mode_state)'

LEMMA TopStep ==
  ASSUME TypeOK, Shape(stack), stack # <<>>, NEW g, TopBecomes(g)
  PROVE  Shape(stack)' /\ StaysResolved
<1>1. stack \in Seq(Frames) /\ stack' \in Seq(Frames)
  BY DEF TypeOK, TopBecomes
<1>2. Shape(stack')
  BY <1>1, ReplaceShape DEF TopBecomes
<1>3. ASSUME Resolved(stack, mode_state) PROVE Resolved(stack', mode_state')
  <2>1. Resolves(stack[Len(stack)], mode_state) => Resolves(g, mode_state')
    BY DEF TopBecomes, Top
  <2>2. QED BY <1>1, <1>3, <2>1, ReplaceShape DEF TopBecomes
<1>4. QED BY <1>2, <1>3 DEF StaysResolved

LEMMA GoToStep ==
  ASSUME TypeOK, Shape(stack), stack # <<>>, NEW pc \in Points, GoTo(pc),
         Proper([Top EXCEPT !.pc = pc]),
         Resolves(Top, mode_state) => Resolves([Top EXCEPT !.pc = pc], mode_state')
  PROVE  Shape(stack)' /\ StaysResolved
<1>1. [Top EXCEPT !.pc = pc] \in Frames
  BY TopIsFrame DEF Frames, Points
<1>2. TopBecomes([Top EXCEPT !.pc = pc])
  BY <1>1, GoToType DEF TopBecomes
<1>3. QED BY <1>2, TopStep

(* A step inside FS_Adv_Request, or out of it.                               *)
LEMMA AdvPath ==
  ASSUME TypeOK, Shape(stack), stack # <<>>, mode_state' = mode_state,
         Top.pc \in {"advertise", "booting", "stopping", "restart", "counting",
                     "starting"},
         NEW pc, GoTo(pc),
         pc \in {"advertise", "stopping", "restart", "counting", "starting",
                 Top.then}
  PROVE  Shape(stack)' /\ StaysResolved
<1>1. Top \in Frames /\ Proper(Top)
  BY TopIsFrame, EmptySeq DEF Shape, Top, TypeOK
<1>2. pc \in Points
  BY <1>1 DEF Frames, Points, WaitPoints, OtherPoints
<1> DEFINE g == [Top EXCEPT !.pc = pc]
<1>3. /\ g.pc = pc /\ g.task = Top.task /\ g.then = Top.then
      /\ g.event = Top.event /\ g.old = Top.old /\ g.next = Top.next
  BY <1>1 DEF Frames
<1>4. Top.then \in {"settle", "naming", "done"}
  BY <1>1 DEF Frames
<1> HIDE DEF g
<1>5. Proper(g)
  BY <1>1, <1>3, <1>4 DEF Proper
<1>6. Resolves(Top, mode_state) => Resolves(g, mode_state)
  BY <1>3, <1>4 DEF Resolves, InHandler
<1>7. QED BY <1>2, <1>5, <1>6, GoToStep DEF g

LEMMA StackRadio ==
  ASSUME TypeOK, Shape(stack), Radio
  PROVE  Shape(stack)' /\ StaysResolved
<1> USE DEF At, FromAdv
<1>0. stack # <<>> /\ mode_state' = mode_state
  BY DEF Radio, BleInitialised, AdvBegin, AdvStopped, AdvRestart, AdvCounted,
         AdvStarted, BondsCleared, NameUpdated
<1>1. Top \in Frames /\ Proper(Top)
  BY <1>0, TopIsFrame, EmptySeq DEF Shape, Top, TypeOK
<1>2. CASE BondsCleared
  <2> DEFINE g == [Top EXCEPT !.pc = "advertise", !.adv = adv, !.then = "naming"]
  <2>1. g \in Frames
    BY <1>1 DEF Frames, OtherPoints, TypeOK
  <2>2. stack' = [stack EXCEPT ![Len(stack)] = g]
    BY <1>2 DEF BondsCleared, Top
  <2>3. /\ stack' \in Seq(Frames) /\ Len(stack') = Len(stack)
        /\ stack'[Len(stack)] = g
        /\ \A i \in 1 .. Len(stack) - 1 : stack'[i] = stack[i]
    <3> HIDE DEF g
    <3>1. QED BY <1>0, <2>1, <2>2, TopReplaced DEF TypeOK
  <2>4. /\ g.pc = "advertise" /\ g.task = Top.task /\ g.then = "naming"
        /\ g.event = Top.event /\ g.old = Top.old /\ g.next = Top.next
    BY <1>1 DEF Frames
  <2>5. Top.pc = "clearing"
    BY <1>2 DEF BondsCleared
  <2> HIDE DEF g
  <2>6. Proper(g) /\ (Resolves(Top, mode_state) => Resolves(g, mode_state))
    BY <1>1, <2>4, <2>5 DEF Proper, Resolves, InHandler
  <2>7. QED BY <1>0, <2>1, <2>3, <2>6, TopStep DEF TopBecomes
<1>3. CASE NameUpdated
  <2> DEFINE g == [Top EXCEPT !.pc = "settle"]
  <2>1. /\ g.pc = "settle" /\ g.task = Top.task /\ g.then = Top.then
        /\ g.event = Top.event /\ g.old = Top.old /\ g.next = Top.next
    BY <1>1 DEF Frames
  <2>2. Top.pc = "naming"
    BY <1>3 DEF NameUpdated
  <2> HIDE DEF g
  <2>3. Proper(g) /\ (Resolves(Top, mode_state) => Resolves(g, mode_state))
    BY <1>1, <2>1, <2>2 DEF Proper, Resolves, InHandler
  <2>4. QED BY <1>0, <1>3, <2>3, GoToStep, PointsType DEF NameUpdated, g
<1>4. CASE BleInitialised \/ AdvStopped \/ AdvRestart \/ AdvCounted
  BY <1>0, <1>4, AdvPath DEF BleInitialised, AdvStopped, AdvRestart, AdvCounted
<1>5. CASE AdvBegin
  <2>1. \E pc \in {"stopping", "restart", Top.then} : GoTo(pc)
    BY <1>5 DEF AdvBegin
  <2>2. QED BY <1>0, <1>5, <2>1, AdvPath DEF AdvBegin
<1>6. CASE AdvStarted
  BY <1>0, <1>6, AdvPath DEF AdvStarted
<1>7. QED BY <1>2, <1>3, <1>4, <1>5, <1>6 DEF Radio

LEMMA StackHandler ==
  ASSUME TypeOK, Shape(stack),
         SleepHandler \/ HeldHandler \/ BriefHandler \/ UsbHandler
  PROVE  /\ Shape(stack)' /\ StaysResolved
         /\ Head(event_queue) = "TERMINAL_ACTION" /\ mode_state # "USB" =>
              Resolved(stack, mode_state)'
<1>1. stack # <<>> /\ Top.pc = "loop" /\ mode_state' = mode_state
  BY HandlerQueue, HandlerStepTyped
<1>2. PICK g : HandlerFrame(g)
  BY HandlerStep
<1>3. ~Resolves(Top, mode_state)
  BY <1>1 DEF Resolves, InHandler
<1>4. TopBecomes(g)
  BY <1>2, <1>3 DEF HandlerFrame, TopBecomes
<1>5. Shape(stack)' /\ StaysResolved
  BY <1>1, <1>4, TopStep
<1>6. ASSUME Resolves(g, mode_state) PROVE Resolved(stack', mode_state')
  <2>1. Len(stack) \in DOMAIN stack'
    BY <1>1, <1>2, EmptySeq DEF HandlerFrame, TypeOK
  <2>2. QED BY <1>1, <1>2, <1>6, <2>1 DEF HandlerFrame, Resolved
<1>7. QED BY <1>2, <1>5, <1>6 DEF HandlerFrame

(* A task starts. *)
LEMMA StackAppend ==
  ASSUME TypeOK, Shape(stack), mode_state' = mode_state,
         stack # <<>> => Top.pc \in WaitPoints,
         NEW g \in Frames, Proper(g), stack' = Append(stack, g)
  PROVE  Shape(stack)' /\ StaysResolved
BY AppendShape DEF TypeOK, StaysResolved, Top

(* A task that is not handling a terminal action returns. *)
LEMMA StackReturn ==
  ASSUME TypeOK, Shape(stack), mode_state' = mode_state, stack # <<>>,
         ~Resolves(Top, mode_state), Return
  PROVE  Shape(stack)' /\ StaysResolved
BY RemoveShape DEF TypeOK, StaysResolved, Top, Return

(* NextEvent leaves a frame that handled a terminal action only when the     *)
(* action is no longer pending.                                              *)
LEMMA StackLoop ==
  ASSUME TypeOK, Shape(stack),
         RunModeTask \/ UpdateReturns \/ Settle \/ RecheckPush \/ NextEvent
  PROVE  Shape(stack)' /\ (pending_terminal_action # "NONE" => StaysResolved)
<1> USE DEF At
<1>0. ASSUME stack # <<>> PROVE Top \in Frames /\ Proper(Top)
  BY <1>0, TopIsFrame, EmptySeq DEF Shape, Top, TypeOK
<1>1. UpdateFrame \in Frames /\ Proper(UpdateFrame)
  BY UpdateFrameType DEF UpdateFrame, Proper
<1>2. CASE RunModeTask
  BY <1>1, <1>2, StackAppend DEF RunModeTask, CanRunTask
<1>3. CASE UpdateReturns
  <2>1. ~Resolves(Top, mode_state)
    BY <1>3 DEF UpdateReturns, Resolves, InHandler
  <2>2. QED BY <1>3, <2>1, StackReturn DEF UpdateReturns
<1>4. CASE Settle
  <2>1. PICK pc \in {"recheck", "final"} : GoTo(pc)
    BY <1>4 DEF Settle
  <2> DEFINE g == [Top EXCEPT !.pc = pc]
  <2>2. stack # <<>> /\ Top.pc = "settle"
    BY <1>4 DEF Settle
  <2>3. /\ g.pc = pc /\ g.task = Top.task /\ g.then = Top.then
        /\ g.event = Top.event /\ g.old = Top.old /\ g.next = Top.next
    BY <1>0, <2>2 DEF Frames
  <2>4. mode_state' = IF Top.next # Top.old THEN Top.next ELSE mode_state
    BY <1>4 DEF Settle
  <2> HIDE DEF g
  <2>5. Proper(g) /\ (Resolves(Top, mode_state) => Resolves(g, mode_state'))
    BY <1>0, <2>1, <2>2, <2>3, <2>4 DEF Proper, Resolves, InHandler
  <2>6. QED BY <2>1, <2>2, <2>5, GoToStep, PointsType DEF g
<1>5. CASE RecheckPush
  <2> DEFINE g == [Top EXCEPT !.pc = "final"]
  <2>1. stack # <<>> /\ Top.pc = "recheck" /\ GoTo("final")
    BY <1>5 DEF RecheckPush
  <2>2. /\ g.pc = "final" /\ g.task = Top.task /\ g.then = Top.then
        /\ g.event = Top.event /\ g.old = Top.old /\ g.next = Top.next
    BY <1>0, <2>1 DEF Frames
  <2>3. mode_state' = mode_state
    BY <1>5 DEF RecheckPush
  <2> HIDE DEF g
  <2>4. Proper(g) /\ (Resolves(Top, mode_state) => Resolves(g, mode_state'))
    BY <1>0, <2>1, <2>2, <2>3 DEF Proper, Resolves, InHandler
  <2>5. QED BY <2>1, <2>4, GoToStep, PointsType DEF g
<1>6. CASE NextEvent
  <2>1. /\ stack # <<>> /\ Top.pc = "final" /\ mode_state' = mode_state
        /\ stack' = [stack EXCEPT ![Len(stack)] = UpdateFrame]
        /\ ~(pending_terminal_action # "NONE" /\ mode_state = "SLEEP")
    BY <1>6 DEF NextEvent
  <2>2. stack \in Seq(Frames)
    BY DEF TypeOK
  <2>3. /\ stack' \in Seq(Frames) /\ Len(stack') = Len(stack)
        /\ stack'[Len(stack)] = UpdateFrame
        /\ \A i \in 1 .. Len(stack) - 1 : stack'[i] = stack[i]
    BY <1>1, <2>1, <2>2, TopReplaced
  <2>4. Shape(stack')
    BY <1>1, <2>1, <2>2, <2>3, ReplaceShape
  <2>5. ASSUME pending_terminal_action # "NONE" PROVE StaysResolved
    <3>1. ~Resolves(Top, mode_state)
      BY <2>1, <2>5 DEF Resolves
    <3>2. TopBecomes(UpdateFrame)
      BY <1>1, <2>3, <3>1 DEF TopBecomes
    <3>3. QED BY <2>1, <3>2, TopStep
  <2>6. QED BY <2>4, <2>5
<1>7. QED BY <1>2, <1>3, <1>4, <1>5, <1>6

LEMMA StackBleTask ==
  ASSUME TypeOK, Shape(stack), BleTask
  PROVE  Shape(stack)' /\ StaysResolved
<1> USE DEF At, FromAdv, CanRunHciTask
<1>1. \A status \in {"LP", "FAST"} :
        /\ BleFrame("advertise", status) \in Frames
        /\ Proper(BleFrame("advertise", status))
  <2>1. {"LP", "FAST"} \subseteq AdvStatus /\ "advertise" \in Points
    BY PointsType DEF AdvStatus
  <2>2. QED BY <2>1, BleFrameType DEF Proper, BleFrame
<1>2. CASE RunAdvUpdate
  BY <1>1, <1>2, StackAppend DEF RunAdvUpdate
<1>3. CASE Connected
  BY <1>3 DEF Connected, StaysResolved
<1>4. CASE Disconnected
  BY <1>1, <1>4, StackAppend DEF Disconnected, StaysResolved
<1>5. CASE BleTaskReturns
  <2>1. stack # <<>> /\ Top.pc = "done"
    BY <1>5 DEF BleTaskReturns
  <2>2. Proper(Top)
    BY <2>1, EmptySeq DEF Shape, Top, TypeOK
  <2>3. ~Resolves(Top, mode_state)
    BY <2>1, <2>2 DEF Proper, Resolves, InHandler
  <2>4. QED BY <1>5, <2>1, <2>3, StackReturn DEF BleTaskReturns
<1>6. QED BY <1>2, <1>3, <1>4, <1>5 DEF BleTask

(* The remaining steps leave the stack and the mode alone.                   *)
LEMMA StackOther ==
  ASSUME Shape(stack),
         \/ ButtonEdge \/ VbusEdge \/ VbusTriggered \/ HoldTimer \/ AdvTimeout
         \/ ConfigTimer \/ RunConfigTask \/ Remote \/ UNCHANGED vars
  PROVE  Shape(stack)' /\ StaysResolved
<1>1. stack' = stack /\ mode_state' = mode_state
  BY DEF ButtonEdge, VbusEdge, VbusTriggered, HoldTimer, AdvTimeout, FromAdv,
         ConfigTimer, RunConfigTask, Remote, RequestState,
         RequestTerminalAction, vars
<1>2. QED BY <1>1 DEF StaysResolved

LEMMA ShapeInit == Init => Shape(stack)
<1>1. ASSUME Init PROVE Shape(stack)
  BY <1>1 DEF Init, BootStack, BleFrame, Shape, Proper
<1>2. QED BY <1>1

LEMMA ShapeNext == TypeOK /\ Shape(stack) /\ [Next]_vars => Shape(stack)'
<1>1. ASSUME TypeOK, Shape(stack), [Next]_vars PROVE Shape(stack)'
  <2>1. CASE TerminalReset
    BY <2>1 DEF TerminalReset, BootStack, BleFrame, Shape, Proper
  <2>2. QED BY <1>1, <2>1, StackHandler, StackLoop, StackRadio, StackBleTask,
               StackOther DEF Next, Interrupt, ModeTask
<1>2. QED BY <1>1

LEMMA PushKeeps ==
  ASSUME TypeOK, NEW e \in Events, PushQueue(e), ~overflowed', NEW d
  PROVE  /\ ~overflowed
         /\ In(event_queue, d) => In(event_queue', d)
         /\ In(event_queue', e)
BY PushedEvents DEF TypeOK, PushQueue, PushOn

LEMMA PendingHandler ==
  ASSUME TypeOK, Shape(stack), PendingIsResolved,
         SleepHandler \/ HeldHandler \/ BriefHandler \/ UsbHandler
  PROVE  PendingIsResolved'
<1> DEFINE q == event_queue
<1>1. /\ q # <<>> /\ overflowed' = overflowed
      /\ q' = Tail(q) \/ q' = Append(Tail(q), "FORCE_UPDATE")
  BY HandlerQueue
<1>2. /\ requested_state' = IF Head(q) = "REQUEST_STATE"
                            THEN "NONE" ELSE requested_state
      /\ pending_terminal_action' =
           IF Head(q) = "TERMINAL_ACTION" /\ mode_state = "USB"
           THEN "NONE" ELSE pending_terminal_action
  BY HandlerRequests
<1>3. /\ StaysResolved
      /\ Head(q) = "TERMINAL_ACTION" /\ mode_state # "USB" =>
           Resolved(stack', mode_state')
  BY StackHandler
<1>4. ASSUME NEW d, In(q, d), Head(q) # d PROVE In(q', d)
  <2>1. q \in Seq(Events) /\ Tail(q) \in Seq(Events) /\ "FORCE_UPDATE" \in Events
    BY <1>1, HeadTailProperties DEF TypeOK, Events
  <2>2. In(Tail(q), d)
    BY <1>1, <1>4, <2>1, TailEvents
  <2>3. In(Append(Tail(q), "FORCE_UPDATE"), d)
    BY <2>1, <2>2, AppendEvents
  <2>4. QED BY <1>1, <2>2, <2>3
<1>5. ASSUME ~overflowed
      PROVE  /\ requested_state' # "NONE" => In(q', "REQUEST_STATE")
             /\ pending_terminal_action' # "NONE" =>
                  In(q', "TERMINAL_ACTION") \/ Resolved(stack', mode_state')
  <2>1. /\ requested_state # "NONE" => In(q, "REQUEST_STATE")
        /\ pending_terminal_action # "NONE" =>
             In(q, "TERMINAL_ACTION") \/ Resolved(stack, mode_state)
    BY <1>5 DEF PendingIsResolved, Queued, In
  <2>2. QED BY <1>2, <1>3, <1>4, <2>1 DEF StaysResolved
<1>6. QED BY <1>1, <1>5 DEF PendingIsResolved, Queued, In

LEMMA PendingQuiet ==
  ASSUME TypeOK, PendingIsResolved, UNCHANGED requestVars,
         pending_terminal_action # "NONE" => StaysResolved,
         \/ UNCHANGED <<event_queue, overflowed>>
         \/ \E e \in Events \ {"REQUEST_STATE", "TERMINAL_ACTION"} : PushQueue(e)
  PROVE  PendingIsResolved'
<1>1. ASSUME ~overflowed', NEW d
      PROVE  /\ ~overflowed
             /\ In(event_queue, d) => In(event_queue', d)
  <2>1. CASE UNCHANGED <<event_queue, overflowed>>
    BY <1>1, <2>1
  <2>2. CASE \E e \in Events \ {"REQUEST_STATE", "TERMINAL_ACTION"} : PushQueue(e)
    BY <1>1, <2>2, PushKeeps
  <2>3. QED BY <2>1, <2>2
<1>2. ASSUME ~overflowed'
      PROVE  /\ requested_state # "NONE" => In(event_queue', "REQUEST_STATE")
             /\ pending_terminal_action # "NONE" =>
                  In(event_queue', "TERMINAL_ACTION")
                  \/ Resolved(stack', mode_state')
  <2>1. /\ requested_state # "NONE" => In(event_queue, "REQUEST_STATE")
        /\ pending_terminal_action # "NONE" =>
             In(event_queue, "TERMINAL_ACTION") \/ Resolved(stack, mode_state)
    BY <1>1, <1>2 DEF PendingIsResolved, Queued, In
  <2>2. QED BY <1>1, <1>2, <2>1 DEF StaysResolved
<1>3. QED BY <1>2 DEF PendingIsResolved, Queued, In, requestVars

LEMMA PendingRemote ==
  ASSUME TypeOK, PendingIsResolved, Remote
  PROVE  PendingIsResolved'
<1>1. {"REQUEST_STATE", "TERMINAL_ACTION"} \subseteq Events
  BY DEF Events
<1>2. ASSUME NEW target \in Modes, RequestState(target)
      PROVE  PendingIsResolved'
  <2>1. PushQueue("REQUEST_STATE") /\ pending_terminal_action' = "NONE"
    BY <1>2 DEF RequestState, HasPendingRequest
  <2>2. QED BY <1>1, <2>1, PushKeeps DEF PendingIsResolved, Queued, In
<1>3. ASSUME NEW action \in Actions, RequestTerminalAction(action)
      PROVE  PendingIsResolved'
  <2>1. PushQueue("TERMINAL_ACTION") /\ requested_state' = "NONE"
    BY <1>3 DEF RequestTerminalAction, HasPendingRequest
  <2>2. QED BY <1>1, <2>1, PushKeeps DEF PendingIsResolved, Queued, In
<1>4. QED BY <1>2, <1>3 DEF Remote

LEMMA PendingNext ==
  TypeOK /\ Shape(stack) /\ PendingIsResolved /\ [Next]_vars => PendingIsResolved'
<1>1. ASSUME TypeOK, Shape(stack), PendingIsResolved, [Next]_vars
      PROVE  PendingIsResolved'
  <2>1. CASE SleepHandler \/ HeldHandler \/ BriefHandler \/ UsbHandler
    BY <1>1, <2>1, PendingHandler
  <2>2. CASE Remote
    BY <1>1, <2>2, PendingRemote
  <2>3. CASE TerminalReset
    BY <2>3 DEF TerminalReset, PendingIsResolved
  <2>4. CASE \/ ButtonEdge \/ VbusEdge \/ VbusTriggered \/ HoldTimer \/ AdvTimeout
             \/ ConfigTimer \/ RunModeTask \/ UpdateReturns \/ Settle
             \/ RecheckPush \/ NextEvent \/ Radio \/ BleTask \/ RunConfigTask
             \/ UNCHANGED vars
    <3>1. pending_terminal_action # "NONE" => StaysResolved
      BY <1>1, <2>4, StackLoop, StackRadio, StackBleTask, StackOther
    <3>2. QED BY <1>1, <2>4, <3>1, QuietSteps, PendingQuiet
  <2>5. QED BY <1>1, <2>1, <2>2, <2>3, <2>4 DEF Next, Interrupt, ModeTask
<1>2. QED BY <1>1

LEMMA ResolvedIsHandling ==
  PendingIsResolved => PendingHasEvent
BY DEF PendingIsResolved, PendingHasEvent, Resolved, Resolves, HandlingTerminal

(* A pending request always has an event, or a run of FS_Mode_Update, that   *)
(* will resolve it, unless the queue has overflowed.                         *)
THEOREM PendingAlwaysHasEvent == Spec => []PendingHasEvent
<1>1. Init => IInv
  <2>1. Init => PendingIsResolved
    BY DEF Init, PendingIsResolved
  <2>2. QED BY <2>1, TypeInit, MatchInit, ShapeInit DEF IInv
<1>2. IInv /\ [Next]_vars => IInv'
  BY TypeNext, MatchNext, ShapeNext, PendingNext DEF IInv
<1>3. IInv => PendingHasEvent
  BY ResolvedIsHandling DEF IInv
<1>4. QED BY <1>1, <1>2, <1>3, PTL DEF Spec

(* The requests and their events match in every reachable state, whatever    *)
(* overflows and however FS_Mode_Update is nested.                           *)
THEOREM RequestsAlwaysMatch == Spec => []RequestsMatch
BY RequestEventsAlwaysMatch, PendingAlwaysHasEvent, PTL DEF RequestsMatch

-----------------------------------------------------------------------------
(* Which mode runs: LiveMatchesMode, the restart and VBUS. *)

(* The rest of the loop body has looked at the mode the handler returned.    *)
Settled(f) == f.pc \in {"recheck", "final"}

(* The mode that runs beside frame f when mode_state is m *)
Holds(f, m) == IF InHandler(f) /\ ~Settled(f) THEN f.next ELSE m

(* CurrentMode of a stack s and a mode m *)
ModeOf(s, m) ==
  LET running == {i \in DOMAIN s : InHandler(s[i])}
  IN  IF running = {} THEN m
      ELSE LET i == CHOOSE i \in running : TRUE
           IN  IF s[i].pc \in {"final", "recheck"} THEN m ELSE s[i].next

(* At most one run of FS_Mode_Update is on the stack, and its handler was    *)
(* called in the present mode.                                               *)
OneRun(s, m) ==
  /\ \A i, j \in DOMAIN s : s[i].task = "mode" /\ s[j].task = "mode" => i = j
  /\ \A i \in DOMAIN s : InHandler(s[i]) /\ ~Settled(s[i]) => s[i].old = m

(* The mode is left for SLEEP, and VBUS is still to be looked at again.      *)
GoesToSleep(f) ==
  /\ InHandler(f) /\ f.next = "SLEEP"
  /\ IF Settled(f) THEN f.pc = "recheck" ELSE f.old # "SLEEP"

Returning(s) == \E i \in DOMAIN s : GoesToSleep(s[i])

LiveFor(n) == [m \in Modes |-> IF m = n /\ m # "SLEEP" THEN 1 ELSE 0]

(* Each VBUS_HIGH in q is followed by a VBUS_LOW.                            *)
HighsEnd(q) ==
  \A i \in DOMAIN q : q[i] = "VBUS_HIGH" =>
    \E j \in DOMAIN q : j > i /\ q[j] = "VBUS_LOW"

(* With the cable in, the device is not asleep or will be woken; without it, *)
(* USB mode has a VBUS_LOW ahead, and so has each VBUS_HIGH.                 *)
CableKnown(v, n, q, returning) ==
  /\ v => n # "SLEEP" \/ In(q, "VBUS_HIGH") \/ returning
  /\ ~v => (n = "USB" => In(q, "VBUS_LOW")) /\ HighsEnd(q)

VbusInv ==
  ~overflowed /\ ~stale_recheck /\ ~vbus_irq =>
    CableKnown(vbus, ModeOf(stack, mode_state), event_queue, Returning(stack))

RunInv ==
  /\ requested_state # "USB"
  /\ ~reentered => /\ OneRun(stack, mode_state)
                   /\ live = LiveFor(ModeOf(stack, mode_state))
                   /\ VbusInv

LEMMA CurrentIsModeOf == CurrentMode = ModeOf(stack, mode_state)
BY DEF CurrentMode, ModeOf

(* The mode of a stack that holds one run of FS_Mode_Update, or none.        *)
LEMMA ModeOfRun ==
  ASSUME NEW s, NEW m, OneRun(s, m), NEW k \in DOMAIN s, s[k].task = "mode"
  PROVE  ModeOf(s, m) = Holds(s[k], m) /\ (Returning(s) <=> GoesToSleep(s[k]))
<1>1. \A i \in DOMAIN s : InHandler(s[i]) => i = k
  BY DEF OneRun, InHandler
<1>2. Returning(s) <=> GoesToSleep(s[k])
  BY <1>1 DEF Returning, GoesToSleep
<1>3. CASE InHandler(s[k])
  <2>1. {i \in DOMAIN s : InHandler(s[i])} = {k}
    BY <1>1, <1>3
  <2>2. (CHOOSE i \in {k} : TRUE) = k
    OBVIOUS
  <2> QED BY <1>2, <1>3, <2>1, <2>2 DEF ModeOf, Holds, Settled
<1>4. CASE ~InHandler(s[k])
  <2>1. {i \in DOMAIN s : InHandler(s[i])} = {}
    BY <1>1, <1>4
  <2> QED BY <1>2, <1>4, <2>1 DEF ModeOf, Holds
<1> QED BY <1>3, <1>4

LEMMA ModeOfIdle ==
  ASSUME NEW s, NEW m, \A i \in DOMAIN s : s[i].task # "mode"
  PROVE  ModeOf(s, m) = m /\ ~Returning(s) /\ OneRun(s, m)
<1>1. \A i \in DOMAIN s : ~InHandler(s[i])
  BY DEF InHandler
<1>2. {i \in DOMAIN s : InHandler(s[i])} = {}
  BY <1>1
<1> QED BY <1>1, <1>2 DEF ModeOf, Returning, GoesToSleep, OneRun

(* A task that has taken no event yet starts on top.                         *)
LEMMA RunAppended ==
  ASSUME NEW s \in Seq(Frames), NEW m, OneRun(s, m), NEW g \in Frames, ~InHandler(g),
         g.task = "mode" => \A i \in DOMAIN s : s[i].task # "mode"
  PROVE  /\ OneRun(Append(s, g), m) /\ ModeOf(Append(s, g), m) = ModeOf(s, m)
         /\ Returning(Append(s, g)) <=> Returning(s)
<1> DEFINE t == Append(s, g)
<1>1. /\ Len(s) \in Nat /\ DOMAIN s = 1 .. Len(s) /\ DOMAIN t = 1 .. Len(s) + 1
      /\ \A i \in 1 .. Len(s) : t[i] = s[i]
      /\ t[Len(s) + 1] = g
  BY AppendProperties
<1> HIDE DEF t
<1>2. DOMAIN s \subseteq DOMAIN t /\ Len(s) + 1 \in DOMAIN t
      /\ \A i \in DOMAIN t : i \in DOMAIN s \/ i = Len(s) + 1
  BY <1>1
<1>3. OneRun(t, m)
  BY <1>1, <1>2 DEF OneRun
<1>4. CASE \E k \in DOMAIN s : s[k].task = "mode"
  <2>1. PICK k \in DOMAIN s : s[k].task = "mode"
    BY <1>4
  <2>2. k \in DOMAIN t /\ t[k] = s[k]
    BY <1>1, <1>2, <2>1
  <2> QED BY <1>3, <2>1, <2>2, ModeOfRun DEF t
<1>5. CASE \A i \in DOMAIN s : s[i].task # "mode"
  <2>1. ModeOf(s, m) = m /\ ~Returning(s)
    BY <1>5, ModeOfIdle
  <2>2. CASE g.task = "mode"
    <3>1. ModeOf(t, m) = Holds(g, m) /\ (Returning(t) <=> GoesToSleep(g))
      BY <1>1, <1>2, <1>3, <2>2, ModeOfRun
    <3> QED BY <1>3, <2>1, <3>1 DEF Holds, GoesToSleep, t
  <2>3. CASE g.task # "mode"
    <3>1. \A i \in DOMAIN t : t[i].task # "mode"
      BY <1>1, <1>2, <1>5, <2>3
    <3> QED BY <1>3, <2>1, <3>1, ModeOfIdle DEF t
  <2> QED BY <2>2, <2>3
<1> QED BY <1>4, <1>5

(* The innermost run, which handles no event, ends.                          *)
LEMMA RunRemoved ==
  ASSUME NEW s \in Seq(Frames), NEW m, OneRun(s, m), s # <<>>, ~InHandler(s[Len(s)])
  PROVE  LET t == SubSeq(s, 1, Len(s) - 1)
         IN  OneRun(t, m) /\ ModeOf(t, m) = ModeOf(s, m) /\ (Returning(t) <=> Returning(s))
<1> DEFINE t == SubSeq(s, 1, Len(s) - 1)
<1>1. /\ Len(s) \in Nat \ {0} /\ DOMAIN s = 1 .. Len(s) /\ DOMAIN t = 1 .. Len(s) - 1
      /\ \A i \in 1 .. Len(s) - 1 : t[i] = s[i]
  BY TopRemoved, EmptySeq
<1> HIDE DEF t
<1>2. /\ DOMAIN t \subseteq DOMAIN s /\ Len(s) \in DOMAIN s /\ Len(s) \notin DOMAIN t
      /\ \A i \in DOMAIN s : i \in DOMAIN t \/ i = Len(s)
      /\ \A i \in DOMAIN t : t[i] = s[i]
  BY <1>1
<1>3. OneRun(t, m)
  BY <1>2 DEF OneRun
<1>4. CASE \E k \in DOMAIN t : t[k].task = "mode"
  <2>1. PICK k \in DOMAIN t : t[k].task = "mode"
    BY <1>4
  <2>2. k \in DOMAIN s /\ t[k] = s[k]
    BY <1>2, <2>1
  <2> QED BY <1>3, <2>1, <2>2, ModeOfRun DEF t
<1>5. CASE \A i \in DOMAIN t : t[i].task # "mode"
  <2>1. ModeOf(t, m) = m /\ ~Returning(t)
    BY <1>5, ModeOfIdle
  <2>2. CASE s[Len(s)].task = "mode"
    <3>1. ModeOf(s, m) = Holds(s[Len(s)], m) /\ (Returning(s) <=> GoesToSleep(s[Len(s)]))
      BY <1>2, <2>2, ModeOfRun
    <3> QED BY <1>3, <2>1, <3>1 DEF Holds, GoesToSleep, t
  <2>3. CASE s[Len(s)].task # "mode"
    <3>1. \A i \in DOMAIN s : s[i].task # "mode"
      BY <1>2, <1>5, <2>3
    <3> QED BY <1>3, <2>1, <3>1, ModeOfIdle DEF t
  <2> QED BY <2>2, <2>3
<1> QED BY <1>4, <1>5 DEF t

(* t is s but for its innermost frame.                                       *)
OnTop(s, t) ==
  /\ s \in Seq(Frames) /\ s # <<>> /\ t \in Seq(Frames) /\ Len(t) = Len(s)
  /\ \A i \in 1 .. Len(s) - 1 : t[i] = s[i]
  /\ t[Len(s)].task = s[Len(s)].task

(* The innermost run moves on, which may change the mode from m to n.        *)
LEMMA RunReplaced ==
  ASSUME NEW s, NEW t, OnTop(s, t), NEW m, NEW n, OneRun(s, m),
         s[Len(s)].task = "mode",
         InHandler(t[Len(s)]) /\ ~Settled(t[Len(s)]) => t[Len(s)].old = n
  PROVE  /\ OneRun(t, n)
         /\ ModeOf(s, m) = Holds(s[Len(s)], m) /\ ModeOf(t, n) = Holds(t[Len(s)], n)
         /\ Returning(s) <=> GoesToSleep(s[Len(s)])
         /\ Returning(t) <=> GoesToSleep(t[Len(s)])
<1>1. Len(s) \in Nat \ {0} /\ DOMAIN s = 1 .. Len(s) /\ DOMAIN t = 1 .. Len(s)
  BY EmptySeq DEF OnTop
<1>2. \A i \in DOMAIN t : i = Len(s) \/ (i \in DOMAIN s /\ t[i] = s[i])
  BY <1>1 DEF OnTop
<1>3. Len(s) \in DOMAIN s /\ Len(s) \in DOMAIN t
  BY <1>1
<1>4. \A i \in DOMAIN t : t[i].task = "mode" => i = Len(s)
  BY <1>2, <1>3 DEF OneRun
<1>5. OneRun(t, n)
  BY <1>4 DEF OneRun, InHandler
<1>6. t[Len(s)].task = "mode"
  BY DEF OnTop
<1> QED BY <1>3, <1>5, <1>6, ModeOfRun

LEMMA TaskReplaced ==
  ASSUME NEW s, NEW t, OnTop(s, t), NEW m, OneRun(s, m), s[Len(s)].task # "mode"
  PROVE  /\ OneRun(t, m) /\ ModeOf(t, m) = ModeOf(s, m)
         /\ Returning(t) <=> Returning(s)
<1>1. Len(s) \in Nat \ {0} /\ DOMAIN s = 1 .. Len(s) /\ DOMAIN t = 1 .. Len(s)
  BY EmptySeq DEF OnTop
<1>2. \A i \in DOMAIN s : s[i].task = "mode" => t[i] = s[i]
  BY <1>1 DEF OnTop
<1>3. \A i \in DOMAIN t : t[i].task = "mode" => t[i] = s[i]
  BY <1>1 DEF OnTop
<1>4. OneRun(t, m)
  BY <1>1, <1>3 DEF OneRun, InHandler
<1>5. CASE \E k \in DOMAIN s : s[k].task = "mode"
  BY <1>1, <1>2, <1>4, <1>5, ModeOfRun
<1>6. CASE \A i \in DOMAIN s : s[i].task # "mode"
  <2>1. \A i \in DOMAIN t : t[i].task # "mode"
    BY <1>1, <1>3, <1>6
  <2> QED BY <1>4, <1>6, <2>1, ModeOfIdle
<1> QED BY <1>5, <1>6

-----------------------------------------------------------------------------
(* The steps *)

(* A step within a handler, or a task, that takes no event.                  *)
SameRun(f, g) ==
  /\ g.old = f.old /\ g.next = f.next
  /\ InHandler(g) <=> InHandler(f)
  /\ ~Settled(f) /\ ~Settled(g)

LEMMA RadioTop ==
  ASSUME TypeOK, Shape(stack), Radio
  PROVE  OnTop(stack, stack') /\ SameRun(Top, stack'[Len(stack)])
<1> USE DEF At
<1>0. stack # <<>>
  BY DEF Radio, BleInitialised, AdvBegin, AdvStopped, AdvRestart, AdvCounted,
         AdvStarted, BondsCleared, NameUpdated
<1>1. Top \in Frames /\ Proper(Top) /\ stack \in Seq(Frames)
  BY <1>0, TopIsFrame, EmptySeq DEF Shape, Top, TypeOK
<1>2. Top.then \in {"settle", "naming", "done"}
  BY <1>1 DEF Frames
<1>3. CASE BondsCleared
  <2> DEFINE g == [Top EXCEPT !.pc = "advertise", !.adv = adv, !.then = "naming"]
  <2>1. g \in Frames
    BY <1>1 DEF Frames, OtherPoints, TypeOK
  <2>2. stack' = [stack EXCEPT ![Len(stack)] = g] /\ Top.pc = "clearing"
    BY <1>3 DEF BondsCleared, Top
  <2>3. g.pc = "advertise" /\ g.task = Top.task /\ g.old = Top.old /\ g.next = Top.next
    BY <1>1 DEF Frames
  <2> HIDE DEF g
  <2>4. /\ stack' \in Seq(Frames) /\ Len(stack') = Len(stack)
        /\ stack'[Len(stack)] = g
        /\ \A i \in 1 .. Len(stack) - 1 : stack'[i] = stack[i]
    BY <1>0, <1>1, <2>1, <2>2, TopReplaced
  <2> QED BY <1>0, <1>1, <2>2, <2>3, <2>4 DEF OnTop, SameRun, InHandler, Settled, Top
<1>4. CASE ~BondsCleared
  <2>1. PICK pc \in {"advertise", "stopping", "restart", "counting", "starting", "settle",
                     Top.then} : GoTo(pc)
    BY <1>4 DEF Radio, BleInitialised, AdvBegin, AdvStopped, AdvRestart, AdvCounted,
                AdvStarted, NameUpdated
  <2>2. Top.pc \in {"advertise", "booting", "stopping", "restart", "counting", "starting",
                    "naming"}
    BY <1>4 DEF Radio, BleInitialised, AdvBegin, AdvStopped, AdvRestart, AdvCounted,
                AdvStarted, NameUpdated
  <2>3. pc \in {"advertise", "stopping", "restart", "counting", "starting", "settle",
                "naming", "done"}
    BY <1>2, <2>1
  <2>4. pc \in Points
    BY <2>3, PointsType DEF WaitPoints
  <2> DEFINE g == [Top EXCEPT !.pc = pc]
  <2>5. g.pc = pc /\ g.task = Top.task /\ g.old = Top.old /\ g.next = Top.next
    BY <1>1 DEF Frames
  <2>6. /\ stack' \in Seq(Frames) /\ Len(stack') = Len(stack)
        /\ stack'[Len(stack)] = g
        /\ \A i \in 1 .. Len(stack) - 1 : stack'[i] = stack[i]
    BY <1>0, <2>1, <2>4, GoToType
  <2> HIDE DEF g
  <2> QED BY <1>0, <1>1, <2>2, <2>3, <2>5, <2>6 DEF OnTop, SameRun, InHandler, Settled, Top
<1> QED BY <1>3, <1>4

(* What a step keeps that takes no event: the mode that runs, and its Init   *)
(* and DeInit calls.                                                         *)
KeepsRun ==
  /\ OneRun(stack', mode_state')
  /\ ModeOf(stack', mode_state') = ModeOf(stack, mode_state)
  /\ live' = live

LEMMA RadioRun ==
  ASSUME TypeOK, Shape(stack), Radio, OneRun(stack, mode_state)
  PROVE  KeepsRun /\ (Returning(stack) => Returning(stack'))
<1>1. OnTop(stack, stack') /\ SameRun(Top, stack'[Len(stack)])
  BY RadioTop
<1>2. mode_state' = mode_state /\ live' = live
  BY DEF Radio, BleInitialised, AdvBegin, AdvStopped, AdvRestart, AdvCounted,
         AdvStarted, BondsCleared, NameUpdated, FromAdv
<1> DEFINE f == stack[Len(stack)]
           g == stack'[Len(stack)]
<1>3. SameRun(f, g)
  BY <1>1 DEF Top
<1>4. Len(stack) \in DOMAIN stack
  BY <1>1, EmptySeq DEF OnTop
<1>5. CASE f.task = "mode"
  <2>1. InHandler(g) /\ ~Settled(g) => g.old = mode_state
    BY <1>3, <1>4 DEF SameRun, OneRun
  <2>2. /\ OneRun(stack', mode_state)
        /\ ModeOf(stack, mode_state) = Holds(f, mode_state)
        /\ ModeOf(stack', mode_state) = Holds(g, mode_state)
        /\ Returning(stack) <=> GoesToSleep(f)
        /\ Returning(stack') <=> GoesToSleep(g)
    BY <1>1, <1>5, <2>1, RunReplaced
  <2> HIDE DEF f, g
  <2>3. Holds(f, mode_state) = Holds(g, mode_state) /\ (GoesToSleep(f) <=> GoesToSleep(g))
    BY <1>3 DEF SameRun, Holds, GoesToSleep
  <2> QED BY <1>2, <2>2, <2>3 DEF KeepsRun
<1>6. CASE f.task # "mode"
  BY <1>1, <1>2, <1>6, TaskReplaced DEF KeepsRun
<1> QED BY <1>5, <1>6

LEMMA BleTaskRun ==
  ASSUME TypeOK, Shape(stack), BleTask, OneRun(stack, mode_state)
  PROVE  KeepsRun /\ (Returning(stack) => Returning(stack'))
<1>1. mode_state' = mode_state /\ live' = live /\ stack \in Seq(Frames)
  BY DEF BleTask, RunAdvUpdate, Connected, Disconnected, BleTaskReturns, FromAdv, TypeOK
<1>2. CASE stack' = stack
  BY <1>1, <1>2 DEF KeepsRun
<1>3. CASE \E status \in {"LP", "FAST"} : stack' = Append(stack, BleFrame("advertise", status))
  <2>1. PICK status \in {"LP", "FAST"} : stack' = Append(stack, BleFrame("advertise", status))
    BY <1>3
  <2>2. BleFrame("advertise", status) \in Frames
    BY BleFrameType, PointsType DEF AdvStatus
  <2>3. BleFrame("advertise", status).task = "ble"
    BY DEF BleFrame
  <2> DEFINE g == BleFrame("advertise", status)
  <2>4. g \in Frames /\ g.task # "mode" /\ ~InHandler(g)
    BY <2>2, <2>3 DEF InHandler
  <2> HIDE DEF g
  <2>5. stack' = Append(stack, g)
    BY <2>1 DEF g
  <2> QED BY <1>1, <2>4, <2>5, RunAppended DEF KeepsRun
<1>4. CASE BleTaskReturns
  <2>1. stack # <<>> /\ Top.pc = "done" /\ Return
    BY <1>4 DEF BleTaskReturns, At
  <2>2. Proper(Top)
    BY <2>1, EmptySeq DEF Shape, Top, TypeOK
  <2>3. ~InHandler(stack[Len(stack)])
    BY <2>1, <2>2 DEF Proper, InHandler, Top
  <2> QED BY <1>1, <2>1, <2>3, RunRemoved DEF KeepsRun, Return
<1> QED BY <1>2, <1>3, <1>4 DEF BleTask, RunAdvUpdate, Connected, Disconnected

LEMMA OtherRun ==
  ASSUME OneRun(stack, mode_state),
         \/ ButtonEdge \/ VbusEdge \/ VbusTriggered \/ HoldTimer \/ AdvTimeout
         \/ ConfigTimer \/ RunConfigTask \/ Remote \/ UNCHANGED vars
  PROVE  KeepsRun /\ (Returning(stack) => Returning(stack'))
<1>1. UNCHANGED <<stack, mode_state, live>>
  BY DEF ButtonEdge, VbusEdge, VbusTriggered, HoldTimer, AdvTimeout, FromAdv,
         ConfigTimer, RunConfigTask, Remote, RequestState,
         RequestTerminalAction, vars
<1> QED BY <1>1 DEF KeepsRun

(* Settle looks at VBUS on the way to SLEEP.                                 *)
LEMMA LoopRun ==
  ASSUME TypeOK, Shape(stack), OneRun(stack, mode_state), ~reentered',
         RunModeTask \/ UpdateReturns \/ Settle \/ RecheckPush \/ NextEvent
  PROVE  KeepsRun /\ (RecheckPush \/ (vbus /\ Returning(stack) => Returning(stack')))
<1> USE DEF At
<1>0. ASSUME stack # <<>> PROVE Top \in Frames /\ Proper(Top)
  BY <1>0, TopIsFrame, EmptySeq DEF Shape, Top, TypeOK
<1>1. stack \in Seq(Frames) /\ live' = live
  BY DEF TypeOK, RunModeTask, UpdateReturns, Settle, RecheckPush, NextEvent
<1>2. UpdateFrame \in Frames /\ ~InHandler(UpdateFrame) /\ UpdateFrame.task = "mode"
      /\ ~Settled(UpdateFrame)
  BY UpdateFrameType DEF UpdateFrame, InHandler, Settled
<1>3. CASE RunModeTask
  <2>1. \A i \in DOMAIN stack : stack[i].task # "mode"
    BY <1>3 DEF RunModeTask
  <2>2. stack' = Append(stack, UpdateFrame) /\ mode_state' = mode_state
    BY <1>3 DEF RunModeTask
  <2> QED BY <1>1, <1>2, <2>1, <2>2, RunAppended DEF KeepsRun
<1>4. CASE UpdateReturns
  <2>1. stack # <<>> /\ ~InHandler(stack[Len(stack)]) /\ Return /\ mode_state' = mode_state
    BY <1>4 DEF UpdateReturns, InHandler, Top
  <2> QED BY <1>1, <2>1, RunRemoved DEF KeepsRun, Return
<1>5. CASE Settle \/ RecheckPush
  <2>1. PICK pc \in {"recheck", "final"} : GoTo(pc) /\ stack # <<>>
    BY <1>5 DEF Settle, RecheckPush
  <2> DEFINE f == stack[Len(stack)]
             g == stack'[Len(stack)]
  <2>2. g = [Top EXCEPT !.pc = pc] /\ Top \in Frames /\ Proper(Top)
        /\ stack' \in Seq(Frames) /\ Len(stack') = Len(stack)
        /\ \A i \in 1 .. Len(stack) - 1 : stack'[i] = stack[i]
    BY <1>0, <2>1, GoToType, PointsType
  <2>3. /\ g.pc = pc /\ g.task = f.task /\ g.old = f.old /\ g.next = f.next
        /\ f.pc = Top.pc /\ f.task = Top.task /\ f.next = Top.next /\ f.old = Top.old
    BY <2>2 DEF Frames, Top
  <2>4. OnTop(stack, stack')
    BY <1>1, <2>1, <2>2, <2>3 DEF OnTop
  <2>5. Top.pc \in {"settle", "recheck"} /\ Top.task = "mode"
    BY <1>5, <2>2 DEF Settle, RecheckPush, Proper
  <2>6. /\ OneRun(stack', mode_state')
        /\ ModeOf(stack, mode_state) = Holds(f, mode_state)
        /\ ModeOf(stack', mode_state') = Holds(g, mode_state')
        /\ Returning(stack) <=> GoesToSleep(f)
        /\ Returning(stack') <=> GoesToSleep(g)
    <3>1. f.task = "mode" /\ Settled(g)
      BY <2>3, <2>5 DEF Settled
    <3> QED BY <2>4, <3>1, RunReplaced
  <2>7. Len(stack) \in DOMAIN stack
    BY <2>1, EmptySeq DEF TypeOK
  <2>8. InHandler(f) /\ (Top.pc = "settle" => f.old = mode_state)
    BY <2>3, <2>5, <2>7 DEF InHandler, Settled, OneRun
  <2> HIDE DEF f, g
  <2>9. CASE Settle
    <3>1. /\ Top.pc = "settle"
          /\ mode_state' = IF Top.next # Top.old THEN Top.next ELSE mode_state
          /\ GoTo(IF Top.next # Top.old /\ Top.next = "SLEEP" /\ vbus THEN "recheck"
                                                                     ELSE "final")
      BY <2>9 DEF Settle
    <3>2. pc = IF Top.next # Top.old /\ Top.next = "SLEEP" /\ vbus THEN "recheck" ELSE "final"
      <4> DEFINE p == IF Top.next # Top.old /\ Top.next = "SLEEP" /\ vbus THEN "recheck"
                                                                        ELSE "final"
      <4>1. p \in Points /\ GoTo(p)
        BY <3>1, PointsType
      <4> HIDE DEF p
      <4>2. g = [Top EXCEPT !.pc = p]
        BY <2>1, <4>1, GoToType DEF g
      <4>3. g.pc = p
        BY <2>2, <4>2 DEF Frames
      <4> QED BY <2>3, <4>3 DEF p
    <3>3. Holds(f, mode_state) = f.next /\ Holds(g, mode_state') = mode_state'
      BY <2>1, <2>3, <2>8, <3>1 DEF Holds, Settled
    <3>4. mode_state' = f.next
      BY <2>3, <2>8, <3>1
    <3>5. vbus /\ GoesToSleep(f) => GoesToSleep(g)
      BY <2>3, <2>5, <2>8, <3>1, <3>2 DEF GoesToSleep, InHandler, Settled
    <3> QED BY <1>1, <2>6, <3>3, <3>4, <3>5 DEF KeepsRun
  <2>10. CASE RecheckPush
    <3>1. Top.pc = "recheck" /\ mode_state' = mode_state
      BY <2>10 DEF RecheckPush
    <3>2. Holds(f, mode_state) = mode_state /\ Holds(g, mode_state') = mode_state
      BY <2>1, <2>3, <3>1 DEF Holds, Settled
    <3> QED BY <1>1, <2>6, <2>10, <3>1, <3>2 DEF KeepsRun
  <2> QED BY <1>5, <2>9, <2>10
<1>6. CASE NextEvent
  <2>1. /\ stack # <<>> /\ Top.pc = "final" /\ mode_state' = mode_state
        /\ stack' = [stack EXCEPT ![Len(stack)] = UpdateFrame]
    BY <1>6 DEF NextEvent
  <2>2. Top.task = "mode"
    BY <1>0, <2>1 DEF Proper
  <2>3. /\ stack' \in Seq(Frames) /\ Len(stack') = Len(stack)
        /\ stack'[Len(stack)] = UpdateFrame
        /\ \A i \in 1 .. Len(stack) - 1 : stack'[i] = stack[i]
    BY <1>1, <1>2, <2>1, TopReplaced
  <2>4. OnTop(stack, stack')
    BY <1>1, <1>2, <2>1, <2>2, <2>3 DEF OnTop, Top
  <2>5. /\ OneRun(stack', mode_state)
        /\ ModeOf(stack, mode_state) = Holds(Top, mode_state)
        /\ ModeOf(stack', mode_state) = Holds(UpdateFrame, mode_state)
        /\ Returning(stack) <=> GoesToSleep(Top)
    BY <1>2, <2>2, <2>3, <2>4, RunReplaced DEF Top
  <2>6. /\ Holds(Top, mode_state) = mode_state /\ ~GoesToSleep(Top)
        /\ Holds(UpdateFrame, mode_state) = mode_state
    BY <1>2, <2>1 DEF Holds, GoesToSleep, Settled
  <2> QED BY <1>1, <2>1, <2>5, <2>6 DEF KeepsRun
<1> QED BY <1>3, <1>4, <1>5, <1>6

-----------------------------------------------------------------------------
(* What a handler does to the mode. *)

(* The handler was called in mode_state and returns n.                       *)
EndsIn(n) ==
  /\ OnTop(stack, stack') /\ Top.task = "mode" /\ Top.pc = "loop"
  /\ LET g == stack'[Len(stack)]
     IN  InHandler(g) /\ ~Settled(g) /\ g.old = mode_state /\ g.next = n

LEMMA HandlerTop ==
  ASSUME TypeOK, Shape(stack), stack # <<>>, event_queue # <<>>, Top.pc = "loop",
         NEW n \in Modes,
         \/ \E pc \in {"settle", "clearing", "naming"} : Handler(pc, n)
         \/ \E status \in AdvStatus : HandlerAdvertises(status, n)
  PROVE  EndsIn(n)
<1>1. Top \in Frames /\ Proper(Top) /\ stack \in Seq(Frames)
  BY TopIsFrame, EmptySeq DEF Shape, Top, TypeOK
<1>2. Top.task = "mode"
  BY <1>1 DEF Proper
<1>3. CASE \E pc \in {"settle", "clearing", "naming"} : Handler(pc, n)
  <2>1. PICK pc \in {"settle", "clearing", "naming"} : Handler(pc, n)
    BY <1>3
  <2> DEFINE g == [Top EXCEPT !.pc = pc, !.event = Head(event_queue),
                              !.old = mode_state, !.next = n]
  <2>2. /\ stack' \in Seq(Frames) /\ Len(stack') = Len(stack)
        /\ stack'[Len(stack)] = g
        /\ \A i \in 1 .. Len(stack) - 1 : stack'[i] = stack[i]
    BY <2>1, HandlerType, PointsType
  <2>3. g.pc = pc /\ g.task = Top.task /\ g.old = mode_state /\ g.next = n
    BY <1>1 DEF Frames
  <2> HIDE DEF g
  <2> QED BY <1>1, <1>2, <2>1, <2>2, <2>3 DEF EndsIn, OnTop, InHandler, Settled, Top
<1>4. CASE \E status \in AdvStatus : HandlerAdvertises(status, n)
  <2>1. PICK status \in AdvStatus : HandlerAdvertises(status, n)
    BY <1>4
  <2> DEFINE g == [Top EXCEPT !.pc = "advertise", !.event = Head(event_queue),
                              !.old = mode_state, !.next = n,
                              !.adv = status, !.then = "settle"]
  <2>2. /\ stack' \in Seq(Frames) /\ Len(stack') = Len(stack)
        /\ stack'[Len(stack)] = g
        /\ \A i \in 1 .. Len(stack) - 1 : stack'[i] = stack[i]
    BY <2>1, HandlerAdvertisesType
  <2>3. g.pc = "advertise" /\ g.task = Top.task /\ g.old = mode_state /\ g.next = n
    BY <1>1 DEF Frames
  <2> HIDE DEF g
  <2> QED BY <1>1, <1>2, <2>2, <2>3 DEF EndsIn, OnTop, InHandler, Settled, Top
<1> QED BY <1>3, <1>4

(* The mode n the handler of an event returns, and what was initialised.     *)
Handled(n) ==
  /\ EndsIn(n) /\ live' = LiveFor(n)
  /\ n = "USB" => mode_state = "USB" \/ Head(event_queue) = "VBUS_HIGH"
  /\ mode_state = "SLEEP" /\ Head(event_queue) = "VBUS_HIGH" => n = "USB"
  /\ mode_state = "USB" /\ Head(event_queue) = "VBUS_LOW" => n = "SLEEP"

LEMMA EnterEnds ==
  ASSUME TypeOK, Shape(stack), stack # <<>>, event_queue # <<>>, Top.pc = "loop",
         live = LiveFor("SLEEP"), NEW m \in Modes, Enter(m)
  PROVE  EndsIn(m) /\ live' = LiveFor(m)
<1>1. /\ m # "SLEEP" /\ Started(m)
      /\ Handler("settle", m) \/ HandlerAdvertises("FAST", m)
  BY DEF Enter, EnterPlain, EnterConfig, EnterPairing
<1>2. EndsIn(m)
  BY <1>1, HandlerTop DEF AdvStatus
<1>3. live' = LiveFor(m)
  BY <1>1 DEF Started, LiveFor
<1> QED BY <1>2, <1>3

LEMMA LeaveEnds ==
  ASSUME TypeOK, Shape(stack), stack # <<>>, event_queue # <<>>, Top.pc = "loop",
         mode_state # "SLEEP", live = LiveFor(mode_state),
         Leave(mode_state) \/ (mode_state = "USB" /\ LeaveUsb)
  PROVE  EndsIn("SLEEP") /\ live' = LiveFor("SLEEP")
<1>1. /\ Stopped(mode_state) /\ mode_state \in Modes
      /\ \/ \E pc \in {"settle", "clearing", "naming"} : Handler(pc, "SLEEP")
         \/ HandlerAdvertises("LP", "SLEEP")
  BY DEF Leave, LeavePlain, LeaveConfig, LeavePairing, LeaveUsb, TypeOK
<1>2. EndsIn("SLEEP")
  BY <1>1, HandlerTop DEF AdvStatus, Modes
<1>3. live' = LiveFor("SLEEP")
  BY <1>1 DEF Stopped, LiveFor
<1> QED BY <1>2, <1>3

LEMMA StayEnds ==
  ASSUME TypeOK, Shape(stack), stack # <<>>, event_queue # <<>>, Top.pc = "loop",
         live = LiveFor(mode_state), Stay
  PROVE  EndsIn(mode_state) /\ live' = LiveFor(mode_state)
<1>1. Handler("settle", mode_state) /\ mode_state \in Modes /\ live' = live
  BY DEF Stay, TypeOK
<1> QED BY <1>1, HandlerTop

LEMMA HandlerMode ==
  ASSUME TypeOK, Shape(stack), requested_state # "USB", live = LiveFor(mode_state),
         SleepHandler \/ HeldHandler \/ BriefHandler \/ UsbHandler
  PROVE  \E n \in Modes : Handled(n)
<1> USE DEF Event, At
<1>0. stack # <<>> /\ Top.pc = "loop" /\ event_queue # <<>> /\ mode_state \in Modes
  BY HandlerQueue DEF TypeOK
<1> DEFINE e == Head(event_queue)
<1>1. {"SLEEP", "ACTIVE", "START", "USB", "CONFIG", "PAIRING"} \subseteq Modes
      /\ DefaultMode \in Modes \ {"USB"}
  BY ConfigurationAssumption DEF Modes
<1>2. ASSUME mode_state = "SLEEP", NEW m \in Modes, Enter(m),
             m = "USB" <=> e = "VBUS_HIGH"
      PROVE  \E n \in Modes : Handled(n)
  <2>1. EndsIn(m) /\ live' = LiveFor(m)
    BY <1>0, <1>2, EnterEnds
  <2> QED BY <1>2, <2>1 DEF Handled
<1>3. ASSUME mode_state # "SLEEP", Leave(mode_state) \/ (mode_state = "USB" /\ LeaveUsb)
      PROVE  \E n \in Modes : Handled(n)
  <2>1. EndsIn("SLEEP") /\ live' = LiveFor("SLEEP")
    BY <1>0, <1>3, LeaveEnds
  <2> QED BY <1>1, <1>3, <2>1 DEF Handled
<1>4. ASSUME Stay, mode_state = "SLEEP" => e # "VBUS_HIGH",
             mode_state = "USB" => e # "VBUS_LOW"
      PROVE  \E n \in Modes : Handled(n)
  <2>1. EndsIn(mode_state) /\ live' = LiveFor(mode_state)
    BY <1>0, <1>4, StayEnds
  <2> QED BY <1>0, <1>4, <2>1 DEF Handled
<1>5. CASE SleepHandler
  <2>1. CASE SleepIgnores
    BY <1>4, <2>1 DEF SleepIgnores
  <2>2. CASE SleepRequest
    <3>1. requested_state \notin {"NONE", "SLEEP"} => requested_state \in Modes
      BY DEF TypeOK
    <3>2. mode_state = "SLEEP" /\ e = "REQUEST_STATE"
      BY <2>2 DEF SleepRequest
    <3>3. Stay \/ (requested_state \in Modes /\ Enter(requested_state))
      BY <2>2, <3>1 DEF SleepRequest
    <3> QED BY <1>2, <1>4, <3>2, <3>3
  <2>3. CASE SleepPressed
    BY <1>4, <2>3 DEF SleepPressed
  <2>4. CASE SleepReleased
    <3>1. mode_state = "SLEEP" /\ e = "BUTTON_RELEASED" /\ (Stay \/ Enter("PAIRING"))
      BY <2>4 DEF SleepReleased
    <3> QED BY <1>1, <1>2, <1>4, <3>1
  <2>5. CASE SleepTimer
    <3>1. mode_state = "SLEEP" /\ e = "TIMER"
          /\ (Stay \/ Enter("CONFIG") \/ Enter(DefaultMode))
      BY <2>5 DEF SleepTimer
    <3> QED BY <1>1, <1>2, <1>4, <3>1
  <2>6. CASE SleepVbusHigh
    <3>1. mode_state = "SLEEP" /\ e = "VBUS_HIGH" /\ Enter("USB")
      BY <2>6 DEF SleepVbusHigh
    <3> QED BY <1>1, <1>2, <3>1
  <2> QED BY <1>5, <2>1, <2>2, <2>3, <2>4, <2>5, <2>6 DEF SleepHandler
<1>6. CASE HeldHandler
  BY <1>3, <1>4, <1>6 DEF HeldHandler, HeldPressed, HeldReleased, HeldTimer,
     HeldRequest, HeldTerminalAction, HeldIgnores, Held
<1>7. CASE BriefHandler
  BY <1>3, <1>4, <1>7 DEF BriefHandler, BriefEnds, BriefRequest, BriefIgnores, Brief
<1>8. CASE UsbHandler
  BY <1>3, <1>4, <1>8 DEF UsbHandler, UsbVbusLow, UsbRequest, UsbTerminalAction, UsbIgnores
<1> QED BY <1>5, <1>6, <1>7, <1>8

-----------------------------------------------------------------------------
(* The queue, for the cable. *)
LEMMA TailHighs ==
  ASSUME NEW q \in Seq(Events), q # <<>>, HighsEnd(q)
  PROVE  /\ HighsEnd(Tail(q))
         /\ Head(q) = "VBUS_HIGH" => In(Tail(q), "VBUS_LOW")
<1>1. /\ Tail(q) \in Seq(Events) /\ Len(q) \in Nat \ {0} /\ Head(q) = q[1]
      /\ DOMAIN q = 1 .. Len(q) /\ DOMAIN Tail(q) = 1 .. Len(q) - 1
  BY HeadTailProperties, EmptySeq
<1>2. \A i \in DOMAIN Tail(q) : i + 1 \in DOMAIN q /\ Tail(q)[i] = q[i + 1]
  BY <1>1, HeadTailProperties
<1>3. \A j \in DOMAIN q : j > 1 => (j - 1) \in DOMAIN Tail(q) /\ Tail(q)[j - 1] = q[j]
  BY <1>1, <1>2
<1>4. ASSUME NEW i \in DOMAIN Tail(q), Tail(q)[i] = "VBUS_HIGH"
      PROVE  \E j \in DOMAIN Tail(q) : j > i /\ Tail(q)[j] = "VBUS_LOW"
  <2>1. i + 1 \in DOMAIN q /\ q[i + 1] = "VBUS_HIGH" /\ i \in Nat /\ i >= 1
    BY <1>1, <1>2, <1>4
  <2>2. PICK j \in DOMAIN q : j > i + 1 /\ q[j] = "VBUS_LOW"
    BY <2>1 DEF HighsEnd
  <2>3. j \in Nat /\ j > 1 /\ j - 1 > i
    BY <1>1, <2>1, <2>2
  <2> QED BY <1>3, <2>2, <2>3
<1>5. Head(q) = "VBUS_HIGH" => In(Tail(q), "VBUS_LOW")
  <2>1. SUFFICES ASSUME q[1] = "VBUS_HIGH" PROVE In(Tail(q), "VBUS_LOW")
    BY <1>1
  <2>2. 1 \in DOMAIN q
    BY <1>1
  <2>3. PICK j \in DOMAIN q : j > 1 /\ q[j] = "VBUS_LOW"
    BY <2>1, <2>2 DEF HighsEnd
  <2> QED BY <1>3, <2>3 DEF In
<1> QED BY <1>4, <1>5 DEF HighsEnd

LEMMA AppendHighs ==
  ASSUME NEW q \in Seq(Events), NEW e \in Events,
         e = "VBUS_LOW" \/ (HighsEnd(q) /\ e # "VBUS_HIGH")
  PROVE  HighsEnd(Append(q, e))
<1> DEFINE t == Append(q, e)
<1>1. /\ DOMAIN q = 1 .. Len(q) /\ Len(q) \in Nat
      /\ DOMAIN t = 1 .. Len(q) + 1
      /\ \A i \in 1 .. Len(q) : t[i] = q[i]
      /\ t[Len(q) + 1] = e
  BY AppendProperties
<1> HIDE DEF t
<1>2. ASSUME NEW i \in DOMAIN t, t[i] = "VBUS_HIGH"
      PROVE  \E j \in DOMAIN t : j > i /\ t[j] = "VBUS_LOW"
  <2>1. CASE e = "VBUS_LOW"
    <3>1. i # Len(q) + 1 /\ Len(q) + 1 \in DOMAIN t
      BY <1>1, <1>2, <2>1
    <3>2. Len(q) + 1 > i
      BY <1>1, <1>2, <3>1
    <3> QED BY <1>1, <2>1, <3>1, <3>2
  <2>2. CASE HighsEnd(q) /\ e # "VBUS_HIGH"
    <3>1. i \in DOMAIN q /\ q[i] = "VBUS_HIGH"
      BY <1>1, <1>2, <2>2
    <3>2. PICK j \in DOMAIN q : j > i /\ q[j] = "VBUS_LOW"
      BY <2>2, <3>1 DEF HighsEnd
    <3>3. j \in DOMAIN t /\ t[j] = q[j]
      BY <1>1, <3>2
    <3> QED BY <3>2, <3>3
  <2> QED BY <2>1, <2>2
<1> QED BY <1>2 DEF HighsEnd, t

(* An event that is not the cable's leaves what is known of the cable; the   *)
(* cable's own, read from the pin, makes it known.                           *)
LEMMA CablePush ==
  ASSUME NEW v \in BOOLEAN, NEW n, NEW q \in Seq(Events), NEW r \in BOOLEAN,
         NEW e \in Events,
         \/ e = IF v THEN "VBUS_HIGH" ELSE "VBUS_LOW"
         \/ CableKnown(v, n, q, r) /\ e \notin {"VBUS_HIGH", "VBUS_LOW"}
  PROVE  CableKnown(v, n, Append(q, e), r)
<1>1. \A d : In(Append(q, e), d) <=> In(q, d) \/ d = e
  BY AppendEvents
<1>2. CASE e = IF v THEN "VBUS_HIGH" ELSE "VBUS_LOW"
  BY <1>1, <1>2, AppendHighs DEF CableKnown
<1>3. CASE CableKnown(v, n, q, r) /\ e \notin {"VBUS_HIGH", "VBUS_LOW"}
  <2>1. HighsEnd(q) => HighsEnd(Append(q, e))
    BY <1>3, AppendHighs
  <2> QED BY <1>1, <1>3, <2>1 DEF CableKnown
<1> QED BY <1>2, <1>3

LEMMA PushAppends ==
  ASSUME TypeOK, NEW e, PushQueue(e), ~overflowed'
  PROVE  ~overflowed /\ event_queue' = Append(event_queue, e)
<1>1. overflowed' = (overflowed \/ Len(event_queue) >= QueueLength)
  BY DEF PushQueue, PushOn
<1>2. ~overflowed /\ ~(Len(event_queue) >= QueueLength)
  BY <1>1
<1> QED BY <1>2 DEF PushQueue, PushOn, Pushed

(* Every step but those of the cable leaves it alone and queues other events *)
LEMMA OtherPushes ==
  ASSUME TypeOK,
         \/ ButtonEdge \/ HoldTimer \/ AdvTimeout \/ ConfigTimer \/ Remote
         \/ RunModeTask \/ UpdateReturns \/ Settle \/ NextEvent
         \/ Radio \/ BleTask \/ RunConfigTask \/ UNCHANGED vars
  PROVE  /\ UNCHANGED <<vbus, vbus_irq, stale_recheck>>
         /\ \/ UNCHANGED <<event_queue, overflowed>>
            \/ \E e \in Events \ {"VBUS_HIGH", "VBUS_LOW"} : PushQueue(e)
<1> USE DEF queueVars, envVars, historyVars, FromAdv
<1>1. {"BUTTON_PRESSED", "BUTTON_RELEASED", "TIMER", "FORCE_UPDATE", "REQUEST_STATE",
       "TERMINAL_ACTION"} \subseteq Events \ {"VBUS_HIGH", "VBUS_LOW"}
  BY DEF Events
<1>2. CASE ButtonEdge \/ HoldTimer \/ AdvTimeout \/ ConfigTimer \/ UNCHANGED vars
  BY <1>1, <1>2 DEF ButtonEdge, HoldTimer, AdvTimeout, ConfigTimer, vars
<1>3. CASE Remote
  BY <1>1, <1>3 DEF Remote, RequestState, RequestTerminalAction
<1>4. CASE RunModeTask \/ UpdateReturns \/ Settle \/ NextEvent \/ RunConfigTask
  BY <1>1, <1>4 DEF RunModeTask, UpdateReturns, Settle, NextEvent, RunConfigTask
<1>5. CASE Radio
  BY <1>1, <1>5 DEF Radio, BleInitialised, AdvBegin, AdvStopped, AdvRestart, AdvCounted,
                    AdvStarted, BondsCleared, NameUpdated
<1>6. CASE BleTask
  BY <1>1, <1>6 DEF BleTask, RunAdvUpdate, Connected, Disconnected, BleTaskReturns
<1> QED BY <1>2, <1>3, <1>4, <1>5, <1>6

(* The cable, through a step that takes no event.                            *)
LEMMA CableQuiet ==
  ASSUME TypeOK, TypeOK', KeepsRun, VbusInv,
         \/ RecheckPush \/ (vbus /\ Returning(stack) => Returning(stack')),
         \/ ButtonEdge \/ VbusEdge \/ VbusTriggered \/ HoldTimer \/ AdvTimeout
         \/ ConfigTimer \/ Remote \/ RunModeTask \/ UpdateReturns \/ Settle
         \/ RecheckPush \/ NextEvent \/ Radio \/ BleTask \/ RunConfigTask
         \/ UNCHANGED vars
  PROVE  VbusInv'
<1> DEFINE n == ModeOf(stack, mode_state)
           back == Returning(stack)
           back2 == Returning(stack')
<1>0. /\ ModeOf(stack', mode_state') = n
      /\ event_queue \in Seq(Events) /\ vbus \in BOOLEAN
      /\ back \in BOOLEAN /\ back2 \in BOOLEAN
  BY DEF KeepsRun, TypeOK, Returning
<1>1. SUFFICES ASSUME ~overflowed', ~stale_recheck', ~vbus_irq'
               PROVE  CableKnown(vbus', n, event_queue', back2)
  BY <1>0 DEF VbusInv
<1>2. VbusInv => (~overflowed /\ ~stale_recheck /\ ~vbus_irq =>
                    CableKnown(vbus, n, event_queue, back))
  BY DEF VbusInv
<1>3. RecheckPush \/ (vbus /\ back => back2)
  OBVIOUS
<1> HIDE DEF n, back, back2
<1>4. CASE VbusEdge
  BY <1>1, <1>4 DEF VbusEdge
<1>5. CASE VbusTriggered
  <2>1. PushQueue(IF vbus THEN "VBUS_HIGH" ELSE "VBUS_LOW") /\ vbus' = vbus
    BY <1>5 DEF VbusTriggered
  <2> DEFINE e == IF vbus THEN "VBUS_HIGH" ELSE "VBUS_LOW"
  <2>2. event_queue' = Append(event_queue, e) /\ e \in Events
    BY <1>1, <2>1, PushAppends DEF Events
  <2> QED BY <1>0, <2>1, <2>2, CablePush
<1>6. CASE RecheckPush
  <2>1. PushQueue("VBUS_HIGH") /\ vbus' = vbus /\ vbus
    <3>1. stale_recheck' = (stale_recheck \/ ~vbus) /\ vbus' = vbus /\ PushQueue("VBUS_HIGH")
      BY <1>6 DEF RecheckPush, envVars
    <3> QED BY <1>1, <3>1 DEF TypeOK
  <2>2. event_queue' = Append(event_queue, "VBUS_HIGH") /\ "VBUS_HIGH" \in Events
    BY <1>1, <2>1, PushAppends DEF Events
  <2> QED BY <1>0, <2>1, <2>2, CablePush
<1>7. CASE ~(VbusEdge \/ VbusTriggered \/ RecheckPush)
  <2>1. /\ UNCHANGED <<vbus, vbus_irq, stale_recheck>>
        /\ \/ UNCHANGED <<event_queue, overflowed>>
           \/ \E e \in Events \ {"VBUS_HIGH", "VBUS_LOW"} : PushQueue(e)
    BY <1>7, OtherPushes
  <2>2. ~overflowed
    BY <1>1, <2>1, PushAppends
  <2>3. CableKnown(vbus, n, event_queue, back)
    BY <1>1, <1>2, <2>1, <2>2
  <2>4. CableKnown(vbus, n, event_queue, back2)
    BY <1>0, <1>3, <1>7, <2>3 DEF CableKnown
  <2>5. CASE UNCHANGED <<event_queue, overflowed>>
    BY <2>1, <2>4, <2>5
  <2>6. CASE \E e \in Events \ {"VBUS_HIGH", "VBUS_LOW"} : PushQueue(e)
    <3>1. PICK e \in Events \ {"VBUS_HIGH", "VBUS_LOW"} : PushQueue(e)
      BY <2>6
    <3>2. event_queue' = Append(event_queue, e)
      BY <1>1, <3>1, PushAppends
    <3> QED BY <1>0, <2>1, <2>4, <3>2, CablePush
  <2> QED BY <2>1, <2>5, <2>6
<1> QED BY <1>4, <1>5, <1>6, <1>7

(* A handler's run: which mode it leaves behind, and the cable.              *)
LEMMA HandlerRun ==
  ASSUME TypeOK, Shape(stack), RunInv, ~reentered,
         SleepHandler \/ HeldHandler \/ BriefHandler \/ UsbHandler
  PROVE  /\ OneRun(stack', mode_state')
         /\ live' = LiveFor(ModeOf(stack', mode_state'))
         /\ VbusInv'
<1>1. /\ stack # <<>> /\ Top.pc = "loop" /\ event_queue # <<>>
      /\ event_queue \in Seq(Events) /\ vbus \in BOOLEAN
      /\ \/ event_queue' = Tail(event_queue)
         \/ event_queue' = Append(Tail(event_queue), "FORCE_UPDATE")
      /\ overflowed' = overflowed
  BY HandlerQueue DEF TypeOK
<1>2. UNCHANGED <<mode_state, vbus, vbus_irq, stale_recheck>>
  BY DEF SleepHandler, SleepPressed, SleepReleased, SleepTimer, SleepVbusHigh,
         SleepRequest, SleepIgnores, HeldHandler, HeldPressed, HeldReleased,
         HeldTimer, HeldRequest, HeldTerminalAction, HeldIgnores, BriefHandler,
         BriefEnds, BriefRequest, BriefIgnores, UsbHandler, UsbVbusLow, UsbRequest,
         UsbTerminalAction, UsbIgnores, envVars, historyVars
<1>3. OneRun(stack, mode_state) /\ live = LiveFor(ModeOf(stack, mode_state)) /\ VbusInv
      /\ requested_state # "USB"
  BY DEF RunInv
<1>4. Top \in Frames /\ Proper(Top)
  BY <1>1, TopIsFrame, EmptySeq DEF Shape, Top, TypeOK
<1>5. Top.task = "mode"
  BY <1>1, <1>4 DEF Proper
<1>6. ModeOf(stack, mode_state) = mode_state /\ ~Returning(stack)
  <2>1. Len(stack) \in DOMAIN stack
    BY <1>1, EmptySeq DEF TypeOK
  <2>2. ModeOf(stack, mode_state) = Holds(Top, mode_state)
        /\ (Returning(stack) <=> GoesToSleep(Top))
    BY <1>3, <1>5, <2>1, ModeOfRun DEF Top
  <2> QED BY <1>1, <2>2 DEF Holds, GoesToSleep, InHandler
<1>7. PICK n \in Modes : Handled(n)
  BY <1>3, <1>6, HandlerMode
<1> DEFINE g == stack'[Len(stack)]
<1>8. OnTop(stack, stack') /\ InHandler(g) /\ ~Settled(g) /\ g.old = mode_state /\ g.next = n
  BY <1>7 DEF Handled, EndsIn
<1>9. /\ OneRun(stack', mode_state) /\ ModeOf(stack', mode_state) = n
      /\ Returning(stack') <=> (n = "SLEEP" /\ mode_state # "SLEEP")
  <2>1. /\ OneRun(stack', mode_state) /\ ModeOf(stack', mode_state) = Holds(g, mode_state)
        /\ Returning(stack') <=> GoesToSleep(g)
    BY <1>3, <1>5, <1>8, RunReplaced DEF Top
  <2> QED BY <1>8, <2>1 DEF Holds, GoesToSleep
<1> HIDE DEF g
<1>10. VbusInv'
  <2> DEFINE q == Tail(event_queue)
             back == n = "SLEEP" /\ mode_state # "SLEEP"
  <2>1. SUFFICES ASSUME ~overflowed, ~stale_recheck, ~vbus_irq
                 PROVE  CableKnown(vbus, n, event_queue', Returning(stack'))
    BY <1>1, <1>2, <1>9 DEF VbusInv
  <2>2. CableKnown(vbus, mode_state, event_queue, FALSE)
    BY <1>3, <1>6, <2>1 DEF VbusInv, CableKnown
  <2>3. /\ q \in Seq(Events) /\ "FORCE_UPDATE" \in Events
        /\ \A d : In(event_queue, d) => In(q, d) \/ Head(event_queue) = d
    BY <1>1, TailEvents, HeadTailProperties DEF Events
  <2>4. HighsEnd(event_queue) =>
          HighsEnd(q) /\ (Head(event_queue) = "VBUS_HIGH" => In(q, "VBUS_LOW"))
    BY <1>1, TailHighs
  <2>5. CableKnown(vbus, n, q, back)
    <3> HIDE DEF q
    <3>1. CASE vbus
      BY <1>7, <2>2, <2>3, <3>1 DEF CableKnown, Handled
    <3>2. CASE ~vbus
      BY <1>7, <2>2, <2>3, <2>4, <3>2 DEF CableKnown, Handled
    <3> QED BY <3>1, <3>2
  <2>6. CableKnown(vbus, n, Append(q, "FORCE_UPDATE"), back)
    BY <1>1, <2>3, <2>5, CablePush
  <2> HIDE DEF q
  <2>7. CableKnown(vbus, n, event_queue', back)
    BY <1>1, <2>5, <2>6 DEF q
  <2> QED BY <1>9, <2>7 DEF CableKnown
<1> QED BY <1>2, <1>7, <1>9, <1>10 DEF Handled

-----------------------------------------------------------------------------
(* The processor starts: no mode has run, and the queue knows the cable.     *)
LEMMA BootRun ==
  ASSUME NEW v \in BOOLEAN
  PROVE  /\ OneRun(BootStack, "SLEEP")
         /\ ModeOf(BootStack, "SLEEP") = "SLEEP"
         /\ [m \in Modes |-> 0] = LiveFor("SLEEP")
         /\ CableKnown(v, "SLEEP", BootQueue(v), Returning(BootStack))
<1>1. \A i \in DOMAIN BootStack : BootStack[i].task # "mode"
  BY DEF BootStack, BleFrame
<1>2. OneRun(BootStack, "SLEEP") /\ ModeOf(BootStack, "SLEEP") = "SLEEP"
  BY <1>1, ModeOfIdle
<1>3. [m \in Modes |-> 0] = LiveFor("SLEEP")
  BY DEF LiveFor
<1>4. v => In(BootQueue(v), "VBUS_HIGH")
  BY DEF In, BootQueue
<1>5. ~v => HighsEnd(BootQueue(v))
  BY DEF HighsEnd, BootQueue
<1> QED BY <1>2, <1>3, <1>4, <1>5 DEF CableKnown

LEMMA RunInit == Init => RunInv
<1>1. ASSUME Init PROVE vbus \in BOOLEAN /\ RunInv
  <2>1. /\ vbus \in BOOLEAN /\ mode_state = "SLEEP" /\ requested_state = "NONE"
        /\ stack = BootStack /\ live = [m \in Modes |-> 0]
        /\ event_queue = BootQueue(vbus)
    BY <1>1 DEF Init
  <2> QED BY <2>1, BootRun DEF RunInv, VbusInv
<1> QED BY <1>1

(* A remote request never asks for USB mode.                                 *)
LEMMA NeverAskedForUsb ==
  ASSUME TypeOK, requested_state # "USB", [Next]_vars
  PROVE  requested_state' # "USB"
<1>1. CASE SleepHandler \/ HeldHandler \/ BriefHandler \/ UsbHandler
  BY <1>1, HandlerRequests
<1>2. CASE Remote
  BY <1>2 DEF Remote, RequestState, RequestTerminalAction
<1>3. CASE TerminalReset
  BY <1>3 DEF TerminalReset
<1>4. CASE ~(SleepHandler \/ HeldHandler \/ BriefHandler \/ UsbHandler
             \/ Remote \/ TerminalReset)
  <2>1. UNCHANGED requestVars
    BY <1>4, QuietSteps DEF Next, Interrupt, ModeTask
  <2> QED BY <2>1 DEF requestVars
<1> QED BY <1>1, <1>2, <1>3, <1>4

(* FS_Mode_Update has been entered inside itself for good, until a restart.  *)
LEMMA ReenteredStays ==
  ASSUME TypeOK, [Next]_vars, ~TerminalReset, ~reentered'
  PROVE  ~reentered
<1>1. reentered \in BOOLEAN
  BY DEF TypeOK
<1>2. CASE SleepHandler \/ HeldHandler \/ BriefHandler \/ UsbHandler
  BY <1>2
  DEF SleepHandler, SleepPressed, SleepReleased, SleepTimer, SleepVbusHigh,
      SleepRequest, SleepIgnores, HeldHandler, HeldPressed, HeldReleased,
      HeldTimer, HeldRequest, HeldTerminalAction, HeldIgnores, BriefHandler,
      BriefEnds, BriefRequest, BriefIgnores, UsbHandler, UsbVbusLow, UsbRequest,
      UsbTerminalAction, UsbIgnores, historyVars
<1>3. CASE RunModeTask
  <2>1. reentered' = (reentered \/ \E i \in DOMAIN stack : stack[i].task = "mode")
    BY <1>3 DEF RunModeTask
  <2> QED BY <1>1, <2>1
<1>4. CASE RunConfigTask \/ UpdateReturns \/ Settle \/ RecheckPush \/ NextEvent
           \/ UNCHANGED vars
  BY <1>4 DEF RunConfigTask, UpdateReturns, Settle, RecheckPush, NextEvent, historyVars, vars
<1>5. CASE Interrupt
  BY <1>5 DEF Interrupt, ButtonEdge, VbusEdge, VbusTriggered, HoldTimer, AdvTimeout,
              ConfigTimer, Remote, RequestState, RequestTerminalAction, FromAdv, historyVars
<1>6. CASE Radio
  BY <1>6 DEF Radio, BleInitialised, AdvBegin, AdvStopped, AdvRestart, AdvCounted,
              AdvStarted, BondsCleared, NameUpdated, FromAdv, historyVars
<1>7. CASE BleTask
  BY <1>7 DEF BleTask, RunAdvUpdate, Connected, Disconnected, BleTaskReturns, FromAdv,
              historyVars
<1> QED BY <1>2, <1>3, <1>4, <1>5, <1>6, <1>7 DEF Next, ModeTask

LEMMA RunNext == TypeOK /\ TypeOK' /\ Shape(stack) /\ RunInv /\ [Next]_vars => RunInv'
<1> SUFFICES ASSUME TypeOK, TypeOK', Shape(stack), RunInv, [Next]_vars
             PROVE  RunInv'
  OBVIOUS
<1>1. requested_state' # "USB"
  BY NeverAskedForUsb DEF RunInv
<1>2. SUFFICES ASSUME ~reentered'
               PROVE  /\ OneRun(stack', mode_state')
                      /\ live' = LiveFor(ModeOf(stack', mode_state'))
                      /\ VbusInv'
  BY <1>1 DEF RunInv
<1>3. CASE TerminalReset
  <2>1. /\ vbus \in BOOLEAN /\ vbus' = vbus /\ mode_state' = "SLEEP"
        /\ stack' = BootStack /\ live' = [m \in Modes |-> 0]
        /\ event_queue' = BootQueue(vbus)
    BY <1>3 DEF TerminalReset, TypeOK
  <2> QED BY <2>1, BootRun DEF VbusInv
<1>4. CASE ~TerminalReset
  <2>1. ~reentered
    BY <1>2, <1>4, ReenteredStays
  <2>2. OneRun(stack, mode_state) /\ live = LiveFor(ModeOf(stack, mode_state)) /\ VbusInv
    BY <2>1 DEF RunInv
  <2>3. CASE SleepHandler \/ HeldHandler \/ BriefHandler \/ UsbHandler
    BY <2>1, <2>3, HandlerRun
  <2>4. CASE ~(SleepHandler \/ HeldHandler \/ BriefHandler \/ UsbHandler)
    <3>1. KeepsRun /\ (RecheckPush \/ (vbus /\ Returning(stack) => Returning(stack')))
      BY <1>2, <1>4, <2>2, <2>4, OtherRun, LoopRun, RadioRun, BleTaskRun
      DEF Next, Interrupt, ModeTask
    <3>2. VbusInv'
      BY <1>4, <2>2, <2>4, <3>1, CableQuiet DEF Next, Interrupt, ModeTask
    <3> QED BY <2>2, <3>1, <3>2 DEF KeepsRun
  <2> QED BY <2>3, <2>4
<1> QED BY <1>3, <1>4

-----------------------------------------------------------------------------
LEMMA RunAlwaysInv == Spec => [](TypeOK /\ Shape(stack) /\ RunInv)
<1>1. Init => Shape(stack) /\ RunInv
  BY ShapeInit, RunInit
<1>2. TypeOK /\ TypeOK' /\ Shape(stack) /\ RunInv /\ [Next]_vars
      => Shape(stack)' /\ RunInv'
  BY ShapeNext, RunNext
<1> QED BY <1>1, <1>2, TypeCorrect, PTL DEF Spec

(* As long as FS_Mode_Update is not entered inside itself, the Init and      *)
(* DeInit calls balance: the one mode that runs has been initialised once    *)
(* more than de-initialised, every other mode as often.                      *)
THEOREM LiveAlwaysMatchesMode == Spec => []LiveMatchesMode
<1>1. RunInv => LiveMatchesMode
  BY CurrentIsModeOf DEF RunInv, LiveMatchesMode, LiveFor
<1> QED BY <1>1, RunAlwaysInv, PTL

(* At rest a plugged-in device is not asleep and an unplugged one not in USB *)
(* mode, unless an event was lost, the cable was pulled between the re-check *)
(* and its push, or FS_Mode_Update was entered inside itself.                *)
THEOREM VbusAlwaysHonoured == Spec => []VbusHonoured
<1>1. TypeOK /\ RunInv => VbusHonoured
  <2> SUFFICES ASSUME TypeOK, RunInv, AtRest, ~overflowed, ~stale_recheck, ~reentered
               PROVE  IF vbus THEN mode_state # "SLEEP" ELSE mode_state # "USB"
    BY DEF VbusHonoured
  <2>1. stack = <<>> /\ event_queue = <<>> /\ ~vbus_irq
    BY DEF AtRest
  <2>2. ModeOf(stack, mode_state) = mode_state /\ ~Returning(stack)
    BY <2>1, ModeOfIdle
  <2>3. \A e : ~In(event_queue, e)
    BY <2>1 DEF In
  <2> QED BY <2>1, <2>2, <2>3 DEF RunInv, VbusInv, CableKnown
<1> QED BY <1>1, RunAlwaysInv, PTL

(* Only FS_Mode_ExecutePendingTerminalAction restarts the processor, and     *)
(* then no mode is running: until FS_Mode_Update has been entered inside its *)
(* own handler, for any queue and any inputs.                                *)
THEOREM AlwaysRestartsWhenQuiet == Spec => RestartOnlyWhenQuiet
<1>1. TypeOK /\ Shape(stack) /\ RunInv /\ [Next]_vars
      => [Restarts /\ ~reentered => \A m \in Modes : live[m] = 0]_vars
  <2> SUFFICES ASSUME TypeOK, Shape(stack), RunInv, Next, Restarts, ~reentered
               PROVE  \A m \in Modes : live[m] = 0
    OBVIOUS
  <2>1. stack # <<>> /\ Top.pc = "final" /\ stack' = BootStack /\ Top = stack[Len(stack)]
        /\ stack \in Seq(Frames)
    BY DEF Restarts, At, Top, TypeOK
  <2>2. Proper(Top) /\ Top \in Frames
    BY <2>1, TopIsFrame, EmptySeq DEF Shape
  <2>3. Top.task = "mode"
    BY <2>1, <2>2 DEF Proper
  <2>4. mode_state = "SLEEP"
    <3>1. BootStack = <<BleFrame("booting", "FAST")>>
          /\ BleFrame("booting", "FAST").task = "ble" /\ UpdateFrame.task = "mode"
      BY DEF BootStack, BleFrame, UpdateFrame
    <3>2. Len(BootStack) = 1 /\ BootStack[1].task = "ble"
      BY <3>1
    <3>3. stack' # stack
      BY <2>1, <2>3, <3>2
    <3>4. ~NextEvent
      <4>1. SUFFICES ASSUME NextEvent PROVE FALSE
        OBVIOUS
      <4>2. stack' = [stack EXCEPT ![Len(stack)] = UpdateFrame]
        BY <4>1 DEF NextEvent
      <4>3. Len(stack') = Len(stack) /\ stack'[Len(stack)] = UpdateFrame
        BY <2>1, <4>2, UpdateFrameType, TopReplaced
      <4> QED BY <2>1, <3>1, <3>2, <4>3
    <3>5. ~RunModeTask /\ ~UpdateReturns /\ ~Settle /\ ~RecheckPush
      BY <2>1 DEF RunModeTask, CanRunTask, WaitPoints, UpdateReturns, Settle, RecheckPush, At
    <3>6. ~(SleepHandler \/ HeldHandler \/ BriefHandler \/ UsbHandler)
      BY <2>1, HandlerQueue
    <3>7. ~Radio
      BY <2>1 DEF Radio, BleInitialised, AdvBegin, AdvStopped, AdvRestart, AdvCounted,
                  AdvStarted, BondsCleared, NameUpdated, At
    <3>8. ~BleTask
      BY <2>1, <3>3 DEF BleTask, RunAdvUpdate, Connected, Disconnected, BleTaskReturns,
                        CanRunHciTask, At
    <3>9. ~Interrupt /\ ~RunConfigTask
      BY <3>3 DEF Interrupt, ButtonEdge, VbusEdge, VbusTriggered, HoldTimer, AdvTimeout,
                  ConfigTimer, Remote, RequestState, RequestTerminalAction, RunConfigTask,
                  FromAdv
    <3>10. TerminalReset
      BY <3>4, <3>5, <3>6, <3>7, <3>8, <3>9 DEF Next, ModeTask
    <3> QED BY <3>10 DEF TerminalReset
  <2>5. ModeOf(stack, mode_state) = mode_state
    <3>1. Len(stack) \in DOMAIN stack
      BY <2>1, EmptySeq
    <3>2. ModeOf(stack, mode_state) = Holds(Top, mode_state)
      BY <2>1, <2>3, <3>1, ModeOfRun DEF RunInv
    <3> QED BY <2>1, <3>2 DEF Holds, Settled
  <2>6. live = LiveFor("SLEEP")
    BY <2>4, <2>5 DEF RunInv
  <2> QED BY <2>6 DEF LiveFor
<1> QED BY <1>1, RunAlwaysInv, PTL DEF Spec, RestartOnlyWhenQuiet
=============================================================================
