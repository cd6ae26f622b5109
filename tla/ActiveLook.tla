----------------------------- MODULE ActiveLook -----------------------------
(***************************************************************************)
(* The display glasses (FlySight/activelook.c): ACTIVE mode looks for      *)
(* them, connects (app_ble.c), discovers their services                    *)
(* (activelook_client.c) and refreshes the display with a timer.           *)
(*                                                                         *)
(* The tasks that give commands to the radio exclude each other: while one *)
(* waits for the answer to its command the others are paused, and so are   *)
(* the events.  The mode task is not: FS_ActiveLook_Init and _DeInit may   *)
(* come inside such a wait, and so may the timer.  The radio and the       *)
(* glasses are external.                                                   *)
(***************************************************************************)
EXTENDS Integers, Sequences

CONSTANTS
  MaxSessions,   \* bound: sessions of ACTIVE mode
  MaxLosses,     \* bound: links lost, scans that miss the glasses
  MaxFaults      \* bound: commands the radio refuses

VARIABLES
  session,       \* between FS_ActiveLook_Init and _DeInit
  s_state, alTask,
  timer, stray,  \* the timer timer_id is of; an earlier one still runs
  status,        \* EndDevice_Connection_Status
  scanTask, connTask, discTask,
  found,         \* EndDevice1Found
  discState, rxCharFound,
  call,          \* the command whose answer is awaited
  radio, link, gatt,   \* what the radio does; a procedure of the client is under way
  events,        \* events not yet handled
  sessions, losses, faults,
  configured,    \* history: the configuration was sent over this link
  gaveUp,        \* history: a refused command is never repeated
  outlived       \* history: a session began with the glasses of the last one

display == <<s_state, alTask, timer, stray>>
tasks   == <<scanTask, connTask, discTask>>
client  == <<discState, rxCharFound>>
air     == <<radio, link, gatt, events>>
bounds  == <<sessions, losses, faults>>
history == <<configured, gaveUp, outlived>>
vars == <<session, display, status, tasks, found, client, call, air, bounds, history>>

-----------------------------------------------------------------------------
(* FS_ActiveLook_Init and FS_ActiveLook_DeInit, by the mode task.  The timer *)
(* that is deleted may be started again by a task that waits; then the next  *)
(* one is another.                                                           *)
FS_ActiveLook_Init ==
  /\ ~session /\ sessions < MaxSessions /\ sessions' = sessions + 1
  /\ session' = TRUE /\ s_state' = "INIT" /\ scanTask' = TRUE
  /\ timer' = "stopped" /\ stray' = (stray \/ timer = "running")
  /\ outlived' = (status # "IDLE" \/ link # "down" \/ events # <<>>)
  /\ UNCHANGED <<alTask, status, connTask, discTask, found, client, call, air,
                 losses, faults, configured, gaveUp>>

FS_ActiveLook_DeInit ==
  /\ session /\ session' = FALSE
  /\ s_state' = "INIT" /\ timer' = "none" /\ discTask' = TRUE
  /\ UNCHANGED <<alTask, stray, status, scanTask, connTask, found, client, call, air,
                 bounds, history>>

(* FS_ActiveLook_Timer, an interrupt. *)
FS_ActiveLook_Timer ==
  /\ timer = "running" \/ stray
  /\ s_state = "READY" /\ s_state' = "UPDATE" /\ alTask' = TRUE
  /\ UNCHANGED <<session, timer, stray, status, tasks, found, client, call, air, bounds,
                 history>>

-----------------------------------------------------------------------------
Free == call = "none"
Answered(command) == call = command /\ call' = "none"

(* A command is refused by accident, which is counted, or because the radio  *)
(* cannot take it.                                                           *)
Refused == faults < MaxFaults /\ faults' = faults + 1

-----------------------------------------------------------------------------
(* Scan_Request. *)
ScanRequest ==
  /\ Free /\ scanTask /\ scanTask' = FALSE
  /\ IF status # "CONNECTED" THEN found' = FALSE /\ call' = "scan"
                             ELSE UNCHANGED <<found, call>>
  /\ UNCHANGED <<session, display, status, connTask, discTask, client, air, bounds,
                 history>>

ScanAnswered ==
  /\ Answered("scan")
  /\ \/ radio = "idle" /\ radio' = "scanning" /\ UNCHANGED <<faults, gaveUp>>
     \/ radio # "idle" /\ UNCHANGED <<radio, faults, gaveUp>>
     \/ radio = "idle" /\ Refused /\ gaveUp' = TRUE /\ UNCHANGED radio
  /\ UNCHANGED <<session, display, status, tasks, found, client, link, gatt, events,
                 sessions, losses, configured, outlived>>

(* Connect_Request. *)
ConnectRequest ==
  /\ Free /\ connTask /\ connTask' = FALSE
  /\ call' = IF status # "CONNECTED" THEN "connect" ELSE call
  /\ UNCHANGED <<session, display, status, scanTask, discTask, found, client, air, bounds,
                 history>>

CanConnect == radio = "idle" /\ link = "down"

ConnectAnswered ==
  /\ Answered("connect")
  /\ \/ /\ CanConnect /\ radio' = "connecting" /\ status' = "CONNECTING"
        /\ UNCHANGED <<faults, gaveUp>>
     \/ ~CanConnect /\ status' = "IDLE" /\ UNCHANGED <<radio, faults, gaveUp>>
     \/ CanConnect /\ Refused /\ status' = "IDLE" /\ gaveUp' = TRUE /\ UNCHANGED radio
  /\ UNCHANGED <<session, display, tasks, found, client, link, gatt, events, sessions,
                 losses, configured, outlived>>

(* Disconnect_Request. *)
DisconnectRequest ==
  /\ Free /\ discTask /\ discTask' = FALSE
  /\ call' = IF status = "CONNECTED" THEN "terminate" ELSE call
  /\ UNCHANGED <<session, display, status, scanTask, connTask, found, client, air, bounds,
                 history>>

TerminateAnswered ==
  /\ Answered("terminate") /\ status' = "IDLE"
  /\ \/ link = "up" /\ link' = "closing" /\ UNCHANGED <<faults, gaveUp>>
     \/ link # "up" /\ UNCHANGED <<link, faults, gaveUp>>
     \/ link = "up" /\ Refused /\ gaveUp' = TRUE /\ UNCHANGED link
  /\ UNCHANGED <<session, display, tasks, found, client, radio, gatt, events, sessions,
                 losses, configured, outlived>>

-----------------------------------------------------------------------------
(* The radio.  A scan takes seconds: what waited for its turn meanwhile has  *)
(* had it.                                                                   *)
Quiet == Free /\ ~scanTask /\ ~connTask /\ ~discTask /\ events = <<>>

ScanEnds ==
  /\ radio = "scanning" /\ Quiet /\ radio' = "idle"
  /\ \/ found' = (link = "down") /\ UNCHANGED losses
     \/ losses < MaxLosses /\ losses' = losses + 1 /\ found' = FALSE
  /\ events' = Append(events, "scanned")
  /\ UNCHANGED <<session, display, status, tasks, client, call, link, gatt, sessions,
                 faults, history>>

LinkUp ==
  /\ radio = "connecting" /\ link = "down" /\ radio' = "idle" /\ link' = "up"
  /\ events' = Append(events, "connected") /\ configured' = FALSE
  /\ UNCHANGED <<session, display, status, tasks, found, client, call, gatt, bounds,
                 gaveUp, outlived>>

(* A procedure that is under way ends too. *)
LinkDown ==
  /\ \/ link = "closing" /\ UNCHANGED losses
     \/ link = "up" /\ losses < MaxLosses /\ losses' = losses + 1
  /\ link' = "down" /\ gatt' = FALSE
  /\ events' = events \o (IF gatt THEN <<"proc">> ELSE <<>>) \o <<"disconnected">>
  /\ UNCHANGED <<session, display, status, tasks, found, client, call, radio, sessions,
                 faults, history>>

ProcedureEnds ==
  /\ gatt /\ gatt' = FALSE /\ events' = Append(events, "proc")
  /\ UNCHANGED <<session, display, status, tasks, found, client, call, radio, link, bounds,
                 history>>

-----------------------------------------------------------------------------
(* SVCCTL_App_Notification. *)
Handle(event) ==
  /\ Free /\ events # <<>> /\ Head(events) = event /\ events' = Tail(events)
  /\ UNCHANGED <<session, stray, discTask, found, radio, link, gatt, bounds, history>>

(* Mutant of Retries: the scan is not repeated. *)
RetriesNever == FALSE
Retries == ~found /\ status # "CONNECTED"

HandleScanned ==
  /\ Handle("scanned")
  /\ connTask' = (connTask \/ (found /\ status # "CONNECTED"))
  /\ scanTask' = (scanTask \/ Retries)
  /\ UNCHANGED <<s_state, alTask, timer, status, client, call>>

HandleConnected ==
  /\ Handle("connected")
  /\ status' = "CONNECTED"
  /\ discState' = "EXCH_MTU" /\ rxCharFound' = FALSE /\ call' = "discover"
  /\ UNCHANGED <<s_state, alTask, timer, scanTask, connTask>>

(* Mutant of StateWithout: the display goes on from where it was. *)
StateWithoutReset == s_state
StateWithout == "INIT"

(* FS_ActiveLook_HandleDisconnect. *)
HandleDisconnected ==
  /\ Handle("disconnected")
  /\ status' = "IDLE" /\ s_state' = StateWithout /\ scanTask' = TRUE
  /\ timer' = IF timer = "running" THEN "stopped" ELSE timer
  /\ UNCHANGED <<alTask, connTask, client, call>>

(* OnActiveLookDiscoveryComplete. *)
Complete(rx) ==
  IF rx THEN s_state' = "CFG_WRITE" /\ alTask' = TRUE ELSE UNCHANGED <<s_state, alTask>>

(* The end of one procedure begins the next; a procedure that failed ends as *)
(* well.  The glasses have the display's service, and may have a battery's.  *)
Discover(next) == discState' = next /\ call' = "discover" /\ UNCHANGED <<s_state, alTask>>
Finish(rx)     == discState' = "IDLE" /\ UNCHANGED call /\ Complete(rx)

ProcedureDone ==
  /\ Handle("proc")
  /\ rxCharFound' = (rxCharFound \/ (discState = "CHAR" /\ link = "up"))
  /\ \/ discState = "EXCH_MTU" /\ Discover("SVC")
     \/ discState = "SVC" /\ link = "up" /\ Discover("CHAR")
     \/ discState = "SVC" /\ link # "up" /\ Finish(FALSE)
     \/ discState = "CHAR" /\ (Discover("BATTERY") \/ Finish(rxCharFound'))
     \/ discState = "BATTERY" /\ (Discover("DESC") \/ Finish(rxCharFound))
     \/ /\ discState = "DESC" /\ discState' = "IDLE"
        /\ \/ call' = "notify" /\ UNCHANGED <<s_state, alTask>>
           \/ UNCHANGED call /\ Complete(rxCharFound)
     \/ /\ discState = "NOTIFY" /\ discState' = "IDLE" /\ call' = "read"
        /\ UNCHANGED <<s_state, alTask>>
     \/ discState = "IDLE" /\ UNCHANGED <<discState, call, s_state, alTask>>
  /\ UNCHANGED <<timer, status, scanTask, connTask>>

(* The answer to the command that begins a procedure.  Without the first     *)
(* three there is no display; the others are of the battery.                 *)
Needed == {"EXCH_MTU", "SVC", "CHAR"}

DiscoverAnswered ==
  /\ Answered("discover")
  /\ \/ link = "up" /\ gatt' = TRUE
        /\ UNCHANGED <<discState, s_state, alTask, faults, gaveUp>>
     \/ /\ IF link = "up" THEN Refused ELSE UNCHANGED faults
        /\ discState' = "IDLE" /\ UNCHANGED gatt
        /\ IF discState \in Needed
           THEN gaveUp' = (gaveUp \/ link = "up") /\ UNCHANGED <<s_state, alTask>>
           ELSE Complete(rxCharFound) /\ UNCHANGED gaveUp
  /\ UNCHANGED <<session, timer, stray, status, tasks, found, rxCharFound, radio, link, events,
                 sessions, losses, configured, outlived>>

NotifyAnswered ==
  /\ Answered("notify")
  /\ \/ link = "up" /\ gatt' = TRUE /\ discState' = "NOTIFY" /\ UNCHANGED faults
     \/ /\ IF link = "up" THEN Refused ELSE UNCHANGED faults
        /\ UNCHANGED <<gatt, discState>>
  /\ Complete(rxCharFound)
  /\ UNCHANGED <<session, timer, stray, status, tasks, found, rxCharFound, radio, link, events,
                 sessions, losses, history>>

ReadAnswered ==
  /\ Answered("read") /\ gatt' \in {gatt, link = "up"}
  /\ UNCHANGED <<session, display, status, tasks, found, client, radio, link, events, bounds,
                 history>>

-----------------------------------------------------------------------------
(* FS_ActiveLook_Task.  Its state is assigned when the command is answered,  *)
(* whatever became of it in between.                                         *)
Writes == [CFG_WRITE |-> "cfg", SETUP |-> "setup", CLEAR |-> "clear", UPDATE |-> "update"]

TaskBegins ==
  /\ Free /\ alTask /\ alTask' = FALSE
  /\ call' = IF s_state \in DOMAIN Writes THEN Writes[s_state] ELSE call
  /\ UNCHANGED <<session, s_state, timer, stray, status, tasks, found, client, air, bounds,
                 history>>

(* The configuration is sent again until the radio takes it, and so is the   *)
(* set-up of mode 1.                                                         *)
Written(command, next) ==
  /\ Answered(command)
  /\ \/ /\ link = "up" /\ rxCharFound /\ s_state' = next /\ alTask' = TRUE
        /\ configured' = TRUE /\ UNCHANGED faults
     \/ /\ IF link = "up" /\ rxCharFound THEN Refused ELSE UNCHANGED faults
        /\ alTask' = TRUE /\ UNCHANGED <<s_state, configured>>
  /\ UNCHANGED timer

(* A clear or an update that the radio refused counts as done. *)
Shown(command) ==
  /\ Answered(command) /\ s_state' = "READY"
  /\ timer' = IF command = "clear" THEN "running" ELSE timer
  /\ UNCHANGED <<alTask, faults, configured>>

TaskGoesOn ==
  /\ Written("cfg", "SETUP") \/ Written("setup", "CLEAR") \/ Shown("clear") \/ Shown("update")
  /\ UNCHANGED <<session, stray, status, tasks, found, client, air, sessions, losses,
                 gaveUp, outlived>>

-----------------------------------------------------------------------------
Init ==
  /\ session = FALSE /\ s_state = "INIT" /\ alTask = FALSE /\ timer = "none" /\ stray = FALSE
  /\ status = "IDLE" /\ scanTask = FALSE /\ connTask = FALSE /\ discTask = FALSE
  /\ found = FALSE /\ discState = "IDLE" /\ rxCharFound = FALSE /\ call = "none"
  /\ radio = "idle" /\ link = "down" /\ gatt = FALSE /\ events = <<>>
  /\ sessions = 0 /\ losses = 0 /\ faults = 0
  /\ configured = FALSE /\ gaveUp = FALSE /\ outlived = FALSE

Mode     == FS_ActiveLook_Init \/ FS_ActiveLook_DeInit
Answers  == \/ ScanAnswered \/ ConnectAnswered \/ TerminateAnswered
            \/ DiscoverAnswered \/ NotifyAnswered \/ ReadAnswered \/ TaskGoesOn
Requests == ScanRequest \/ ConnectRequest \/ DisconnectRequest \/ TaskBegins
Handlers == HandleScanned \/ HandleConnected \/ HandleDisconnected \/ ProcedureDone
Air      == ScanEnds \/ LinkUp \/ LinkDown \/ ProcedureEnds

Next == Mode \/ FS_ActiveLook_Timer \/ Answers \/ Requests \/ Handlers \/ Air

Spec == Init /\ [][Next]_vars

(* The radio answers, ends what it began and finds glasses that are there;   *)
(* the tasks and the events have their turns, among each other too.          *)
Turns    == Answers \/ Requests
Proceeds == ScanEnds \/ LinkUp \/ ProcedureEnds
Closes   == link = "closing" /\ LinkDown
Fairness == WF_vars(Turns) /\ WF_vars(Proceeds) /\ WF_vars(Closes) /\ SF_vars(Handlers)
FairSpec == Spec /\ Fairness

-----------------------------------------------------------------------------
TypeOK ==
  /\ s_state \in {"INIT", "CFG_WRITE", "SETUP", "CLEAR", "READY", "UPDATE"}
  /\ timer \in {"none", "stopped", "running"}
  /\ status \in {"IDLE", "CONNECTING", "CONNECTED"}
  /\ discState \in {"IDLE", "EXCH_MTU", "SVC", "CHAR", "BATTERY", "DESC", "NOTIFY"}
  /\ call \in {"none", "scan", "connect", "terminate", "discover", "notify", "read",
               "cfg", "setup", "clear", "update"}
  /\ radio \in {"idle", "scanning", "connecting"} /\ link \in {"down", "up", "closing"}
  /\ events \in Seq({"scanned", "connected", "proc", "disconnected"}) /\ Len(events) <= 4
  /\ sessions \in 0..MaxSessions /\ losses \in 0..MaxLosses /\ faults \in 0..MaxFaults
  /\ \A flag \in {session, alTask, stray, scanTask, connTask, discTask, found,
                  rxCharFound, gatt, configured, gaveUp, outlived} : flag \in BOOLEAN

(* Nothing is drawn before the glasses have the configuration, although the  *)
(* link may be lost, and another one made, at any moment.                    *)
DrawnWhenSetUp ==
  link = "up" /\ s_state \in {"SETUP", "CLEAR", "READY", "UPDATE"} => configured

(* In a session a display that is set up is refreshed. *)
RefreshedWhenReady ==
  session /\ ~outlived /\ s_state = "READY" => timer = "running"

(* What is drawn is drawn on glasses that are set up, again and again.       *)
DisplayRight ==
  DrawnWhenSetUp /\ RefreshedWhenReady

Up == s_state \in {"READY", "UPDATE"} \/ ~session

(* In a session the display comes up, and again after the link was lost:     *)
(* unless a command was refused that is not repeated, or the glasses were    *)
(* not yet disconnected, or connected again, when the session began.         *)
DisplayComesUp == session ~> (Up \/ gaveUp \/ outlived)

(* "so the device can reconnect without requiring a FlySight power cycle"    *)
(* (activelook.c:304-305): the display comes up in every session.            *)
DisplayAlwaysComesUp == session ~> (Up \/ gaveUp)
=============================================================================
