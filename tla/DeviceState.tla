---------------------------- MODULE DeviceState ----------------------------
(***************************************************************************)
(* The Device_State control point (FlySight/device_state.c).  The phone    *)
(* writes a command; a command that changes the mode or restarts the       *)
(* device is answered first and run afterwards: when the radio reports     *)
(* that the answer is through, or when the response timer expires.         *)
(*                                                                         *)
(* Around it: the transmit queue (BleTxQueue, seen here as the first-in    *)
(* first-out queue it implements), the radio, and the mode controller,     *)
(* which moves by itself and holds at most one accepted request.           *)
(***************************************************************************)
EXTENDS Integers, Sequences

CONSTANTS
  Capacity,  \* packets the transmit queue holds
  MaxWrites, \* bound: commands the phone writes
  MaxAir     \* bound: packets whose completion is outstanding

ASSUME BoundsAssumption ==
  Capacity \in Nat \ {0} /\ MaxWrites \in Nat /\ MaxAir \in Nat

VARIABLES
  pending_request,
  response_timer,  \* "off", or why it runs
  completing,      \* should_run was found true, the timer is not yet stopped
  tx,              \* the transmit queue
  air,             \* packets with the radio, their completion to come
  indicate,        \* Ds_control_point_Indication_Status
  mode, mode_request, \* mode.c: mode_state, and its pending request
  writes,          \* commands so far; each is known by its number
  runs,            \* history: how often the request of a command was run
  confirmed,       \* history: commands whose response is through
  crowded,         \* history: another command is being answered at the same time
  moved            \* history: the mode has changed since the arming

serviceVars == <<pending_request, response_timer, completing>>
radioVars   == <<tx, air, indicate>>
modeVars    == <<mode, mode_request>>
historyVars == <<runs, confirmed, crowded, moved>>
vars == <<serviceVars, radioVars, modeVars, writes, historyVars>>

Modes    == {"SLEEP", "ACTIVE", "USB"}   \* ACTIVE stands for every mode that
Targets  == {"SLEEP", "ACTIVE"}          \* is neither SLEEP nor USB
Requests == Targets \union {"TERMINAL"}
Commands == Requests \union {"QUERY"}    \* QUERY also: malformed or unknown
Numbers  == 1..MaxWrites

Pending(request, number, wait) ==
  [request |-> request, number |-> number, waiting_for_tx |-> wait,
   waiting_for_completion |-> FALSE]
NoRequest == Pending("NONE", 0, FALSE)
PendingRequests == [request : Requests \union {"NONE"},
                    number : Numbers \union {0},
                    waiting_for_tx : BOOLEAN, waiting_for_completion : BOOLEAN]

(* A queued packet: the response to a command, with or without the callback  *)
(* response_tx_accepted, or a packet of another service.                     *)
Packets == [number : Numbers \union {0}, callback : BOOLEAN]
Response(number, callback) == [number |-> number, callback |-> callback]
OtherPacket == Response(0, FALSE)

Numbered(packets) == [i \in DOMAIN packets |-> packets[i].number]

Room == Len(tx) < Capacity
Queued(packet) == tx' = IF Room THEN Append(tx, packet) ELSE tx

-----------------------------------------------------------------------------
(* FS_Mode_ValidateStateRequest and FS_Mode_ValidateTerminalAction of mode.c *)
ModeAccepts(request) ==
  /\ mode_request = "NONE"
  /\ mode # "USB"
  /\ request \in Targets => mode = "SLEEP" \/ request = "SLEEP"

(* Mutant of Validated: the target is not compared with the mode. *)
ValidatedLoosely(request) ==
  /\ pending_request.request = "NONE"
  /\ mode # "USB"

(* validate_mode_request and validate_terminal_request *)
Validated(request) ==
  /\ pending_request.request = "NONE"
  /\ mode # "USB"
  /\ request \in Targets => mode = "SLEEP" \/ request = "SLEEP"

(* Mutant of Take: the request is run but stays where it was. *)
TakeCopy == UNCHANGED pending_request

(* take_pending_request *)
Take == pending_request' = NoRequest

(* run_pending_request: taken, and passed to the mode controller *)
RunPending ==
  /\ Take
  /\ LET request == pending_request.request IN
     IF request = "NONE"
     THEN UNCHANGED <<mode_request, runs>>
     ELSE /\ runs' = [runs EXCEPT ![pending_request.number] = @ + 1]
          /\ mode_request' = IF ModeAccepts(request) THEN request ELSE mode_request
  /\ UNCHANGED mode

-----------------------------------------------------------------------------
(* DeviceState_Handle_DS_ControlPointWrite, for a query and for every        *)
(* command that is refused: only a response is sent.                         *)
WriteAnswered(command) ==
  /\ command = "QUERY" \/ ~Validated(command)
  /\ IF indicate THEN Queued(Response(writes', FALSE)) ELSE UNCHANGED tx
  /\ crowded' = TRUE
  /\ UNCHANGED <<pending_request, response_timer, moved>>

(* Mutant of TimerStarted: the fallback is only for responses that were queued. *)
TimerIfQueued == IF ~indicate THEN "defer" ELSE IF Room THEN "fallback" ELSE "off"

TimerStarted == IF indicate THEN "fallback" ELSE "defer"

(* The same for a request: it is armed, its timer started, it is answered.   *)
WriteArmed(command) ==
  /\ command \in Requests /\ Validated(command)
  /\ pending_request' = Pending(command, writes', indicate)
  /\ response_timer' = TimerStarted
  /\ IF indicate THEN Queued(Response(writes', TRUE)) ELSE UNCHANGED tx
  /\ crowded' = \E i \in DOMAIN (air \o Numbered(tx)) : (air \o Numbered(tx))[i] # 0
  /\ moved' = FALSE

ControlPointWrite(command) ==
  /\ ~completing
  /\ writes < MaxWrites
  /\ writes' = writes + 1
  /\ WriteAnswered(command) \/ WriteArmed(command)
  /\ UNCHANGED <<completing, air, indicate, modeVars, runs, confirmed>>

(* response_fallback_timer, in the timer interrupt *)
ResponseTimer ==
  /\ response_timer # "off"
  /\ response_timer' = "off"
  /\ RunPending
  /\ UNCHANGED <<completing, radioVars, writes, confirmed, crowded, moved>>

(* Mutant of Accepted: the request still waits for the queue. *)
AcceptedKeepsFlag == [pending_request EXCEPT !.waiting_for_completion = TRUE]

(* response_tx_accepted *)
Accepted == [pending_request EXCEPT !.waiting_for_tx = FALSE,
                                    !.waiting_for_completion = TRUE]

(* The transmit queue gives its first packet to the radio and calls its      *)
(* callback.  The callback is called for every status                        *)
(* but a full pool: also when the radio will not send the packet.            *)
Transmit ==
  /\ ~completing
  /\ tx # <<>>
  /\ tx' = Tail(tx)
  /\ air' \in {air, Append(air, Head(tx).number)} /\ Len(air') <= MaxAir
  /\ pending_request' =
       IF Head(tx).callback /\ pending_request.waiting_for_tx
       THEN Accepted ELSE pending_request
  /\ UNCHANGED <<response_timer, completing, indicate, modeVars, writes, historyVars>>

(* Mutant of IsResponse: it is not asked which characteristic the event is   *)
(* about.                                                                    *)
IsAny(number) == number \in Numbers \union {0}

IsResponse(number) == number # 0

(* DeviceState_Handle_DS_ControlPointNotificationComplete, up to the check;  *)
(* the event says which characteristic it is about, not which response.      *)
NotificationComplete ==
  /\ ~completing
  /\ air # <<>>
  /\ air' = Tail(air)
  /\ confirmed' = confirmed \union ({Head(air)} \ {0})
  /\ completing' = (IsResponse(Head(air)) /\ pending_request.waiting_for_completion)
  /\ UNCHANGED <<pending_request, response_timer, tx, indicate, modeVars, writes,
                 runs, crowded, moved>>

(* Mutant of StopTimer: the timer is left running. *)
LeaveTimer == UNCHANGED response_timer

StopTimer == response_timer' = "off"

(* HW_TS_Stop and run_pending_request; the timer may have run it meanwhile.  *)
CompletionRuns ==
  /\ completing
  /\ completing' = FALSE
  /\ StopTimer
  /\ RunPending
  /\ UNCHANGED <<radioVars, writes, confirmed, crowded, moved>>

-----------------------------------------------------------------------------
(* Around the service. *)

(* Another service queues a packet. *)
OtherSends ==
  /\ ~completing
  /\ Queued(OtherPacket)
  /\ UNCHANGED <<serviceVars, air, indicate, modeVars, writes, historyVars>>

(* BLE_TX_Queue_Flush, from CRS *)
Flush ==
  /\ ~completing
  /\ tx' = <<>>
  /\ UNCHANGED <<serviceVars, air, indicate, modeVars, writes, historyVars>>

(* The phone subscribes to responses or stops. *)
Subscribe ==
  /\ ~completing
  /\ indicate' = ~indicate
  /\ UNCHANGED <<serviceVars, tx, air, modeVars, writes, historyVars>>

(* The link is lost: completions do not come; queued packets stay.           *)
Disconnect ==
  /\ ~completing
  /\ indicate' = FALSE
  /\ air' = <<>>
  /\ UNCHANGED <<serviceVars, tx, modeVars, writes, historyVars>>

(* The user changes the mode. *)
ModeMoves ==
  /\ ~completing
  /\ mode' \in Modes \ {mode}
  /\ moved' = TRUE
  /\ UNCHANGED <<serviceVars, radioVars, mode_request, writes, runs, confirmed,
                 crowded>>

(* The mode controller resolves the request it accepted: it is carried out,  *)
(* or dropped because the device has been plugged in meanwhile.              *)
ModeResolves ==
  /\ ~completing
  /\ mode_request \in Targets
  /\ mode_request' = "NONE"
  /\ mode' = IF mode = "USB" THEN "USB" ELSE mode_request
  /\ moved' = (moved \/ mode' # mode)
  /\ UNCHANGED <<serviceVars, radioVars, writes, runs, confirmed, crowded>>

ModeDrops ==
  /\ ~completing
  /\ mode_request = "TERMINAL" /\ mode = "USB"
  /\ mode_request' = "NONE"
  /\ UNCHANGED <<serviceVars, radioVars, mode, writes, historyVars>>

(* The mode controller executes the terminal action: the device restarts.    *)
Restart ==
  /\ ~completing
  /\ mode_request = "TERMINAL" /\ mode # "USB"
  /\ pending_request' = NoRequest /\ response_timer' = "off" /\ completing' = FALSE
  /\ tx' = <<>> /\ air' = <<>> /\ indicate' = FALSE
  /\ mode' = "SLEEP" /\ mode_request' = "NONE"
  /\ UNCHANGED <<writes, historyVars>>

-----------------------------------------------------------------------------
Init ==
  /\ pending_request = NoRequest /\ response_timer = "off" /\ completing = FALSE
  /\ tx = <<>> /\ air = <<>> /\ indicate = FALSE
  /\ mode = "SLEEP" /\ mode_request = "NONE"
  /\ writes = 0
  /\ runs = [n \in Numbers |-> 0] /\ confirmed = {}
  /\ crowded = FALSE /\ moved = FALSE

Service == (\E command \in Commands : ControlPointWrite(command))
           \/ ResponseTimer \/ NotificationComplete \/ CompletionRuns
Around  == Transmit \/ OtherSends \/ Flush \/ Subscribe \/ Disconnect
           \/ ModeMoves \/ ModeResolves \/ ModeDrops \/ Restart

Next == Service \/ Around

Spec == Init /\ [][Next]_vars

(* A started timer expires and a task that runs goes on.  The radio and the  *)
(* phone owe nothing.                                                        *)
FairSpec == Spec /\ WF_vars(ResponseTimer) /\ WF_vars(CompletionRuns)

-----------------------------------------------------------------------------
(* Every variable has its type; the flags of the request are exclusive.      *)
TypeOK ==
  /\ pending_request \in PendingRequests
  /\ ~(pending_request.waiting_for_tx /\ pending_request.waiting_for_completion)
  /\ response_timer \in {"off", "fallback", "defer"} /\ completing \in BOOLEAN
  /\ tx \in Seq(Packets) /\ Len(tx) <= Capacity
  /\ air \in Seq(Numbers \union {0}) /\ indicate \in BOOLEAN
  /\ mode \in Modes /\ mode_request \in Requests \union {"NONE"}
  /\ writes \in 0..MaxWrites
  /\ runs \in [Numbers -> Nat] /\ confirmed \subseteq Numbers
  /\ crowded \in BOOLEAN /\ moved \in BOOLEAN

(* A request is run at most once, however the completion, the timer and the  *)
(* next command race; one that waits has not been run.                       *)
RunOnce ==
  /\ \A n \in Numbers : runs[n] <= 1
  /\ pending_request.request # "NONE" => runs[pending_request.number] = 0

(* The response timer runs exactly while a request waits: without it a       *)
(* request whose response is lost would make the service BUSY for ever, and  *)
(* one left over would run the next request before its time.                 *)
TimerMatchesPending ==
  /\ response_timer # "off" => pending_request.request # "NONE"
  /\ pending_request.request # "NONE" => response_timer # "off"

(* A request that was accepted is run once or waits for its answer under a   *)
(* timer, however completion, timer and next command race.                   *)
RequestsSafe ==
  TypeOK /\ RunOnce /\ TimerMatchesPending

Ran(n) == runs'[n] > runs[n]

(* A phone that waits for each answer before it sends the next command gets  *)
(* the answer before the request is run, unless the answer took longer than  *)
(* the fallback.  (If it does not wait, the completion of another response   *)
(* may run the request: "crowded".)                                          *)
AnsweredBeforeRun ==
  [][\A n \in Numbers :
       Ran(n) /\ response_timer = "fallback" /\ completing /\ ~completing' /\ ~crowded
         => n \in confirmed]_vars

(* A request that was answered with SUCCESS is accepted by the mode          *)
(* controller when it is run, unless the mode has changed in between or an   *)
(* earlier request is still with the mode controller: the two copies of the  *)
(* validation, here and in mode.c, agree.                                    *)
SuccessHonoured ==
  [][\A n \in Numbers : Ran(n) /\ ~moved /\ mode_request = "NONE"
       => mode_request' = pending_request.request]_vars

(* The answer comes first, for a phone that waits for the answers (not       *)
(* crowded), and is kept.                                                    *)
AnswerHonoured ==
  AnsweredBeforeRun /\ SuccessHonoured

(* The service is not BUSY for ever, whatever is lost on the way. *)
PendingResolved ==
  pending_request.request # "NONE" ~> pending_request.request = "NONE"
=============================================================================
