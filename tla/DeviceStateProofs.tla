-------------------------- MODULE DeviceStateProofs --------------------------
(***************************************************************************)
(* Proofs about DeviceState, for every length of the transmit queue, any   *)
(* number of commands and any number of packets with the radio.            *)
(***************************************************************************)
EXTENDS DeviceState, SequenceTheorems, TLAPS

Waits == pending_request.request # "NONE"

(* A request that waits carries the number of a command that was written;    *)
(* commands to come have not been run.                                       *)
NumbersInv ==
  /\ IF Waits THEN pending_request.number \in 1..writes ELSE pending_request = NoRequest
  /\ \A n \in Numbers : n > writes => runs[n] = 0

(* Unless another command is being answered, every response on its way is    *)
(* that of the request that waits.                                           *)
OnlyItsResponse ==
  ~crowded /\ Waits =>
    /\ \A i \in DOMAIN air : air[i] \in {0, pending_request.number}
    /\ \A i \in DOMAIN tx : tx[i].number \in {0, pending_request.number}

(* What is about to be run by its completion is answered. *)
CompletingInv ==
  completing /\ ~crowded /\ Waits => pending_request.number \in confirmed

(* While the mode does not move the request stays as valid as it was.        *)
StillValid ==
  Waits /\ ~moved =>
    /\ mode # "USB"
    /\ pending_request.request \in Targets =>
         mode = "SLEEP" \/ pending_request.request = "SLEEP"

IInv ==
  RequestsSafe /\ NumbersInv /\ OnlyItsResponse /\ CompletingInv /\ StillValid

-----------------------------------------------------------------------------
LEMMA NoRequestKind ==
  NoRequest \in PendingRequests /\ NoRequest.request = "NONE" /\ NoRequest.number = 0
  /\ NoRequest.waiting_for_tx = FALSE /\ NoRequest.waiting_for_completion = FALSE
BY DEF NoRequest, Pending, PendingRequests

(* Two sequences without a number, one behind the other. *)
LEMMA Joined ==
  ASSUME NEW S, NEW s \in Seq(S), NEW t \in Seq(S),
         \A i \in DOMAIN (s \o t) : (s \o t)[i] = 0
  PROVE  (\A i \in DOMAIN s : s[i] = 0) /\ (\A j \in DOMAIN t : t[j] = 0)
<1>1. /\ s \o t \in Seq(S) /\ Len(s \o t) = Len(s) + Len(t)
      /\ \A i \in 1..(Len(s) + Len(t)) :
           (s \o t)[i] = IF i <= Len(s) THEN s[i] ELSE t[i - Len(s)]
  BY ConcatProperties
<1>2. /\ DOMAIN (s \o t) = 1..(Len(s) + Len(t)) /\ DOMAIN s = 1..Len(s)
      /\ DOMAIN t = 1..Len(t) /\ Len(s) \in Nat /\ Len(t) \in Nat
  BY <1>1, LenProperties
<1>3. ASSUME NEW i \in DOMAIN s PROVE s[i] = 0
  BY <1>1, <1>2, <1>3
<1>4. ASSUME NEW j \in DOMAIN t PROVE t[j] = 0
  <2>1. j + Len(s) \in 1..(Len(s) + Len(t)) /\ ~(j + Len(s) <= Len(s))
          /\ (j + Len(s)) - Len(s) = j
    BY <1>2, <1>4
  <2>2. (s \o t)[j + Len(s)] = t[j]
    BY <1>1, <2>1
  <2> QED BY <1>2, <2>1, <2>2
<1> QED BY <1>3, <1>4

LEMMA Kinds ==
  ASSUME IInv
  PROVE  /\ pending_request \in PendingRequests
         /\ pending_request.request \in Requests \union {"NONE"}
         /\ Waits => pending_request.number \in Numbers
         /\ writes \in Nat /\ writes <= MaxWrites /\ MaxWrites \in Nat
         /\ runs \in [Numbers -> Nat]
         /\ "NONE" \notin Requests
<1>1. TypeOK /\ NumbersInv
  BY DEF IInv, RequestsSafe
<1>2. /\ pending_request \in PendingRequests
      /\ writes \in Nat /\ writes <= MaxWrites /\ MaxWrites \in Nat
      /\ runs \in [Numbers -> Nat]
  BY <1>1, BoundsAssumption DEF TypeOK
<1> QED BY <1>1, <1>2 DEF NumbersInv, Numbers, PendingRequests, Requests, Targets

(* A queue that takes a packet or drops it. *)
LEMMA QueuedKind ==
  ASSUME TypeOK, NEW p \in Packets, Queued(p)
  PROVE  /\ tx' \in Seq(Packets) /\ Len(tx') <= Capacity
         /\ \A i \in DOMAIN tx' : tx'[i] = p \/ \E j \in DOMAIN tx : tx'[i] = tx[j]
<1>1. tx \in Seq(Packets) /\ Len(tx) <= Capacity /\ Len(tx) \in Nat /\ Capacity \in Nat
  BY BoundsAssumption DEF TypeOK
<1>2. CASE Room
  <2>1. tx' = Append(tx, p)
    BY <1>2 DEF Queued
  <2>2. tx' \in Seq(Packets) /\ Len(tx') = Len(tx) + 1
    BY <1>1, <2>1
  <2>3. \A i \in DOMAIN tx' : tx'[i] = p \/ (i \in DOMAIN tx /\ tx'[i] = tx[i])
    BY <1>1, <2>1, <2>2
  <2> QED BY <1>1, <1>2, <2>2, <2>3 DEF Room
<1>3. CASE ~Room
  BY <1>1, <1>3 DEF Queued
<1> QED BY <1>2, <1>3

LEMMA NumberedKind ==
  ASSUME tx \in Seq(Packets)
  PROVE  /\ Numbered(tx) \in Seq(Numbers \union {0}) /\ Len(Numbered(tx)) = Len(tx)
         /\ \A j \in DOMAIN tx : Numbered(tx)[j] = tx[j].number
<1>1. Len(tx) \in Nat /\ DOMAIN tx = 1..Len(tx) /\ \A j \in DOMAIN tx : tx[j] \in Packets
  OBVIOUS
<1>2. \A j \in DOMAIN tx : tx[j].number \in Numbers \union {0}
  BY <1>1 DEF Packets
<1>3. Numbered(tx) \in [1..Len(tx) -> Numbers \union {0}]
  BY <1>1, <1>2 DEF Numbered
<1>4. Numbered(tx) \in Seq(Numbers \union {0})
  BY <1>1, <1>3
<1>5. Len(Numbered(tx)) = Len(tx)
  <2>1. DOMAIN Numbered(tx) = 1..Len(tx) /\ Len(Numbered(tx)) \in Nat
          /\ DOMAIN Numbered(tx) = 1..Len(Numbered(tx))
    BY <1>3, <1>4, LenProperties
  <2> QED BY <1>1, <2>1
<1> QED BY <1>4, <1>5 DEF Numbered

(* The request is taken and run, once. *)
LEMMA RunKeeps ==
  ASSUME IInv, RunPending, UNCHANGED writes
  PROVE  /\ pending_request' = NoRequest /\ mode' = mode
         /\ mode_request' \in Requests \union {"NONE"}
         /\ runs' \in [Numbers -> Nat] /\ \A n \in Numbers : runs'[n] <= 1
         /\ \A n \in Numbers : n > writes' => runs'[n] = 0
<1>1. RunOnce /\ NumbersInv /\ TypeOK
  BY DEF IInv, RequestsSafe
<1>2. pending_request' = NoRequest /\ mode' = mode
  BY DEF RunPending, Take
<1>3. CASE ~Waits
  <2>1. UNCHANGED <<mode_request, runs>>
    BY <1>3 DEF RunPending, Waits
  <2> QED BY <1>1, <1>2, <2>1 DEF RunOnce, NumbersInv, TypeOK
<1>4. CASE Waits
  <2> DEFINE k == pending_request.number
  <2>1. /\ runs' = [runs EXCEPT ![k] = @ + 1]
        /\ mode_request' \in {pending_request.request, mode_request}
    BY <1>4 DEF RunPending, Waits
  <2>2. k \in Numbers /\ runs[k] = 0 /\ k <= writes
    BY <1>1, <1>4, Kinds DEF NumbersInv, RunOnce, Waits
  <2>3. mode_request' \in Requests \union {"NONE"}
    BY <1>1, <2>1, Kinds DEF TypeOK
  <2> HIDE DEF k
  <2>4. \A n \in Numbers : runs'[n] = IF n = k THEN 1 ELSE runs[n]
    BY <2>1, <2>2, Kinds
  <2>5. runs' \in [Numbers -> Nat]
    BY <2>1, <2>2, Kinds
  <2>6. \A n \in Numbers : n > writes => n # k
    BY <2>2, Kinds DEF Numbers
  <2> QED BY <1>1, <1>2, <2>3, <2>4, <2>5, <2>6 DEF RunOnce, NumbersInv
<1> QED BY <1>3, <1>4

-----------------------------------------------------------------------------
LEMMA InitInv == Init => IInv
<1> SUFFICES ASSUME Init PROVE IInv
  OBVIOUS
<1>1. /\ pending_request = NoRequest /\ response_timer = "off" /\ completing = FALSE
      /\ tx = <<>> /\ air = <<>> /\ indicate = FALSE /\ mode = "SLEEP"
      /\ mode_request = "NONE" /\ writes = 0 /\ confirmed = {}
      /\ runs = [n \in Numbers |-> 0] /\ crowded = FALSE /\ moved = FALSE
  BY DEF Init
<1>2. ~Waits
  BY <1>1, NoRequestKind DEF Waits
<1>3. TypeOK
  <2>1. tx \in Seq(Packets) /\ Len(tx) = 0 /\ air \in Seq(Numbers \union {0})
    BY <1>1
  <2>2. pending_request \in PendingRequests /\ pending_request.waiting_for_tx = FALSE
    BY <1>1, NoRequestKind
  <2>3. writes \in 0..MaxWrites /\ Len(tx) <= Capacity
    BY <1>1, <2>1, BoundsAssumption
  <2> QED BY <1>1, <2>1, <2>2, <2>3 DEF TypeOK, Modes
<1>4. RunOnce /\ TimerMatchesPending
  BY <1>1, <1>2 DEF RunOnce, TimerMatchesPending, Waits
<1> QED
  BY <1>1, <1>2, <1>3, <1>4
  DEF IInv, RequestsSafe, NumbersInv, OnlyItsResponse, CompletingInv, StillValid

(* A command that is only answered. *)
LEMMA AnsweredInv ==
  ASSUME IInv, NEW command \in Commands, ~completing, writes < MaxWrites,
         writes' = writes + 1, WriteAnswered(command),
         UNCHANGED <<completing, air, indicate, modeVars, runs, confirmed>>
  PROVE  IInv'
<1>1. TypeOK /\ RunOnce /\ TimerMatchesPending /\ NumbersInv /\ StillValid
  BY DEF IInv, RequestsSafe
<1>2. crowded' = TRUE /\ UNCHANGED <<pending_request, response_timer, moved>>
  BY DEF WriteAnswered
<1>3. writes' \in Numbers /\ writes' \in 0..MaxWrites
  BY Kinds DEF Numbers
<1>4. tx' \in Seq(Packets) /\ Len(tx') <= Capacity
  <2>1. CASE indicate
    <3>1. Response(writes', FALSE) \in Packets
      BY <1>3 DEF Response, Packets
    <3> QED BY <1>1, <2>1, <3>1, QueuedKind DEF WriteAnswered
  <2>2. CASE ~indicate
    BY <1>1, <2>2 DEF WriteAnswered, TypeOK
  <2> QED BY <2>1, <2>2
<1>5. TypeOK'
  BY <1>1, <1>2, <1>3, <1>4 DEF TypeOK, modeVars
<1>6. RunOnce' /\ TimerMatchesPending'
  BY <1>1, <1>2 DEF RunOnce, TimerMatchesPending
<1>7. NumbersInv'
  BY <1>1, <1>2, Kinds DEF NumbersInv, Waits, Numbers
<1>8. OnlyItsResponse' /\ CompletingInv' /\ StillValid'
  BY <1>1, <1>2 DEF OnlyItsResponse, CompletingInv, StillValid, Waits, modeVars
<1> QED BY <1>5, <1>6, <1>7, <1>8 DEF IInv, RequestsSafe

(* A request that is armed. *)
LEMMA ArmedInv ==
  ASSUME IInv, NEW command \in Commands, ~completing, writes < MaxWrites,
         writes' = writes + 1, WriteArmed(command),
         UNCHANGED <<completing, air, indicate, modeVars, runs, confirmed>>
  PROVE  IInv'
<1>1. TypeOK /\ RunOnce /\ NumbersInv
  BY DEF IInv, RequestsSafe
<1>2. /\ command \in Requests /\ Validated(command) /\ moved' = FALSE
      /\ pending_request' = Pending(command, writes', indicate)
      /\ response_timer' = TimerStarted
  BY DEF WriteArmed
<1>3. writes' \in Numbers /\ writes' \in 0..MaxWrites /\ writes' \in 1..writes'
  BY Kinds DEF Numbers
<1>4. /\ pending_request' \in PendingRequests /\ pending_request'.request = command
      /\ pending_request'.number = writes'
      /\ pending_request'.waiting_for_completion = FALSE
  <2>1. indicate \in BOOLEAN
    BY <1>1 DEF TypeOK
  <2> QED BY <1>2, <1>3, <2>1 DEF Pending, PendingRequests
<1>5. Waits' /\ response_timer' \in {"fallback", "defer"}
  BY <1>2, <1>4, Kinds DEF Waits, TimerStarted
<1>6. /\ tx' \in Seq(Packets) /\ Len(tx') <= Capacity
      /\ \A i \in DOMAIN tx' : tx'[i].number = writes' \/ \E j \in DOMAIN tx : tx'[i] = tx[j]
  <2>1. CASE indicate
    <3>1. Response(writes', TRUE) \in Packets /\ Response(writes', TRUE).number = writes'
      BY <1>3 DEF Response, Packets
    <3> QED BY <1>1, <2>1, <3>1, QueuedKind DEF WriteArmed
  <2>2. CASE ~indicate
    BY <1>1, <2>2 DEF WriteArmed, TypeOK
  <2> QED BY <2>1, <2>2
<1>7. crowded' \in BOOLEAN /\ moved' \in BOOLEAN
  BY <1>2 DEF WriteArmed
<1>8. TypeOK'
  BY <1>1, <1>3, <1>4, <1>5, <1>6, <1>7 DEF TypeOK, modeVars
<1>9. RunOnce' /\ NumbersInv'
  <2>1. runs[writes'] = 0
    BY <1>1, <1>3, Kinds DEF NumbersInv
  <2> QED BY <1>1, <1>3, <1>4, <1>5, <2>1, Kinds DEF RunOnce, NumbersInv, Numbers
<1>10. TimerMatchesPending'
  BY <1>5 DEF TimerMatchesPending, Waits
<1>11. OnlyItsResponse'
  <2> SUFFICES ASSUME ~crowded' PROVE OnlyItsResponse'
    BY DEF OnlyItsResponse
  <2>1. /\ air \in Seq(Numbers \union {0}) /\ Numbered(tx) \in Seq(Numbers \union {0})
        /\ DOMAIN Numbered(tx) = DOMAIN tx
        /\ \A j \in DOMAIN tx : Numbered(tx)[j] = tx[j].number
    BY <1>1, NumberedKind DEF TypeOK, Numbered
  <2>2. \A i \in DOMAIN (air \o Numbered(tx)) : (air \o Numbered(tx))[i] = 0
    BY DEF WriteArmed
  <2>3. /\ \A i \in DOMAIN air : air[i] = 0
        /\ \A j \in DOMAIN Numbered(tx) : Numbered(tx)[j] = 0
    BY <2>1, <2>2, Joined
  <2>4. \A j \in DOMAIN tx : tx[j].number = 0
    BY <2>1, <2>3
  <2> QED BY <1>4, <1>6, <2>3, <2>4 DEF OnlyItsResponse
<1>12. CompletingInv'
  BY DEF CompletingInv
<1>13. StillValid'
  BY <1>2, <1>4 DEF StillValid, Validated, modeVars
<1> QED BY <1>8, <1>9, <1>10, <1>11, <1>12, <1>13 DEF IInv, RequestsSafe

-----------------------------------------------------------------------------
(* The two that run the request: the timer and the completion. *)
LEMMA RunInv ==
  ASSUME IInv, ResponseTimer \/ CompletionRuns
  PROVE  IInv'
<1>1. TypeOK /\ NumbersInv
  BY DEF IInv, RequestsSafe
<1>2. /\ RunPending /\ response_timer' = "off"
      /\ UNCHANGED <<tx, air, indicate, writes, confirmed, crowded, moved>>
      /\ completing' \in {completing, FALSE}
  BY DEF ResponseTimer, CompletionRuns, StopTimer, radioVars
<1>3. /\ pending_request' = NoRequest /\ mode' = mode
      /\ mode_request' \in Requests \union {"NONE"}
      /\ runs' \in [Numbers -> Nat] /\ \A n \in Numbers : runs'[n] <= 1
      /\ \A n \in Numbers : n > writes' => runs'[n] = 0
  BY <1>2, RunKeeps
<1>4. ~Waits'
  BY <1>3, NoRequestKind DEF Waits
<1>5. TypeOK'
  <2>1. completing' \in BOOLEAN
    BY <1>1, <1>2 DEF TypeOK
  <2> QED BY <1>1, <1>2, <1>3, <2>1, NoRequestKind DEF TypeOK
<1>6. RunOnce' /\ TimerMatchesPending' /\ NumbersInv'
  BY <1>2, <1>3, <1>4 DEF RunOnce, TimerMatchesPending, NumbersInv, Waits
<1>7. OnlyItsResponse' /\ CompletingInv' /\ StillValid'
  BY <1>4 DEF OnlyItsResponse, CompletingInv, StillValid
<1> QED BY <1>5, <1>6, <1>7 DEF IInv, RequestsSafe

(* The transmit queue hands a packet to the radio. *)
LEMMA TransmitInv ==
  ASSUME IInv, Transmit
  PROVE  IInv'
<1>1. TypeOK /\ RunOnce /\ TimerMatchesPending /\ NumbersInv /\ OnlyItsResponse /\ StillValid
  BY DEF IInv, RequestsSafe
<1>2. /\ tx # <<>> /\ tx' = Tail(tx) /\ ~completing
      /\ air' \in {air, Append(air, Head(tx).number)}
      /\ pending_request' \in {pending_request, Accepted}
      /\ pending_request' # pending_request => pending_request.waiting_for_tx
      /\ UNCHANGED <<response_timer, completing, indicate, mode, mode_request, writes, runs,
                     confirmed, crowded, moved>>
  BY DEF Transmit, modeVars, historyVars
<1>3. /\ tx \in Seq(Packets) /\ Len(tx) <= Capacity /\ air \in Seq(Numbers \union {0})
      /\ Capacity \in Nat /\ pending_request \in PendingRequests
  BY <1>1, BoundsAssumption DEF TypeOK
<1>4. /\ tx' \in Seq(Packets) /\ Len(tx') = Len(tx) - 1 /\ Len(tx) \in Nat \ {0}
      /\ \A i \in DOMAIN tx' : i + 1 \in DOMAIN tx /\ tx'[i] = tx[i + 1]
      /\ Head(tx) \in Packets /\ Head(tx) = tx[1] /\ 1 \in DOMAIN tx
  BY <1>2, <1>3, HeadTailProperties
<1>5. Head(tx).number \in Numbers \union {0}
  BY <1>4 DEF Packets
<1>6. /\ air' \in Seq(Numbers \union {0})
      /\ \A i \in DOMAIN air' : (i \in DOMAIN air /\ air'[i] = air[i]) \/ air'[i] = Head(tx).number
  <2>1. CASE air' = air
    BY <1>3, <2>1
  <2>2. CASE air' = Append(air, Head(tx).number)
    BY <1>3, <1>5, <2>2
  <2> QED BY <1>2, <2>1, <2>2
<1>7. /\ Accepted \in PendingRequests /\ Accepted.number = pending_request.number
      /\ Accepted.request = pending_request.request /\ Accepted.waiting_for_tx = FALSE
  BY <1>3 DEF Accepted, PendingRequests
<1>8. /\ pending_request' \in PendingRequests /\ pending_request'.number = pending_request.number
      /\ pending_request'.request = pending_request.request /\ Waits' = Waits
  BY <1>2, <1>3, <1>7 DEF Waits
<1>9. ~Waits => pending_request' = pending_request
  BY <1>1, <1>2, NoRequestKind DEF NumbersInv
<1>10. TypeOK'
  <2>1. ~(pending_request'.waiting_for_tx /\ pending_request'.waiting_for_completion)
    BY <1>1, <1>2, <1>7 DEF TypeOK
  <2>2. Len(tx') <= Capacity
    BY <1>3, <1>4
  <2> QED BY <1>1, <1>2, <1>4, <1>6, <1>8, <2>1, <2>2 DEF TypeOK
<1>11. RunOnce' /\ TimerMatchesPending' /\ NumbersInv'
  BY <1>1, <1>2, <1>8, <1>9 DEF RunOnce, TimerMatchesPending, NumbersInv, Waits
<1>12. OnlyItsResponse'
  BY <1>1, <1>2, <1>4, <1>6, <1>8 DEF OnlyItsResponse
<1>13. CompletingInv' /\ StillValid'
  BY <1>1, <1>2, <1>8 DEF CompletingInv, StillValid
<1> QED BY <1>10, <1>11, <1>12, <1>13 DEF IInv, RequestsSafe

(* The radio reports what it has delivered. *)
LEMMA NotificationInv ==
  ASSUME IInv, NotificationComplete
  PROVE  IInv'
<1>1. TypeOK /\ RunOnce /\ TimerMatchesPending /\ NumbersInv /\ OnlyItsResponse /\ StillValid
  BY DEF IInv, RequestsSafe
<1>2. /\ air # <<>> /\ air' = Tail(air) /\ ~completing
      /\ confirmed' = confirmed \union ({Head(air)} \ {0})
      /\ completing' = (IsResponse(Head(air)) /\ pending_request.waiting_for_completion)
      /\ UNCHANGED <<pending_request, response_timer, tx, indicate, mode, mode_request, writes,
                     runs, crowded, moved>>
  BY DEF NotificationComplete, modeVars
<1>3. air \in Seq(Numbers \union {0})
  BY <1>1 DEF TypeOK
<1>4. /\ air' \in Seq(Numbers \union {0}) /\ Head(air) \in Numbers \union {0}
      /\ Head(air) = air[1] /\ 1 \in DOMAIN air
      /\ \A i \in DOMAIN air' : i + 1 \in DOMAIN air /\ air'[i] = air[i + 1]
  BY <1>2, <1>3, HeadTailProperties
<1>5. TypeOK'
  <2>1. completing' \in BOOLEAN /\ confirmed' \subseteq Numbers
    BY <1>1, <1>2, <1>4 DEF TypeOK, IsResponse
  <2> QED BY <1>1, <1>2, <1>4, <2>1 DEF TypeOK
<1>6. RunOnce' /\ TimerMatchesPending' /\ NumbersInv' /\ StillValid'
  BY <1>1, <1>2 DEF RunOnce, TimerMatchesPending, NumbersInv, StillValid, Waits
<1>7. OnlyItsResponse'
  BY <1>1, <1>2, <1>4 DEF OnlyItsResponse, Waits
<1>8. CompletingInv'
  <2>1. SUFFICES ASSUME completing', ~crowded, Waits PROVE pending_request.number \in confirmed'
    BY <1>2 DEF CompletingInv, Waits
  <2>2. Head(air) # 0 /\ Head(air) = pending_request.number
    BY <1>1, <1>2, <1>4, <2>1 DEF OnlyItsResponse, IsResponse
  <2> QED BY <1>2, <2>2
<1> QED BY <1>5, <1>6, <1>7, <1>8 DEF IInv, RequestsSafe

-----------------------------------------------------------------------------
(* What the queue, the link and the phone do besides. *)
LEMMA LinkInv ==
  ASSUME IInv, OtherSends \/ Flush \/ Subscribe \/ Disconnect
  PROVE  IInv'
<1>1. TypeOK /\ RunOnce /\ TimerMatchesPending /\ NumbersInv /\ OnlyItsResponse
        /\ CompletingInv /\ StillValid
  BY DEF IInv, RequestsSafe
<1>2. UNCHANGED <<pending_request, response_timer, completing, mode, mode_request, writes, runs,
                  confirmed, crowded, moved>>
  BY DEF OtherSends, Flush, Subscribe, Disconnect, serviceVars, modeVars, historyVars
<1>3. indicate' \in BOOLEAN
  <2>1. indicate \in BOOLEAN
    BY <1>1 DEF TypeOK
  <2>2. indicate' \in {indicate, ~indicate, FALSE}
    BY DEF OtherSends, Flush, Subscribe, Disconnect
  <2> QED BY <2>1, <2>2
<1>4. /\ air' \in Seq(Numbers \union {0})
      /\ \A i \in DOMAIN air' : i \in DOMAIN air /\ air'[i] = air[i]
  <2>1. air \in Seq(Numbers \union {0}) /\ air' \in {air, <<>>}
    BY <1>1 DEF TypeOK, OtherSends, Flush, Subscribe, Disconnect
  <2>2. CASE air' = air
    BY <2>1, <2>2
  <2>3. CASE air' = <<>>
    BY <2>3
  <2> QED BY <2>1, <2>2, <2>3
<1>5. /\ tx' \in Seq(Packets) /\ Len(tx') <= Capacity
      /\ \A i \in DOMAIN tx' : tx'[i].number = 0 \/ \E j \in DOMAIN tx : tx'[i] = tx[j]
  <2>1. CASE OtherSends
    <3>1. OtherPacket \in Packets /\ OtherPacket.number = 0
      BY DEF OtherPacket, Response, Packets
    <3> QED BY <1>1, <2>1, <3>1, QueuedKind DEF OtherSends
  <2>2. CASE Flush
    <3>1. tx' = <<>>
      BY <2>2 DEF Flush
    <3> QED BY <3>1, BoundsAssumption
  <2>3. CASE Subscribe \/ Disconnect
    BY <1>1, <2>3 DEF Subscribe, Disconnect, TypeOK
  <2> QED BY <2>1, <2>2, <2>3
<1>6. TypeOK'
  BY <1>1, <1>2, <1>3, <1>4, <1>5 DEF TypeOK
<1>7. RunOnce' /\ TimerMatchesPending' /\ NumbersInv' /\ CompletingInv' /\ StillValid'
  BY <1>1, <1>2 DEF RunOnce, TimerMatchesPending, NumbersInv, CompletingInv, StillValid, Waits
<1>8. OnlyItsResponse'
  BY <1>1, <1>2, <1>4, <1>5 DEF OnlyItsResponse, Waits
<1> QED BY <1>6, <1>7, <1>8 DEF IInv, RequestsSafe

(* The mode controller moves. *)
LEMMA ModeInv ==
  ASSUME IInv, ModeMoves \/ ModeResolves \/ ModeDrops \/ UNCHANGED vars
  PROVE  IInv'
<1>1. TypeOK /\ RunOnce /\ TimerMatchesPending /\ NumbersInv /\ OnlyItsResponse
        /\ CompletingInv /\ StillValid
  BY DEF IInv, RequestsSafe
<1>2. UNCHANGED <<pending_request, response_timer, completing, tx, air, indicate, writes, runs,
                  confirmed, crowded>>
  BY DEF ModeMoves, ModeResolves, ModeDrops, vars, serviceVars, radioVars, historyVars
<1>3. /\ mode' \in Modes /\ mode_request' \in {mode_request, "NONE"}
  BY <1>1 DEF TypeOK, ModeMoves, ModeResolves, ModeDrops, vars, modeVars, Modes, Targets
<1>4. moved' \in BOOLEAN /\ (~moved' => ~moved /\ mode' = mode)
  <2>1. CASE ModeMoves
    BY <2>1 DEF ModeMoves
  <2>2. CASE ModeResolves
    <3>1. moved' = (moved \/ mode' # mode)
      BY <2>2 DEF ModeResolves
    <3> QED BY <3>1
  <2>3. CASE ModeDrops \/ UNCHANGED vars
    BY <1>1, <2>3 DEF ModeDrops, vars, modeVars, historyVars, TypeOK
  <2> QED BY <2>1, <2>2, <2>3
<1>5. TypeOK'
  BY <1>1, <1>2, <1>3, <1>4 DEF TypeOK
<1>6. RunOnce' /\ TimerMatchesPending' /\ NumbersInv' /\ CompletingInv' /\ OnlyItsResponse'
  BY <1>1, <1>2 DEF RunOnce, TimerMatchesPending, NumbersInv, CompletingInv, OnlyItsResponse, Waits
<1>7. StillValid'
  BY <1>1, <1>2, <1>4 DEF StillValid, Waits
<1> QED BY <1>5, <1>6, <1>7 DEF IInv, RequestsSafe

LEMMA RestartInv ==
  ASSUME IInv, Restart
  PROVE  IInv'
<1>1. TypeOK /\ RunOnce /\ NumbersInv
  BY DEF IInv, RequestsSafe
<1>2. /\ pending_request' = NoRequest /\ response_timer' = "off" /\ completing' = FALSE
      /\ tx' = <<>> /\ air' = <<>> /\ indicate' = FALSE /\ mode' = "SLEEP"
      /\ mode_request' = "NONE"
      /\ UNCHANGED <<writes, runs, confirmed, crowded, moved>>
  BY DEF Restart, historyVars
<1>3. ~Waits'
  BY <1>2, NoRequestKind DEF Waits
<1>4. TypeOK'
  <2>1. tx' \in Seq(Packets) /\ Len(tx') <= Capacity /\ air' \in Seq(Numbers \union {0})
    BY <1>2, BoundsAssumption
  <2> QED BY <1>1, <1>2, <2>1, NoRequestKind DEF TypeOK, Modes
<1>5. RunOnce' /\ TimerMatchesPending' /\ NumbersInv'
  BY <1>1, <1>2, <1>3 DEF RunOnce, TimerMatchesPending, NumbersInv, Waits
<1>6. OnlyItsResponse' /\ CompletingInv' /\ StillValid'
  BY <1>3 DEF OnlyItsResponse, CompletingInv, StillValid
<1> QED BY <1>4, <1>5, <1>6 DEF IInv, RequestsSafe

LEMMA NextInv == IInv /\ [Next]_vars => IInv'
<1> SUFFICES ASSUME IInv, [Next]_vars PROVE IInv'
  OBVIOUS
<1>1. ASSUME NEW command \in Commands, ControlPointWrite(command) PROVE IInv'
  BY <1>1, AnsweredInv, ArmedInv DEF ControlPointWrite
<1> QED
  BY <1>1, RunInv, TransmitInv, NotificationInv, LinkInv, ModeInv, RestartInv
  DEF Next, Service, Around

(* A request that was accepted is run at most once, waits under a timer, and *)
(* no timer is left without one (device_state.c), for any number of commands *)
(* and however the completion, the timer and the next command race.          *)
THEOREM RequestsAlwaysSafe == Spec => []RequestsSafe
<1>1. IInv => RequestsSafe
  BY DEF IInv
<1> QED BY <1>1, InitInv, NextInv, PTL DEF Spec

-----------------------------------------------------------------------------
(* Who runs a request, and which. *)
LEMMA RunsItsRequest ==
  ASSUME IInv, Next, NEW n \in Numbers, Ran(n)
  PROVE  /\ ResponseTimer \/ CompletionRuns
         /\ Waits /\ n = pending_request.number
<1>1. runs' # runs
  BY Kinds DEF Ran
<1>2. ResponseTimer \/ CompletionRuns
  BY <1>1 DEF Next, Service, Around, ControlPointWrite, Transmit, NotificationComplete, OtherSends,
              Flush, Subscribe, Disconnect, ModeMoves, ModeResolves, ModeDrops, Restart, historyVars
<1>3. RunPending
  BY <1>2 DEF ResponseTimer, CompletionRuns
<1>4. Waits
  BY <1>1, <1>3 DEF RunPending, Waits
<1>5. runs' = [runs EXCEPT ![pending_request.number] = @ + 1]
  BY <1>3, <1>4 DEF RunPending, Waits
<1>6. n = pending_request.number
  BY <1>5, Kinds DEF Ran
<1> QED BY <1>2, <1>4, <1>6

LEMMA AnsweredStep ==
  ASSUME IInv, Next, NEW n \in Numbers, Ran(n), completing, ~completing', ~crowded
  PROVE  n \in confirmed
BY RunsItsRequest DEF IInv, CompletingInv

LEMMA HonouredStep ==
  ASSUME IInv, Next, NEW n \in Numbers, Ran(n), ~moved, mode_request = "NONE"
  PROVE  mode_request' = pending_request.request
<1>1. RunPending /\ Waits
  BY RunsItsRequest DEF ResponseTimer, CompletionRuns
<1>2. ModeAccepts(pending_request.request)
  BY <1>1 DEF IInv, StillValid, ModeAccepts
<1> QED BY <1>1, <1>2 DEF RunPending, Waits

(* A phone that waits for each answer has it before the request is run,      *)
(* unless the fallback timer runs it, and a request that was answered with   *)
(* SUCCESS is then accepted by mode.c if the mode is what it was.            *)
THEOREM AnswersAlwaysHonoured == Spec => AnswerHonoured
<1>1. IInv /\ [Next]_vars =>
        [\A n \in Numbers :
           Ran(n) /\ response_timer = "fallback" /\ completing /\ ~completing' /\ ~crowded
             => n \in confirmed]_vars
  BY AnsweredStep
<1>2. IInv /\ [Next]_vars =>
        [\A n \in Numbers : Ran(n) /\ ~moved /\ mode_request = "NONE"
           => mode_request' = pending_request.request]_vars
  BY HonouredStep
<1> QED
  BY <1>1, <1>2, InitInv, NextInv, PTL
  DEF Spec, AnswerHonoured, AnsweredBeforeRun, SuccessHonoured
==============================================================================
