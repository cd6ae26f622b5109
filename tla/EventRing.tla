----------------------------- MODULE EventRing -----------------------------
(***************************************************************************)
(* The ring of events of the log (FlySight/log.c).  FS_Log_WriteEventAsync *)
(* is called from tasks and from interrupts of two priorities, without a   *)
(* critical section; the log task writes the events to the file.  A        *)
(* context steps while every higher one is idle.  Events are numbers, in   *)
(* the order of the calls; an event has a time and a text.                 *)
(***************************************************************************)
EXTENDS Integers, Sequences

CONSTANTS EVENT_COUNT, MaxEvents

VARIABLES
  active,                  \* logState, with events enabled; the event file is open
  updateTask,              \* bit of the sequencer
  eventBuf, eventRdI, eventWrI,
  pc, entry, read,         \* of each caller: its step, its event, what it read of eventWrI
  eventIndex, updating,    \* of FS_Log_Update
  rows,                    \* events written to the file, over all sessions
  made, dropped,           \* calls with the log active; those that found the ring full
  lost,                    \* events written to a file that is closed
  nested                   \* history: a call came inside another one

ring    == <<eventBuf, eventRdI, eventWrI>>
callers == <<pc, entry, read>>
reader  == <<updateTask, eventIndex, updating, rows, lost>>
vars == <<active, ring, callers, reader, made, dropped, nested>>

Contexts == {"task", "low", "high"}
Above == [task |-> {"low", "high"}, low |-> {"high"}, high |-> {}]
Idle(c) == pc[c] = "idle"
Steps(c) == \A h \in Above[c] : Idle(h)
Slot(i) == i % EVENT_COUNT
Goto(c, step) == pc' = [pc EXCEPT ![c] = step]

-----------------------------------------------------------------------------
(* Mutant of HasRoom: the ring is taken for one event longer than it is. *)
HasRoomPlusOne == eventWrI <= eventRdI + EVENT_COUNT
HasRoom == eventWrI < eventRdI + EVENT_COUNT

(* FS_Log_WriteEventAsync: room is looked for, the slot gets the time and    *)
(* then the text, and the index is read and written back.                    *)
Claim(c) ==
  /\ Steps(c) /\ Idle(c) /\ active /\ made < MaxEvents /\ (c = "task" => ~updating)
  /\ made' = made + 1
  /\ nested' = (nested \/ \E o \in Contexts : ~Idle(o))
  /\ IF HasRoom
     THEN /\ eventBuf' = [eventBuf EXCEPT ![Slot(eventWrI)].time = made']
          /\ entry' = [entry EXCEPT ![c] = [slot |-> Slot(eventWrI), event |-> made']]
          /\ Goto(c, "text") /\ UNCHANGED dropped
     ELSE dropped' = dropped + 1 /\ UNCHANGED <<eventBuf, pc, entry>>
  /\ UNCHANGED <<active, eventRdI, eventWrI, read, reader>>

Text(c) ==
  /\ Steps(c) /\ pc[c] = "text" /\ Goto(c, "count")
  /\ eventBuf' = [eventBuf EXCEPT ![entry[c].slot].text = entry[c].event]
  /\ read' = [read EXCEPT ![c] = eventWrI]
  /\ UNCHANGED <<active, eventRdI, eventWrI, entry, reader, made, dropped, nested>>

(* Mutant of Counted: from the index the log task found. *)
CountedFromRead(c) == eventIndex + 1
Counted(c) == read[c] + 1

Count(c) ==
  /\ Steps(c) /\ pc[c] = "count" /\ Goto(c, "idle")
  /\ eventWrI' = Counted(c)
  /\ UNCHANGED <<active, eventBuf, eventRdI, entry, read, reader, made, dropped, nested>>

-----------------------------------------------------------------------------
(* The timer of the log runs during a session; its bit may outlive it.       *)
FS_Log_Timer ==
  /\ active /\ updateTask' = TRUE
  /\ UNCHANGED <<active, ring, callers, eventIndex, updating, rows, lost, made, dropped, nested>>

(* FS_Log_Update writes the events up to the index it found, as long as it   *)
(* has time.  It does not ask whether a session is under way, nor what       *)
(* became of the write.  It shares its level with the tasks that call.       *)
UpdateBegins ==
  /\ Steps("task") /\ Idle("task") /\ updateTask /\ ~updating
  /\ updateTask' = FALSE /\ updating' = TRUE /\ eventIndex' = eventWrI
  /\ UNCHANGED <<active, ring, callers, rows, lost, made, dropped, nested>>

WriteEventEntry ==
  /\ Steps("task") /\ updating /\ eventRdI # eventIndex /\ eventRdI' = eventRdI + 1
  /\ IF active THEN rows' = Append(rows, eventBuf[Slot(eventRdI)]) /\ UNCHANGED lost
               ELSE lost' = lost + 1 /\ UNCHANGED rows
  /\ UNCHANGED <<active, updateTask, eventBuf, eventWrI, callers, eventIndex, updating,
                 made, dropped, nested>>

UpdateEnds ==
  /\ Steps("task") /\ updating /\ updating' = FALSE
  /\ UNCHANGED <<active, updateTask, ring, callers, eventIndex, rows, lost, made, dropped,
                 nested>>

(* FS_Log_Init and FS_Log_DeInit, by a task: what is in the ring stays there *)
(* and comes into the file of the next session, unless an update is left to  *)
(* come before it.                                                           *)
Session ==
  /\ Steps("task") /\ Idle("task") /\ ~updating /\ active' = ~active
  /\ UNCHANGED <<ring, callers, reader, made, dropped, nested>>

-----------------------------------------------------------------------------
Init ==
  /\ active = FALSE /\ eventRdI = 0 /\ eventWrI = 0
  /\ eventBuf = [s \in 0..EVENT_COUNT - 1 |-> [time |-> 0, text |-> 0]]
  /\ pc = [c \in Contexts |-> "idle"] /\ read = [c \in Contexts |-> 0]
  /\ entry = [c \in Contexts |-> [slot |-> 0, event |-> 0]]
  /\ updateTask = FALSE /\ eventIndex = 0 /\ updating = FALSE /\ rows = <<>> /\ lost = 0
  /\ made = 0 /\ dropped = 0 /\ nested = FALSE

Next == \/ \E c \in Contexts : Claim(c) \/ Text(c) \/ Count(c)
        \/ FS_Log_Timer \/ UpdateBegins \/ WriteEventEntry \/ UpdateEnds \/ Session

Spec == Init /\ [][Next]_vars

-----------------------------------------------------------------------------
Events == 0..MaxEvents
Entries == [time : Events, text : Events]

TypeOK ==
  /\ \A flag \in {active, updateTask, updating, nested} : flag \in BOOLEAN
  /\ eventBuf \in [0..EVENT_COUNT - 1 -> Entries]
  /\ eventRdI \in Nat /\ eventWrI \in Nat /\ eventIndex \in Nat
  /\ pc \in [Contexts -> {"idle", "text", "count"}] /\ read \in [Contexts -> Nat]
  /\ entry \in [Contexts -> [slot : 0..EVENT_COUNT - 1, event : Events]]
  /\ rows \in Seq(Entries) /\ lost \in Nat
  /\ made \in Events /\ dropped \in Events

(* Every event is in the file whole, once and in the order of the calls, if  *)
(* no call came inside another: then an interrupt fills the slot of the call *)
(* it interrupts.                                                            *)
EventsWhole ==
  ~nested =>
    /\ \A i \in DOMAIN rows : rows[i].time = rows[i].text
    /\ \A i, j \in DOMAIN rows : i < j => rows[i].text < rows[j].text

(* Every event is accounted for: it is in the file, in the ring or about to  *)
(* be counted, it found the ring full, or it was written to a closed file by *)
(* an update that was asked for before FS_Log_DeInit and came after it.      *)
EventsAccounted ==
  ~nested =>
    made = Len(rows) + lost + (eventWrI - eventRdI) + dropped
             + (IF \A c \in Contexts : Idle(c) THEN 0 ELSE 1)

(* What was to be logged is in the file, once and whole, or counted.         *)
EventsKept ==
  EventsWhole /\ EventsAccounted
=============================================================================
