----------------------------- MODULE PollServer -----------------------------
(* The poll server (pollserver.h, pollserver.cc): the arrays fds_ and        *)
(* pollables_, kept here as one table, and the loop that polls them and      *)
(* walks them backwards.  What a pollable does with an event belongs to the  *)
(* modules that extend this one; while it does it, it may register others    *)
(* and unregister itself, and the table changes under the walk.              *)
(*                                                                           *)
(* Slot i here is index i - 1 of the code.  Slots above table.num are        *)
(* allocated memory that no registration uses.                               *)
EXTENDS Integers, Sequences, FiniteSets

CONSTANTS Pollables,    \* the objects that may be registered
          NoPollable    \* what an unused slot points to

ASSUME PollServerAssumption == NoPollable \notin Pollables

VARIABLES table,     \* fds_, pollables_ and num_fds_
          current,   \* current_fd_
          cursor,    \* the slot the walk is at (i + 1), 0 outside it
          todo,      \* num_events, the events the walk has still to find
          hadEvent,  \* had_event
          step,      \* the place in Loop, LoopOnce or HandlePollEvents
          loop       \* loop_

pollVars == <<table, current, cursor, todo, hadEvent, step, loop>>

NoFd == -1

Unused == [fd |-> NoFd, owner |-> NoPollable, in |-> FALSE, out |-> FALSE]

LastIndexOf(t, fd) ==
  LET at == {i \in 1 .. t.num : t.slots[i].fd = fd}
  IN IF at = {} THEN 0 ELSE CHOOSE i \in at : \A j \in at : j <= i

DoubleCapacity(slots) == slots \o [i \in 1 .. Len(slots) |-> Unused]

(* A registration overwrites the one its descriptor already has.            *)
Register(t, pollable, fd) ==
  LET known == LastIndexOf(t, fd)
      index == IF known = 0 THEN t.num + 1 ELSE known
      room  == IF known = 0 /\ t.num = Len(t.slots) THEN DoubleCapacity(t.slots)
                                                    ELSE t.slots
  IN [slots |-> [room EXCEPT ![index].fd = fd, ![index].owner = pollable],
      num   |-> IF known = 0 THEN index ELSE t.num]

IsRegistered(t, pollable, fd) ==
  LastIndexOf(t, fd) # 0 /\ t.slots[LastIndexOf(t, fd)].owner = pollable

(* Mutant of Unregister: a pollable that was overwritten removes the slot.  *)
UnregisterAnyOwner(t, pollable, fd) ==
  IF LastIndexOf(t, fd) # 0
  THEN [slots |-> [t.slots EXCEPT ![LastIndexOf(t, fd)] =
                     [t.slots[t.num] EXCEPT !.in = FALSE, !.out = FALSE]],
        num   |-> t.num - 1]
  ELSE t

(* Mutant of Unregister: the search begins one slot too low.                 *)
UnregisterSkipsLast(t, pollable, fd) ==
  IF IsRegistered(t, pollable, fd) /\ LastIndexOf(t, fd) < t.num
  THEN [slots |-> [t.slots EXCEPT ![LastIndexOf(t, fd)] =
                     [t.slots[t.num] EXCEPT !.in = FALSE, !.out = FALSE]],
        num   |-> t.num - 1]
  ELSE t

(* Mutant of Unregister: the vacated slot keeps its revents.                 *)
UnregisterKeepsEvents(t, pollable, fd) ==
  LET i == LastIndexOf(t, fd)
  IN IF IsRegistered(t, pollable, fd)
     THEN [slots |-> [t.slots EXCEPT ![i].fd = t.slots[t.num].fd,
                                     ![i].owner = t.slots[t.num].owner],
           num   |-> t.num - 1]
     ELSE t

(* The last slot moves into the vacated one, without its pending events.    *)
Unregister(t, pollable, fd) ==
  IF IsRegistered(t, pollable, fd)
  THEN [slots |-> [t.slots EXCEPT ![LastIndexOf(t, fd)] =
                     [t.slots[t.num] EXCEPT !.in = FALSE, !.out = FALSE]],
        num   |-> t.num - 1]
  ELSE t

(* The CHECK of Unregister: during the walk a pollable may only remove       *)
(* itself.                                                                   *)
MayUnregister(fd) == current = NoFd \/ fd = NoFd \/ current = fd

-----------------------------------------------------------------------------
PollInit(capacity) ==
  /\ table = [slots |-> [i \in 1 .. capacity |-> Unused], num |-> 0]
  /\ current = NoFd
  /\ cursor = 0
  /\ todo = 0
  /\ hadEvent = FALSE
  /\ step = "idle"
  /\ loop = FALSE

EnterLoop ==
  /\ step = "idle"
  /\ step' = "test"
  /\ loop' = TRUE
  /\ UNCHANGED <<table, current, cursor, todo, hadEvent>>

LeaveLoop ==
  /\ step = "test"
  /\ ~loop
  /\ step' = "left"
  /\ UNCHANGED <<table, current, cursor, todo, hadEvent, loop>>

(* poll(2) fills in revents; with no event before the timeout the loop       *)
(* goes round.                                                               *)
Poll(readable, writable) ==
  /\ step = "test"
  /\ loop
  /\ LET polled == [i \in DOMAIN table.slots |->
                      IF i <= table.num
                      THEN [table.slots[i] EXCEPT !.in  = table.slots[i].fd \in readable,
                                                  !.out = table.slots[i].fd \in writable]
                      ELSE table.slots[i]]
         events == {i \in 1 .. table.num : polled[i].in \/ polled[i].out}
     IN /\ events # {}
        /\ table' = [table EXCEPT !.slots = polled]
        /\ todo' = Cardinality(events)
  /\ cursor' = table.num
  /\ step' = "slot"
  /\ UNCHANGED <<current, hadEvent, loop>>

(* Mutant of TakeSlot: the walk stops before the first slot.                 *)
TakeSlotButFirst ==
  /\ step = "slot"
  /\ cursor > 1
  /\ todo > 0
  /\ current' = table.slots[cursor].fd
  /\ hadEvent' = FALSE
  /\ step' = IF table.slots[cursor].in THEN "in" ELSE "out"
  /\ UNCHANGED <<table, cursor, todo, loop>>

TakeSlot ==
  /\ step = "slot"
  /\ cursor > 0
  /\ todo > 0
  /\ current' = table.slots[cursor].fd
  /\ hadEvent' = FALSE
  /\ step' = IF table.slots[cursor].in THEN "in" ELSE "out"
  /\ UNCHANGED <<table, cursor, todo, loop>>

(* HandleRead of pollable p is about to run.                                 *)
ReadDue(p) == step = "in" /\ table.slots[cursor].owner = p

AfterRead ==
  /\ hadEvent' = TRUE
  /\ step' = "out"
  /\ UNCHANGED <<current, cursor, todo>>

(* HandleWrite of pollable p is about to run: the slot is in use still, and  *)
(* its event was not cleared.                                                *)
WriteDue(p) ==
  /\ step = "out"
  /\ cursor <= table.num
  /\ table.slots[cursor].out
  /\ table.slots[cursor].owner = p

AfterSlot(had) ==
  /\ todo' = IF had THEN todo - 1 ELSE todo
  /\ cursor' = cursor - 1
  /\ hadEvent' = FALSE
  /\ step' = "slot"
  /\ UNCHANGED current

AfterWrite == AfterSlot(TRUE)

NoWrite ==
  /\ step = "out"
  /\ \A p \in Pollables : ~WriteDue(p)
  /\ AfterSlot(hadEvent)
  /\ UNCHANGED <<table, loop>>

EndWalk ==
  /\ step = "slot"
  /\ cursor = 0 \/ todo = 0
  /\ current' = NoFd
  /\ cursor' = 0
  /\ todo' = 0
  /\ step' = "test"
  /\ UNCHANGED <<table, hadEvent, loop>>

(* ForceLoopExit, from any thread.                                           *)
ForceLoopExit == loop' = FALSE
=============================================================================
