----------------------------- MODULE RoomBooking -----------------------------
(***************************************************************************)
(* Room bookings: every request of src/booking that writes Booking rows,   *)
(* with the row locks that keep them apart.                                *)
(*                                                                         *)
(* The only database constraint on a booking is end > start; that no two   *)
(* bookings of a room overlap rests on Booking.clean() being run under     *)
(* SELECT ... FOR UPDATE of the room.  The database is PostgreSQL at READ  *)
(* COMMITTED: a statement sees what is committed when it starts, a         *)
(* statement that waited for a row lock re-reads that row, and locks last  *)
(* until the end of the transaction.  A transaction's writes appear at its *)
(* commit; a last statement and the commit after it are one step.          *)
(*                                                                         *)
(* Left out: the access code in front of the page, the captcha, the mails, *)
(* the clock (every booking is upcoming), closures and bookable hours,     *)
(* which no lock protects and no other booking depends on.                 *)
(***************************************************************************)
EXTENDS Integers, FiniteSets, Sequences, SequencesExt

CONSTANTS
  Procs,     \* requests
  Rooms,     \* room ids
  Named,     \* the rooms' first names: numbers, in the order names sort
  Ids,       \* booking ids
  Users,     \* members
  Ops,       \* what a request can submit, see IsOp
  Calendars, \* the bookings there can be before the first request
  None, Absent, Gone

\* start and end; Booking.clean and the database refuse end <= start.
Slots == {s \in Nat \X Nat : s[1] < s[2]}

Records == [room : Rooms, slot : Slots, author : Users \cup {None}]

\* set: the rows a request writes and their times; del: the rows it removes;
\* user: the member behind the request (None for a code or a visitor), or the
\* author an admin page submits; name: what a room page calls its room.
IsOp(o) ==
  /\ o.kind \in {"create", "edit", "cancel", "move", "page", "drop"}
  /\ o.room \in Rooms
  /\ DOMAIN o.set \subseteq Ids
  /\ o.set \in [DOMAIN o.set -> Slots]
  /\ o.del \subseteq Ids
  /\ o.user \in Users \cup {None}
  /\ o.name \in Nat

\* src/booking/models.py: start < other.end and end > other.start.
Overlap(s, t) == s[1] < t[2] /\ t[1] < s[2]

ASSUME BookingAssumption ==
  /\ Rooms \subseteq Nat
  /\ Named \in [Rooms -> Nat]
  /\ IsFiniteSet(Ids)
  /\ None \notin Procs \cup Rooms \cup Users
  /\ Absent # Gone
  /\ Absent \notin Records /\ Gone \notin Records
  /\ None \notin Ops
  /\ \A o \in Ops : IsOp(o)
  /\ \A o \in Ops : o.kind \in {"create", "edit", "move"} =>
       /\ o.del = {}
       /\ \E b \in Ids : DOMAIN o.set = {b}
  /\ \A o \in Ops : o.kind = "cancel" => DOMAIN o.set = {} /\ \E b \in Ids : o.del = {b}
  /\ \A o \in Ops : o.kind = "drop" => DOMAIN o.set = {} /\ o.del = {}
  /\ \A o \in Ops : o.kind = "page" => DOMAIN o.set \cap o.del = {}
  /\ Calendars \subseteq [Ids -> Records \cup {Absent}]
  /\ \A k \in Calendars : \A b, c \in Ids :
       b # c /\ k[b] # Absent /\ k[c] # Absent /\ k[b].room = k[c].room
         => ~Overlap(k[b].slot, k[c].slot)

VARIABLES
  rooms,     \* committed Room rows
  name,      \* and what they are called
  booking,   \* committed Booking rows
  roomLock,  \* the request that selected the room FOR UPDATE
  rowLock,   \* the request that locked the booking row
  pc, op,    \* per request: the next step, what was submitted
  from,      \* the room id read before any lock
  sorted,    \* the names by which the SELECT of its two rooms sorted them
  attempt,   \* failed runs of the loop in _save_edited_booking
  todo       \* the rows still to be written, in the order of the statements

vars == <<rooms, name, booking, roomLock, rowLock, pc, op, from, sorted, attempt, todo>>

Live(b) == booking[b] \notin {Absent, Gone}
In(r)   == {b \in Ids : Live(b) /\ booking[b].room = r}
Rows(p) == DOMAIN op[p].set
Kind(p) == op[p].kind

\* The room a request writes its bookings in.
Target(p) == IF Kind(p) = "edit" THEN from[p] ELSE op[p].room

\* Mutant: an admin page locks the room the booking is in, not the one it names.
RoomsToLockOld(p) == IF from[p] # None THEN {from[p]} ELSE {Target(p)}

\* BookingWriteLockMixin.rooms_to_lock; the public paths lock their one room.
RoomsToLock(p) ==
  IF Kind(p) = "move" THEN {from[p], op[p].room} \ {None} ELSE {Target(p)}

\* Room.Meta.ordering: ('name', 'pk').
Before(names, r, s) == names[r] < names[s] \/ (names[r] = names[s] /\ r < s)

Answered == {"done", "refused", "notfound", "error"}
InTx     == {"find", "sort", "lock", "row", "check", "write"}

-----------------------------------------------------------------------------

Init ==
  /\ rooms = Rooms
  /\ name = Named
  /\ booking \in Calendars
  /\ roomLock = [r \in Rooms |-> None]
  /\ rowLock = [b \in Ids |-> None]
  /\ pc = [p \in Procs |-> "idle"]
  /\ op = [p \in Procs |-> None]
  /\ from = [p \in Procs |-> None]
  /\ sorted = [p \in Procs |-> Named]
  /\ attempt = [p \in Procs |-> 0]
  /\ todo = [p \in Procs |-> <<>>]

ReleaseLocks(p) ==
  /\ roomLock' = [r \in Rooms |-> IF roomLock[r] = p THEN None ELSE roomLock[r]]
  /\ rowLock' = [b \in Ids |-> IF rowLock[b] = p THEN None ELSE rowLock[b]]

\* Mutant: locks that outlive the transaction.
RollbackKeepsLocks(p, outcome) ==
  /\ pc' = [pc EXCEPT ![p] = outcome]
  /\ todo' = [todo EXCEPT ![p] = <<>>]
  /\ UNCHANGED <<rooms, name, sorted, booking, roomLock, rowLock, op, from>>

\* The transaction ends without having written.
Rollback(p, outcome) ==
  /\ ReleaseLocks(p)
  /\ pc' = [pc EXCEPT ![p] = outcome]
  /\ todo' = [todo EXCEPT ![p] = <<>>]
  /\ UNCHANGED <<rooms, name, sorted, booking, op, from>>

\* The lookup of a member's own booking, or of the booking a code names.
Found(o, b) == Live(b) /\ o.user \in {None, booking[b].author}

\* An id a request will insert is handed out by the sequence to it alone.
FreshIds(o) ==
  \A b \in DOMAIN o.set :
    /\ o.kind = "create" => booking[b] = Absent
    /\ booking[b] = Absent => \A q \in Procs : pc[q] # "idle" => b \notin Rows(q)

\* What a view does before its first lock: room_detail and the admin look up
\* the room, edit_my_booking, MyBookingsView.post and cancel_booking the
\* booking.  The DELETE of a room's bookings reads which rows those are.
Submit(p) ==
  /\ pc[p] = "idle"
  /\ \E o \in Ops :
       /\ FreshIds(o)
       /\ op' = [op EXCEPT ![p] = o]
       /\ \/ /\ o.kind \in {"create", "page", "drop"} /\ o.room \notin rooms
             /\ pc' = [pc EXCEPT ![p] = "notfound"]
             /\ UNCHANGED todo
          \/ /\ o.kind \in {"create", "page"} /\ o.room \in rooms
             /\ pc' = [pc EXCEPT ![p] = "lock"]
             /\ UNCHANGED todo
          \/ /\ o.kind \in {"edit", "cancel"}
             /\ \E b \in DOMAIN o.set \cup o.del : ~Found(o, b)
             /\ pc' = [pc EXCEPT ![p] = "notfound"]
             /\ UNCHANGED todo
          \/ /\ o.kind = "edit" /\ \A b \in DOMAIN o.set : Found(o, b)
             /\ pc' = [pc EXCEPT ![p] = "find"]
             /\ UNCHANGED todo
          \/ /\ o.kind = "cancel" /\ \A b \in o.del : Found(o, b)
             /\ pc' = [pc EXCEPT ![p] = "write"]
             /\ \E s \in SetToSeqs(o.del) : todo' = [todo EXCEPT ![p] = s]
          \/ /\ o.kind = "move"
             /\ pc' = [pc EXCEPT ![p] = "find"]
             /\ UNCHANGED todo
          \/ /\ o.kind = "drop" /\ o.room \in rooms
             /\ pc' = [pc EXCEPT ![p] = "write"]
             /\ \E s \in SetToSeqs(In(o.room)) : todo' = [todo EXCEPT ![p] = s]
  /\ UNCHANGED <<rooms, name, sorted, booking, roomLock, rowLock, from, attempt>>

\* The room id is read without a lock, to know which room to lock.
FindRoom(p) ==
  /\ pc[p] = "find"
  /\ \E b \in Rows(p) :
       \/ /\ Live(b)
          /\ from' = [from EXCEPT ![p] = booking[b].room]
          /\ pc' = [pc EXCEPT ![p] = IF Kind(p) = "edit" THEN "lock" ELSE "sort"]
       \/ /\ ~Live(b)
          /\ from' = [from EXCEPT ![p] = None]
          /\ pc' = [pc EXCEPT ![p] = IF Kind(p) = "edit" THEN "notfound" ELSE "sort"]
  /\ UNCHANGED <<rooms, name, sorted, booking, roomLock, rowLock, op, attempt, todo>>

\* The SELECT ... FOR UPDATE of a move starts: PostgreSQL sorts the rooms by
\* the names committed now and keeps that order however long it then waits.
SortRooms(p) ==
  /\ pc[p] = "sort"
  /\ sorted' = [sorted EXCEPT ![p] = name]
  /\ pc' = [pc EXCEPT ![p] = "lock"]
  /\ UNCHANGED <<rooms, name, booking, roomLock, rowLock, op, from, attempt, todo>>

\* Mutant: the rooms are locked in no particular order.
LockRoomAnyOrder(p) ==
  /\ pc[p] = "lock"
  /\ \E r \in RoomsToLock(p) \cap rooms :
       /\ roomLock[r] = None
       /\ roomLock' = [roomLock EXCEPT ![r] = p]
  /\ UNCHANGED <<rooms, name, sorted, booking, rowLock, pc, op, from, attempt, todo>>

\* SELECT ... FOR UPDATE takes the rows in the order it sorted them.
LockRoom(p) ==
  /\ pc[p] = "lock"
  /\ \E r \in RoomsToLock(p) \cap rooms :
       /\ roomLock[r] = None
       /\ \A s \in RoomsToLock(p) \cap rooms : Before(sorted[p], s, r) => roomLock[s] = p
       /\ roomLock' = [roomLock EXCEPT ![r] = p]
  /\ UNCHANGED <<rooms, name, sorted, booking, rowLock, pc, op, from, attempt, todo>>

\* The SELECT returns.  A room deleted while it waited is not in the result:
\* room_detail lets Room.DoesNotExist through, the edit answers 404, the admin
\* goes on without it and finds out when it looks the object up.
RoomsLocked(p) ==
  /\ pc[p] = "lock"
  /\ \A r \in RoomsToLock(p) \cap rooms : roomLock[r] = p
  /\ \/ /\ Target(p) \in rooms \/ Kind(p) = "move"
        /\ pc' = [pc EXCEPT ![p] = IF Kind(p) = "edit" THEN "row" ELSE "check"]
        /\ UNCHANGED <<rooms, name, sorted, booking, roomLock, rowLock, op, from, todo>>
     \/ /\ Target(p) \notin rooms /\ Kind(p) # "move"
        /\ Rollback(p, IF Kind(p) = "create" THEN "error" ELSE "notfound")
  /\ UNCHANGED attempt

\* Mutant: one attempt too many.
AgainOnceMore(p) ==
  /\ attempt' = [attempt EXCEPT ![p] = @ + 1]
  /\ Rollback(p, IF attempt[p] <= 1 THEN "find" ELSE "notfound")

\* The booking left the locked room: start over with no locks, once.
Again(p) ==
  /\ attempt' = [attempt EXCEPT ![p] = @ + 1]
  /\ Rollback(p, IF attempt[p] = 0 THEN "find" ELSE "notfound")

\* Mutant: the booking is re-read but not locked.
LockBookingUnlocked(p) ==
  /\ pc[p] = "row"
  /\ \E b \in Rows(p) :
       /\ b \in In(from[p]) /\ Found(op[p], b)
       /\ pc' = [pc EXCEPT ![p] = "check"]
  /\ UNCHANGED <<rooms, name, sorted, booking, roomLock, rowLock, op, from, attempt, todo>>

\* Mutant: the account is not checked again under the lock.
LockBookingTrusting(p) ==
  /\ pc[p] = "row"
  /\ \E b \in Rows(p) :
       /\ rowLock[b] = None
       /\ b \in In(from[p])
       /\ rowLock' = [rowLock EXCEPT ![b] = p]
       /\ pc' = [pc EXCEPT ![p] = "check"]
  /\ UNCHANGED <<rooms, name, sorted, booking, roomLock, op, from, attempt, todo>>

\* _save_edited_booking locks and re-reads the booking under the room lock.
LockBooking(p) ==
  /\ pc[p] = "row"
  /\ \E b \in Rows(p) :
       /\ rowLock[b] = None
       /\ \/ /\ b \in In(from[p]) /\ Found(op[p], b)
             /\ rowLock' = [rowLock EXCEPT ![b] = p]
             /\ pc' = [pc EXCEPT ![p] = "check"]
             /\ UNCHANGED <<rooms, name, sorted, booking, roomLock, op, from, attempt, todo>>
          \/ Live(b) /\ b \notin In(from[p]) /\ Again(p)
          \/ /\ ~(Live(b) /\ (b \in In(from[p]) => Found(op[p], b)))
             /\ Rollback(p, "notfound")
             /\ UNCHANGED attempt

\* Mutant: the rows of one page are not compared with each other.
ValidNoSiblings(p) ==
  \A b \in Rows(p), c \in In(Target(p)) :
    b # c => ~Overlap(op[p].set[b], booking[c].slot)

\* Booking.clean for each submitted row, and the siblings of one admin page
\* against each other (BookingInlineFormSet.clean).
Valid(p) ==
  \A b \in Rows(p) :
    /\ \A c \in In(Target(p)) \ {b} : ~Overlap(op[p].set[b], booking[c].slot)
    /\ \A c \in Rows(p) \ {b} : ~Overlap(op[p].set[b], op[p].set[c])

\* A submitted row the inline's queryset lacks fails its form; one ticked for
\* deletion is skipped.
RowsKnown(p) ==
  Kind(p) = "page" => \A b \in Rows(p) : booking[b] = Absent \/ b \in In(Target(p))

\* The existing rows an admin page writes, one statement each.
Existing(p) ==
  CASE Kind(p) = "move" -> Rows(p)
    [] Kind(p) = "page" -> (Rows(p) \cup op[p].del) \cap In(Target(p))
    [] OTHER -> {}

Check(p) ==
  /\ pc[p] = "check"
  /\ \/ /\ Kind(p) = "move" /\ \E b \in Rows(p) : ~Live(b)
        /\ Rollback(p, "notfound")
     \/ /\ Kind(p) = "move" => \A b \in Rows(p) : Live(b)
        /\ ~(Target(p) \in rooms /\ RowsKnown(p) /\ Valid(p))
        /\ Rollback(p, "refused")
     \/ /\ Kind(p) = "move" => \A b \in Rows(p) : Live(b)
        /\ Target(p) \in rooms /\ RowsKnown(p) /\ Valid(p)
        /\ pc' = [pc EXCEPT ![p] = "write"]
        /\ \E s \in SetToSeqs(Existing(p)) : todo' = [todo EXCEPT ![p] = s]
        /\ UNCHANGED <<rooms, name, sorted, booking, roomLock, rowLock, op, from>>
  /\ UNCHANGED attempt

\* Mutant: the bookings of a deleted room are deleted by the ids read first.
WriteRowById(p) ==
  /\ pc[p] = "write"
  /\ todo[p] # <<>>
  /\ LET b == Head(todo[p]) IN
       /\ rowLock[b] = None
       /\ rowLock' = [rowLock EXCEPT ![b] = IF Live(b) THEN p ELSE None]
  /\ todo' = [todo EXCEPT ![p] = Tail(@)]
  /\ UNCHANGED <<rooms, name, sorted, booking, roomLock, pc, op, from, attempt>>

\* One UPDATE or DELETE by primary key.  It hits nothing when the row has
\* gone: update_fields keeps Django from inserting it again.  The DELETE of a
\* room's bookings also passes over a row that has left the room.
WriteRow(p) ==
  /\ pc[p] = "write"
  /\ todo[p] # <<>>
  /\ LET b == Head(todo[p]) IN
       /\ rowLock[b] = None
       /\ rowLock' = [rowLock EXCEPT ![b] =
            IF Live(b) /\ (Kind(p) = "drop" => booking[b].room = op[p].room)
            THEN p ELSE None]
  /\ todo' = [todo EXCEPT ![p] = Tail(@)]
  /\ UNCHANGED <<rooms, name, sorted, booking, roomLock, pc, op, from, attempt>>

\* The edit's save() has no update_fields: were its row gone, it would insert.
Written(p) ==
  {b \in Rows(p) : Kind(p) = "edit" \/ booking[b] = Absent \/ rowLock[b] = p}
Removed(p) == {b \in Ids \ Rows(p) : rowLock[b] = p}

\* The form of the edit has no author field; the others write one.
Author(p, b) == IF Kind(p) = "edit" /\ Live(b) THEN booking[b].author ELSE op[p].user

\* RoomAdmin.save_model writes every editable field, the name among them.
Renamed(p) == IF Kind(p) = "page" THEN [name EXCEPT ![op[p].room] = op[p].name] ELSE name

Commit(p) ==
  /\ pc[p] = "write"
  /\ todo[p] = <<>>
  /\ Kind(p) # "drop"
  /\ booking' = [b \in Ids |->
       IF b \in Written(p)
       THEN [room |-> Target(p), slot |-> op[p].set[b], author |-> Author(p, b)]
       ELSE IF b \in Removed(p) THEN Gone ELSE booking[b]]
  /\ name' = Renamed(p)
  /\ ReleaseLocks(p)
  \* BookingAdmin.save_model catches NotUpdated and warns.
  /\ pc' = [pc EXCEPT ![p] =
       IF Kind(p) = "move" /\ Written(p) = {} THEN "notfound" ELSE "done"]
  /\ UNCHANGED <<rooms, sorted, op, from, attempt, todo>>

\* Mutant: no foreign key holds the room while a booking is in it.
CommitDropUnchecked(p) ==
  /\ pc[p] = "write"
  /\ todo[p] = <<>>
  /\ Kind(p) = "drop"
  /\ roomLock[op[p].room] = None
  /\ rooms' = rooms \ {op[p].room}
  /\ booking' = [b \in Ids |-> IF b \in Removed(p) THEN Gone ELSE booking[b]]
  /\ ReleaseLocks(p)
  /\ pc' = [pc EXCEPT ![p] = "done"]
  /\ UNCHANGED <<name, sorted, op, from, attempt, todo>>

\* DELETE of the room and the commit, where the deferred foreign key finds a
\* booking made since and fails the transaction.
CommitDrop(p) ==
  /\ pc[p] = "write"
  /\ todo[p] = <<>>
  /\ Kind(p) = "drop"
  /\ roomLock[op[p].room] = None
  /\ \/ /\ In(op[p].room) \subseteq Removed(p)
        /\ rooms' = rooms \ {op[p].room}
        /\ booking' = [b \in Ids |-> IF b \in Removed(p) THEN Gone ELSE booking[b]]
        /\ ReleaseLocks(p)
        /\ pc' = [pc EXCEPT ![p] = "done"]
        /\ UNCHANGED <<name, sorted, op, from, todo>>
     \/ ~(In(op[p].room) \subseteq Removed(p)) /\ Rollback(p, "error")
  /\ UNCHANGED attempt

\* The transactions p waits for: at most one, at the lock it needs next.
WaitsFor(p) ==
  CASE pc[p] = "lock" ->
         {roomLock[r] : r \in {x \in RoomsToLock(p) \cap rooms :
            \A s \in RoomsToLock(p) \cap rooms :
              Before(sorted[p], s, x) => roomLock[s] = p}} \ {None, p}
    [] pc[p] = "row" -> {rowLock[b] : b \in Rows(p)} \ {None, p}
    [] pc[p] = "write" /\ todo[p] # <<>> -> {rowLock[Head(todo[p])]} \ {None, p}
    [] pc[p] = "write" /\ todo[p] = <<>> /\ Kind(p) = "drop" ->
         {roomLock[op[p].room]} \ {None, p}
    [] OTHER -> {}

\* Requests of which each waits for one of them and is waited for by one.
WaitCycle(S) ==
  S # {} /\ \A q \in S : WaitsFor(q) \cap S # {} /\ \E w \in S : q \in WaitsFor(w)

Deadlocked(p) == \E S \in SUBSET Procs : p \in S /\ WaitCycle(S)

\* PostgreSQL aborts one transaction of a cycle; no view catches the error.
AbortDeadlock(p) ==
  /\ Deadlocked(p)
  /\ Rollback(p, "error")
  /\ UNCHANGED attempt

\* The worker or its connection dies inside the transaction.
Crash(p) ==
  /\ pc[p] \in InTx
  /\ Rollback(p, "error")
  /\ UNCHANGED attempt

-----------------------------------------------------------------------------

Step(p) ==
  \/ FindRoom(p) \/ SortRooms(p) \/ LockRoom(p) \/ RoomsLocked(p)
  \/ LockBooking(p) \/ Check(p) \/ WriteRow(p) \/ Commit(p) \/ CommitDrop(p)

Next == \E p \in Procs : Submit(p) \/ Step(p) \/ AbortDeadlock(p) \/ Crash(p)

Spec == Init /\ [][Next]_vars

\* A running worker goes on and PostgreSQL breaks wait cycles; nothing makes
\* a visitor submit.
FairSpec ==
  /\ Spec
  /\ \A p \in Procs : WF_vars(Step(p)) /\ WF_vars(AbortDeadlock(p))

-----------------------------------------------------------------------------
(* Properties. *)

\* Every variable keeps its shape, and no request starts a third attempt.
TypeOK ==
  /\ rooms \subseteq Rooms
  /\ name \in [Rooms -> Nat]
  /\ sorted \in [Procs -> [Rooms -> Nat]]
  /\ booking \in [Ids -> Records \cup {Absent, Gone}]
  /\ roomLock \in [Rooms -> Procs \cup {None}]
  /\ rowLock \in [Ids -> Procs \cup {None}]
  /\ pc \in [Procs -> {"idle"} \cup InTx \cup Answered]
  /\ op \in [Procs -> Ops \cup {None}]
  /\ from \in [Procs -> Rooms \cup {None}]
  /\ attempt \in [Procs -> 0 .. 2]
  /\ \A p \in Procs : pc[p] \notin Answered => attempt[p] < 2
  /\ todo \in [Procs -> Seq(Ids)]

\* No room is booked twice for the same time, whichever of the public form,
\* the edit page, the booking admin and the room admin wrote the two bookings
\* (room_detail: "two simultaneous submissions cannot both pass the overlap
\* check").
NoOverlap ==
  \A b, c \in Ids :
    b # c /\ Live(b) /\ Live(c) /\ booking[b].room = booking[c].room
      => ~Overlap(booking[b].slot, booking[c].slot)

\* A booking that was cancelled never comes back, through an edit or an admin
\* page that had loaded it before (editable_field_names: a booking "would come
\* back to life").
NoResurrection ==
  [][\A b \in Ids : booking[b] = Gone => booking'[b] = Gone]_vars

\* A member only ever changes a booking that is the member's own when the
\* change commits (_save_edited_booking: owner "is checked again after the row
\* is locked").
OwnerEdits ==
  [][\A p \in Procs, b \in Ids :
       pc[p] = "write" /\ pc'[p] = "done" /\ Kind(p) = "edit" /\ op[p].user # None
       /\ booking'[b] # booking[b]
         => Live(b) /\ booking[b].author = op[p].user]_vars

\* A booking is never left in a room that has been deleted.
NoOrphan == \A b \in Ids : Live(b) => booking[b].room \in rooms

\* The lock order - rooms by name, then the booking - keeps requests from waiting
\* for each other in a circle (_save_edited_booking: taking the second room late
\* "would reverse the lock order").  Left are the requests that write several
\* rows: the deletion of a room, or two pages of different rooms, whose rows can
\* be the same ones after moves that had read their room too early; and two
\* moves that sorted the same rooms around a rename (RoomAdmin.save_model).
CycleOnlyOfPages ==
  \A S \in SUBSET Procs : WaitCycle(S) =>
    \/ \E p \in S : Kind(p) = "drop"
    \/ \E p, q \in S :
         /\ Kind(p) = "page" /\ Kind(q) = "page"
         /\ op[p].room # op[q].room
         /\ todo[p] # <<>> /\ todo[q] # <<>>
    \/ \E p, q \in S :
         /\ Kind(p) = "move" /\ Kind(q) = "move"
         /\ pc[p] = "lock" /\ pc[q] = "lock"
         /\ \E r, s \in RoomsToLock(p) : Before(sorted[p], r, s) /\ Before(sorted[q], s, r)

answer ==
  [p \in Procs |-> CASE pc[p] = "done" -> "done"
                     [] pc[p] \in Answered \ {"done"} -> "failed"
                     [] OTHER -> "none"]

Promise == INSTANCE Calendar WITH asked <- op

\* Locks, retries and separate statements implement the calendar in which an
\* accepted request takes effect as a whole at one moment.
ImplementsCalendar == Promise!Init /\ [][Promise!Next]_<<rooms, booking, op, answer>>

\* A submitted request is answered: no lock wait, wait cycle or retry keeps it.
EveryRequestAnswered == \A p \in Procs : pc[p] \in InTx ~> pc[p] \in Answered
-----------------------------------------------------------------------------
(* The inductive strengthening.  Its parts:                                *)
(*   a request has an operation, and whoever is past the room lock holds   *)
(*     the lock of the room it will write in, if that room is still there; *)
(*   an edit past the row lock holds that row only, and it is its user's;  *)
(*   only rows that are there are locked;                                  *)
(*   what was free when a request checked it is still free, and each row   *)
(*     it submitted that is in the room is locked or still to be locked.   *)

Asked == \A p \in Procs : pc[p] # "idle" => op[p] \in Ops

Writes(p) == Kind(p) \notin {"cancel", "drop"}

TargetHeld(p) ==
  pc[p] \in {"row", "check", "write"} /\ Writes(p) =>
    /\ Target(p) \in rooms => roomLock[Target(p)] = p
    /\ pc[p] = "write" => Target(p) \in rooms

EditHeld(p) ==
  pc[p] \in {"check", "write"} /\ Kind(p) = "edit" =>
    \A b \in Rows(p) : rowLock[b] = p /\ Found(op[p], b)

RowsHeld(p) ==
  /\ \A b \in Ids : rowLock[b] = p =>
       pc[p] \in {"check", "write"} /\ (Kind(p) = "edit" => b \in Rows(p))
  /\ pc[p] = "write" /\ Kind(p) = "edit" => todo[p] = <<>>

RowsLive == \A b \in Ids : rowLock[b] # None => Live(b)

Awaited(p, b) == \E i \in 1 .. Len(todo[p]) : todo[p][i] = b

StillFree(p) ==
  pc[p] = "write" /\ Writes(p) =>
    /\ \A b \in Rows(p), c \in In(Target(p)) \ Rows(p) :
         ~Overlap(op[p].set[b], booking[c].slot)
    /\ \A b, c \in Rows(p) : b # c => ~Overlap(op[p].set[b], op[p].set[c])
    /\ \A c \in Rows(p) \cap In(Target(p)) :
         Kind(p) = "create" \/ c \in Written(p) \/ Awaited(p, c)

Discipline(p) == TargetHeld(p) /\ EditHeld(p) /\ RowsHeld(p) /\ StillFree(p)

BookingInv ==
  /\ TypeOK
  /\ Asked
  /\ RowsLive
  /\ \A p \in Procs : Discipline(p)
  /\ NoOverlap
  /\ NoOrphan

=============================================================================
