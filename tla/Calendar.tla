------------------------------- MODULE Calendar -------------------------------
(***************************************************************************)
(* What room booking promises, without locks, statements or retries: each  *)
(* request is answered once, and an accepted one takes effect as a whole   *)
(* in one step, in a calendar where its target room exists, where the      *)
(* times it asks for are free and, for an edit through an account, where   *)
(* the booking belongs to that account.  RoomBooking implements this.      *)
(***************************************************************************)
EXTENDS Integers

CONSTANTS Procs, Rooms, Ids, None, Absent, Gone

VARIABLES
  rooms,    \* the rooms there are
  booking,  \* per id: the booking, Absent before it is made, Gone for ever after
  asked,    \* per request: the operation submitted, or None
  answer    \* per request: "none", "done" or "failed"

calendarVars == <<rooms, booking, asked, answer>>

\* Half-open intervals: a booking may start when another ends.
Overlap(s, t) == s[1] < t[2] /\ t[1] < s[2]

Live(b) == booking[b] \notin {Absent, Gone}

Init ==
  /\ rooms = Rooms
  /\ \A b \in Ids : booking[b] = Absent \/ booking[b].room \in Rooms
  /\ \A b, c \in Ids :
       b # c /\ Live(b) /\ Live(c) /\ booking[b].room = booking[c].room
         => ~Overlap(booking[b].slot, booking[c].slot)
  /\ asked = [p \in Procs |-> None]
  /\ answer = [p \in Procs |-> "none"]

Ask(p) ==
  /\ asked[p] = None
  /\ asked'[p] # None
  /\ asked' = [asked EXCEPT ![p] = asked'[p]]
  /\ answer' \in {answer, [answer EXCEPT ![p] = "failed"]}
  /\ UNCHANGED <<rooms, booking>>

Fail(p) ==
  /\ asked[p] # None
  /\ answer[p] = "none"
  /\ answer' = [answer EXCEPT ![p] = "failed"]
  /\ UNCHANGED <<rooms, booking, asked>>

\* The rows W of request o, all at once, in the given room.
Free(o, room, W) ==
  \A b \in W :
    /\ \A c \in Ids \ W : Live(c) /\ booking[c].room = room
                            => ~Overlap(o.set[b], booking[c].slot)
    /\ \A c \in W \ {b} : ~Overlap(o.set[b], o.set[c])

\* The rows W are written, the rows D removed, nothing else changes.
Put(o, room, W, D) ==
  /\ room \in rooms
  /\ Free(o, room, W)
  /\ \A b \in W : /\ booking'[b] \notin {Absent, Gone}
                  /\ booking'[b].room = room
                  /\ booking'[b].slot = o.set[b]
  /\ booking' = [b \in Ids |-> IF b \in W THEN booking'[b]
                               ELSE IF b \in D THEN Gone ELSE booking[b]]

Create(o) ==
  LET W == DOMAIN o.set IN
    /\ \A b \in W : booking[b] = Absent
    /\ Put(o, o.room, W, {})
    /\ \A b \in W : booking'[b].author = o.user

\* The room is the booking's own, and the account still owns the booking.
Edit(o) ==
  \E b \in DOMAIN o.set :
    /\ Live(b)
    /\ o.user \in {None, booking[b].author}
    /\ Put(o, booking[b].room, {b}, {})
    /\ booking'[b].author = booking[b].author

Move(o) ==
  LET W == DOMAIN o.set IN
    /\ \A b \in W : Live(b)
    /\ Put(o, o.room, W, {})
    /\ \A b \in W : booking'[b].author = o.user

\* Rows that have gone stay gone; a ticked row of another room may survive.
Page(o) ==
  LET W == {b \in DOMAIN o.set : booking[b] # Gone} IN
    /\ \E D \in SUBSET o.del : Put(o, o.room, W, {b \in D : Live(b)})
    /\ \A b \in W : booking'[b].author = o.user

Cancel(o) ==
  booking' = [b \in Ids |-> IF b \in o.del /\ Live(b) THEN Gone ELSE booking[b]]

Drop(o) ==
  booking' = [b \in Ids |-> IF Live(b) /\ booking[b].room = o.room
                            THEN Gone ELSE booking[b]]

Accept(p) ==
  /\ asked[p] # None
  /\ answer[p] = "none"
  /\ answer' = [answer EXCEPT ![p] = "done"]
  /\ LET o == asked[p] IN
       /\ \/ o.kind = "create" /\ Create(o)
          \/ o.kind = "edit"   /\ Edit(o)
          \/ o.kind = "move"   /\ Move(o)
          \/ o.kind = "page"   /\ Page(o)
          \/ o.kind = "cancel" /\ Cancel(o)
          \/ o.kind = "drop"   /\ Drop(o)
       /\ rooms' = IF o.kind = "drop" THEN rooms \ {o.room} ELSE rooms
  /\ UNCHANGED asked

Next == \E p \in Procs : Ask(p) \/ Fail(p) \/ Accept(p)

Spec == Init /\ [][Next]_calendarVars
=============================================================================
