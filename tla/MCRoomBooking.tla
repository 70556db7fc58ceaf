---------------------------- MODULE MCRoomBooking ----------------------------
(* Small instances of RoomBooking: two rooms, four booking ids. *)
EXTENDS RoomBooking, TLC

CONSTANTS p1, p2, p3, ann, bea, none, absent, gone

Request(kind, room, set, del, user) ==
  [kind |-> kind, room |-> room, set |-> set, del |-> del, user |-> user, name |-> 0]

\* A room page, with the name it gives its room.
Page(room, name_, set, del, user) ==
  [Request("page", room, set, del, user) EXCEPT !.name = name_]

\* Room 1 sorts first until a page calls it 3.
MCNamed == [r \in Rooms |-> r]

\* Bookings 1 and 2 of two members, in one room back to back or in two rooms.
MCCalendars ==
  {[b \in Ids |-> CASE b = 1 -> [room |-> 1, slot |-> <<0, 2>>, author |-> ann]
                    [] b = 2 -> [room |-> r, slot |-> <<2, 4>>, author |-> bea]
                    [] OTHER -> absent] : r \in {1, 2}}

NoRows == [b \in {} |-> <<0, 1>>]

Public ==
  {Request("create", 1, 3 :> <<1, 3>>, {}, ann),
   Request("create", 2, 4 :> <<0, 2>>, {}, none),
   Request("edit", 1, 1 :> <<1, 2>>, {}, ann),
   Request("edit", 1, 1 :> <<1, 3>>, {}, none),
   Request("edit", 1, 2 :> <<1, 3>>, {}, bea),
   Request("cancel", 1, NoRows, {1}, ann),
   Request("cancel", 1, NoRows, {2}, none)}

\* A move with a new author, moves back and forth, and room pages whose rows
\* overlap each other, the other bookings or nothing; one renames its room.
Board ==
  {Request("move", 2, 1 :> <<0, 2>>, {}, bea),
   Request("move", 1, 2 :> <<1, 3>>, {}, bea),
   Request("move", 1, 1 :> <<4, 6>>, {}, ann),
   Page(1, 1, 1 :> <<4, 6>> @@ 3 :> <<5, 7>>, {}, ann),
   Page(2, 2, 2 :> <<3, 4>> @@ 3 :> <<1, 3>>, {}, bea),
   Page(1, 3, 2 :> <<4, 5>>, {1}, bea)}

RoomDeletion == {Request("drop", 2, NoRows, {}, none)}

Deleting ==
  RoomDeletion \cup
  {Request("create", 2, 4 :> <<0, 2>>, {}, none),
   Request("edit", 1, 2 :> <<1, 3>>, {}, bea),
   Request("cancel", 1, NoRows, {2}, none),
   Request("move", 2, 1 :> <<0, 2>>, {}, bea),
   Request("move", 1, 2 :> <<4, 6>>, {}, bea),
   Page(2, 0, 2 :> <<3, 4>> @@ 3 :> <<1, 3>>, {}, bea)}

Writing == Public \cup Board

Symmetry == Permutations(Procs)
=============================================================================
