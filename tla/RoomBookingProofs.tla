-------------------------- MODULE RoomBookingProofs --------------------------
(***************************************************************************)
(* For any number of requests, rooms, bookings and members, and whatever   *)
(* the requests submit: no room is booked twice, no cancelled booking      *)
(* comes back, and a member edits only the member's own bookings.  Each    *)
(* request's commit is one atomic step of the calendar; the locks, retries *)
(* and single statements in between change nothing a visitor could see.    *)
(* Only room pages and room deletions can wait for each other in a circle. *)
(***************************************************************************)
EXTENDS RoomBooking, FiniteSetTheorems, SequenceTheorems, WellFoundedInduction, TLAPS

\* A way to write the rows S one after the other names each of them.
LEMMA Orders ==
  ASSUME NEW S \in SUBSET Ids, NEW s \in SetToSeqs(S)
  PROVE  /\ s \in Seq(Ids)
         /\ \A e \in S : \E i \in 1 .. Len(s) : s[i] = e
         /\ S = {} => s = <<>>
<1> DEFINE n == Cardinality(S)
<1>1. IsFiniteSet(S) /\ n \in Nat
  BY BookingAssumption, FS_Subset, FS_CardinalityType
<1>2. s \in [1 .. n -> S] /\ \A i, j \in 1 .. n : i # j => s[i] # s[j]
  BY DEF SetToSeqs
<1>3. s \in Injection(1 .. n, S)
  BY <1>2 DEF Injection, IsInjective
<1>4. Cardinality(1 .. n) = n
  BY <1>1, FS_Interval
<1>5. s \in Surjection(1 .. n, S)
  BY <1>1, <1>3, <1>4, FS_Injection
<1> HIDE DEF n
<1>6. s \in Seq(S) /\ Len(s) = n
  BY <1>1, <1>2
<1>7. S = {} => n = 0
  BY FS_EmptySet DEF n
<1>8. QED
  BY <1>5, <1>6, <1>7, SeqMonotonic, EmptySeq DEF Surjection

\* Two bookings overlap each other or neither does.
LEMMA OverlapSymmetric == \A s, t : Overlap(s, t) <=> Overlap(t, s)
BY DEF Overlap

\* What a request's operation looks like once it has been submitted.
LEMMA Shapes ==
  ASSUME BookingInv, NEW p \in Procs, pc[p] # "idle"
  PROVE  /\ IsOp(op[p])
         /\ op[p] \in Ops
         /\ op[p].room \in Rooms /\ op[p].user \in Users \cup {None}
         /\ Rows(p) \subseteq Ids
         /\ \A b \in Rows(p) : op[p].set[b] \in Slots
         /\ Kind(p) \in {"create", "edit", "cancel", "move", "page", "drop"}
         /\ Kind(p) \in {"cancel", "drop"} => Rows(p) = {}
         /\ Kind(p) \in {"create", "edit", "move"} => \E b \in Ids : Rows(p) = {b}
BY BookingAssumption DEF BookingInv, Asked, Rows, Kind, IsOp

LEMMA InitInv == Init => BookingInv
<1> SUFFICES ASSUME Init PROVE BookingInv
  OBVIOUS
<1> USE BookingAssumption DEF Init
<1>1. TypeOK
  <2>1. booking \in [Ids -> Records \cup {Absent, Gone}]
    OBVIOUS
  <2>2. todo \in [Procs -> Seq(Ids)]
    OBVIOUS
  <2>3. QED
    BY <2>1, <2>2 DEF TypeOK, InTx, Answered
<1>2. Asked /\ \A p \in Procs : Discipline(p)
  BY DEF Asked, Discipline, TargetHeld, EditHeld, RowsHeld, StillFree
<1>3. RowsLive
  BY DEF RowsLive
<1>4. NoOverlap
  BY DEF NoOverlap, Live
<1>5. NoOrphan
  <2>1. \A b \in Ids : Live(b) => booking[b] \in Records
    BY DEF Live
  <2>2. QED
    BY <2>1 DEF NoOrphan, Records
<1>6. QED
  BY <1>1, <1>2, <1>3, <1>4, <1>5 DEF BookingInv

\* A request keeps what it has checked while the others do nothing in the
\* room and with the rows it has locked.
LEMMA OthersKeep ==
  ASSUME BookingInv, NEW q \in Procs,
         pc'[q] = pc[q], op'[q] = op[q], from'[q] = from[q], todo'[q] = todo[q],
         rooms' \subseteq rooms,
         \A r \in Rooms : roomLock[r] = q => roomLock'[r] = q /\ (r \in rooms => r \in rooms'),
         \A b \in Ids : rowLock[b] = q => rowLock'[b] = q /\ booking'[b] = booking[b],
         \A b \in Ids : rowLock'[b] = q => rowLock[b] = q,
         \A r \in Rooms, c \in Ids : roomLock[r] = q /\ (c \in In(r))' =>
           c \in In(r) /\ booking'[c].slot = booking[c].slot
  PROVE  Discipline(q)'
<1>1. /\ Kind(q)' = Kind(q) /\ Target(q)' = Target(q)
      /\ Rows(q)' = Rows(q) /\ (Writes(q)' <=> Writes(q))
  BY DEF Kind, Target, Rows, Writes
<1>2. rooms \subseteq Rooms
  BY DEF BookingInv, TypeOK
<1>3. TargetHeld(q)'
  BY <1>1, <1>2 DEF BookingInv, Discipline, TargetHeld
<1>4. EditHeld(q)'
  <2> SUFFICES ASSUME pc'[q] \in {"check", "write"}, Kind(q)' = "edit", NEW b \in Rows(q)'
               PROVE  rowLock'[b] = q /\ Found(op[q], b)'
    BY DEF EditHeld
  <2>1. pc[q] \in {"check", "write"} /\ Kind(q) = "edit" /\ b \in Rows(q)
    BY <1>1
  <2>2. rowLock[b] = q /\ Found(op[q], b) /\ b \in Ids
    BY <2>1, Shapes DEF BookingInv, Discipline, EditHeld
  <2>3. booking'[b] = booking[b] /\ rowLock'[b] = q
    BY <2>2
  <2>4. QED
    BY <2>2, <2>3 DEF Found, Live
<1>5. RowsHeld(q)'
  BY <1>1 DEF BookingInv, Discipline, RowsHeld
<1>6. StillFree(q)'
  <2> SUFFICES ASSUME (pc[q] = "write" /\ Writes(q))'
               PROVE  /\ (\A b \in Rows(q), c \in In(Target(q)) \ Rows(q) :
                            ~Overlap(op[q].set[b], booking[c].slot))'
                      /\ (\A b, c \in Rows(q) : b # c => ~Overlap(op[q].set[b], op[q].set[c]))'
                      /\ (\A c \in Rows(q) \cap In(Target(q)) :
                            Kind(q) = "create" \/ c \in Written(q) \/ Awaited(q, c))'
    BY DEF StillFree
  <2>1. pc[q] = "write" /\ Writes(q) /\ Rows(q) \subseteq Ids
    BY <1>1, Shapes
  <2>2. Target(q) \in Rooms /\ roomLock[Target(q)] = q
    BY <2>1, <1>2 DEF BookingInv, Discipline, TargetHeld
  <2>3. \A c \in In(Target(q))' : c \in In(Target(q)) /\ booking'[c].slot = booking[c].slot
    BY <2>2, <1>1 DEF In
  <2>4. /\ \A b \in Rows(q), c \in In(Target(q)) \ Rows(q) :
             ~Overlap(op[q].set[b], booking[c].slot)
        /\ \A b, c \in Rows(q) : b # c => ~Overlap(op[q].set[b], op[q].set[c])
        /\ \A c \in Rows(q) \cap In(Target(q)) :
             Kind(q) = "create" \/ c \in Written(q) \/ Awaited(q, c)
    BY <2>1 DEF BookingInv, Discipline, StillFree
  <2>5. (\A b \in Rows(q), c \in In(Target(q)) \ Rows(q) :
           ~Overlap(op[q].set[b], booking[c].slot))'
    <3> SUFFICES ASSUME NEW b \in Rows(q)', NEW c \in (In(Target(q)) \ Rows(q))'
                 PROVE  ~Overlap(op'[q].set[b], booking'[c].slot)
      OBVIOUS
    <3>1. b \in Rows(q) /\ c \in In(Target(q)) \ Rows(q) /\ booking'[c].slot = booking[c].slot
      BY <1>1, <2>3
    <3>2. QED
      BY <3>1, <2>4
  <2>6. (\A c \in Rows(q) \cap In(Target(q)) :
           Kind(q) = "create" \/ c \in Written(q) \/ Awaited(q, c))'
    <3> SUFFICES ASSUME NEW c \in (Rows(q) \cap In(Target(q)))'
                 PROVE  Kind(q)' = "create" \/ c \in Written(q)' \/ Awaited(q, c)'
      OBVIOUS
    <3>1. c \in Rows(q) /\ c \in In(Target(q)) /\ c \in Ids
      BY <1>1, <2>1, <2>3
    <3>2. CASE Kind(q) = "create"
      BY <3>2, <1>1
    <3>3. CASE Awaited(q, c)
      BY <3>3 DEF Awaited
    <3>4. CASE c \in Written(q)
      BY <3>1, <3>4, <1>1 DEF Written, In, Live
    <3>5. QED
      BY <3>1, <3>2, <3>3, <3>4, <2>4
  <2>7. QED
    BY <2>4, <2>5, <2>6, <1>1
<1>7. QED
  BY <1>3, <1>4, <1>5, <1>6 DEF Discipline

\* A step of p that writes nothing: what is left is p's own discipline.
LEMMA QuietInv ==
  ASSUME BookingInv, NEW p \in Procs, UNCHANGED <<rooms, booking>>,
         TypeOK', Asked', Discipline(p)',
         \A q \in Procs \ {p} : /\ pc'[q] = pc[q] /\ op'[q] = op[q]
                                /\ from'[q] = from[q] /\ todo'[q] = todo[q],
         \A r \in Rooms, q \in Procs \ {p} : roomLock[r] = q => roomLock'[r] = q,
         \A b \in Ids, q \in Procs \ {p} : rowLock[b] = q <=> rowLock'[b] = q,
         \A b \in Ids : rowLock'[b] # None => rowLock[b] # None \/ Live(b)
  PROVE  BookingInv'
<1>1. \A r : In(r)' = In(r)
  BY DEF In, Live
<1>2. \A q \in Procs \ {p} : Discipline(q)'
  BY <1>1, OthersKeep
<1>3. RowsLive'
  BY DEF BookingInv, RowsLive, Live
<1>4. NoOverlap' /\ NoOrphan'
  BY DEF BookingInv, NoOverlap, NoOrphan, Live
<1>5. QED
  BY <1>2, <1>3, <1>4 DEF BookingInv

\* A transaction that is rolled back leaves the others as they were.
LEMMA RollbackInv ==
  ASSUME BookingInv, NEW p \in Procs, NEW outcome \in {"find"} \cup Answered,
         pc[p] # "idle", Rollback(p, outcome),
         attempt' \in [Procs -> 0 .. 2],
         \A q \in Procs \ {p} : attempt'[q] = attempt[q],
         outcome = "find" => attempt'[p] < 2
  PROVE  BookingInv'
<1> USE BookingAssumption DEF Rollback, ReleaseLocks
<1>0. TypeOK
  BY DEF BookingInv
<1>1. TypeOK'
  BY <1>0 DEF TypeOK, InTx, Answered
<1>2. Asked'
  BY <1>0 DEF BookingInv, Asked, TypeOK, Answered
<1>3. pc'[p] \notin {"row", "check", "write"}
  BY <1>0 DEF TypeOK, Answered
<1>4. Discipline(p)'
  BY <1>3 DEF Discipline, TargetHeld, EditHeld, RowsHeld, StillFree
<1>5. \A q \in Procs \ {p} : /\ pc'[q] = pc[q] /\ op'[q] = op[q]
                             /\ from'[q] = from[q] /\ todo'[q] = todo[q]
  BY <1>0 DEF TypeOK
<1>6. /\ \A r \in Rooms, q \in Procs \ {p} : roomLock[r] = q => roomLock'[r] = q
      /\ \A b \in Ids, q \in Procs \ {p} : rowLock[b] = q <=> rowLock'[b] = q
      /\ \A b \in Ids : rowLock'[b] # None => rowLock[b] # None \/ Live(b)
  OBVIOUS
<1>7. QED
  BY <1>1, <1>2, <1>4, <1>5, <1>6, QuietInv

\* A request is submitted: it has locked nothing and checked nothing.
LEMMA SubmitInv ==
  ASSUME BookingInv, NEW p \in Procs, Submit(p)
  PROVE  BookingInv'
<1> USE DEF Submit
<1>0. TypeOK
  BY DEF BookingInv
<1>1. \A r : In(r) \subseteq Ids
  BY DEF In
<1>2. todo' \in [Procs -> Seq(Ids)]
  <2>1. \A o \in Ops : \A s : s \in SetToSeqs(o.del) \cup SetToSeqs(In(o.room)) => s \in Seq(Ids)
    BY <1>1, Orders, BookingAssumption DEF IsOp
  <2>2. \/ todo' = todo
        \/ \E o \in Ops : \E s \in SetToSeqs(o.del) \cup SetToSeqs(In(o.room)) :
             todo' = [todo EXCEPT ![p] = s]
    OBVIOUS
  <2>3. todo \in [Procs -> Seq(Ids)]
    BY <1>0 DEF TypeOK
  <2>4. QED
    BY <2>1, <2>2, <2>3
<1>3. /\ pc'[p] \in {"notfound", "lock", "find", "write"}
      /\ pc' = [pc EXCEPT ![p] = pc'[p]]
      /\ op'[p] \in Ops
      /\ op' = [op EXCEPT ![p] = op'[p]]
      /\ pc'[p] = "write" => op'[p].kind \in {"cancel", "drop"}
      /\ \A q \in Procs \ {p} : todo'[q] = todo[q]
  BY <1>0 DEF TypeOK
<1>4. TypeOK'
  <2>1. pc' \in [Procs -> {"idle"} \cup InTx \cup Answered]
    BY <1>0, <1>3 DEF TypeOK, InTx, Answered
  <2>2. op' \in [Procs -> Ops \cup {None}]
    BY <1>0, <1>3 DEF TypeOK
  <2>3. \A q \in Procs : pc'[q] \notin Answered => attempt'[q] < 2
    BY <1>0, <1>3 DEF TypeOK, Answered
  <2>4. QED
    BY <1>0, <1>2, <2>1, <2>2, <2>3 DEF TypeOK
<1>5. Asked'
  BY <1>0, <1>3 DEF BookingInv, Asked, TypeOK
<1>6. Discipline(p)'
  <2>1. TargetHeld(p)' /\ EditHeld(p)' /\ StillFree(p)'
    BY <1>3 DEF TargetHeld, EditHeld, StillFree, Writes, Kind
  <2>2. RowsHeld(p)'
    BY <1>3 DEF BookingInv, Discipline, RowsHeld, Kind
  <2>3. QED
    BY <2>1, <2>2 DEF Discipline
<1>7. \A q \in Procs \ {p} : /\ pc'[q] = pc[q] /\ op'[q] = op[q]
                             /\ from'[q] = from[q] /\ todo'[q] = todo[q]
  BY <1>0, <1>3 DEF TypeOK
<1>8. QED
  BY <1>4, <1>5, <1>6, <1>7, QuietInv

LEMMA FindRoomInv ==
  ASSUME BookingInv, NEW p \in Procs, FindRoom(p)
  PROVE  BookingInv'
<1> USE DEF FindRoom
<1>0. TypeOK /\ Rows(p) \subseteq Ids
  BY Shapes DEF BookingInv
<1>1. \A b \in Ids : Live(b) => booking[b].room \in Rooms
  BY <1>0 DEF TypeOK, Live, Records
<1>2. TypeOK'
  BY ZenonT(40), <1>0, <1>1 DEF TypeOK, InTx, Answered
<1>3. Asked'
  BY <1>0 DEF BookingInv, Asked, TypeOK
<1>4. Discipline(p)'
  BY <1>0 DEF BookingInv, Discipline, TargetHeld, EditHeld, RowsHeld, StillFree, TypeOK
<1>5. \A q \in Procs \ {p} : /\ pc'[q] = pc[q] /\ op'[q] = op[q]
                             /\ from'[q] = from[q] /\ todo'[q] = todo[q]
  BY <1>0 DEF TypeOK
<1>6. QED
  BY <1>2, <1>3, <1>4, <1>5, QuietInv

LEMMA SortRoomsInv ==
  ASSUME BookingInv, NEW p \in Procs, SortRooms(p)
  PROVE  BookingInv'
<1> USE DEF SortRooms
<1>0. TypeOK
  BY DEF BookingInv
<1>1. TypeOK'
  BY <1>0 DEF TypeOK, InTx, Answered
<1>2. Asked'
  BY <1>0 DEF BookingInv, Asked, TypeOK
<1>3. Discipline(p)'
  BY ZenonT(100), <1>0 DEF BookingInv, Discipline, TargetHeld, EditHeld, RowsHeld, StillFree, TypeOK
<1>4. \A q \in Procs \ {p} : pc'[q] = pc[q]
  BY <1>0 DEF TypeOK
<1>5. QED
  BY <1>1, <1>2, <1>3, <1>4, QuietInv

LEMMA LockRoomInv ==
  ASSUME BookingInv, NEW p \in Procs, LockRoom(p)
  PROVE  BookingInv'
<1> USE DEF LockRoom
<1>0. TypeOK
  BY DEF BookingInv
<1>1. TypeOK'
  <2>1. roomLock' \in [Rooms -> Procs \cup {None}]
    BY <1>0 DEF TypeOK
  <2>2. QED
    BY <1>0, <2>1 DEF TypeOK
<1>2. Asked'
  BY DEF BookingInv, Asked
<1>3. Discipline(p)'
  BY DEF BookingInv, Discipline, TargetHeld, EditHeld, RowsHeld, StillFree
<1>4. \A r \in Rooms, q \in Procs \ {p} : roomLock[r] = q => roomLock'[r] = q
  BY <1>0, BookingAssumption DEF TypeOK
<1>5. QED
  BY <1>1, <1>2, <1>3, <1>4, QuietInv

\* Past the room lock: the target is locked, if it is there.
LEMMA RoomsLockedInv ==
  ASSUME BookingInv, NEW p \in Procs, RoomsLocked(p)
  PROVE  BookingInv'
<1> USE BookingAssumption DEF RoomsLocked
<1>0. TypeOK
  BY DEF BookingInv
<1>1. CASE Target(p) \notin rooms /\ Kind(p) # "move"
  BY <1>0, <1>1, RollbackInv DEF TypeOK, Answered
<1>2. CASE Target(p) \in rooms \/ Kind(p) = "move"
  <2>0. /\ pc' = [pc EXCEPT ![p] = IF Kind(p) = "edit" THEN "row" ELSE "check"]
        /\ UNCHANGED <<rooms, name, sorted, booking, roomLock, rowLock, op, from, todo, attempt>>
    BY <1>2
  <2>1. TypeOK'
    BY <1>0, <2>0 DEF TypeOK, InTx, Answered
  <2>2. Asked'
    BY <1>0, <2>0 DEF BookingInv, Asked, TypeOK
  <2>3. TargetHeld(p)'
    <3>1. Target(p) \in rooms => Target(p) \in RoomsToLock(p) \cap rooms
      BY ZenonT(40), <1>0 DEF RoomsToLock, Target, TypeOK
    <3>2. Target(p)' = Target(p) /\ pc'[p] # "write"
      BY <1>0, <2>0 DEF Target, Kind, TypeOK
    <3>3. QED
      BY <2>0, <3>1, <3>2 DEF TargetHeld
  <2>4. EditHeld(p)' /\ StillFree(p)'
    BY <1>0, <2>0 DEF EditHeld, StillFree, Kind, TypeOK
  <2>5. RowsHeld(p)'
    BY <1>0, <2>0 DEF BookingInv, Discipline, RowsHeld, TypeOK
  <2>6. \A q \in Procs \ {p} : pc'[q] = pc[q]
    BY <1>0, <2>0 DEF TypeOK
  <2>7. QED
    BY <2>0, <2>1, <2>2, <2>3, <2>4, <2>5, <2>6, QuietInv DEF Discipline
<1>3. QED
  BY <1>1, <1>2

\* Past the row lock: the row is there, in the locked room, and the user's.
LEMMA LockBookingInv ==
  ASSUME BookingInv, NEW p \in Procs, LockBooking(p)
  PROVE  BookingInv'
<1> USE BookingAssumption DEF LockBooking
<1>0. TypeOK
  BY DEF BookingInv
<1>1. CASE Again(p)
  <2>1. pc[p] = "row" /\ attempt[p] \in {0, 1}
    <3>1. pc[p] = "row" /\ pc[p] \notin Answered
      BY DEF Answered
    <3>2. attempt[p] \in 0 .. 2 /\ attempt[p] < 2
      BY <1>0, <3>1 DEF TypeOK
    <3>3. QED
      BY <3>1, <3>2
  <2>2. attempt' \in [Procs -> 0 .. 2] /\ (attempt[p] = 0 => attempt'[p] < 2)
    BY <1>0, <1>1, <2>1 DEF Again, TypeOK
  <2>3. \A q \in Procs \ {p} : attempt'[q] = attempt[q]
    BY <1>0, <1>1 DEF Again, TypeOK
  <2>4. CASE attempt[p] = 0
    BY <1>1, <2>1, <2>2, <2>3, <2>4, RollbackInv DEF Again, Answered
  <2>5. CASE attempt[p] # 0
    BY <1>1, <2>1, <2>2, <2>3, <2>5, RollbackInv DEF Again, Answered
  <2>6. QED
    BY <2>4, <2>5
<1>2. CASE Rollback(p, "notfound") /\ UNCHANGED attempt
  BY <1>0, <1>2, RollbackInv DEF TypeOK, Answered
<1>3. ASSUME NEW b \in Rows(p), rowLock[b] = None,
             b \in In(from[p]), Found(op[p], b),
             rowLock' = [rowLock EXCEPT ![b] = p],
             pc' = [pc EXCEPT ![p] = "check"],
             UNCHANGED <<rooms, name, sorted, booking, roomLock, op, from, attempt, todo>>
      PROVE  BookingInv'
  <2> USE <1>3
  <2>0. b \in Ids /\ Live(b)
    BY DEF In
  <2>1. TypeOK'
    BY <1>0, <2>0 DEF TypeOK, InTx, Answered
  <2>2. Asked'
    BY <1>0 DEF BookingInv, Asked, TypeOK
  <2>3. pc'[p] = "check" /\ rowLock'[b] = p
    BY <1>0, <2>0 DEF TypeOK
  <2>4. TargetHeld(p)'
    BY <2>3 DEF BookingInv, Discipline, TargetHeld, Writes, Target, Kind
  <2>5. EditHeld(p)'
    <3> SUFFICES ASSUME Kind(p) = "edit", NEW c \in Rows(p)
                 PROVE  rowLock'[c] = p /\ Found(op[p], c)'
      BY DEF EditHeld, Kind, Rows
    <3>1. c = b
      BY Shapes
    <3>2. QED
      BY <2>3, <3>1 DEF Found, Live
  <2>6. StillFree(p)'
    BY <2>3 DEF StillFree
  <2>7. /\ \A q \in Procs \ {p} : pc'[q] = pc[q]
        /\ \A c \in Ids, q \in Procs \ {p} : rowLock[c] = q <=> rowLock'[c] = q
        /\ \A c \in Ids : rowLock'[c] # None => rowLock[c] # None \/ Live(c)
        /\ \A c \in Ids : rowLock'[c] = p => rowLock[c] = p \/ c = b
    BY <1>0, <2>0 DEF TypeOK
  <2>8. RowsHeld(p)'
    <3>1. \A c \in Ids : rowLock[c] # p
      BY DEF BookingInv, Discipline, RowsHeld
    <3>2. QED
      BY <2>3, <2>7, <3>1 DEF RowsHeld, Rows
  <2>9. QED
    BY <2>1, <2>2, <2>4, <2>5, <2>6, <2>7, <2>8, QuietInv DEF Discipline
<1>4. QED
  BY <1>1, <1>2, <1>3

\* What Check has compared stays compared: the rows to be written are named.
LEMMA CheckInv ==
  ASSUME BookingInv, NEW p \in Procs, Check(p)
  PROVE  BookingInv'
<1> USE DEF Check
<1>0. TypeOK /\ pc[p] # "idle"
  BY DEF BookingInv
<1>1. CASE \E outcome \in {"notfound", "refused"} : Rollback(p, outcome)
  BY <1>0, <1>1, RollbackInv DEF TypeOK, Answered
<1>2. ASSUME NEW s \in SetToSeqs(Existing(p)),
             Target(p) \in rooms, RowsKnown(p), Valid(p),
             Kind(p) = "move" => \A b \in Rows(p) : Live(b),
             todo' = [todo EXCEPT ![p] = s],
             pc' = [pc EXCEPT ![p] = "write"],
             UNCHANGED <<rooms, name, sorted, booking, roomLock, rowLock, op, from, attempt>>
      PROVE  BookingInv'
  <2> USE <1>2
  <2>1. Existing(p) \subseteq Ids
    BY <1>0, Shapes DEF Existing, In
  <2>2. /\ s \in Seq(Ids)
        /\ \A e \in Existing(p) : \E i \in 1 .. Len(s) : s[i] = e
        /\ Existing(p) = {} => s = <<>>
    BY <2>1, Orders
  <2>3. TypeOK'
    <3>1. todo' \in [Procs -> Seq(Ids)]
      BY <1>0, <2>2 DEF TypeOK
    <3>2. QED
      BY <1>0, <3>1 DEF TypeOK, InTx, Answered
  <2>4. Asked'
    BY <1>0 DEF BookingInv, Asked, TypeOK
  <2>5. /\ pc[p] = "check" /\ pc'[p] = "write" /\ todo'[p] = s
        /\ Kind(p)' = Kind(p) /\ Target(p)' = Target(p) /\ Rows(p)' = Rows(p)
        /\ In(Target(p))' = In(Target(p)) /\ Written(p)' = Written(p)
    BY <1>0 DEF TypeOK, Kind, Target, Rows, In, Live, Written
  <2>6. TargetHeld(p)'
    BY <2>5 DEF BookingInv, Discipline, TargetHeld, Writes
  <2>7. EditHeld(p)'
    <3>1. EditHeld(p)
      BY <1>0 DEF BookingInv, Discipline
    <3>2. op' = op /\ booking' = booking /\ rowLock' = rowLock
      OBVIOUS
    <3>3. QED
      BY <2>5, <3>1, <3>2 DEF EditHeld, Found, Live, Rows, Kind
  <2>8. StillFree(p)'
    <3>1. \A c \in Rows(p) \cap In(Target(p)) :
            Kind(p) = "create" \/ c \in Written(p) \/ Awaited(p, c)'
      <4> SUFFICES ASSUME NEW c \in Rows(p) \cap In(Target(p)),
                          Kind(p) # "create", Writes(p)
                   PROVE  c \in Written(p) \/ Awaited(p, c)'
        BY <2>5, Shapes, <1>0 DEF Writes
      <4>1. CASE Kind(p) = "edit"
        BY <4>1 DEF Written
      <4>2. CASE Kind(p) \in {"move", "page"}
        <5>1. c \in Existing(p)
          BY <4>2 DEF Existing
        <5>2. QED
          BY <2>2, <2>5, <5>1 DEF Awaited
      <4>3. QED
        BY <1>0, <4>1, <4>2, Shapes DEF Writes
    <3>2. /\ \A b \in Rows(p), c \in In(Target(p)) \ Rows(p) :
               ~Overlap(op[p].set[b], booking[c].slot)
          /\ \A b, c \in Rows(p) : b # c => ~Overlap(op[p].set[b], op[p].set[c])
      BY DEF Valid
    <3>3. QED
      BY <2>5, <3>1, <3>2 DEF StillFree
  <2>9. \A q \in Procs \ {p} : pc'[q] = pc[q] /\ todo'[q] = todo[q]
    BY <1>0 DEF TypeOK
  <2>10. RowsHeld(p)'
    <3>1. Kind(p) = "edit" => s = <<>>
      BY <2>2 DEF Existing
    <3>2. QED
      BY <2>5, <3>1 DEF BookingInv, Discipline, RowsHeld
  <2>11. QED
    BY <2>3, <2>4, <2>6, <2>7, <2>8, <2>9, <2>10, QuietInv DEF Discipline
<1>3. QED
  BY <1>1, <1>2

\* A row leaves the list of rows to be written: it is locked, or it has gone.
LEMMA WriteRowInv ==
  ASSUME BookingInv, NEW p \in Procs, WriteRow(p)
  PROVE  BookingInv'
<1> USE DEF WriteRow
<1>0. TypeOK /\ pc[p] = "write" /\ todo[p] # <<>>
  BY DEF BookingInv
<1> DEFINE b == Head(todo[p])
<1>1. todo[p] \in Seq(Ids)
  BY <1>0 DEF TypeOK
<1>2. /\ b \in Ids /\ Tail(todo[p]) \in Seq(Ids)
      /\ Len(Tail(todo[p])) = Len(todo[p]) - 1 /\ Len(todo[p]) \in Nat /\ b = todo[p][1]
      /\ \A i \in 1 .. Len(Tail(todo[p])) : Tail(todo[p])[i] = todo[p][i + 1]
  BY <1>0, <1>1, HeadTailProperties
<1>3. /\ rowLock[b] = None
      /\ rowLock' = [rowLock EXCEPT ![b] =
           IF Live(b) /\ (Kind(p) = "drop" => booking[b].room = op[p].room)
           THEN p ELSE None]
      /\ todo' = [todo EXCEPT ![p] = Tail(@)]
  OBVIOUS
<1> HIDE DEF b
<1>4. /\ todo'[p] = Tail(todo[p])
      /\ \A q \in Procs \ {p} : todo'[q] = todo[q]
      /\ \A c \in Ids \ {b} : rowLock'[c] = rowLock[c]
      /\ rowLock'[b] \in {p, None}
      /\ Live(b) /\ Kind(p) # "drop" => rowLock'[b] = p
      /\ rowLock'[b] = p => Live(b) \/ p = None
  BY <1>0, <1>2, <1>3 DEF TypeOK
<1>5. TypeOK'
  <2>1. todo' \in [Procs -> Seq(Ids)] /\ rowLock' \in [Ids -> Procs \cup {None}]
    BY <1>0, <1>2, <1>3 DEF TypeOK
  <2>2. QED
    BY <1>0, <2>1 DEF TypeOK
<1>6. Asked'
  BY DEF BookingInv, Asked
<1>7. /\ Kind(p)' = Kind(p) /\ Target(p)' = Target(p) /\ Rows(p)' = Rows(p)
      /\ In(Target(p))' = In(Target(p)) /\ (Writes(p)' <=> Writes(p))
  BY DEF Kind, Target, Rows, In, Live, Writes
<1>8. TargetHeld(p)'
  BY <1>7 DEF BookingInv, Discipline, TargetHeld
<1>9. p # None
  BY BookingAssumption
<1>10. EditHeld(p)'
  <2> SUFFICES ASSUME Kind(p) = "edit", NEW c \in Rows(p)
               PROVE  rowLock'[c] = p /\ Found(op[p], c)'
    BY <1>7 DEF EditHeld
  <2>1. rowLock[c] = p /\ Found(op[p], c) /\ c \in Ids
    BY <1>0, Shapes DEF BookingInv, Discipline, EditHeld
  <2>2. QED
    BY <2>1, <1>3, <1>4, <1>9 DEF Found, Live
<1>11. StillFree(p)'
  <2> SUFFICES ASSUME Writes(p)
               PROVE  /\ (\A c \in Rows(p), d \in In(Target(p)) \ Rows(p) :
                            ~Overlap(op[p].set[c], booking[d].slot))'
                      /\ (\A c, d \in Rows(p) : c # d => ~Overlap(op[p].set[c], op[p].set[d]))'
                      /\ (\A c \in Rows(p) \cap In(Target(p)) :
                            Kind(p) = "create" \/ c \in Written(p) \/ Awaited(p, c))'
    BY <1>7 DEF StillFree
  <2>1. /\ \A c \in Rows(p), d \in In(Target(p)) \ Rows(p) :
             ~Overlap(op[p].set[c], booking[d].slot)
        /\ \A c, d \in Rows(p) : c # d => ~Overlap(op[p].set[c], op[p].set[d])
        /\ \A c \in Rows(p) \cap In(Target(p)) :
             Kind(p) = "create" \/ c \in Written(p) \/ Awaited(p, c)
    BY <1>0 DEF BookingInv, Discipline, StillFree
  <2>2. ASSUME NEW c \in Rows(p) \cap In(Target(p)), Kind(p) # "create"
        PROVE  c \in Written(p)' \/ Awaited(p, c)'
    <3>1. c \in Ids /\ Live(c) /\ Kind(p) # "drop"
      BY <2>2 DEF In, Writes
    <3>2. CASE c \in Written(p)
      <4>1. rowLock[c] = p => c # b
        BY <1>3, <1>9
      <4>2. QED
        BY <3>1, <3>2, <4>1, <1>4, <1>7 DEF Written
    <3>3. CASE c = b
      BY <3>1, <3>3, <2>2, <1>4, <1>7 DEF Written
    <3>4. CASE Awaited(p, c) /\ c # b
      <4>1. PICK i \in 1 .. Len(todo[p]) : todo[p][i] = c
        BY <3>4 DEF Awaited
      <4>2. i # 1 /\ i - 1 \in 1 .. Len(Tail(todo[p])) /\ Tail(todo[p])[i - 1] = c
        BY <3>4, <4>1, <1>2
      <4>3. QED
        BY <4>2, <1>4 DEF Awaited
    <3>5. QED
      BY <2>1, <2>2, <3>2, <3>3, <3>4
  <2>3. QED
    BY <2>1, <2>2, <1>7
<1>12. /\ \A c \in Ids, q \in Procs \ {p} : rowLock[c] = q <=> rowLock'[c] = q
       /\ \A c \in Ids : rowLock'[c] # None => rowLock[c] # None \/ Live(c)
  BY <1>3, <1>4, <1>9, BookingAssumption
<1>13. RowsHeld(p)'
  <2>1. Kind(p) # "edit"
    BY <1>0 DEF BookingInv, Discipline, RowsHeld
  <2>2. QED
    BY <1>0, <1>7, <2>1 DEF RowsHeld
<1>14. QED
  BY <1>4, <1>5, <1>6, <1>8, <1>10, <1>11, <1>12, <1>13, QuietInv DEF Discipline

\* What a commit puts in the calendar, and where.
LEMMA CommitWrites ==
  ASSUME BookingInv, NEW p \in Procs, Commit(p)
  PROVE  /\ Written(p) \subseteq Rows(p) /\ Rows(p) \subseteq Ids
         /\ Written(p) # {} => Writes(p) /\ Target(p) \in rooms /\ roomLock[Target(p)] = p
         /\ \A b \in Written(p) :
              /\ booking'[b] = [room |-> Target(p), slot |-> op[p].set[b], author |-> Author(p, b)]
              /\ booking'[b] \in Records
              /\ rowLock[b] = p \/ booking[b] = Absent
         /\ \A b \in Ids \ Written(p) : booking'[b] = booking[b] \/ (booking'[b] = Gone /\ rowLock[b] = p)
<1> USE DEF Commit
<1>1. TypeOK /\ pc[p] = "write"
  BY DEF BookingInv
<1>2. Written(p) \subseteq Rows(p) /\ Rows(p) \subseteq Ids
  BY <1>1, Shapes DEF Written
<1>3. Written(p) # {} => Writes(p)
  BY <1>1, <1>2, Shapes DEF Writes
<1>4. Writes(p) => Target(p) \in rooms /\ roomLock[Target(p)] = p
  BY <1>1 DEF BookingInv, Discipline, TargetHeld
<1>5. ASSUME NEW b \in Written(p)
      PROVE  /\ booking'[b] = [room |-> Target(p), slot |-> op[p].set[b], author |-> Author(p, b)]
             /\ booking'[b] \in Records
             /\ rowLock[b] = p \/ booking[b] = Absent
  <2>1. booking'[b] = [room |-> Target(p), slot |-> op[p].set[b], author |-> Author(p, b)]
    BY <1>2, <1>5
  <2>2. Author(p, b) \in Users \cup {None}
    <3>1. Live(b) => booking[b] \in Records
      BY <1>1, <1>2, <1>5 DEF TypeOK, Live
    <3>2. QED
      BY <1>1, <3>1, Shapes DEF Author, Records
  <2>3. op[p].set[b] \in Slots
    BY <1>1, <1>2, <1>5, Shapes
  <2>4. Target(p) \in Rooms
    BY <1>1, <1>3, <1>4, <1>5 DEF TypeOK
  <2>5. booking'[b] \in Records
    BY <2>1, <2>2, <2>3, <2>4 DEF Records
  <2>6. Kind(p) = "edit" => rowLock[b] = p
    BY <1>1, <1>2, <1>5 DEF BookingInv, Discipline, EditHeld
  <2>7. QED
    BY <2>1, <2>5, <2>6, <1>5 DEF Written
<1>6. \A b \in Ids \ Written(p) :
        booking'[b] = booking[b] \/ (booking'[b] = Gone /\ rowLock[b] = p)
  BY DEF Removed
<1>7. QED
  BY <1>2, <1>3, <1>4, <1>5, <1>6

LEMMA CommitInv ==
  ASSUME BookingInv, NEW p \in Procs, Commit(p)
  PROVE  BookingInv'
<1> USE BookingAssumption DEF Commit
<1>0. TypeOK /\ pc[p] = "write" /\ todo[p] = <<>>
  BY DEF BookingInv
<1>1. /\ \A b \in Ids : Live(b)' /\ b \notin Written(p) => booking'[b] = booking[b] /\ Live(b)
      /\ \A b \in Written(p) : Live(b)' /\ booking'[b].room = Target(p)
                               /\ booking'[b].slot = op[p].set[b]
  BY CommitWrites DEF Live
<1>2. TypeOK'
  <2>1. booking' \in [Ids -> Records \cup {Absent, Gone}]
    <3>1. ASSUME NEW b \in Ids PROVE booking'[b] \in Records \cup {Absent, Gone}
      <4>1. booking[b] \in Records \cup {Absent, Gone}
        BY <1>0 DEF TypeOK
      <4>2. CASE b \in Written(p)
        BY <4>2, CommitWrites
      <4>3. CASE b \notin Written(p)
        BY <4>1, <4>3, CommitWrites
      <4>4. QED
        BY <4>2, <4>3
    <3>2. booking' = [b \in Ids |-> booking'[b]]
      OBVIOUS
    <3>3. QED
      BY <3>1, <3>2
  <2>2. /\ roomLock' \in [Rooms -> Procs \cup {None}]
        /\ rowLock' \in [Ids -> Procs \cup {None}]
    BY <1>0 DEF TypeOK, ReleaseLocks
  <2>3. name' \in [Rooms -> Nat]
    BY <1>0 DEF Renamed, TypeOK, BookingInv, Asked, IsOp
  <2>4. QED
    BY <1>0, <2>1, <2>2, <2>3 DEF TypeOK, Answered
<1>3. Asked'
  BY <1>0 DEF BookingInv, Asked, TypeOK
<1>4. Discipline(p)'
  <2>1. pc'[p] \notin {"row", "check", "write"} /\ \A b \in Ids : rowLock'[b] # p
    BY <1>0 DEF TypeOK, ReleaseLocks
  <2>2. QED
    BY <2>1 DEF Discipline, TargetHeld, EditHeld, RowsHeld, StillFree
<1>5. ASSUME NEW q \in Procs \ {p}
      PROVE  Discipline(q)'
  <2>1. /\ pc'[q] = pc[q] /\ op'[q] = op[q] /\ from'[q] = from[q] /\ todo'[q] = todo[q]
        /\ rooms' = rooms
        /\ \A r \in Rooms : roomLock[r] = q => roomLock'[r] = q
    BY <1>0 DEF TypeOK, ReleaseLocks
  <2>2. \A b \in Ids : rowLock[b] = q => rowLock'[b] = q /\ booking'[b] = booking[b]
    <3> SUFFICES ASSUME NEW b \in Ids, rowLock[b] = q
                 PROVE  rowLock'[b] = q /\ booking'[b] = booking[b]
      OBVIOUS
    <3>1. booking[b] # Absent
      BY DEF BookingInv, RowsLive, Live
    <3>2. QED
      BY <3>1, CommitWrites DEF ReleaseLocks
  <2>3. \A b \in Ids : rowLock'[b] = q => rowLock[b] = q
    BY DEF ReleaseLocks
  <2>4. \A r \in Rooms, c \in Ids : roomLock[r] = q /\ (c \in In(r))' =>
          c \in In(r) /\ booking'[c].slot = booking[c].slot
    <3> SUFFICES ASSUME NEW r \in Rooms, NEW c \in Ids, roomLock[r] = q,
                        Live(c)', booking'[c].room = r
                 PROVE  c \in In(r) /\ booking'[c].slot = booking[c].slot
      BY DEF In
    <3>1. c \notin Written(p)
      BY <1>1, CommitWrites
    <3>2. QED
      BY <1>1, <3>1 DEF In
  <2>5. QED
    BY <2>1, <2>2, <2>3, <2>4, OthersKeep
<1>6. RowsLive'
  <2> SUFFICES ASSUME NEW b \in Ids, rowLock'[b] # None PROVE Live(b)'
    BY DEF RowsLive
  <2>1. rowLock[b] # p /\ rowLock[b] # None /\ Live(b)
    BY DEF ReleaseLocks, BookingInv, RowsLive
  <2>2. booking'[b] = booking[b]
    BY <2>1, CommitWrites DEF Live
  <2>3. QED
    BY <2>1, <2>2 DEF Live
<1>7. NoOverlap'
  <2>1. ASSUME NEW b \in Written(p), NEW c \in Ids \ {b}, Live(c)',
               booking'[c].room = Target(p)
        PROVE  ~Overlap(booking'[b].slot, booking'[c].slot)
    <3>1. Writes(p) /\ b \in Rows(p)
      BY CommitWrites
    <3>2. CASE c \in Rows(p)
      <4>1. c \in Written(p)
        <5>1. SUFFICES ASSUME c \notin Written(p) PROVE FALSE
          OBVIOUS
        <5>2. c \in In(Target(p))
          BY <5>1, <1>1, <2>1 DEF In
        <5>3. Kind(p) = "create" \/ Awaited(p, c)
          BY <1>0, <3>1, <3>2, <5>1, <5>2 DEF BookingInv, Discipline, StillFree
        <5>4. ~Awaited(p, c)
          BY <1>0 DEF Awaited
        <5>5. Kind(p) # "create"
          BY <1>0, <3>1, <3>2, <2>1, Shapes
        <5>6. QED
          BY <5>3, <5>4, <5>5
      <4>2. ~Overlap(op[p].set[b], op[p].set[c])
        BY <1>0, <3>1, <3>2 DEF BookingInv, Discipline, StillFree
      <4>3. QED
        BY <4>1, <4>2, <1>1
    <3>3. CASE c \notin Rows(p)
      <4>1. c \in In(Target(p)) /\ booking'[c] = booking[c]
        BY <3>3, <1>1, <2>1, CommitWrites DEF In
      <4>2. ~Overlap(op[p].set[b], booking[c].slot)
        BY <1>0, <3>1, <3>3, <4>1 DEF BookingInv, Discipline, StillFree
      <4>3. QED
        BY <4>1, <4>2, <1>1
    <3>4. QED
      BY <3>2, <3>3
  <2> SUFFICES ASSUME NEW b \in Ids, NEW c \in Ids, b # c, Live(b)', Live(c)',
                      booking'[b].room = booking'[c].room
               PROVE  ~Overlap(booking'[b].slot, booking'[c].slot)
    BY DEF NoOverlap
  <2>2. CASE b \in Written(p)
    BY <2>1, <2>2, <1>1
  <2>3. CASE c \in Written(p)
    BY <2>1, <2>3, <1>1, OverlapSymmetric
  <2>4. CASE b \notin Written(p) /\ c \notin Written(p)
    BY <2>4, <1>1 DEF BookingInv, NoOverlap
  <2>5. QED
    BY <2>2, <2>3, <2>4
<1>8. NoOrphan'
  BY <1>1, CommitWrites DEF BookingInv, NoOrphan
<1>9. QED
  BY <1>2, <1>3, <1>4, <1>5, <1>6, <1>7, <1>8 DEF BookingInv

\* A room goes only without a lock on it and with all its bookings.
LEMMA CommitDropInv ==
  ASSUME BookingInv, NEW p \in Procs, CommitDrop(p)
  PROVE  BookingInv'
<1> USE DEF CommitDrop
<1>0. TypeOK /\ pc[p] = "write" /\ roomLock[op[p].room] = None /\ p # None
  BY BookingAssumption DEF BookingInv
<1>1. CASE Rollback(p, "error")
  BY <1>0, <1>1, RollbackInv DEF TypeOK, Answered
<1>2. ASSUME In(op[p].room) \subseteq Removed(p),
             rooms' = rooms \ {op[p].room},
             booking' = [b \in Ids |-> IF b \in Removed(p) THEN Gone ELSE booking[b]],
             ReleaseLocks(p),
             pc' = [pc EXCEPT ![p] = "done"],
             UNCHANGED <<op, from, todo, attempt>>
      PROVE  BookingInv'
  <2> USE <1>2
  <2>1. \A b \in Ids : Live(b)' => booking'[b] = booking[b] /\ Live(b)
                                   /\ booking[b].room # op[p].room
    BY DEF Live, In
  <2>2. TypeOK'
    <3>1. /\ roomLock' \in [Rooms -> Procs \cup {None}]
          /\ rowLock' \in [Ids -> Procs \cup {None}]
          /\ booking' \in [Ids -> Records \cup {Absent, Gone}]
      BY <1>0 DEF TypeOK, ReleaseLocks
    <3>2. QED
      BY <1>0, <3>1 DEF TypeOK, Answered
  <2>3. Asked'
    BY <1>0 DEF BookingInv, Asked, TypeOK
  <2>4. Discipline(p)'
    <3>1. pc'[p] = "done" /\ \A b \in Ids : rowLock'[b] # p
      BY <1>0 DEF TypeOK, ReleaseLocks
    <3>2. QED
      BY <3>1 DEF Discipline, TargetHeld, EditHeld, RowsHeld, StillFree
  <2>5. ASSUME NEW q \in Procs \ {p}
        PROVE  Discipline(q)'
    <3>1. /\ pc'[q] = pc[q] /\ rooms' \subseteq rooms /\ q # None
          /\ \A r \in Rooms : roomLock[r] = q => roomLock'[r] = q /\ r # op[p].room
          /\ \A b \in Ids : rowLock[b] = q => rowLock'[b] = q /\ booking'[b] = booking[b]
          /\ \A b \in Ids : rowLock'[b] = q => rowLock[b] = q
      BY <1>0, BookingAssumption DEF TypeOK, ReleaseLocks, Removed
    <3>2. \A r \in Rooms, c \in Ids : (c \in In(r))' =>
            c \in In(r) /\ booking'[c].slot = booking[c].slot
      BY <2>1 DEF In
    <3>3. QED
      BY <3>1, <3>2, OthersKeep
  <2>6. RowsLive'
    <3> SUFFICES ASSUME NEW b \in Ids, rowLock'[b] # None PROVE Live(b)'
      BY DEF RowsLive
    <3>1. rowLock[b] # p /\ Live(b)
      BY DEF ReleaseLocks, BookingInv, RowsLive
    <3>2. QED
      BY <3>1 DEF Live, Removed
  <2>7. NoOverlap' /\ NoOrphan'
    BY <2>1 DEF BookingInv, NoOverlap, NoOrphan
  <2>8. QED
    BY <2>2, <2>3, <2>4, <2>5, <2>6, <2>7 DEF BookingInv
<1>3. QED
  BY <1>1, <1>2

LEMMA NextInv == BookingInv /\ [Next]_vars => BookingInv'
<1> SUFFICES ASSUME BookingInv, [Next]_vars PROVE BookingInv'
  OBVIOUS
<1>1. CASE UNCHANGED vars
  BY <1>1 DEF vars, BookingInv, TypeOK, Asked, RowsLive, Discipline, TargetHeld,
     EditHeld, RowsHeld, StillFree, NoOverlap, NoOrphan, Live, In, Kind, Target, Rows, Writes,
     Found, Written, Awaited
<1>2. ASSUME NEW p \in Procs, AbortDeadlock(p) \/ Crash(p) PROVE BookingInv'
  <2>1. pc[p] # "idle"
    <3>1. CASE Crash(p)
      BY <3>1 DEF Crash, InTx
    <3>2. CASE AbortDeadlock(p)
      <4>1. WaitsFor(p) # {}
        BY <3>2 DEF AbortDeadlock, Deadlocked, WaitCycle
      <4>2. QED
        BY <4>1 DEF WaitsFor
    <3>3. QED
      BY <1>2, <3>1, <3>2
  <2>2. Rollback(p, "error") /\ UNCHANGED attempt /\ TypeOK
    BY <1>2 DEF AbortDeadlock, Crash, BookingInv
  <2>3. QED
    BY <2>1, <2>2, RollbackInv DEF Answered, TypeOK
<1>3. ASSUME NEW p \in Procs, Submit(p) \/ Step(p) PROVE BookingInv'
  BY <1>3, SubmitInv, FindRoomInv, SortRoomsInv, LockRoomInv, RoomsLockedInv, LockBookingInv,
     CheckInv, WriteRowInv, CommitInv, CommitDropInv DEF Step
<1>4. QED
  BY <1>1, <1>2, <1>3 DEF Next

-----------------------------------------------------------------------------

\* The lock discipline of src/booking holds in every reachable state.
THEOREM BookingInvariant == Spec => []BookingInv
<1>1. QED
  BY InitInv, NextInv, PTL DEF Spec

\* Every variable keeps its shape, and no edit starts a third attempt.
THEOREM BookingTypeCorrect == Spec => []TypeOK
<1>1. BookingInv => TypeOK
  BY DEF BookingInv
<1>2. QED
  BY <1>1, BookingInvariant, PTL

\* The room lock and Booking.clean under it are enough: no two bookings of a
\* room ever overlap, though no database constraint says so.
THEOREM NoDoubleBooking == Spec => []NoOverlap
<1>1. BookingInv => NoOverlap
  BY DEF BookingInv
<1>2. QED
  BY <1>1, BookingInvariant, PTL

\* No booking outlives its room, also when it was made or moved while the
\* room was being deleted.
THEOREM NoBookingWithoutRoom == Spec => []NoOrphan
<1>1. BookingInv => NoOrphan
  BY DEF BookingInv
<1>2. QED
  BY <1>1, BookingInvariant, PTL

\* A cancelled booking never comes back, although the edit's save() would
\* insert a row it does not find.
THEOREM CancelledStaysCancelled == Spec => NoResurrection
<1>1. BookingInv /\ [Next]_vars => \A b \in Ids : booking[b] = Gone => booking'[b] = Gone
  <2> SUFFICES ASSUME BookingInv, [Next]_vars, NEW b \in Ids, booking[b] = Gone
               PROVE  booking'[b] = Gone
    OBVIOUS
  <2>1. rowLock[b] = None
    BY DEF BookingInv, RowsLive, Live
  <2>2. ASSUME NEW p \in Procs, Commit(p) PROVE booking'[b] = Gone
    BY ZenonT(40), <2>1, <2>2, CommitWrites, BookingAssumption
  <2>3. ASSUME NEW p \in Procs, CommitDrop(p) PROVE booking'[b] = Gone
    BY <2>3 DEF CommitDrop, Rollback
  <2>4. CASE UNCHANGED booking
    BY <2>4
  <2>5. ASSUME NEW p \in Procs, AbortDeadlock(p) \/ Crash(p) \/ Submit(p) \/ Step(p),
               ~Commit(p), ~CommitDrop(p)
        PROVE  UNCHANGED booking
    BY <2>5 DEF AbortDeadlock, Crash, Submit, Step, FindRoom, SortRooms, LockRoom, RoomsLocked,
       LockBooking, Again, Check, WriteRow, Rollback
  <2>6. QED
    BY <2>2, <2>3, <2>4, <2>5 DEF Next, Step, vars
<1>2. QED
  BY <1>1, BookingInvariant, PTL DEF Spec, NoResurrection

\* The check under the row lock is in time: an edit through an account that
\* commits changes a booking of that account.
THEOREM EditsAreOwners == Spec => OwnerEdits
<1>1. BookingInv /\ [Next]_vars =>
        \A p \in Procs, b \in Ids :
          pc[p] = "write" /\ pc'[p] = "done" /\ Kind(p) = "edit" /\ op[p].user # None
          /\ booking'[b] # booking[b]
            => Live(b) /\ booking[b].author = op[p].user
  <2> SUFFICES ASSUME BookingInv, [Next]_vars, NEW p \in Procs, NEW b \in Ids,
                      pc[p] = "write", pc'[p] = "done", Kind(p) = "edit",
                      op[p].user # None, booking'[b] # booking[b]
               PROVE  Live(b) /\ booking[b].author = op[p].user
    OBVIOUS
  <2>1. \A c \in Rows(p) : rowLock[c] = p /\ Found(op[p], c)
    BY DEF BookingInv, Discipline, EditHeld
  <2>2. Rows(p) \subseteq Ids /\ \E c \in Ids : Rows(p) = {c}
    BY Shapes
  <2>3. Commit(p)
    <3>1. \A q \in Procs \ {p} : pc'[p] = "done" =>
            ~(Submit(q) \/ Step(q) \/ AbortDeadlock(q) \/ Crash(q))
      BY DEF BookingInv, TypeOK, Submit, Step, FindRoom, SortRooms, LockRoom, RoomsLocked,
         LockBooking, Again, Check, WriteRow, Commit, CommitDrop, AbortDeadlock,
         Crash, Rollback
    <3>2. Submit(p) \/ Step(p) \/ AbortDeadlock(p) \/ Crash(p)
      BY <3>1 DEF Next, vars
    <3>3. pc \in [Procs -> {"idle"} \cup InTx \cup Answered]
      BY DEF BookingInv, TypeOK
    <3>4. ~AbortDeadlock(p) /\ ~Crash(p)
      BY <3>3 DEF AbortDeadlock, Crash, Rollback
    <3>5. ~WriteRow(p) /\ ~CommitDrop(p)
      BY <3>3 DEF WriteRow, CommitDrop
    <3>6. QED
      BY <3>2, <3>4, <3>5 DEF Step, Submit, FindRoom, SortRooms, LockRoom, RoomsLocked,
         LockBooking, Check
  <2>4. b \in Rows(p)
    BY <2>2, <2>3, CommitWrites DEF BookingInv, Discipline, RowsHeld
  <2>5. QED
    BY <2>1, <2>4 DEF Found
<1>2. QED
  BY <1>1, BookingInvariant, PTL DEF Spec, OwnerEdits

-----------------------------------------------------------------------------

(***************************************************************************)
(* What BookingInv has to be strengthened with: no two requests insert the *)
(* same id, only a request that cancels or deletes a room skips the check, *)
(* a request locks only rows that it names, in their room, and when it has *)
(* run its statements it has locked every such row that is still there.    *)
(***************************************************************************)
Unasked == \A p \in Procs : pc[p] = "idle" => op[p] = None

OwnIds ==
  \A p, q \in Procs :
    p # q /\ pc[p] # "idle" /\ pc[q] # "idle" =>
      \A b \in Rows(p) \cap Rows(q) : booking[b] # Absent

Staged(p) ==
  /\ pc[p] \in {"find", "sort", "lock", "row", "check"} => Writes(p)
  /\ pc[p] # "write" => todo[p] = <<>>

NamedOnly(p) ==
  pc[p] # "idle" /\ Kind(p) # "drop" =>
    \A b \in Ids : rowLock[b] = p \/ Awaited(p, b) => b \in Rows(p) \cup op[p].del

Touched(p) == IF Kind(p) = "cancel" THEN op[p].del ELSE Rows(p)

Reached(p) ==
  pc[p] = "write" /\ Kind(p) \in {"move", "cancel", "page"} =>
    \A b \in Touched(p) :
      /\ Kind(p) # "page" => booking[b] # Absent
      /\ Live(b) => rowLock[b] = p \/ Awaited(p, b)

Unmade(p) ==
  pc[p] \in InTx /\ Kind(p) = "create" => \A b \in Rows(p) : booking[b] = Absent

SameRoom(p) ==
  \A b \in Ids : rowLock[b] = p /\ Kind(p) \in {"edit", "drop"} =>
    booking[b].room = Target(p)

Exact(p) == Staged(p) /\ NamedOnly(p) /\ Reached(p) /\ Unmade(p) /\ SameRoom(p)

CalendarInv == Unasked /\ OwnIds /\ \A p \in Procs : Exact(p)

-----------------------------------------------------------------------------

\* The rows a request names are bookings.
LEMMA NamesIds ==
  ASSUME BookingInv, NEW p \in Procs, pc[p] # "idle"
  PROVE  op[p].del \subseteq Ids /\ Rows(p) \subseteq Ids /\ Touched(p) \subseteq Ids
BY Shapes DEF IsOp, Touched

\* A way to write the rows S one after the other names no other row.
LEMMA OrdersOnly ==
  ASSUME NEW S \in SUBSET Ids, NEW s \in SetToSeqs(S)
  PROVE  \A i \in 1 .. Len(s) : s[i] \in S
<1>1. Cardinality(S) \in Nat
  BY BookingAssumption, FS_Subset, FS_CardinalityType
<1>2. s \in [1 .. Cardinality(S) -> S]
  BY DEF SetToSeqs
<1>3. Len(s) = Cardinality(S)
  BY <1>1, <1>2
<1>4. QED
  BY <1>2, <1>3

LEMMA InitExact == Init => CalendarInv
<1> SUFFICES ASSUME Init PROVE CalendarInv
  OBVIOUS
<1> USE BookingAssumption DEF Init
<1>1. Unasked /\ OwnIds
  BY DEF Unasked, OwnIds
<1>2. \A p \in Procs : Staged(p) /\ NamedOnly(p) /\ Reached(p) /\ Unmade(p)
  BY DEF Staged, NamedOnly, Reached, Unmade, InTx
<1>3. \A p \in Procs : SameRoom(p)
  BY DEF SameRoom
<1>4. QED
  BY <1>1, <1>2, <1>3 DEF CalendarInv, Exact

\* What a step may do to the bookings a request does not hold: rows it has
\* locked stay, ids it will insert stay free, nothing made becomes unmade.
Respects(q) ==
  /\ \A b \in Ids : rowLock[b] = q <=> rowLock'[b] = q
  /\ \A b \in Ids : rowLock[b] = q => booking'[b] = booking[b]
  /\ \A b \in Ids : booking[b] # Absent => booking'[b] # Absent
  /\ \A b \in Ids : Live(b)' => Live(b) \/ booking[b] = Absent
  /\ pc[q] # "idle" => \A b \in Rows(q) : booking[b] = Absent => booking'[b] = Absent

LEMMA OthersExact ==
  ASSUME BookingInv, CalendarInv, NEW q \in Procs, Respects(q),
         pc'[q] = pc[q], op'[q] = op[q], from'[q] = from[q], todo'[q] = todo[q]
  PROVE  Exact(q)'
<1>1. /\ Kind(q)' = Kind(q) /\ Target(q)' = Target(q)
      /\ Rows(q)' = Rows(q) /\ Touched(q)' = Touched(q)
  BY DEF Kind, Target, Rows, Touched
<1>2. \A b : Awaited(q, b)' <=> Awaited(q, b)
  BY DEF Awaited
<1>3. NamedOnly(q)'
  BY <1>1, <1>2 DEF CalendarInv, Exact, NamedOnly, Respects
<1>4. Reached(q)'
  <2> SUFFICES ASSUME pc[q] = "write", Kind(q) \in {"move", "cancel", "page"}, NEW b \in Touched(q)
               PROVE  /\ Kind(q) # "page" => booking'[b] # Absent
                      /\ Live(b)' => rowLock'[b] = q \/ Awaited(q, b)
    BY <1>1, <1>2 DEF Reached
  <2>1. b \in Ids
    BY NamesIds
  <2>2. /\ Kind(q) # "page" => booking[b] # Absent
        /\ Live(b) => rowLock[b] = q \/ Awaited(q, b)
    BY DEF CalendarInv, Exact, Reached
  <2>3. Kind(q) = "page" => b \in Rows(q)
    BY DEF Touched
  <2>4. Live(b)' => Live(b)
    BY <2>1, <2>2, <2>3 DEF Respects, Live
  <2>5. QED
    BY <2>1, <2>2, <2>4 DEF Respects
<1>5. Unmade(q)'
  BY <1>1 DEF CalendarInv, Exact, Unmade, Respects, InTx
<1>6. SameRoom(q)'
  BY <1>1 DEF CalendarInv, Exact, SameRoom, Respects
<1>7. Staged(q)'
  BY DEF CalendarInv, Exact, Staged, Writes, Kind
<1>8. QED
  BY <1>3, <1>4, <1>5, <1>6, <1>7 DEF Exact

\* A step of p that keeps to its own rows: what is left is p's own part.
LEMMA StepExact ==
  ASSUME BookingInv, CalendarInv, NEW p \in Procs, pc[p] # "idle", pc'[p] # "idle", op' = op,
         \A q \in Procs \ {p} : /\ pc'[q] = pc[q] /\ from'[q] = from[q] /\ todo'[q] = todo[q]
                                /\ Respects(q),
         \A b \in Ids : booking[b] # Absent => booking'[b] # Absent,
         Exact(p)'
  PROVE  CalendarInv'
<1>1. \A q \in Procs \ {p} : Exact(q)'
  BY OthersExact
<1>2. Unasked'
  BY DEF CalendarInv, Unasked
<1>3. OwnIds'
  <2> SUFFICES ASSUME NEW q \in Procs, NEW r \in Procs, q # r, pc'[q] # "idle", pc'[r] # "idle",
                      NEW b \in Rows(q)' \cap Rows(r)'
               PROVE  booking'[b] # Absent
    BY DEF OwnIds
  <2>1. pc[q] # "idle" /\ pc[r] # "idle" /\ b \in Rows(q) \cap Rows(r)
    BY DEF Rows
  <2>2. b \in Ids /\ booking[b] # Absent
    BY <2>1, NamesIds DEF CalendarInv, OwnIds
  <2>3. QED
    BY <2>2
<1>4. QED
  BY <1>1, <1>2, <1>3 DEF CalendarInv

\* The same for a step that leaves the bookings alone.
LEMMA QuietExact ==
  ASSUME BookingInv, CalendarInv, NEW p \in Procs, pc[p] # "idle", pc'[p] # "idle",
         op' = op, booking' = booking,
         \A q \in Procs \ {p} : pc'[q] = pc[q] /\ from'[q] = from[q] /\ todo'[q] = todo[q],
         \A b \in Ids, q \in Procs \ {p} : rowLock[b] = q <=> rowLock'[b] = q,
         Exact(p)'
  PROVE  CalendarInv'
<1>1. \A q \in Procs \ {p} : Respects(q)
  BY DEF Respects, Live
<1>2. QED
  BY <1>1, StepExact

LEMMA RollbackExact ==
  ASSUME BookingInv, CalendarInv, NEW p \in Procs, NEW outcome \in {"find"} \cup Answered,
         pc[p] \in InTx, Rollback(p, outcome), outcome = "find" => Writes(p)
  PROVE  CalendarInv'
<1> USE BookingAssumption DEF Rollback, ReleaseLocks
<1>0. TypeOK
  BY DEF BookingInv
<1>1. pc[p] # "idle" /\ pc'[p] = outcome /\ pc'[p] \notin {"idle", "write"} /\ todo'[p] = <<>>
  BY <1>0 DEF TypeOK, InTx, Answered
<1>2. \A b \in Ids : rowLock'[b] # p /\ ~Awaited(p, b)'
  BY <1>1 DEF Awaited
<1>3. \A b \in Ids, q \in Procs \ {p} : rowLock[b] = q <=> rowLock'[b] = q
  OBVIOUS
<1>4. NamedOnly(p)' /\ Reached(p)' /\ SameRoom(p)'
  BY <1>1, <1>2 DEF NamedOnly, Reached, SameRoom
<1>5. Unmade(p)'
  BY DEF CalendarInv, Exact, Unmade, Kind, Rows
<1>6. Staged(p)'
  BY <1>1 DEF Staged, Writes, Kind, Answered
<1>7. QED
  BY <1>0, <1>1, <1>3, <1>4, <1>5, <1>6, QuietExact DEF Exact, TypeOK

-----------------------------------------------------------------------------

\* The steps up to the room lock only move a request on.
LEMMA StagesExact ==
  ASSUME BookingInv, CalendarInv, NEW p \in Procs,
         FindRoom(p) \/ SortRooms(p) \/ LockRoom(p)
  PROVE  CalendarInv'
<1> USE DEF FindRoom, SortRooms, LockRoom
<1>0. TypeOK /\ pc[p] \in {"find", "sort", "lock"} /\ UNCHANGED <<booking, rowLock, op, todo>>
  BY DEF BookingInv
<1>1. /\ pc'[p] \in {"sort", "lock", "notfound"}
      /\ \A q \in Procs \ {p} : pc'[q] = pc[q] /\ from'[q] = from[q] /\ todo'[q] = todo[q]
  BY <1>0 DEF TypeOK
<1>2. \A b \in Ids : rowLock'[b] # p /\ ~Awaited(p, b)'
  BY <1>0, <1>1 DEF BookingInv, Discipline, RowsHeld, CalendarInv, Exact, Staged, Awaited
<1>3. Staged(p)'
  BY <1>0, <1>1 DEF CalendarInv, Exact, Staged, Writes, Kind
<1>4. NamedOnly(p)' /\ Reached(p)' /\ SameRoom(p)'
  BY <1>1, <1>2 DEF NamedOnly, Reached, SameRoom
<1>5. Unmade(p)'
  BY <1>0 DEF CalendarInv, Exact, Unmade, Kind, Rows, InTx
<1>6. QED
  BY <1>0, <1>1, <1>3, <1>4, <1>5, QuietExact DEF Exact

LEMMA RoomsLockedExact ==
  ASSUME BookingInv, CalendarInv, NEW p \in Procs, RoomsLocked(p)
  PROVE  CalendarInv'
<1> USE DEF RoomsLocked
<1>0. TypeOK /\ pc[p] = "lock"
  BY DEF BookingInv
<1>1. CASE Target(p) \notin rooms /\ Kind(p) # "move"
  BY <1>0, <1>1, RollbackExact DEF InTx, Answered
<1>2. CASE Target(p) \in rooms \/ Kind(p) = "move"
  <2>0. UNCHANGED <<booking, rowLock, op, from, todo>>
    BY <1>2
  <2>1. /\ pc'[p] \in {"row", "check"}
        /\ \A q \in Procs \ {p} : pc'[q] = pc[q] /\ from'[q] = from[q] /\ todo'[q] = todo[q]
    BY <1>0, <1>2 DEF TypeOK
  <2>2. \A b \in Ids : rowLock'[b] # p /\ ~Awaited(p, b)'
    BY <1>0, <2>0, <2>1 DEF BookingInv, Discipline, RowsHeld, CalendarInv, Exact, Staged, Awaited
  <2>3. Staged(p)'
    BY <1>0, <2>0, <2>1 DEF CalendarInv, Exact, Staged, Writes, Kind
  <2>4. NamedOnly(p)' /\ Reached(p)' /\ SameRoom(p)'
    BY <2>1, <2>2 DEF NamedOnly, Reached, SameRoom
  <2>5. Unmade(p)'
    BY <1>0, <2>0 DEF CalendarInv, Exact, Unmade, Kind, Rows, InTx
  <2>6. QED
    BY <1>0, <2>0, <2>1, <2>3, <2>4, <2>5, QuietExact DEF Exact
<1>3. QED
  BY <1>1, <1>2

LEMMA LockBookingExact ==
  ASSUME BookingInv, CalendarInv, NEW p \in Procs, LockBooking(p)
  PROVE  CalendarInv'
<1> USE BookingAssumption DEF LockBooking
<1>0. TypeOK /\ pc[p] = "row" /\ Writes(p)
  BY DEF BookingInv, CalendarInv, Exact, Staged
<1>1. CASE \E outcome \in {"find", "notfound"} : Rollback(p, outcome)
  BY <1>0, <1>1, RollbackExact DEF InTx, Answered
<1>2. ASSUME NEW b \in Rows(p), b \in In(from[p]), rowLock[b] = None,
             rowLock' = [rowLock EXCEPT ![b] = p],
             pc' = [pc EXCEPT ![p] = "check"],
             UNCHANGED <<booking, op, from, todo>>
      PROVE  CalendarInv'
  <2>1. /\ pc'[p] = "check"
        /\ \A q \in Procs \ {p} : pc'[q] = pc[q] /\ from'[q] = from[q] /\ todo'[q] = todo[q]
    BY <1>0, <1>2 DEF TypeOK
  <2>2. b \in Ids /\ \A c \in Ids : rowLock'[c] = p => c = b
    <3>1. b \in Ids
      BY <1>0, NamesIds
    <3>2. \A c \in Ids : rowLock[c] # p
      BY <1>0 DEF BookingInv, Discipline, RowsHeld
    <3>3. QED
      BY <1>0, <1>2, <3>1, <3>2 DEF TypeOK
  <2>3. \A c \in Ids, q \in Procs \ {p} : rowLock[c] = q <=> rowLock'[c] = q
    BY <1>0, <1>2, <2>2 DEF TypeOK
  <2>4. Staged(p)'
    BY <1>0, <1>2, <2>1 DEF CalendarInv, Exact, Staged, Writes, Kind
  <2>5. NamedOnly(p)' /\ Reached(p)'
    BY <1>0, <1>2, <2>1, <2>2 DEF NamedOnly, Reached, Rows, Awaited, CalendarInv, Exact, Staged
  <2>6. SameRoom(p)'
    <3>1. booking'[b].room = from'[p]
      BY <1>2 DEF In
    <3>2. Kind(p)' \in {"edit", "drop"} => Target(p)' = from'[p]
      BY <1>0, <1>2 DEF Target, Kind, Writes
    <3>3. QED
      BY <2>2, <3>1, <3>2 DEF SameRoom
  <2>7. Unmade(p)'
    BY <1>0, <1>2 DEF CalendarInv, Exact, Unmade, Kind, Rows, InTx
  <2>8. QED
    BY <1>0, <1>2, <2>1, <2>3, <2>4, <2>5, <2>6, <2>7, QuietExact DEF Exact
<1>3. QED
  BY <1>1, <1>2 DEF Again

\* Passing the check: every row the page names is new or will be reached.
LEMMA CheckExact ==
  ASSUME BookingInv, CalendarInv, NEW p \in Procs, Check(p)
  PROVE  CalendarInv'
<1> USE BookingAssumption DEF Check
<1>0. TypeOK /\ pc[p] = "check" /\ Writes(p) /\ todo[p] = <<>>
  BY DEF BookingInv, CalendarInv, Exact, Staged
<1>1. CASE \E outcome \in {"notfound", "refused"} : Rollback(p, outcome)
  BY <1>0, <1>1, RollbackExact DEF InTx, Answered
<1>2. ASSUME NEW s \in SetToSeqs(Existing(p)), RowsKnown(p),
             Kind(p) = "move" => \A b \in Rows(p) : Live(b),
             todo' = [todo EXCEPT ![p] = s],
             pc' = [pc EXCEPT ![p] = "write"],
             UNCHANGED <<booking, rowLock, op, from>>
      PROVE  CalendarInv'
  <2>1. /\ pc'[p] = "write" /\ todo'[p] = s
        /\ \A q \in Procs \ {p} : pc'[q] = pc[q] /\ from'[q] = from[q] /\ todo'[q] = todo[q]
    BY <1>0, <1>2 DEF TypeOK
  <2>2. Existing(p) \subseteq Rows(p) \cup op[p].del /\ Existing(p) \in SUBSET Ids
    BY <1>0, NamesIds DEF Existing
  <2>3. \A b : Awaited(p, b)' => b \in Existing(p)
    BY <2>1, <2>2, OrdersOnly DEF Awaited
  <2>4. \A b \in Existing(p) : Awaited(p, b)'
    BY <2>1, <2>2, Orders DEF Awaited
  <2>5. Staged(p)' /\ Unmade(p)' /\ SameRoom(p)'
    BY <1>0, <1>2, <2>1 DEF CalendarInv, Exact, Staged, Unmade, SameRoom, Kind, Rows, Target, InTx
  <2>6. NamedOnly(p)'
    BY <1>0, <1>2, <2>2, <2>3 DEF CalendarInv, Exact, NamedOnly, Kind, Rows
  <2>7. Reached(p)'
    <3> SUFFICES ASSUME Kind(p) \in {"move", "page"}, NEW b \in Rows(p)
                 PROVE  /\ Kind(p) # "page" => booking[b] # Absent
                        /\ Live(b) => rowLock[b] = p \/ Awaited(p, b)'
      BY <1>0, <1>2 DEF Reached, Touched, Kind, Rows, Writes, Live
    <3>1. Kind(p) # "page" => booking[b] # Absent
      BY <1>2 DEF Live
    <3>2. Live(b) => b \in Existing(p)
      BY <1>2 DEF Existing, RowsKnown, Live
    <3>3. QED
      BY <3>1, <3>2, <2>4
  <2>8. QED
    BY <1>0, <1>2, <2>1, <2>5, <2>6, <2>7, QuietExact DEF Exact
<1>3. QED
  BY <1>1, <1>2

\* One statement: the row it names is locked or is no longer there to lock.
LEMMA WriteRowExact ==
  ASSUME BookingInv, CalendarInv, NEW p \in Procs, WriteRow(p)
  PROVE  CalendarInv'
<1> USE BookingAssumption DEF WriteRow
<1>0. TypeOK /\ pc[p] = "write" /\ todo[p] # <<>>
  BY DEF BookingInv
<1> DEFINE b == Head(todo[p])
<1>1. todo[p] \in Seq(Ids)
  BY <1>0 DEF TypeOK
<1>2. /\ b \in Ids /\ Len(todo[p]) \in Nat /\ b = todo[p][1] /\ 1 \in 1 .. Len(todo[p])
      /\ Len(Tail(todo[p])) = Len(todo[p]) - 1
      /\ \A i \in 1 .. Len(Tail(todo[p])) : Tail(todo[p])[i] = todo[p][i + 1]
  BY <1>0, <1>1, HeadTailProperties
<1>3. /\ todo'[p] = Tail(todo[p]) /\ pc' = pc
      /\ \A q \in Procs \ {p} : pc'[q] = pc[q] /\ from'[q] = from[q] /\ todo'[q] = todo[q]
  BY <1>0 DEF TypeOK
<1>4. \A c : Awaited(p, c)' => Awaited(p, c)
  <2> DEFINE t == Tail(todo[p])
  <2> HIDE DEF t
  <2> SUFFICES ASSUME NEW i \in 1 .. Len(t) PROVE Awaited(p, t[i])
    BY <1>3 DEF Awaited, t
  <2>1. i + 1 \in 1 .. Len(todo[p]) /\ t[i] = todo[p][i + 1]
    BY <1>2 DEF t
  <2>2. QED
    BY <2>1 DEF Awaited
<1>5. \A c : Awaited(p, c) => c = b \/ Awaited(p, c)'
  <2> SUFFICES ASSUME NEW c, NEW i \in 1 .. Len(todo[p]), todo[p][i] = c, i # 1
               PROVE  Awaited(p, c)'
    BY <1>2 DEF Awaited
  <2>1. i - 1 \in 1 .. Len(Tail(todo[p])) /\ Tail(todo[p])[i - 1] = c
    BY <1>2
  <2>2. QED
    BY <1>3, <2>1 DEF Awaited
<1>6. Awaited(p, b)
  BY <1>2 DEF Awaited
<1>7. /\ rowLock[b] = None
      /\ \A c \in Ids \ {b} : rowLock'[c] = rowLock[c]
      /\ rowLock'[b] = IF Live(b) /\ (Kind(p) = "drop" => booking[b].room = op[p].room)
                       THEN p ELSE None
  BY <1>0, <1>2 DEF TypeOK
<1>8. \A c \in Ids, q \in Procs \ {p} : rowLock[c] = q <=> rowLock'[c] = q
  BY <1>7
<1>9. Staged(p)' /\ Unmade(p)'
  BY <1>0, <1>3 DEF CalendarInv, Exact, Staged, Unmade, Kind, Rows, Writes, InTx
<1>10. NamedOnly(p)'
  BY <1>0, <1>2, <1>3, <1>4, <1>6, <1>7 DEF CalendarInv, Exact, NamedOnly, Kind, Rows
<1>11. Reached(p)'
  <2> SUFFICES ASSUME Kind(p) \in {"move", "cancel", "page"}, NEW c \in Touched(p)
               PROVE  /\ Kind(p) # "page" => booking[c] # Absent
                      /\ Live(c) => rowLock'[c] = p \/ Awaited(p, c)'
    BY <1>3 DEF Reached, Touched, Kind, Rows, Live
  <2>1. /\ Kind(p) # "page" => booking[c] # Absent
        /\ Live(c) => rowLock[c] = p \/ Awaited(p, c)
    BY <1>0 DEF CalendarInv, Exact, Reached
  <2>2. c \in Ids
    BY <1>0, NamesIds
  <2>3. QED
    BY <2>1, <2>2, <1>5, <1>7
<1>12. SameRoom(p)'
  <2>1. Kind(p) # "edit"
    BY <1>0 DEF BookingInv, Discipline, RowsHeld
  <2>2. QED
    BY <1>7, <2>1 DEF CalendarInv, Exact, SameRoom, Kind, Target
<1>13. QED
  BY <1>0, <1>3, <1>8, <1>9, <1>10, <1>11, <1>12, QuietExact DEF Exact

\* A request that has been answered holds nothing and waits for nothing.
LEMMA AnsweredExact ==
  ASSUME NEW p \in Procs, pc'[p] \in Answered, todo'[p] = <<>>,
         \A b \in Ids : rowLock'[b] # p
  PROVE  Exact(p)'
<1>1. pc'[p] \notin InTx \cup {"idle"}
  BY DEF Answered, InTx
<1>2. \A b : ~Awaited(p, b)'
  BY DEF Awaited
<1>3. QED
  BY <1>1, <1>2 DEF Exact, Staged, NamedOnly, Reached, Unmade, SameRoom, InTx

LEMMA CommitExact ==
  ASSUME BookingInv, CalendarInv, NEW p \in Procs, Commit(p)
  PROVE  CalendarInv'
<1>a. None \notin Procs /\ Absent # Gone /\ Absent \notin Records
  BY BookingAssumption
<1>0. /\ pc[p] = "write" /\ todo[p] = <<>> /\ ReleaseLocks(p) /\ UNCHANGED <<rooms, op, from, todo>>
      /\ pc' = [pc EXCEPT ![p] =
           IF Kind(p) = "move" /\ Written(p) = {} THEN "notfound" ELSE "done"]
      /\ pc \in [Procs -> {"idle"} \cup InTx \cup Answered]
  BY DEF Commit, BookingInv, TypeOK
<1>1. /\ pc'[p] \in Answered /\ pc'[p] # "idle"
      /\ \A q \in Procs \ {p} : pc'[q] = pc[q] /\ from'[q] = from[q] /\ todo'[q] = todo[q]
  BY <1>0 DEF Answered
<1>2. /\ \A b \in Ids : rowLock'[b] # p
      /\ \A b \in Ids, q \in Procs \ {p} : rowLock[b] = q <=> rowLock'[b] = q
  BY <1>a, <1>0 DEF ReleaseLocks
<1>3. \A b \in Ids, q \in Procs : rowLock[b] = q => Live(b)
  BY <1>a DEF BookingInv, RowsLive
<1>4. ASSUME NEW b \in Ids
      PROVE  /\ booking[b] # Absent => booking'[b] # Absent
             /\ Live(b)' => Live(b) \/ booking[b] = Absent
             /\ booking'[b] # booking[b] =>
                  rowLock[b] = p \/ (booking[b] = Absent /\ b \in Rows(p))
  <2>1. CASE b \in Written(p)
    <3>1. booking'[b] # Absent /\ (rowLock[b] = p \/ booking[b] = Absent) /\ b \in Rows(p)
      BY <2>1, <1>a, CommitWrites
    <3>2. QED
      BY <3>1, <1>3
  <2>2. CASE b \notin Written(p)
    <3>1. booking'[b] = booking[b] \/ (booking'[b] = Gone /\ rowLock[b] = p)
      BY <2>2, CommitWrites
    <3>2. QED
      BY <3>1, <1>a DEF Live
  <2>3. QED
    BY <2>1, <2>2
<1>5. ASSUME NEW q \in Procs \ {p} PROVE Respects(q)
  <2>1. \A b \in Ids : rowLock[b] = q => booking'[b] = booking[b]
    <3>1. \A b \in Ids : rowLock[b] = q => rowLock[b] # p /\ booking[b] # Absent
      BY <1>3 DEF Live
    <3>2. QED
      BY <1>4, <3>1
  <2>2. pc[q] # "idle" => \A b \in Rows(q) : booking[b] = Absent => booking'[b] = Absent
    <3> SUFFICES ASSUME pc[q] # "idle", NEW b \in Rows(q), booking[b] = Absent,
                        booking'[b] # booking[b]
                 PROVE  FALSE
      OBVIOUS
    <3>0. b \in Ids
      BY NamesIds
    <3>1. rowLock[b] # p
      BY <1>3, <3>0 DEF Live
    <3>2. b \in Rows(p)
      BY <1>4, <3>0, <3>1
    <3>3. QED
      BY <1>0, <3>2 DEF CalendarInv, OwnIds
  <2>3. QED
    BY <1>2, <1>4, <2>1, <2>2 DEF Respects
<1>6. Exact(p)'
  BY <1>0, <1>1, <1>2, AnsweredExact
<1>7. QED
  BY <1>0, <1>1, <1>4, <1>5, <1>6, StepExact

LEMMA CommitDropExact ==
  ASSUME BookingInv, CalendarInv, NEW p \in Procs, CommitDrop(p)
  PROVE  CalendarInv'
<1> USE BookingAssumption DEF CommitDrop
<1>0. /\ pc[p] = "write" /\ todo[p] = <<>>
      /\ pc \in [Procs -> {"idle"} \cup InTx \cup Answered]
  BY DEF BookingInv, TypeOK
<1>1. CASE Rollback(p, "error")
  BY <1>0, <1>1, RollbackExact DEF InTx, Answered
<1>2. CASE /\ booking' = [b \in Ids |-> IF b \in Removed(p) THEN Gone ELSE booking[b]]
           /\ ReleaseLocks(p) /\ pc' = [pc EXCEPT ![p] = "done"] /\ UNCHANGED <<op, from, todo>>
  <2>1. /\ pc'[p] \in Answered /\ pc'[p] # "idle"
        /\ \A q \in Procs \ {p} : pc'[q] = pc[q] /\ from'[q] = from[q] /\ todo'[q] = todo[q]
    BY <1>0, <1>2 DEF Answered
  <2>2. /\ \A b \in Ids : rowLock'[b] # p
        /\ \A b \in Ids, q \in Procs \ {p} : rowLock[b] = q <=> rowLock'[b] = q
    BY <1>2 DEF ReleaseLocks
  <2>3. \A b \in Ids : booking'[b] = booking[b]
                        \/ (booking'[b] = Gone /\ rowLock[b] = p /\ Live(b))
    BY <1>2 DEF Removed, BookingInv, RowsLive
  <2>4. \A q \in Procs \ {p} : Respects(q)
    <3>1. ASSUME NEW q \in Procs \ {p}, pc[q] # "idle", NEW b \in Rows(q), booking[b] = Absent
          PROVE  booking'[b] = Absent
      BY <3>1, <2>3, NamesIds DEF Live
    <3>2. QED
      BY <2>2, <2>3, <3>1 DEF Respects, Live
  <2>5. Exact(p)'
    BY <1>0, <1>2, <2>1, <2>2, AnsweredExact
  <2>6. \A b \in Ids : booking[b] # Absent => booking'[b] # Absent
    BY <2>3
  <2>7. QED
    BY <1>0, <1>2, <2>1, <2>4, <2>5, <2>6, StepExact
<1>3. QED
  BY <1>1, <1>2

LEMMA SubmitExact ==
  ASSUME BookingInv, CalendarInv, NEW p \in Procs, Submit(p)
  PROVE  CalendarInv'
<1>0. TypeOK /\ pc[p] = "idle" /\ todo[p] = <<>> /\ UNCHANGED <<booking, rowLock, from>>
  BY DEF Submit, BookingInv, CalendarInv, Exact, Staged
<1>1. PICK o \in Ops :
        /\ FreshIds(o)
        /\ op' = [op EXCEPT ![p] = o]
        /\ \/ pc' = [pc EXCEPT ![p] = "notfound"] /\ todo' = todo
           \/ /\ o.kind \in {"create", "page", "edit", "move"}
              /\ \/ pc' = [pc EXCEPT ![p] = "lock"]
                 \/ pc' = [pc EXCEPT ![p] = "find"]
              /\ todo' = todo
           \/ /\ o.kind = "cancel" /\ \A b \in o.del : Found(o, b)
              /\ pc' = [pc EXCEPT ![p] = "write"]
              /\ \E s \in SetToSeqs(o.del) : todo' = [todo EXCEPT ![p] = s]
           \/ /\ o.kind = "drop"
              /\ pc' = [pc EXCEPT ![p] = "write"]
              /\ \E s \in SetToSeqs(In(o.room)) : todo' = [todo EXCEPT ![p] = s]
  BY DEF Submit
<1>2. /\ op'[p] = o /\ Kind(p)' = o.kind /\ Rows(p)' = DOMAIN o.set
      /\ pc'[p] \in {"notfound", "lock", "find", "write"}
      /\ \A q \in Procs \ {p} : /\ pc'[q] = pc[q] /\ op'[q] = op[q]
                                /\ from'[q] = from[q] /\ todo'[q] = todo[q]
  BY <1>0, <1>1 DEF TypeOK, Kind, Rows
<1>3. IsOp(o) /\ o # None
  BY BookingAssumption
<1>4. \A q \in Procs : Respects(q)
  BY <1>0 DEF Respects, Live
<1>5. \A q \in Procs \ {p} : Exact(q)'
  BY <1>2, <1>4, OthersExact
<1>6. \A b \in Ids : rowLock'[b] # p
  BY <1>0 DEF BookingInv, Discipline, RowsHeld
<1>7. Unasked'
  BY <1>2 DEF CalendarInv, Unasked
<1>8. OwnIds'
  <2>1. ASSUME NEW q \in Procs \ {p}, pc[q] # "idle", NEW b \in DOMAIN o.set \cap Rows(q)
        PROVE  booking[b] # Absent
    BY <1>1, <2>1 DEF FreshIds
  <2>2. \A q \in Procs \ {p} : Rows(q)' = Rows(q)
    BY <1>2 DEF Rows
  <2>3. QED
    BY <1>0, <1>2, <2>1, <2>2 DEF CalendarInv, OwnIds
<1>9. Unmade(p)'
  BY <1>0, <1>1, <1>2 DEF Unmade, FreshIds
<1>10. SameRoom(p)'
  BY <1>6 DEF SameRoom
<1>11. Staged(p)' /\ NamedOnly(p)' /\ Reached(p)'
  <2>1. CASE todo' = todo /\ pc' \in {[pc EXCEPT ![p] = x] : x \in {"notfound", "lock", "find"}}
    <3>1. todo'[p] = <<>> /\ pc'[p] # "write"
      BY <1>0, <1>1, <2>1 DEF TypeOK
    <3>2. Staged(p)'
      BY <1>0, <1>1, <1>2, <2>1, <3>1 DEF Staged, Writes, TypeOK
    <3>3. QED
      BY <1>6, <3>1, <3>2 DEF NamedOnly, Reached, Awaited
  <2>2. ASSUME NEW s \in SetToSeqs(o.del), o.kind = "cancel", \A b \in o.del : Found(o, b),
               pc' = [pc EXCEPT ![p] = "write"], todo' = [todo EXCEPT ![p] = s]
        PROVE  Staged(p)' /\ NamedOnly(p)' /\ Reached(p)'
    <3>1. pc'[p] = "write" /\ todo'[p] = s
      BY <1>0, <2>2 DEF TypeOK
    <3>2. \A b \in Ids : Awaited(p, b)' <=> b \in o.del
      BY <1>3, <3>1, Orders, OrdersOnly DEF Awaited, IsOp
    <3>3. \A b \in o.del : b \in Ids /\ booking'[b] # Absent
      BY <1>0, <1>3, <2>2 DEF IsOp, Found, Live
    <3>4. QED
      BY <1>2, <1>6, <2>2, <3>1, <3>2, <3>3 DEF Staged, NamedOnly, Reached, Touched
  <2>3. CASE o.kind = "drop" /\ pc' = [pc EXCEPT ![p] = "write"]
    <3>1. pc'[p] = "write"
      BY <1>0, <2>3 DEF TypeOK
    <3>2. QED
      BY <1>2, <2>3, <3>1 DEF Staged, NamedOnly, Reached
  <2>4. QED
    BY <1>1, <2>1, <2>2, <2>3
<1>12. QED
  BY <1>5, <1>7, <1>8, <1>9, <1>10, <1>11 DEF CalendarInv, Exact

\* Only a transaction is aborted.
LEMMA AbortRollsBack ==
  ASSUME NEW p \in Procs, AbortDeadlock(p) \/ Crash(p)
  PROVE  pc[p] \in InTx /\ Rollback(p, "error")
<1>1. CASE Crash(p)
  BY <1>1 DEF Crash
<1>2. CASE AbortDeadlock(p)
  <2>1. WaitsFor(p) # {} /\ Rollback(p, "error")
    BY <1>2 DEF AbortDeadlock, Deadlocked, WaitCycle
  <2>2. QED
    BY <2>1 DEF WaitsFor, InTx
<1>3. QED
  BY <1>1, <1>2

LEMMA NextExact == BookingInv /\ CalendarInv /\ [Next]_vars => CalendarInv'
<1> SUFFICES ASSUME BookingInv, CalendarInv, [Next]_vars PROVE CalendarInv'
  OBVIOUS
<1>1. CASE UNCHANGED vars
  <2>1. \A p \in Procs : Respects(p)
    BY <1>1 DEF vars, Respects, Live
  <2>2. \A p \in Procs : Exact(p)'
    BY <1>1, <2>1, OthersExact DEF vars
  <2>3. QED
    BY <1>1, <2>2 DEF vars, CalendarInv, Unasked, OwnIds, Rows
<1>2. ASSUME NEW p \in Procs, AbortDeadlock(p) \/ Crash(p) PROVE CalendarInv'
  BY <1>2, AbortRollsBack, RollbackExact DEF Answered
<1>3. ASSUME NEW p \in Procs, Submit(p) \/ Step(p) PROVE CalendarInv'
  BY <1>3, SubmitExact, StagesExact, RoomsLockedExact, LockBookingExact, CheckExact,
     WriteRowExact, CommitExact, CommitDropExact DEF Step
<1>4. QED
  BY <1>1, <1>2, <1>3 DEF Next

-----------------------------------------------------------------------------

Promised == [Promise!Next]_<<rooms, booking, op, answer>>

\* How the answer a visitor has seen follows the step of the request.
LEMMA AnswerFollows ==
  ASSUME BookingInv, NEW p \in Procs, NEW x, pc' = [pc EXCEPT ![p] = x]
  PROVE  /\ pc[p] \notin Answered => answer[p] = "none"
         /\ x = "done" => answer' = [answer EXCEPT ![p] = "done"]
         /\ x \in Answered \ {"done"} => answer' = [answer EXCEPT ![p] = "failed"]
         /\ x \notin Answered /\ pc[p] \notin Answered => answer' = answer
<1>1. pc \in [Procs -> {"idle"} \cup InTx \cup Answered]
  BY DEF BookingInv, TypeOK
<1>2. pc'[p] = x /\ \A q \in Procs \ {p} : pc'[q] = pc[q]
  BY <1>1
<1>3. \A q \in Procs \ {p} : answer'[q] = answer[q]
  BY <1>2 DEF answer
<1>4. /\ pc[p] \notin Answered => answer[p] = "none"
      /\ x = "done" => answer'[p] = "done"
      /\ x \in Answered \ {"done"} => answer'[p] = "failed"
      /\ x \notin Answered => answer'[p] = "none"
  BY <1>2 DEF answer, Answered
<1>5. answer \in [Procs -> {"none", "done", "failed"}] /\ answer' \in [Procs -> {"none", "done", "failed"}]
  BY DEF answer
<1>6. QED
  BY <1>3, <1>4, <1>5

LEMMA InitPromise == Init => Promise!Init
<1> SUFFICES ASSUME Init PROVE Promise!Init
  OBVIOUS
<1> USE BookingAssumption DEF Init
<1>1. \A b \in Ids : booking[b] \in Records \cup {Absent}
  OBVIOUS
<1>2. \A b \in Ids : booking[b] = Absent \/ booking[b].room \in Rooms
  BY <1>1 DEF Records
<1>3. \A b, c \in Ids :
        b # c /\ Promise!Live(b) /\ Promise!Live(c) /\ booking[b].room = booking[c].room
          => ~Promise!Overlap(booking[b].slot, booking[c].slot)
  BY DEF Promise!Live, Promise!Overlap, Overlap
<1>4. answer = [p \in Procs |-> "none"]
  BY DEF answer, Answered
<1>5. QED
  BY <1>2, <1>3, <1>4 DEF Promise!Init

\* A step that changes no table and accepts nothing is a refusal, or is not seen.
LEMMA QuietPromised ==
  ASSUME BookingInv, NEW p \in Procs, NEW x \in InTx \cup (Answered \ {"done"}),
         pc[p] \in InTx, pc' = [pc EXCEPT ![p] = x], UNCHANGED <<rooms, booking, op>>
  PROVE  Promised
<1>0. pc[p] \notin Answered /\ pc[p] # "idle"
  BY DEF InTx, Answered
<1>1. CASE x \in InTx
  <2>1. x \notin Answered
    BY <1>1 DEF InTx, Answered
  <2>2. answer' = answer
    BY <1>0, <2>1, AnswerFollows
  <2>3. QED
    BY <2>2 DEF Promised
<1>2. CASE x \in Answered \ {"done"}
  <2>1. answer[p] = "none" /\ answer' = [answer EXCEPT ![p] = "failed"]
    BY <1>0, <1>2, AnswerFollows
  <2>2. op[p] # None
    BY <1>0, BookingAssumption DEF BookingInv, Asked
  <2>3. Promise!Fail(p)
    BY <2>1, <2>2 DEF Promise!Fail
  <2>4. QED
    BY <2>3 DEF Promised, Promise!Next
<1>3. QED
  BY <1>1, <1>2

LEMMA SubmitPromised ==
  ASSUME BookingInv, CalendarInv, NEW p \in Procs, Submit(p)
  PROVE  Promised
<1>1. PICK o \in Ops, x \in {"notfound", "lock", "find", "write"} :
        op' = [op EXCEPT ![p] = o] /\ pc' = [pc EXCEPT ![p] = x]
  BY DEF Submit
<1>2. pc[p] = "idle" /\ UNCHANGED <<rooms, booking>>
  BY DEF Submit
<1>3. op[p] = None /\ op'[p] = o /\ o # None
  BY <1>1, <1>2, BookingAssumption DEF CalendarInv, Unasked, BookingInv, TypeOK
<1>4. answer' \in {answer, [answer EXCEPT ![p] = "failed"]}
  BY <1>1, <1>2, AnswerFollows DEF Answered
<1>5. Promise!Ask(p)
  BY <1>1, <1>2, <1>3, <1>4 DEF Promise!Ask
<1>6. QED
  BY <1>5 DEF Promised, Promise!Next

\* Which rows a request has locked once its statements have run.
LEMMA AllReached ==
  ASSUME BookingInv, CalendarInv, NEW p \in Procs, pc[p] = "write", todo[p] = <<>>
  PROVE  /\ \A b \in Ids : rowLock[b] = p => Live(b)
         /\ Kind(p) # "drop" => \A b \in Ids : rowLock[b] = p => b \in Rows(p) \cup op[p].del
         /\ Kind(p) \in {"move", "cancel", "page"} =>
              \A b \in Touched(p) : /\ Live(b) => rowLock[b] = p
                                    /\ Kind(p) # "page" => booking[b] # Absent
         /\ Kind(p) = "create" => \A b \in Rows(p) : booking[b] = Absent
         /\ Kind(p) = "edit" => \A b \in Rows(p) : rowLock[b] = p /\ Found(op[p], b)
         /\ Kind(p) \in {"edit", "drop"} =>
              \A b \in Ids : rowLock[b] = p => booking[b].room = Target(p)
         /\ Kind(p) \in {"create", "edit", "move"} => op[p].del = {}
<1>1. \A b : ~Awaited(p, b)
  BY DEF Awaited
<1>2. NamedOnly(p) /\ Reached(p) /\ Unmade(p) /\ SameRoom(p)
  BY DEF CalendarInv, Exact
<1>3. \A b \in Ids : rowLock[b] = p => Live(b)
  BY BookingAssumption DEF BookingInv, RowsLive
<1>4. Kind(p) = "edit" => \A b \in Rows(p) : rowLock[b] = p /\ Found(op[p], b)
  BY DEF BookingInv, Discipline, EditHeld
<1>5. Kind(p) \in {"create", "edit", "move"} => op[p].del = {}
  BY BookingAssumption DEF BookingInv, Asked, Kind
<1>6. QED
  BY <1>1, <1>2, <1>3, <1>4, <1>5 DEF NamedOnly, Reached, Unmade, SameRoom, InTx

\* The rows a commit writes fit into the calendar it writes them in.
LEMMA CommitPuts ==
  ASSUME BookingInv, CalendarInv, NEW p \in Procs, Commit(p), Writes(p)
  PROVE  Promise!Put(op[p], Target(p), Written(p), Removed(p))
<1>1. pc[p] = "write" /\ todo[p] = <<>> /\ pc[p] # "idle"
  BY DEF Commit
<1>2. Written(p) \subseteq Rows(p) /\ Rows(p) \subseteq Ids
  BY CommitWrites
<1>3. Target(p) \in rooms
  BY <1>1 DEF BookingInv, Discipline, TargetHeld
<1>4. ASSUME NEW b \in Written(p)
      PROVE  /\ booking'[b] \in Records
             /\ booking'[b].room = Target(p)
             /\ booking'[b].slot = op[p].set[b]
  <2>1. /\ booking'[b] = [room |-> Target(p), slot |-> op[p].set[b], author |-> Author(p, b)]
        /\ booking'[b] \in Records
    BY CommitWrites
  <2>2. QED
    BY <2>1
<1>5. StillFree(p)
  BY DEF BookingInv, Discipline
<1>6. ASSUME NEW b \in Written(p), NEW c \in Ids \ Written(p), Live(c), booking[c].room = Target(p)
      PROVE  ~Overlap(op[p].set[b], booking[c].slot)
  <2>1. c \in In(Target(p))
    BY <1>6 DEF In
  <2>2. c \notin Rows(p)
    <3>1. Kind(p) = "create" => \A d \in Rows(p) : ~Live(d)
      BY <1>1, AllReached DEF Live
    <3>2. ~Awaited(p, c)
      BY <1>1 DEF Awaited
    <3>3. QED
      BY <1>1, <1>5, <1>6, <2>1, <3>1, <3>2 DEF StillFree
  <2>3. QED
    BY <1>1, <1>2, <1>5, <1>6, <2>1, <2>2 DEF StillFree
<1>7. \A b, c \in Written(p) : b # c => ~Overlap(op[p].set[b], op[p].set[c])
  BY <1>1, <1>2, <1>5 DEF StillFree
<1>8. Promise!Free(op[p], Target(p), Written(p))
  BY <1>6, <1>7 DEF Promise!Free, Promise!Live, Promise!Overlap, Overlap, Live
<1>9. \A b \in Written(p) : booking'[b] \notin {Absent, Gone}
  BY <1>4, BookingAssumption
<1>10. booking' = [b \in Ids |-> IF b \in Written(p) THEN booking'[b]
                                ELSE IF b \in Removed(p) THEN Gone ELSE booking[b]]
  BY DEF Commit
<1>11. QED
  BY <1>3, <1>4, <1>8, <1>9, <1>10 DEF Promise!Put

LEMMA CommitPromised ==
  ASSUME BookingInv, CalendarInv, NEW p \in Procs, Commit(p)
  PROVE  Promised
<1>1. /\ pc[p] = "write" /\ todo[p] = <<>> /\ pc[p] \notin Answered /\ pc[p] # "idle"
      /\ UNCHANGED <<rooms, op>> /\ Kind(p) # "drop"
  BY DEF Commit, Answered
<1>2. op[p] # None /\ Rows(p) = DOMAIN op[p].set /\ Kind(p) = op[p].kind
  BY <1>1, BookingAssumption DEF BookingInv, Asked, Rows, Kind
<1>3. /\ \A b \in Ids : rowLock[b] = p => Live(b) /\ b \in Rows(p) \cup op[p].del
      /\ Written(p) \subseteq Rows(p) /\ Rows(p) \subseteq Ids /\ op[p].del \subseteq Ids
  BY <1>1, AllReached, CommitWrites, NamesIds
<1>4. ASSUME NEW b \in Written(p) PROVE booking'[b].author = Author(p, b)
  <2>1. booking'[b] = [room |-> Target(p), slot |-> op[p].set[b], author |-> Author(p, b)]
    BY CommitWrites
  <2>2. QED
    BY <2>1
<1>4a. Kind(p) \in {"move", "cancel", "page"} =>
        \A b \in Touched(p) : /\ Live(b) => rowLock[b] = p
                              /\ Kind(p) # "page" => booking[b] # Absent
  BY <1>1, AllReached
<1>4b. Touched(p) = IF Kind(p) = "cancel" THEN op[p].del ELSE Rows(p)
  BY DEF Touched
<1>5. CASE Kind(p) = "move" /\ Written(p) = {}
  <2>1. pc' = [pc EXCEPT ![p] = "notfound"]
    BY <1>5 DEF Commit
  <2>2. answer[p] = "none" /\ answer' = [answer EXCEPT ![p] = "failed"]
    <3>1. "notfound" \in Answered \ {"done"}
      BY DEF Answered
    <3>2. QED
      BY <1>1, <2>1, <3>1, AnswerFollows
  <2>3. Removed(p) = {}
    BY <1>1, <1>3, <1>5, AllReached DEF Removed
  <2>4. booking' = booking
    BY <1>5, <2>3 DEF Commit, BookingInv, TypeOK
  <2>5. Promise!Fail(p)
    BY <1>1, <1>2, <2>2, <2>4 DEF Promise!Fail
  <2>6. QED
    BY <2>5 DEF Promised, Promise!Next
<1>6. CASE ~(Kind(p) = "move" /\ Written(p) = {})
  <2> SUFFICES Promise!Accept(p)
    BY DEF Promised, Promise!Next
  <2>1. pc' = [pc EXCEPT ![p] = "done"]
    BY <1>6 DEF Commit
  <2>2. answer[p] = "none" /\ answer' = [answer EXCEPT ![p] = "done"]
    BY <1>1, <2>1, AnswerFollows
  <2>3. CASE Kind(p) = "create"
    <3>1. \A b \in Rows(p) : booking[b] = Absent
      BY <1>1, <2>3, AllReached
    <3>2. Written(p) = Rows(p) /\ Removed(p) = {}
      BY <1>1, <1>3, <2>3, <3>1, AllReached DEF Written, Removed
    <3>3. Promise!Put(op[p], op[p].room, Rows(p), {})
      BY <2>3, <3>2, CommitPuts DEF Writes, Target, Promise!Put
    <3>4. \A b \in Rows(p) : booking'[b].author = op[p].user
      BY <1>4, <2>3, <3>2 DEF Author
    <3>5. Promise!Create(op[p])
      BY <1>2, <3>1, <3>3, <3>4 DEF Promise!Create
    <3>6. QED
      BY <1>1, <1>2, <2>2, <2>3, <3>5 DEF Promise!Accept
  <2>4. CASE Kind(p) = "edit"
    <3>1. \A b \in Rows(p) : /\ Live(b) /\ op[p].user \in {None, booking[b].author}
                             /\ rowLock[b] = p /\ booking[b].room = Target(p)
      BY <1>1, <1>3, <2>4, AllReached DEF Found
    <3>2. PICK b \in Ids : Rows(p) = {b}
      BY <1>1, <2>4, Shapes
    <3>3. Written(p) = {b} /\ Removed(p) = {}
      BY <1>1, <1>3, <2>4, <3>2, AllReached DEF Written, Removed
    <3>4. Promise!Put(op[p], booking[b].room, {b}, {})
      BY <2>4, <3>1, <3>2, <3>3, CommitPuts DEF Writes
    <3>5. booking'[b].author = booking[b].author
      BY <1>4, <2>4, <3>1, <3>2, <3>3 DEF Author
    <3>6. Promise!Edit(op[p])
      BY <1>2, <3>1, <3>2, <3>4, <3>5 DEF Promise!Edit, Promise!Live, Live
    <3>7. QED
      BY <1>1, <1>2, <2>2, <2>4, <3>6 DEF Promise!Accept
  <2>5. CASE Kind(p) = "move"
    <3>1. PICK b \in Ids : Rows(p) = {b}
      BY <1>1, <2>5, Shapes
    <3>2. Written(p) = {b} /\ Removed(p) = {}
      BY <1>1, <1>3, <1>6, <2>5, <3>1, AllReached DEF Removed
    <3>3. booking[b] # Absent
      BY <1>4a, <1>4b, <2>5, <3>1
    <3>4. Live(b)
      BY <1>3, <2>5, <3>2, <3>3 DEF Written
    <3>5. Promise!Put(op[p], op[p].room, {b}, {})
      BY <2>5, <3>2, CommitPuts DEF Writes, Target
    <3>6. booking'[b].author = op[p].user
      BY <1>4, <2>5, <3>2 DEF Author
    <3>7. Promise!Move(op[p])
      BY <1>2, <3>1, <3>4, <3>5, <3>6 DEF Promise!Move, Promise!Live, Live
    <3>8. QED
      BY <1>1, <1>2, <2>2, <2>5, <3>7 DEF Promise!Accept
  <2>6. CASE Kind(p) = "page"
    <3> DEFINE W == {b \in Rows(p) : booking[b] # Gone}
    <3>1. \A b \in Rows(p) : Live(b) => rowLock[b] = p
      BY <1>4a, <1>4b, <2>6
    <3>2. W = Written(p)
      BY <1>3, <2>6, <3>1, BookingAssumption DEF Written, Live
    <3>3. Removed(p) \subseteq op[p].del /\ {b \in Removed(p) : Promise!Live(b)} = Removed(p)
      BY <1>3 DEF Removed, Promise!Live, Live
    <3>4. Promise!Put(op[p], op[p].room, W, {b \in Removed(p) : Promise!Live(b)})
      BY <2>6, <3>2, <3>3, CommitPuts DEF Writes, Target
    <3>5. \A b \in W : booking'[b].author = op[p].user
      BY <1>4, <2>6, <3>2 DEF Author
    <3>6. Promise!Page(op[p])
      BY <1>2, <3>3, <3>4, <3>5 DEF Promise!Page
    <3>7. QED
      BY <1>1, <1>2, <2>2, <2>6, <3>6 DEF Promise!Accept
  <2>7. CASE Kind(p) = "cancel"
    <3>1. Rows(p) = {} /\ Written(p) = {}
      BY <1>1, <1>3, <2>7, Shapes
    <3>2. \A b \in op[p].del : Live(b) => rowLock[b] = p
      BY <1>4a, <1>4b, <2>7
    <3>3. \A b \in Ids : b \in Removed(p) <=> b \in op[p].del /\ Live(b)
      BY <1>3, <3>1, <3>2 DEF Removed
    <3>4. booking' = [b \in Ids |-> IF b \in Removed(p) THEN Gone ELSE booking[b]]
      BY <3>1 DEF Commit
    <3>5. Promise!Cancel(op[p])
      BY <3>3, <3>4 DEF Promise!Cancel, Promise!Live, Live
    <3>6. QED
      BY <1>1, <1>2, <2>2, <2>7, <3>5 DEF Promise!Accept
  <2>8. QED
    BY <1>1, <2>3, <2>4, <2>5, <2>6, <2>7, Shapes
<1>7. QED
  BY <1>5, <1>6

LEMMA CommitDropPromised ==
  ASSUME BookingInv, CalendarInv, NEW p \in Procs, CommitDrop(p)
  PROVE  Promised
<1>1. /\ pc[p] = "write" /\ pc[p] \in InTx /\ pc[p] \notin Answered /\ pc[p] # "idle"
      /\ todo[p] = <<>> /\ Kind(p) = "drop"
  BY DEF CommitDrop, Answered, InTx
<1>2. op[p] # None /\ Kind(p) = op[p].kind /\ Rows(p) = {} /\ Target(p) = op[p].room
  BY <1>1, Shapes, BookingAssumption DEF BookingInv, Asked, Kind, Target
<1>3. CASE Rollback(p, "error")
  BY <1>1, <1>3, QuietPromised DEF Answered, Rollback
<1>4. CASE /\ In(op[p].room) \subseteq Removed(p)
           /\ rooms' = rooms \ {op[p].room}
           /\ booking' = [b \in Ids |-> IF b \in Removed(p) THEN Gone ELSE booking[b]]
           /\ pc' = [pc EXCEPT ![p] = "done"]
           /\ op' = op
  <2>1. answer[p] = "none" /\ answer' = [answer EXCEPT ![p] = "done"]
    BY <1>1, <1>4, AnswerFollows
  <2>2. \A b \in Ids : b \in Removed(p) <=> Live(b) /\ booking[b].room = op[p].room
    BY <1>1, <1>2, <1>4, AllReached DEF Removed, In
  <2>3. Promise!Drop(op[p])
    BY <1>4, <2>2 DEF Promise!Drop, Promise!Live, Live
  <2>4. Promise!Accept(p)
    BY <1>1, <1>2, <1>4, <2>1, <2>3 DEF Promise!Accept
  <2>5. QED
    BY <2>4 DEF Promised, Promise!Next
<1>5. QED
  BY <1>3, <1>4 DEF CommitDrop

LEMMA NextPromised == BookingInv /\ CalendarInv /\ [Next]_vars => Promised
<1> SUFFICES ASSUME BookingInv, CalendarInv, [Next]_vars PROVE Promised
  OBVIOUS
<1>1. CASE UNCHANGED vars
  BY <1>1 DEF vars, Promised, answer
<1>2. ASSUME NEW p \in Procs, AbortDeadlock(p) \/ Crash(p) PROVE Promised
  BY <1>2, AbortRollsBack, QuietPromised DEF Answered, Rollback
<1>3. ASSUME NEW p \in Procs, Submit(p) \/ Commit(p) \/ CommitDrop(p) PROVE Promised
  BY <1>3, SubmitPromised, CommitPromised, CommitDropPromised
<1>4. ASSUME NEW p \in Procs,
             FindRoom(p) \/ SortRooms(p) \/ LockRoom(p) \/ RoomsLocked(p)
               \/ LockBooking(p) \/ Check(p) \/ WriteRow(p)
      PROVE  Promised
  <2>1. pc[p] \in InTx /\ UNCHANGED <<rooms, booking, op>>
    BY <1>4 DEF FindRoom, SortRooms, LockRoom, RoomsLocked, LockBooking, Again, Check, WriteRow,
       Rollback, InTx
  <2>2. CASE LockRoom(p) \/ WriteRow(p)
    <3>1. answer' = answer
      BY <2>2 DEF LockRoom, WriteRow, answer
    <3>2. QED
      BY <2>1, <3>1 DEF Promised
  <2>3. CASE FindRoom(p) \/ SortRooms(p) \/ RoomsLocked(p) \/ LockBooking(p) \/ Check(p)
    <3>1. PICK x \in {"find", "sort", "lock", "row", "check", "write",
                       "notfound", "refused", "error"} :
            pc' = [pc EXCEPT ![p] = x]
      BY <2>3 DEF FindRoom, SortRooms, RoomsLocked, LockBooking, Again, Check, Rollback
    <3>2. x \in InTx \cup (Answered \ {"done"})
      BY DEF InTx, Answered
    <3>3. QED
      BY <2>1, <3>1, <3>2, QuietPromised
  <2>4. QED
    BY <1>4, <2>2, <2>3
<1>5. QED
  BY <1>1, <1>2, <1>3, <1>4 DEF Next, Step

-----------------------------------------------------------------------------

\* Each submitted request is answered in one step of the calendar: its row
\* locks, its one retry and its separate statements cannot be told from a
\* request that took effect as a whole, whatever the others do meanwhile.
THEOREM BookingImplementsCalendar == Spec => ImplementsCalendar
<1>1. Init => Promise!Init
  BY InitPromise
<1>2. Spec => [](BookingInv /\ CalendarInv)
  <2>1. Init => BookingInv /\ CalendarInv
    BY InitInv, InitExact
  <2>2. BookingInv /\ CalendarInv /\ [Next]_vars => (BookingInv /\ CalendarInv)'
    BY NextInv, NextExact
  <2>3. QED
    BY <2>1, <2>2, PTL DEF Spec
<1>3. BookingInv /\ CalendarInv /\ [Next]_vars => [Promise!Next]_<<rooms, booking, op, answer>>
  BY NextPromised DEF Promised
<1>4. QED
  BY <1>1, <1>2, <1>3, PTL DEF Spec, ImplementsCalendar

-----------------------------------------------------------------------------
(* Wait cycles.  A request takes its rooms in the order it sorted them and  *)
(* locks no row before; one that writes a single row waits for nothing      *)
(* after it.                                                                *)

NoRooms(p) == \A r \in Rooms : roomLock[r] # p
NoRows(p) == \A b \in Ids : rowLock[b] # p
Single(p) == Kind(p) \notin {"page", "drop"}

RoomOrder(p) ==
  /\ pc[p] \notin {"lock", "row", "check", "write"} => NoRooms(p)
  /\ pc[p] = "lock" =>
       \A r \in Rooms : roomLock[r] = p =>
         /\ r \in RoomsToLock(p)
         /\ \A s \in RoomsToLock(p) \cap rooms :
              Before(sorted[p], s, r) => roomLock[s] = p

OneRow(p) ==
  /\ pc[p] = "row" => Kind(p) = "edit"
  /\ pc[p] = "check" /\ Kind(p) # "edit" => NoRows(p)
  /\ Single(p) => (NoRows(p) \/ todo[p] = <<>>) /\ Len(todo[p]) <= 1

Ordered(p) == RoomOrder(p) /\ OneRow(p)

OrderInv == \A p \in Procs : Ordered(p)

LEMMA OrdersLength ==
  ASSUME NEW S \in SUBSET Ids, NEW s \in SetToSeqs(S)
  PROVE  Len(s) = Cardinality(S)
<1>1. Cardinality(S) \in Nat
  BY BookingAssumption, FS_Subset, FS_CardinalityType
<1>2. s \in [1 .. Cardinality(S) -> S]
  BY DEF SetToSeqs
<1>3. QED
  BY <1>1, <1>2

LEMMA OthersOrdered ==
  ASSUME NEW q \in Procs, Ordered(q), rooms' \subseteq rooms,
         pc'[q] = pc[q], op'[q] = op[q], from'[q] = from[q], todo'[q] = todo[q],
         sorted'[q] = sorted[q], \A r \in Rooms : roomLock[r] = q <=> roomLock'[r] = q,
         \A b \in Ids : rowLock[b] = q <=> rowLock'[b] = q,
         rooms \subseteq Rooms
  PROVE  Ordered(q)'
<1>1. Kind(q)' = Kind(q) /\ RoomsToLock(q)' = RoomsToLock(q)
  BY DEF Kind, RoomsToLock, Target
<1>2. RoomOrder(q)'
  BY <1>1 DEF Ordered, RoomOrder, NoRooms, Before
<1>3. OneRow(q)'
  BY <1>1 DEF Ordered, OneRow, NoRows, Single
<1>4. QED
  BY <1>2, <1>3 DEF Ordered

\* A step of p that keeps to its own locks: what is left is p's own part.
LEMMA StepOrdered ==
  ASSUME BookingInv, OrderInv, NEW p \in Procs, rooms' \subseteq rooms,
         \A q \in Procs \ {p} :
           /\ pc'[q] = pc[q] /\ op'[q] = op[q] /\ from'[q] = from[q]
           /\ todo'[q] = todo[q] /\ sorted'[q] = sorted[q],
         \A r \in Rooms, q \in Procs \ {p} : roomLock[r] = q <=> roomLock'[r] = q,
         \A b \in Ids, q \in Procs \ {p} : rowLock[b] = q <=> rowLock'[b] = q,
         Ordered(p)'
  PROVE  OrderInv'
<1>1. rooms \subseteq Rooms
  BY DEF BookingInv, TypeOK
<1>2. \A q \in Procs \ {p} : Ordered(q)'
  BY <1>1, OthersOrdered DEF OrderInv
<1>3. QED
  BY <1>2 DEF OrderInv

\* The end of a transaction.
LEMMA ReleaseOrdered ==
  ASSUME BookingInv, OrderInv, NEW p \in Procs, NEW outcome \in {"find"} \cup Answered,
         ReleaseLocks(p), pc' = [pc EXCEPT ![p] = outcome], rooms' \subseteq rooms,
         todo' = [todo EXCEPT ![p] = <<>>], UNCHANGED <<op, from, sorted>>
  PROVE  OrderInv'
<1>1. /\ pc'[p] = outcome /\ pc'[p] \notin {"lock", "row", "check", "write"}
      /\ todo'[p] = <<>>
      /\ \A q \in Procs \ {p} : pc'[q] = pc[q] /\ todo'[q] = todo[q]
  BY DEF BookingInv, TypeOK, Answered
<1>2. NoRooms(p)' /\ NoRows(p)'
  BY BookingAssumption DEF ReleaseLocks, NoRooms, NoRows
<1>3. Ordered(p)'
  BY <1>1, <1>2 DEF Ordered, RoomOrder, OneRow
<1>4. /\ \A r \in Rooms, q \in Procs \ {p} : roomLock[r] = q <=> roomLock'[r] = q
      /\ \A b \in Ids, q \in Procs \ {p} : rowLock[b] = q <=> rowLock'[b] = q
  BY BookingAssumption DEF ReleaseLocks
<1>5. QED
  BY <1>1, <1>3, <1>4, StepOrdered

LEMMA RollbackOrdered ==
  ASSUME BookingInv, OrderInv, NEW p \in Procs, NEW outcome \in {"find"} \cup Answered,
         Rollback(p, outcome)
  PROVE  OrderInv'
BY ReleaseOrdered DEF Rollback

\* A request without row locks is idle, looking for its room, or taking rooms.
LEMMA RowsLate ==
  ASSUME BookingInv, NEW p \in Procs, pc[p] \notin {"check", "write"}
  PROVE  NoRows(p)
BY DEF BookingInv, Discipline, RowsHeld, NoRows

\* What one request submits or has left to write, if it writes a single row.
LEMMA SingleSets ==
  ASSUME BookingInv, NEW p \in Procs, pc[p] # "idle"
  PROVE  /\ Kind(p) = "cancel" => Cardinality(op[p].del) <= 1
         /\ Single(p) => Cardinality(Existing(p)) <= 1
<1>1. op[p] \in Ops /\ Kind(p) = op[p].kind
  BY DEF BookingInv, Asked, Kind
<1>2. ASSUME Kind(p) = "cancel" PROVE Cardinality(op[p].del) = 1
  <2>1. PICK b \in Ids : op[p].del = {b}
    BY <1>1, <1>2, BookingAssumption
  <2>2. QED
    BY <2>1, FS_Singleton
<1>3. ASSUME Kind(p) = "move" PROVE Cardinality(Existing(p)) = 1
  <2>1. PICK b \in Ids : Rows(p) = {b}
    BY <1>1, <1>3, BookingAssumption DEF Rows
  <2>2. Existing(p) = {b}
    BY <1>3, <2>1 DEF Existing
  <2>3. QED
    BY <2>2, FS_Singleton
<1>4. ASSUME Single(p), Kind(p) # "move" PROVE Cardinality(Existing(p)) = 0
  <2>1. Existing(p) = {}
    BY <1>4 DEF Single, Existing
  <2>2. QED
    BY <2>1, FS_EmptySet
<1>5. QED
  BY <1>2, <1>3, <1>4

LEMMA SubmitOrdered ==
  ASSUME BookingInv, CalendarInv, OrderInv, NEW p \in Procs, Submit(p)
  PROVE  OrderInv'
<1>1. /\ pc[p] = "idle" /\ UNCHANGED <<rooms, roomLock, rowLock, from, sorted>>
      /\ pc'[p] \in {"notfound", "lock", "find", "write"}
      /\ \A q \in Procs \ {p} : pc'[q] = pc[q] /\ op'[q] = op[q] /\ todo'[q] = todo[q]
  BY DEF Submit, BookingInv, TypeOK
<1>2. NoRooms(p) /\ NoRows(p) /\ NoRooms(p)' /\ NoRows(p)'
  BY <1>1, RowsLate DEF OrderInv, Ordered, RoomOrder, NoRooms, NoRows
<1>3. RoomOrder(p)'
  BY <1>1, <1>2 DEF RoomOrder, NoRooms
<1>4. Single(p)' => Len(todo'[p]) <= 1
  <2>1. CASE todo' = todo
    <3>1. todo[p] = <<>>
      BY <1>1 DEF CalendarInv, Exact, Staged
    <3>2. QED
      BY <2>1, <3>1
  <2>2. ASSUME NEW o \in Ops, o.kind = "cancel", op' = [op EXCEPT ![p] = o],
               \E s \in SetToSeqs(o.del) : todo' = [todo EXCEPT ![p] = s]
        PROVE  Len(todo'[p]) <= 1
    <3>1. PICK b \in Ids : o.del = {b}
      BY <2>2, BookingAssumption
    <3>2. Cardinality(o.del) = 1 /\ o.del \in SUBSET Ids
      BY <3>1, FS_Singleton
    <3>3. todo'[p] \in SetToSeqs(o.del)
      BY <2>2 DEF BookingInv, TypeOK
    <3>4. QED
      BY <3>2, <3>3, OrdersLength
  <2>3. ASSUME NEW o \in Ops, o.kind = "drop", op' = [op EXCEPT ![p] = o] PROVE ~Single(p)'
    BY <2>3 DEF Single, Kind, BookingInv, TypeOK
  <2>4. QED
    BY <2>1, <2>2, <2>3 DEF Submit
<1>5. Ordered(p)'
  BY <1>1, <1>2, <1>3, <1>4 DEF Ordered, OneRow
<1>6. QED
  BY <1>1, <1>5, StepOrdered

LEMMA LockOrdered ==
  ASSUME BookingInv, CalendarInv, OrderInv, NEW p \in Procs,
         FindRoom(p) \/ SortRooms(p) \/ LockRoom(p)
  PROVE  OrderInv'
<1>1. /\ pc[p] \in {"find", "sort", "lock"} /\ pc'[p] \in {"sort", "lock", "notfound"}
      /\ UNCHANGED <<rooms, rowLock, op, todo>>
      /\ \A q \in Procs \ {p} : pc'[q] = pc[q] /\ from'[q] = from[q] /\ sorted'[q] = sorted[q]
      /\ \A r \in Rooms, q \in Procs \ {p} : roomLock[r] = q <=> roomLock'[r] = q
  BY BookingAssumption DEF FindRoom, SortRooms, LockRoom, BookingInv, TypeOK
<1>2. OneRow(p)'
  BY <1>1, RowsLate DEF OneRow, NoRows, Single, Kind, OrderInv, Ordered
<1>3. RoomOrder(p)'
  <2>1. CASE FindRoom(p) \/ SortRooms(p)
    BY <1>1, <2>1 DEF FindRoom, SortRooms, OrderInv, Ordered, RoomOrder, NoRooms
  <2>2. CASE LockRoom(p)
    <3>1. PICK r \in RoomsToLock(p) \cap rooms :
            /\ \A s \in RoomsToLock(p) \cap rooms : Before(sorted[p], s, r) => roomLock[s] = p
            /\ roomLock' = [roomLock EXCEPT ![r] = p]
      BY <2>2 DEF LockRoom
    <3>2. /\ pc[p] = "lock" /\ pc' = pc /\ RoomsToLock(p)' = RoomsToLock(p)
          /\ UNCHANGED <<rooms, sorted>>
      BY <2>2 DEF LockRoom, RoomsToLock, Target, Kind
    <3>3. roomLock'[r] = p /\ \A s \in Rooms : s # r => roomLock'[s] = roomLock[s]
      BY <3>1 DEF BookingInv, TypeOK
    <3>4. \A s, t \in Rooms : Before(sorted[p], s, t)' = Before(sorted[p], s, t)
      BY <3>2 DEF Before
    <3>5. QED
      BY <1>1, <3>1, <3>2, <3>3, <3>4 DEF OrderInv, Ordered, RoomOrder, BookingInv, TypeOK
  <2>3. QED
    BY <2>1, <2>2
<1>4. QED
  BY <1>1, <1>2, <1>3, StepOrdered DEF Ordered

LEMMA RoomsLockedOrdered ==
  ASSUME BookingInv, CalendarInv, OrderInv, NEW p \in Procs, RoomsLocked(p)
  PROVE  OrderInv'
<1>1. CASE \E outcome \in {"error", "notfound"} : Rollback(p, outcome)
  BY <1>1, RollbackOrdered DEF Answered
<1>2. CASE /\ pc' = [pc EXCEPT ![p] = IF Kind(p) = "edit" THEN "row" ELSE "check"]
           /\ UNCHANGED <<rooms, name, sorted, booking, roomLock, rowLock, op, from, todo>>
  <2>1. /\ pc[p] = "lock" /\ pc'[p] \in {"row", "check"} /\ (pc'[p] = "row" <=> Kind(p) = "edit")
        /\ \A q \in Procs \ {p} : pc'[q] = pc[q]
    BY <1>2 DEF RoomsLocked, BookingInv, TypeOK
  <2>2. NoRows(p)'
    BY <1>2, <2>1, RowsLate DEF NoRows
  <2>3. Ordered(p)'
    BY <1>2, <2>1, <2>2 DEF Ordered, RoomOrder, OneRow, Single, Kind, OrderInv
  <2>4. QED
    BY <1>2, <2>1, <2>3, StepOrdered
<1>3. QED
  BY <1>1, <1>2 DEF RoomsLocked

LEMMA LockBookingOrdered ==
  ASSUME BookingInv, CalendarInv, OrderInv, NEW p \in Procs, LockBooking(p)
  PROVE  OrderInv'
<1>1. CASE \E outcome \in {"find", "notfound"} : Rollback(p, outcome)
  BY <1>1, RollbackOrdered DEF Answered
<1>2. CASE /\ pc' = [pc EXCEPT ![p] = "check"]
           /\ \E b \in Rows(p) : rowLock[b] = None /\ rowLock' = [rowLock EXCEPT ![b] = p]
           /\ UNCHANGED <<rooms, name, sorted, booking, roomLock, op, from, attempt, todo>>
  <2>1. /\ pc[p] = "row" /\ pc'[p] = "check" /\ Kind(p) = "edit" /\ Kind(p)' = Kind(p)
        /\ todo[p] = <<>>
        /\ \A q \in Procs \ {p} : pc'[q] = pc[q]
    BY <1>2 DEF LockBooking, BookingInv, TypeOK, OrderInv, Ordered, OneRow, Kind,
       CalendarInv, Exact, Staged
  <2>2. \A b \in Ids, q \in Procs \ {p} : rowLock[b] = q <=> rowLock'[b] = q
    BY <1>2, BookingAssumption DEF BookingInv, TypeOK
  <2>3. Ordered(p)'
    BY <1>2, <2>1 DEF Ordered, RoomOrder, OneRow
  <2>4. QED
    BY <1>2, <2>1, <2>2, <2>3, StepOrdered
<1>3. QED
  BY <1>1, <1>2 DEF LockBooking, Again

LEMMA CheckOrdered ==
  ASSUME BookingInv, CalendarInv, OrderInv, NEW p \in Procs, Check(p)
  PROVE  OrderInv'
<1>1. CASE \E outcome \in {"refused", "notfound"} : Rollback(p, outcome)
  BY <1>1, RollbackOrdered DEF Answered
<1>2. CASE /\ pc' = [pc EXCEPT ![p] = "write"]
           /\ \E s \in SetToSeqs(Existing(p)) : todo' = [todo EXCEPT ![p] = s]
           /\ UNCHANGED <<rooms, name, sorted, booking, roomLock, rowLock, op, from>>
  <2>1. /\ pc[p] = "check" /\ pc'[p] = "write" /\ Kind(p)' = Kind(p)
        /\ \A q \in Procs \ {p} : pc'[q] = pc[q] /\ todo'[q] = todo[q]
    BY <1>2 DEF Check, BookingInv, TypeOK, Kind
  <2>2. Existing(p) \in SUBSET Ids /\ todo'[p] \in SetToSeqs(Existing(p))
    <3>1. Rows(p) \subseteq Ids /\ op[p].del \subseteq Ids
      BY <2>1, NamesIds
    <3>2. QED
      BY <1>2, <3>1 DEF Existing, In, BookingInv, TypeOK
  <2>3. Len(todo'[p]) = Cardinality(Existing(p))
    BY <2>2, OrdersLength
  <2>4. Single(p) => Len(todo'[p]) <= 1
    BY <2>1, <2>3, SingleSets
  <2>5. Kind(p) = "edit" => todo'[p] = <<>>
    <3>1. SUFFICES ASSUME Kind(p) = "edit" PROVE todo'[p] = <<>>
      OBVIOUS
    <3>2. Existing(p) = {}
      BY <3>1 DEF Existing
    <3>3. Len(todo'[p]) = 0
      BY <2>3, <3>2, FS_EmptySet
    <3>4. todo'[p] \in Seq(Ids)
      BY <2>2, Orders
    <3>5. QED
      BY <3>3, <3>4
  <2>6. Kind(p) # "edit" => NoRows(p)'
    BY <1>2, <2>1 DEF OrderInv, Ordered, OneRow, NoRows
  <2>7. Ordered(p)'
    BY <2>1, <2>4, <2>5, <2>6 DEF Ordered, RoomOrder, OneRow, Single
  <2>8. QED
    BY <1>2, <2>1, <2>7, StepOrdered
<1>3. QED
  BY <1>1, <1>2 DEF Check

LEMMA WriteRowOrdered ==
  ASSUME BookingInv, CalendarInv, OrderInv, NEW p \in Procs, WriteRow(p)
  PROVE  OrderInv'
<1>1. /\ pc[p] = "write" /\ todo[p] # <<>> /\ todo[p] \in Seq(Ids)
      /\ todo'[p] = Tail(todo[p]) /\ Kind(p)' = Kind(p)
      /\ \A q \in Procs \ {p} : todo'[q] = todo[q]
      /\ UNCHANGED <<rooms, roomLock, pc, op, from, sorted>>
  BY DEF WriteRow, BookingInv, TypeOK, Kind
<1>2. \A b \in Ids, q \in Procs \ {p} : rowLock[b] = q <=> rowLock'[b] = q
  BY BookingAssumption DEF WriteRow, BookingInv, TypeOK
<1>3. Single(p) => todo'[p] = <<>>
  <2>1. SUFFICES ASSUME Single(p) PROVE todo'[p] = <<>>
    OBVIOUS
  <2>2. Len(todo[p]) <= 1
    BY <2>1 DEF OrderInv, Ordered, OneRow
  <2>3. QED
    BY <1>1, <2>2
<1>4. Single(p)' => todo'[p] = <<>> /\ Len(todo'[p]) <= 1
  <2>1. Single(p)' => Single(p)
    BY <1>1 DEF Single
  <2>2. Len(<<>>) <= 1
    OBVIOUS
  <2>3. QED
    BY <1>3, <2>1, <2>2
<1>5. Ordered(p)'
  BY <1>1, <1>4 DEF Ordered, RoomOrder, OneRow
<1>6. QED
  BY <1>1, <1>2, <1>5, StepOrdered

LEMMA CommitOrdered ==
  ASSUME BookingInv, CalendarInv, OrderInv, NEW p \in Procs, Commit(p) \/ CommitDrop(p)
  PROVE  OrderInv'
<1>1. CASE Rollback(p, "error")
  BY <1>1, RollbackOrdered DEF Answered
<1>2. CASE ReleaseLocks(p) /\ todo' = todo
  <2>1. /\ todo[p] = <<>> /\ rooms' \subseteq rooms /\ UNCHANGED <<op, from, sorted>>
        /\ \E outcome \in {"notfound", "done", "error"} : pc' = [pc EXCEPT ![p] = outcome]
    BY <1>2 DEF Commit, CommitDrop, Rollback
  <2>2. todo' = [todo EXCEPT ![p] = <<>>]
    BY <1>2, <2>1 DEF BookingInv, TypeOK
  <2>3. QED
    BY <1>2, <2>1, <2>2, ReleaseOrdered DEF Answered
<1>3. QED
  BY <1>1, <1>2 DEF Commit, CommitDrop

LEMMA NextOrdered == BookingInv /\ CalendarInv /\ OrderInv /\ [Next]_vars => OrderInv'
<1> SUFFICES ASSUME BookingInv, CalendarInv, OrderInv, [Next]_vars PROVE OrderInv'
  OBVIOUS
<1>1. CASE UNCHANGED vars
  BY <1>1 DEF vars, OrderInv, Ordered, RoomOrder, OneRow, Single, Kind, RoomsToLock, Target,
     NoRooms, NoRows, Before
<1>2. ASSUME NEW p \in Procs, AbortDeadlock(p) \/ Crash(p) PROVE OrderInv'
  BY <1>2, RollbackOrdered DEF AbortDeadlock, Crash, Answered
<1>3. ASSUME NEW p \in Procs, Submit(p) \/ Step(p) PROVE OrderInv'
  BY <1>3, SubmitOrdered, LockOrdered, RoomsLockedOrdered, LockBookingOrdered, CheckOrdered,
     WriteRowOrdered, CommitOrdered DEF Step
<1>4. QED
  BY <1>1, <1>2, <1>3 DEF Next

\* A set of natural numbers has a least one.
LEMMA LeastNat ==
  ASSUME NEW T \in SUBSET Nat, T # {}
  PROVE  \E x \in T : \A y \in T : x <= y
<1> DEFINE R == OpToRel(<, Nat)
<1>1. IsWellFoundedOn(R, Nat)
  BY NatLessThanWellFounded
<1>2. \A x, y \in Nat : y < x => <<y, x>> \in R
  BY DEF OpToRel
<1> HIDE DEF R
<1>3. PICK x \in T : \A y \in T : ~(<<y, x>> \in R)
  BY <1>1, WFMin
<1>4. ASSUME NEW y \in T PROVE x <= y
  <2>1. x \in Nat /\ y \in Nat
    OBVIOUS
  <2>2. ~(y < x)
    BY <1>2, <1>3, <2>1
  <2>3. QED
    BY <2>1, <2>2
<1>5. QED
  BY <1>4

\* Who waits, and what the request it waits for holds.
LEMMA WaitKinds ==
  ASSUME BookingInv, CalendarInv, OrderInv, NEW p \in Procs, NEW q \in WaitsFor(p), Kind(p) # "drop"
  PROVE  /\ q # p
         /\ \/ /\ pc[p] = "lock"
               /\ \E r \in RoomsToLock(p) \cap rooms :
                    /\ roomLock[r] = q
                    /\ \A s \in RoomsToLock(p) \cap rooms :
                         Before(sorted[p], s, r) => roomLock[s] = p
            \/ /\ pc[p] = "row" \/ (pc[p] = "write" /\ todo[p] # <<>>)
               /\ \E b \in Ids : rowLock[b] = q
<1>1. q # p
  BY DEF WaitsFor
<1>2. pc[p] = "row" => Rows(p) \subseteq Ids
  BY NamesIds
<1>3. pc[p] = "write" /\ todo[p] # <<>> => Head(todo[p]) \in Ids
  BY DEF BookingInv, TypeOK
<1>4. QED
  BY <1>1, <1>2, <1>3 DEF WaitsFor

\* Who holds a row and waits is an admin page with rows left to write.
LEMMA RowHolderWaits ==
  ASSUME BookingInv, CalendarInv, OrderInv, NEW p \in Procs, WaitsFor(p) # {},
         Kind(p) # "drop", NEW b \in Ids, rowLock[b] = p
  PROVE  Kind(p) = "page" /\ pc[p] = "write" /\ todo[p] # <<>>
<1>1. pc[p] \in {"check", "write"}
  BY DEF BookingInv, Discipline, RowsHeld
<1>2. pc[p] = "write" /\ todo[p] # <<>>
  BY <1>1 DEF WaitsFor
<1>3. ~Single(p)
  BY <1>2 DEF OrderInv, Ordered, OneRow, NoRows
<1>4. QED
  BY <1>2, <1>3 DEF Single

\* Whatever the rooms are called, some room of a set sorts before the others.
LEMMA FirstRoom ==
  ASSUME NEW n \in [Rooms -> Nat], NEW T \in SUBSET Rooms, T # {}
  PROVE  \E x \in T : \A y \in T : ~Before(n, y, x)
<1> DEFINE NamesOf == {n[r] : r \in T}
<1>0. NamesOf \in SUBSET Nat /\ NamesOf # {}
  OBVIOUS
<1>1. PICK low \in NamesOf : \A k \in NamesOf : low <= k
  <2> HIDE DEF NamesOf
  <2> QED
    BY <1>0, LeastNat
<1> DEFINE Lowest == {r \in T : n[r] = low}
<1>2. Lowest \in SUBSET Nat /\ Lowest # {}
  BY <1>1, BookingAssumption
<1>3. PICK x \in Lowest : \A y \in Lowest : x <= y
  <2> HIDE DEF Lowest
  <2> QED
    BY <1>2, LeastNat
<1>4. ASSUME NEW y \in T, Before(n, y, x) PROVE FALSE
  <2>1. low <= n[y] /\ n[x] = low /\ n[y] \in Nat /\ x \in Nat /\ y \in Nat
    BY <1>1, <1>3, BookingAssumption
  <2>2. n[y] = low /\ y < x
    BY <1>4, <2>1 DEF Before
  <2>3. QED
    BY <1>3, <2>1, <2>2
<1>5. QED
  BY <1>3, <1>4

\* Two requests sorted the same two rooms the other way round.
Disagree(p, q) ==
  \E r, s \in RoomsToLock(p) : Before(sorted[p], r, s) /\ Before(sorted[q], s, r)

\* Who waits for a room and is waited for has a room and needs another.
Awaits(p, r) ==
  /\ r \in RoomsToLock(p) \cap rooms
  /\ roomLock[r] # p
  /\ \A s \in RoomsToLock(p) \cap rooms : Before(sorted[p], s, r) => roomLock[s] = p

LEMMA AwaitsRoom ==
  ASSUME BookingInv, CalendarInv, OrderInv, NEW p \in Procs, NEW q \in WaitsFor(p),
         Kind(p) # "drop", pc[p] = "lock"
  PROVE  \E r \in rooms : Awaits(p, r) /\ roomLock[r] = q
<1>1. q # p
  BY WaitKinds
<1>2. PICK r \in RoomsToLock(p) \cap rooms :
        /\ roomLock[r] = q
        /\ \A s \in RoomsToLock(p) \cap rooms : Before(sorted[p], s, r) => roomLock[s] = p
  BY WaitKinds
<1>3. QED
  BY <1>1, <1>2 DEF Awaits

LEMMA TwoRooms ==
  ASSUME BookingInv, OrderInv, NEW p \in Procs, pc[p] = "lock",
         NEW low \in rooms, Awaits(p, low), NEW x \in rooms, roomLock[x] = p
  PROVE  /\ Kind(p) = "move" /\ x \in RoomsToLock(p) /\ x # low
         /\ ~Before(sorted[p], low, x)
<1>1. rooms \subseteq Rooms
  BY DEF BookingInv, TypeOK
<1>2. x \in RoomsToLock(p) /\ low \in RoomsToLock(p) /\ x # low
  BY <1>1 DEF OrderInv, Ordered, RoomOrder, Awaits
<1>3. ~Before(sorted[p], low, x)
  BY <1>1 DEF OrderInv, Ordered, RoomOrder, Awaits
<1>4. Kind(p) = "move"
  BY <1>2 DEF RoomsToLock
<1>5. QED
  BY <1>2, <1>3, <1>4

\* A circle of requests that all wait for a room, sorted alike, has a first room
\* somebody waits for; its holder holds an earlier one that somebody else waits
\* for.
LEMMA NoRoomCycle ==
  ASSUME BookingInv, CalendarInv, OrderInv, NEW S \in SUBSET Procs, WaitCycle(S),
         \A p \in S : Kind(p) # "drop" /\ pc[p] = "lock"
  PROVE  \E p, q \in S : Kind(p) = "move" /\ Kind(q) = "move" /\ Disagree(p, q)
<1>1. rooms \subseteq Rooms /\ Rooms \subseteq Nat
  BY BookingAssumption DEF BookingInv, TypeOK
<1>2. ASSUME NEW p \in S
      PROVE  \E low, x \in rooms, w \in S :
               /\ Awaits(p, low) /\ roomLock[x] = p /\ Awaits(w, x)
               /\ Kind(p) = "move" /\ x \in RoomsToLock(p) /\ x # low
               /\ ~Before(sorted[p], low, x)
  <2>1. PICK q \in S : q \in WaitsFor(p)
    BY DEF WaitCycle
  <2>2. PICK w \in S : p \in WaitsFor(w)
    BY DEF WaitCycle
  <2>3. PICK low \in rooms : Awaits(p, low)
    BY <2>1, AwaitsRoom
  <2>4. PICK x \in rooms : Awaits(w, x) /\ roomLock[x] = p
    BY <2>2, AwaitsRoom
  <2>5. QED
    BY <2>3, <2>4, TwoRooms
<1>3. PICK v \in S : TRUE
  BY DEF WaitCycle
<1> DEFINE T == {r \in rooms : \E p \in S : Awaits(p, r)}
<1>4. T \in SUBSET Rooms /\ T # {}
  BY <1>1, <1>2, <1>3
<1>5. \A p \in S : sorted[p] \in [Rooms -> Nat]
  BY DEF BookingInv, TypeOK
<1>6. PICK low \in T : \A r \in T : ~Before(sorted[v], r, low)
  BY <1>3, <1>4, <1>5, FirstRoom
<1>7. PICK p \in S : Awaits(p, low)
  BY <1>6
<1>8. \E x \in rooms, w \in S :
        /\ roomLock[x] = p /\ Awaits(w, x)
        /\ Kind(p) = "move" /\ x \in RoomsToLock(p) /\ x # low
        /\ ~Before(sorted[p], low, x)
  <2>1. PICK q \in S : p \in WaitsFor(q)
    BY DEF WaitCycle
  <2>2. PICK x \in rooms : Awaits(q, x) /\ roomLock[x] = p
    BY <2>1, AwaitsRoom
  <2>3. QED
    BY <1>6, <1>7, <2>2, TwoRooms
<1>9. PICK x \in rooms : \E w \in S :
        /\ roomLock[x] = p /\ Awaits(w, x)
        /\ Kind(p) = "move" /\ x \in RoomsToLock(p) /\ x # low
        /\ ~Before(sorted[p], low, x)
  BY <1>8
<1>10. x \in T /\ ~Before(sorted[v], x, low)
  BY <1>6, <1>9
<1>11. Before(sorted[v], low, x) /\ Before(sorted[p], x, low)
  <2>1. low \in Nat /\ x \in Nat /\ low \in Rooms /\ x \in Rooms
    BY <1>1, <1>4, <1>6
  <2>2. /\ sorted[v][low] \in Nat /\ sorted[v][x] \in Nat
        /\ sorted[p][low] \in Nat /\ sorted[p][x] \in Nat
    BY <1>3, <1>5, <1>7, <2>1
  <2>3. QED
    BY <1>9, <1>10, <2>1, <2>2 DEF Before
<1>12. Disagree(p, v)
  BY <1>7, <1>9, <1>11 DEF Disagree, Awaits
<1>13. Kind(v) = "move"
  BY <1>2, <1>3
<1>14. QED
  BY <1>3, <1>7, <1>9, <1>12, <1>13

LEMMA CyclesHavePages ==
  ASSUME BookingInv, CalendarInv, OrderInv
  PROVE  CycleOnlyOfPages
<1> SUFFICES ASSUME NEW S \in SUBSET Procs, WaitCycle(S), \A p \in S : Kind(p) # "drop"
             PROVE  \/ \E p, q \in S : /\ Kind(p) = "page" /\ Kind(q) = "page"
                                       /\ op[p].room # op[q].room
                                       /\ todo[p] # <<>> /\ todo[q] # <<>>
                    \/ \E p, q \in S : /\ Kind(p) = "move" /\ Kind(q) = "move"
                                       /\ pc[p] = "lock" /\ pc[q] = "lock"
                                       /\ Disagree(p, q)
  BY DEF CycleOnlyOfPages, Disagree
<1>0. CASE \A p \in S : pc[p] = "lock"
  BY <1>0, NoRoomCycle
<1> SUFFICES ASSUME \E p \in S : pc[p] # "lock"
             PROVE  \E p, q \in S : /\ Kind(p) = "page" /\ Kind(q) = "page"
                                    /\ op[p].room # op[q].room
                                    /\ todo[p] # <<>> /\ todo[q] # <<>>
  BY <1>0
<1>1. PICK p \in S : pc[p] # "lock"
  OBVIOUS
<1>2. PICK q \in S : q \in WaitsFor(p)
  BY <1>1 DEF WaitCycle
<1>3. Kind(q) = "page" /\ pc[q] = "write" /\ todo[q] # <<>>
  <2>1. PICK b \in Ids : rowLock[b] = q
    BY <1>1, <1>2, WaitKinds
  <2>2. WaitsFor(q) # {}
    BY DEF WaitCycle
  <2>3. QED
    BY <2>1, <2>2, RowHolderWaits
<1>4. PICK u \in S : u \in WaitsFor(q)
  BY <1>2 DEF WaitCycle
<1>5. Kind(u) = "page" /\ pc[u] = "write" /\ todo[u] # <<>> /\ u # q
  <2>1. u # q /\ \E b \in Ids : rowLock[b] = u
    BY <1>3, <1>4, WaitKinds
  <2>2. WaitsFor(u) # {}
    BY DEF WaitCycle
  <2>3. QED
    BY <2>1, <2>2, RowHolderWaits
<1>6. op[q].room # op[u].room
  <2>1. \A p2 \in S : Kind(p2) = "page" /\ pc[p2] = "write" => roomLock[op[p2].room] = p2
    BY DEF BookingInv, Discipline, TargetHeld, Writes, Target
  <2>2. QED
    BY <1>3, <1>5, <2>1
<1>7. QED
  BY <1>3, <1>5, <1>6

\* Rooms in order, then the booking: apart from the deletion of a room, from two
\* room pages whose rows have changed rooms behind their locks, and from two
\* moves that sorted their rooms before and after a rename, no requests wait for
\* each other in a circle (views.py: _save_edited_booking, admin.py:
\* rooms_to_lock).
THEOREM OnlyPagesDeadlock == Spec => []CycleOnlyOfPages
<1>1. Init => BookingInv /\ CalendarInv /\ OrderInv
  <2>1. Init => OrderInv
    BY BookingAssumption DEF Init, OrderInv, Ordered, RoomOrder, OneRow, NoRooms, NoRows
  <2>2. QED
    BY <2>1, InitInv, InitExact
<1>2. BookingInv /\ CalendarInv /\ OrderInv /\ [Next]_vars => (BookingInv /\ CalendarInv /\ OrderInv)'
  BY NextInv, NextExact, NextOrdered
<1>3. BookingInv /\ CalendarInv /\ OrderInv => CycleOnlyOfPages
  BY CyclesHavePages
<1>4. QED
  BY <1>1, <1>2, <1>3, PTL DEF Spec
=============================================================================
