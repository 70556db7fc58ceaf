------------------------ MODULE BookingAccessProofs ------------------------
(***************************************************************************)
(* For any rooms, sessions, requests and rotations: every unlock is earned *)
(* by a code that opened the room, every rotation counts and ends the      *)
(* unlocks of its room, and a session is locked out exactly at its limit.  *)
(***************************************************************************)
EXTENDS BookingAccess, FiniteSetTheorems, TLAPS

USE BookingAccessAssumption

LEMMA EmptyVisit == NewSession \in Visits /\ Blank \in Tasks
BY DEF NewSession, NoState, States, Visits, Blank, Tasks, InFlight, Rows

LEMMA AccessInit == Init => AccessInv
<1> SUFFICES ASSUME Init PROVE AccessInv
  OBVIOUS
<1> USE DEF Init
<1>1. TypeOK
  BY EmptyVisit DEF TypeOK, Rows, Rotations
<1>2. JarInv /\ CopyInv /\ RequestInv /\ BookedWithCode
  BY DEF JarInv, CopyInv, RequestInv, BookedWithCode, SessionOK, Holds, Blank, NewSession, NoState
<1>3. SoloInv
  BY DEF SoloInv, Quiet, Blank, NewSession, NoState
<1>4. RotationsCounted
  <2> SUFFICES ASSUME NEW r \in Rooms
               PROVE  room[r].gen =
                        1 + Cardinality({b \in Board : rotation[b].at = "done" /\ Rotates[b] = r})
    BY DEF RotationsCounted
  <2>1. {b \in Board : rotation[b].at = "done" /\ Rotates[b] = r} = {}
    OBVIOUS
  <2>2. Cardinality({b \in Board : rotation[b].at = "done" /\ Rotates[b] = r}) = 0
    BY <2>1, FS_EmptySet
  <2> QED
    BY <2>2
<1> QED
  BY <1>1, <1>2, <1>3, <1>4 DEF AccessInv
-----------------------------------------------------------------------------
(* What the operations on a session do.                                    *)

LEMMA ClearedVisit ==
  ASSUME NEW s \in Visits, NEW r \in Rooms
  PROVE  Cleared(s, r) \in Visits
BY DEF Cleared, Visits, States

LEMMA GrantedVisit ==
  ASSUME NEW s \in Visits, NEW r \in Rooms, NEW g \in Nat
  PROVE  Granted(s, r, g) \in Visits
BY DEF Granted, Visits, States

LEMMA FailedVisit ==
  ASSUME now \in Nat, NEW s \in Visits, NEW r \in Rooms, s[r].tries < Limit
  PROVE  Failed(s, r) \in Visits
BY DEF Failed, Visits, States

LEMMA UnexpiredVisit ==
  ASSUME now \in Nat, NEW s \in Visits, NEW r \in Rooms
  PROVE  /\ Unexpired(s, r) \in Visits
         /\ Unexpired(s, r) # s => Unexpired(s, r) = Cleared(s, r)
         /\ ~LockedOut(s, r) => Unexpired(s, r)[r].until = 0
<1>1. s[r].until \in Nat /\ Cleared(s, r) \in Visits /\ Cleared(s, r)[r].until = 0
  BY ClearedVisit DEF Visits, States, Cleared
<1> QED
  BY <1>1 DEF Unexpired, LockedOut

\* What is left of a request is nothing, or the session it holds.
LEMMA EndedTask ==
  ASSUME NEW t \in Tasks
  PROVE  /\ Ended(t) \in Tasks
         /\ t.dirty => /\ Ended(t).at = "answer" /\ Ended(t).who = t.who
                       /\ Ended(t).work = t.work /\ Ended(t).dirty
         /\ ~t.dirty => Ended(t) = Blank
<1>1. CASE t.dirty
  <2>1. [Blank EXCEPT !.at = "answer", !.who = t.who, !.work = t.work, !.dirty = TRUE] \in Tasks
    BY EmptyVisit DEF Tasks, InFlight
  <2> QED
    BY <1>1, <2>1, EmptyVisit DEF Ended, Tasks, Blank
<1>2. CASE ~t.dirty
  BY <1>2, EmptyVisit DEF Ended
<1> QED
  BY <1>1, <1>2
-----------------------------------------------------------------------------
(* The steps of the clock and of the board.                                *)

\* A step that leaves alone all but the clock keeps the invariant.
LEMMA ClockStep ==
  ASSUME AccessInv, now' \in Nat, UNCHANGED <<boardVars, jar, task, history>>
  PROVE  AccessInv'
<1> USE DEF AccessInv, boardVars, history
<1>1. TypeOK'
  BY DEF TypeOK
<1>2. JarInv' /\ CopyInv' /\ RequestInv'
  BY DEF JarInv, CopyInv, RequestInv, SessionOK, Holds
<1>3. SoloInv'
  BY DEF SoloInv, Alone, Quiet, Holds
<1>4. BookedWithCode' /\ RotationsCounted'
  BY DEF BookedWithCode, RotationsCounted
<1> QED
  BY <1>1, <1>2, <1>3, <1>4

LEMMA StampStep ==
  ASSUME AccessInv, NEW b \in Board, Stamp(b)
  PROVE  AccessInv'
<1> USE DEF AccessInv, Stamp, history
<1>1. TypeOK'
  <2>1. [at |-> "stamped", gen |-> room[Rotates[b]].gen, moment |-> now] \in Rotations
    BY DEF TypeOK, Rotations, Rows
  <2> QED
    BY <2>1 DEF TypeOK
<1>2. JarInv' /\ CopyInv' /\ RequestInv'
  BY DEF JarInv, CopyInv, RequestInv, SessionOK, Holds
<1>3. SoloInv'
  BY DEF SoloInv, Alone, Quiet, Holds
<1>4. RotationsCounted'
  <2>1. \A c \in Board : rotation'[c].at = "done" <=> rotation[c].at = "done"
    BY DEF TypeOK
  <2>2. \A r \in Rooms : {c \in Board : rotation'[c].at = "done" /\ Rotates[c] = r}
                           = {c \in Board : rotation[c].at = "done" /\ Rotates[c] = r}
    BY <2>1
  <2> QED
    BY <2>2 DEF RotationsCounted
<1>5. BookedWithCode'
  BY DEF BookedWithCode
<1> QED
  BY <1>1, <1>2, <1>3, <1>4, <1>5

LEMMA RotateStep ==
  ASSUME AccessInv, NEW b \in Board, Rotate(b)
  PROVE  AccessInv'
<1> DEFINE r == Rotates[b]
<1> DEFINE Done(x) == {c \in Board : rotation[c].at = "done" /\ Rotates[c] = x}
<1>1. /\ TypeOK /\ r \in Rooms /\ rotation[b].at = "stamped"
      /\ room' = [room EXCEPT ![r] = [gen |-> room[r].gen + 1, rotated |-> rotation[b].moment]]
      /\ rotation' = [rotation EXCEPT ![b] = [at |-> "done", gen |-> 0, moment |-> 0]]
      /\ UNCHANGED <<now, jar, task, earned, typed, overlaps>>
  BY DEF AccessInv, Rotate, Raised, history
<1>2. TypeOK'
  <2>1. [gen |-> room[r].gen + 1, rotated |-> rotation[b].moment] \in Rows
    BY <1>1 DEF TypeOK, Rows, Rotations
  <2>2. [at |-> "done", gen |-> 0, moment |-> 0] \in Rotations
    BY DEF Rotations
  <2> QED
    BY <1>1, <2>1, <2>2 DEF TypeOK
<1>3. \A x \in Rooms : room[x].gen \in Nat /\ room'[x].gen \in Nat /\ room[x].gen <= room'[x].gen
  BY <1>1, <1>2 DEF TypeOK, Rows
<1>4. JarInv'
  <2>1. \A s \in Sessions, x \in Rooms : jar[s][x].token \in Nat
    BY <1>1 DEF TypeOK, Visits, States
  <2> QED
    BY <1>1, <1>3, <2>1 DEF AccessInv, JarInv, SessionOK
<1>5. CopyInv'
  <2>1. \A q \in Requests, x \in Rooms : task[q].work[x].token \in Nat
    BY <1>1 DEF TypeOK, Tasks, Visits, States
  <2> QED
    BY <1>1, <1>3, <2>1 DEF AccessInv, CopyInv, SessionOK, Holds
<1>6. RequestInv'
  <2>1. \A q \in Requests : task[q].row.gen \in Nat
    BY <1>1 DEF TypeOK, Tasks, Rows
  <2> QED
    BY <1>1, <1>3, <2>1 DEF AccessInv, RequestInv
<1>7. SoloInv' /\ BookedWithCode'
  BY <1>1 DEF AccessInv, SoloInv, Alone, Quiet, Holds, BookedWithCode
<1>8. RotationsCounted'
  <2> SUFFICES ASSUME NEW x \in Rooms
               PROVE  room'[x].gen = 1 + Cardinality(Done(x)')
    BY DEF RotationsCounted
  <2>1. IsFiniteSet(Done(x)) /\ room[x].gen = 1 + Cardinality(Done(x)) /\ Cardinality(Done(x)) \in Nat
    BY FS_Subset, FS_CardinalityType DEF AccessInv, RotationsCounted
  <2>2. CASE x = r
    <3>1. Done(x)' = Done(x) \cup {b} /\ b \notin Done(x)
      BY <1>1, <2>2 DEF TypeOK
    <3>2. Cardinality(Done(x)') = Cardinality(Done(x)) + 1
      BY <2>1, <3>1, FS_AddElement
    <3>3. room'[x].gen = room[x].gen + 1
      BY <1>1, <2>2 DEF TypeOK
    <3> QED
      BY <2>1, <3>2, <3>3
  <2>3. CASE x # r
    <3>1. Done(x)' = Done(x) /\ room'[x] = room[x]
      BY <1>1, <2>3 DEF TypeOK
    <3> QED
      BY <2>1, <3>1
  <2> QED
    BY <2>2, <2>3
<1> QED
  BY <1>2, <1>4, <1>5, <1>6, <1>7, <1>8 DEF AccessInv
-----------------------------------------------------------------------------
(* The steps of the requests.                                              *)

LEMMA StartStep ==
  ASSUME AccessInv, NEW q \in Requests, NEW s \in Sessions, NEW a \in Asks, Start(q, s, a)
  PROVE  AccessInv'
<1> DEFINE e == [at |-> "open", who |-> s, kind |-> a.kind, room |-> a.room, code |-> a.code,
                 row |-> room[a.room], moment |-> now, work |-> NewSession, dirty |-> FALSE]
<1>1. /\ TypeOK /\ task[q].at = "free" /\ task' = [task EXCEPT ![q] = e]
      /\ overlaps' = IF Quiet(s) THEN overlaps ELSE overlaps \cup {s}
      /\ typed' = IF Quiet(s) THEN typed ELSE [typed EXCEPT ![s] = [r \in Rooms |-> 0]]
      /\ UNCHANGED <<now, room, rotation, jar, earned>>
  BY DEF AccessInv, Start, boardVars
<1>2. /\ a.room \in Rooms /\ a.kind \in {"open", "code", "book"} /\ a.code \in Nat
      /\ room[a.room] \in Rows /\ now \in Nat
  BY <1>1 DEF TypeOK
<1>4. /\ e \in Tasks /\ e.at = "open" /\ e.who = s /\ e.room = a.room /\ e.row = room[a.room]
      /\ ~e.dirty
  BY <1>2, EmptyVisit DEF Tasks, InFlight
<1> HIDE DEF e
<1>5. task'[q] = e /\ \A p \in Requests : p # q => task'[p] = task[p]
  BY <1>1 DEF TypeOK
<1>6. TypeOK'
  BY <1>1, <1>4 DEF TypeOK
<1>7. JarInv' /\ CopyInv' /\ BookedWithCode'
  BY <1>1, <1>4, <1>5 DEF AccessInv, JarInv, CopyInv, BookedWithCode, SessionOK, Holds
<1>8. RequestInv'
  <2>1. \A r \in Rooms : room[r].gen \in Nat
    BY <1>1 DEF TypeOK, Rows
  <2> QED
    BY <1>1, <1>2, <1>4, <1>5, <2>1 DEF AccessInv, RequestInv
<1>9. SoloInv'
  <2> SUFFICES ASSUME NEW x \in Sessions \ overlaps'
               PROVE  /\ \A p, o \in Requests : task'[p].who = x /\ task'[o].who = x => p = o
                      /\ Quiet(x)' => \A r \in Rooms : typed'[x][r] <= jar'[x][r].tries
                      /\ \A p \in Requests : task'[p].who = x => Alone(p, x)'
    BY DEF SoloInv
  <2>1. x \in Sessions \ overlaps /\ typed'[x] = typed[x] /\ jar'[x] = jar[x] /\ (x = s => Quiet(s))
    BY <1>1 DEF TypeOK
  <2>2. CASE x = s
    <3>1. /\ \A p \in Requests : task[p].who # s
          /\ \A r \in Rooms : typed[s][r] <= jar[s][r].tries
      BY <2>1, <2>2 DEF Quiet, AccessInv, SoloInv
    <3>2. \A p \in Requests : task'[p].who = s => p = q
      BY <1>5, <3>1
    <3>3. Alone(q, s)'
      <4>1. jar[s][a.room].token <= room[a.room].gen
        BY <1>2 DEF AccessInv, JarInv, SessionOK
      <4> QED
        BY <1>1, <1>4, <1>5, <2>1, <2>2, <3>1, <4>1 DEF Alone, Holds
    <3> QED
      BY <1>4, <1>5, <2>1, <2>2, <3>1, <3>2, <3>3
  <2>3. CASE x # s
    <3>1. \A p \in Requests : task'[p].who = x => p # q /\ task'[p] = task[p]
      BY <1>4, <1>5, <2>3
    <3>2. Quiet(x)' => Quiet(x)
      BY <1>5, <1>1, <2>3 DEF Quiet, AccessInv, RequestInv, TypeOK, Blank
    <3> QED
      BY <2>1, <3>1, <3>2 DEF AccessInv, SoloInv, Alone, Holds
  <2> QED
    BY <2>2, <2>3
<1>10. RotationsCounted'
  BY <1>1 DEF AccessInv, RotationsCounted
<1> QED
  BY <1>6, <1>7, <1>8, <1>9, <1>10 DEF AccessInv

\* A session in order after a step that moves no generation.
StaysOK(s, c) ==
  \A r \in Rooms :
    /\ c[r].token <= room[r].gen
    /\ c[r].token # 0 => c[r].token \in earned'[s][r]
    /\ c[r].until # 0 <=> c[r].tries = Limit

\* A step of one request that writes no session: what the request must keep.
LEMMA TaskStep ==
  ASSUME AccessInv, NEW q \in Requests, NEW e \in Tasks, task[q].at # "free",
         task' = [task EXCEPT ![q] = e],
         e = Blank \/ (e.who = task[q].who /\ e.at # "free"),
         UNCHANGED <<now, room, rotation, jar, overlaps>>,
         earned' \in [Sessions -> [Rooms -> SUBSET Nat]],
         typed' \in [Sessions -> [Rooms -> Nat]],
         \A x \in Sessions, r \in Rooms : earned[x][r] \subseteq earned'[x][r],
         \A x \in Sessions : x # task[q].who => typed'[x] = typed[x],
         e.at \in {"judge", "answer"} => StaysOK(e.who, e.work),
         e.at \in {"open", "judge", "allowed"} => e.room = task[q].room /\ e.row = task[q].row
                                                 /\ task[q].at \in {"open", "judge", "allowed"},
         e.at \in {"open", "allowed"} => ~e.dirty,
         e.at = "judge" => e.work[e.room].tries < Limit,
         e.at = "allowed" => e.row.gen \in earned'[e.who][e.room],
         task[q].who \notin overlaps =>
           /\ e = Blank => \A r \in Rooms : typed'[task[q].who][r] <= jar[task[q].who][r].tries
           /\ e # Blank => Alone(q, task[q].who)'
  PROVE  AccessInv'
<1> DEFINE s == task[q].who
<1>1. /\ s \in Sessions /\ TypeOK /\ RequestInv /\ SoloInv /\ CopyInv /\ JarInv
      /\ BookedWithCode /\ RotationsCounted
  BY DEF AccessInv, RequestInv
<1>2. task'[q] = e /\ \A p \in Requests : p # q => task'[p] = task[p]
  BY <1>1 DEF TypeOK
<1>3. e = Blank => e.at = "free" /\ e.who = None
  BY DEF Blank
<1>4. TypeOK'
  BY <1>1 DEF TypeOK
<1>5. JarInv'
  BY <1>1 DEF JarInv, SessionOK
<1>6. CopyInv'
  <2> SUFFICES ASSUME NEW p \in Requests, Holds(p)' PROVE SessionOK(task[p].who, task[p].work)'
    BY DEF CopyInv
  <2>1. CASE p = q
    BY <1>2, <2>1 DEF Holds, SessionOK, StaysOK
  <2>2. CASE p # q
    <3>1. SessionOK(task[p].who, task[p].work) /\ task'[p] = task[p] /\ task[p].who \in Sessions
      BY <1>1, <1>2, <2>2 DEF CopyInv, RequestInv, Holds
    <3> QED
      BY <3>1 DEF SessionOK
  <2> QED
    BY <2>1, <2>2
<1>7. RequestInv'
  <2>1. e.who \in IF e.at = "free" THEN {None} ELSE Sessions
    BY <1>1, <1>3
  <2> QED
    BY <1>1, <1>2, <2>1 DEF RequestInv
<1>8. SoloInv'
  <2> SUFFICES ASSUME NEW x \in Sessions \ overlaps'
               PROVE  /\ \A p, o \in Requests : task'[p].who = x /\ task'[o].who = x => p = o
                      /\ Quiet(x)' => \A r \in Rooms : typed'[x][r] <= jar'[x][r].tries
                      /\ \A p \in Requests : task'[p].who = x => Alone(p, x)'
    BY DEF SoloInv
  <2>1. \A p \in Requests : task'[p].who = x => task[p].who = x
    BY <1>2, <1>3
  <2>2. \A p, o \in Requests : task[p].who = x /\ task[o].who = x => p = o
    BY <1>1 DEF SoloInv
  <2>3. CASE x = s
    <3>1. \A p \in Requests : task[p].who = x => p = q
      BY <2>2, <2>3
    <3>2. Quiet(x)' => e = Blank
      BY <1>2, <2>3 DEF Quiet
    <3>3. \A p \in Requests : task'[p].who = x => p = q /\ e # Blank
      BY <1>1, <1>2, <1>3, <2>1, <3>1, BookingAccessAssumption
    <3> QED
      BY <1>2, <2>1, <2>2, <2>3, <3>2, <3>3
  <2>4. CASE x # s
    <3>1. \A p \in Requests : task'[p].who = x => p # q /\ task'[p] = task[p]
      BY <1>2, <2>1, <2>4
    <3>2. Quiet(x)' => Quiet(x)
      BY <1>2, <2>4 DEF Quiet
    <3>3. typed'[x] = typed[x] /\ jar'[x] = jar[x]
      BY <2>4
    <3>4. Quiet(x) => \A r \in Rooms : typed[x][r] <= jar[x][r].tries
      BY <1>1 DEF SoloInv
    <3>5. \A p \in Requests : task'[p].who = x => Alone(p, x)'
      BY <1>1, <3>1, <3>3 DEF SoloInv, Alone, Holds
    <3> QED
      BY <2>1, <2>2, <3>2, <3>3, <3>4, <3>5
  <2> QED
    BY <2>3, <2>4
<1>9. BookedWithCode'
  <2> SUFFICES ASSUME NEW p \in Requests, task'[p].at = "allowed"
               PROVE  task'[p].row.gen \in earned'[task'[p].who][task'[p].room]
    BY DEF BookedWithCode
  <2>1. CASE p = q
    BY <1>2, <2>1
  <2>2. CASE p # q
    <3>1. task'[p] = task[p] /\ task[p].who \in Sessions /\ task[p].room \in Rooms
      BY <1>1, <1>2, <2>2 DEF RequestInv
    <3> QED
      BY <1>1, <3>1 DEF BookedWithCode
  <2> QED
    BY <2>1, <2>2
<1>10. RotationsCounted'
  BY <1>1 DEF RotationsCounted
<1> QED
  BY <1>4, <1>5, <1>6, <1>7, <1>8, <1>9, <1>10 DEF AccessInv

\* What the invariant says of one request in flight.
LEMMA OneRequest ==
  ASSUME AccessInv, NEW q \in Requests, task[q].at # "free"
  PROVE  /\ now \in Nat /\ task \in [Requests -> Tasks] /\ task[q] \in Tasks
         /\ task[q].who \in Sessions /\ jar[task[q].who] \in Visits
         /\ SessionOK(task[q].who, jar[task[q].who])
         /\ task[q].at \in {"open", "judge", "allowed"} =>
              task[q].room \in Rooms /\ task[q].row.gen <= room[task[q].room].gen
         /\ task[q].at \in {"open", "allowed"} => ~task[q].dirty
         /\ task[q].at = "judge" => task[q].work[task[q].room].tries < Limit
         /\ Holds(q) => SessionOK(task[q].who, task[q].work)
         /\ task[q].who \notin overlaps => Alone(q, task[q].who)
         /\ earned \in [Sessions -> [Rooms -> SUBSET Nat]]
         /\ typed \in [Sessions -> [Rooms -> Nat]]
BY DEF AccessInv, TypeOK, RequestInv, JarInv, CopyInv, SoloInv

\* A request may end without writing a session: nothing it holds is lost.
LEMMA QuitStep ==
  ASSUME AccessInv, NEW q \in Requests, task[q].at # "free",
         task' = [task EXCEPT ![q] = Blank],
         UNCHANGED <<now, room, rotation, jar, history>>,
         Holds(q) => ~task[q].dirty
  PROVE  AccessInv'
<1>1. Blank \in Tasks /\ Blank.at = "free"
  BY EmptyVisit DEF Blank
<1>2. task[q].who \notin overlaps =>
        \A r \in Rooms : typed[task[q].who][r] <= jar[task[q].who][r].tries
  BY OneRequest DEF Alone
<1>3. UNCHANGED <<earned, typed, overlaps>>
  BY DEF history
<1> HIDE DEF history
<1> QED
  BY <1>1, <1>2, <1>3, OneRequest, TaskStep

LEMMA AllowedTask ==
  ASSUME NEW t \in Tasks
  PROVE  LET e == [t EXCEPT !.at = "allowed"]
         IN  /\ e \in Tasks /\ e.at = "allowed" /\ e.who = t.who /\ e.room = t.room
             /\ e.row = t.row /\ t.row.gen \in Nat \ {0} /\ e.dirty = t.dirty
<1>1. t.row.gen \in Nat \ {0}
  BY DEF Tasks, Rows
<1>2. "allowed" \in InFlight \cup {"free"}
  BY DEF InFlight
<1> HIDE DEF InFlight, Rows
<1> QED
  BY <1>1, <1>2 DEF Tasks

LEMMA EnterStep ==
  ASSUME AccessInv, NEW q \in Requests, Enter(q)
  PROVE  AccessInv'
<1>1. /\ task[q].at = "open" /\ Enters(task[q]) /\ ~Holds(q)
      /\ UNCHANGED <<now, room, rotation, jar, history>>
      /\ UNCHANGED <<earned, typed, overlaps>>
  BY DEF Enter, boardVars, Holds, history
<1>2. CASE task[q].kind # "book"
  BY <1>1, <1>2, QuitStep DEF Enter
<1>3. CASE task[q].kind = "book"
  <2> DEFINE e == [task[q] EXCEPT !.at = "allowed"]
  <2>1. task' = [task EXCEPT ![q] = e]
    BY <1>3 DEF Enter
  <2>2. /\ e \in Tasks /\ e.at = "allowed" /\ e.who = task[q].who /\ e.room = task[q].room
        /\ e.row = task[q].row /\ task[q].row.gen \in Nat \ {0} /\ e.dirty = task[q].dirty
    <3>1. task[q] \in Tasks
      BY <1>1, OneRequest
    <3> QED
      BY <3>1, AllowedTask
  <2> HIDE DEF e
  <2>3. task'[q] = e
    BY <1>1, <2>1, OneRequest
  <2>4. e.row.gen \in earned[e.who][e.room]
    <3>1. task[q].room \in Rooms /\ SessionOK(task[q].who, jar[task[q].who])
      BY <1>1, OneRequest
    <3>2. jar[task[q].who][task[q].room].token = task[q].row.gen
      BY <1>1 DEF Enters, HasAccess
    <3> QED
      BY <2>2, <3>1, <3>2 DEF SessionOK
  <2>5. task[q].who \notin overlaps => Alone(q, task[q].who)'
    BY <1>1, <2>2, <2>3, OneRequest DEF Alone, Holds
  <2>6. e # Blank
    BY <2>2 DEF Blank
  <2> QED
    BY <1>1, <2>1, <2>2, <2>4, <2>5, <2>6, OneRequest, TaskStep
<1> QED
  BY <1>2, <1>3

\* A session that is read, less a lockout that has passed, is still in order.
LEMMA UnexpiredOK ==
  ASSUME now \in Nat, NEW s \in Sessions, NEW c \in Visits, NEW r \in Rooms, SessionOK(s, c)
  PROVE  /\ Unexpired(c, r) \in Visits /\ SessionOK(s, Unexpired(c, r))
         /\ \A x \in Rooms : Unexpired(c, r)[x].token = c[x].token
         /\ \A x \in Rooms \ {r} : Unexpired(c, r)[x] = c[x]
         /\ Unexpired(c, r) = c \/ Unexpired(c, r)[r].tries = 0
         /\ ~LockedOut(c, r) => Unexpired(c, r)[r].tries < Limit
<1>1. CASE Unexpired(c, r) = c
  <2>1. c[r].tries \in 0..Limit /\ (c[r].until # 0 <=> c[r].tries = Limit)
    BY DEF Visits, States, SessionOK
  <2>2. ~LockedOut(c, r) => c[r].until = 0
    BY <1>1, UnexpiredVisit
  <2>3. ~LockedOut(c, r) => c[r].tries < Limit
    BY <2>1, <2>2
  <2> QED
    BY <1>1, <2>3
<1>2. CASE Unexpired(c, r) # c
  <2> DEFINE d == [c EXCEPT ![r] = [token |-> c[r].token, tries |-> 0, until |-> 0]]
  <2>1. Unexpired(c, r) = d
    BY <1>2, UnexpiredVisit DEF Cleared
  <2>2. d \in Visits /\ \A x \in Rooms : d[x] =
          IF x = r THEN [token |-> c[r].token, tries |-> 0, until |-> 0] ELSE c[x]
    BY DEF Visits, States
  <2> HIDE DEF d
  <2>3. SessionOK(s, d)
    BY <2>2 DEF SessionOK
  <2> QED
    BY <2>1, <2>2, <2>3
<1> QED
  BY <1>1, <1>2

LEMMA GateStep ==
  ASSUME AccessInv, NEW q \in Requests, Gate(q)
  PROVE  AccessInv'
<1> DEFINE t == task[q]
<1> DEFINE s == jar[t.who]
<1> DEFINE kept == Unexpired(s, t.room)
<1> DEFINE loaded == [t EXCEPT !.at = "judge", !.work = kept, !.dirty = kept # s]
<1> DEFINE e == IF t.kind = "open" \/ LockedOut(s, t.room) THEN Ended(loaded) ELSE loaded
<1>1. /\ t.at = "open" /\ task' = [task EXCEPT ![q] = e] /\ ~Holds(q)
      /\ typed' = IF kept = s THEN typed ELSE [typed EXCEPT ![t.who][t.room] = 0]
      /\ UNCHANGED <<now, room, rotation, jar, earned, overlaps>>
  BY DEF Gate, boardVars, Holds
<1>2. /\ now \in Nat /\ t \in Tasks /\ t.who \in Sessions /\ s \in Visits /\ t.room \in Rooms
      /\ SessionOK(t.who, s) /\ typed \in [Sessions -> [Rooms -> Nat]]
      /\ task \in [Requests -> Tasks]
  BY <1>1, OneRequest
<1>3. /\ kept \in Visits /\ SessionOK(t.who, kept)
      /\ \A x \in Rooms : kept[x].token = s[x].token
      /\ \A x \in Rooms \ {t.room} : kept[x] = s[x]
      /\ kept = s \/ kept[t.room].tries = 0
      /\ ~LockedOut(s, t.room) => kept[t.room].tries < Limit
  BY <1>2, UnexpiredOK
<1> HIDE DEF kept
<1>4. /\ loaded \in Tasks /\ loaded.at = "judge" /\ loaded.who = t.who /\ loaded.room = t.room
      /\ loaded.row = t.row /\ loaded.work = kept /\ (loaded.dirty <=> kept # s)
  BY <1>2, <1>3 DEF Tasks, InFlight
<1> HIDE DEF loaded
<1>5. /\ Ended(loaded) \in Tasks
      /\ kept # s => /\ Ended(loaded).at = "answer" /\ Ended(loaded).who = t.who
                     /\ Ended(loaded).work = kept /\ Ended(loaded).dirty
      /\ kept = s => Ended(loaded) = Blank
  BY <1>4, EndedTask
<1>6. CASE e = Blank
  <2>1. Blank.at = "free"
    BY DEF Blank
  <2>2. kept = s
    BY <1>4, <1>5, <1>6, <2>1
  <2> QED
    BY <1>1, <1>6, <2>2, QuitStep DEF history
<1>7. CASE e # Blank
  <2>1. /\ e \in Tasks /\ e.at \in {"judge", "answer"} /\ e.who = t.who /\ e.work = kept
        /\ e.at = "judge" => e.room = t.room /\ e.row = t.row /\ ~LockedOut(s, t.room)
        /\ e.dirty \/ kept = s
    BY <1>4, <1>5, <1>7
  <2> HIDE DEF e
  <2>2. task'[q] = e
    BY <1>1, <1>2
  <2>3. StaysOK(e.who, e.work)
    BY <1>1, <1>3, <2>1 DEF SessionOK, StaysOK
  <2>4. typed' \in [Sessions -> [Rooms -> Nat]] /\ \A x \in Sessions : x # t.who => typed'[x] = typed[x]
    BY <1>1, <1>2
  <2>5. ASSUME t.who \notin overlaps PROVE Alone(q, t.who)'
    <3>1. /\ \A r \in Rooms : typed[t.who][r] <= s[r].tries
          /\ s[t.room].token <= t.row.gen
      BY <1>1, <2>5, OneRequest DEF Alone
    <3>2. \A r \in Rooms : typed'[t.who][r] <= kept[r].tries
      <4>1. CASE kept = s
        BY <1>1, <3>1, <4>1
      <4>2. CASE kept # s
        BY <1>1, <1>2, <1>3, <3>1, <4>2
      <4> QED
        BY <4>1, <4>2
    <3>3. \A r \in Rooms : s[r].token <= kept[r].token
      BY <1>2, <1>3 DEF Visits, States
    <3> QED
      BY <1>1, <2>1, <2>2, <3>1, <3>2, <3>3 DEF Alone, Holds
  <2>6. /\ e.at \in {"judge", "answer"} /\ e.who = t.who /\ e # Blank /\ t.at # "free"
        /\ e.at = "judge" => e.room = t.room /\ e.row = t.row /\ e.work[e.room].tries < Limit
    BY <1>1, <1>3, <1>7, <2>1
  <2>7. earned' \in [Sessions -> [Rooms -> SUBSET Nat]]
    BY <1>1, OneRequest
  <2> HIDE DEF s
  <2> QED
    BY <1>1, <2>1, <2>3, <2>4, <2>5, <2>6, <2>7, TaskStep
<1> QED
  BY <1>6, <1>7

LEMMA RefuseStep ==
  ASSUME AccessInv, NEW q \in Requests, RefuseCaptcha(q)
  PROVE  AccessInv'
<1> DEFINE e == Ended(task[q])
<1>1. /\ task[q].at \in {"judge", "allowed"} /\ task' = [task EXCEPT ![q] = e]
      /\ UNCHANGED <<now, room, rotation, jar, history>>
      /\ UNCHANGED <<earned, typed, overlaps>>
  BY DEF RefuseCaptcha, boardVars, history
<1>2. /\ e \in Tasks
      /\ task[q].dirty => /\ e.at = "answer" /\ e.who = task[q].who
                          /\ e.work = task[q].work /\ e.dirty
      /\ ~task[q].dirty => e = Blank
  BY <1>1, EndedTask, OneRequest
<1> HIDE DEF e
<1>3. CASE ~task[q].dirty
  BY <1>1, <1>2, <1>3, QuitStep
<1>4. CASE task[q].dirty
  <2>1. Holds(q) /\ task[q].at = "judge" /\ task'[q] = e
    BY <1>1, <1>4, OneRequest DEF Holds
  <2>2. StaysOK(e.who, e.work)
    BY <1>1, <1>2, <1>4, <2>1, OneRequest DEF SessionOK, StaysOK
  <2>3. task[q].who \notin overlaps => Alone(q, task[q].who)'
    BY <1>1, <1>2, <1>4, <2>1, OneRequest DEF Alone, Holds
  <2>4. e # Blank
    BY <1>2, <1>4 DEF Blank
  <2> QED
    BY <1>1, <1>2, <1>4, <2>2, <2>3, <2>4, OneRequest, TaskStep
<1> QED
  BY <1>3, <1>4

\* What check_code accepts opens the room.
LEMMA AcceptedOpens ==
  ASSUME NEW row \in Rows, NEW code \in Nat, NEW moment \in Nat, code \in Accepted(row, moment)
  PROVE  Opens(code, row, moment)
BY DEF Accepted, Opens, Rows

LEMMA JudgeStep ==
  ASSUME AccessInv, NEW q \in Requests, Judge(q)
  PROVE  AccessInv'
<1> DEFINE t == task[q]
<1> DEFINE right == t.code \in Accepted(t.row, t.moment)
<1> DEFINE work == IF right THEN Granted(t.work, t.room, Token(q)) ELSE Failed(t.work, t.room)
<1> DEFINE f == [t EXCEPT !.work = work, !.dirty = TRUE]
<1> DEFINE e == Ended(f)
<1>1. /\ t.at = "judge" /\ Holds(q) /\ task' = [task EXCEPT ![q] = e]
      /\ earned' = [earned EXCEPT ![t.who][t.room] =
                       IF right /\ Opens(t.code, t.row, t.moment) THEN @ \cup {t.row.gen} ELSE @]
      /\ typed' = [typed EXCEPT ![t.who][t.room] =
                      IF right THEN 0 ELSE IF t.kind = "code" /\ t.who \notin overlaps THEN @ + 1 ELSE @]
      /\ UNCHANGED <<now, room, rotation, jar, overlaps>>
  BY DEF Judge, boardVars, Holds
<1>2. /\ now \in Nat /\ t \in Tasks /\ t.who \in Sessions /\ t.room \in Rooms /\ t.at # "free"
      /\ t.row.gen <= room[t.room].gen /\ t.work[t.room].tries < Limit
      /\ SessionOK(t.who, t.work) /\ task \in [Requests -> Tasks]
      /\ earned \in [Sessions -> [Rooms -> SUBSET Nat]]
      /\ typed \in [Sessions -> [Rooms -> Nat]]
  BY <1>1, OneRequest
<1>3. t.work \in Visits /\ t.row \in Rows /\ t.row.gen \in Nat /\ t.code \in Nat /\ t.moment \in Nat
  BY <1>2 DEF Tasks, Rows
<1>4. /\ earned' \in [Sessions -> [Rooms -> SUBSET Nat]]
      /\ typed' \in [Sessions -> [Rooms -> Nat]]
      /\ \A x \in Sessions, r \in Rooms : earned[x][r] \subseteq earned'[x][r]
      /\ \A x \in Sessions : x # t.who => typed'[x] = typed[x]
      /\ right => t.row.gen \in earned'[t.who][t.room]
  <2>1. right => Opens(t.code, t.row, t.moment)
    BY <1>3, AcceptedOpens
  <2> HIDE DEF right
  <2> QED
    BY <1>1, <1>2, <1>3, <2>1
<1>5. /\ \A r \in Rooms \ {t.room} : work[r] = t.work[r]
      /\ right => work[t.room] = [token |-> t.row.gen, tries |-> 0, until |-> 0]
      /\ ~right => /\ work[t.room].token = t.work[t.room].token
                   /\ work[t.room].tries = t.work[t.room].tries + 1
                   /\ work[t.room].until =
                        IF t.work[t.room].tries + 1 >= Limit THEN now + Lockout
                                                             ELSE t.work[t.room].until
  BY <1>2, <1>3 DEF Granted, Failed, Token, Visits
<1>6. work \in Visits
  BY <1>2, <1>3, GrantedVisit, FailedVisit DEF Token
<1> HIDE DEF work
<1>7. StaysOK(t.who, work)
  <2> SUFFICES ASSUME NEW r \in Rooms
               PROVE  /\ work[r].token <= room[r].gen
                      /\ work[r].token # 0 => work[r].token \in earned'[t.who][r]
                      /\ work[r].until # 0 <=> work[r].tries = Limit
    BY DEF StaysOK
  <2>1. /\ t.work[r].token <= room[r].gen
        /\ t.work[r].token # 0 => t.work[r].token \in earned[t.who][r]
        /\ t.work[r].until # 0 <=> t.work[r].tries = Limit
    BY <1>2 DEF SessionOK
  <2>2. CASE r # t.room
    BY <1>2, <1>4, <1>5, <2>1, <2>2
  <2>3. CASE r = t.room /\ right
    BY <1>2, <1>4, <1>5, <2>3
  <2>4. CASE r = t.room /\ ~right
    <3>1. t.work[r].tries \in 0..Limit /\ t.work[r].tries < Limit /\ t.work[r].until \in Nat
      BY <1>2, <1>3, <2>4 DEF Visits, States
    <3>2. work[r].tries = t.work[r].tries + 1 /\ work[r].token = t.work[r].token
      BY <1>5, <2>4
    <3>3. work[r].until # 0 <=> work[r].tries = Limit
      <4>1. CASE t.work[r].tries + 1 >= Limit
        <5>1. work[r].until = now + Lockout /\ now + Lockout # 0
          BY <1>2, <1>5, <2>4, <4>1, BookingAccessAssumption
        <5>2. work[r].tries = Limit
          BY <3>1, <3>2, <4>1
        <5> QED
          BY <5>1, <5>2
      <4>2. CASE ~(t.work[r].tries + 1 >= Limit)
        BY <1>5, <2>1, <2>4, <3>1, <3>2, <4>2
      <4> QED
        BY <4>1, <4>2
    <3> QED
      BY <1>2, <1>4, <2>1, <3>2, <3>3
  <2> QED
    BY <2>2, <2>3, <2>4
<1>8. ASSUME t.who \notin overlaps
      PROVE  \A r \in Rooms : typed'[t.who][r] <= work[r].tries /\ jar[t.who][r].token <= work[r].token
  <2> SUFFICES ASSUME NEW r \in Rooms
               PROVE  typed'[t.who][r] <= work[r].tries /\ jar[t.who][r].token <= work[r].token
    OBVIOUS
  <2>1. /\ typed[t.who][r] <= t.work[r].tries /\ jar[t.who][r].token <= t.work[r].token
        /\ jar[t.who][t.room].token <= t.row.gen
    BY <1>1, <1>8, OneRequest DEF Alone
  <2>2. t.work[r].tries \in Nat /\ typed[t.who][r] \in Nat
    BY <1>2, <1>3 DEF Visits, States
  <2>3. CASE r # t.room
    BY <1>1, <1>2, <1>5, <2>1, <2>3
  <2>4. CASE r = t.room /\ right
    BY <1>1, <1>2, <1>5, <2>1, <2>4
  <2>5. CASE r = t.room /\ ~right
    BY <1>1, <1>2, <1>5, <2>1, <2>2, <2>5
  <2> QED
    BY <2>3, <2>4, <2>5
<1>9. f \in Tasks /\ f.dirty /\ f.who = t.who /\ f.work = work
  BY <1>2, <1>6 DEF Tasks
<1> HIDE DEF f
<1>10. e \in Tasks /\ e.at = "answer" /\ e.who = t.who /\ e.work = work /\ e.dirty
  BY <1>9, EndedTask
<1> HIDE DEF e
<1>11. task'[q] = e /\ e # Blank
  BY <1>1, <1>2, <1>10 DEF Blank
<1>12. t.who \notin overlaps => Alone(q, t.who)'
  BY <1>1, <1>8, <1>10, <1>11 DEF Alone, Holds
<1> QED
  BY <1>1, <1>2, <1>4, <1>7, <1>10, <1>11, <1>12, TaskStep

LEMMA BookStep ==
  ASSUME AccessInv, NEW q \in Requests, Book(q)
  PROVE  AccessInv'
BY QuitStep DEF Book, Holds, boardVars

LEMMA AnswerStep ==
  ASSUME AccessInv, NEW q \in Requests, Answer(q)
  PROVE  AccessInv'
<1> DEFINE s == task[q].who
<1>1. /\ task[q].at = "answer" /\ Holds(q)
      /\ jar' = [jar EXCEPT ![s] = task[q].work] /\ task' = [task EXCEPT ![q] = Blank]
      /\ UNCHANGED <<now, room, rotation, earned, typed, overlaps>>
  BY DEF Answer, Holds, boardVars, history
<1>2. /\ TypeOK /\ JarInv /\ CopyInv /\ RequestInv /\ SoloInv /\ BookedWithCode /\ RotationsCounted
      /\ s \in Sessions /\ SessionOK(s, task[q].work) /\ task[q].work \in Visits
  BY <1>1, OneRequest DEF AccessInv, Tasks
<1>3. /\ task'[q] = Blank /\ Blank.at = "free" /\ Blank.who = None
      /\ \A p \in Requests : p # q => task'[p] = task[p]
      /\ jar'[s] = task[q].work /\ \A x \in Sessions : x # s => jar'[x] = jar[x]
  BY <1>1, <1>2 DEF TypeOK, Blank
<1>4. TypeOK'
  BY <1>1, <1>2, EmptyVisit DEF TypeOK
<1>5. JarInv'
  BY <1>1, <1>2, <1>3 DEF JarInv, SessionOK
<1>6. CopyInv' /\ RequestInv' /\ BookedWithCode' /\ RotationsCounted'
  BY <1>1, <1>2, <1>3 DEF CopyInv, RequestInv, BookedWithCode, RotationsCounted, SessionOK, Holds
<1>7. SoloInv'
  <2> SUFFICES ASSUME NEW x \in Sessions \ overlaps
               PROVE  /\ \A p, o \in Requests : task'[p].who = x /\ task'[o].who = x => p = o
                      /\ Quiet(x)' => \A r \in Rooms : typed'[x][r] <= jar'[x][r].tries
                      /\ \A p \in Requests : task'[p].who = x => Alone(p, x)'
    BY <1>1 DEF SoloInv
  <2>1. \A p \in Requests : task'[p].who = x => p # q /\ task'[p] = task[p]
    BY <1>3, BookingAccessAssumption
  <2>2. \A p, o \in Requests : task[p].who = x /\ task[o].who = x => p = o
    BY <1>2 DEF SoloInv
  <2>3. CASE x = s
    <3>1. \A p \in Requests : task'[p].who # x
      BY <2>1, <2>2, <2>3
    <3>2. \A r \in Rooms : typed[x][r] <= task[q].work[r].tries
      BY <1>1, <1>2, <2>3 DEF SoloInv, Alone
    <3> QED
      BY <1>1, <1>3, <2>3, <3>1, <3>2
  <2>4. CASE x # s
    <3>1. Quiet(x)' => Quiet(x)
      BY <1>3, <2>4 DEF Quiet
    <3>2. Quiet(x) => \A r \in Rooms : typed[x][r] <= jar[x][r].tries
      BY <1>2 DEF SoloInv
    <3>3. \A p \in Requests : task'[p].who = x => Alone(p, x)'
      BY <1>1, <1>2, <1>3, <2>1, <2>4 DEF SoloInv, Alone, Holds
    <3> QED
      BY <1>1, <1>3, <2>1, <2>2, <2>4, <3>1, <3>2, <3>3
  <2> QED
    BY <2>3, <2>4
<1> QED
  BY <1>4, <1>5, <1>6, <1>7 DEF AccessInv
-----------------------------------------------------------------------------
(* The theorems.                                                           *)

LEMMA AccessInductive == AccessInv /\ [Next]_vars => AccessInv'
<1> SUFFICES ASSUME AccessInv, [Next]_vars PROVE AccessInv'
  OBVIOUS
<1>1. CASE Tick
  <2>1. now' \in Nat
    BY <1>1 DEF Tick, AccessInv, TypeOK
  <2> QED
    BY <1>1, <2>1, ClockStep DEF Tick
<1>2. CASE UNCHANGED vars
  <2>1. now' \in Nat
    BY <1>2 DEF vars, AccessInv, TypeOK
  <2> QED
    BY <1>2, <2>1, ClockStep DEF vars
<1>3. CASE \E b \in Board : Stamp(b) \/ Rotate(b)
  BY <1>3, StampStep, RotateStep
<1>4. CASE \E q \in Requests, s \in Sessions, a \in Asks : Start(q, s, a)
  BY <1>4, StartStep
<1>5. CASE \E q \in Requests :
             Enter(q) \/ Gate(q) \/ RefuseCaptcha(q) \/ Judge(q) \/ Book(q) \/ Answer(q)
  BY <1>5, EnterStep, GateStep, RefuseStep, JudgeStep, BookStep, AnswerStep
<1> QED
  BY <1>1, <1>2, <1>3, <1>4, <1>5 DEF Next

\* The inductive invariant holds in every state.
THEOREM AccessInvariant == Spec => []AccessInv
BY AccessInit, AccessInductive, PTL DEF Spec

\* Every variable keeps its type, and no session counts past the limit.
THEOREM AccessTypeCorrect == Spec => []TypeOK
<1>1. AccessInv => TypeOK
  BY DEF AccessInv
<1> QED
  BY <1>1, AccessInvariant, PTL

\* Nobody is unlocked who has not typed a code that opened the room.
THEOREM UnlocksEarned == Spec => []UnlockEarned
<1>1. AccessInv => UnlockEarned
  <2> SUFFICES ASSUME AccessInv, NEW s \in Sessions, NEW r \in Rooms, Unlocked(s, r)
               PROVE  room[r].gen \in earned[s][r]
    BY DEF UnlockEarned
  <2>1. room[r].gen # 0
    BY DEF AccessInv, TypeOK, Rows
  <2> QED
    BY <2>1 DEF AccessInv, JarInv, SessionOK, Unlocked
<1> QED
  BY <1>1, AccessInvariant, PTL

\* No booking without an account is reached without such a code.
THEOREM BookingsWithCode == Spec => []BookedWithCode
<1>1. AccessInv => BookedWithCode
  BY DEF AccessInv
<1> QED
  BY <1>1, AccessInvariant, PTL

\* Rotations that race each count.
THEOREM RotationsAllCount == Spec => []RotationsCounted
<1>1. AccessInv => RotationsCounted
  BY DEF AccessInv
<1> QED
  BY <1>1, AccessInvariant, PTL

\* A stored session is locked out of a room exactly at its limit.
THEOREM LockoutAtLimit == Spec => []LockedAtLimit
<1>1. AccessInv => LockedAtLimit
  BY DEF AccessInv, JarInv, SessionOK, LockedAtLimit
<1> QED
  BY <1>1, AccessInvariant, PTL

\* One request at a time, wrong codes stop at the limit and are all counted.
THEOREM WrongCodesAreCounted == Spec => []WrongCodesCount
<1>1. AccessInv => WrongCodesCount
  <2> SUFFICES ASSUME AccessInv, NEW s \in Sessions \ overlaps, NEW r \in Rooms
               PROVE  typed[s][r] <= Limit /\ (Quiet(s) => typed[s][r] <= jar[s][r].tries)
    BY DEF WrongCodesCount
  <2>1. Quiet(s) => typed[s][r] <= jar[s][r].tries
    BY DEF AccessInv, SoloInv
  <2>2. typed[s][r] \in Nat /\ jar[s][r].tries \in 0..Limit
    BY DEF AccessInv, TypeOK, Visits, States
  <2>3. ASSUME NEW q \in Requests, task[q].who = s
        PROVE  typed[s][r] <= Limit
    <3>1. Alone(q, s) /\ task[q].work[r].tries \in 0..Limit
      BY <2>3 DEF AccessInv, SoloInv, TypeOK, Tasks, Visits, States
    <3> QED
      BY <2>2, <3>1 DEF Alone
  <2> QED
    BY <2>1, <2>2, <2>3 DEF Quiet
<1> QED
  BY <1>1, AccessInvariant, PTL

\* A rotation ends the unlocks of its room; nothing else ends one, except
\* requests of the session that overlap.
THEOREM RotationEndsExactly == Spec => RotationEndsUnlocks
<1>1. ASSUME AccessInv, AccessInv', [Next]_vars, NEW s \in Sessions, NEW r \in Rooms
      PROVE  /\ room'[r].gen # room[r].gen => ~Unlocked(s, r)'
             /\ Unlocked(s, r) /\ ~Unlocked(s, r)' => room'[r].gen # room[r].gen \/ s \in overlaps
  <2>1. /\ jar[s][r].token \in Nat /\ jar[s][r].token <= room[r].gen /\ room[r].gen \in Nat
        /\ jar'[s][r].token \in Nat /\ jar'[s][r].token <= room'[r].gen /\ room'[r].gen \in Nat
    BY <1>1 DEF AccessInv, TypeOK, Visits, States, Rows, JarInv, SessionOK
  <2>2. CASE \E b \in Board : Rotate(b)
    <3>1. jar' = jar /\ (room'[r] = room[r] \/ room'[r].gen = room[r].gen + 1)
      BY <1>1, <2>2 DEF Rotate, Raised, history, AccessInv, TypeOK
    <3> QED
      BY <2>1, <3>1 DEF Unlocked
  <2>3. CASE \E q \in Requests : Answer(q)
    <3>1. PICK q \in Requests : Answer(q)
      BY <2>3
    <3>2. room' = room /\ task[q].at = "answer" /\ Holds(q) /\ jar' = [jar EXCEPT ![task[q].who] = task[q].work]
      BY <3>1 DEF Answer, boardVars, Holds
    <3>3. s = task[q].who /\ s \notin overlaps => jar[s][r].token <= jar'[s][r].token
      BY <1>1, <3>2 DEF AccessInv, TypeOK, SoloInv, Alone
    <3>4. s # task[q].who => jar'[s] = jar[s]
      BY <1>1, <3>2 DEF AccessInv, TypeOK
    <3> QED
      BY <2>1, <3>2, <3>3, <3>4 DEF Unlocked
  <2>4. CASE UNCHANGED <<room, jar>>
    BY <2>4 DEF Unlocked
  <2> QED
    BY <1>1, <2>2, <2>3, <2>4
    DEF Next, Tick, Stamp, Start, Enter, Gate, RefuseCaptcha, Judge, Book, boardVars, vars
<1>2. AccessInv /\ AccessInv' /\ [Next]_vars =>
        [\A s \in Sessions, r \in Rooms :
           /\ room'[r].gen # room[r].gen => ~Unlocked(s, r)'
           /\ Unlocked(s, r) /\ ~Unlocked(s, r)' => room'[r].gen # room[r].gen \/ s \in overlaps]_vars
  BY <1>1
<1> QED
  BY <1>2, AccessInvariant, PTL DEF Spec, RotationEndsUnlocks
=============================================================================
