--------------------------- MODULE BookingAccess ---------------------------
(***************************************************************************)
(* The code gate of the public room pages (src/booking/access.py): codes   *)
(* derived from a room and its generation, unlocks and attempt counters    *)
(* kept in the visitor's session, and the board rotating a room's code.    *)
(*                                                                         *)
(* A request reads the room row once, then loads the session, waits for    *)
(* the captcha service, and writes the whole session back with the answer  *)
(* if it changed it: two requests of one browser overlap, and the last     *)
(* writer wins.  A code is the pair of a room and a generation; 0 is a     *)
(* code that is none of them.  PostgreSQL, READ COMMITTED.                 *)
(*                                                                         *)
(* The admin page of a room locks its row before it reads it and writes    *)
(* neither field of the code: it takes no step here.  Left out: signed-in  *)
(* members, who pass no gate, the booking form itself (module RoomBooking),*)
(* two generations whose six digits agree, and the part of a second by     *)
(* which a lockout ends early.                                             *)
(***************************************************************************)
EXTENDS Integers, FiniteSets, Functions

CONSTANTS
  Rooms, Sessions,
  Requests,   \* request slots, each used again and again
  Asks,       \* what visitors ask: the room, the kind of request, the code
  Board,      \* the rotations there will be
  Rotates,    \* the room each of them is for
  Limit,      \* BOOKING_ATTEMPT_LIMIT
  Lockout,    \* BOOKING_LOCKOUT_SECONDS, in ticks
  Grace,      \* BOOKING_CODE_GRACE, in ticks
  MaxTime,    \* bound: the clock
  MaxGuesses, \* bound: wrong codes judged for a room and session in a row
  None

ASSUME BookingAccessAssumption ==
  /\ Limit \in Nat \ {0} /\ Lockout \in Nat \ {0} /\ Grace \in Nat
  /\ MaxTime \in Nat /\ MaxGuesses \in Nat
  /\ None \notin Rooms \cup Sessions
  /\ IsFiniteSet(Board) /\ Rotates \in [Board -> Rooms]
  /\ Asks \subseteq [room : Rooms, kind : {"open", "code", "book"}, code : Nat]
  /\ \A a \in Asks : a.kind # "code" => a.code = 0

VARIABLES
  now,
  room,     \* per room: code_generation and rotated_at (0 before the first)
  rotation, \* per rotation: its step, the generation read, its moment
  jar,      \* per session: the token, attempts and lockout of each room
  task,     \* per request slot: the request it runs
  earned,   \* per session and room: the generations it was let in to by a code
            \* that opened them (history)
  typed,    \* per session and room: wrong codes typed in a row, for as long as
            \* no two requests of the session have overlapped (history)
  overlaps  \* the sessions two requests of which have overlapped (history)

boardVars == <<room, rotation>>
history   == <<earned, typed, overlaps>>
vars      == <<now, boardVars, jar, task, history>>

\* A session holds for every room a token (the generation it is for), the
\* attempts and the end of a lockout; 0 is an entry the session does not have.
NoState == [token |-> 0, tries |-> 0, until |-> 0]
NewSession == [r \in Rooms |-> NoState]

Blank ==
  [at |-> "free", who |-> None, kind |-> "open", room |-> None, code |-> 0,
   row |-> [gen |-> 1, rotated |-> 0], moment |-> 0, work |-> NewSession, dirty |-> FALSE]

Init ==
  /\ now = 1
  /\ room = [r \in Rooms |-> [gen |-> 1, rotated |-> 0]]
  /\ rotation = [b \in Board |-> [at |-> "new", gen |-> 1, moment |-> 0]]
  /\ jar = [s \in Sessions |-> NewSession]
  /\ task = [q \in Requests |-> Blank]
  /\ earned = [s \in Sessions |-> [r \in Rooms |-> {}]]
  /\ typed = [s \in Sessions |-> [r \in Rooms |-> 0]]
  /\ overlaps = {}

Tick == now < MaxTime /\ now' = now + 1 /\ UNCHANGED <<boardVars, jar, task, history>>
-----------------------------------------------------------------------------
(* The board.                                                              *)

\* The admin action has read the room; rotate_code takes the moment before the
\* UPDATE.
Stamp(b) ==
  /\ rotation[b].at = "new"
  /\ rotation' = [rotation EXCEPT ![b] =
                    [at |-> "stamped", gen |-> room[Rotates[b]].gen, moment |-> now]]
  /\ UNCHANGED <<now, room, jar, task, history>>

\* The generation the UPDATE writes, counted in the database.
\* Mutant: counted in Python, from the room the action has read.
RaisedInPython(b) == rotation[b].gen + 1
Raised(b) == room[Rotates[b]].gen + 1

\* Its UPDATE.
Rotate(b) ==
  LET r == Rotates[b] IN
  /\ rotation[b].at = "stamped"
  /\ room' = [room EXCEPT ![r] = [gen |-> Raised(b), rotated |-> rotation[b].moment]]
  /\ rotation' = [rotation EXCEPT ![b] = [at |-> "done", gen |-> 0, moment |-> 0]]
  /\ UNCHANGED <<now, jar, task, history>>

-----------------------------------------------------------------------------
(* The gate, on a session s and the room row the request has read.         *)

\* session_has_access: the stored token is the one of this generation.
\* Mutant: any token will do.
HasToken(s, r, row) == s[r].token # 0
HasAccess(s, r, row) == s[r].token = row.gen

\* accepted_codes; check_code compares with each of them.
\* Mutant: the old code keeps working while it is the previous one.
AcceptedForever(row, moment) == {row.gen} \cup {g \in {row.gen - 1} : row.gen > 1}
Accepted(row, moment) ==
  {row.gen} \cup
  {g \in {row.gen - 1} : row.gen > 1 /\ 0 <= moment - row.rotated /\ moment - row.rotated < Grace}

\* The same in words, for the history: the code of the generation, or the one
\* before it typed no later than Grace after the rotation.
Opens(code, row, moment) ==
  \/ code = row.gen
  \/ code # 0 /\ code = row.gen - 1 /\ moment < row.rotated + Grace

\* Both entries of the room go: on a right code and when a lockout has passed.
\* Mutant: the lockout goes and the attempts stay.
ClearedLockoutOnly(s, r) == [s EXCEPT ![r].until = 0]
Cleared(s, r) == [s EXCEPT ![r] = [token |-> @.token, tries |-> 0, until |-> 0]]

\* The token session_token derives for the row the request works from.
Token(q) == task[q].row.gen

\* grant_session: this room's token, no attempts, no lockout, and the tokens of
\* the other rooms as they were.
\* Mutant: the mapping is written with this room alone.
GrantedOnly(s, r, g) ==
  [x \in Rooms |-> IF x = r THEN [NoState EXCEPT !.token = g] ELSE [s[x] EXCEPT !.token = 0]]
Granted(s, r, g) == [s EXCEPT ![r] = [token |-> g, tries |-> 0, until |-> 0]]

\* record_failed_attempt.
\* Mutant: the limit is compared with the attempts before this one.
FailedLate(s, r) ==
  [s EXCEPT ![r] = [token |-> @.token, tries |-> @.tries + 1,
                    until |-> IF @.tries >= Limit THEN now + Lockout ELSE @.until]]
Failed(s, r) ==
  [s EXCEPT ![r] = [token |-> @.token, tries |-> @.tries + 1,
                    until |-> IF @.tries + 1 >= Limit THEN now + Lockout ELSE @.until]]

\* lockout_remaining, which also clears a lockout that has passed.
LockedOut(s, r) == s[r].until > now
Unexpired(s, r) == IF s[r].until # 0 /\ ~LockedOut(s, r) THEN Cleared(s, r) ELSE s
-----------------------------------------------------------------------------
(* A visitor's request: to open the page, to send a code, or to book.      *)

InFlight == {"open", "judge", "allowed", "answer"}
Quiet(s) == \A q \in Requests : task[q].who # s

Start(q, s, a) ==
  /\ task[q].at = "free"
  /\ a.code <= room[a.room].gen
  /\ task' = [task EXCEPT ![q] =
                [at |-> "open", who |-> s, kind |-> a.kind, room |-> a.room, code |-> a.code,
                 row |-> room[a.room], moment |-> now, work |-> NewSession, dirty |-> FALSE]]
  /\ overlaps' = IF Quiet(s) THEN overlaps ELSE overlaps \cup {s}
  /\ typed' = IF Quiet(s) THEN typed ELSE [typed EXCEPT ![s] = [r \in Rooms |-> 0]]
  /\ UNCHANGED <<now, boardVars, jar, earned>>

\* What is left of a request once it is decided: a session it changed is still
\* to be written, whole.
Ended(t) ==
  IF t.dirty THEN [Blank EXCEPT !.at = "answer", !.who = t.who, !.work = t.work, !.dirty = TRUE]
             ELSE Blank

\* A code is for the gate even from an unlocked visitor.
Enters(t) == t.kind # "code" /\ HasAccess(jar[t.who], t.room, t.row)

\* An unlocked visitor is shown the page, or goes on to book.
Enter(q) ==
  /\ task[q].at = "open" /\ Enters(task[q])
  /\ task' = [task EXCEPT ![q] =
                IF task[q].kind = "book" THEN [task[q] EXCEPT !.at = "allowed"] ELSE Blank]
  /\ UNCHANGED <<now, boardVars, jar, history>>

\* Anyone else is at the gate, a booking included: shown the form, refused
\* during a lockout, or with a code to judge once the captcha is checked.
Gate(q) ==
  LET t == task[q]
      s == jar[t.who]
      kept == Unexpired(s, t.room)
      loaded == [t EXCEPT !.at = "judge", !.work = kept, !.dirty = kept # s] IN
  /\ t.at = "open" /\ ~Enters(t)
  /\ task' = [task EXCEPT ![q] =
                IF t.kind = "open" \/ LockedOut(s, t.room) THEN Ended(loaded) ELSE loaded]
  /\ typed' = IF kept = s THEN typed ELSE [typed EXCEPT ![t.who][t.room] = 0]
  /\ UNCHANGED <<now, boardVars, jar, earned, overlaps>>

\* A captcha that is refused, or cannot be checked, is no attempt.
RefuseCaptcha(q) ==
  /\ task[q].at \in {"judge", "allowed"}
  /\ task' = [task EXCEPT ![q] = Ended(task[q])]
  /\ UNCHANGED <<now, boardVars, jar, history>>

\* A booking has no code in it, which is as wrong as any code.
Judge(q) ==
  LET t == task[q]
      right == t.code \in Accepted(t.row, t.moment)
      work == IF right THEN Granted(t.work, t.room, Token(q)) ELSE Failed(t.work, t.room) IN
  /\ t.at = "judge"
  /\ ~right => typed[t.who][t.room] < MaxGuesses
  /\ task' = [task EXCEPT ![q] = Ended([t EXCEPT !.work = work, !.dirty = TRUE])]
  /\ earned' = [earned EXCEPT ![t.who][t.room] =
                  IF right /\ Opens(t.code, t.row, t.moment) THEN @ \cup {t.row.gen} ELSE @]
  /\ typed' = [typed EXCEPT ![t.who][t.room] =
                 IF right THEN 0 ELSE IF t.kind = "code" /\ t.who \notin overlaps THEN @ + 1 ELSE @]
  /\ UNCHANGED <<now, boardVars, jar, overlaps>>

\* The booking itself is a step of module RoomBooking.
Book(q) ==
  /\ task[q].at = "allowed"
  /\ task' = [task EXCEPT ![q] = Blank]
  /\ UNCHANGED <<now, boardVars, jar, history>>

\* SessionMiddleware writes the whole session back with the answer.
Answer(q) ==
  /\ task[q].at = "answer"
  /\ jar' = [jar EXCEPT ![task[q].who] = task[q].work]
  /\ task' = [task EXCEPT ![q] = Blank]
  /\ UNCHANGED <<now, boardVars, history>>

Next ==
  \/ Tick
  \/ \E b \in Board : Stamp(b) \/ Rotate(b)
  \/ \E q \in Requests :
       \/ \E s \in Sessions, a \in Asks : Start(q, s, a)
       \/ Enter(q) \/ Gate(q) \/ RefuseCaptcha(q) \/ Judge(q) \/ Book(q) \/ Answer(q)

Spec == Init /\ [][Next]_vars
-----------------------------------------------------------------------------
(* Properties.                                                             *)

States == [token : Nat, tries : 0..Limit, until : Nat]
Visits == [Rooms -> States]
Rows == [gen : Nat \ {0}, rotated : Nat]
Tasks ==
  [at : InFlight \cup {"free"}, who : Sessions \cup {None}, kind : {"open", "code", "book"},
   room : Rooms \cup {None}, code : Nat, row : Rows, moment : Nat, work : Visits, dirty : BOOLEAN]
Rotations ==
  [at : {"new", "stamped", "done"}, gen : Nat, moment : Nat]

\* Every variable has its type; no session counts past the limit.
TypeOK ==
  /\ now \in Nat
  /\ room \in [Rooms -> Rows]
  /\ rotation \in [Board -> Rotations]
  /\ jar \in [Sessions -> Visits]
  /\ task \in [Requests -> Tasks]
  /\ earned \in [Sessions -> [Rooms -> SUBSET Nat]]
  /\ typed \in [Sessions -> [Rooms -> Nat]]
  /\ overlaps \subseteq Sessions

Unlocked(s, r) == jar[s][r].token = room[r].gen

\* Whoever is unlocked for a room has typed its code, or the previous code no
\* later than Grace after the rotation, however requests, rotations and the
\* sessions written back overlapped (booking_code_gate, session_token).
UnlockEarned ==
  \A s \in Sessions, r \in Rooms : Unlocked(s, r) => room[r].gen \in earned[s][r]

\* Whoever is about to book without an account has typed such a code of the
\* generation the room was on when the request read it (room_detail).
BookedWithCode ==
  \A q \in Requests :
    task[q].at = "allowed" => task[q].row.gen \in earned[task[q].who][task[q].room]

\* Two rotations that race both count (Room.rotate_code).
RotationsCounted ==
  \A r \in Rooms :
    room[r].gen = 1 + Cardinality({b \in Board : rotation[b].at = "done" /\ Rotates[b] = r})

\* In a session as it is stored, a room is locked out exactly when its attempts
\* have reached the limit, overlapping requests or not (record_failed_attempt,
\* lockout_remaining): neither outlives the other.
LockedAtLimit ==
  \A s \in Sessions, r \in Rooms : jar[s][r].until # 0 <=> jar[s][r].tries = Limit

\* A browser that sends one request at a time types no more wrong codes in a
\* row than the limit, and each that was answered is in its session.
WrongCodesCount ==
  \A s \in Sessions \ overlaps, r \in Rooms :
    /\ typed[s][r] <= Limit
    /\ Quiet(s) => typed[s][r] <= jar[s][r].tries

\* A rotation ends every unlock of its room and none of another; nothing else
\* ends one, except a session written back over it by an overlapping request.
RotationEndsUnlocks ==
  [][\A s \in Sessions, r \in Rooms :
       /\ room'[r].gen # room[r].gen => ~Unlocked(s, r)'
       /\ Unlocked(s, r) /\ ~Unlocked(s, r)' => room'[r].gen # room[r].gen \/ s \in overlaps]_vars
-----------------------------------------------------------------------------
(* The inductive invariant of the proofs.                                  *)

\* A session of s, stored or held by a request.
SessionOK(s, c) ==
  \A r \in Rooms :
    /\ c[r].token <= room[r].gen
    /\ c[r].token # 0 => c[r].token \in earned[s][r]
    /\ c[r].until # 0 <=> c[r].tries = Limit

Holds(q) == task[q].at \in {"judge", "answer"}

JarInv  == \A s \in Sessions : SessionOK(s, jar[s])
CopyInv == \A q \in Requests : Holds(q) => SessionOK(task[q].who, task[q].work)

\* A request knows its session, its room, and a generation no newer than the
\* room's; its code is judged only while an attempt is left.
RequestInv ==
  \A q \in Requests :
    /\ task[q].who \in IF task[q].at = "free" THEN {None} ELSE Sessions
    /\ task[q].at \in {"open", "judge", "allowed"} =>
         task[q].room \in Rooms /\ task[q].row.gen <= room[task[q].room].gen
    /\ task[q].at \in {"open", "allowed"} => ~task[q].dirty
    /\ task[q].at = "judge" => task[q].work[task[q].room].tries < Limit

\* The one request of a session: what it holds is ahead of what is stored.
Alone(q, s) ==
  /\ task[q].at \in {"open", "judge", "allowed"} => jar[s][task[q].room].token <= task[q].row.gen
  /\ ~Holds(q) => \A r \in Rooms : typed[s][r] <= jar[s][r].tries
  /\ Holds(q) => \A r \in Rooms : /\ typed[s][r] <= task[q].work[r].tries
                                  /\ jar[s][r].token <= task[q].work[r].token
  /\ Holds(q) /\ ~task[q].dirty => task[q].work = jar[s]

SoloInv ==
  \A s \in Sessions \ overlaps :
    /\ \A p, q \in Requests : task[p].who = s /\ task[q].who = s => p = q
    /\ Quiet(s) => \A r \in Rooms : typed[s][r] <= jar[s][r].tries
    /\ \A q \in Requests : task[q].who = s => Alone(q, s)

AccessInv ==
  /\ TypeOK /\ JarInv /\ CopyInv /\ RequestInv /\ SoloInv
  /\ BookedWithCode /\ RotationsCounted
=============================================================================
