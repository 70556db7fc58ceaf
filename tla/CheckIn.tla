------------------------------- MODULE CheckIn -------------------------------
(***************************************************************************)
(* Who writes the attendance log: the check-in page of src/attendance, and *)
(* the corrections of the admin.                                           *)
(*                                                                         *)
(* A check-in reads whether the attendee is present, builds the change     *)
(* (its timestamp is the clock at that moment), inserts it and announces   *)
(* it to the open overview pages, with no transaction around any of it.    *)
(* The admin's change form writes, announces and commits, in this order:   *)
(* save_model runs inside the transaction of the form; the delete action   *)
(* of the list has no such transaction and announces what is committed.    *)
(*                                                                         *)
(* Left out: the code typed at the door and its lockout, the guest's name, *)
(* a row moved to another meeting, the deletion of a member, and two       *)
(* editors correcting rows at the same time.  There is one clock, and the  *)
(* time an admin types is not after it, which the form would allow: a row  *)
(* in the future changes who is present when its time comes, by no step of *)
(* anybody.                                                                *)
(***************************************************************************)
EXTENDS AttendanceLog

CONSTANTS
  Checks,    \* check-in requests
  Attendees, \* members and guests
  MaxTime,   \* bound: the clock stops here
  MaxFixes,  \* bound: the corrections made in the admin
  None       \* nobody; the row a correction that adds or deletes does not have

ASSUME CheckInAssumption ==
  /\ MaxTime \in Nat /\ MaxFixes \in Nat

Types == {"ENTER", "LEAVE"}

Changes == [id : Nat, who : Attendees, at : Nat, type : Types]

ASSUME NoneAssumption == None \notin Changes /\ None \notin Attendees

VARIABLES
  log,    \* committed AttendanceChange rows
  nextId, \* the sequence behind the primary key
  now,    \* the clock
  check,  \* per request: its step, attendee, type, timestamp and row id
  saw,    \* per request: the row ids committed when it read the log (history)
  fix,    \* the admin's correction under way
  fixes   \* corrections begun

checkInVars == <<log, nextId, now, check, saw, fix, fixes>>

Idle == [at |-> "idle", old |-> None, new |-> None]

InitCheckIn ==
  /\ log = {} /\ nextId = 1 /\ now = 0
  /\ check = [p \in Checks |-> [at |-> "new", who |-> None, type |-> "ENTER", stamp |-> 0, id |-> 0]]
  /\ saw = [p \in Checks |-> {}]
  /\ fix = Idle /\ fixes = 0

Tick == now < MaxTime /\ now' = now + 1 /\ UNCHANGED <<log, nextId, check, saw, fix, fixes>>

\* Mutant: only an arrival is checked.
MayEnterOnce(a, type) == type = "LEAVE" \/ ~IsAttendeePresent(log, a, now)

\* Refused: entering while present, leaving while absent.
MayChange(a, type) == type = "ENTER" <=> ~IsAttendeePresent(log, a, now)

\* The form is valid: the answer depends on what is committed now.
Ask(p) ==
  /\ check[p].at = "new"
  /\ \E a \in Attendees, ty \in Types :
       check' = [check EXCEPT ![p].at = IF MayChange(a, ty) THEN "allowed" ELSE "refused",
                              ![p].who = a, ![p].type = ty]
  /\ saw' = [saw EXCEPT ![p] = {c.id : c \in log}]
  /\ UNCHANGED <<log, nextId, now, fix, fixes>>

\* AttendanceChange(...): the default of timestamp is evaluated.
Stamp(p) ==
  /\ check[p].at = "allowed"
  /\ check' = [check EXCEPT ![p].at = "stamped", ![p].stamp = now]
  /\ UNCHANGED <<log, nextId, now, saw, fix, fixes>>

\* The AttendanceChange object of a request, once its row has the id.
Row(p, id) == [id |-> id, who |-> check[p].who, at |-> check[p].stamp, type |-> check[p].type]

\* change.save(): one INSERT, committed at once.
Save(p) ==
  /\ check[p].at = "stamped"
  /\ log' = log \cup {Row(p, nextId)}
  /\ nextId' = nextId + 1
  /\ check' = [check EXCEPT ![p].at = "saved", ![p].id = nextId]
  /\ UNCHANGED <<now, saw, fix, fixes>>

\* send_attendance_change, and the redirect.
Announce(p) ==
  /\ check[p].at = "saved"
  /\ check' = [check EXCEPT ![p].at = "done"]
  /\ UNCHANGED <<log, nextId, now, saw, fix, fixes>>

CheckInStep(p) == Ask(p) \/ Stamp(p) \/ Save(p) \/ Announce(p)

\* The change form of AttendanceChangeAdmin: the row is added, edited or
\* deleted and the pages are told, all before the commit.
Correct ==
  /\ fix.at = "idle" /\ fixes < MaxFixes
  /\ \E old \in log \cup {None}, who \in Attendees, ty \in Types, at \in 0..now :
       \E new \in {None, [id |-> IF old = None THEN nextId ELSE old.id,
                              who |-> who, at |-> at, type |-> ty]} :
         /\ old # new
         /\ fix' = [at |-> "uncommitted", old |-> old, new |-> new]
         /\ nextId' = IF old = None THEN nextId + 1 ELSE nextId
  /\ fixes' = fixes + 1
  /\ UNCHANGED <<log, now, check, saw>>

CommitCorrection ==
  /\ fix.at = "uncommitted"
  /\ log' = (log \ {fix.old}) \cup ({fix.new} \ {None})
  /\ fix' = Idle
  /\ UNCHANGED <<nextId, now, check, saw, fixes>>

\* delete_queryset: the rows ticked in the list are deleted, then the pages
\* are told.
DeleteSelected ==
  /\ fix.at = "idle" /\ fixes < MaxFixes
  /\ \E ticked \in SUBSET log : ticked # {} /\ log' = log \ ticked
  /\ fix' = [Idle EXCEPT !.at = "untold"]
  /\ fixes' = fixes + 1
  /\ UNCHANGED <<nextId, now, check, saw>>

TellDeleted ==
  /\ fix.at = "untold"
  /\ fix' = Idle
  /\ UNCHANGED <<log, nextId, now, check, saw, fixes>>

CheckInNext ==
  \/ Tick
  \/ \E p \in Checks : CheckInStep(p)
  \/ Correct \/ CommitCorrection \/ DeleteSelected \/ TellDeleted

-----------------------------------------------------------------------------
Requests == [at : {"new", "refused", "allowed", "stamped", "saved", "done"},
             who : Attendees \cup {None}, type : Types, stamp : Nat, id : Nat]

CheckInTypeOK ==
  /\ log \subseteq Changes
  /\ \A c, d \in log : c.id = d.id => c = d
  /\ nextId \in Nat /\ now \in Nat /\ fixes \in 0..MaxFixes
  /\ check \in [Checks -> Requests]
  /\ \A p \in Checks : check[p].at # "new" => check[p].who \in Attendees
  /\ saw \in [Checks -> SUBSET Nat]
  /\ fix \in [at : {"idle", "uncommitted", "untold"},
              old : Changes \cup {None}, new : Changes \cup {None}]

Follows(c, d) == c.who = d.who /\ Before(c, d)

\* c and d are the same attendee's, of the same type, with nothing in between.
Repeats(c, d) ==
  /\ Follows(c, d) /\ c.type = d.type
  /\ ~\E e \in log : Follows(c, e) /\ Follows(e, d)

\* Two arrivals (or departures) in a row come from requests that overlapped:
\* the later one read the log before the earlier one was saved.  So the
\* "nonsensical" pairs views.py 255-258 accepts need two requests at once.
RepeatOnlyByOverlap ==
  fixes = 0 =>
    \A c, d \in log, q \in Checks :
      Repeats(c, d) /\ check[q].id = d.id => c.id \notin saw[q]

\* What the log and the rows on their way to it look like, corrected or not.
LogInv ==
  /\ CheckInTypeOK
  /\ nextId > 0
  /\ \A c \in log : 0 < c.id /\ c.id < nextId
  /\ fix.at = "uncommitted" =>
       /\ fix.old # None => fix.old \in log
       /\ fix.new # None => /\ 0 < fix.new.id /\ fix.new.id < nextId
                            /\ \A c \in log : c.id = fix.new.id => c = fix.old

Latest(m) == m \in log /\ \A d \in log : d.who = m.who /\ d # m => Before(d, m)

Written(q) == check[q].at \in {"saved", "done"}

\* The clock is ahead of the log, and the attendees in it have a latest row.
LogOrdered == \A c \in log : c.at <= now /\ \E m \in log : m.who = c.who /\ Latest(m)

\* A request that was let through saw, after any row of its own type, one of
\* the other type.
SawOther(q) ==
  check[q].at \notin {"new", "refused"} =>
    \A c \in log :
      c.id \in saw[q] /\ c.who = check[q].who /\ c.type = check[q].type =>
        \E e \in log :
          /\ e.id \in saw[q] /\ Follows(c, e) /\ e.type # c.type
          /\ check[q].at # "allowed" => e.at <= check[q].stamp

\* A request's row comes after the rows it saw.
RowAfterSeen(q) ==
  /\ check[q].stamp <= now
  /\ IF Written(q) THEN check[q].id > 0 /\ Row(q, check[q].id) \in log
     ELSE check[q].id = 0
  /\ \A i \in saw[q] : i < nextId /\ (Written(q) => i < check[q].id)

\* While nobody has corrected the log.
MeetingInv ==
  fixes = 0 =>
    /\ fix = Idle
    /\ LogOrdered
    /\ \A q \in Checks : SawOther(q) /\ RowAfterSeen(q)

\* Whatever the log holds, the three numbers of the report agree: those
\* present at the end are among the peak, the peak among those who ever came.
ReportAgrees ==
  \A end \in {{}} \cup {{t} : t \in 0..MaxTime} :
    /\ PresentAtEnd(log, end) <= PeakPresentCount(log, end)
    /\ PeakPresentCount(log, end) <= EverPresentCount(log)
=============================================================================
