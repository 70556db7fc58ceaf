----------------------------- MODULE EventSignup -----------------------------
(***************************************************************************)
(* Event registration: the transaction of src/events/registration.py, the  *)
(* attendee-number allocator of src/events/models.py and the admin writes  *)
(* that meet them, over one storage event (Main) and its child events.     *)
(*                                                                         *)
(* Every attendee is stored under Main; `ev` is the row's original_event.  *)
(* The database is PostgreSQL at READ COMMITTED: a statement sees what is  *)
(* committed when it starts, an UPDATE that waited for a row lock re-reads *)
(* that row (and nothing else), and row locks last until the end of the    *)
(* transaction.  Three locks matter:                                       *)
(*   - FOR UPDATE on a limited child (childLock),                          *)
(*   - the UPDATE lock on Main's counter row (mainLock),                   *)
(*   - FOR KEY SHARE on the child, which the check of original_event takes *)
(*     at COMMIT, as Django's foreign keys are INITIALLY DEFERRED; it      *)
(*     conflicts with FOR UPDATE only (KeyChecked).                        *)
(***************************************************************************)
EXTENDS Integers, FiniteSets

CONSTANTS
  Reqs,       \* signup requests: one POST of the registration form each
  Editors,    \* admin change-form POSTs, one event save each
  Main,       \* the storage event: a parent or standalone event
  Children,   \* its child events, the only ones with a hard limit
  Forms,      \* what a request can submit: [ev, email, avec]
  Caps,       \* limits an editor can submit for a child; 0 means unlimited
  ManualNrs,  \* numbers an admin may type into an attendee row
  Retries,    \* _MAX_ATTENDEE_NR_RETRIES
  None        \* no request, no avec, no form

Events == Children \cup {Main}

ASSUME SignupAssumption ==
  /\ Main \notin Children
  /\ None \notin Reqs
  /\ None \notin Forms
  /\ \A f \in Forms : f.ev \in Events
  /\ Caps \subseteq Nat
  /\ ManualNrs \subseteq Nat
  /\ Retries \in Nat

VARIABLES
  rows,       \* committed EventAttendees
  counter,    \* committed Event.attendee_nr_counter of Main
  capacity,   \* committed sign_up_max_participants of each child
  mainLock,   \* the request whose transaction has updated the counter row
  childLock,  \* the request that selected the child FOR UPDATE
  pc, form,   \* per request: the next step, the cleaned form
  attempt,    \* failed runs of _register_event_signup_once
  seenMax,    \* sign_up_max_participants of the request's Event instance
  snapMax,    \* MAX(attendee_nr) in the snapshot of the counter UPDATE
  end,        \* the counter value RETURNING gave
  edit        \* per editor: the Event instance its POST loaded

vars == <<rows, counter, capacity, mainLock, childLock, pc, form, attempt,
          seenMax, snapMax, end, edit>>

\* The only columns of an attendee the signup flow decides by.
Row(r, isAvec, email, nr) ==
  [owner |-> r, avec |-> isAvec, ev |-> form[r].ev, email |-> email, nr |-> nr]

Places(r) == IF form[r].avec = None THEN 1 ELSE 2

\* reserve_attendee_nrs hands out end - 10 * (count - 1) .. end, the guest first.
GuestRow(r) == Row(r, FALSE, form[r].email, end[r] - 10 * (Places(r) - 1))
AvecRow(r)  == Row(r, TRUE, form[r].avec, end[r])

\* Rows the open transaction of r has inserted and not committed.
Pending(r) ==
  CASE pc[r] = "avec" -> {GuestRow(r)}
    [] pc[r] = "commit" ->
         IF form[r].avec = None THEN {GuestRow(r)} ELSE {GuestRow(r), AvecRow(r)}
    [] OTHER -> {}

Count(c) == Cardinality({x \in rows : x.ev = c})

\* Event.get_registrations: a child sees its own signups, Main sees all.
GetRegistrations(e) == IF e = Main THEN rows ELSE {x \in rows : x.ev = e}

\* Mutant: the column original_event has no constraint.
KeyCheckedNever(r) == TRUE

\* The foreign key check at COMMIT: no other request has the child FOR UPDATE.
\* Its own lock on the child lasts no longer than the COMMIT.
KeyChecked(r) == \A c \in Children : form[r].ev = c => childLock[c] \in {None, r}

Writing  == {"insert", "avec", "commit"}
InTx     == {"lock", "capacity", "reserve", "wait"} \cup Writing
Answered == {"done", "full", "duplicate", "busy", "error"}

-----------------------------------------------------------------------------

Init ==
  /\ rows = {}
  /\ counter = 0
  /\ capacity \in [Children -> Caps]
  /\ mainLock = None
  /\ childLock = [c \in Children |-> None]
  /\ pc = [r \in Reqs |-> "idle"]
  /\ form = [r \in Reqs |-> None]
  /\ attempt = [r \in Reqs |-> 0]
  /\ seenMax = [r \in Reqs |-> 0]
  /\ snapMax = [r \in Reqs |-> 0]
  /\ end = [r \in Reqs |-> 0]
  /\ edit = [a \in Editors |-> [at |-> "idle", ev |-> Main, counter |-> 0]]

\* The end of a transaction, whatever its outcome: its row locks go.
ReleaseLocks(r) ==
  /\ mainLock' = IF mainLock = r THEN None ELSE mainLock
  /\ childLock' = [c \in Children |-> IF childLock[c] = r THEN None ELSE childLock[c]]

\* Mutant: locks that outlive a rolled-back transaction.
RollbackKeepsLocks(r, outcome) ==
  /\ pc' = [pc EXCEPT ![r] = outcome]
  /\ UNCHANGED <<rows, counter, capacity, mainLock, childLock, form, seenMax,
                 snapMax, end, edit>>

Rollback(r, outcome) ==
  /\ ReleaseLocks(r)
  /\ pc' = [pc EXCEPT ![r] = outcome]
  /\ UNCHANGED <<rows, counter, capacity, form, seenMax, snapMax, end, edit>>

\* The POST: the form validates each email against committed rows, outside
\* any transaction.
Submit(r) ==
  /\ pc[r] = "idle"
  /\ \E f \in Forms :
       /\ form' = [form EXCEPT ![r] = f]
       /\ pc' = [pc EXCEPT ![r] =
                  IF \E x \in GetRegistrations(f.ev) : x.email \in {f.email, f.avec}
                  THEN "duplicate" ELSE "read"]
  /\ UNCHANGED <<rows, counter, capacity, mainLock, childLock, attempt,
                 seenMax, snapMax, end, edit>>

\* Mutant: the locking is decided by the caller's Event object, which may be
\* older than the limit.
ReadEventStale(r) ==
  /\ pc[r] = "read"
  /\ \E max \in Caps :
       /\ seenMax' = [seenMax EXCEPT ![r] = max]
       /\ pc' = [pc EXCEPT ![r] = IF form[r].ev \in Children /\ max # 0
                                  THEN "lock" ELSE "reserve"]
  /\ UNCHANGED <<rows, counter, capacity, mainLock, childLock, form, attempt,
                 snapMax, end, edit>>

\* The fresh read that decides the locking: only a limited child is locked;
\* for any other event _ensure_capacity returns at once.
ReadEvent(r) ==
  /\ pc[r] = "read"
  /\ LET max == IF form[r].ev \in Children THEN capacity[form[r].ev] ELSE 0 IN
       /\ seenMax' = [seenMax EXCEPT ![r] = max]
       /\ pc' = [pc EXCEPT ![r] = IF max # 0 THEN "lock" ELSE "reserve"]
  /\ UNCHANGED <<rows, counter, capacity, mainLock, childLock, form, attempt,
                 snapMax, end, edit>>

\* select_for_update(of=('self',)): waits for every other lock on the child
\* row and re-reads it.
LockChild(r) ==
  /\ pc[r] = "lock"
  /\ childLock[form[r].ev] = None
  /\ childLock' = [childLock EXCEPT ![form[r].ev] = r]
  /\ seenMax' = [seenMax EXCEPT ![r] = capacity[form[r].ev]]
  /\ pc' = [pc EXCEPT ![r] = "capacity"]
  /\ UNCHANGED <<rows, counter, capacity, mainLock, form, attempt, snapMax, end, edit>>

\* Mutant: a free place is enough for a guest with an avec.
FitsOnePlace(r) == seenMax[r] = 0 \/ Count(form[r].ev) < seenMax[r]

Fits(r) == seenMax[r] = 0 \/ Count(form[r].ev) + Places(r) <= seenMax[r]

EnsureCapacity(r) ==
  /\ pc[r] = "capacity"
  /\ \/ /\ Fits(r)
        /\ pc' = [pc EXCEPT ![r] = "reserve"]
        /\ UNCHANGED <<rows, counter, capacity, mainLock, childLock, form,
                       seenMax, snapMax, end, edit>>
     \/ ~Fits(r) /\ Rollback(r, "full")
  /\ UNCHANGED attempt

\* Mutant: MAX over no rows without COALESCE.
BeginReserveNull(r) ==
  /\ pc[r] = "reserve"
  /\ \E max \in {x.nr : x \in rows} \cup {None} :
       /\ max = None <=> rows = {}
       /\ \A x \in rows : x.nr <= max
       /\ snapMax' = [snapMax EXCEPT ![r] = max]
  /\ pc' = [pc EXCEPT ![r] = "wait"]
  /\ UNCHANGED <<rows, counter, capacity, mainLock, childLock, form, attempt,
                 seenMax, end, edit>>

\* The counter UPDATE starts: its subquery's snapshot is taken here, before
\* any wait for the row lock.
BeginReserve(r) ==
  /\ pc[r] = "reserve"
  /\ \E max \in {x.nr : x \in rows} \cup {0} :
       /\ \A x \in rows : x.nr <= max
       /\ snapMax' = [snapMax EXCEPT ![r] = max]
  /\ pc' = [pc EXCEPT ![r] = "wait"]
  /\ UNCHANGED <<rows, counter, capacity, mainLock, childLock, form, attempt,
                 seenMax, end, edit>>

\* Mutant: numbers are read and advanced without the row lock.
ReserveUnlocked(r) ==
  /\ pc[r] = "wait"
  /\ mainLock' = r
  /\ LET base == IF counter >= snapMax[r] THEN counter ELSE snapMax[r] IN
       end' = [end EXCEPT ![r] = (base \div 10) * 10 + 10 * Places(r)]
  /\ pc' = [pc EXCEPT ![r] = "insert"]
  /\ UNCHANGED <<rows, counter, capacity, childLock, form, attempt, seenMax,
                 snapMax, edit>>

\* Mutant: the counter is advanced in a transaction of its own.
ReserveAutocommit(r) ==
  /\ pc[r] = "wait"
  /\ LET base == IF counter >= snapMax[r] THEN counter ELSE snapMax[r]
         new == (base \div 10) * 10 + 10 * Places(r)
     IN /\ end' = [end EXCEPT ![r] = new]
        /\ counter' = new
  /\ pc' = [pc EXCEPT ![r] = "insert"]
  /\ UNCHANGED <<rows, mainLock, capacity, childLock, form, attempt, seenMax,
                 snapMax, edit>>

\* The row lock is granted: the counter is re-read, the snapshot is not.
Reserve(r) ==
  /\ pc[r] = "wait"
  /\ mainLock = None
  /\ mainLock' = r
  /\ LET base == IF counter >= snapMax[r] THEN counter ELSE snapMax[r] IN
       end' = [end EXCEPT ![r] = (base \div 10) * 10 + 10 * Places(r)]
  /\ pc' = [pc EXCEPT ![r] = "insert"]
  /\ UNCHANGED <<rows, counter, capacity, childLock, form, attempt, seenMax,
                 snapMax, edit>>

\* A collision on (event, attendee_nr) rolls everything back, the counter
\* too, and runs the transaction again until the attempts are used up.
Collide(r) ==
  /\ attempt' = [attempt EXCEPT ![r] = @ + 1]
  /\ Rollback(r, IF attempt[r] < Retries THEN "read" ELSE "busy")

\* Mutant: emails are unique per child, not per storage event.
InsertRowPerChild(r, row, next) ==
  LET visible == rows \cup Pending(r)
      sameNr == \E x \in visible : x.nr = row.nr
      sameEmail == \E x \in visible : x.email = row.email /\ x.ev = row.ev
  IN \/ /\ ~sameNr /\ ~sameEmail
        /\ pc' = [pc EXCEPT ![r] = next]
        /\ UNCHANGED <<rows, counter, capacity, mainLock, childLock, form,
                       attempt, seenMax, snapMax, end, edit>>
     \/ sameEmail /\ Rollback(r, "duplicate") /\ UNCHANGED attempt
     \/ sameNr /\ Collide(r)

\* One INSERT.  Other transactions hold no uncommitted row here (they would
\* hold the counter row), so the unique indexes see rows and Pending(r).
InsertRow(r, row, next) ==
  LET visible == rows \cup Pending(r)
      sameNr == \E x \in visible : x.nr = row.nr
      sameEmail == \E x \in visible : x.email = row.email
  IN \/ /\ ~sameNr /\ ~sameEmail
        /\ pc' = [pc EXCEPT ![r] = next]
        /\ UNCHANGED <<rows, counter, capacity, mainLock, childLock, form,
                       attempt, seenMax, snapMax, end, edit>>
     \/ sameEmail /\ Rollback(r, "duplicate") /\ UNCHANGED attempt
     \/ sameNr /\ Collide(r)

\* Mutant: the guest is committed before the avec is tried.
InsertGuestAutocommit(r) ==
  /\ pc[r] = "insert"
  /\ pc' = [pc EXCEPT ![r] = IF form[r].avec = None THEN "commit" ELSE "avec"]
  /\ rows' = rows \cup {GuestRow(r)}
  /\ UNCHANGED <<counter, capacity, mainLock, childLock, form, attempt,
                 seenMax, snapMax, end, edit>>

InsertGuest(r) ==
  /\ pc[r] = "insert"
  /\ InsertRow(r, GuestRow(r), IF form[r].avec = None THEN "commit" ELSE "avec")

InsertAvec(r) ==
  /\ pc[r] = "avec"
  /\ InsertRow(r, AvecRow(r), "commit")

Commit(r) ==
  /\ pc[r] = "commit"
  /\ KeyChecked(r)
  /\ rows' = rows \cup Pending(r)
  /\ counter' = end[r]
  /\ ReleaseLocks(r)
  /\ pc' = [pc EXCEPT ![r] = "done"]
  /\ UNCHANGED <<capacity, form, attempt, seenMax, snapMax, end, edit>>

\* Transactions r waits for.  Who waits for a child to lock it holds nothing
\* that anyone waits for, so a cycle is one of two: a request that has the child
\* waits for the counter of one that waits for the child at COMMIT.
WaitsFor(r) ==
  CASE pc[r] = "lock" -> {childLock[form[r].ev]} \ {None}
    [] pc[r] = "wait" -> {mainLock} \ {None}
    [] pc[r] = "commit" -> {childLock[c] : c \in Children \cap {form[r].ev}} \ {None, r}
    [] OTHER -> {}

Deadlocked(r) == \E q \in WaitsFor(r) : r \in WaitsFor(q)

\* PostgreSQL aborts one transaction of a wait cycle; nothing catches the
\* OperationalError.
AbortDeadlock(r) ==
  /\ Deadlocked(r)
  /\ Rollback(r, "error")
  /\ UNCHANGED attempt

\* The worker or its connection dies inside the transaction.
Crash(r) ==
  /\ pc[r] \in {"read"} \cup InTx
  /\ Rollback(r, "error")
  /\ UNCHANGED attempt

-----------------------------------------------------------------------------
(* Admin writes that meet signups. *)

\* EventAdmin's POST loads the instance, whose every column it saves later.
LoadEvent(a) ==
  /\ edit[a].at = "idle"
  /\ \E e \in Events :
       edit' = [edit EXCEPT ![a] = [at |-> "open", ev |-> e, counter |-> counter]]
  /\ UNCHANGED <<rows, counter, capacity, mainLock, childLock, pc, form,
                 attempt, seenMax, snapMax, end>>

\* Event.save() without update_fields: one UPDATE of the whole row, the
\* counter the instance was loaded with included.
SaveEvent(a) ==
  /\ edit[a].at = "open"
  /\ \/ /\ edit[a].ev = Main
        /\ mainLock = None
        /\ counter' = edit[a].counter
        /\ UNCHANGED capacity
     \/ /\ edit[a].ev \in Children
        /\ childLock[edit[a].ev] = None
        /\ \E max \in Caps : capacity' = [capacity EXCEPT ![edit[a].ev] = max]
        /\ UNCHANGED counter
  /\ edit' = [edit EXCEPT ![a].at = "saved"]
  /\ UNCHANGED <<rows, mainLock, childLock, pc, form, attempt, seenMax,
                 snapMax, end>>

\* delete_participants, an inline deletion, EventAttendeesAdmin.
DeleteAttendee(x) ==
  /\ rows' = rows \ {x}
  /\ UNCHANGED <<counter, capacity, mainLock, childLock, pc, form, attempt,
                 seenMax, snapMax, end, edit>>

\* A number typed into an attendee row.  The unique index makes the write
\* wait for an uncommitted row with that number, and refuses a committed one.
RenumberAttendee(x, nr) ==
  /\ \A y \in rows \cup UNION {Pending(r) : r \in Reqs} : y.nr # nr
  /\ rows' = (rows \ {x}) \cup {[x EXCEPT !.nr = nr]}
  /\ UNCHANGED <<counter, capacity, mainLock, childLock, pc, form, attempt,
                 seenMax, snapMax, end, edit>>

-----------------------------------------------------------------------------

\* The steps a worker takes by itself once the request has been submitted.
Step(r) ==
  \/ ReadEvent(r) \/ LockChild(r) \/ EnsureCapacity(r)
  \/ BeginReserve(r) \/ Reserve(r)
  \/ InsertGuest(r) \/ InsertAvec(r) \/ Commit(r)

Admin ==
  \/ \E a \in Editors : LoadEvent(a) \/ SaveEvent(a)
  \/ \E x \in rows : DeleteAttendee(x)
  \/ \E x \in rows, nr \in ManualNrs : RenumberAttendee(x, nr)

Next ==
  \/ \E r \in Reqs : Submit(r) \/ Step(r) \/ AbortDeadlock(r) \/ Crash(r)
  \/ Admin

Spec == Init /\ [][Next]_vars

\* A worker that is running goes on, and PostgreSQL breaks wait cycles
\* (deadlock_timeout).  Nothing makes a user submit or an admin save.
FairSpec ==
  /\ Spec
  /\ \A r \in Reqs : WF_vars(Step(r)) /\ WF_vars(AbortDeadlock(r))

-----------------------------------------------------------------------------
(* Properties. *)

\* Every variable keeps its shape, and a lock is held by a request or nobody.
TypeOK ==
  /\ rows \subseteq [owner : Reqs, avec : BOOLEAN, ev : Events,
                     email : UNION {{f.email, f.avec} : f \in Forms}, nr : Nat]
  /\ counter \in Nat
  /\ capacity \in [Children -> Nat]
  /\ mainLock \in Reqs \cup {None}
  /\ childLock \in [Children -> Reqs \cup {None}]
  /\ pc \in [Reqs -> {"idle", "read"} \cup InTx \cup Answered]
  /\ form \in [Reqs -> Forms \cup {None}]
  /\ \A r \in Reqs : form[r] = None => pc[r] = "idle"
  /\ attempt \in [Reqs -> 0 .. Retries + 1]
  /\ seenMax \in [Reqs -> Nat]
  /\ snapMax \in [Reqs -> Nat]
  /\ end \in [Reqs -> Nat]
  /\ edit \in [Editors -> [at : {"idle", "open", "saved"}, ev : Events, counter : Nat]]

\* The request's transaction commits in this step.
Commits(r) == pc[r] = "commit" /\ pc'[r] = "done"

\* A signup that took the row lock of a limited child never takes the child
\* over the limit in force when it commits (_ensure_capacity), whatever other
\* signups, deletions and limit edits run beside it: also not beside a signup
\* that read the child while it was unlimited and so holds no row lock.
LockedSignupFits ==
  [][\A r \in Reqs : \A c \in Children :
       Commits(r) /\ childLock[c] = r /\ capacity[c] # 0
         => Cardinality({x \in rows' : x.ev = c}) <= capacity[c]]_vars

\* Only a signup that read the child as unlimited may leave it over its limit:
\* the "residual race" the comment after the transaction accepts, and no other.
OverbookedOnlyByRace ==
  [][\A c \in Children :
       Cardinality({x \in rows' : x.ev = c}) > Count(c)
         => \/ capacity[c] = 0
            \/ Cardinality({x \in rows' : x.ev = c}) <= capacity[c]
            \/ \E r \in Reqs : Commits(r) /\ form[r].ev = c /\ seenMax[r] = 0]_vars

\* A guest and the avec signed up with them appear together, with adjacent
\* numbers, or not at all: no collision, duplicate, full event or crash between
\* the two INSERTs leaves a half-registered pair.
PairsTogether ==
  [][\A r \in Reqs :
       LET before == {x \in rows : x.owner = r}
           after  == {x \in rows' : x.owner = r}
       IN ~(after \subseteq before) /\ Cardinality(after) > Cardinality(before) =>
            /\ Cardinality(after) = Places(r)
            /\ \A x, y \in after : x.avec /\ ~y.avec => x.nr = y.nr + 10]_vars

\* No change form of an event has been saved yet.
Unedited == \A a \in Editors : edit[a].at # "saved"

\* The attendee list is ordered by number: until a change form is saved, and
\* where nobody types numbers (ManualNrs = {}), a committed signup's numbers lie
\* above every number already there, so it never overtakes an earlier signup,
\* also beside deletions.
\* (reserve_attendee_nrs: the greater of the counter and the maximum.)
NumbersFollowCommits ==
  [][\A r \in Reqs : Unedited /\ Commits(r) =>
       \A x \in rows, y \in rows' \ rows : x.nr < y.nr]_vars

\* Until a change form is saved, and where nobody types numbers, no signup
\* collides on one, so none runs its transaction twice: the counter, not the
\* unique index, keeps numbers apart.  NeverRetries below, without the condition,
\* is what the documentation says.
RetriesOnlyAfterEdit == Unedited => \A r \in Reqs : attempt[r] = 0

\* No request runs its transaction twice (docs/dev/events.md: the counter
\* update serializes signups "without [...] retrying the complete signup
\* transaction").
NeverRetries == \A r \in Reqs : attempt[r] = 0

\* No two signup transactions wait for each other while no child can go from
\* unlimited to limited during registration: then whoever inserts for a limited
\* child has its row lock, and nobody waits for it at COMMIT.
NoWaitCycle == Unedited \/ 0 \notin Caps => \A r \in Reqs : ~Deadlocked(r)

\* The child a request holds to be unlimited, and the answer it has given.
lenient ==
  [r \in Reqs |->
     IF pc[r] \in InTx \ {"lock"} /\ form[r].ev \in Children /\ seenMax[r] = 0
     THEN form[r].ev ELSE None]

answer ==
  [r \in Reqs |-> CASE pc[r] = "done" -> "accepted"
                    [] pc[r] \in Answered \ {"done"} -> "refused"
                    [] OTHER -> "none"]

Ledger == INSTANCE SignupLedger

\* The transaction with its locks, retries and roll-backs implements the
\* ledger: one answer per request, parties entered whole, emails and numbers
\* unique, limits kept except by a request that saw the child unlimited.
ImplementsLedger == Ledger!Spec

\* A submitted request gets an answer: no chain of row locks, wait cycles and
\* collisions holds it for ever.
EveryRequestAnswered == \A r \in Reqs : pc[r] = "read" ~> pc[r] \in Answered

-----------------------------------------------------------------------------
(* The inductive strengthening of TypeOK and LockedSignupFits.  Its parts:  *)
(*   who writes attendees holds the counter row;                            *)
(*   who holds a child row targets that child, is past the lock, and has    *)
(*     the limit in force in its hands;                                     *)
(*   past the check, the places asked for are still free.                   *)

CounterRowHeld == \A r \in Reqs : mainLock = r <=> pc[r] \in Writing

ChildRowHeld ==
  \A r \in Reqs :
    /\ pc[r] \in {"lock", "capacity"} => form[r].ev \in Children
    /\ pc[r] = "capacity" => childLock[form[r].ev] = r
    /\ \A c \in Children : childLock[c] = r =>
         /\ pc[r] \in InTx \ {"lock"}
         /\ form[r].ev = c
         /\ seenMax[r] = capacity[c]

PlacesKept ==
  \A r \in Reqs, c \in Children :
    childLock[c] = r /\ pc[r] # "capacity" /\ seenMax[r] # 0
      => Count(c) + Places(r) <= seenMax[r]

Bounded ==
  \A r \in Reqs :
    /\ pc[r] \notin Answered => attempt[r] <= Retries
    /\ pc[r] \in Writing => end[r] >= 10 * Places(r)

SignupInv ==
  /\ TypeOK
  /\ IsFiniteSet(rows)
  /\ CounterRowHeld
  /\ ChildRowHeld
  /\ PlacesKept
  /\ Bounded

=============================================================================
