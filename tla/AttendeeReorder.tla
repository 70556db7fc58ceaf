--------------------------- MODULE AttendeeReorder ---------------------------
(***************************************************************************)
(* The drag reorder of an event's attendees: the inline formset of the     *)
(* event's admin page, beside signups and deletions.                       *)
(*                                                                         *)
(* The page is rendered, dragged and posted.  The POST loads the event and *)
(* the rows of the form, and then writes in one transaction: the event     *)
(* with every column, whose row lock also makes signups wait, and the      *)
(* attendees one by one.  Each UPDATE must respect the unique index on the *)
(* number, so the rows of the form are first moved to a band of numbers    *)
(* nobody uses, and those that need no save are put back last.             *)
(* PostgreSQL, READ COMMITTED.                                             *)
(*                                                                         *)
(* A deletion takes no lock of the event: it waits only for the rows the   *)
(* transaction has written, so one of its other rows may go at any moment. *)
(*                                                                         *)
(* A signup is its number and its row; module EventSignup has the rest of  *)
(* it.  Left out: rows added on the page, numbers typed by hand, avecs,    *)
(* and a save that leaves the attendees as they are.                       *)
(***************************************************************************)
EXTENDS Integers, FiniteSets, Sequences, FiniteSetsExt, Functions

CONSTANTS
  Registered, \* attendees there before
  Start,      \* their numbers
  Signups,    \* attendees to come
  Editors,
  None

Attendees == Registered \cup Signups

ASSUME ReorderAssumption ==
  /\ Start \in [Registered -> Nat \ {0}]
  /\ IsInjective(Start)
  /\ Registered \cap Signups = {} /\ None \notin Signups \cup Editors
  /\ Editors \cap Signups = {}
  /\ IsFiniteSet(Attendees)

VARIABLES
  nr,      \* attendee_nr of the committed rows, 0 where there is none
  counter, \* Event.attendee_nr_counter
  holder,  \* who holds the row lock of the event
  signup,  \* per signup: its step, the maximum its UPDATE saw, its number
  form,    \* per editor: the page and its transaction, see Blank
  met,     \* editors another one committed beside, between POST and lock (history)
  lost     \* per editor: attendees deleted between POST and commit (history)

history == <<met, lost>>
vars    == <<nr, counter, holder, signup, form, history>>

Nothing == [i \in Attendees |-> 0]

\* at: the step; shown: the numbers on the page; posted: those it sent for the
\* rows still there; dropped, edited: rows ticked for deletion, rows changed
\* otherwise; loaded, counter: read by the POST; moved: some number differs from
\* the one it read; listed: the rows a reorder shifts, with their numbers;
\* taken, numbers: what its saves may not have, and what they get; locked, work:
\* the rows the transaction has written, and how; todo: the statements to come.
Blank ==
  [at |-> "idle", shown |-> Nothing, posted |-> Nothing, dropped |-> {}, edited |-> {},
   loaded |-> Nothing, counter |-> 0, moved |-> FALSE, listed |-> Nothing, taken |-> {},
   numbers |-> Nothing, locked |-> {}, work |-> Nothing, todo |-> <<>>]

Init ==
  /\ nr = [i \in Attendees |-> IF i \in Registered THEN Start[i] ELSE 0]
  /\ counter = 0 /\ holder = None
  /\ signup = [s \in Signups |-> [at |-> "new", seen |-> 0, nr |-> 0]]
  /\ form = [e \in Editors |-> Blank]
  /\ met = {} /\ lost = [e \in Editors |-> {}]

Present(numbers) == {i \in Attendees : numbers[i] > 0}

\* The aggregate Max, or 0.
Highest(numbers) == Max({numbers[i] : i \in Attendees} \cup {0})

\* The number the counter's UPDATE returns.
NextNr(count, seen) == (Max({count, seen}) \div 10) * 10 + 10
-----------------------------------------------------------------------------
(* Signups and deletions.                                                  *)

\* The UPDATE of the counter starts: its subquery reads the maximum.
AskNr(s) ==
  /\ signup[s].at = "new"
  /\ signup' = [signup EXCEPT ![s].at = "waiting", ![s].seen = Highest(nr)]
  /\ UNCHANGED <<nr, counter, holder, form, history>>

\* It is granted the row.
Reserve(s) ==
  /\ signup[s].at = "waiting" /\ holder = None
  /\ holder' = s
  /\ signup' = [signup EXCEPT ![s].at = "inserting", ![s].nr = NextNr(counter, signup[s].seen)]
  /\ UNCHANGED <<nr, counter, form, history>>

\* The row is inserted and committed; a collision starts the signup over.
Insert(s) ==
  LET free == \A i \in Attendees : nr[i] # signup[s].nr IN
  /\ signup[s].at = "inserting"
  /\ nr' = IF free THEN [nr EXCEPT ![s] = signup[s].nr] ELSE nr
  /\ counter' = IF free THEN signup[s].nr ELSE counter
  /\ signup' = [signup EXCEPT ![s] = [at |-> IF free THEN "done" ELSE "new", seen |-> 0, nr |-> 0]]
  /\ holder' = None
  /\ UNCHANGED <<form, history>>

\* Between the POST's reads and the lock of the event.
Waiting == {e \in Editors : form[e].at = "posted"}

\* With the lock of the event: the rows are read, shifted, renumbered, saved.
Saving == {"listed", "shifting", "numbering", "saving"}

\* The rows of the form that the POST found.
Rows(e) == Present(form[e].posted)

Overtaken(gone) ==
  [e \in Editors |-> IF form[e].at \in Saving \cup {"posted"} THEN lost[e] \cup gone ELSE lost[e]]

\* delete_participants, which takes no lock of the event; a row that a
\* transaction has written is locked.
Delete(i) ==
  /\ nr[i] > 0
  /\ \A e \in Editors : i \notin form[e].locked
  /\ nr' = [nr EXCEPT ![i] = 0]
  /\ lost' = Overtaken({i})
  /\ UNCHANGED <<counter, holder, signup, form, met>>
-----------------------------------------------------------------------------
(* The page.                                                               *)

Open(e) ==
  /\ form[e].at = "idle"
  /\ form' = [form EXCEPT ![e].at = "open", ![e].shown = nr]
  /\ UNCHANGED <<nr, counter, holder, signup, history>>

\* What can be sent for these rows: their numbers as shown, or 10, 20, ... in
\* the order they were dragged to.
Orders(shown) ==
  LET rows  == Present(shown)
      drags == Bijection(rows, {10 * k : k \in 1..Cardinality(rows)})
  IN  {shown} \cup {[i \in Attendees |-> IF i \in rows THEN d[i] ELSE 0] : d \in drags}

Only(numbers, rows) == [i \in Attendees |-> IF i \in rows THEN numbers[i] ELSE 0]

\* Mutant: the POST takes the rows it was sent for those there are.
LoadedFromPage(shown) == shown

\* The rows of the page, as the POST finds them.
Loaded(shown) == Only(nr, Present(shown))

\* The POST: at most one row is dropped or edited besides the drag.  A form whose
\* row is gone does not validate, unless it is to be deleted.
Post(e) ==
  /\ form[e].at = "open"
  /\ \E sent \in Orders(form[e].shown), drop \in BOOLEAN, marked \in SUBSET Present(form[e].shown) :
       LET loaded  == Loaded(form[e].shown)
           dropped == IF drop THEN marked ELSE {}
       IN  /\ Cardinality(marked) <= 1
           /\ form' = [form EXCEPT ![e] =
                IF Present(form[e].shown) \ dropped \subseteq Present(loaded)
                THEN [Blank EXCEPT !.at = "posted", !.shown = form[e].shown,
                        !.posted = Only(sent, Present(loaded)), !.numbers = Only(sent, Present(loaded)),
                        !.dropped = dropped \cap Present(loaded), !.edited = marked \ dropped,
                        !.loaded = loaded, !.moved = sent # loaded, !.counter = counter]
                ELSE [Blank EXCEPT !.at = "refused"]]
  /\ UNCHANGED <<nr, counter, holder, signup, history>>

\* _form_will_save: has_changed, and not to be deleted.
WillSave(f) ==
  {i \in Present(f.posted) : f.posted[i] # f.loaded[i] \/ i \in f.edited} \ f.dropped

\* _band_base: above what there is and what is submitted, and ending in 5.
BandBase(f) ==
  LET ceiling == Max({Highest(nr)} \cup {f.posted[i] : i \in WillSave(f)})
      base    == ceiling - (ceiling % 10) + 5
  IN  IF base > ceiling THEN base ELSE base + 10

\* The rows, whose numbers are distinct, in the order of these.
Sorted(rows, numbers) ==
  [k \in 1..Cardinality(rows) |->
     CHOOSE i \in rows : Cardinality({j \in rows : numbers[j] < numbers[i]}) = k - 1]

\* The statements of put on these rows, in the order of the key.
Each(rows, key, put, numbers) ==
  LET row == Sorted(rows, key)
  IN  [k \in DOMAIN row |-> [row |-> row[k], put |-> put, nr |-> numbers[row[k]]]]

\* The transaction's view: the rows it wrote, and what is committed of the others.
View(f) == [i \in Attendees |-> IF i \in f.locked THEN f.work[i] ELSE nr[i]]

\* Mutant: signups since the page was rendered are forgotten.
TakenOnForm(f) == {f.posted[i] : i \in Present(f.posted) \ (WillSave(f) \cup f.dropped)}

\* Numbers a row that is saved cannot have: those of rows outside the form, and
\* of its rows that are neither saved nor deleted.
Taken(f) ==
  {nr[i] : i \in Present(nr) \ Present(f.posted)} \cup
  {f.posted[i] : i \in Present(f.posted) \ (WillSave(f) \cup f.dropped)}

\* _reserve_free_attendee_nr: of the numbers the counter gives from first on,
\* the first that is not taken.
FreeNr(first, taken) == Min({first + 10 * m : m \in 0..Cardinality(taken)} \ taken)

\* super().save(): the saved and the deleted rows, in the order of the page.
Saves(f) ==
  LET row == Sorted(WillSave(f) \cup f.dropped, f.shown)
  IN  [k \in DOMAIN row |->
         IF row[k] \in f.dropped THEN [row |-> row[k], put |-> "delete", nr |-> 0]
                                 ELSE [row |-> row[k], put |-> "save", nr |-> f.numbers[row[k]]]]

\* Mutant: the rows of the form are left to the formset.
RestoresNone(f) == <<>>

\* _restore_unchanged_attendee_nrs: the shifted rows that were not saved.
Restores(f) == Each(Present(f.listed) \ WillSave(f), f.listed, "restore", f.listed)

\* save_model writes the event, which takes its row lock; a reorder then reads
\* the rows of the form.
SaveEvent(e) ==
  /\ form[e].at = "posted" /\ holder = None
  /\ holder' = e
  /\ form' = [form EXCEPT ![e] =
       IF form[e].moved THEN [form[e] EXCEPT !.at = "listed", !.listed = Only(nr, Rows(e))]
                        ELSE [form[e] EXCEPT !.at = "saving", !.todo = Saves(form[e])]]
  /\ UNCHANGED <<nr, counter, signup, history>>

\* _shift_attendee_nrs: the rows go to the band, in the order of their numbers.
Shift(e) ==
  LET f    == form[e]
      rows == Present(f.listed)
      band == [i \in rows |-> BandBase(f) + 10 * Cardinality({j \in rows : f.listed[j] < f.listed[i]})]
  IN  /\ f.at = "listed"
      /\ form' = [form EXCEPT ![e].at = "shifting", ![e].todo = Each(rows, f.listed, "shift", band)]
      /\ UNCHANGED <<nr, counter, holder, signup, history>>

\* _resolve_attendee_nr_conflicts reads the numbers outside the form.
ReadTaken(e) ==
  LET f == form[e] IN
  /\ f.at = "shifting" /\ f.todo = <<>>
  /\ form' = [form EXCEPT ![e].at = "numbering", ![e].taken = Taken(f),
                          ![e].todo = Each(WillSave(f), f.shown, "number", f.posted)]
  /\ UNCHANGED <<nr, counter, holder, signup, history>>

\* A row whose number is taken gets a fresh one from the counter.
Number(e) ==
  LET f == form[e]
      w == Head(f.todo)
      clash == w.nr \in f.taken
      fresh == FreeNr(NextNr(f.counter, Highest(View(f))), f.taken)
      n == IF clash THEN fresh ELSE w.nr
  IN  /\ f.at = "numbering" /\ f.todo # <<>>
      /\ form' = [form EXCEPT ![e].numbers[w.row] = n, ![e].taken = @ \cup {n},
                              ![e].counter = IF clash THEN n ELSE @, ![e].todo = Tail(@)]
      /\ UNCHANGED <<nr, counter, holder, signup, history>>

\* The numbers are set: super().save(), then the restoring.
Resolve(e) ==
  LET f == form[e] IN
  /\ f.at = "numbering" /\ f.todo = <<>>
  /\ form' = [form EXCEPT ![e].at = "saving", ![e].todo = Saves(f) \o Restores(f)]
  /\ UNCHANGED <<nr, counter, holder, signup, history>>

\* One UPDATE or DELETE, which locks the row.  Of a row that is gone only the
\* save does something: Django inserts what its UPDATE does not find.  A
\* collision rolls all of it back.
WriteRow(e) ==
  LET f == form[e]
      w == Head(f.todo)
      gone  == w.put # "save" /\ View(f)[w.row] = 0
      clash == w.nr > 0 /\ ~gone /\ \E i \in Attendees \ {w.row} : View(f)[i] = w.nr
  IN  /\ f.at \in {"shifting", "saving"} /\ f.todo # <<>>
      /\ form' = [form EXCEPT ![e] =
           IF clash THEN [Blank EXCEPT !.at = "failed", !.posted = f.posted]
           ELSE IF gone THEN [f EXCEPT !.todo = Tail(@)]
           ELSE [f EXCEPT !.work[w.row] = w.nr, !.locked = @ \cup {w.row}, !.todo = Tail(@)]]
      /\ holder' = IF clash THEN None ELSE holder
      /\ UNCHANGED <<nr, counter, signup, history>>

Commit(e) ==
  /\ form[e].at = "saving" /\ form[e].todo = <<>>
  /\ nr' = View(form[e])
  /\ counter' = form[e].counter
  /\ form' = [form EXCEPT ![e] = [Blank EXCEPT !.at = "saved"]]
  /\ holder' = None
  /\ met' = met \cup Waiting
  /\ lost' = Overtaken(Present(nr) \ Present(nr'))
  /\ UNCHANGED signup

Next ==
  \/ \E s \in Signups : AskNr(s) \/ Reserve(s) \/ Insert(s)
  \/ \E i \in Attendees : Delete(i)
  \/ \E e \in Editors : Open(e) \/ Post(e) \/ SaveEvent(e) \/ Shift(e) \/ ReadTaken(e)
                        \/ Number(e) \/ Resolve(e) \/ WriteRow(e) \/ Commit(e)

Spec == Init /\ [][Next]_vars
-----------------------------------------------------------------------------
Commits(e) == form[e].at = "saving" /\ form'[e].at = "saved"

\* A save that met no other one is a simultaneous assignment: every row of the
\* page ends with the number it was dragged to, except one whose number a row
\* the page did not show has (or had, deleted while the save ran), which goes
\* last; the rows outside the page keep theirs ("they keep the number the signup
\* flow allocated and showed", docs/dev/events.md).
ReorderIsAssignment ==
  [][\A e \in Editors \ met : Commits(e) =>
       LET f == form[e] IN
       /\ \A i \in Attendees \ Rows(e) : nr'[i] = nr[i]
       /\ \A i \in f.dropped : nr'[i] = 0
       /\ \A i \in Rows(e) \ (f.dropped \cup lost[e]) :
            \/ nr'[i] = f.posted[i]
            \/ /\ \E j \in Attendees \ Rows(e) : nr[j] = f.posted[i] \/ j \in lost[e]
               /\ \A j \in Attendees : nr'[j] = f.posted[j] \/ j \notin Rows(e) => nr'[j] < nr'[i]]_vars

\* Signups alone never make a save fail ("an admin saving during a signup rush
\* cannot 500", docs/dev/events.md): one that fails on the unique index was
\* overtaken, between its reads and its lock, by another save of the page or by
\* the deletion of one of its rows, whose number a signup may then have.
FailsOnlyByOverlap ==
  \A e \in Editors : form[e].at = "failed" => e \in met \/ lost[e] \cap Rows(e) # {}

\* A deleted attendee comes back only by a reorder that changes the row, and whose
\* POST had read it before it was deleted: the save inserts what its UPDATE does
\* not find.  One that is shifted, restored or dropped stays gone.
ReturnsOnlyByOverlap ==
  [][\A i \in Attendees : nr[i] = 0 /\ nr'[i] > 0 =>
       \/ i \in Signups /\ signup[i].at = "inserting"
       \/ \E e \in Editors : Commits(e) /\ i \in lost[e] \cap WillSave(form[e])]_vars
=============================================================================
