# A TLA+ model of the DaTe web site

The repository is a Django site for a student association: events with
registration, room booking, attendance lists, polls, billing, an alumni
register and a number of content pages. This directory holds TLA+ modules for
the parts of it where several requests meet in the database, the TLC
configurations that check them on small instances, and proofs, checked by
TLAPS, that the most important properties hold for instances of every size.

The site runs several ASGI/WSGI workers and a Celery worker over one
PostgreSQL database. What the code relies on, and the modules therefore assume:

- PostgreSQL at its default isolation level, READ COMMITTED: a statement sees
  what is committed when it starts; a statement that waited for a row lock
  re-reads that row and no other; row locks last until the transaction ends.
- `ATOMIC_REQUESTS` is not set. A view is a sequence of transactions, one per
  statement, except inside `transaction.atomic()`; Django's admin wraps its add,
  change and delete views in one.
- A worker may be lost at any point; PostgreSQL then rolls its transaction back.
- Celery runs over Redis with `acks_late` and `reject_on_worker_lost`: a task
  is delivered at least once. The Channels layer delivers at most once.

Contents: [1 inventory](#1-inventory), [2 modules](#2-the-modules-and-the-code),
[3 runs](#3-the-runs), [4 fairness](#4-fairness), [5 proofs](#5-the-proofs),
[6 findings](#6-findings), [7 limits](#7-what-is-not-modelled),
[8 plan](#8-plan).

To check: `tlc -config EventSignupLive.cfg MCEventSignup` for a run (section 3
names module and configuration), `tlapm EventSignupProofs.tla` for the proofs.

## 1. Inventory

For each part: the state it keeps, its operations, whom it meets, what is hard
about it, and what makes it correct. Paths are relative to `src/`.

**Event signup** (`events/registration.py`, `events/models.py`,
`events/views.py`) - *modelled (partly)*.
State: `EventAttendees` rows, all stored under the parent or standalone
("storage") event with the child in `original_event`; `attendee_nr_counter` of
the storage event; `sign_up_max_participants` of a child. Operations: one
transaction per POST that reads the event afresh, locks a limited child,
counts, reserves one or two numbers with `UPDATE ... RETURNING`, inserts the
guest and the avec, and is retried after a number collision. Meets: other
signups, the event admin, billing and the live list (after the commit). Hard:
the lock is only taken if the fresh read found a limit; the `UPDATE`'s
subquery and the row it locks are of different moments; several row locks; roll-backs
between the two INSERTs. Correct when: limits hold except for the race the code
accepts, pairs are whole, numbers follow commit order, emails and numbers are
unique, and every request is answered.

**Event administration** (`events/admin.py`, `events/forms.py`) - *modelled
(partly)*. State: the same rows, read when the page is opened and written when
it is saved. Operations: save of an event row with every column, deletion and
renumbering of attendees, the drag reorder of the inline. Hard: lost updates of
the counter; the reorder renumbers row by row under a unique index, from a page
that may be old, beside signups, deletions and another editor. Correct when a
save is one assignment of numbers, and never leaves a row in its temporary band.

**Event live list and API** (`events/websocket_utils.py`, `events/consumers.py`,
`events/api.py`, `events/feed.py`, ...) - *not modelled*. No state; a
best-effort broadcast of the public columns, read-only feeds.

**Room booking** (`booking/views.py`, `booking/models.py`, `booking/forms.py`)
- *modelled (partly)*. State: `Room` and `Booking` rows. Operations: create,
edit (owner or code), cancel (owner or code). Hard: no database constraint
refuses an overlap, so `Booking.clean` must run under the lock of the room;
an edit has to find out the room before it can lock it, re-check room and owner
under the lock, and start over once. Correct when: no overlap, no cancelled
booking comes back, nobody edits somebody else's booking, no lost update, no
wait cycle but those section 6 names, every request answered.

**Booking administration** (`booking/admin.py`) - *modelled (partly)*.
Operations: the booking page (moves between rooms, new author), the room page
with its inline bookings, deletion of a room, closures, settings, code
rotation. Hard: two rooms to lock in the order of names that a page may change; sibling rows that overlap
only each other; rows cancelled while the page was open; the cascade of a
room's deletion.

**Booking access codes** (`booking/access.py`) - *modelled (partly)*. State: a
generation and the moment of its rotation per room; unlock tokens, attempts and
lockouts per room in the visitor's session. Operations: rotation, the gate, a
booking without an account. Hard: rotation against requests that have read the
room; a session is read whole and written back whole, so overlapping requests of
one browser overwrite each other. Correct when every unlock was earned by a code
that opened its generation, a rotation ends exactly the unlocks of its room, and
a lockout and its attempts come and go together.

**Booking mail and calendar invite** (`booking/emails.py`, `booking/ics.py`) -
*not modelled*: formatting.

**Attendance check-in** (`attendance/views.py`, `attendance/models.py`,
`attendance/limits.py`, the corrections in `attendance/admin.py`) - *modelled
(partly)*. State: a log of arrivals and departures per person and meeting.
Operations: check-in and check-out; adding, editing and deleting rows in the
admin. Hard: presence is read and the change written without a transaction; the
timestamp is taken before the primary key; three readings of the log. Correct
when the readings agree, presence follows the last change, and repeated changes
need overlapping requests.

**Attendance live overview** (`attendance/consumers.py`,
`attendance/websocket.py`, `static/common/attendance/js/overview.js`) -
*modelled (partly)*. State: the page's rows, each with a version; the channel
group. Operations: load, connect, snapshot, change, invalidation, reconnect.
Hard: page, snapshot and broadcasts in every order, lost broadcasts, broken
connections, corrections. Correct when a connected page that receives everything
ends at what the log says.

**Polls** (`polls/vote.py`, `polls/models.py`, `polls/views.py`,
`polls/admin.py`) - *modelled (partly)*. State: votes per choice, voters,
`end_vote`, the meeting a poll may be attached to. Operations: a ballot, the
admin page. Meets: the attendance log, which decides who is in the room. Hard:
validation outside, counting inside a transaction; counters written back by the
admin page. Correct when a ballot counts only for somebody who may vote and was
in the room, once per member unless two overlap, and counters and voter list
match the ballots.

**Billing** (`billing/handlers.py`, `billing/util.py`, `billing/models.py`) -
*planned*. State: one invoice per participant. Hard: runs after the commit,
retried with a new random number, mail after the insert. Correct when there is at
most one invoice per attendee and a mail only for a stored one.

**CTF** (`ctf/views.py`, `ctf/models.py`) - *planned*. State: the solver of a
flag, guesses. Hard: first-solver race. Correct when a solver is never replaced.

**Alumni register** (`alumni/tasks.py`, `alumni/gsuite_adapter.py`,
`alumni/views.py`) - *modelled (partly)*. State: rows of a Google spreadsheet, an
audit sheet, update links in the database. Operations: the signup and update
forms queue tasks; a task reads, appends or writes cells, one API call at a
time, and queues mails. Hard: tasks run beside each other without a lock or a
transaction, an API call fails in the middle or after it was applied, and a task
whose worker is lost starts over. Correct when a redelivered task adds nothing
twice, payment instructions match the rows, and an update is not left half done.

**Task queue** (`core/celery.py`, `core/settings/common.py`) - *external*: Celery
acknowledges a task after it ran and puts it back when its worker is lost.
`Deliver`, `Acknowledge` and `LoseWorker` of `AlumniTasks` are those; the beat
schedule and the tasks that only send a mail are not modelled.

**Direct uploads** (`core/uploads.py`, `core/storage_backends.py`) - *planned*.
State: temporary and final objects, the rows that name them, a rate window in
the cache. Hard: copy, save and delete are three systems' steps. Correct when
every row names an object that is there.

**Members and sign-in** (`members/`) - *not modelled*: mostly Django,
two_factor and webauthn libraries. **Passkeys** (`members/webauthn.py`) -
*planned* with the other one-time tokens: a challenge is used once.

**Exam bank** (`exambank/`) - *not modelled*: the same session lockout as the
booking gate. **Gallery, archive, publications** - *not modelled*: serving of
stored files. **Content pages** (`news`, `staticpages`, `lucia`, `ads`,
`social`, `functionaries`, `klotterplanket`, `date`) - *not modelled*:
read-only pages and single-row forms. **Feedback and harassment forms** - *not
modelled*: one insert and one mail. **Instagram feed** - *not modelled*: a
periodic import. **Request middleware**, **import and maintenance scripts** -
*not modelled*: stateless, or run by hand.

`PROJECT.json` lists the same parts with their files, and under `hazards` every
place in this code where an order of steps or a failure is hard to test, at its
line, with the properties that would notice.

## 2. The modules and the code

| Module | What it is |
| --- | --- |
| `EventSignup` | the signup transaction and the admin writes beside it |
| `SignupLedger` | what registration promises, implemented by `EventSignup` |
| `MCEventSignup` | small instances of `EventSignup` for TLC |
| `EventSignupProofs` | theorems about `EventSignup`, one of them that it implements `SignupLedger` |
| `RoomBooking` | every request that writes bookings, and deletion of a room |
| `Calendar` | what booking promises, implemented by `RoomBooking` |
| `MCRoomBooking` | small instances of `RoomBooking` for TLC |
| `RoomBookingProofs` | theorems about `RoomBooking`, one of them that it implements `Calendar` |
| `AttendeeReorder` | the drag reorder of the attendees, beside signups and deletions |
| `MCAttendeeReorder` | a small instance of `AttendeeReorder` |
| `ReorderProofs` | theorems about `AttendeeReorder` |
| `BookingAccess` | room codes, rotation, the gate and the visitor's session |
| `MCBookingAccess` | a small instance of `BookingAccess` |
| `BookingAccessProofs` | theorems about `BookingAccess` |
| `AttendanceLog` | the attendance log and every way the code reads it |
| `CheckIn` | who writes the log: check-ins and the admin's corrections |
| `CheckInProofs` | lemmas about `CheckIn` and the readings of its log, for the modules that extend it |
| `RoomVote` | a poll voted on beside the check-ins: `CheckIn` with ballots |
| `MCRoomVote` | small instances of `RoomVote` |
| `RoomVoteProofs` | theorems about `RoomVote` and the log it runs beside |
| `Overview` | the live list: `CheckIn` with pages, socket and broadcasts |
| `MCOverview` | a small instance of `Overview` |
| `OverviewProofs` | theorems about `Overview` |
| `AlumniTasks` | the alumni register: tasks over a spreadsheet, delivered at least once |
| `MCAlumniTasks` | small instances of `AlumniTasks` |
| `AlumniProofs` | theorems about `AlumniTasks` |

`AttendanceLog` is defined once and used by whoever reads presence: the
check-in, the vote (`is_attendee_present`), the page (`present_attendees`), the
snapshot (`latest_attendance_changes`) and the report. `CheckIn` is extended by
`RoomVote` and by `Overview`, which each add a component that meets it: the
composition is one next-state relation in which a step of one leaves the
variables of the other alone, except where the code makes both happen
(`Tell` is `Announce` and a broadcast).

`EventSignup` and `RoomBooking` are written alike. A request is a process with a program
counter `pc`; every statement that can wait for or see other requests is an
action; code between two statements belongs to the action before it. Row locks are
variables. A transaction's own writes are kept apart (`Pending` in
`EventSignup`; `todo` and `rowLock` in `RoomBooking`) and become visible to
others in `Commit`. Every way out of a transaction goes through `Rollback` or
`Commit`, which release its locks. `Crash` (the worker is lost) and
`AbortDeadlock` (PostgreSQL picks a victim) end a transaction at any step.

Operators marked "Mutant" in a module's comments are deliberately broken
versions of the definition that follows; no action uses them. Each belongs to
one property and shows that the property would notice that bug.

### EventSignup

| Code | Model |
| --- | --- |
| the POST and the form's email check, outside any transaction | `Submit` |
| `_register_event_signup_once`: fresh read of the event | `ReadEvent` |
| `select_for_update(of=('self',))` for a limited child | `LockChild` |
| `_ensure_capacity` | `Fits`, `EnsureCapacity` |
| `reserve_attendee_nrs`: snapshot of `MAX(attendee_nr)`, then the row lock | `BeginReserve`, `Reserve` |
| INSERT of the guest, of the avec, with both unique indexes | `InsertGuest`, `InsertAvec`, `InsertRow` |
| collision on a number: roll back and retry up to `_MAX_ATTENDEE_NR_RETRIES` | `Collide` |
| end of `transaction.atomic()`, where the deferred foreign keys are checked | `Commit`, `KeyChecked` |
| `EventAdmin` change form: load, then `save()` of every column | `LoadEvent`, `SaveEvent` |
| deletion of attendees | `DeleteAttendee` |
| a number typed into an attendee | `RenumberAttendee` |

State: `rows` (attendees with owner, event, email, number), `counter`,
`capacity` are committed database columns; `mainLock` is the counter row's
lock, `childLock` the `FOR UPDATE` locks. Django's foreign keys are `DEFERRABLE
INITIALLY DEFERRED`, so `original_event` is checked at COMMIT and not at the
INSERT: `Commit` waits while another request has the child `FOR UPDATE`
(`KeyChecked`), and the key-share lock it takes ends with it. A signup that read
its child as unlimited can therefore have uncommitted attendees of a child that
another one locks and counts; it is the counter row and the check at COMMIT that
order the two. Names, answers to custom fields, times and prices are left out: no
step decides by them.

The counter UPDATE is two actions on purpose. `BeginReserve` is the start of
the statement, when the subquery's snapshot is taken; `Reserve` is the moment
the row lock is granted, when PostgreSQL re-reads the counter but not the
subquery. The allocator is right only because every committed number is also
in the counter, and an admin's full-row save breaks just that (section 6).

`SignupLedger` has no transactions: a request is accepted with its whole party
in one step, or refused, once; emails and numbers are unique; the limit holds,
except for a request that has seen the child unlimited (`lenient`). The
refinement maps `answer` to the outcome in `pc` and `lenient` to a request in
its transaction with `seenMax = 0`.

### RoomBooking

| Code | Model |
| --- | --- |
| what a view reads before its first lock | `Submit`, `Found` |
| `_save_edited_booking`, `rooms_to_lock`: read the room id without a lock | `FindRoom` |
| `select_for_update()` over the rooms in `Meta.ordering`: the rows are sorted, then locked | `SortRooms`, `Before`; `LockRoom`, `RoomsToLock` |
| the SELECT's result; a room that is gone | `RoomsLocked` |
| the booking's `select_for_update()`, room and owner checked again, one retry | `LockBooking`, `Again` |
| `Booking.clean`, `BookingInlineFormSet.clean` | `Overlap`, `Valid`, `RowsKnown`, `Check` |
| one UPDATE or DELETE per existing row | `WriteRow` |
| inserts and the commit | `Commit`, `Written`, `Removed`, `Author` |
| `RoomAdmin.save_model`: the room's editable fields, its name among them | `Renamed` |
| `DELETE FROM room` and the deferred foreign key | `CommitDrop` |

A request submits an operation of one of six kinds: `create` (`room_detail`),
`edit` (`edit_my_booking`, `cancel_booking` with `save`), `cancel` (`MyBookingsView.post`,
`cancel_booking` with `confirm`), `move` (the booking admin page), `page` (a room page with
inline bookings), `drop` (deletion of a room). `op.set` maps the rows it
writes to their times, `op.del` lists the rows it ticks for deletion, `op.user`
is the member behind it, or nobody when a code is used, `op.name` what a room page
calls its room.

Rooms are locked by `('name', 'pk')`, and names change. `name` is the committed
name of each room, `sorted[p]` the names by which the SELECT of a move sorted its
two rooms: PostgreSQL sorts before it locks and does not sort again after a wait.

`booking[b]` is `Absent` until the row is inserted and `Gone` once deleted: the
difference is what lets `NoResurrection` speak about a row that comes back.

`Calendar` has no locks and no statements: an accepted request takes effect as a
whole in one step, in a room that exists, at times that are free, and an edit
by account only on the account's own booking. Cancelling does not require
ownership there, because the code does not check it at that moment
(section 6).

### AttendeeReorder

| Code | Model |
| --- | --- |
| a signup's counter UPDATE and its INSERT, as in `EventSignup` | `AskNr`, `Reserve`, `Insert` |
| deletion of attendees | `Delete` |
| the page is rendered; dragged, ticked, edited and posted | `Open`, `Orders`, `Post` |
| Django reads the rows of the page again and validates their ids | `Loaded` |
| `save_model`: the event with every column, which takes its row lock; the SELECT of `_shift_attendee_nrs` | `SaveEvent` |
| `_attendee_nr_reordered`, `_form_will_save` | `moved`, `WillSave` |
| `_band_base`; one UPDATE per row | `Shift`, `BandBase`; `WriteRow` |
| `_resolve_attendee_nr_conflicts`: the SELECT; row by row, `_reserve_free_attendee_nr` | `ReadTaken`, `Taken`; `Number`, `FreeNr` |
| `super().save()`, `_restore_unchanged_attendee_nrs` | `Resolve`, `Saves`, `Restores`; `WriteRow` |
| the end of the admin's transaction | `Commit` |

`nr` holds the committed numbers. A transaction's own rows are in `form[e].work`
(which rows: `locked`) and its remaining statements in `todo`, so that the unique
index is checked at every single one, against its own rows and what is committed
of the others. Everything the formset reads - the rows it shifts, the maximum for
the band, the numbers outside the form, the maximum for a fresh number - is read in
a step of its own, since another transaction may delete a row between any two.

What makes the reorder safe beside signups is not in the formset: the admin has
written the event row before, whose lock a signup's counter UPDATE needs. It is no
protection against deletions. A deletion waits only for a row that the transaction
has itself written (`locked`): a row of the form may go before the SELECT, between
the SELECT and its own UPDATE, and, when no number was changed, at any time up to
its save. Nor is it one against what another editor committed between the POST's
reads and that lock; `met` and `lost` record both. A row ticked for deletion that is
gone already passes Django's validation, which skips it; any other makes the form
invalid (`Post`).

### BookingAccess

| Code | Model |
| --- | --- |
| `RoomAdmin.rotate_code`, `Room.rotate_code`: the moment, then the UPDATE | `Stamp`, `Rotate`, `Raised` |
| `room_detail`: the room row and the moment a request works from | `Start` |
| `session_has_access` | `HasAccess`, `Enters`, `Enter` |
| `booking_code_gate` up to the captcha; `lockout_remaining` | `Gate`, `LockedOut`, `Unexpired` |
| `validate_captcha` refuses or fails | `RefuseCaptcha` |
| `check_code`, `grant_session`, `record_failed_attempt` | `Judge`, `Accepted`, `Granted`, `Failed` |
| the booking of a visitor who is let in | `Book` |
| `SessionMiddleware` saves a changed session with the response | `Ended`, `Answer` |

A code is a generation, or 0 for any code that is none. `jar` is the stored
session, `task[q].work` the copy a request holds between reading and writing it.
A room page saved in the admin takes no step: `RoomAdmin.save_model` writes only
the editable fields, and the room's lock is held while it is read and written. So
nothing here would notice a page that did write the generation back.

### CheckIn, RoomVote, Overview

| Code | Model |
| --- | --- |
| `AttendanceEventView.post`: the presence check | `Ask`, `MayChange` |
| the object with its timestamp; the INSERT; the broadcast | `Stamp`, `Save`, `Announce` |
| `AttendanceChangeAdmin`: change form and delete page; list deletion | `Correct`, `CommitCorrection`; `DeleteSelected`, `TellDeleted` |
| `vote`, `_validate_vote` up to `user_has_voted` | `LoadPoll`, `ReadVoted` |
| `voter_is_present` | `ReadRoom`, `InRoom` |
| `handle_selected_choices`: the UPDATE with the look-up of the voter; the commit | `Count`, `Commit` |
| the poll's admin page with `ChoiceInline` | `OpenPage`, `SavePage`, `WrittenBack` |
| `AttendanceEventOverview` | `Load` |
| `makeWebsocket`, `AttendanceConsumer.connect` | `Join`, `SendSnapshot`, `Snapshot` |
| `onMessage`, `applyAttendanceState`, `replaceAttendees` | `Receive`, `Apply`, `Merge` |
| the close handler and its retry | `Drop`, `AfterClose` |
| `_send` and its callers | `Broadcast`, `Tell`, `Invalidate` |

The admin's change form writes a correction, announces it and commits, in this
order: `Correct` broadcasts and `CommitCorrection` changes the log. The list
deletion has no transaction around it and announces what is committed.

A member's `Vote` row is inserted only if `voters.add` finds none; `fresh`
remembers what it found. Two ballots with a common choice wait for each other's
row lock before they look, two without one do not: `VoterListExact`.

`unsure` in `Overview` is the set of attendees a page may show wrong since its
last load or snapshot: those whose broadcast it missed, and those of rows that
were corrected while it was connected. Everyone else must be right.

### AlumniTasks

| Code | Model |
| --- | --- |
| `alumni_signup`, `alumni_update_form`: the check, then `handle_alumni_signup.delay` | `Signup`, `Update` |
| `alumni_update_verify`, `send_token_email`, 24 hours | `RequestToken`, `SendTokenEmail`, `Expire` |
| Celery hands the task to a worker; acknowledges it after; requeues it | `Deliver`; `Acknowledge`; `LoseWorker` |
| `handle_create`: last row, emails, append, audit entry, mails | `ReadLastRow`, `ReadEmails`, `AppendRow`, `LogAction`, `MailMember` |
| `handle_update`: link, row, cells, audit entry, link deleted | `CheckToken`, `FindRow`, `WriteCell`, `RowWritten`, `LogAction`, `DeleteToken` |
| `append_row` fails and tries again, or gives up | `AppendFails`, `LogFails` |
| any other call fails; the task returns or raises | `CallFails`, `Stop` |

Every action is one call to the spreadsheet, the database or the queue, and a
worker can be lost between any two. A form is a record with an email and the
columns it filled in; a cell holds the updates that have written it. A run is a
task and how often it was delivered, which is also its payment reference: each
run draws a number of its own. `last` and `mails` of a row are the lengths of the
sheet its run had read, so that a property can tell whether runs overlapped.
A failed append may have been applied: the API's answer is lost, or not.

## 3. The runs

A request runs once; every instance therefore stops when all requests are
answered, and deadlock checking is off (`CHECK_DEADLOCK FALSE`). That nobody
stays behind is what `EveryRequestAnswered` checks instead.

| Run | Module, configuration | Properties |
| --- | --- | --- |
| `signup_admin` | `MCEventSignup`, `EventSignupAdmin.cfg` | `TypeOK`, `RetriesOnlyAfterEdit`, `NoWaitCycle`, `LockedSignupFits`, `OverbookedOnlyByRace`, `PairsTogether`, `ImplementsLedger`, `NumbersFollowCommits` |
| `signup_live` | `MCEventSignup`, `EventSignupLive.cfg` | `EveryRequestAnswered` |
| `signup_retry` (violation) | `MCEventSignup`, `EventSignupRetry.cfg` | `NeverRetries` |
| `booking` | `MCRoomBooking`, `RoomBooking.cfg` | `TypeOK`, `NoOverlap`, `CycleOnlyOfPages`, `NoResurrection`, `OwnerEdits`, `ImplementsCalendar` |
| `booking_drop` | `MCRoomBooking`, `RoomBookingDrop.cfg` | `NoOrphan`, `ImplementsCalendar`, `EveryRequestAnswered` |
| `reorder` | `MCAttendeeReorder`, `AttendeeReorder.cfg` | `FailsOnlyByOverlap`, `ReorderIsAssignment`, `ReturnsOnlyByOverlap` |
| `booking_access` | `MCBookingAccess`, `BookingAccess.cfg` | `TypeOK`, `UnlockEarned`, `BookedWithCode`, `RotationsCounted`, `LockedAtLimit`, `WrongCodesCount`, `RotationEndsUnlocks` |
| `room_vote` | `MCRoomVote`, `RoomVote.cfg` | `TypeOK`, `CountedInRoom`, `SecondVoteOnlyByOverlap`, `TallyIsBallots`, `VoterListExact`, `ReportAgrees` |
| `overview` | `MCOverview`, `Overview.cfg` | `SettledPagesAgree`, `RepeatOnlyByOverlap`, `PagesSettle` |
| `overview_reload` (violation) | `MCOverview`, `OverviewReload.cfg` | `ReloadRepairs` |
| `alumni` | `MCAlumniTasks`, `AlumniTasks.cfg` | `RepeatsOnlyByOverlap`, `InstructionsMatchRows`, `UpdatesLand` |
| `alumni_redelivery` (violation) | `MCAlumniTasks`, `AlumniTasksLoss.cfg` | `NothingSilentlyDropped` |

**signup_admin.** Three requests that may or may not be for the child, with or
without an avec, with emails that collide with each other's or with their own
avec's; one editor, who may load the event at any time and save it at any later
time and set the limit to 0 or 2; attendees may be deleted at any time. Shows
that only a request which read the child as unlimited can take it over its limit
(the race the comment in `registration.py` accepts), that nobody who took the
lock overbooks even beside such a request, that pairs stay whole through
collisions, duplicates, full events and crashes, and that all of it implements
the ledger. `NumbersFollowCommits`, `RetriesOnlyAfterEdit` and `NoWaitCycle`
speak of the states before the editor's save: left alone, the allocator hands
out numbers in commit order, nobody retries and nobody waits in a circle. 2
million states.

**signup_live.** Two requests, one editor, a number that may be typed by hand;
no symmetry, as it would not be sound for liveness. Here wait cycles do occur:
a limit set while requests are running lets one request hold the counter row and
wait at COMMIT for the child, and another hold the child and wait for the counter
row.

**booking.** Three requests over two rooms, four booking ids and two members,
each submitting one of thirteen operations: creations that overlap existing
bookings or each other, edits by owner, by a member and by code, cancellations,
moves in both directions with a new author, and room pages with sibling rows
that overlap each other or other bookings, one of which renames its room so that
the two rooms sort the other way round. `CycleOnlyOfPages` leaves out two pages of
different rooms, of which a wait cycle needs six requests, and two moves that sorted
the same rooms around a rename, of which it needs three: that one occurs here
(section 6), and no other. 200 000 states.

**booking_drop.** Three requests, of which any may delete room 2 while the others
create in it, move into it or out of it, edit and cancel. Deleting a room locks
bookings before the room, the reverse of everybody else, so wait cycles do
occur; what must hold is that no booking is left in a deleted room and everybody
is answered.

**reorder.** Two attendees, one with a number that is not a multiple of ten, one
who signs up, two editors who open the page at any time and post any order, with
one row ticked for deletion or edited; any attendee may be deleted at any time.
Shows that a save is a simultaneous assignment, that no row is left in the band,
that a save fails only when another editor or a deletion of one of its rows
overtook it, and that it brings a deleted row back only if it changes the row and
the deletion came after its POST had read it. Eight million states.

**booking_access.** One browser with two requests at a time, two rooms, two
rotations of one of them that may race, a code typed wrong, old or new, and
bookings with and without an unlock. 4 million states.

**room_vote.** Two members who check in and out, two ballots on a single-choice,
an open and a two-choice poll, and one save of the poll's admin page, which may
attach the poll, end it and reword any of its choices. 2.6 million states.

**overview.** One page, two check-ins of one person, one correction and one
broken connection, with every broadcast delivered or lost. The counterexample
mutants show what it depends on: absent people in the snapshot and the
retry after a close.

**alumni.** An empty register or one with a member, two forms of either kind, one
update link, two workers lost at any step and one API call that fails, with a
failed append applied or not. Shows that a task that is delivered again after its
append adds no second row, that an email or a number is repeated only by runs
that overlapped, that no reference is mailed without its row, and that an update
which has begun to write is finished by a later delivery, because its link is
deleted last. A million states.

### Bounds and why they are enough

- Three requests. A lost place needs two signups for the last place, and the
  races with an admin need a third request beside them; a wait cycle that is
  not a pair needs three, and so do
  two moves with a rename in between. A request that retries meets at most two others.
- `Caps = {0, 2}`: unlimited, and a limit which one pair fills exactly and
  which three single guests exceed.
- `Retries = 1` against 5 in the code: the first retry and giving up are both
  reached, and the code does not distinguish the attempts in between.
- One child next to the storage event. Signups for different children share
  only the counter row, which Main's own signups share too. A child row is
  locked one at a time.
- Two rooms: a move locks two, an edit at most one. Four booking ids: two
  that exist, one inserted by each of two requests.
- Two overlapping requests are what `CheckIn`, `RoomVote` and `BookingAccess`
  are about; nothing in them distinguishes a third. Two members are needed in
  `RoomVote` (one in the room, one not), one attendee is enough in `Overview`,
  where rows of different people are merged independently.
- `MaxTime`, `MaxFixes`, `MaxEdits`, `MaxDrops` and `MaxGuesses` cap the clock,
  the corrections, the saves of the poll page, the broken connections and the
  wrong codes. With one tick two changes have equal or different timestamps;
  with two a code is typed before, in and after the grace period and a lockout.
  `Limit = 2`, `Lockout = 1` and `Grace = 1` keep their order in the code's
  settings.
- In `AttendeeReorder` two rows give every drag there is besides a rotation of
  three, and the one with an odd number makes a drag leave a row unchanged.
- Two tasks, one link and two columns in `AlumniTasks`: overlapping is between
  two runs, and two losses let one task be delivered three times or both twice.
  `Retries = 1` against 5: the first retry and giving up are both reached. Three
  signups without links were run by hand with the same result.
- `Ids` and `Procs` cap inserts and requests; nothing else is unbounded:
  numbers are bounded by the number of requests and the numbers typed.

Symmetry over requests is used in the runs without liveness only.

## 4. Fairness

`FairSpec` adds weak fairness to each request's own steps (`Step`) and to
`AbortDeadlock`. A worker that is running executes its next statement, and one
that waits for a row is granted it at some time after the holder has ended:
PostgreSQL queues waiters, and in a system with finitely many requests a
lock cannot be passed on for ever. `deadlock_timeout` makes the
server abort a member of every wait cycle. Nothing is assumed about `Submit`, the
admin actions or `Crash`: nobody has to submit or save, and no worker has to be lost.

`Overview`'s `FairSpec` adds weak fairness to a check-in once it is let through,
to the end of a correction that has begun, and to every page's own steps: the
server answers requests, the admin's transaction ends, and a browser handles its
frames and reconnects after five seconds. Nobody has to check in or correct
anything. A connection may last for ever, and no broadcast is assumed to arrive:
`PagesSettle` promises only what `unsure` leaves.

`AlumniTasks`' `FairSpec` adds weak fairness to each task's steps: the queue is
served and a worker that is not lost goes on. A task whose worker is lost every
time is excluded by `MaxLosses`, not by fairness; nobody has to fill in a form, ask for a
link or let one expire, and no call has to fail.

## 5. The proofs

TLAPS proves, for every value of the constants that satisfies the module's
assumptions:

| Theorem | Statement |
| --- | --- |
| `SignupInvariant` | `Spec => []SignupInv`, the inductive invariant |
| `SignupTypeCorrect` | `Spec => []TypeOK` |
| `LockedSignupNeverOverbooks` | `Spec => LockedSignupFits` |
| `LedgerInvariant` | `Spec => [](SignupInv /\ LedgerInv)`, the inductive invariant of the refinement |
| `SignupImplementsLedger` | `Spec => ImplementsLedger`, the refinement of `SignupLedger` |
| `OnlyTheRaceOverbooks` | `Spec => OverbookedOnlyByRace` |
| `PairsStayTogether` | `Spec => PairsTogether` |
| `SignupsNeverDeadlock` | `Spec => []NoWaitCycle` |
| `NumbersInOrder` | `Spec => NumbersFollowCommits` when nobody types numbers (`ManualNrs = {}`) |
| `SignupsRunOnce` | `Spec => []RetriesOnlyAfterEdit` when nobody types numbers |
| `BookingInvariant` | `Spec => []BookingInv`, the inductive invariant |
| `BookingTypeCorrect` | `Spec => []TypeOK` |
| `NoDoubleBooking` | `Spec => []NoOverlap` |
| `NoBookingWithoutRoom` | `Spec => []NoOrphan` |
| `CancelledStaysCancelled` | `Spec => NoResurrection` |
| `EditsAreOwners` | `Spec => OwnerEdits` |
| `BookingImplementsCalendar` | `Spec => ImplementsCalendar`, the refinement of `Calendar` |
| `OnlyPagesDeadlock` | `Spec => []CycleOnlyOfPages` |
| `ReorderInvariant` | `Spec => []ReorderInv`, the inductive invariant of saves and signups |
| `ReorderAssigns` | `Spec => ReorderIsAssignment` |
| `ReorderFailsOnlyByOverlap` | `Spec => []FailsOnlyByOverlap` |
| `ReorderReturnsOnlyByOverlap` | `Spec => ReturnsOnlyByOverlap` |
| `VoteInvariant` | `Spec => []VoteInv`, the inductive invariant of log and poll |
| `VoteTypeCorrect` | `Spec => []TypeOK` |
| `RoomHolds` | `Spec => []CountedInRoom` |
| `SecondVoteOverlaps` | `Spec => []SecondVoteOnlyByOverlap` |
| `TallyHolds` | `Spec => []TallyIsBallots` |
| `ListHolds` | `Spec => []VoterListExact` |
| `RepeatOverlaps` | `Spec => []RepeatOnlyByOverlap` |
| `ReportHeadcounts` | `Spec => []ReportAgrees` |
| `OverviewInvariant` | `Spec => []OverviewInv`, the inductive invariant of log, pages and frames |
| `PagesAgree` | `Spec => []SettledPagesAgree` |
| `OverviewRepeats` | `Spec => []RepeatOnlyByOverlap`, for check-ins beside pages |
| `AccessInvariant` | `Spec => []AccessInv`, the inductive invariant of the gate |
| `AccessTypeCorrect` | `Spec => []TypeOK` |
| `UnlocksEarned` | `Spec => []UnlockEarned` |
| `BookingsWithCode` | `Spec => []BookedWithCode` |
| `RotationsAllCount` | `Spec => []RotationsCounted` |
| `LockoutAtLimit` | `Spec => []LockedAtLimit` |
| `WrongCodesAreCounted` | `Spec => []WrongCodesCount` |
| `RotationEndsExactly` | `Spec => RotationEndsUnlocks` |
| `AlumniInvariant` | `Spec => []AlumniInv`, the inductive invariant of the tasks |
| `AlumniTypeCorrect` | `Spec => []TypeOK` |
| `RepeatsOverlap` | `Spec => []RepeatsOnlyByOverlap` |
| `InstructionsMatch` | `Spec => []InstructionsMatchRows` |

**Assumptions.** `SignupAssumption`: the storage event is not one of its
children, `None` is not a request or a form, forms are for known events, limits
and typed numbers are natural numbers. `BookingAssumption`: booking ids are
finitely many, room ids and names are numbers (their order is that of
`Meta.ordering`), operations have the shape of their kind, and the bookings
before the first request do not overlap. The last one is what makes `NoOverlap`
hold at the start. `ReorderAssumption`: attendees are finitely many, the numbers
at the start are positive and distinct (the unique index), and the ids of signups,
registered attendees and editors are apart. `CheckInAssumption`,
`RoomVoteAssumption`, `OverviewAssumption`: bounds are numbers, members are
attendees, ballots are finitely many. `BookingAccessAssumption`: the
limit and the lockout are positive, rotations are finitely many and each is for a
room, and only a code request carries a code. `AlumniAssumption`: columns and
bounds are numbers, and the register at first numbers its members 1, 2, 3, ...
without an email twice.

**SignupInv.** `LockedSignupFits` is about one step, the commit, but the check
it depends on was made several steps earlier. The invariant carries it over:

- `CounterRowHeld`: exactly the request that is writing attendees holds the
  counter row. So at most one request has uncommitted rows.
- `ChildRowHeld`: whoever holds the child's row lock is past the lock, aims at
  that child and has the limit in force in `seenMax`: no admin can have changed
  it since.
- `PlacesKept`: past the check, the places asked for are still free. Only
  commits for this child could take them, and a commit needs the child's key: this is
  where the foreign key matters. A signup that read the child as unlimited may have
  its attendees inserted while another locks the child and counts without them, but
  it cannot commit them before the other ends.
- `Bounded`: attempts and reserved numbers are in range, needed for types.

Rows must be a finite set, since the argument counts them.

**LedgerInv.** To show that a commit is `Accept` of `SignupLedger`, `SignupInv`
has to be strengthened by what makes the new attendees fit among all others:

- `RowsUnused`: an uncommitted row has an email and a number that no committed
  row has, and the two rows of one request differ in both. The unique indexes
  refused it otherwise, and whoever might commit such a row meanwhile would need
  the counter row, which the request holds.
- `LimitLocked`: who saw a limit when it read the child keeps the child's row
  lock to the end, so a request is within the limit or has seen none.

The mapping: `Commit` is `Accept`; a roll-back with an answer is `Refuse`, one that
starts over is `Forget`; `ReadEvent` and `LockChild` of a child without a limit are
`SeeUnlimited`; a save is `SetLimit`, deletions and renumberings are `Remove` and
`Renumber`. All other steps leave the ledger as it is: one lemma per action.

`OverbookedOnlyByRace` follows from `LimitLocked` and `PlacesKept`: a commit that
saw a limit still has its places. `PairsTogether` needs `OwnersDone`: the owner of a
committed row has its answer, so what a commit adds is all there is of a request.

**Wait cycles of signups.** `ChildFirst`, for limits that are always positive:
whoever is past the read and the lock and aims at a child holds that child's row
lock. `AsRead`, until a change form is saved: the limit a request saw is the
one in force, and nobody locks the row of an unlimited child. Either way nobody
waits for a child at COMMIT, every other wait is from child to counter, and none
returns.

**CounterAhead.** Until a change form is saved, and if nobody types numbers, the
counter is ahead of every row and of the maximum every waiting statement has
read, and the numbers of the one request that holds the counter row are ahead of
the counter it read. So the maximum is never the greater of the two and the
unique index on numbers refuses nobody. A number typed by hand while a counter
statement waits can be above the maximum that statement has read; hence the
condition, which the run `signup_admin` has as `ManualNrs = {}`.

**BookingInv.** `NoOverlap` is not inductive: `Check` compares with the
bookings of a moment, `Commit` writes later. The parts that bridge it:

- `Asked`: whoever has started has an operation of `Ops`.
- `TargetHeld`: from the row lock on, a request holds the lock of the room it
  will write in, if the room still exists, and at the last step it does exist.
- `EditHeld`, `RowsHeld`: an edit past its row lock holds just that row, and
  it is its user's; only requests that are about to write hold rows.
- `RowsLive`: only rows that are there are locked.
- `StillFree`: what a request found free is still free, and each submitted row
  that is already in the room has been locked or is still to be. It holds
  because others that write in this room need its lock, and the rest only
  remove bookings.
- `NoOrphan` is in the invariant because a row in a deleted room would be a
  row that no room lock protects.

`OthersKeep` states once that a step of one request leaves the discipline of
every other request alone, and each action's lemma then only argues about its own.

**CalendarInv.** `NoOverlap` says that the bookings of a room are disjoint; the
refinement says in addition that a commit writes exactly what was asked. For
this, `CalendarInv` ties the rows a request has locked to those it names: no two
requests make the same new booking (`OwnIds`), only a cancellation or the
deletion of a room goes without the check (`Staged`), a request locks nothing it
does not name (`NamedOnly`), when its statements have run it has locked all it
names that is still there (`Reached`), what it will create is not there yet
(`Unmade`), and a booking edited through an account is in the room that is
locked (`SameRoom`).

The mapping: `Submit` is `Ask`; a roll-back with an answer, and the move of a
booking that has gone, are `Fail`; `Commit` and the last step of a room's
deletion are `Accept`. Reads, locks, statements and the one retry
leave the calendar as it is.

**OrderInv.** A request locks its rooms in the order it sorted them and before any
row (`RoomOrder`, `NoRows`), and a request of one row waits for nothing once it holds
that row (`OneRow`, `RowHolderWaits`). Take a cycle without deletions: someone in
it waits for a row of someone who waits, who must be a page, or all wait for
rooms. If they sorted the rooms alike, then of the rooms awaited the first is held
by a request that waits for a later one it would have locked first
(`NoRoomCycle`); who waits with a room in hand is a move, so otherwise two moves
sorted two rooms differently, which is a rename in between. If somebody waits for a
row, there is a page, its row is awaited or held by another page, and two pages of
one room exclude each other by the room's lock.

**ReorderInv.** A save is many single statements, and the theorem is that together
they are one assignment. What carries through them is a *goal*: a number for every
row of the page, 0 for one to be deleted and for one that is gone and not saved. A
deletion changes it for its own row only. The invariant has two layers:

`Beside` is what holds whatever other saves the form met:

- `Page`: the numbers sent are distinct, and a row of the form that is gone was
  deleted since the POST.
- `Written`: only rows of the form are written, what the transaction sees has
  distinct numbers, and a row it wrote although it was gone is one that it saves.
  `ReturnsOnlyByOverlap` is this at the commit.
- `Listed`: the rows read for the shift, and their numbers, are those there are,
  except the ones deleted since.
- `Shifting`, `Numbering`: the rows still there are in the band or on their way to
  it; the band lies above all numbers, stored or sent; a fresh number lies above the
  band. A deletion takes rows away and raises nothing, so all of it survives one.
- `Planned`: what is left to be done after the numbers are set.

`Alone` is what holds until another save of the page has come between the POST and
the event's row lock:

- `AsRead`: a row of the page has the committed number the POST read, or was
  deleted since.
- `ToGoal`: each row has its goal already or a statement to come that gives it; a row
  that is dropped is deleted before it could be restored.
- `AsDragged`: the goal is the number dragged to, or one after all others where a
  row outside the page has that number or had it and was deleted meanwhile.
- `GoalFree`: no goal is another row's number, now or when it has its own, so the
  unique index refuses no statement of a save that no deletion overtook. It needs
  `Locked`: the event's row lock keeps signups from inserting a number meanwhile.

A deletion leaves each part as it is (`FormGone` and the lemmas before it), and
`EditorStep` states once that the step of one editor leaves the others' forms as
they are; each action's lemma then speaks of one form. Much of `ReorderProofs` is
about the operators that pick the numbers: `Sorted` gives every row its rank, the
band lies after all numbers, `FreeNr` finds a number nobody has or wants. `Sorted`
is defined by ranks and not by `SortSeq`, of which the provers know nothing; so is
`Timeline` below.

**VoteInv.** `LogInv` (row ids are unique and below the sequence) and `MeetingInv`
come from `CheckIn`, whose lemmas are in `CheckInProofs` and are proved about its
actions, so that any module that extends it can use them. `MeetingInv` speaks of
a log nobody has corrected: the clock is ahead of it, a request that was let
through saw after any row of its own type one of the other (`SawOther`), and its
row is placed after what it saw (`RowAfterSeen`). From these, two rows of one
type in a row can only be of requests that overlapped. On the poll's side:

- `RoomInv`: past `voter_is_present`, the room requirement was met at some
  moment since the submission. `is_attendee_present` (the last row of an ordered
  query) and `present_attendees` (the window query) are shown to agree on the way.
- `EarlierInv`: what was counted before a request began is counted for ever, and
  past `user_has_voted` none of it is its own member's.
- `ListInv`: who inserted a `Vote` row, and that two ballots of one member that
  both found none have no choice in common, as the first would have held its lock.
- `TallyInv`: counters match the ballots, and a page that is open has read at
  most what is counted.

**The report.** `ReportAgrees` compares two readings of one log: the database's
newest row of each person, and a loop over the rows in their order. It holds of
any finite set of rows with different ids, which the log is (`LogFinite`). Rows
are ranked by how many come before them, so `Timeline` lists each once and in
order (`TimelineIs`). By induction over the loop, those in the room have arrived
and are at most the peak (`ReplayedBounds`), and who arrived and has no later row
that counts is in the room at the end (`StaysInRoom`); the newest rows at the
end, one per person, therefore number no more than that room (`PresentInRoom`).
The induction is by the least counterexample (`LeastNat`).

**OverviewInv.** A page shows what it was told, in what order the socket
delivered it, so the invariant is about everything on its way:

- `SnapshotFirst`: the snapshot is the first frame of a connection and meets a page
  without versions.
- `RowsAreVersions`: from then on the rows shown are those whose newest version
  is an arrival.
- `InStep`: of an attendee the page is sure of, nothing shown or queued is out of the
  log, and no row of the log is newer than the newest that is shown, queued or
  saved and about to be announced.
- `LogClock`: nothing in or on its way to the log is later than the clock, so the
  snapshot, which reads up to now, reads everything.

When nothing is queued or pending, `InStep` says that the page's version of each
attendee is the latest row, which is what `PresentAttendees` asks. That it is the
greatest in (timestamp, id) and not the last to arrive makes the order of
delivery irrelevant.

**AccessInv.** `JarInv` and `CopyInv` say the same of a stored session and of the
copy a request holds: no token is newer than its room's generation, every token
was earned, and a lockout stands exactly when the attempts are at the limit. So
whichever copy is written back last keeps them. `RequestInv` ties a request to
the generation it read and judges a code only while an attempt is left;
`SoloInv` is about a browser that has never overlapped: its one request is ahead
of the stored session, so neither a count nor an unlock is lost.

**AlumniInv.** A row is appended long after the reads it depends on, and the
sheet grows in between. `RunInv` keeps what was read true: the number a run chose
is the one after the row it saw last (rows are never removed and their numbers
never written), its email is in none of the rows it looked at, and past the append
its own row is in the sheet. `RowInv` ties a row to a signup of its email, so that a
redelivered or an update task cannot be taken for its sender; `FormInv` and
`TokenInv` say that a run has a form of its kind. `OthersSame` and `SheetStep`
state once that a step touches one task, and adds at most that task's row.

**Only model-checked.** Liveness (`EveryRequestAnswered`, `PagesSettle`,
`UpdatesLand`) and anything with `ENABLED` is out of the prover's reach. Every
safety property of a passing run is proved. The induction theorems of the library
take an operator as a parameter, which the installed provers cannot instantiate;
where the argument is an induction over a number (the report's loop, the free
numbers of the reorder), it takes the least counterexample instead.

## 6. Findings

**A signup can retry** (run `signup_retry`). `docs/dev/events.md` says that
concurrent signups serialise on the counter "without racing, rescanning
attendees, or retrying the complete signup transaction", and
`events/registration.py` that retries only cover a mixed-version rollout. An
event's change form saves every column, the counter included, with the value
its POST loaded. That can put the counter back below a number that a signup has
been given since; a counter UPDATE which was already waiting keeps the
`MAX(attendee_nr)` of its snapshot, and hands the number out a second time.
The unique index refuses the row and the retry repairs it. No wrong data
results; the statement is not true.

**A reload may show the row as it was** (run `overview_reload`). The comment in
`AttendanceChangeAdmin.save_model` calls the reload "the only answer that also
repairs the feed". The reload is announced inside the admin's transaction; a page
that reloads and takes its snapshot before the commit shows the old row, and
nothing is sent afterwards. Deleting rows from the list does not have the
problem: it runs without a transaction and announces afterwards.

**A lost worker can drop a signup's mails** (run `alumni_redelivery`). The
settings say that a worker killed in the middle of a task "does not silently drop
the task" and that tasks "must tolerate redelivery"; `docs/dev/kubernetes.md` says
the same of a rollout. `handle_create` does not: lost after the row was appended
and before the mail was queued, it is delivered again, finds the email in the
sheet, takes it for a member who was registered before, and ends. The member is in
the register and is never told how to pay.

More that the models show and no run singles out. `docs/dev/polls.md` says that
"members can vote only once"; `user_has_voted` is a query of its own before the
counting transaction, which does not look again, and no constraint makes the
`Vote` row unique, so two POSTs at once both count. `SecondVoteOnlyByOverlap` says
that overlapping is the only way, and `VoterListExact` what the list of voters
then looks like. The docstring of `MyBookingsView` says that "the booking has to
belong to the signed-in member"; it is looked up by account and deleted by primary
key in two statements without a lock, so a booking the board reassigns in between
is deleted by its former owner, and `Calendar` therefore asks no ownership of a
cancellation. The poll
page writes a reworded choice back with the counter it read, so votes counted in
between are lost (`TallyIsBallots` excepts those choices). A reorder that was
overtaken by another editor or by a deletion can fail on the unique index, or
insert a deleted attendee again (`FailsOnlyByOverlap`, `ReturnsOnlyByOverlap`).
`docs/dev/events.md` (lines 100-103) says that a reorder "can never violate"
the constraint in the middle of a save, and the comment in `events/admin.py`
(163-164) that the saves write their values "without ever colliding"; that is true
beside signups, and not beside another save or a deletion. What the same page says
of "an admin saving during a signup rush" holds. `_save_edited_booking` reads a booking's room before it locks it, and so does
a board page; a booking that another move takes elsewhere in between can be named
by two room pages at once, and two pages of different rooms that each delete both
rows may then wait for each other. It takes six requests. Two moves between the
same two rooms lock them by name, each by the names when its SELECT sorted them: a
room page that renames one of the rooms in between turns the order round, and the
moves may wait for each other. PostgreSQL aborts one request of a cycle;
`CycleOnlyOfPages` says that there are no others.

## 7. What is not modelled

In front of signup: opening hours, passcode, captcha, form fields. They refuse
requests before the first statement that matters here. Several storage events:
their counters, emails and numbers are independent. In `EventSignup`, deletions
and renumberings by an admin are single writes, each committed alone; the
transaction that writes several rows of one page is `AttendeeReorder`, which in
turn has no limits, pairs or emails. In the reorder: attendees added on the page,
numbers typed by hand, avecs (whose rows lose their guest when it is deleted), and a
save of the page that leaves the attendees as they are.

In room booking: closures and bookable hours, which are read without a lock and
depend on no other booking; the clock (every booking is upcoming); captcha,
mails and access codes. A code of a booking is a request without a user.

In the gate: two generations whose six digits agree, and the part of a second by
which `int()` ends a lockout early. The cancel code of a booking is derived and
never stored. In attendance: the code typed at the door and its lockout (the same
pattern as the gate's), guests' names, rows moved to another meeting, two
corrections at a time, sockets closed for good, and a correction typed for a moment
in the future, which the form allows: `Correct` takes times up to the clock. A row
in the future changes who is present when its time comes, without a step that could
tell the pages. The feed of recent changes
on the overview page only appends and is not compared with anything. In polls:
choices added or removed, votes deleted by a superuser, a change of who may
vote, two editors on one page. In the alumni register: the captcha, columns nobody
may edit, the admins' mail (queued right after the member's), rows an
administrator changes by hand in the spreadsheet, two runs that draw the same
random number, and a broker that loses its queue or refuses a message.

Nothing is said about the content of pages, of mails or of files.

## 8. Plan

Done: `EventSignup` with `SignupLedger`, `RoomBooking` with `Calendar`,
`AttendeeReorder`, `BookingAccess`, `CheckIn` with `RoomVote` and `Overview`,
`AlumniTasks`.

Every safety property of the runs is proved. To prove next:

1. A vote and a check-in beside a page: `RoomVote` and `Overview` both extend
   `CheckIn` but are not composed with each other; their invariants only share
   the log.
2. That `Overview` implements the plain list a page promises, as an abstract
   specification of its own: what is shown, who may be wrong, and the step that
   repairs it.
3. That `AttendeeReorder` implements a save in one step, as `SignupLedger` does
   for a signup; `ReorderAssigns` states the effect, not yet the refinement.

To model next, as far as they have something to say beyond one step:
`DirectUpload` (temporary object,
copy, row, clean-up, a failure after each), `CtfFlags` (the first solver),
`BillingInvoice` (retry with a new number, mail after the insert) and the
one-time tokens (the passkey challenge, the exam bank's lockout).
