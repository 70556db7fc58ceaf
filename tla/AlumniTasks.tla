----------------------------- MODULE AlumniTasks -----------------------------
(***************************************************************************)
(* The alumni register: a Google spreadsheet that Celery tasks write, one  *)
(* API call at a time, with no transaction and no lock.                    *)
(*                                                                         *)
(* A task is acknowledged after it has run (CELERY_TASK_ACKS_LATE) and is  *)
(* put back on the queue when its worker is lost, so it may run again from *)
(* the beginning after any of its steps.  A task that raises is            *)
(* acknowledged.  An API call may fail; a failed append may have been      *)
(* applied nevertheless, and append_row tries again.                       *)
(*                                                                         *)
(* Left out: the captcha, the columns nobody may edit, the text of mails   *)
(* and of the audit log, rows changed by hand in the spreadsheet, a broker *)
(* that refuses a message or forgets its queue, and two runs that draw the *)
(* same random invoice number.                                             *)
(***************************************************************************)
EXTENDS Integers, Sequences, FiniteSets

CONSTANTS
  Tasks,     \* deliveries of the signup form and of the update form
  Tokens,    \* update links asked for
  Emails,
  Cols,      \* the editable columns, written in this order; the last is the update date
  Sheets,    \* the member rows there can be at first
  Retries,   \* append_row's retries, 5 in the code
  MaxLosses, \* bound: workers lost
  MaxErrors, \* bound: API calls that fail
  None

VARIABLES
  sheet,     \* the member rows, below the header
  token,     \* per link: whose it is, and how far it has come
  form,      \* per task: the form it carries, or None
  pc,        \* per task: on the queue, at a step, or acknowledged
  delivery,  \* per task: how often it was delivered
  newId,     \* per run: member_id
  seen,      \* per run: the rows there were when it read the last one, and
             \* when it read the emails (history)
  tries,     \* per run: retries left of the append it is in
  row,       \* per run: the row it updates
  todo,      \* per run: the columns still to be written
  outbox,    \* payment instructions queued: to whom, with which reference
  losses, errors,
  stopped,   \* tasks that gave up after an API error (history)
  cut        \* references of runs that ended between row and mail (history)

work == <<newId, seen, tries, row, todo>>
faults == <<losses, errors, stopped, cut>>
vars == <<sheet, token, form, pc, delivery, work, outbox, faults>>

LastColumn == CHOOSE c \in Cols : \A d \in Cols : d <= c

\* generate_reference_number draws a number of its own for every run.
Reference(t) == [task |-> t, run |-> delivery[t]]

References == [task : Tasks, run : Nat]

\* A row: cells are the updates that have written each column; last and
\* mails are what the run that appended it had seen (history).
Rows == [id : Nat, email : Emails, ref : References \cup {None},
         cells : [Cols -> SUBSET Tasks], last : Nat, mails : Nat]

ASSUME AlumniAssumption ==
  /\ Cols \subseteq Nat /\ Cols # {} /\ IsFiniteSet(Cols)
  /\ Retries \in Nat /\ MaxLosses \in Nat /\ MaxErrors \in Nat
  /\ Sheets \subseteq Seq(Rows)
  /\ \A s \in Sheets : \A i \in 1..Len(s) :
       /\ s[i].id = i /\ s[i].ref = None
       /\ s[i].last = i - 1 /\ s[i].mails = i - 1
       /\ \A j \in 1..Len(s) : s[i].email = s[j].email => i = j
  /\ None \notin References /\ None \notin Emails

-----------------------------------------------------------------------------

Registered(e) == \E i \in 1..Len(sheet) : sheet[i].email = e

LastId == IF sheet = <<>> THEN 0 ELSE sheet[Len(sheet)].id

Init ==
  /\ sheet \in Sheets
  /\ token = [k \in Tokens |-> [to |-> None, at |-> "none"]]
  /\ form = [t \in Tasks |-> None]
  /\ pc = [t \in Tasks |-> "none"]
  /\ delivery = [t \in Tasks |-> 0]
  /\ newId = [t \in Tasks |-> 0]
  /\ seen = [t \in Tasks |-> [last |-> 0, mails |-> 0]]
  /\ tries = [t \in Tasks |-> 0]
  /\ row = [t \in Tasks |-> 0]
  /\ todo = [t \in Tasks |-> {}]
  /\ outbox = {}
  /\ losses = 0 /\ errors = 0 /\ stopped = {} /\ cut = {}

Goto(t, step) == pc' = [pc EXCEPT ![t] = step]

\* What a run had read goes with it.
Forget(t) ==
  /\ newId' = [newId EXCEPT ![t] = 0]
  /\ seen' = [seen EXCEPT ![t] = [last |-> 0, mails |-> 0]]
  /\ tries' = [tries EXCEPT ![t] = 0]
  /\ row' = [row EXCEPT ![t] = 0]
  /\ todo' = [todo EXCEPT ![t] = {}]

\* alumni_signup: the form is queued unless the sheet has the email already.
Signup(t) ==
  /\ pc[t] = "none"
  /\ \E e \in Emails :
       /\ ~Registered(e)
       /\ form' = [form EXCEPT ![t] = [kind |-> "CREATE", email |-> e,
                                       token |-> None, filled |-> {}]]
  /\ Goto(t, "queued")
  /\ UNCHANGED <<sheet, token, delivery, work, outbox, faults>>

\* alumni_update_verify: anybody may ask for a link for any email.
RequestToken(k) ==
  /\ token[k].at = "none"
  /\ \E e \in Emails : token' = [token EXCEPT ![k] = [to |-> e, at |-> "asked"]]
  /\ UNCHANGED <<sheet, form, pc, delivery, work, outbox, faults>>

\* send_token_email: one read; delivered twice it mails the same link twice.
SendTokenEmail(k) ==
  /\ token[k].at = "asked" /\ Registered(token[k].to)
  /\ token' = [token EXCEPT ![k].at = "mailed"]
  /\ UNCHANGED <<sheet, form, pc, delivery, work, outbox, faults>>

\* 24 hours have passed.
Expire(k) ==
  /\ token[k].at \in {"asked", "mailed"}
  /\ token' = [token EXCEPT ![k].at = "expired"]
  /\ UNCHANGED <<sheet, form, pc, delivery, work, outbox, faults>>

\* alumni_update_form: the link is valid and stays so; every POST queues a task.
Update(t) ==
  /\ pc[t] = "none"
  /\ \E k \in Tokens, filled \in SUBSET Cols :
       /\ token[k].at = "mailed" /\ LastColumn \in filled
       /\ form' = [form EXCEPT ![t] = [kind |-> "UPDATE", email |-> token[k].to,
                                       token |-> k, filled |-> filled]]
  /\ Goto(t, "queued")
  /\ UNCHANGED <<sheet, token, delivery, work, outbox, faults>>

\* A worker takes the task from the queue and starts at its first line.
Deliver(t) ==
  /\ pc[t] = "queued"
  /\ delivery' = [delivery EXCEPT ![t] = @ + 1]
  /\ Goto(t, IF form[t].kind = "CREATE" THEN "last" ELSE "token")
  /\ UNCHANGED <<sheet, token, form, work, outbox, faults>>

-----------------------------------------------------------------------------
(* handle_create *)

\* The header row holds no number: the first member is 1.
ReadLastRow(t) ==
  /\ pc[t] = "last"
  /\ newId' = [newId EXCEPT ![t] = LastId + 1]
  /\ seen' = [seen EXCEPT ![t] = [last |-> Len(sheet), mails |-> 0]]
  /\ Goto(t, "emails")
  /\ UNCHANGED <<sheet, token, form, delivery, tries, row, todo, outbox, faults>>

\* Mutant: the task trusts the view's check.
ReadEmailsNever(t) ==
  /\ pc[t] = "emails"
  /\ Goto(t, "append")
  /\ seen' = [seen EXCEPT ![t].mails = Len(sheet)]
  /\ tries' = [tries EXCEPT ![t] = Retries]
  /\ UNCHANGED <<sheet, token, form, delivery, newId, row, todo, outbox, faults>>

ReadEmails(t) ==
  /\ pc[t] = "emails"
  /\ \/ Registered(form[t].email) /\ Goto(t, "ack") /\ UNCHANGED <<seen, tries>>
     \/ /\ ~Registered(form[t].email) /\ Goto(t, "append")
        /\ seen' = [seen EXCEPT ![t].mails = Len(sheet)]
        /\ tries' = [tries EXCEPT ![t] = Retries]
  /\ UNCHANGED <<sheet, token, form, delivery, newId, row, todo, outbox, faults>>

NewRow(t) == [id |-> newId[t], email |-> form[t].email, ref |-> Reference(t),
              cells |-> [c \in Cols |-> {}],
              last |-> seen[t].last, mails |-> seen[t].mails]

AppendRow(t) ==
  /\ pc[t] = "append"
  /\ sheet' = Append(sheet, NewRow(t))
  /\ Goto(t, "log")
  /\ tries' = [tries EXCEPT ![t] = Retries]
  /\ UNCHANGED <<token, form, delivery, newId, seen, row, todo, outbox, faults>>

InSheet(ref) == \E i \in 1..Len(sheet) : sheet[i].ref = ref

\* The task ends without its remaining steps after an API error.
Stop(t) ==
  /\ Goto(t, "ack")
  /\ stopped' = stopped \cup {t}
  /\ cut' = cut \cup {Reference(t)}

Error == errors < MaxErrors /\ errors' = errors + 1 /\ UNCHANGED losses

\* Mutant: when it gives up, the task goes on as if the row were there.
AppendFailsUnnoticed(t) ==
  /\ pc[t] = "append" /\ Error
  /\ sheet' \in {sheet, Append(sheet, NewRow(t))}
  /\ \/ /\ tries[t] > 0
        /\ tries' = [tries EXCEPT ![t] = @ - 1]
        /\ UNCHANGED <<pc, stopped, cut>>
     \/ Goto(t, "mail") /\ UNCHANGED <<tries, stopped, cut>>
  /\ UNCHANGED <<token, form, delivery, newId, seen, row, todo, outbox>>

\* append_row fails, applied or not.  It tries again after an APIError while
\* it has retries left; else handle_create logs the error and returns.
AppendFails(t) ==
  /\ pc[t] = "append" /\ Error
  /\ sheet' \in {sheet, Append(sheet, NewRow(t))}
  /\ \/ /\ tries[t] > 0
        /\ tries' = [tries EXCEPT ![t] = @ - 1]
        /\ UNCHANGED <<pc, stopped, cut>>
     \/ Stop(t) /\ UNCHANGED tries
  /\ UNCHANGED <<token, form, delivery, newId, seen, row, todo, outbox>>

\* log_action appends to another worksheet.
LogAction(t) ==
  /\ pc[t] = "log"
  /\ Goto(t, IF form[t].kind = "CREATE" THEN "mail" ELSE "delete")
  /\ UNCHANGED <<sheet, token, form, delivery, work, outbox, faults>>

\* Nobody catches what log_action raises: no mail is sent, no link used up.
LogFails(t) ==
  /\ pc[t] = "log" /\ Error
  /\ \/ /\ tries[t] > 0
        /\ tries' = [tries EXCEPT ![t] = @ - 1]
        /\ UNCHANGED <<pc, stopped, cut>>
     \/ Stop(t) /\ UNCHANGED tries
  /\ UNCHANGED <<sheet, token, form, delivery, newId, seen, row, todo, outbox>>

\* send_email_task.delay for the member; the admins' mail follows with "ack".
MailMember(t) ==
  /\ pc[t] = "mail"
  /\ outbox' = outbox \cup {[to |-> form[t].email, ref |-> Reference(t)]}
  /\ Goto(t, "ack")
  /\ UNCHANGED <<sheet, token, form, delivery, work, faults>>

-----------------------------------------------------------------------------
(* handle_update *)

Valid(k) == token[k].at \in {"asked", "mailed"}

\* Mutant: the link is used up first, as one would for a single-use link.
CheckTokenUsesUp(t) ==
  /\ pc[t] = "token"
  /\ \/ /\ Valid(form[t].token) /\ Goto(t, "find")
        /\ token' = [token EXCEPT ![form[t].token].at = "used"]
     \/ ~Valid(form[t].token) /\ Goto(t, "ack") /\ UNCHANGED token
  /\ UNCHANGED <<sheet, form, delivery, work, outbox, faults>>

CheckToken(t) ==
  /\ pc[t] = "token"
  /\ Goto(t, IF Valid(form[t].token) THEN "find" ELSE "ack")
  /\ UNCHANGED <<sheet, token, form, delivery, work, outbox, faults>>

\* emails.index: the first row with the email.  A link was only mailed to an
\* email in the sheet, where no task removes a row.
FindRow(t) ==
  /\ pc[t] = "find"
  /\ \E i \in 1..Len(sheet) :
       /\ sheet[i].email = form[t].email
       /\ \A j \in 1..(i - 1) : sheet[j].email # form[t].email
       /\ row' = [row EXCEPT ![t] = i]
  /\ todo' = [todo EXCEPT ![t] = form[t].filled]
  /\ Goto(t, "write")
  /\ UNCHANGED <<sheet, token, form, delivery, newId, seen, tries, outbox, faults>>

\* update_row: one update_cell for each column the form filled in.
WriteCell(t) ==
  /\ pc[t] = "write"
  /\ \E c \in todo[t] :
       /\ \A d \in todo[t] : c <= d
       /\ sheet' = [sheet EXCEPT ![row[t]].cells[c] = @ \cup {t}]
       /\ todo' = [todo EXCEPT ![t] = @ \ {c}]
  /\ UNCHANGED <<token, form, pc, delivery, newId, seen, tries, row, outbox, faults>>

RowWritten(t) ==
  /\ pc[t] = "write" /\ todo[t] = {}
  /\ Goto(t, "log")
  /\ tries' = [tries EXCEPT ![t] = Retries]
  /\ UNCHANGED <<sheet, token, form, delivery, newId, seen, row, todo, outbox, faults>>

DeleteToken(t) ==
  /\ pc[t] = "delete"
  /\ token' = [token EXCEPT ![form[t].token].at = "used"]
  /\ Goto(t, "ack")
  /\ UNCHANGED <<sheet, form, delivery, work, outbox, faults>>

-----------------------------------------------------------------------------

\* A call without retries fails: a read of the sheet, or one cell.  The task
\* raises or returns; either way it is acknowledged.
CallFails(t) ==
  /\ pc[t] \in {"last", "emails", "find", "write"} /\ Error
  /\ Stop(t)
  /\ UNCHANGED <<sheet, token, form, delivery, work, outbox>>

Acknowledge(t) ==
  /\ pc[t] = "ack"
  /\ Goto(t, "acked") /\ Forget(t)
  /\ UNCHANGED <<sheet, token, form, delivery, outbox, faults>>

Running(t) == pc[t] \notin {"none", "queued", "acked"}

\* The worker is killed before it has acknowledged the task.
LoseWorker(t) ==
  /\ Running(t) /\ losses < MaxLosses
  /\ losses' = losses + 1
  /\ cut' = cut \cup {Reference(t)}
  /\ Goto(t, "queued") /\ Forget(t)
  /\ UNCHANGED <<sheet, token, form, delivery, outbox, errors, stopped>>

Step(t) ==
  \/ Deliver(t)
  \/ ReadLastRow(t) \/ ReadEmails(t) \/ AppendRow(t) \/ LogAction(t) \/ MailMember(t)
  \/ CheckToken(t) \/ FindRow(t) \/ WriteCell(t) \/ RowWritten(t) \/ DeleteToken(t)
  \/ Acknowledge(t)

Fault(t) == AppendFails(t) \/ LogFails(t) \/ CallFails(t) \/ LoseWorker(t)

Next ==
  \/ \E t \in Tasks : Signup(t) \/ Update(t) \/ Step(t) \/ Fault(t)
  \/ \E k \in Tokens : RequestToken(k) \/ SendTokenEmail(k) \/ Expire(k)

Spec == Init /\ [][Next]_vars

\* The queue is served and a worker goes on with its task; nobody has to fill
\* in a form or ask for a link.
FairSpec == Spec /\ \A t \in Tasks : WF_vars(Step(t))

-----------------------------------------------------------------------------
(* Properties. *)

Steps == {"last", "emails", "append", "log", "mail", "token", "find", "write", "delete", "ack"}

Forms == [kind : {"CREATE", "UPDATE"}, email : Emails, token : Tokens \cup {None},
          filled : SUBSET Cols]

TypeOK ==
  /\ sheet \in Seq(Rows)
  /\ token \in [Tokens -> [to : Emails \cup {None},
                           at : {"none", "asked", "mailed", "used", "expired"}]]
  /\ form \in [Tasks -> Forms \cup {None}]
  /\ pc \in [Tasks -> Steps \cup {"none", "queued", "acked"}]
  /\ delivery \in [Tasks -> Nat]
  /\ newId \in [Tasks -> Nat]
  /\ seen \in [Tasks -> [last : Nat, mails : Nat]]
  /\ tries \in [Tasks -> 0..Retries]
  /\ row \in [Tasks -> Nat]
  /\ todo \in [Tasks -> SUBSET Cols]
  /\ outbox \subseteq [to : Emails, ref : References]
  /\ losses \in Nat /\ errors \in Nat
  /\ stopped \subseteq Tasks /\ cut \subseteq References

\* An email is in the sheet twice only if the second row's run read the emails
\* before the first row was there: a task delivered again after its row was
\* written adds no second one.
EmailRepeatsOnlyByOverlap ==
  \A i, j \in 1..Len(sheet) :
    i < j /\ sheet[i].email = sheet[j].email => sheet[j].mails < i

\* Until a run is overtaken between reading the last row and appending its
\* own, the members are numbered 1, 2, 3, ...
IdsCountUntilOvertaken ==
  \A j \in 1..Len(sheet) :
    (\A i \in 1..j : sheet[i].last = i - 1) => sheet[j].id = j

RepeatsOnlyByOverlap == EmailRepeatsOnlyByOverlap /\ IdsCountUntilOvertaken

OnItsWay(ref) ==
  delivery[ref.task] = ref.run /\ pc[ref.task] \in {"append", "log", "mail"}

Instructed(ref) == \E m \in outbox : m.ref = ref

\* The reference a member is told to pay with is in a row of that member's
\* email, and the run that appended a row goes on to send its instructions,
\* unless an API error or the loss of its worker comes between.
InstructionsMatchRows ==
  /\ \A m \in outbox : \E i \in 1..Len(sheet) :
       sheet[i].ref = m.ref /\ sheet[i].email = m.to
  /\ \A i \in 1..Len(sheet) : LET ref == sheet[i].ref IN
       ref # None => OnItsWay(ref) \/ Instructed(ref) \/ ref \in cut

IsUpdate(u) == form[u] # None /\ form[u].kind = "UPDATE"

\* Every column an update filled in has been written in its row.
Landed(u) ==
  IsUpdate(u) /\ \E i \in 1..Len(sheet) :
    /\ sheet[i].email = form[u].email
    /\ \A c \in form[u].filled : u \in sheet[i].cells[c]

\* What may keep an update from its row: an API error, a link that ran out, or
\* another form sent with the same link that was done first.
Overtaken(u) ==
  IsUpdate(u) /\
    \/ u \in stopped
    \/ token[form[u].token].at = "expired"
    \/ /\ token[form[u].token].at = "used"
       /\ \E w \in Tasks \ {u} : Landed(w) /\ form[w].token = form[u].token

\* An update that has begun to write leaves no half-written row, whenever its
\* worker is lost: the link is deleted last ("Delete the token after
\* successful update"), so the task that is delivered again starts over.
UpdatesLand == \A u \in Tasks : pc[u] = "write" ~> Landed(u) \/ Overtaken(u)

\* What the settings say of a lost worker: it "does not silently drop the
\* task".  A signup that put its member in the sheet and met no API error has,
\* once it is acknowledged, sent the payment instructions.
NothingSilentlyDropped ==
  \A t \in Tasks :
    /\ pc[t] = "acked" /\ t \notin stopped
    /\ \E i \in 1..Len(sheet) : sheet[i].ref # None /\ sheet[i].ref.task = t
    => \E m \in outbox : m.ref.task = t
-----------------------------------------------------------------------------
(* The inductive invariant of the proofs.                                  *)

\* A link that still works is for an email.
TokenInv == \A k \in Tokens : Valid(k) => token[k].to \in Emails

\* A task at a step has a form of the step's kind.
FormInv ==
  \A t \in Tasks :
    /\ pc[t] # "none" => form[t] \in Forms
    /\ pc[t] \in {"last", "emails", "append", "mail"} => form[t].kind = "CREATE"
    /\ pc[t] \in {"token", "find", "write", "delete"} => form[t].kind = "UPDATE"

\* A row's run belongs to a signup of its email, and had seen only rows above it.
RowInv ==
  \A i \in 1..Len(sheet) :
    /\ sheet[i].last < i /\ sheet[i].mails < i
    /\ sheet[i].ref # None =>
         LET t == sheet[i].ref.task IN
           /\ pc[t] # "none" /\ sheet[i].ref.run <= delivery[t]
           /\ form[t].kind = "CREATE" /\ form[t].email = sheet[i].email

\* What a run has read is still what it was when the run read it, and a run
\* that is past its append has its row in the sheet.
RunInv(t) ==
  /\ seen[t].last <= Len(sheet) /\ seen[t].mails <= Len(sheet)
  /\ pc[t] \in {"emails", "append"} =>
       newId[t] = IF seen[t].last = 0 THEN 1 ELSE sheet[seen[t].last].id + 1
  /\ pc[t] = "append" => \A i \in 1..seen[t].mails : sheet[i].email # form[t].email
  /\ pc[t] = "mail" \/ (pc[t] = "log" /\ form[t].kind = "CREATE") => InSheet(Reference(t))
  /\ pc[t] = "write" => row[t] \in 1..Len(sheet)

AlumniInv ==
  /\ TypeOK /\ TokenInv /\ FormInv /\ RowInv
  /\ \A t \in Tasks : RunInv(t)
  /\ RepeatsOnlyByOverlap /\ InstructionsMatchRows
=============================================================================
