---------------------------- MODULE AlumniProofs ----------------------------
(***************************************************************************)
(* The alumni register, for any number of forms, links, lost workers and   *)
(* failed calls: rows repeat only where runs overlapped, and the payment   *)
(* instructions match the rows.                                            *)
(***************************************************************************)
EXTENDS AlumniTasks, TLAPS

\* What the steps need of the constants.
LEMMA Constant == /\ Cols \subseteq Nat /\ Retries \in Nat
                  /\ None \notin References /\ None \notin Emails
BY AlumniAssumption

USE Constant

LEMMA InitInv == Init => AlumniInv
<1> SUFFICES ASSUME Init PROVE AlumniInv
  OBVIOUS
<1>1. sheet \in Seq(Rows)
  BY AlumniAssumption DEF Init
<1>2. TypeOK
  BY <1>1 DEF Init, TypeOK
<1>3. \A i \in 1..Len(sheet) : /\ sheet[i].id = i /\ sheet[i].ref = None
                               /\ sheet[i].last = i - 1 /\ sheet[i].mails = i - 1
                               /\ \A j \in 1..Len(sheet) : sheet[i].email = sheet[j].email => i = j
  BY AlumniAssumption DEF Init
<1>4. RepeatsOnlyByOverlap
  BY <1>3 DEF RepeatsOnlyByOverlap, EmailRepeatsOnlyByOverlap, IdsCountUntilOvertaken
<1>5. InstructionsMatchRows
  BY <1>3 DEF InstructionsMatchRows, Init
<1>6. TokenInv /\ FormInv /\ RowInv
  BY <1>3 DEF TokenInv, Valid, FormInv, RowInv, Init
<1>7. \A t \in Tasks : RunInv(t)
  <2>1. Len(sheet) \in Nat
    BY <1>1
  <2> QED
    BY <2>1 DEF RunInv, Init
<1> QED
  BY <1>2, <1>4, <1>5, <1>6, <1>7 DEF AlumniInv

\* The row a run appends is a row.
LEMMA NewRowType ==
  ASSUME AlumniInv, NEW t \in Tasks, pc[t] = "append"
  PROVE  /\ NewRow(t) \in Rows /\ NewRow(t).id = newId[t] /\ NewRow(t).email = form[t].email
         /\ NewRow(t).ref = Reference(t) /\ Reference(t) \in References /\ Reference(t) # None
         /\ NewRow(t).last = seen[t].last /\ NewRow(t).mails = seen[t].mails
<1>1. form[t] \in Forms /\ newId[t] \in Nat /\ delivery[t] \in Nat
      /\ seen[t] \in [last : Nat, mails : Nat]
  BY DEF AlumniInv, TypeOK, FormInv
<1>2. Reference(t) \in References
  BY <1>1 DEF Reference, References
<1>3. form[t].email \in Emails
  BY <1>1 DEF Forms
<1>4. [c \in Cols |-> {}] \in [Cols -> SUBSET Tasks]
  OBVIOUS
<1> QED
  BY <1>1, <1>2, <1>3, <1>4 DEF NewRow, Rows

LEMMA AppendType ==
  ASSUME NEW s \in Seq(Rows), NEW r \in Rows
  PROVE  Append(s, r) \in Seq(Rows)
OBVIOUS

LEMMA TriesDown ==
  ASSUME TypeOK, NEW t \in Tasks,
         \/ tries[t] > 0 /\ tries' = [tries EXCEPT ![t] = @ - 1]
         \/ UNCHANGED tries
  PROVE  tries' \in [Tasks -> 0..Retries]
<1>1. tries[t] \in 0..Retries
  BY DEF TypeOK
<1>2. CASE tries[t] > 0 /\ tries' = [tries EXCEPT ![t] = @ - 1]
  <2>1. tries[t] - 1 \in 0..Retries
    BY <1>1, <1>2
  <2> QED
    BY <1>2, <2>1 DEF TypeOK
<1> QED
  BY <1>2 DEF TypeOK

LEMMA TriesFull ==
  ASSUME TypeOK, NEW t \in Tasks, tries' = [tries EXCEPT ![t] = Retries]
  PROVE  tries' \in [Tasks -> 0..Retries]
<1>1. Retries \in 0..Retries
  BY AlumniAssumption
<1> QED
  BY <1>1 DEF TypeOK

LEMMA StopType ==
  ASSUME TypeOK, NEW t \in Tasks, Stop(t)
  PROVE  /\ pc' \in [Tasks -> Steps \cup {"none", "queued", "acked"}]
         /\ stopped' \subseteq Tasks /\ cut' \subseteq References
<1>1. Reference(t) \in References
  BY DEF TypeOK, Reference, References
<1> QED
  BY <1>1 DEF TypeOK, Stop, Goto, Steps

LEMMA ForgetType ==
  ASSUME TypeOK, NEW t \in Tasks, Forget(t)
  PROVE  /\ newId' \in [Tasks -> Nat] /\ seen' \in [Tasks -> [last : Nat, mails : Nat]]
         /\ tries' \in [Tasks -> 0..Retries] /\ row' \in [Tasks -> Nat]
         /\ todo' \in [Tasks -> SUBSET Cols]
<1>1. 0 \in 0..Retries /\ [last |-> 0, mails |-> 0] \in [last : Nat, mails : Nat]
  OBVIOUS
<1> QED
  BY <1>1 DEF TypeOK, Forget

LEMMA TokenStep ==
  ASSUME TypeOK, NEW k \in Tokens, RequestToken(k) \/ SendTokenEmail(k) \/ Expire(k)
  PROVE  \E x \in [to : Emails \cup {None}, at : {"none", "asked", "mailed", "used", "expired"}] :
           token' = [token EXCEPT ![k] = x]
<1>1. token[k] \in [to : Emails \cup {None}, at : {"none", "asked", "mailed", "used", "expired"}]
  BY DEF TypeOK
<1>2. CASE RequestToken(k)
  BY <1>2 DEF RequestToken
<1>3. CASE SendTokenEmail(k)
  <2>1. token' = [token EXCEPT ![k] = [token[k] EXCEPT !.at = "mailed"]]
    BY <1>3 DEF SendTokenEmail
  <2> QED
    BY <1>1, <2>1
<1>4. CASE Expire(k)
  <2>1. token' = [token EXCEPT ![k] = [token[k] EXCEPT !.at = "expired"]]
    BY <1>4 DEF Expire
  <2> QED
    BY <1>1, <2>1
<1> QED
  BY <1>2, <1>3, <1>4

(* TypeOK by what it is about, for the steps that change several parts.     *)

StoreTypes ==
  /\ sheet \in Seq(Rows)
  /\ token \in [Tokens -> [to : Emails \cup {None},
                           at : {"none", "asked", "mailed", "used", "expired"}]]
  /\ outbox \subseteq [to : Emails, ref : References]

QueueTypes ==
  /\ form \in [Tasks -> Forms \cup {None}]
  /\ pc \in [Tasks -> Steps \cup {"none", "queued", "acked"}]
  /\ delivery \in [Tasks -> Nat]

WorkTypes ==
  /\ newId \in [Tasks -> Nat]
  /\ seen \in [Tasks -> [last : Nat, mails : Nat]]
  /\ tries \in [Tasks -> 0..Retries]
  /\ row \in [Tasks -> Nat]
  /\ todo \in [Tasks -> SUBSET Cols]

FaultTypes ==
  /\ losses \in Nat /\ errors \in Nat
  /\ stopped \subseteq Tasks /\ cut \subseteq References

LEMMA TypeParts == TypeOK => StoreTypes /\ QueueTypes /\ WorkTypes /\ FaultTypes
BY DEF TypeOK, StoreTypes, QueueTypes, WorkTypes, FaultTypes

LEMMA PartsType == (StoreTypes /\ QueueTypes /\ WorkTypes /\ FaultTypes)' => TypeOK'
BY DEF TypeOK, StoreTypes, QueueTypes, WorkTypes, FaultTypes

\* What a step leaves alone keeps its types.
LEMMA StoreSame == StoreTypes /\ UNCHANGED <<sheet, token, outbox>> => StoreTypes'
BY DEF StoreTypes

LEMMA FaultSame == FaultTypes /\ UNCHANGED faults => FaultTypes'
BY DEF FaultTypes, faults

LEMMA QueueStep ==
  ASSUME QueueTypes, UNCHANGED <<form, delivery>>,
         pc' \in [Tasks -> Steps \cup {"none", "queued", "acked"}]
  PROVE  QueueTypes'
BY DEF QueueTypes

LEMMA TypeStep == AlumniInv /\ Next => TypeOK'
<1> SUFFICES ASSUME AlumniInv, Next PROVE TypeOK'
  OBVIOUS
<1>0. TypeOK
  BY DEF AlumniInv
<1> USE DEF work, faults, Goto, Steps
<1>1. ASSUME NEW t \in Tasks, Signup(t) PROVE TypeOK'
  <2>1. PICK e \in Emails : form' = [form EXCEPT ![t] = [kind |-> "CREATE", email |-> e,
                                       token |-> None, filled |-> {}]]
    BY <1>1 DEF Signup
  <2>2. [kind |-> "CREATE", email |-> e, token |-> None, filled |-> {}] \in Forms
    BY DEF Forms
  <2>3. form' \in [Tasks -> Forms \cup {None}]
    BY <1>0, <2>1, <2>2 DEF TypeOK
  <2> QED
    BY <1>0, <1>1, <2>3 DEF TypeOK, Signup
<1>2. ASSUME NEW t \in Tasks, Update(t) PROVE TypeOK'
  <2>1. PICK k \in Tokens, filled \in SUBSET Cols :
          /\ token[k].at = "mailed"
          /\ form' = [form EXCEPT ![t] = [kind |-> "UPDATE", email |-> token[k].to,
                                       token |-> k, filled |-> filled]]
    BY <1>2 DEF Update
  <2>2. [kind |-> "UPDATE", email |-> token[k].to, token |-> k, filled |-> filled] \in Forms
    BY <2>1 DEF AlumniInv, TokenInv, Valid, Forms
  <2>3. form' \in [Tasks -> Forms \cup {None}]
    BY <1>0, <2>1, <2>2 DEF TypeOK
  <2> QED
    BY <1>0, <1>2, <2>3 DEF TypeOK, Update
<1>3. ASSUME NEW t \in Tasks, Deliver(t) PROVE TypeOK'
  <2>1. delivery' \in [Tasks -> Nat]
    BY <1>0, <1>3 DEF TypeOK, Deliver
  <2>2. pc' \in [Tasks -> Steps \cup {"none", "queued", "acked"}]
    BY <1>0, <1>3 DEF TypeOK, Deliver
  <2>3. UNCHANGED <<sheet, token, form, work, outbox, faults>>
    BY <1>3 DEF Deliver
  <2> QED
    BY <1>0, <2>1, <2>2, <2>3 DEF TypeOK
<1>4. ASSUME NEW t \in Tasks, ReadLastRow(t) PROVE TypeOK'
  <2>1. LastId \in Nat /\ Len(sheet) \in Nat
    <3>1. sheet \in Seq(Rows)
      BY <1>0 DEF TypeOK
    <3>2. Len(sheet) \in Nat
      BY <3>1
    <3>3. CASE sheet = <<>>
      BY <3>2, <3>3 DEF LastId
    <3>4. CASE sheet # <<>>
      <4>1. sheet[Len(sheet)] \in Rows
        BY <3>1, <3>4
      <4> QED
        BY <3>2, <3>4, <4>1 DEF LastId, Rows
    <3> QED
      BY <3>3, <3>4
  <2>2. LastId + 1 \in Nat /\ [last |-> Len(sheet), mails |-> 0] \in [last : Nat, mails : Nat]
    BY <2>1
  <2>3. newId' \in [Tasks -> Nat] /\ seen' \in [Tasks -> [last : Nat, mails : Nat]]
    BY <1>0, <1>4, <2>2 DEF TypeOK, ReadLastRow
  <2>4. pc' \in [Tasks -> Steps \cup {"none", "queued", "acked"}]
    BY <1>0, <1>4 DEF TypeOK, ReadLastRow
  <2>5. UNCHANGED <<sheet, token, outbox>> /\ UNCHANGED <<form, delivery>>
        /\ UNCHANGED faults /\ UNCHANGED <<tries, row, todo>>
    BY <1>4 DEF ReadLastRow
  <2>6. WorkTypes'
    BY <1>0, <2>3, <2>5, TypeParts DEF WorkTypes
  <2> QED
    BY <1>0, <2>4, <2>5, <2>6, TypeParts, PartsType, StoreSame, QueueStep, FaultSame
<1>5. ASSUME NEW t \in Tasks, ReadEmails(t) PROVE TypeOK'
  <2>1. seen' \in [Tasks -> [last : Nat, mails : Nat]]
    <3>1. CASE UNCHANGED seen
      BY <1>0, <3>1 DEF TypeOK
    <3>2. CASE seen' = [seen EXCEPT ![t].mails = Len(sheet)]
      <4>1. Len(sheet) \in Nat /\ seen[t] \in [last : Nat, mails : Nat]
        BY <1>0 DEF TypeOK
      <4>2. [seen[t] EXCEPT !.mails = Len(sheet)] \in [last : Nat, mails : Nat]
        BY <4>1
      <4> QED
        BY <1>0, <3>2, <4>2 DEF TypeOK
    <3> QED
      BY <1>5, <3>1, <3>2 DEF ReadEmails
  <2>2. tries' \in [Tasks -> 0..Retries]
    <3>1. UNCHANGED tries \/ tries' = [tries EXCEPT ![t] = Retries]
      BY <1>5 DEF ReadEmails
    <3> QED
      BY <1>0, <3>1, TriesFull DEF TypeOK
  <2>3. pc' \in [Tasks -> Steps \cup {"none", "queued", "acked"}]
    BY <1>0, <1>5 DEF TypeOK, ReadEmails
  <2> QED
    BY <1>0, <1>5, <2>1, <2>2, <2>3 DEF TypeOK, ReadEmails
<1>6. ASSUME NEW t \in Tasks, AppendRow(t) PROVE TypeOK'
  <2>1. sheet' \in Seq(Rows)
    <3>1. sheet \in Seq(Rows)
      BY <1>0 DEF TypeOK
    <3>2. NewRow(t) \in Rows
      BY <1>6, NewRowType DEF AppendRow
    <3> QED
      BY <1>6, <3>1, <3>2, AppendType DEF AppendRow
  <2>2. tries' \in [Tasks -> 0..Retries]
    BY <1>0, <1>6, TriesFull DEF AppendRow
  <2>3. UNCHANGED <<token, form, delivery, newId, seen, row, todo, outbox, faults>>
    BY <1>6 DEF AppendRow
  <2>4. pc' \in [Tasks -> Steps \cup {"none", "queued", "acked"}]
    BY <1>0, <1>6 DEF TypeOK, AppendRow
  <2> QED
    BY <1>0, <2>1, <2>2, <2>3, <2>4 DEF TypeOK
<1>7. ASSUME NEW t \in Tasks, AppendFails(t) PROVE TypeOK'
  <2>1. sheet' \in Seq(Rows)
    <3>1. sheet \in Seq(Rows)
      BY <1>0 DEF TypeOK
    <3>2. NewRow(t) \in Rows
      BY <1>7, NewRowType DEF AppendFails
    <3> QED
      BY <1>7, <3>1, <3>2, AppendType DEF AppendFails
  <2>2. tries' \in [Tasks -> 0..Retries]
    BY <1>0, <1>7, TriesDown DEF TypeOK, AppendFails
  <2>3. UNCHANGED <<token, form, delivery, newId, seen, row, todo, outbox, losses>>
        /\ errors' = errors + 1
    BY <1>7 DEF AppendFails, Error
  <2>4. CASE UNCHANGED <<pc, stopped, cut>>
    BY <1>0, <2>1, <2>2, <2>3, <2>4 DEF TypeOK
  <2>5. CASE Stop(t)
    <3>1. /\ pc' \in [Tasks -> Steps \cup {"none", "queued", "acked"}]
          /\ stopped' \subseteq Tasks /\ cut' \subseteq References
      BY <1>0, <2>5, StopType
    <3> QED
      BY <1>0, <2>1, <2>2, <2>3, <3>1 DEF TypeOK
  <2> QED
    BY <1>7, <2>4, <2>5 DEF AppendFails
<1>8. ASSUME NEW t \in Tasks, LogAction(t) PROVE TypeOK'
  BY <1>0, <1>8 DEF TypeOK, LogAction
<1>9. ASSUME NEW t \in Tasks, LogFails(t) PROVE TypeOK'
  <2>1. UNCHANGED <<sheet, token, form, delivery, newId, seen, row, todo, outbox, losses>>
        /\ errors' = errors + 1
    BY <1>9 DEF LogFails, Error
  <2>2. tries' \in [Tasks -> 0..Retries]
    BY <1>0, <1>9, TriesDown DEF TypeOK, LogFails
  <2>3. CASE UNCHANGED <<pc, stopped, cut>>
    BY <1>0, <2>1, <2>2, <2>3 DEF TypeOK
  <2>4. CASE Stop(t)
    <3>1. /\ pc' \in [Tasks -> Steps \cup {"none", "queued", "acked"}]
          /\ stopped' \subseteq Tasks /\ cut' \subseteq References
      BY <1>0, <2>4, StopType
    <3> QED
      BY <1>0, <2>1, <2>2, <3>1 DEF TypeOK
  <2> QED
    BY <1>9, <2>3, <2>4 DEF LogFails
<1>10. ASSUME NEW t \in Tasks, MailMember(t) PROVE TypeOK'
  <2>1. form[t] \in Forms /\ Reference(t) \in References
    BY <1>0, <1>10 DEF AlumniInv, FormInv, TypeOK, Reference, References, MailMember
  <2>2. [to |-> form[t].email, ref |-> Reference(t)] \in [to : Emails, ref : References]
    BY <2>1 DEF Forms
  <2> QED
    BY <1>0, <1>10, <2>2 DEF TypeOK, MailMember
<1>11. ASSUME NEW t \in Tasks, CheckToken(t) PROVE TypeOK'
  BY <1>0, <1>11 DEF TypeOK, CheckToken
<1>12. ASSUME NEW t \in Tasks, FindRow(t) PROVE TypeOK'
  <2>1. form[t].filled \in SUBSET Cols
    BY <1>0, <1>12 DEF AlumniInv, FormInv, Forms, FindRow
  <2> QED
    BY <1>0, <1>12, <2>1 DEF TypeOK, FindRow
<1>13. ASSUME NEW t \in Tasks, WriteCell(t) PROVE TypeOK'
  <2>1. PICK c \in todo[t] : /\ sheet' = [sheet EXCEPT ![row[t]].cells[c] = @ \cup {t}]
                             /\ todo' = [todo EXCEPT ![t] = @ \ {c}]
    BY <1>13 DEF WriteCell
  <2>2. row[t] \in 1..Len(sheet) /\ c \in Cols
    BY <1>0, <1>13 DEF AlumniInv, RunInv, TypeOK, WriteCell
  <2>3. sheet[row[t]] \in Rows
    BY <1>0, <2>2 DEF TypeOK
  <2>4. [sheet[row[t]] EXCEPT !.cells[c] = @ \cup {t}] \in Rows
    BY <2>2, <2>3 DEF Rows
  <2>5. sheet' \in Seq(Rows)
    BY <1>0, <2>1, <2>2, <2>4 DEF TypeOK
  <2> QED
    BY <1>0, <1>13, <2>1, <2>5 DEF TypeOK, WriteCell
<1>14. ASSUME NEW t \in Tasks, RowWritten(t) PROVE TypeOK'
  <2>1. /\ UNCHANGED <<sheet, token, outbox>> /\ UNCHANGED <<form, delivery>>
        /\ UNCHANGED faults /\ UNCHANGED <<newId, seen, row, todo>>
        /\ tries' = [tries EXCEPT ![t] = Retries]
    BY <1>14 DEF RowWritten
  <2>2. pc' \in [Tasks -> Steps \cup {"none", "queued", "acked"}]
    BY <1>0, <1>14 DEF TypeOK, RowWritten
  <2>3. WorkTypes'
    BY <1>0, <2>1, TriesFull, TypeParts DEF WorkTypes
  <2> QED
    BY <1>0, <2>1, <2>2, <2>3, TypeParts, PartsType, StoreSame, QueueStep, FaultSame
<1>15. ASSUME NEW t \in Tasks, DeleteToken(t) PROVE TypeOK'
  <2>1. /\ UNCHANGED <<sheet, outbox>> /\ UNCHANGED <<form, delivery>>
        /\ UNCHANGED faults /\ UNCHANGED work
        /\ token' = [token EXCEPT ![form[t].token].at = "used"]
    BY <1>15 DEF DeleteToken
  <2>2. pc' \in [Tasks -> Steps \cup {"none", "queued", "acked"}]
    BY <1>0, <1>15 DEF TypeOK, DeleteToken
  <2>3. StoreTypes'
    BY <1>0, <2>1, TypeParts DEF StoreTypes
  <2>4. WorkTypes'
    BY <1>0, <2>1, TypeParts DEF WorkTypes
  <2> QED
    BY <1>0, <2>1, <2>2, <2>3, <2>4, TypeParts, PartsType, QueueStep, FaultSame
<1>16. ASSUME NEW t \in Tasks, CallFails(t) PROVE TypeOK'
  <2>1. /\ Stop(t) /\ errors' = errors + 1 /\ UNCHANGED <<losses, work>>
        /\ UNCHANGED <<sheet, token, outbox>> /\ UNCHANGED <<form, delivery>>
    BY <1>16 DEF CallFails, Error
  <2>2. FaultTypes'
    BY <1>0, <2>1, StopType, TypeParts DEF FaultTypes
  <2>3. WorkTypes'
    BY <1>0, <2>1, TypeParts DEF WorkTypes
  <2>4. QueueTypes'
    BY <1>0, <2>1, StopType, TypeParts, QueueStep
  <2> QED
    BY <1>0, <2>1, <2>2, <2>3, <2>4, TypeParts, PartsType, StoreSame
<1>17. ASSUME NEW t \in Tasks, Acknowledge(t) PROVE TypeOK'
  <2>1. Forget(t) /\ UNCHANGED <<sheet, token, outbox>> /\ UNCHANGED <<form, delivery>>
        /\ UNCHANGED faults
    BY <1>17 DEF Acknowledge
  <2>2. pc' \in [Tasks -> Steps \cup {"none", "queued", "acked"}]
    BY <1>0, <1>17 DEF TypeOK, Acknowledge
  <2>3. WorkTypes'
    BY <1>0, <2>1, ForgetType DEF WorkTypes
  <2> QED
    BY <1>0, <2>1, <2>2, <2>3, TypeParts, PartsType, StoreSame, QueueStep, FaultSame
<1>18. ASSUME NEW t \in Tasks, LoseWorker(t) PROVE TypeOK'
  <2>1. Reference(t) \in References
    BY <1>0 DEF TypeOK, Reference, References
  <2>2. cut' \subseteq References
    BY <1>0, <1>18, <2>1 DEF TypeOK, LoseWorker
  <2>3. /\ UNCHANGED <<sheet, token, outbox>> /\ UNCHANGED <<form, delivery>>
        /\ UNCHANGED <<errors, stopped>> /\ losses' = losses + 1 /\ Forget(t)
    BY <1>18 DEF LoseWorker
  <2>4. pc' \in [Tasks -> Steps \cup {"none", "queued", "acked"}]
    BY <1>0, <1>18 DEF TypeOK, LoseWorker
  <2>5. WorkTypes'
    BY <1>0, <2>3, ForgetType DEF WorkTypes
  <2>6. FaultTypes'
    BY <1>0, <2>2, <2>3, TypeParts DEF FaultTypes
  <2> QED
    BY <1>0, <2>3, <2>4, <2>5, <2>6, TypeParts, PartsType, StoreSame, QueueStep
<1>19. ASSUME NEW k \in Tokens, RequestToken(k) \/ SendTokenEmail(k) \/ Expire(k) PROVE TypeOK'
  <2>1. UNCHANGED <<sheet, form, pc, delivery, work, outbox, faults>>
    BY <1>19 DEF RequestToken, SendTokenEmail, Expire
  <2>2. PICK x \in [to : Emails \cup {None}, at : {"none", "asked", "mailed", "used", "expired"}] :
          token' = [token EXCEPT ![k] = x]
    BY <1>0, <1>19, TokenStep
  <2> QED
    BY <1>0, <2>1, <2>2 DEF TypeOK
<1> QED
  BY <1>1, <1>2, <1>3, <1>4, <1>5, <1>6, <1>7, <1>8, <1>9, <1>10, <1>11, <1>12, <1>13,
     <1>14, <1>15, <1>16, <1>17, <1>18, <1>19 DEF Next, Step, Fault

-----------------------------------------------------------------------------
(* What a step does to the sheet and to the tasks.                         *)

Act(t) == Signup(t) \/ Update(t) \/ Step(t) \/ Fault(t)

\* Nothing in a row changes but who has written its cells.
RowsKept ==
  \A i \in 1..Len(sheet) :
    /\ sheet'[i].id = sheet[i].id /\ sheet'[i].email = sheet[i].email
    /\ sheet'[i].ref = sheet[i].ref
    /\ sheet'[i].last = sheet[i].last /\ sheet'[i].mails = sheet[i].mails

Kept == RowsKept /\ Len(sheet') = Len(sheet)

Added(t) == /\ pc[t] = "append" /\ RowsKept /\ Len(sheet') = Len(sheet) + 1
            /\ sheet'[Len(sheet')] = NewRow(t)

LEMMA AppendAdds ==
  ASSUME AlumniInv, NEW t \in Tasks, pc[t] = "append", sheet' = Append(sheet, NewRow(t))
  PROVE  Added(t)
<1>1. sheet \in Seq(Rows) /\ NewRow(t) \in Rows
  BY NewRowType DEF AlumniInv, TypeOK
<1>2. Len(sheet') = Len(sheet) + 1 /\ sheet'[Len(sheet) + 1] = NewRow(t)
  BY <1>1
<1>3. \A i \in 1..Len(sheet) : sheet'[i] = sheet[i]
  BY <1>1
<1> QED
  BY <1>2, <1>3 DEF Added, RowsKept

LEMMA CellKeeps ==
  ASSUME AlumniInv, NEW t \in Tasks, WriteCell(t)
  PROVE  Kept
<1>1. PICK c \in todo[t] : sheet' = [sheet EXCEPT ![row[t]].cells[c] = @ \cup {t}]
  BY DEF WriteCell
<1>2. sheet \in Seq(Rows) /\ row[t] \in 1..Len(sheet)
  BY DEF AlumniInv, TypeOK, RunInv, WriteCell
<1>3. sheet[row[t]] \in Rows
  BY <1>2
<1> DEFINE r == [sheet[row[t]] EXCEPT !.cells[c] = @ \cup {t}]
<1>4. /\ r.id = sheet[row[t]].id /\ r.email = sheet[row[t]].email /\ r.ref = sheet[row[t]].ref
      /\ r.last = sheet[row[t]].last /\ r.mails = sheet[row[t]].mails
  BY <1>3 DEF Rows
<1>5. sheet' = [sheet EXCEPT ![row[t]] = r]
  BY <1>1
<1> HIDE DEF r
<1>6. Len(sheet') = Len(sheet)
  BY <1>2, <1>5
<1>7. \A i \in 1..Len(sheet) : sheet'[i] = IF i = row[t] THEN r ELSE sheet[i]
  BY <1>2, <1>5
<1> QED
  BY <1>4, <1>6, <1>7 DEF Kept, RowsKept

\* A step leaves the rows as they are, or a run at its append adds its own.
LEMMA SheetStep ==
  ASSUME AlumniInv, NEW t \in Tasks, Act(t)
  PROVE  Kept \/ Added(t)
<1>1. ASSUME AppendRow(t) PROVE Added(t)
  BY <1>1, AppendAdds DEF AppendRow
<1>2. ASSUME UNCHANGED sheet PROVE Kept
  BY <1>2 DEF Kept, RowsKept
<1>3. ASSUME AppendFails(t) PROVE Kept \/ Added(t)
  BY <1>2, <1>3, AppendAdds DEF AppendFails
<1>4. ASSUME WriteCell(t) PROVE Kept
  BY <1>4, CellKeeps
<1> QED
  BY <1>1, <1>2, <1>3, <1>4
  DEF Act, Step, Fault, Signup, Update, Deliver, ReadLastRow, ReadEmails, LogAction, MailMember,
      CheckToken, FindRow, RowWritten, DeleteToken, Acknowledge, LogFails, CallFails, LoseWorker

\* Everything a task knows of itself.
Same(u) ==
  /\ pc'[u] = pc[u] /\ form'[u] = form[u] /\ delivery'[u] = delivery[u]
  /\ newId'[u] = newId[u] /\ seen'[u] = seen[u] /\ row'[u] = row[u]

LEMMA OthersSame ==
  ASSUME AlumniInv, NEW t \in Tasks, Act(t), NEW u \in Tasks, u # t
  PROVE  Same(u)
<1>0. /\ DOMAIN pc = Tasks /\ DOMAIN form = Tasks /\ DOMAIN delivery = Tasks
      /\ DOMAIN newId = Tasks /\ DOMAIN seen = Tasks /\ DOMAIN row = Tasks
  BY DEF AlumniInv, TypeOK
<1> USE <1>0 DEF Same, Goto, work, faults
<1>1. ASSUME Signup(t) \/ Update(t) PROVE Same(u)
  BY <1>1 DEF Signup, Update
<1>2. ASSUME Deliver(t) \/ ReadLastRow(t) PROVE Same(u)
  BY <1>2 DEF Deliver, ReadLastRow
<1>3. ASSUME ReadEmails(t) PROVE Same(u)
  BY <1>3 DEF ReadEmails
<1>4. ASSUME AppendRow(t) \/ LogAction(t) \/ MailMember(t) PROVE Same(u)
  BY <1>4 DEF AppendRow, LogAction, MailMember
<1>5. ASSUME CheckToken(t) \/ FindRow(t) \/ WriteCell(t) PROVE Same(u)
  BY <1>5 DEF CheckToken, FindRow, WriteCell
<1>6. ASSUME RowWritten(t) \/ DeleteToken(t) PROVE Same(u)
  BY <1>6 DEF RowWritten, DeleteToken
<1>7. ASSUME Acknowledge(t) \/ LoseWorker(t) PROVE Same(u)
  BY <1>7 DEF Acknowledge, LoseWorker, Forget
<1>8. ASSUME AppendFails(t) \/ LogFails(t) \/ CallFails(t) PROVE Same(u)
  BY <1>8 DEF AppendFails, LogFails, CallFails, Stop
<1> QED
  BY <1>1, <1>2, <1>3, <1>4, <1>5, <1>6, <1>7, <1>8 DEF Act, Step, Fault

\* What a step makes of its own task.
SelfOK(t) ==
  /\ pc[t] # "none" => form'[t] = form[t]
  /\ delivery[t] <= delivery'[t] /\ pc'[t] # "none"
  /\ pc'[t] # "none" => form'[t] \in Forms
  /\ pc'[t] \in {"last", "emails", "append", "mail"} => form'[t].kind = "CREATE"
  /\ pc'[t] \in {"token", "find", "write", "delete"} => form'[t].kind = "UPDATE"

LEMMA SelfStep ==
  ASSUME AlumniInv, NEW t \in Tasks, Act(t)
  PROVE  SelfOK(t)
<1>0. /\ DOMAIN pc = Tasks /\ DOMAIN form = Tasks /\ DOMAIN delivery = Tasks
      /\ delivery[t] \in Nat
      /\ pc[t] # "none" => form[t] \in Forms
      /\ pc[t] \in {"last", "emails", "append", "mail"} => form[t].kind = "CREATE"
      /\ pc[t] \in {"token", "find", "write", "delete"} => form[t].kind = "UPDATE"
  BY DEF AlumniInv, TypeOK, FormInv
<1>a. form[t] \in Forms => form[t].kind \in {"CREATE", "UPDATE"}
  BY DEF Forms
<1> USE <1>0, <1>a DEF SelfOK, Goto, work, faults
<1>1. ASSUME Signup(t) PROVE SelfOK(t)
  <2>1. PICK e \in Emails : form' = [form EXCEPT ![t] = [kind |-> "CREATE", email |-> e,
                                       token |-> None, filled |-> {}]]
    BY <1>1 DEF Signup
  <2>2. [kind |-> "CREATE", email |-> e, token |-> None, filled |-> {}] \in Forms
    BY DEF Forms
  <2> QED
    BY <1>1, <2>1, <2>2 DEF Signup
<1>2. ASSUME Update(t) PROVE SelfOK(t)
  <2>1. PICK k \in Tokens, filled \in SUBSET Cols :
          /\ token[k].at = "mailed"
          /\ form' = [form EXCEPT ![t] = [kind |-> "UPDATE", email |-> token[k].to,
                                       token |-> k, filled |-> filled]]
    BY <1>2 DEF Update
  <2>2. [kind |-> "UPDATE", email |-> token[k].to, token |-> k, filled |-> filled] \in Forms
    BY <2>1 DEF AlumniInv, TokenInv, Valid, Forms
  <2> QED
    BY <1>2, <2>1, <2>2 DEF Update
<1>3. ASSUME Deliver(t) PROVE SelfOK(t)
  BY <1>3 DEF Deliver
<1>4. ASSUME ReadLastRow(t) \/ ReadEmails(t) PROVE SelfOK(t)
  BY <1>4 DEF ReadLastRow, ReadEmails
<1>5. ASSUME AppendRow(t) \/ LogAction(t) \/ MailMember(t) PROVE SelfOK(t)
  BY <1>5 DEF AppendRow, LogAction, MailMember
<1>6. ASSUME CheckToken(t) \/ FindRow(t) \/ WriteCell(t) PROVE SelfOK(t)
  BY <1>6 DEF CheckToken, FindRow, WriteCell
<1>7. ASSUME RowWritten(t) \/ DeleteToken(t) PROVE SelfOK(t)
  BY <1>7 DEF RowWritten, DeleteToken
<1>8. ASSUME Acknowledge(t) \/ LoseWorker(t) PROVE SelfOK(t)
  BY <1>8 DEF Acknowledge, LoseWorker, Running
<1>9. ASSUME AppendFails(t) \/ LogFails(t) \/ CallFails(t) PROVE SelfOK(t)
  BY <1>9 DEF AppendFails, LogFails, CallFails, Stop
<1> QED
  BY <1>1, <1>2, <1>3, <1>4, <1>5, <1>6, <1>7, <1>8, <1>9 DEF Act, Step, Fault

LEMMA FormInvStep ==
  ASSUME AlumniInv, NEW t \in Tasks, Act(t)
  PROVE  FormInv'
<1>1. SelfOK(t) /\ \A u \in Tasks \ {t} : Same(u)
  BY SelfStep, OthersSame
<1>2. FormInv
  BY DEF AlumniInv
<1> QED
  BY <1>1, <1>2 DEF FormInv, SelfOK, Same

\* Links change by their own steps, and by the run that uses one up.
LEMMA TokenInvStep ==
  ASSUME AlumniInv, Next
  PROVE  TokenInv'
<1>0. TokenInv /\ DOMAIN token = Tokens
      /\ \A k \in Tokens : token[k] \in [to : Emails \cup {None},
           at : {"none", "asked", "mailed", "used", "expired"}]
  BY DEF AlumniInv, TypeOK
<1>1. ASSUME UNCHANGED token PROVE TokenInv'
  BY <1>0, <1>1 DEF TokenInv, Valid
<1>2. ASSUME NEW k \in Tokens, RequestToken(k) PROVE TokenInv'
  BY <1>0, <1>2 DEF TokenInv, Valid, RequestToken
<1>3. ASSUME NEW k \in Tokens, SendTokenEmail(k) \/ Expire(k) PROVE TokenInv'
  <2>1. Valid(k) /\ token'[k].to = token[k].to /\ \A l \in Tokens \ {k} : token'[l] = token[l]
    BY <1>0, <1>3 DEF SendTokenEmail, Expire, Valid
  <2> QED
    BY <1>0, <2>1 DEF TokenInv, Valid
<1>4. ASSUME NEW t \in Tasks, DeleteToken(t) PROVE TokenInv'
  <2> DEFINE k == form[t].token
  <2>1. token' = [token EXCEPT ![k].at = "used"]
    BY <1>4 DEF DeleteToken
  <2> HIDE DEF k
  <2>2. \A l \in Tokens : token'[l].to = token[l].to
                          /\ token'[l].at \in {token[l].at, "used"}
    BY <1>0, <2>1
  <2> QED
    BY <1>0, <2>2 DEF TokenInv, Valid
<1> QED
  BY <1>1, <1>2, <1>3, <1>4
  DEF Next, Step, Fault, Signup, Update, Deliver, ReadLastRow, ReadEmails, AppendRow, LogAction,
      MailMember, CheckToken, FindRow, WriteCell, RowWritten, Acknowledge, AppendFails,
      LogFails, CallFails, LoseWorker

-----------------------------------------------------------------------------
(* The rows.                                                               *)

\* The facts the row lemmas share.
LEMMA RowFacts ==
  ASSUME AlumniInv, NEW t \in Tasks, Act(t)
  PROVE  /\ TypeOK /\ TypeOK' /\ Len(sheet) \in Nat
         /\ Kept \/ Added(t)
         /\ SelfOK(t) /\ \A u \in Tasks \ {t} : Same(u)
<1>1. Next
  BY DEF Next, Act
<1>2. TypeOK /\ Len(sheet) \in Nat
  BY DEF AlumniInv, TypeOK
<1> QED
  BY <1>1, <1>2, TypeStep, SheetStep, SelfStep, OthersSame

\* What the new row says, whichever run adds it.
LEMMA AddedRow ==
  ASSUME AlumniInv, NEW t \in Tasks, Added(t)
  PROVE  LET r == sheet'[Len(sheet) + 1] IN
         /\ r.id = newId[t] /\ r.email = form[t].email /\ r.ref = Reference(t)
         /\ r.last = seen[t].last /\ r.mails = seen[t].mails
         /\ seen[t].last \in 0..Len(sheet) /\ seen[t].mails \in 0..Len(sheet)
         /\ newId[t] = IF seen[t].last = 0 THEN 1 ELSE sheet[seen[t].last].id + 1
         /\ \A i \in 1..seen[t].mails : sheet[i].email # form[t].email
         /\ form[t].kind = "CREATE"
<1>1. RunInv(t) /\ pc[t] = "append" /\ seen[t] \in [last : Nat, mails : Nat]
      /\ Len(sheet) \in Nat
  BY DEF AlumniInv, TypeOK, Added
<1>2. form[t].kind = "CREATE"
  BY <1>1 DEF AlumniInv, FormInv
<1>3. sheet'[Len(sheet) + 1] = NewRow(t)
  BY DEF Added
<1> QED
  BY <1>1, <1>2, <1>3, NewRowType DEF RunInv

LEMMA RowInvStep ==
  ASSUME AlumniInv, NEW t \in Tasks, Act(t)
  PROVE  RowInv'
<1>1. /\ TypeOK /\ Len(sheet) \in Nat
      /\ Kept \/ Added(t)
      /\ SelfOK(t) /\ \A u \in Tasks \ {t} : Same(u)
  BY RowFacts
<1>2. ASSUME NEW i \in 1..Len(sheet), RowsKept
      PROVE  /\ sheet'[i].last < i /\ sheet'[i].mails < i
             /\ sheet'[i].ref # None =>
                  LET u == sheet'[i].ref.task IN
                    /\ pc'[u] # "none" /\ sheet'[i].ref.run <= delivery'[u]
                    /\ form'[u].kind = "CREATE" /\ form'[u].email = sheet'[i].email
  <2>1. /\ sheet'[i].email = sheet[i].email /\ sheet'[i].ref = sheet[i].ref
        /\ sheet'[i].last = sheet[i].last /\ sheet'[i].mails = sheet[i].mails
    BY <1>2 DEF RowsKept
  <2>2. RowInv
    BY DEF AlumniInv
  <2>3. SUFFICES ASSUME sheet[i].ref # None
                 PROVE  LET u == sheet[i].ref.task IN
                          /\ pc'[u] # "none" /\ sheet[i].ref.run <= delivery'[u]
                          /\ form'[u].kind = "CREATE" /\ form'[u].email = sheet[i].email
    BY <2>1, <2>2 DEF RowInv
  <2> DEFINE u == sheet[i].ref.task
  <2>4. u \in Tasks /\ sheet[i].ref.run \in Nat
    <3>0. sheet \in Seq(Rows)
      BY <1>1 DEF TypeOK
    <3>1. sheet[i] \in Rows
      BY <3>0
    <3>2. sheet[i].ref \in References
      BY <2>3, <3>1 DEF Rows
    <3> QED
      BY <3>2 DEF References
  <2>5. /\ pc[u] # "none" /\ sheet[i].ref.run <= delivery[u]
        /\ form[u].kind = "CREATE" /\ form[u].email = sheet[i].email
    BY <2>2, <2>3 DEF RowInv
  <2>6. delivery[u] \in Nat /\ delivery'[u] \in Nat
    BY <2>4, RowFacts DEF TypeOK
  <2> HIDE DEF u
  <2>7. pc'[u] # "none" /\ form'[u] = form[u] /\ delivery[u] <= delivery'[u]
    BY <1>1, <2>4, <2>5, <2>6 DEF SelfOK, Same
  <2> QED
    BY <2>4, <2>5, <2>6, <2>7 DEF u
<1>3. CASE Kept
  BY <1>1, <1>2, <1>3 DEF Kept, RowInv
<1>4. CASE Added(t)
  <2>1. Len(sheet') = Len(sheet) + 1 /\ RowsKept
    BY <1>4 DEF Added
  <2> DEFINE r == sheet'[Len(sheet) + 1]
  <2>2. /\ r.last < Len(sheet) + 1 /\ r.mails < Len(sheet) + 1
        /\ r.ref = Reference(t) /\ r.email = form[t].email /\ form[t].kind = "CREATE"
    BY <1>1, <1>4, AddedRow
  <2>3. r.ref.task = t /\ r.ref.run = delivery[t] /\ delivery[t] \in Nat /\ delivery'[t] \in Nat
    BY <2>2, RowFacts DEF Reference, TypeOK
  <2>4. pc'[t] # "none" /\ form'[t] = form[t] /\ delivery[t] <= delivery'[t]
    BY <1>1, <1>4 DEF SelfOK, Added
  <2> HIDE DEF r
  <2>5. /\ r.last < Len(sheet) + 1 /\ r.mails < Len(sheet) + 1
        /\ r.ref # None =>
             LET u == r.ref.task IN
               /\ pc'[u] # "none" /\ r.ref.run <= delivery'[u]
               /\ form'[u].kind = "CREATE" /\ form'[u].email = r.email
    BY <2>2, <2>3, <2>4
  <2>6. \A i \in 1..Len(sheet') : i \in 1..Len(sheet) \/ i = Len(sheet) + 1
    BY <1>1, <2>1
  <2> QED
    BY <1>2, <2>1, <2>5, <2>6 DEF RowInv, r
<1> QED
  BY <1>1, <1>3, <1>4

LEMMA RepeatsStep ==
  ASSUME AlumniInv, NEW t \in Tasks, Act(t)
  PROVE  RepeatsOnlyByOverlap'
<1>1. Len(sheet) \in Nat /\ (Kept \/ Added(t))
  BY RowFacts
<1>2. EmailRepeatsOnlyByOverlap /\ IdsCountUntilOvertaken
  BY DEF AlumniInv, RepeatsOnlyByOverlap
<1>3. CASE Kept
  <2>1. EmailRepeatsOnlyByOverlap'
    BY <1>2, <1>3 DEF Kept, RowsKept, EmailRepeatsOnlyByOverlap
  <2>2. IdsCountUntilOvertaken'
    BY <1>1, <1>2, <1>3 DEF Kept, RowsKept, IdsCountUntilOvertaken
  <2> QED
    BY <2>1, <2>2 DEF RepeatsOnlyByOverlap
<1>4. CASE Added(t)
  <2>1. Len(sheet') = Len(sheet) + 1 /\ RowsKept
    BY <1>4 DEF Added
  <2> DEFINE n == Len(sheet) + 1
             r == sheet'[n]
  <2>2. /\ r.id = newId[t] /\ r.email = form[t].email
        /\ r.last = seen[t].last /\ r.mails = seen[t].mails
        /\ seen[t].last \in 0..Len(sheet) /\ seen[t].mails \in 0..Len(sheet)
        /\ newId[t] = IF seen[t].last = 0 THEN 1 ELSE sheet[seen[t].last].id + 1
        /\ \A i \in 1..seen[t].mails : sheet[i].email # form[t].email
    BY <1>4, AddedRow
  <2> HIDE DEF r
  <2>3. EmailRepeatsOnlyByOverlap'
    <3> SUFFICES ASSUME NEW i \in 1..Len(sheet'), NEW j \in 1..Len(sheet'), i < j,
                        sheet'[i].email = sheet'[j].email
                 PROVE  sheet'[j].mails < i
      BY DEF EmailRepeatsOnlyByOverlap
    <3>1. i \in 1..Len(sheet)
      BY <1>1, <2>1
    <3>2. CASE j = n
      BY <1>1, <2>1, <2>2, <3>1, <3>2 DEF r, RowsKept
    <3>3. CASE j \in 1..Len(sheet)
      BY <1>2, <2>1, <3>1, <3>3 DEF RowsKept, EmailRepeatsOnlyByOverlap
    <3> QED
      BY <1>1, <2>1, <3>2, <3>3
  <2>4. IdsCountUntilOvertaken'
    <3> SUFFICES ASSUME NEW j \in 1..Len(sheet'),
                        \A i \in 1..j : sheet'[i].last = i - 1
                 PROVE  sheet'[j].id = j
      BY DEF IdsCountUntilOvertaken
    <3>1. CASE j \in 1..Len(sheet)
      <4>1. \A i \in 1..j : i \in 1..Len(sheet)
        BY <1>1, <3>1
      <4>2. \A i \in 1..j : sheet[i].last = i - 1
        BY <2>1, <4>1 DEF RowsKept
      <4>3. sheet[j].id = j
        BY <1>2, <3>1, <4>2 DEF IdsCountUntilOvertaken
      <4> QED
        BY <2>1, <3>1, <4>3 DEF RowsKept
    <3>2. CASE j = n
      <4>1. seen[t].last = Len(sheet)
        BY <1>1, <2>2, <3>2 DEF r
      <4>2. CASE Len(sheet) = 0
        BY <2>2, <3>2, <4>1, <4>2 DEF r
      <4>3. CASE Len(sheet) # 0
        <5>1. Len(sheet) \in 1..Len(sheet)
          BY <1>1, <4>3
        <5>2. \A i \in 1..Len(sheet) : sheet[i].last = i - 1
          BY <1>1, <2>1, <3>2 DEF RowsKept
        <5>3. sheet[Len(sheet)].id = Len(sheet)
          BY <1>2, <5>1, <5>2 DEF IdsCountUntilOvertaken
        <5> QED
          BY <1>1, <2>2, <3>2, <4>1, <4>3, <5>3 DEF r
      <4> QED
        BY <4>2, <4>3
    <3> QED
      BY <1>1, <2>1, <3>1, <3>2
  <2> QED
    BY <2>3, <2>4 DEF RepeatsOnlyByOverlap
<1> QED
  BY <1>1, <1>3, <1>4

-----------------------------------------------------------------------------
(* The runs.                                                               *)

\* What the other tasks do leaves a run's reading true: rows are only added.
LEMMA RunKept ==
  ASSUME AlumniInv, NEW t \in Tasks, Act(t), NEW u \in Tasks, Same(u)
  PROVE  RunInv(u)'
<1>1. /\ Len(sheet) \in Nat /\ Len(sheet') \in Nat /\ Len(sheet) <= Len(sheet') /\ RowsKept
  BY RowFacts DEF Kept, Added
<1>2. RunInv(u) /\ seen[u] \in [last : Nat, mails : Nat] /\ row[u] \in Nat
  BY DEF AlumniInv, TypeOK
<1>3. Reference(u)' = Reference(u)
  BY DEF Same, Reference
<1>4. InSheet(Reference(u)) => InSheet(Reference(u))'
  BY <1>1, <1>3 DEF InSheet, RowsKept
<1>5. seen'[u].last <= Len(sheet') /\ seen'[u].mails <= Len(sheet')
  BY <1>1, <1>2 DEF RunInv, Same
<1>6. pc'[u] \in {"emails", "append"} =>
        newId'[u] = IF seen'[u].last = 0 THEN 1 ELSE sheet'[seen'[u].last].id + 1
  <2>1. seen[u].last # 0 => seen[u].last \in 1..Len(sheet)
    BY <1>1, <1>2 DEF RunInv
  <2> QED
    BY <1>1, <1>2, <2>1 DEF RunInv, Same, RowsKept
<1>7. pc'[u] = "append" => \A i \in 1..seen'[u].mails : sheet'[i].email # form'[u].email
  <2>1. \A i \in 1..seen[u].mails : i \in 1..Len(sheet)
    BY <1>1, <1>2 DEF RunInv
  <2> QED
    BY <1>1, <1>2, <2>1 DEF RunInv, Same, RowsKept
<1>8. pc'[u] = "write" => row'[u] \in 1..Len(sheet')
  BY <1>1, <1>2 DEF RunInv, Same
<1>9. pc'[u] = "mail" \/ (pc'[u] = "log" /\ form'[u].kind = "CREATE") => InSheet(Reference(u))'
  BY <1>2, <1>4 DEF RunInv, Same
<1> QED
  BY <1>5, <1>6, <1>7, <1>8, <1>9 DEF RunInv

LEMMA RunSelf ==
  ASSUME AlumniInv, NEW t \in Tasks, Act(t)
  PROVE  RunInv(t)'
<1>0. /\ DOMAIN pc = Tasks /\ DOMAIN newId = Tasks /\ DOMAIN seen = Tasks /\ DOMAIN row = Tasks
      /\ sheet \in Seq(Rows) /\ seen[t] \in [last : Nat, mails : Nat]
  BY DEF AlumniInv, TypeOK
<1>1. /\ Len(sheet) \in Nat /\ Len(sheet') \in Nat /\ Len(sheet) <= Len(sheet') /\ RowsKept
  BY RowFacts DEF Kept, Added
<1>2. RunInv(t)
  BY DEF AlumniInv
<1>3. /\ pc[t] \in {"last", "emails", "append", "mail"} => form[t].kind = "CREATE"
      /\ pc[t] \in {"token", "find", "write", "delete"} => form[t].kind = "UPDATE"
  BY DEF AlumniInv, FormInv
<1> USE DEF Goto, work, faults
\* At the other steps a run relies on nothing it read.
<1>4. ASSUME seen'[t] = seen[t] \/ seen'[t] = [last |-> 0, mails |-> 0],
             pc'[t] \in {"queued", "last", "token", "find", "delete", "ack", "acked"}
      PROVE  RunInv(t)'
  <2>1. seen'[t].last <= Len(sheet') /\ seen'[t].mails <= Len(sheet')
    BY <1>0, <1>1, <1>2, <1>4 DEF RunInv
  <2> QED
    BY <1>4, <2>1 DEF RunInv
<1>5. ASSUME Signup(t) \/ Update(t) \/ Deliver(t) PROVE RunInv(t)'
  BY <1>0, <1>4, <1>5 DEF Signup, Update, Deliver
<1>6. ASSUME ReadLastRow(t) PROVE RunInv(t)'
  <2>1. /\ pc'[t] = "emails" /\ sheet' = sheet /\ newId'[t] = LastId + 1
        /\ seen'[t] = [last |-> Len(sheet), mails |-> 0]
    BY <1>0, <1>6 DEF ReadLastRow
  <2>2. seen'[t].last = Len(sheet) /\ seen'[t].mails = 0
    BY <2>1
  <2>3. (Len(sheet) = 0) <=> (sheet = <<>>)
    BY <1>0
  <2>4. newId'[t] = IF seen'[t].last = 0 THEN 1 ELSE sheet'[seen'[t].last].id + 1
    BY <2>1, <2>2, <2>3 DEF LastId
  <2> QED
    BY <1>1, <2>1, <2>2, <2>4 DEF RunInv
<1>7. ASSUME ReadEmails(t) PROVE RunInv(t)'
  <2>1. CASE pc'[t] = "ack" /\ UNCHANGED seen
    BY <1>4, <2>1
  <2>2. CASE /\ ~Registered(form[t].email) /\ pc'[t] = "append"
             /\ seen' = [seen EXCEPT ![t].mails = Len(sheet)]
    <3>1. /\ sheet' = sheet /\ newId' = newId /\ form' = form /\ pc[t] = "emails"
          /\ seen'[t].last = seen[t].last /\ seen'[t].mails = Len(sheet)
      BY <1>0, <1>7, <2>2 DEF ReadEmails
    <3>2. \A i \in 1..Len(sheet) : sheet[i].email # form[t].email
      BY <2>2 DEF Registered
    <3> QED
      BY <1>1, <1>2, <2>2, <3>1, <3>2 DEF RunInv
  <2> QED
    BY <1>0, <1>7, <2>1, <2>2 DEF ReadEmails
<1>8. ASSUME AppendRow(t) PROVE RunInv(t)'
  <2>1. /\ pc'[t] = "log" /\ seen' = seen /\ Reference(t)' = Reference(t)
        /\ sheet' = Append(sheet, NewRow(t)) /\ pc[t] = "append"
    BY <1>0, <1>8 DEF AppendRow, Reference
  <2>2. Len(sheet') = Len(sheet) + 1 /\ sheet'[Len(sheet')].ref = Reference(t)
    BY <2>1, AppendAdds, NewRowType DEF Added
  <2>3. InSheet(Reference(t))'
    BY <1>1, <2>1, <2>2 DEF InSheet
  <2> QED
    BY <1>0, <1>1, <1>2, <2>1, <2>2, <2>3 DEF RunInv
<1>9. ASSUME Same(t) PROVE RunInv(t)'
  BY <1>9, RunKept
<1>10. ASSUME Stop(t), UNCHANGED seen PROVE RunInv(t)'
  BY <1>0, <1>4, <1>10 DEF Stop
<1>11. ASSUME AppendFails(t) \/ LogFails(t) \/ CallFails(t) PROVE RunInv(t)'
  <2>1. CASE UNCHANGED <<pc, form, delivery, newId, seen, row>>
    BY <1>9, <2>1 DEF Same
  <2>2. CASE Stop(t)
    BY <1>10, <1>11, <2>2 DEF AppendFails, LogFails, CallFails
  <2> QED
    BY <1>11, <2>1, <2>2 DEF AppendFails, LogFails, CallFails
<1>12. ASSUME LogAction(t) PROVE RunInv(t)'
  <2>1. /\ pc[t] = "log" /\ sheet' = sheet /\ seen' = seen /\ Reference(t)' = Reference(t)
        /\ pc'[t] = IF form[t].kind = "CREATE" THEN "mail" ELSE "delete"
    BY <1>0, <1>12 DEF LogAction, Reference
  <2>2. CASE form[t].kind = "CREATE"
    <3>1. InSheet(Reference(t))'
      BY <1>2, <2>1, <2>2 DEF RunInv, InSheet
    <3> QED
      BY <1>2, <2>1, <2>2, <3>1 DEF RunInv
  <2>3. CASE form[t].kind # "CREATE"
    BY <1>4, <2>1, <2>3
  <2> QED
    BY <2>2, <2>3
<1>13. ASSUME MailMember(t) \/ CheckToken(t) \/ DeleteToken(t) PROVE RunInv(t)'
  BY <1>0, <1>4, <1>13 DEF MailMember, CheckToken, DeleteToken
<1>14. ASSUME FindRow(t) PROVE RunInv(t)'
  <2>1. PICK i \in 1..Len(sheet) : row' = [row EXCEPT ![t] = i]
    BY <1>14 DEF FindRow
  <2>2. pc'[t] = "write" /\ sheet' = sheet /\ seen' = seen /\ row'[t] \in 1..Len(sheet')
    BY <1>0, <1>14, <2>1 DEF FindRow
  <2> QED
    BY <1>2, <2>2 DEF RunInv
<1>15. ASSUME WriteCell(t) PROVE RunInv(t)'
  BY <1>9, <1>15 DEF WriteCell, Same
<1>16. ASSUME RowWritten(t) PROVE RunInv(t)'
  <2>1. pc[t] = "write" /\ pc'[t] = "log" /\ form' = form /\ sheet' = sheet /\ seen' = seen
    BY <1>0, <1>16 DEF RowWritten
  <2> QED
    BY <1>2, <1>3, <2>1 DEF RunInv
<1>17. ASSUME Acknowledge(t) \/ LoseWorker(t) PROVE RunInv(t)'
  BY <1>0, <1>4, <1>17 DEF Acknowledge, LoseWorker, Forget
<1> QED
  BY <1>5, <1>6, <1>7, <1>8, <1>11, <1>12, <1>13, <1>14, <1>15, <1>16, <1>17 DEF Act, Step, Fault

-----------------------------------------------------------------------------
(* The payment instructions.                                               *)

\* Instructions are only added, by the run that mails them, and a run that
\* ends early leaves its reference behind.
LEMMA MailStep ==
  ASSUME AlumniInv, NEW t \in Tasks, Act(t)
  PROVE  /\ \/ outbox' = outbox
            \/ pc[t] = "mail" /\ outbox' = outbox \cup {[to |-> form[t].email, ref |-> Reference(t)]}
         /\ cut \subseteq cut'
         /\ pc[t] \in {"append", "mail"} \/ (pc[t] = "log" /\ form[t].kind = "CREATE") =>
              \/ pc'[t] \in {"append", "log", "mail"} /\ delivery'[t] = delivery[t]
              \/ \E m \in outbox' : m.ref = Reference(t)
              \/ Reference(t) \in cut'
<1> DEFINE Goal == /\ \/ outbox' = outbox
                      \/ /\ pc[t] = "mail"
                         /\ outbox' = outbox \cup {[to |-> form[t].email, ref |-> Reference(t)]}
                   /\ cut \subseteq cut'
                   /\ pc[t] \in {"append", "mail"} \/ (pc[t] = "log" /\ form[t].kind = "CREATE") =>
                        \/ pc'[t] \in {"append", "log", "mail"} /\ delivery'[t] = delivery[t]
                        \/ \E m \in outbox' : m.ref = Reference(t)
                        \/ Reference(t) \in cut'
<1>0. DOMAIN pc = Tasks
  BY DEF AlumniInv, TypeOK
<1> USE <1>0 DEF Goto, work, faults
<1>1. ASSUME Signup(t) \/ Update(t) \/ Deliver(t) PROVE Goal
  BY <1>1 DEF Signup, Update, Deliver
<1>2. ASSUME ReadLastRow(t) \/ ReadEmails(t) PROVE Goal
  BY <1>2 DEF ReadLastRow, ReadEmails
<1>3. ASSUME AppendRow(t) \/ LogAction(t) PROVE Goal
  BY <1>3 DEF AppendRow, LogAction
<1>4. ASSUME MailMember(t) PROVE Goal
  <2>1. /\ pc[t] = "mail" /\ cut' = cut
        /\ outbox' = outbox \cup {[to |-> form[t].email, ref |-> Reference(t)]}
    BY <1>4 DEF MailMember
  <2> DEFINE mail == [to |-> form[t].email, ref |-> Reference(t)]
  <2>2. mail \in outbox' /\ mail.ref = Reference(t)
    BY <2>1
  <2> HIDE DEF mail
  <2>3. \E m \in outbox' : m.ref = Reference(t)
    BY <2>2
  <2> QED
    BY <2>1, <2>3
<1>5. ASSUME CheckToken(t) \/ FindRow(t) \/ WriteCell(t) PROVE Goal
  BY <1>5 DEF CheckToken, FindRow, WriteCell
<1>6. ASSUME RowWritten(t) \/ DeleteToken(t) \/ Acknowledge(t) PROVE Goal
  BY <1>6 DEF RowWritten, DeleteToken, Acknowledge
<1>7. ASSUME AppendFails(t) \/ LogFails(t) PROVE Goal
  BY <1>7 DEF AppendFails, LogFails, Stop
<1>8. ASSUME CallFails(t) \/ LoseWorker(t) PROVE Goal
  BY <1>8 DEF CallFails, LoseWorker, Stop
<1> QED
  BY <1>1, <1>2, <1>3, <1>4, <1>5, <1>6, <1>7, <1>8 DEF Act, Step, Fault

LEMMA InstructionsStep ==
  ASSUME AlumniInv, NEW t \in Tasks, Act(t)
  PROVE  InstructionsMatchRows'
<1>1. /\ TypeOK /\ Len(sheet) \in Nat /\ RowsKept /\ Len(sheet) <= Len(sheet')
      /\ Kept \/ Added(t)
      /\ \A u \in Tasks \ {t} : Same(u)
  BY RowFacts DEF Kept, Added
<1>2. InstructionsMatchRows /\ RowInv /\ FormInv /\ RunInv(t)
  BY DEF AlumniInv
<1>3. ASSUME NEW m \in outbox'
      PROVE  \E i \in 1..Len(sheet') : sheet'[i].ref = m.ref /\ sheet'[i].email = m.to
  <2>1. PICK i \in 1..Len(sheet) : sheet[i].ref = m.ref /\ sheet[i].email = m.to
    <3>1. CASE m \in outbox
      BY <1>2, <3>1 DEF InstructionsMatchRows
    <3>2. CASE pc[t] = "mail" /\ m = [to |-> form[t].email, ref |-> Reference(t)]
      <4>1. PICK i \in 1..Len(sheet) : sheet[i].ref = Reference(t)
        BY <1>2, <3>2 DEF RunInv, InSheet
      <4>2. Reference(t) # None /\ Reference(t).task = t
        BY <1>1 DEF TypeOK, Reference, References
      <4>3. sheet[i].email = form[t].email
        BY <1>2, <4>1, <4>2 DEF RowInv
      <4> QED
        BY <3>2, <4>1, <4>3
    <3> QED
      BY <1>3, <3>1, <3>2, MailStep
  <2>2. i \in 1..Len(sheet')
    BY <1>1
  <2> QED
    BY <1>1, <2>1, <2>2 DEF RowsKept
<1>4. ASSUME NEW ref \in References,
             \/ OnItsWay(ref) /\ (ref.task = t => form[t].kind = "CREATE")
             \/ Instructed(ref) \/ ref \in cut
      PROVE  (OnItsWay(ref) \/ Instructed(ref) \/ ref \in cut)'
  <2>1. CASE Instructed(ref) \/ ref \in cut
    BY <2>1, MailStep DEF Instructed
  <2>2. CASE OnItsWay(ref) /\ ref.task = t /\ form[t].kind = "CREATE"
    <3>1. ref = Reference(t)
      BY <2>2 DEF OnItsWay, Reference, References
    <3> QED
      BY <2>2, <3>1, MailStep DEF OnItsWay, Instructed
  <2>3. CASE OnItsWay(ref) /\ ref.task # t
    <3>1. Same(ref.task)
      BY <1>1, <2>3 DEF References
    <3> QED
      BY <2>3, <3>1 DEF OnItsWay, Same
  <2> QED
    BY <1>4, <2>1, <2>2, <2>3
<1>5. ASSUME NEW i \in 1..Len(sheet), sheet[i].ref # None
      PROVE  \E ref \in References : /\ ref = sheet'[i].ref
                                     /\ (OnItsWay(ref) \/ Instructed(ref) \/ ref \in cut)'
  <2>1. PICK ref \in References : ref = sheet[i].ref
    <3>1. sheet \in Seq(Rows)
      BY <1>1 DEF TypeOK
    <3>2. sheet[i] \in Rows
      BY <3>1
    <3> QED
      BY <1>5, <3>2 DEF Rows
  <2>2. form[ref.task].kind = "CREATE"
    BY <1>2, <1>5, <2>1 DEF RowInv
  <2>3. OnItsWay(ref) \/ Instructed(ref) \/ ref \in cut
    BY <1>2, <1>5, <2>1 DEF InstructionsMatchRows
  <2>4. sheet'[i].ref = ref
    BY <1>1, <2>1 DEF RowsKept
  <2>5. (OnItsWay(ref) \/ Instructed(ref) \/ ref \in cut)'
    BY <1>4, <2>2, <2>3
  <2> QED
    BY <2>4, <2>5
<1>6. ASSUME Added(t)
      PROVE  \E ref \in References : /\ ref = sheet'[Len(sheet')].ref
                                     /\ (OnItsWay(ref) \/ Instructed(ref) \/ ref \in cut)'
  <2>1. PICK ref \in References : ref = Reference(t)
    BY <1>1 DEF TypeOK, Reference, References
  <2>2. sheet'[Len(sheet')].ref = ref /\ pc[t] = "append"
    BY <1>6, <2>1, NewRowType DEF Added
  <2>3. OnItsWay(ref) /\ form[t].kind = "CREATE"
    BY <1>2, <2>1, <2>2 DEF OnItsWay, Reference, FormInv
  <2>4. (OnItsWay(ref) \/ Instructed(ref) \/ ref \in cut)'
    BY <1>4, <2>3
  <2> QED
    BY <2>2, <2>4
<1>7. ASSUME NEW i \in 1..Len(sheet'), sheet'[i].ref # None
      PROVE  \E ref \in References : /\ ref = sheet'[i].ref
                                     /\ (OnItsWay(ref) \/ Instructed(ref) \/ ref \in cut)'
  <2>1. CASE i \in 1..Len(sheet)
    <3>1. sheet[i].ref # None
      BY <1>1, <1>7, <2>1 DEF RowsKept
    <3> QED
      BY <1>5, <2>1, <3>1
  <2>2. CASE i \notin 1..Len(sheet)
    <3>1. Added(t) /\ i = Len(sheet')
      BY <1>1, <2>2 DEF Kept, Added
    <3> QED
      BY <1>6, <3>1
  <2> QED
    BY <2>1, <2>2
<1> QED
  BY <1>3, <1>7 DEF InstructionsMatchRows, OnItsWay, Instructed

-----------------------------------------------------------------------------
(* The theorems.                                                           *)

LEMMA ActStep ==
  ASSUME AlumniInv, NEW t \in Tasks, Act(t)
  PROVE  AlumniInv'
<1>1. TypeOK' /\ TokenInv'
  <2>1. Next
    BY DEF Next, Act
  <2> QED
    BY <2>1, TypeStep, TokenInvStep
<1>2. ASSUME NEW u \in Tasks PROVE RunInv(u)'
  <2>1. CASE u = t
    BY <2>1, RunSelf
  <2>2. CASE u # t
    BY <2>2, OthersSame, RunKept
  <2> QED
    BY <2>1, <2>2
<1> QED
  BY <1>1, <1>2, FormInvStep, RowInvStep, RepeatsStep, InstructionsStep DEF AlumniInv

\* A step of a link, or none at all, changes nothing the other parts speak of.
LEMMA LinkStep ==
  ASSUME AlumniInv, TypeOK', TokenInv',
         UNCHANGED <<sheet, form, pc, delivery, work, outbox, faults>>
  PROVE  AlumniInv'
<1> USE DEF work, faults
<1>1. FormInv' /\ RowInv'
  BY DEF AlumniInv, FormInv, RowInv
<1>2. ASSUME NEW u \in Tasks PROVE RunInv(u)'
  BY DEF AlumniInv, RunInv, InSheet, Reference
<1>3. RepeatsOnlyByOverlap'
  BY DEF AlumniInv, RepeatsOnlyByOverlap, EmailRepeatsOnlyByOverlap, IdsCountUntilOvertaken
<1>4. InstructionsMatchRows'
  BY DEF AlumniInv, InstructionsMatchRows, OnItsWay, Instructed
<1> QED
  BY <1>1, <1>2, <1>3, <1>4 DEF AlumniInv

LEMMA InvStep == AlumniInv /\ [Next]_vars => AlumniInv'
<1> SUFFICES ASSUME AlumniInv, [Next]_vars PROVE AlumniInv'
  OBVIOUS
<1>1. ASSUME NEW t \in Tasks, Act(t) PROVE AlumniInv'
  BY <1>1, ActStep
<1>2. ASSUME NEW k \in Tokens, RequestToken(k) \/ SendTokenEmail(k) \/ Expire(k) PROVE AlumniInv'
  <2>1. Next
    BY <1>2 DEF Next
  <2>2. TypeOK' /\ TokenInv'
    BY <2>1, TypeStep, TokenInvStep
  <2>3. UNCHANGED <<sheet, form, pc, delivery, work, outbox, faults>>
    BY <1>2 DEF RequestToken, SendTokenEmail, Expire
  <2> QED
    BY <2>2, <2>3, LinkStep
<1>3. CASE UNCHANGED vars
  <2>1. TypeOK' /\ TokenInv'
    BY <1>3 DEF AlumniInv, TypeOK, TokenInv, Valid, vars, work, faults
  <2> QED
    BY <1>3, <2>1, LinkStep DEF vars
<1> QED
  BY <1>1, <1>2, <1>3 DEF Next, Act

\* The invariant of all the register's proofs holds in every run of the tasks.
THEOREM AlumniInvariant == Spec => []AlumniInv
BY InitInv, InvStep, PTL DEF Spec

\* The tasks keep their types (handle_create and handle_update, with every
\* loss of a worker and failure of a call).
THEOREM AlumniTypeCorrect == Spec => []TypeOK
<1>1. AlumniInv => TypeOK
  BY DEF AlumniInv
<1> QED
  BY <1>1, AlumniInvariant, PTL

\* A member's email or number repeats only where handle_create was overtaken
\* between its reads and its append, however often tasks are delivered.
THEOREM RepeatsOverlap == Spec => []RepeatsOnlyByOverlap
<1>1. AlumniInv => RepeatsOnlyByOverlap
  BY DEF AlumniInv
<1> QED
  BY <1>1, AlumniInvariant, PTL

\* Payment instructions name a row of the member, and a row's run sends them
\* unless it met an API error or lost its worker.
THEOREM InstructionsMatch == Spec => []InstructionsMatchRows
<1>1. AlumniInv => InstructionsMatchRows
  BY DEF AlumniInv
<1> QED
  BY <1>1, AlumniInvariant, PTL
=============================================================================
