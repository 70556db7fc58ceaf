-------------------------- MODULE EventSignupProofs --------------------------
(***************************************************************************)
(* For any number of requests, editors, children, forms and limits: the    *)
(* signup transaction keeps its types and its lock discipline, and a       *)
(* signup that locked a limited child commits within the child's limit.    *)
(* It implements the ledger: whatever locks, collisions and roll-backs a   *)
(* request goes through, it is one entry or one refusal.  Until a change   *)
(* form is saved, nobody waits in a circle, retries or overtakes.          *)
(***************************************************************************)
EXTENDS EventSignup, FiniteSetTheorems, TLAPS

\* The parts of TypeOK every step uses, without the shape of the rows.
LEMMA Shapes ==
  ASSUME TypeOK
  PROVE  /\ counter \in Nat
         /\ capacity \in [Children -> Nat]
         /\ mainLock \in Reqs \cup {None}
         /\ childLock \in [Children -> Reqs \cup {None}]
         /\ \A r \in Reqs : pc[r] # "idle" => form[r] \in Forms /\ form[r].ev \in Events
BY SignupAssumption DEF TypeOK

LEMMA InitInv == Init => SignupInv
<1> SUFFICES ASSUME Init PROVE SignupInv
  OBVIOUS
<1> USE SignupAssumption DEF Init, InTx, Writing, Answered
<1>1. TypeOK
  <2>1. capacity \in [Children -> Nat]
    OBVIOUS
  <2>2. edit \in [Editors -> [at : {"idle", "open", "saved"}, ev : Events, counter : Nat]]
    BY DEF Events
  <2>3. pc \in [Reqs -> {"idle", "read"} \cup InTx \cup Answered]
    OBVIOUS
  <2>4. attempt \in [Reqs -> 0 .. Retries + 1]
    OBVIOUS
  <2>5. /\ childLock \in [Children -> Reqs \cup {None}]
        /\ form \in [Reqs -> Forms \cup {None}]
        /\ \A r \in Reqs : form[r] = None => pc[r] = "idle"
    OBVIOUS
  <2>6. QED
    BY <2>1, <2>2, <2>3, <2>4, <2>5 DEF TypeOK
<1>2. IsFiniteSet(rows)
  BY FS_EmptySet
<1>3. CounterRowHeld
  BY DEF CounterRowHeld
<1>4. ChildRowHeld
  BY DEF ChildRowHeld
<1>5. PlacesKept
  BY DEF PlacesKept
<1>6. Bounded
  BY DEF Bounded
<1>7. QED
  BY <1>1, <1>2, <1>3, <1>4, <1>5, <1>6 DEF SignupInv

\* A rolled-back transaction leaves no lock and no row behind.
LEMMA RollbackInv ==
  ASSUME SignupInv, NEW r \in Reqs, NEW outcome \in {"read"} \cup Answered,
         pc[r] # "idle", Rollback(r, outcome),
         attempt' \in [Reqs -> 0 .. Retries + 1],
         \A q \in Reqs \ {r} : attempt'[q] = attempt[q],
         outcome = "read" => attempt'[r] <= Retries
  PROVE  SignupInv'
<1> USE SignupAssumption DEF SignupInv, Rollback, ReleaseLocks
<1>1. TypeOK'
  BY DEF TypeOK, InTx, Writing, Answered
<1>2. CounterRowHeld'
  BY DEF CounterRowHeld, TypeOK, InTx, Writing, Answered
<1>3. ChildRowHeld'
  BY DEF ChildRowHeld, TypeOK, InTx, Writing, Answered
<1>5. PlacesKept'
  BY DEF PlacesKept, Count, Places, TypeOK, InTx, Writing, Answered
<1>6. Bounded'
  BY DEF Bounded, Places, TypeOK, InTx, Writing, Answered
<1>7. QED
  BY <1>1, <1>2, <1>3, <1>5, <1>6

\* The form is filled in; no lock is touched.
LEMMA SubmitInv ==
  ASSUME SignupInv, NEW r \in Reqs, Submit(r)
  PROVE  SignupInv'
<1> USE SignupAssumption DEF SignupInv, Submit
<1>1. TypeOK'
  BY DEF TypeOK, InTx, Writing, Answered, Places
<1>2. CounterRowHeld'
  BY DEF CounterRowHeld, TypeOK, InTx, Writing, Answered
<1>3. ChildRowHeld'
  BY DEF ChildRowHeld, TypeOK, InTx, Writing, Answered
<1>5. PlacesKept'
  <2> SUFFICES ASSUME NEW q \in Reqs, NEW c \in Children, childLock[c] = q,
                      pc'[q] # "capacity", seenMax[q] # 0
               PROVE  Count(c)' + Places(q)' <= seenMax[q]
    BY DEF PlacesKept
  <2>1. q # r
    BY DEF ChildRowHeld, InTx, Writing
  <2>2. form'[q] = form[q] /\ pc'[q] = pc[q]
    BY <2>1 DEF TypeOK
  <2>3. QED
    BY <2>2 DEF PlacesKept, Count, Places
<1>6. Bounded'
  BY DEF Bounded, Places, TypeOK, InTx, Writing, Answered
<1>7. QED
  BY <1>1, <1>2, <1>3, <1>5, <1>6

\* The fresh read decides whether the child will be locked.
LEMMA ReadEventInv ==
  ASSUME SignupInv, NEW r \in Reqs, ReadEvent(r)
  PROVE  SignupInv'
<1> USE SignupAssumption DEF SignupInv, ReadEvent
<1>1. TypeOK'
  BY DEF TypeOK, InTx, Writing, Answered, Places
<1>2. CounterRowHeld'
  BY DEF CounterRowHeld, TypeOK, InTx, Writing, Answered
<1>3. ChildRowHeld'
  BY DEF ChildRowHeld, TypeOK, InTx, Writing, Answered
<1>5. PlacesKept'
  BY DEF PlacesKept, ChildRowHeld, Count, Places, TypeOK, InTx, Writing, Answered
<1>6. Bounded'
  BY DEF Bounded, Places, TypeOK, InTx, Writing, Answered
<1>7. QED
  BY <1>1, <1>2, <1>3, <1>5, <1>6

\* The row lock comes with a fresh limit.
LEMMA LockChildInv ==
  ASSUME SignupInv, NEW r \in Reqs, LockChild(r)
  PROVE  SignupInv'
<1> USE SignupAssumption DEF SignupInv, LockChild
<1>1. TypeOK'
  BY DEF TypeOK, ChildRowHeld, InTx, Writing, Answered
<1>2. CounterRowHeld'
  BY DEF CounterRowHeld, TypeOK, InTx, Writing, Answered
<1>3. ChildRowHeld'
  BY DEF ChildRowHeld, TypeOK, InTx, Writing, Answered
<1>5. PlacesKept'
  BY DEF PlacesKept, ChildRowHeld, Count, Places, TypeOK, InTx, Writing, Answered
<1>6. Bounded'
  BY DEF Bounded, Places, TypeOK, InTx, Writing, Answered
<1>7. QED
  BY <1>1, <1>2, <1>3, <1>5, <1>6

\* The snapshot of the counter UPDATE.
LEMMA BeginReserveInv ==
  ASSUME SignupInv, NEW r \in Reqs, BeginReserve(r)
  PROVE  SignupInv'
<1> USE SignupAssumption DEF SignupInv, BeginReserve
<1>1. TypeOK'
  BY DEF TypeOK, InTx, Writing, Answered, Places
<1>2. CounterRowHeld'
  BY DEF CounterRowHeld, TypeOK, InTx, Writing, Answered
<1>3. ChildRowHeld'
  BY DEF ChildRowHeld, TypeOK, InTx, Writing, Answered
<1>5. PlacesKept'
  BY DEF PlacesKept, ChildRowHeld, Count, Places, TypeOK, InTx, Writing, Answered
<1>6. Bounded'
  BY DEF Bounded, Places, TypeOK, InTx, Writing, Answered
<1>7. QED
  BY <1>1, <1>2, <1>3, <1>5, <1>6

\* The counter row is locked and the numbers computed.
LEMMA ReserveInv ==
  ASSUME SignupInv, NEW r \in Reqs, Reserve(r)
  PROVE  SignupInv'
<1> USE SignupAssumption DEF SignupInv, Reserve
<1>1. TypeOK'
  BY DEF TypeOK, InTx, Writing, Answered, Places
<1>2. CounterRowHeld'
  BY DEF CounterRowHeld, TypeOK, InTx, Writing, Answered
<1>3. ChildRowHeld'
  BY DEF ChildRowHeld, TypeOK, InTx, Writing, Answered
<1>5. PlacesKept'
  BY DEF PlacesKept, ChildRowHeld, Count, Places, TypeOK, InTx, Writing, Answered
<1>6. Bounded'
  BY DEF Bounded, Places, TypeOK, InTx, Writing, Answered
<1>7. QED
  BY <1>1, <1>2, <1>3, <1>5, <1>6

\* The places are counted under the child's lock, or none are limited.
LEMMA EnsureCapacityInv ==
  ASSUME SignupInv, NEW r \in Reqs, EnsureCapacity(r)
  PROVE  SignupInv'
<1> USE SignupAssumption DEF EnsureCapacity
<1>1. CASE ~Fits(r) /\ Rollback(r, "full")
  BY <1>1, RollbackInv DEF SignupInv, TypeOK, Answered
<1>2. CASE /\ Fits(r)
           /\ pc' = [pc EXCEPT ![r] = "reserve"]
           /\ UNCHANGED <<rows, counter, capacity, mainLock, childLock, form,
                          seenMax, snapMax, end, edit>>
  <2> USE <1>2 DEF SignupInv
  <2>1. TypeOK'
    BY DEF TypeOK, InTx, Writing, Answered
  <2>2. CounterRowHeld'
    BY DEF CounterRowHeld, TypeOK, InTx, Writing, Answered
  <2>3. ChildRowHeld'
    BY DEF ChildRowHeld, TypeOK, InTx, Writing, Answered
  <2>5. PlacesKept'
    <3> SUFFICES ASSUME NEW q \in Reqs, NEW c \in Children, childLock[c] = q,
                        pc'[q] # "capacity", seenMax[q] # 0
                 PROVE  Count(c) + Places(q) <= seenMax[q]
      BY DEF PlacesKept, Count, Places
    <3>1. CASE q = r
      BY <3>1 DEF Fits, ChildRowHeld
    <3>2. CASE q # r
      BY <3>2 DEF PlacesKept, TypeOK
    <3>3. QED
      BY <3>1, <3>2
  <2>6. Bounded'
    BY DEF Bounded, Places, TypeOK, InTx, Writing, Answered
  <2>7. QED
    BY <2>1, <2>2, <2>3, <2>5, <2>6
<1>3. QED
  BY <1>1, <1>2

\* A collision is retried, or answered "busy" after the last attempt.
LEMMA CollideInv ==
  ASSUME SignupInv, NEW r \in Reqs, pc[r] \in InTx, Collide(r)
  PROVE  SignupInv'
<1>1. attempt[r] <= Retries /\ attempt \in [Reqs -> 0 .. Retries + 1] /\ pc[r] # "idle"
  BY DEF SignupInv, Bounded, TypeOK, InTx, Writing, Answered
<1>2. /\ attempt' \in [Reqs -> 0 .. Retries + 1]
      /\ \A q \in Reqs \ {r} : attempt'[q] = attempt[q]
      /\ attempt'[r] = attempt[r] + 1
  BY <1>1, SignupAssumption DEF Collide
<1>3. CASE attempt[r] < Retries
  BY <1>1, <1>2, <1>3, RollbackInv, SignupAssumption DEF Collide
<1>4. CASE ~(attempt[r] < Retries)
  BY <1>1, <1>2, <1>4, RollbackInv, SignupAssumption DEF Collide, Answered
<1>5. QED
  BY <1>3, <1>4

\* An INSERT is seen by nobody before the commit.
LEMMA InsertRowInv ==
  ASSUME SignupInv, NEW r \in Reqs, NEW row, NEW next \in {"avec", "commit"},
         pc[r] \in {"insert", "avec"}, row.ev = form[r].ev, InsertRow(r, row, next)
  PROVE  SignupInv'
<1> USE SignupAssumption
<1> DEFINE Inserted ==
      /\ pc' = [pc EXCEPT ![r] = next]
      /\ UNCHANGED <<rows, counter, capacity, mainLock, childLock, form,
                     attempt, seenMax, snapMax, end, edit>>
<1>1. \/ Inserted
      \/ Rollback(r, "duplicate") /\ UNCHANGED attempt
      \/ Collide(r)
  BY DEF InsertRow
<1>2. CASE Rollback(r, "duplicate") /\ UNCHANGED attempt
  BY <1>2, RollbackInv DEF SignupInv, TypeOK, Answered
<1>3. CASE Collide(r)
  BY <1>3, CollideInv DEF InTx, Writing
<1>4. CASE Inserted
  <2> USE <1>4 DEF SignupInv
  <2>1. TypeOK'
    BY DEF TypeOK, InTx, Writing, Answered
  <2>2. CounterRowHeld'
    BY DEF CounterRowHeld, TypeOK, InTx, Writing, Answered
  <2>3. ChildRowHeld'
    BY DEF ChildRowHeld, TypeOK, InTx, Writing, Answered
  <2>5. PlacesKept'
    BY DEF PlacesKept, Count, Places, TypeOK, InTx, Writing, Answered
  <2>6. Bounded'
    BY DEF Bounded, Places, TypeOK, InTx, Writing, Answered
  <2>7. QED
    BY <2>1, <2>2, <2>3, <2>5, <2>6
<1>5. QED
  BY <1>1, <1>2, <1>3, <1>4

LEMMA InsertGuestInv ==
  ASSUME SignupInv, NEW r \in Reqs, InsertGuest(r)
  PROVE  SignupInv'
BY InsertRowInv DEF InsertGuest, GuestRow, Row

LEMMA InsertAvecInv ==
  ASSUME SignupInv, NEW r \in Reqs, InsertAvec(r)
  PROVE  SignupInv'
BY InsertRowInv DEF InsertAvec, AvecRow, Row

-----------------------------------------------------------------------------
(* Counting attendees. *)

LEMMA CountAdd ==
  ASSUME NEW S, IsFiniteSet(S), NEW x
  PROVE  /\ IsFiniteSet(S \cup {x})
         /\ Cardinality(S \cup {x}) <= Cardinality(S) + 1
         /\ Cardinality(S) \in Nat
BY FS_AddElement, FS_CardinalityType

LEMMA CountMonotone ==
  ASSUME NEW S, NEW T, IsFiniteSet(T), S \subseteq T
  PROVE  IsFiniteSet(S) /\ Cardinality(S) <= Cardinality(T)
         /\ Cardinality(S) \in Nat /\ Cardinality(T) \in Nat
BY FS_Subset, FS_CardinalityType

\* A commit adds at most the places it asked for.
LEMMA CommitCount ==
  ASSUME SignupInv, NEW r \in Reqs, Commit(r), NEW c \in Children
  PROVE  /\ IsFiniteSet(rows')
         /\ Cardinality({x \in rows' : x.ev = c}) <= Count(c) + Places(r)
<1> DEFINE In(S) == {x \in S : x.ev = c}
<1>1. IsFiniteSet(rows) /\ IsFiniteSet(In(rows)) /\ Count(c) = Cardinality(In(rows))
  BY CountMonotone DEF SignupInv, Count
<1>2. CASE form[r].avec = None
  <2>1. rows' = rows \cup {GuestRow(r)} /\ Places(r) = 1
    BY <1>2 DEF Commit, Pending, Places
  <2>2. In(rows') \subseteq In(rows) \cup {GuestRow(r)}
    BY <2>1
  <2>3. /\ IsFiniteSet(rows')
        /\ IsFiniteSet(In(rows) \cup {GuestRow(r)})
        /\ Cardinality(In(rows) \cup {GuestRow(r)}) <= Cardinality(In(rows)) + 1
        /\ Cardinality(In(rows)) \in Nat
    BY <1>1, <2>1, CountAdd
  <2>4. /\ Cardinality(In(rows')) <= Cardinality(In(rows) \cup {GuestRow(r)})
        /\ Cardinality(In(rows')) \in Nat
        /\ Cardinality(In(rows) \cup {GuestRow(r)}) \in Nat
    BY <2>2, <2>3, CountMonotone
  <2>5. QED
    BY <1>1, <2>1, <2>3, <2>4
<1>3. CASE form[r].avec # None
  <2>1. rows' = (rows \cup {GuestRow(r)}) \cup {AvecRow(r)} /\ Places(r) = 2
    BY <1>3 DEF Commit, Pending, Places
  <2>2. In(rows') \subseteq (In(rows) \cup {GuestRow(r)}) \cup {AvecRow(r)}
    BY <2>1
  <2>3. /\ IsFiniteSet(rows')
        /\ IsFiniteSet((In(rows) \cup {GuestRow(r)}) \cup {AvecRow(r)})
        /\ Cardinality((In(rows) \cup {GuestRow(r)}) \cup {AvecRow(r)})
             <= Cardinality(In(rows)) + 2
    <3>1. /\ IsFiniteSet(rows \cup {GuestRow(r)})
          /\ IsFiniteSet(In(rows) \cup {GuestRow(r)})
          /\ Cardinality(In(rows) \cup {GuestRow(r)}) <= Cardinality(In(rows)) + 1
          /\ Cardinality(In(rows)) \in Nat
          /\ Cardinality(In(rows) \cup {GuestRow(r)}) \in Nat
      BY <1>1, CountAdd, FS_CardinalityType
    <3>2. /\ IsFiniteSet(rows')
          /\ IsFiniteSet((In(rows) \cup {GuestRow(r)}) \cup {AvecRow(r)})
          /\ Cardinality((In(rows) \cup {GuestRow(r)}) \cup {AvecRow(r)})
               <= Cardinality(In(rows) \cup {GuestRow(r)}) + 1
          /\ Cardinality((In(rows) \cup {GuestRow(r)}) \cup {AvecRow(r)}) \in Nat
      BY <2>1, <3>1, CountAdd, FS_CardinalityType
    <3>3. QED
      BY <3>1, <3>2
  <2>4. Cardinality(In(rows')) <= Cardinality((In(rows) \cup {GuestRow(r)}) \cup {AvecRow(r)})
        /\ Cardinality(In(rows')) \in Nat
        /\ Cardinality((In(rows) \cup {GuestRow(r)}) \cup {AvecRow(r)}) \in Nat
    BY <2>2, <2>3, CountMonotone
  <2>5. Cardinality(In(rows)) \in Nat
    BY <1>1, CountMonotone
  <2>6. QED
    BY <1>1, <2>1, <2>3, <2>4, <2>5
<1>4. QED
  BY <1>2, <1>3

\* ... and adds them to its own event only.
LEMMA CommitElsewhere ==
  ASSUME SignupInv, NEW r \in Reqs, Commit(r), NEW c, form[r].ev # c
  PROVE  {x \in rows' : x.ev = c} = {x \in rows : x.ev = c}
BY DEF Commit, Pending, GuestRow, AvecRow, Row

-----------------------------------------------------------------------------

LEMMA CommitInv ==
  ASSUME SignupInv, NEW r \in Reqs, Commit(r)
  PROVE  SignupInv'
<1> USE SignupAssumption
<1>0. pc[r] = "commit" /\ form[r] \in Forms /\ form[r].ev \in Events
  BY DEF Commit, SignupInv, TypeOK
<1>1. IsFiniteSet(rows')
  <2>1. \/ rows' = rows \cup {GuestRow(r)}
        \/ rows' = (rows \cup {GuestRow(r)}) \cup {AvecRow(r)}
    BY DEF Commit, Pending
  <2>2. IsFiniteSet(rows) /\ IsFiniteSet(rows \cup {GuestRow(r)})
    BY CountAdd DEF SignupInv
  <2>3. IsFiniteSet((rows \cup {GuestRow(r)}) \cup {AvecRow(r)})
    BY <2>2, CountAdd
  <2>4. QED
    BY <2>1, <2>2, <2>3
<1>2. TypeOK'
  <2>1. end[r] \in Nat /\ end[r] - 10 * (Places(r) - 1) \in Nat
    BY <1>0 DEF SignupInv, Bounded, Writing, Places, TypeOK
  <2>2. rows' \subseteq [owner : Reqs, avec : BOOLEAN, ev : Events,
                         email : UNION {{f.email, f.avec} : f \in Forms}, nr : Nat]
    <3> DEFINE Rec == [owner : Reqs, avec : BOOLEAN, ev : Events,
                       email : UNION {{f.email, f.avec} : f \in Forms}, nr : Nat]
    <3>1. form[r].email \in UNION {{f.email, f.avec} : f \in Forms}
          /\ form[r].avec \in UNION {{f.email, f.avec} : f \in Forms}
      BY <1>0
    <3>2. GuestRow(r) \in Rec /\ AvecRow(r) \in Rec
      BY <1>0, <2>1, <3>1 DEF GuestRow, AvecRow, Row
    <3>3. Pending(r) \subseteq {GuestRow(r), AvecRow(r)}
      BY <1>0 DEF Pending
    <3>4. rows \subseteq Rec /\ rows' = rows \cup Pending(r)
      BY DEF SignupInv, TypeOK, Commit
    <3>5. QED
      BY <3>2, <3>3, <3>4
  <2>3. /\ counter' \in Nat
        /\ mainLock' \in Reqs \cup {None}
        /\ childLock' \in [Children -> Reqs \cup {None}]
    BY <2>1 DEF SignupInv, TypeOK, Commit, ReleaseLocks
  <2>4. /\ pc' \in [Reqs -> {"idle", "read"} \cup InTx \cup Answered]
        /\ \A q \in Reqs : form'[q] = None => pc'[q] = "idle"
    BY <1>0 DEF SignupInv, TypeOK, Commit, InTx, Writing, Answered
  <2>5. /\ UNCHANGED <<capacity, form, attempt, seenMax, snapMax, end, edit>>
        /\ InTx' = InTx /\ Answered' = Answered /\ Events' = Events
    BY DEF Commit, InTx, Answered, Events
  <2>6. QED
    BY <2>2, <2>3, <2>4, <2>5 DEF SignupInv, TypeOK
<1>3. CounterRowHeld'
  BY DEF SignupInv, CounterRowHeld, Commit, ReleaseLocks, TypeOK, Writing
<1>4. ChildRowHeld'
  BY DEF SignupInv, ChildRowHeld, Commit, ReleaseLocks, TypeOK, InTx, Writing
<1>6. PlacesKept'
  <2> SUFFICES ASSUME NEW q \in Reqs, NEW c \in Children, childLock'[c] = q,
                      pc'[q] # "capacity", seenMax'[q] # 0
               PROVE  Count(c)' + Places(q)' <= seenMax'[q]
    BY DEF PlacesKept
  <2>1. q # r /\ childLock[c] = q
    BY DEF Commit, ReleaseLocks, SignupInv, TypeOK
  <2>2. form[r].ev # c
    BY <1>0, <2>1, SignupAssumption DEF Commit, KeyChecked
  <2>3. Count(c)' = Count(c)
    BY <2>2, CommitElsewhere DEF Count
  <2>4. /\ Places(q)' = Places(q)
        /\ seenMax'[q] = seenMax[q]
        /\ pc[q] # "capacity"
    BY <2>1 DEF Commit, Places, SignupInv, TypeOK
  <2>5. QED
    BY <2>1, <2>3, <2>4 DEF SignupInv, PlacesKept
<1>7. Bounded'
  BY DEF SignupInv, Bounded, Commit, Places, TypeOK, Writing, Answered
<1>8. QED
  BY <1>1, <1>2, <1>3, <1>4, <1>6, <1>7 DEF SignupInv

\* An attendee deleted or renumbered leaves no child fuller than before.
LEMMA RowsShrinkInv ==
  ASSUME SignupInv, IsFiniteSet(rows'),
         rows' \subseteq [owner : Reqs, avec : BOOLEAN, ev : Events,
                          email : UNION {{f.email, f.avec} : f \in Forms}, nr : Nat],
         \A c \in Children : Count(c)' <= Count(c) /\ Count(c) \in Nat /\ Count(c)' \in Nat,
         UNCHANGED <<counter, capacity, mainLock, childLock, pc, form, attempt,
                     seenMax, snapMax, end, edit>>
  PROVE  SignupInv'
<1>1. TypeOK'
  BY DEF SignupInv, TypeOK
<1>2. CounterRowHeld' /\ ChildRowHeld' /\ Bounded'
  BY DEF SignupInv, CounterRowHeld, ChildRowHeld, Bounded, Places
<1>4. PlacesKept'
  <2> SUFFICES ASSUME NEW q \in Reqs, NEW c \in Children, childLock[c] = q,
                      pc[q] # "capacity", seenMax[q] # 0
               PROVE  Count(c)' + Places(q) <= seenMax[q]
    BY DEF PlacesKept, Places
  <2>1. Count(c) + Places(q) <= seenMax[q] /\ Places(q) \in Nat /\ seenMax[q] \in Nat
    BY DEF SignupInv, PlacesKept, Places, TypeOK
  <2>2. QED
    BY <2>1
<1>5. QED
  BY <1>1, <1>2, <1>4 DEF SignupInv

LEMMA DeleteAttendeeInv ==
  ASSUME SignupInv, NEW x \in rows, DeleteAttendee(x)
  PROVE  SignupInv'
<1>1. IsFiniteSet(rows) /\ rows' \subseteq rows
  BY DEF SignupInv, DeleteAttendee
<1>2. IsFiniteSet(rows')
  BY <1>1, CountMonotone
<1>3. ASSUME NEW c \in Children
      PROVE  Count(c)' <= Count(c) /\ Count(c) \in Nat /\ Count(c)' \in Nat
  <2>1. {y \in rows' : y.ev = c} \subseteq {y \in rows : y.ev = c}
    BY <1>1
  <2>2. IsFiniteSet({y \in rows : y.ev = c})
    BY <1>1, CountMonotone
  <2>3. QED
    BY <2>1, <2>2, CountMonotone DEF Count
<1>4. QED
  BY <1>1, <1>2, <1>3, RowsShrinkInv DEF DeleteAttendee, SignupInv, TypeOK

LEMMA RenumberAttendeeInv ==
  ASSUME SignupInv, NEW x \in rows, NEW nr \in ManualNrs, RenumberAttendee(x, nr)
  PROVE  SignupInv'
<1> USE SignupAssumption
<1> DEFINE moved == [x EXCEPT !.nr = nr]
           In(S, c) == {y \in S : y.ev = c}
<1>1. /\ IsFiniteSet(rows)
      /\ rows' = (rows \ {x}) \cup {moved}
  BY DEF SignupInv, RenumberAttendee
<1>2. IsFiniteSet(rows \ {x}) /\ IsFiniteSet(rows')
  BY <1>1, CountMonotone, CountAdd
<1>3. moved.ev = x.ev
      /\ moved \in [owner : Reqs, avec : BOOLEAN, ev : Events,
                    email : UNION {{f.email, f.avec} : f \in Forms}, nr : Nat]
  BY DEF SignupInv, TypeOK
<1>4. ASSUME NEW c \in Children
      PROVE  Count(c)' <= Count(c) /\ Count(c) \in Nat /\ Count(c)' \in Nat
  <2>1. IsFiniteSet(In(rows, c)) /\ IsFiniteSet(In(rows \ {x}, c))
    BY <1>1, <1>2, CountMonotone
  <2>0. Count(c) = Cardinality(In(rows, c)) /\ Count(c)' = Cardinality(In(rows', c))
    BY DEF Count
  <2>2. CASE x.ev # c
    <3>1. In(rows', c) = In(rows, c)
      BY <1>1, <1>3, <2>2
    <3>2. Count(c)' = Count(c)
      BY <3>1, <2>0
    <3>3. Count(c) \in Nat
      BY <2>0, <2>1, FS_CardinalityType
    <3>4. QED
      BY <3>2, <3>3
  <2>3. CASE x.ev = c
    <3>1. In(rows', c) = In(rows \ {x}, c) \cup {moved}
      BY <1>1, <1>3, <2>3
    <3>2. In(rows, c) = In(rows \ {x}, c) \cup {x} /\ x \notin In(rows \ {x}, c)
      BY <2>3
    <3>3. Cardinality(In(rows, c)) = Cardinality(In(rows \ {x}, c)) + 1
          /\ Cardinality(In(rows \ {x}, c)) \in Nat
      BY <2>1, <3>2, FS_AddElement, FS_CardinalityType
    <3>4. Cardinality(In(rows \ {x}, c) \cup {moved}) <= Cardinality(In(rows \ {x}, c)) + 1
          /\ IsFiniteSet(In(rows \ {x}, c) \cup {moved})
      BY <2>1, CountAdd
    <3>5. Cardinality(In(rows \ {x}, c) \cup {moved}) \in Nat
      BY <3>4, FS_CardinalityType
    <3>6. Count(c)' = Cardinality(In(rows \ {x}, c) \cup {moved})
      BY <2>0, <3>1
    <3>7. Count(c) = Cardinality(In(rows \ {x}, c)) + 1
      BY <2>0, <3>3
    <3>8. QED
      BY <3>3, <3>4, <3>5, <3>6, <3>7
  <2>4. QED
    BY <2>2, <2>3
<1>5. rows' \subseteq [owner : Reqs, avec : BOOLEAN, ev : Events,
                       email : UNION {{f.email, f.avec} : f \in Forms}, nr : Nat]
  BY <1>1, <1>3 DEF SignupInv, TypeOK
<1>6. QED
  BY <1>2, <1>4, <1>5, RowsShrinkInv DEF RenumberAttendee

\* An event save waits for the row lock, so no signup that has read a limit
\* under that lock sees it change.
LEMMA EditorInv ==
  ASSUME SignupInv, NEW a \in Editors, LoadEvent(a) \/ SaveEvent(a)
  PROVE  SignupInv'
<1> USE SignupAssumption
<1>1. CASE LoadEvent(a)
  <2> USE <1>1 DEF SignupInv, LoadEvent
  <2>1. TypeOK'
    BY DEF TypeOK
  <2>2. CounterRowHeld' /\ ChildRowHeld' /\ Bounded'
    BY DEF CounterRowHeld, ChildRowHeld, Bounded, Places
  <2>3. PlacesKept'
    BY DEF PlacesKept, Count, Places
  <2>4. QED
    BY <2>1, <2>2, <2>3
<1>2. CASE SaveEvent(a)
  <2> USE <1>2 DEF SignupInv, SaveEvent
  <2>1. TypeOK'
    <3>1. counter' \in Nat
      BY DEF TypeOK
    <3>2. capacity' \in [Children -> Nat]
      BY DEF TypeOK
    <3>3. edit' \in [Editors -> [at : {"idle", "open", "saved"}, ev : Events, counter : Nat]]
      BY DEF TypeOK
    <3>4. QED
      BY <3>1, <3>2, <3>3 DEF TypeOK
  <2>2. CounterRowHeld' /\ Bounded'
    BY DEF CounterRowHeld, Bounded, Places
  <2>3. ChildRowHeld'
    <3>1. ASSUME NEW r \in Reqs, NEW c \in Children, childLock[c] = r
          PROVE  capacity'[c] = capacity[c]
      BY <3>1 DEF TypeOK
    <3>2. QED
      BY <3>1 DEF ChildRowHeld
  <2>4. PlacesKept'
    BY DEF PlacesKept, Count, Places
  <2>5. QED
    BY <2>1, <2>2, <2>3, <2>4
<1>3. QED
  BY <1>1, <1>2

-----------------------------------------------------------------------------

LEMMA StepInv ==
  ASSUME SignupInv, NEW r \in Reqs, Step(r)
  PROVE  SignupInv'
BY ReadEventInv, LockChildInv, EnsureCapacityInv, BeginReserveInv, ReserveInv,
   InsertGuestInv, InsertAvecInv, CommitInv DEF Step

\* The database aborts a transaction of a wait cycle, or the worker dies.
LEMMA AbortInv ==
  ASSUME SignupInv, NEW r \in Reqs, AbortDeadlock(r) \/ Crash(r)
  PROVE  SignupInv'
<1>1. pc[r] \in {"read"} \cup InTx
  BY DEF AbortDeadlock, Crash, Deadlocked, WaitsFor, InTx, Writing
<1>2. /\ Rollback(r, "error")
      /\ UNCHANGED attempt
      /\ pc[r] # "idle"
      /\ attempt \in [Reqs -> 0 .. Retries + 1]
  BY <1>1 DEF AbortDeadlock, Crash, SignupInv, TypeOK, InTx, Writing
<1>3. QED
  BY <1>2, RollbackInv DEF Answered

LEMMA NextInv ==
  ASSUME SignupInv, [Next]_vars
  PROVE  SignupInv'
<1>1. CASE Next
  BY <1>1, SubmitInv, StepInv, AbortInv, EditorInv, DeleteAttendeeInv,
     RenumberAttendeeInv DEF Next, Admin
<1>2. CASE UNCHANGED vars
  BY <1>2 DEF vars, SignupInv, TypeOK, CounterRowHeld, ChildRowHeld,
     PlacesKept, Count, Places, Bounded
<1>3. QED
  BY <1>1, <1>2

\* The inductive invariant: types, row-lock discipline and kept places.
THEOREM SignupInvariant == Spec => []SignupInv
<1>1. Init => SignupInv
  BY InitInv
<1>2. SignupInv /\ [Next]_vars => SignupInv'
  BY NextInv
<1>3. QED
  BY <1>1, <1>2, PTL DEF Spec

\* Type correctness of the registration transaction.
THEOREM SignupTypeCorrect == Spec => []TypeOK
<1>1. SignupInv => TypeOK
  BY DEF SignupInv
<1>2. QED
  BY <1>1, SignupInvariant, PTL

\* A signup that took the child's row lock commits within the limit in force
\* (registration.py: _register_event_signup_once, _ensure_capacity), for any
\* number of concurrent signups, limit edits, deletions and crashes.
THEOREM LockedSignupNeverOverbooks == Spec => LockedSignupFits
<1>1. SignupInv /\ [Next]_vars =>
        [\A r \in Reqs : \A c \in Children :
           Commits(r) /\ childLock[c] = r /\ capacity[c] # 0
             => Cardinality({x \in rows' : x.ev = c}) <= capacity[c]]_vars
  <2> SUFFICES ASSUME SignupInv, Next, NEW r \in Reqs, NEW c \in Children,
                      Commits(r), childLock[c] = r, capacity[c] # 0
               PROVE  Cardinality({x \in rows' : x.ev = c}) <= capacity[c]
    OBVIOUS
  <2>1. Commit(r)
    <3>1. pc[r] = "commit" /\ pc'[r] = "done" /\ pc \in [Reqs -> {"idle", "read"} \cup InTx \cup Answered]
      BY DEF Commits, SignupInv, TypeOK
    <3>2. CASE \E q \in Reqs : Submit(q) \/ Step(q) \/ AbortDeadlock(q) \/ Crash(q)
      <4>1. PICK q \in Reqs : Submit(q) \/ Step(q) \/ AbortDeadlock(q) \/ Crash(q)
        BY <3>2
      <4>2. q = r
        BY <3>1, <4>1 DEF Submit, Step, AbortDeadlock, Crash, ReadEvent, LockChild,
           EnsureCapacity, BeginReserve, Reserve, InsertGuest, InsertAvec, InsertRow,
           Collide, Commit, Rollback
      <4>3. QED
        BY <3>1, <4>1, <4>2 DEF Submit, Step, AbortDeadlock, Crash, ReadEvent, LockChild,
           EnsureCapacity, BeginReserve, Reserve, InsertGuest, InsertAvec, Rollback
    <3>3. CASE Admin
      BY <3>1, <3>3 DEF Admin, LoadEvent, SaveEvent, DeleteAttendee, RenumberAttendee
    <3>4. QED
      BY <3>2, <3>3 DEF Next
  <2>2. Cardinality({x \in rows' : x.ev = c}) <= Count(c) + Places(r)
        /\ IsFiniteSet(rows')
    BY <2>1, CommitCount
  <2>3. Count(c) + Places(r) <= capacity[c]
    BY DEF SignupInv, ChildRowHeld, PlacesKept, Commits
  <2>4. IsFiniteSet({x \in rows' : x.ev = c}) /\ IsFiniteSet({x \in rows : x.ev = c})
    BY <2>2, CountMonotone DEF SignupInv
  <2>5. /\ Cardinality({x \in rows' : x.ev = c}) \in Nat
        /\ Count(c) \in Nat
        /\ Places(r) \in Nat
        /\ capacity[c] \in Nat
    BY <2>4, FS_CardinalityType DEF Count, Places, SignupInv, TypeOK
  <2>6. QED
    BY <2>2, <2>3, <2>5
<1>2. QED
  BY <1>1, SignupInvariant, PTL DEF Spec, LockedSignupFits

-----------------------------------------------------------------------------
(* Deadlock freedom while every child is limited.  Then whoever is past the *)
(* lock for a child has its row, so locks are always taken child first.     *)

ChildFirst ==
  /\ \A c \in Children : capacity[c] # 0
  /\ \A r \in Reqs : pc[r] \in InTx \ {"lock"} /\ form[r].ev \in Children
       => childLock[form[r].ev] = r

LEMMA ChildFirstStep ==
  ASSUME 0 \notin Caps, SignupInv, ChildFirst, [Next]_vars
  PROVE  ChildFirst'
<1> USE SignupAssumption DEF ChildFirst
<1>1. ASSUME NEW r \in Reqs, NEW outcome \in {"read"} \cup Answered, Rollback(r, outcome)
      PROVE  ChildFirst'
  BY <1>1 DEF Rollback, ReleaseLocks, SignupInv, TypeOK, InTx, Writing, Answered
<1>2. ASSUME NEW r \in Reqs, Submit(r) \/ Step(r) \/ AbortDeadlock(r) \/ Crash(r)
      PROVE  ChildFirst'
  <2>1. CASE Submit(r)
    BY <2>1 DEF Submit, SignupInv, TypeOK, InTx, Writing
  <2>2. CASE ReadEvent(r)
    BY <2>2 DEF ReadEvent, SignupInv, TypeOK, InTx, Writing
  <2>3. CASE LockChild(r)
    BY <2>3 DEF LockChild, SignupInv, ChildRowHeld, TypeOK, InTx, Writing
  <2>4. CASE EnsureCapacity(r)
    BY <2>4, <1>1 DEF EnsureCapacity, SignupInv, TypeOK, InTx, Writing, Answered
  <2>5. CASE BeginReserve(r) \/ Reserve(r)
    BY <2>5 DEF BeginReserve, Reserve, SignupInv, TypeOK, InTx, Writing
  <2>6. CASE InsertGuest(r) \/ InsertAvec(r)
    BY <2>6, <1>1 DEF InsertGuest, InsertAvec, InsertRow, Collide, SignupInv, TypeOK,
       InTx, Writing, Answered
  <2>7. CASE Commit(r)
    BY <2>7 DEF Commit, ReleaseLocks, SignupInv, TypeOK, InTx, Writing
  <2>8. CASE AbortDeadlock(r) \/ Crash(r)
    BY <2>8, <1>1 DEF AbortDeadlock, Crash, Answered
  <2>9. QED
    BY <1>2, <2>1, <2>2, <2>3, <2>4, <2>5, <2>6, <2>7, <2>8 DEF Step
<1>3. CASE Admin
  BY <1>3 DEF Admin, LoadEvent, SaveEvent, DeleteAttendee, RenumberAttendee, SignupInv, TypeOK
<1>4. CASE UNCHANGED vars
  BY <1>4 DEF vars
<1>5. QED
  BY <1>2, <1>3, <1>4 DEF Next

LEMMA InitChildFirst == 0 \notin Caps /\ Init => ChildFirst
BY SignupAssumption DEF Init, ChildFirst, InTx, Writing

LEMMA ChildFirstNoCycle ==
  ASSUME SignupInv, ChildFirst
  PROVE  \A r \in Reqs : ~Deadlocked(r)
<1> SUFFICES ASSUME NEW r \in Reqs, NEW q \in WaitsFor(r), r \in WaitsFor(q)
             PROVE  FALSE
  BY DEF Deadlocked
<1>1. /\ pc[r] # "commit"
      /\ q \in Reqs /\ pc[q] \in InTx \ {"lock"}
  BY SignupAssumption DEF WaitsFor, ChildFirst, SignupInv, CounterRowHeld,
     ChildRowHeld, TypeOK, InTx, Writing
<1>2. pc[q] # "commit"
  BY <1>1, SignupAssumption DEF WaitsFor, ChildFirst, SignupInv, TypeOK, InTx, Writing
<1>3. pc[q] = "wait" /\ mainLock = r
  BY <1>1, <1>2 DEF WaitsFor
<1>4. pc[r] \in Writing
  BY <1>3 DEF SignupInv, CounterRowHeld
<1>5. QED
  BY <1>1, <1>4 DEF WaitsFor, Writing

-----------------------------------------------------------------------------

(***************************************************************************)
(* What SignupInv has to be strengthened with: uncommitted rows clash with *)
(* no row, and who saw a limit keeps the lock of the child to the end.     *)
(***************************************************************************)
NoClash(x, y) == x.email # y.email /\ x.nr # y.nr

RowsUnused ==
  \A r \in Reqs :
    /\ \A x \in Pending(r), y \in rows : NoClash(x, y)
    /\ \A x, y \in Pending(r) : x # y => NoClash(x, y)

LimitLocked ==
  \A r \in Reqs :
    pc[r] \in InTx \ {"lock"} /\ form[r].ev \in Children /\ seenMax[r] # 0 =>
      childLock[form[r].ev] = r

LedgerInv == RowsUnused /\ LimitLocked

-----------------------------------------------------------------------------

LEMMA PendingOnly == \A r : pc[r] \notin {"avec", "commit"} => Pending(r) = {}
BY DEF Pending

LEMMA PendingSame ==
  ASSUME NEW r, pc'[r] = pc[r], form'[r] = form[r], end'[r] = end[r]
  PROVE  Pending(r)' = Pending(r)
<1>1. GuestRow(r)' = GuestRow(r) /\ AvecRow(r)' = AvecRow(r)
  BY DEF GuestRow, AvecRow, Row, Places
<1>2. QED
  BY <1>1 DEF Pending

LEMMA InitLedger == Init => LedgerInv
BY DEF Init, LedgerInv, RowsUnused, LimitLocked, Pending, InTx, Writing

\* A step of r that leaves no row of r open and adds none to the table.
LEMMA UnusedKept ==
  ASSUME RowsUnused, NEW r \in Reqs, rows' \subseteq rows,
         pc'[r] \notin {"avec", "commit"},
         \A q \in Reqs \ {r} : pc'[q] = pc[q] /\ form'[q] = form[q] /\ end'[q] = end[q]
  PROVE  RowsUnused'
<1>1. Pending(r)' = {}
  BY DEF Pending
<1>2. \A q \in Reqs \ {r} : Pending(q)' = Pending(q)
  BY PendingSame
<1>3. QED
  BY <1>1, <1>2 DEF RowsUnused, NoClash

LEMMA RollbackLedger ==
  ASSUME SignupInv, LedgerInv, NEW r \in Reqs, NEW outcome \in {"read"} \cup Answered,
         pc[r] # "idle", Rollback(r, outcome)
  PROVE  LedgerInv'
<1>1. TypeOK /\ pc'[r] = outcome /\ outcome \notin InTx
  BY DEF SignupInv, TypeOK, Rollback, InTx, Writing, Answered
<1>2. \A q \in Reqs \ {r} : pc'[q] = pc[q] /\ form'[q] = form[q] /\ end'[q] = end[q]
                            /\ seenMax'[q] = seenMax[q]
  BY <1>1 DEF Rollback, TypeOK
<1>3. RowsUnused'
  <2>1. pc'[r] \notin {"avec", "commit"} /\ rows' = rows
    BY <1>1 DEF Rollback, InTx, Writing
  <2>2. QED
    BY <1>2, <2>1, UnusedKept DEF LedgerInv
<1>4. LimitLocked'
  <2> SUFFICES ASSUME NEW q \in Reqs, pc'[q] \in InTx \ {"lock"}, form'[q].ev \in Children,
                      seenMax'[q] # 0
               PROVE  childLock'[form'[q].ev] = q
    BY DEF LimitLocked
  <2>1. q # r
    BY <1>1
  <2>2. childLock[form[q].ev] = q
    BY <1>2, <2>1 DEF LedgerInv, LimitLocked
  <2>3. QED
    BY <1>2, <2>1, <2>2 DEF Rollback, ReleaseLocks
<1>5. QED
  BY <1>3, <1>4 DEF LedgerInv

\* The steps before the first INSERT.
LEMMA StagesLedger ==
  ASSUME SignupInv, LedgerInv, NEW r \in Reqs,
         Submit(r) \/ ReadEvent(r) \/ LockChild(r) \/ BeginReserve(r) \/ Reserve(r)
  PROVE  LedgerInv'
<1>0. TypeOK
  BY DEF SignupInv
<1>1. /\ rows' = rows
      /\ pc'[r] \notin {"avec", "commit"}
      /\ \A q \in Reqs \ {r} : pc'[q] = pc[q] /\ form'[q] = form[q] /\ end'[q] = end[q]
                              /\ seenMax'[q] = seenMax[q]
  BY <1>0 DEF TypeOK, Submit, ReadEvent, LockChild, BeginReserve, Reserve
<1>2. RowsUnused'
  BY <1>1, UnusedKept DEF LedgerInv
<1>3. \A q \in Reqs \ {r}, c \in Children : childLock[c] = q => childLock'[c] = q
  BY <1>0, SignupAssumption DEF TypeOK, Submit, ReadEvent, LockChild, BeginReserve, Reserve
<1>4. \A q \in Reqs \ {r} :
        pc'[q] \in InTx \ {"lock"} /\ form'[q].ev \in Children /\ seenMax'[q] # 0 =>
          childLock'[form'[q].ev] = q
  BY <1>1, <1>3 DEF LedgerInv, LimitLocked
<1>5. pc'[r] \in InTx \ {"lock"} /\ form'[r].ev \in Children /\ seenMax'[r] # 0 =>
        childLock'[form'[r].ev] = r
  <2>1. CASE Submit(r)
    BY <1>0, <2>1 DEF Submit, TypeOK, InTx, Writing
  <2>2. CASE ReadEvent(r)
    BY <1>0, <2>2 DEF ReadEvent, TypeOK, InTx, Writing
  <2>3. CASE LockChild(r)
    BY <1>0, <2>3 DEF LockChild, TypeOK
  <2>4. CASE BeginReserve(r) \/ Reserve(r)
    BY <1>0, <2>4 DEF BeginReserve, Reserve, TypeOK, InTx, Writing, LedgerInv, LimitLocked
  <2>5. QED
    BY <2>1, <2>2, <2>3, <2>4
<1>6. QED
  BY <1>2, <1>4, <1>5 DEF LedgerInv, LimitLocked

LEMMA EnsureCapacityLedger ==
  ASSUME SignupInv, LedgerInv, NEW r \in Reqs, EnsureCapacity(r)
  PROVE  LedgerInv'
<1>0. TypeOK
  BY DEF SignupInv
<1>1. CASE Rollback(r, "full")
  BY <1>1, RollbackLedger DEF EnsureCapacity, Answered
<1>2. CASE /\ pc' = [pc EXCEPT ![r] = "reserve"]
           /\ UNCHANGED <<rows, childLock, form, seenMax, end>>
  <2>1. pc[r] = "capacity" /\ pc'[r] = "reserve" /\ \A q \in Reqs \ {r} : pc'[q] = pc[q]
    BY <1>0, <1>2 DEF EnsureCapacity, TypeOK
  <2>2. RowsUnused'
    BY <1>2, <2>1, UnusedKept DEF LedgerInv
  <2>3. LimitLocked'
    BY <1>2, <2>1 DEF LedgerInv, LimitLocked, InTx, Writing
  <2>4. QED
    BY <2>2, <2>3 DEF LedgerInv
<1>3. QED
  BY <1>1, <1>2 DEF EnsureCapacity

\* A request with an open row is the only one that has any.
LEMMA OneWriter ==
  ASSUME SignupInv, NEW r \in Reqs, pc[r] \in Writing
  PROVE  \A q \in Reqs \ {r} : pc[q] \notin Writing
BY DEF SignupInv, CounterRowHeld

\* An INSERT that succeeds clashes with no row its unique indexes see.
LEMMA InsertRowLedger ==
  ASSUME SignupInv, LedgerInv, NEW r \in Reqs, NEW row, NEW next \in {"avec", "commit"},
         pc[r] \in {"insert", "avec"}, InsertRow(r, row, next),
         pc'[r] = next => Pending(r)' \subseteq Pending(r) \cup {row}
  PROVE  LedgerInv'
<1>0. TypeOK /\ pc[r] # "idle"
  BY DEF SignupInv
<1>1. CASE Rollback(r, "duplicate") \/ Collide(r)
  BY <1>0, <1>1, RollbackLedger DEF Collide, Answered
<1>2. CASE /\ \A x \in rows \cup Pending(r) : x.nr # row.nr /\ x.email # row.email
           /\ pc' = [pc EXCEPT ![r] = next]
           /\ UNCHANGED <<rows, childLock, form, seenMax, end>>
  <2>1. pc'[r] = next /\ \A q \in Reqs \ {r} : pc'[q] = pc[q]
    BY <1>0, <1>2 DEF TypeOK
  <2>2. \A q \in Reqs \ {r} : Pending(q)' = Pending(q)
    BY <1>2, <2>1, PendingSame
  <2>3. RowsUnused'
    <3>1. \A x \in Pending(r)', y \in rows' : NoClash(x, y)
      BY <1>2, <2>1 DEF LedgerInv, RowsUnused, NoClash
    <3>2. \A x, y \in Pending(r)' : x # y => NoClash(x, y)
      BY <1>2, <2>1 DEF LedgerInv, RowsUnused, NoClash
    <3>3. QED
      BY <1>2, <2>2, <3>1, <3>2 DEF LedgerInv, RowsUnused, NoClash
  <2>4. LimitLocked'
    BY <1>2, <2>1 DEF LedgerInv, LimitLocked, InTx, Writing
  <2>5. QED
    BY <2>3, <2>4 DEF LedgerInv
<1>3. QED
  BY <1>1, <1>2 DEF InsertRow

LEMMA InsertLedger ==
  ASSUME SignupInv, LedgerInv, NEW r \in Reqs, InsertGuest(r) \/ InsertAvec(r)
  PROVE  LedgerInv'
<1>1. CASE InsertGuest(r)
  <2> DEFINE next == IF form[r].avec = None THEN "commit" ELSE "avec"
  <2>1. pc[r] = "insert" /\ InsertRow(r, GuestRow(r), next) /\ Pending(r) = {}
    BY <1>1 DEF InsertGuest, Pending
  <2>2. ASSUME pc'[r] = next PROVE form' = form /\ end' = end
    BY <2>1, <2>2 DEF InsertRow, Rollback, Collide
  <2>3. ASSUME pc'[r] = next PROVE Pending(r)' = {GuestRow(r)}
    <3>1. GuestRow(r)' = GuestRow(r)
      BY <2>2, <2>3 DEF GuestRow, Row, Places
    <3>2. QED
      BY <2>2, <2>3, <3>1 DEF Pending
  <2>4. QED
    BY <2>1, <2>3, InsertRowLedger
<1>2. CASE InsertAvec(r)
  <2>1. pc[r] = "avec" /\ InsertRow(r, AvecRow(r), "commit") /\ Pending(r) = {GuestRow(r)}
    BY <1>2 DEF InsertAvec, Pending
  <2>2. form' = form /\ end' = end
    BY <2>1 DEF InsertRow, Rollback, Collide
  <2>3. ASSUME pc'[r] = "commit" PROVE Pending(r)' \subseteq {GuestRow(r), AvecRow(r)}
    <3>1. GuestRow(r)' = GuestRow(r) /\ AvecRow(r)' = AvecRow(r)
      BY <2>2 DEF GuestRow, AvecRow, Row, Places
    <3>2. QED
      BY <2>2, <2>3, <3>1 DEF Pending
  <2>4. QED
    BY <2>1, <2>3, InsertRowLedger
<1>3. QED
  BY <1>1, <1>2

LEMMA CommitLedger ==
  ASSUME SignupInv, LedgerInv, NEW r \in Reqs, Commit(r)
  PROVE  LedgerInv'
<1>0. TypeOK /\ pc[r] \in Writing /\ None \notin Reqs
  BY SignupAssumption DEF SignupInv, Commit, Writing
<1>1. pc'[r] = "done" /\ \A q \in Reqs \ {r} : pc'[q] = pc[q]
  BY <1>0 DEF Commit, TypeOK
<1>2. \A q \in Reqs : Pending(q)' = {}
  BY <1>0, <1>1, OneWriter DEF Pending, Writing
<1>3. RowsUnused'
  BY <1>2 DEF RowsUnused
<1>4. LimitLocked'
  <2> SUFFICES ASSUME NEW q \in Reqs, pc'[q] \in InTx \ {"lock"}, form'[q].ev \in Children,
                      seenMax'[q] # 0
               PROVE  childLock'[form'[q].ev] = q
    BY DEF LimitLocked
  <2>1. q # r
    BY <1>1 DEF InTx, Writing
  <2>2. childLock[form[q].ev] = q
    BY <1>1, <2>1 DEF LedgerInv, LimitLocked, Commit
  <2>3. QED
    BY <2>1, <2>2 DEF Commit, ReleaseLocks
<1>5. QED
  BY <1>3, <1>4 DEF LedgerInv

\* What the administrators do to rows leaves the open rows without a clash.
LEMMA AdminLedger ==
  ASSUME SignupInv, LedgerInv, Admin
  PROVE  LedgerInv'
<1>1. UNCHANGED <<pc, form, end, seenMax, childLock>>
  BY DEF Admin, LoadEvent, SaveEvent, DeleteAttendee, RenumberAttendee
<1>2. \A q \in Reqs : Pending(q)' = Pending(q)
  BY <1>1, PendingSame
<1>3. LimitLocked'
  BY <1>1 DEF LedgerInv, LimitLocked
<1>4. RowsUnused'
  <2>1. CASE rows' \subseteq rows
    BY <1>2, <2>1 DEF LedgerInv, RowsUnused, NoClash
  <2>2. ASSUME NEW x \in rows, NEW nr \in ManualNrs, RenumberAttendee(x, nr) PROVE RowsUnused'
    <3>1. /\ rows' = (rows \ {x}) \cup {[x EXCEPT !.nr = nr]}
          /\ \A q \in Reqs : \A y \in Pending(q) : y.nr # nr
      BY <2>2 DEF RenumberAttendee
    <3>2. [x EXCEPT !.nr = nr].nr = nr /\ [x EXCEPT !.nr = nr].email = x.email
      <4>1. x \in [owner : Reqs, avec : BOOLEAN, ev : Events,
                   email : UNION {{f.email, f.avec} : f \in Forms}, nr : Nat]
        BY DEF SignupInv, TypeOK
      <4>2. QED
        BY <4>1
    <3>3. ASSUME NEW q \in Reqs, NEW y \in Pending(q), NEW z \in rows' PROVE NoClash(y, z)
      <4>1. \A u \in rows : NoClash(y, u)
        BY DEF LedgerInv, RowsUnused
      <4>2. CASE z \in rows
        BY <4>1, <4>2
      <4>3. CASE z = [x EXCEPT !.nr = nr]
        <5>1. y.email # x.email /\ y.nr # nr
          BY <3>1, <4>1 DEF NoClash
        <5>2. z.email = x.email /\ z.nr = nr
          BY <3>2, <4>3
        <5>3. QED
          BY <5>1, <5>2 DEF NoClash
      <4>4. QED
        BY <3>1, <4>2, <4>3
    <3>4. QED
      BY <1>2, <3>3 DEF LedgerInv, RowsUnused, NoClash
  <2>3. QED
    BY <2>1, <2>2 DEF Admin, LoadEvent, SaveEvent, DeleteAttendee
<1>5. QED
  BY <1>3, <1>4 DEF LedgerInv

\* Only a running request is aborted.
LEMMA AbortRollsBack ==
  ASSUME NEW r \in Reqs, AbortDeadlock(r) \/ Crash(r)
  PROVE  pc[r] \in {"read"} \cup InTx /\ Rollback(r, "error")
<1>1. CASE Crash(r)
  BY <1>1 DEF Crash
<1>2. CASE AbortDeadlock(r)
  <2>1. WaitsFor(r) # {} /\ Rollback(r, "error")
    BY <1>2 DEF AbortDeadlock, Deadlocked
  <2>2. QED
    BY <2>1 DEF WaitsFor, InTx, Writing
<1>3. QED
  BY <1>1, <1>2

LEMMA NextLedger == SignupInv /\ LedgerInv /\ [Next]_vars => LedgerInv'
<1> SUFFICES ASSUME SignupInv, LedgerInv, [Next]_vars PROVE LedgerInv'
  OBVIOUS
<1>1. CASE UNCHANGED vars
  <2>1. \A q \in Reqs : Pending(q)' = Pending(q)
    BY <1>1, PendingSame DEF vars
  <2>2. QED
    BY <1>1, <2>1 DEF vars, LedgerInv, RowsUnused, LimitLocked, NoClash
<1>2. ASSUME NEW r \in Reqs, AbortDeadlock(r) \/ Crash(r) PROVE LedgerInv'
  BY <1>2, AbortRollsBack, RollbackLedger DEF InTx, Writing, Answered
<1>3. ASSUME NEW r \in Reqs, Submit(r) \/ Step(r) PROVE LedgerInv'
  BY <1>3, StagesLedger, EnsureCapacityLedger, InsertLedger, CommitLedger DEF Step
<1>4. QED
  BY <1>1, <1>2, <1>3, AdminLedger DEF Next

-----------------------------------------------------------------------------

Entered == [Ledger!Next]_<<rows, capacity, answer, lenient>>

\* A step that moves only the request r changes only r's part of the ledger.
LEMMA LedgerFollows ==
  ASSUME SignupInv, NEW r \in Reqs, NEW x, pc' = [pc EXCEPT ![r] = x],
         \A q \in Reqs \ {r} : form'[q] = form[q] /\ seenMax'[q] = seenMax[q]
  PROVE  /\ pc[r] \notin Answered => answer[r] = "none"
         /\ x = "done" => answer' = [answer EXCEPT ![r] = "accepted"]
         /\ x \in Answered \ {"done"} => answer' = [answer EXCEPT ![r] = "refused"]
         /\ x \notin Answered /\ pc[r] \notin Answered => answer' = answer
         /\ lenient' = [lenient EXCEPT ![r] =
              IF x \in InTx \ {"lock"} /\ form'[r].ev \in Children /\ seenMax'[r] = 0
              THEN form'[r].ev ELSE None]
<1>1. pc'[r] = x /\ \A q \in Reqs \ {r} : pc'[q] = pc[q]
  BY DEF SignupInv, TypeOK
<1>2. \A q \in Reqs \ {r} : answer'[q] = answer[q] /\ lenient'[q] = lenient[q]
  BY <1>1 DEF answer, lenient
<1>3. /\ pc[r] \notin Answered => answer[r] = "none"
      /\ x = "done" => answer'[r] = "accepted"
      /\ x \in Answered \ {"done"} => answer'[r] = "refused"
      /\ x \notin Answered => answer'[r] = "none"
  BY <1>1 DEF answer, Answered
<1>4. lenient'[r] = IF x \in InTx \ {"lock"} /\ form'[r].ev \in Children /\ seenMax'[r] = 0
                    THEN form'[r].ev ELSE None
  BY <1>1 DEF lenient
<1>5. /\ answer \in [Reqs -> {"none", "accepted", "refused"}]
      /\ answer' \in [Reqs -> {"none", "accepted", "refused"}]
  BY DEF answer
<1>6. lenient = [q \in Reqs |-> lenient[q]] /\ lenient' = [q \in Reqs |-> lenient'[q]]
  BY DEF lenient
<1>7. lenient' = [lenient EXCEPT ![r] = lenient'[r]]
  BY <1>2, <1>6
<1>8. QED
  BY <1>2, <1>3, <1>4, <1>5, <1>7

LEMMA InitLedgerPromise == Init => Ledger!Init
<1> SUFFICES ASSUME Init PROVE Ledger!Init
  OBVIOUS
<1> USE SignupAssumption DEF Init
<1>1. capacity \in [Children -> Nat]
  OBVIOUS
<1>2. answer = [r \in Reqs |-> "none"] /\ lenient = [r \in Reqs |-> None]
  BY DEF answer, lenient, Answered, InTx, Writing
<1>3. QED
  BY <1>1, <1>2 DEF Ledger!Init

\* A request that goes on, or over, sees a child unlimited, forgets it or does
\* nothing the ledger shows.
LEMMA MoveEntered ==
  ASSUME SignupInv, NEW r \in Reqs, NEW x \in {"read"} \cup InTx, pc[r] \notin Answered,
         pc' = [pc EXCEPT ![r] = x], UNCHANGED <<rows, capacity>>,
         \A q \in Reqs \ {r} : form'[q] = form[q] /\ seenMax'[q] = seenMax[q],
         x \in InTx \ {"lock"} /\ form'[r].ev \in Children /\ seenMax'[r] = 0 =>
           capacity[form'[r].ev] = 0 \/ lenient[r] = form'[r].ev
  PROVE  Entered
<1> DEFINE seen == IF x \in InTx \ {"lock"} /\ form'[r].ev \in Children /\ seenMax'[r] = 0
                   THEN form'[r].ev ELSE None
<1>1. x \notin Answered
  BY DEF InTx, Writing, Answered
<1>2. answer[r] = "none" /\ answer' = answer /\ lenient' = [lenient EXCEPT ![r] = seen]
  BY <1>1, LedgerFollows
<1>3. lenient = [lenient EXCEPT ![r] = lenient[r]]
  BY DEF lenient
<1>4. \/ seen = None
      \/ seen \in Children /\ capacity[seen] = 0
      \/ seen = lenient[r]
  OBVIOUS
<1> HIDE DEF seen
<1>5. CASE seen = None
  BY <1>2, <1>5 DEF Entered, Ledger!Next, Ledger!Forget
<1>6. CASE seen \in Children /\ capacity[seen] = 0
  <2>1. Ledger!SeeUnlimited(r, seen)
    BY <1>2, <1>6 DEF Ledger!SeeUnlimited
  <2>2. QED
    BY <1>6, <2>1 DEF Entered, Ledger!Next
<1>7. CASE seen = lenient[r]
  BY <1>2, <1>3, <1>7 DEF Entered
<1>8. QED
  BY <1>4, <1>5, <1>6, <1>7

LEMMA RefuseEntered ==
  ASSUME SignupInv, NEW r \in Reqs, NEW x \in Answered \ {"done"}, pc[r] \notin Answered,
         pc' = [pc EXCEPT ![r] = x], UNCHANGED <<rows, capacity>>,
         \A q \in Reqs \ {r} : form'[q] = form[q] /\ seenMax'[q] = seenMax[q]
  PROVE  Entered
<1>1. x \notin InTx
  BY DEF InTx, Writing, Answered
<1>2. answer[r] = "none" /\ answer' = [answer EXCEPT ![r] = "refused"]
  BY LedgerFollows
<1>3. lenient' = [lenient EXCEPT ![r] = None]
  BY <1>1, LedgerFollows
<1>4. Ledger!Refuse(r)
  BY <1>2, <1>3 DEF Ledger!Refuse
<1>5. QED
  BY <1>4 DEF Entered, Ledger!Next

\* A roll-back is a refusal, or the request starts over.
LEMMA RollbackEntered ==
  ASSUME SignupInv, NEW r \in Reqs, NEW outcome \in {"read"} \cup (Answered \ {"done"}),
         pc[r] \in {"read"} \cup InTx, Rollback(r, outcome)
  PROVE  Entered
<1>1. pc[r] \notin Answered /\ "read" \notin InTx
  BY DEF InTx, Writing, Answered
<1>2. pc' = [pc EXCEPT ![r] = outcome] /\ UNCHANGED <<rows, capacity, form, seenMax>>
  BY DEF Rollback
<1>3. CASE outcome = "read"
  BY <1>1, <1>2, <1>3, MoveEntered
<1>4. CASE outcome \in Answered \ {"done"}
  BY <1>1, <1>2, <1>4, RefuseEntered
<1>5. QED
  BY <1>3, <1>4

LEMMA SubmitEntered ==
  ASSUME SignupInv, NEW r \in Reqs, Submit(r)
  PROVE  Entered
<1>1. /\ pc[r] \notin Answered /\ UNCHANGED <<rows, capacity>>
      /\ "duplicate" \in Answered \ {"done"} /\ "read" \notin InTx
      /\ \A q \in Reqs \ {r} : form'[q] = form[q] /\ seenMax'[q] = seenMax[q]
  BY DEF Submit, SignupInv, TypeOK, Answered, InTx, Writing
<1>2. pc' = [pc EXCEPT ![r] = "duplicate"] \/ pc' = [pc EXCEPT ![r] = "read"]
  BY DEF Submit
<1>3. CASE pc' = [pc EXCEPT ![r] = "duplicate"]
  BY <1>1, <1>3, RefuseEntered
<1>4. CASE pc' = [pc EXCEPT ![r] = "read"]
  BY <1>1, <1>4, MoveEntered
<1>5. QED
  BY <1>2, <1>3, <1>4

\* The two reads of the limit.
LEMMA ReadsEntered ==
  ASSUME SignupInv, NEW r \in Reqs, ReadEvent(r) \/ LockChild(r)
  PROVE  Entered
<1>1. PICK x \in {"lock", "reserve", "capacity"} : pc' = [pc EXCEPT ![r] = x]
  BY DEF ReadEvent, LockChild
<1>2. /\ pc[r] \notin Answered /\ x \in InTx /\ UNCHANGED <<rows, capacity, form>>
      /\ \A q \in Reqs \ {r} : seenMax'[q] = seenMax[q]
  BY DEF ReadEvent, LockChild, Answered, InTx, SignupInv, TypeOK
<1>3. form[r].ev \in Children => seenMax'[r] = capacity[form[r].ev]
  BY DEF ReadEvent, LockChild, SignupInv, TypeOK
<1>4. QED
  BY <1>1, <1>2, <1>3, MoveEntered

\* The steps past them change neither the form nor the limit seen.
LEMMA InsideEntered ==
  ASSUME SignupInv, NEW r \in Reqs, NEW x \in InTx, pc[r] \in InTx \ {"lock"},
         pc' = [pc EXCEPT ![r] = x], UNCHANGED <<rows, capacity, form, seenMax>>
  PROVE  Entered
<1>1. pc[r] \notin Answered
  BY DEF InTx, Writing, Answered
<1>2. form[r].ev \in Children /\ seenMax[r] = 0 => lenient[r] = form[r].ev
  BY DEF lenient
<1>3. QED
  BY <1>1, <1>2, MoveEntered

LEMMA StagesEntered ==
  ASSUME SignupInv, NEW r \in Reqs,
         EnsureCapacity(r) \/ BeginReserve(r) \/ Reserve(r) \/ InsertGuest(r) \/ InsertAvec(r)
  PROVE  Entered
<1>1. pc[r] \in {"capacity", "reserve", "wait", "insert", "avec"}
  BY DEF EnsureCapacity, BeginReserve, Reserve, InsertGuest, InsertAvec
<1>2. pc[r] \in InTx \ {"lock"} /\ pc[r] \in {"read"} \cup InTx
  BY <1>1 DEF InTx, Writing
<1>3. \/ \E outcome \in {"full", "duplicate", "read", "busy"} : Rollback(r, outcome)
      \/ /\ \E x \in {"reserve", "wait", "insert", "avec", "commit"} : pc' = [pc EXCEPT ![r] = x]
         /\ UNCHANGED <<rows, capacity, form, seenMax>>
  BY DEF EnsureCapacity, BeginReserve, Reserve, InsertGuest, InsertAvec, InsertRow, Collide
<1>4. CASE \E outcome \in {"full", "duplicate", "read", "busy"} : Rollback(r, outcome)
  BY <1>2, <1>4, RollbackEntered DEF Answered
<1>5. CASE /\ \E x \in {"reserve", "wait", "insert", "avec", "commit"} : pc' = [pc EXCEPT ![r] = x]
           /\ UNCHANGED <<rows, capacity, form, seenMax>>
  BY <1>2, <1>5, InsideEntered DEF InTx, Writing
<1>6. QED
  BY <1>3, <1>4, <1>5

\* The ledger counts as registration does.
LEMMA SameCardinality == \A S : Ledger!Cardinality(S) = Cardinality(S)
BY Zenon DEF Ledger!Cardinality, Cardinality

\* What a commit adds: one row, or a guest's and an avec's.
LEMMA PendingParty ==
  ASSUME SignupInv, NEW r \in Reqs, pc[r] = "commit"
  PROVE  /\ Cardinality(Pending(r)) = Places(r) /\ Places(r) \in {1, 2}
         /\ \A x \in Pending(r) : x.owner = r /\ x.ev = form[r].ev
         /\ \A x, y \in Pending(r) : x # y => x.avec # y.avec
<1>1. /\ GuestRow(r).owner = r /\ GuestRow(r).ev = form[r].ev /\ GuestRow(r).avec = FALSE
      /\ AvecRow(r).owner = r /\ AvecRow(r).ev = form[r].ev /\ AvecRow(r).avec = TRUE
  BY DEF GuestRow, AvecRow, Row
<1>2. CASE form[r].avec = None
  <2>1. Pending(r) = {GuestRow(r)} /\ Places(r) = 1
    BY <1>2 DEF Pending, Places
  <2>2. Cardinality(Pending(r)) = 1
    BY <2>1, FS_Singleton
  <2>3. QED
    BY <1>1, <2>1, <2>2
<1>3. CASE form[r].avec # None
  <2>1. Pending(r) = {GuestRow(r), AvecRow(r)} /\ Places(r) = 2
    BY <1>3 DEF Pending, Places
  <2>2. Pending(r) = {GuestRow(r)} \cup {AvecRow(r)} /\ AvecRow(r) \notin {GuestRow(r)}
    BY <1>1, <2>1
  <2>3. IsFiniteSet({GuestRow(r)}) /\ Cardinality({GuestRow(r)}) = 1
    BY FS_Singleton
  <2>4. Cardinality(Pending(r)) = 2
    BY <2>2, <2>3, FS_AddElement
  <2>5. QED
    BY <1>1, <2>1, <2>4
<1>4. QED
  BY <1>2, <1>3

LEMMA CommitEntered ==
  ASSUME SignupInv, LedgerInv, NEW r \in Reqs, Commit(r)
  PROVE  Entered
<1> DEFINE new == rows' \ rows
<1>1. /\ pc[r] = "commit" /\ pc' = [pc EXCEPT ![r] = "done"] /\ rows' = rows \cup Pending(r)
      /\ UNCHANGED <<capacity, form, seenMax>>
  BY DEF Commit
<1>2. /\ \A x \in Pending(r), y \in rows : NoClash(x, y)
      /\ \A x, y \in Pending(r) : x # y => NoClash(x, y)
  BY DEF LedgerInv, RowsUnused
<1>3. new = Pending(r)
  BY <1>1, <1>2 DEF NoClash
<1>4. answer[r] = "none" /\ answer' = [answer EXCEPT ![r] = "accepted"]
  <2>1. pc[r] \notin Answered
    BY <1>1 DEF Answered
  <2>2. QED
    BY <1>1, <2>1, LedgerFollows
<1>5. lenient' = [lenient EXCEPT ![r] = None]
  <2>1. "done" \notin InTx
    BY DEF InTx, Writing
  <2>2. QED
    BY <1>1, <2>1, LedgerFollows
<1>6. Ledger!Party(r, new)
  <2>1. /\ Cardinality(Pending(r)) \in {1, 2}
        /\ \A x \in Pending(r) : x.owner = r /\ x.ev = form[r].ev
        /\ \A x, y \in Pending(r) : x # y => x.avec # y.avec
    BY <1>1, PendingParty
  <2>2. Cardinality(new) \in {1, 2}
    BY <1>3, <2>1
  <2>3. \A x \in new : x.owner = r /\ x \notin rows
    BY <1>3, <2>1
  <2>4. \A x, y \in new : x.ev = y.ev /\ (x # y => x.avec # y.avec)
    BY <1>3, <2>1
  <2> HIDE DEF new
  <2>5. QED
    BY <2>2, <2>3, <2>4, SameCardinality DEF Ledger!Party
<1>7. Ledger!Fresh(new)
  BY <1>2, <1>3 DEF Ledger!Fresh, NoClash
<1>8. ASSUME NEW x \in new, x.ev \in Children
      PROVE  \/ lenient[r] = x.ev
             \/ Cardinality(Ledger!In(x.ev)) + Cardinality(new) <= capacity[x.ev]
  <2>1. x.ev = form[r].ev /\ Cardinality(new) = Places(r)
    BY <1>1, <1>3, <1>8, PendingParty
  <2>2. pc[r] \in InTx \ {"lock"}
    BY <1>1 DEF InTx, Writing
  <2>3. CASE seenMax[r] = 0
    BY <1>8, <2>1, <2>2, <2>3 DEF lenient
  <2>4. CASE seenMax[r] # 0
    <3>1. childLock[x.ev] = r
      BY <1>8, <2>1, <2>2, <2>4 DEF LedgerInv, LimitLocked
    <3>2. seenMax[r] = capacity[x.ev]
      BY <1>8, <3>1 DEF SignupInv, ChildRowHeld
    <3>3. Count(x.ev) + Places(r) <= seenMax[r]
      BY <1>1, <1>8, <2>4, <3>1 DEF SignupInv, PlacesKept
    <3>4. QED
      BY <2>1, <3>2, <3>3 DEF Count, Ledger!In
  <2>5. QED
    BY <2>3, <2>4
<1>9. Ledger!Accept(r)
  <2>1. rows \subseteq rows' /\ capacity' = capacity
    BY <1>1
  <2>2. \A x \in new : x.ev \in Children =>
          \/ lenient[r] = x.ev
          \/ Cardinality(Ledger!In(x.ev)) + Cardinality(new) <= capacity[x.ev]
    BY <1>8
  <2>3. QED
    BY <1>4, <1>5, <1>6, <1>7, <2>1, <2>2, SameCardinality DEF Ledger!Accept
<1>10. QED
  BY <1>9 DEF Entered, Ledger!Next

\* The administrators remove and renumber rows and set limits, one at a time.
LEMMA AdminEntered ==
  ASSUME SignupInv, Admin
  PROVE  Entered
<1>1. answer' = answer /\ lenient' = lenient
  BY DEF Admin, LoadEvent, SaveEvent, DeleteAttendee, RenumberAttendee, answer, lenient
<1>2. ASSUME NEW a \in Editors, LoadEvent(a) \/ SaveEvent(a) PROVE Entered
  <2>1. rows' = rows
    BY <1>2 DEF LoadEvent, SaveEvent
  <2>2. CASE capacity' = capacity
    BY <1>1, <2>1, <2>2 DEF Entered
  <2>3. ASSUME NEW c \in Children, NEW max \in Caps, capacity' = [capacity EXCEPT ![c] = max]
        PROVE  Entered
    <3>1. capacity'[c] = max /\ max \in Nat
      BY <2>3, SignupAssumption DEF SignupInv, TypeOK
    <3>2. Ledger!SetLimit(c)
      BY <1>1, <2>1, <2>3, <3>1 DEF Ledger!SetLimit
    <3>3. QED
      BY <3>2 DEF Entered, Ledger!Next
  <2>4. QED
    BY <1>2, <2>2, <2>3 DEF LoadEvent, SaveEvent
<1>3. ASSUME NEW x \in rows, DeleteAttendee(x) PROVE Entered
  <2>1. Ledger!Remove(x)
    BY <1>1, <1>3 DEF DeleteAttendee, Ledger!Remove
  <2>2. QED
    BY <2>1 DEF Entered, Ledger!Next
<1>4. ASSUME NEW x \in rows, NEW nr \in ManualNrs, RenumberAttendee(x, nr) PROVE Entered
  <2> DEFINE moved == [x EXCEPT !.nr = nr]
  <2>1. moved.nr = nr
    <3>1. x \in [owner : Reqs, avec : BOOLEAN, ev : Events,
                 email : UNION {{f.email, f.avec} : f \in Forms}, nr : Nat]
      BY DEF SignupInv, TypeOK
    <3>2. QED
      BY <3>1
  <2>2. rows' = (rows \ {x}) \cup {moved} /\ \A y \in rows : y.nr # nr
    BY <1>4 DEF RenumberAttendee
  <2>3. moved \in rows' \ rows
    BY <2>1, <2>2
  <2>4. Ledger!Renumber(x)
    BY <1>1, <1>4, <2>1, <2>2, <2>3 DEF RenumberAttendee, Ledger!Renumber
  <2>5. QED
    BY <2>4 DEF Entered, Ledger!Next
<1>5. QED
  BY <1>2, <1>3, <1>4 DEF Admin

LEMMA NextEntered == SignupInv /\ LedgerInv /\ [Next]_vars => Entered
<1> SUFFICES ASSUME SignupInv, LedgerInv, [Next]_vars PROVE Entered
  OBVIOUS
<1>1. CASE UNCHANGED vars
  BY <1>1 DEF vars, Entered, answer, lenient
<1>2. ASSUME NEW r \in Reqs, AbortDeadlock(r) \/ Crash(r) PROVE Entered
  BY <1>2, AbortRollsBack, RollbackEntered DEF Answered
<1>3. ASSUME NEW r \in Reqs, Submit(r) \/ Step(r) PROVE Entered
  BY <1>3, SubmitEntered, ReadsEntered, StagesEntered, CommitEntered DEF Step
<1>4. QED
  BY <1>1, <1>2, <1>3, AdminEntered DEF Next

-----------------------------------------------------------------------------

\* Uncommitted rows clash with none, and a limit that was seen stays locked.
THEOREM LedgerInvariant == Spec => [](SignupInv /\ LedgerInv)
<1>1. Init => SignupInv /\ LedgerInv
  BY InitInv, InitLedger
<1>2. SignupInv /\ LedgerInv /\ [Next]_vars => (SignupInv /\ LedgerInv)'
  BY NextInv, NextLedger
<1>3. QED
  BY <1>1, <1>2, PTL DEF Spec

\* Registration keeps the ledger's promises: one answer per request, a guest
\* and an avec entered together, emails and numbers unique in the storage
\* event, and a child over its limit only through a request that saw it
\* unlimited (registration.py: register_event_signup).
THEOREM SignupImplementsLedger == Spec => ImplementsLedger
<1>1. Init => Ledger!Init
  BY InitLedgerPromise
<1>2. Spec => [](SignupInv /\ LedgerInv)
  BY LedgerInvariant
<1>3. SignupInv /\ LedgerInv /\ [Next]_vars => [Ledger!Next]_(Ledger!ledgerVars)
  BY NextEntered DEF Entered, Ledger!ledgerVars
<1>4. QED
  BY <1>1, <1>2, <1>3, PTL DEF Spec, ImplementsLedger, Ledger!Spec

-----------------------------------------------------------------------------
(* The steps by which rows multiply.  Only a commit adds any.               *)

LEMMA RowsGrow ==
  ASSUME [Next]_vars
  PROVE  \/ rows' \subseteq rows
         \/ \E r \in Reqs : Commit(r)
         \/ \E x \in rows, nr \in ManualNrs : RenumberAttendee(x, nr)
BY DEF Next, Admin, vars, Submit, Step, AbortDeadlock, Crash, ReadEvent, LockChild,
   EnsureCapacity, BeginReserve, Reserve, InsertGuest, InsertAvec, InsertRow, Collide,
   Rollback, LoadEvent, SaveEvent, DeleteAttendee

\* Whoever commits in a step does so by Commit.
LEMMA CommitsOnlyByCommit ==
  ASSUME SignupInv, Next, NEW r \in Reqs, Commits(r)
  PROVE  Commit(r)
<1>1. pc[r] = "commit" /\ pc'[r] = "done" /\ pc' # pc
      /\ pc \in [Reqs -> {"idle", "read"} \cup InTx \cup Answered]
  BY DEF Commits, SignupInv, TypeOK
<1>2. PICK q \in Reqs : Submit(q) \/ Step(q) \/ AbortDeadlock(q) \/ Crash(q)
  BY <1>1 DEF Next, Admin, LoadEvent, SaveEvent, DeleteAttendee, RenumberAttendee
<1>3. q = r
  BY <1>1, <1>2 DEF Submit, Step, AbortDeadlock, Crash, ReadEvent, LockChild,
     EnsureCapacity, BeginReserve, Reserve, InsertGuest, InsertAvec, InsertRow,
     Collide, Commit, Rollback
<1>4. QED
  BY <1>1, <1>2, <1>3 DEF Submit, Step, AbortDeadlock, Crash, ReadEvent, LockChild,
     EnsureCapacity, BeginReserve, Reserve, InsertGuest, InsertAvec, Rollback

\* A row of T that is renumbered leaves T as large as it was, or smaller.
LEMMA SwapCount ==
  ASSUME NEW T, IsFiniteSet(T), NEW x \in T, NEW y
  PROVE  Cardinality((T \ {x}) \cup {y}) <= Cardinality(T)
<1>1. IsFiniteSet(T \ {x}) /\ Cardinality(T \ {x}) \in Nat
  BY CountMonotone
<1>2. Cardinality((T \ {x}) \cup {x}) = Cardinality(T \ {x}) + 1
  BY <1>1, FS_AddElement
<1>3. (T \ {x}) \cup {x} = T
  OBVIOUS
<1>4. Cardinality((T \ {x}) \cup {y}) <= Cardinality(T \ {x}) + 1
  BY <1>1, CountAdd
<1>5. QED
  BY <1>2, <1>3, <1>4

\* Renumbering takes a row from nobody's signups and from no event.
LEMMA RenumberCount ==
  ASSUME SignupInv, NEW x \in rows, NEW nr \in ManualNrs, RenumberAttendee(x, nr)
  PROVE  /\ \A c : Cardinality({y \in rows' : y.ev = c}) <= Cardinality({y \in rows : y.ev = c})
         /\ \A r : Cardinality({y \in rows' : y.owner = r}) <= Cardinality({y \in rows : y.owner = r})
<1> DEFINE moved == [x EXCEPT !.nr = nr]
           In(S, c) == {y \in S : y.ev = c}
           Of(S, r) == {y \in S : y.owner = r}
<1>1. IsFiniteSet(rows) /\ rows' = (rows \ {x}) \cup {moved}
  BY DEF SignupInv, RenumberAttendee
<1>2. moved.ev = x.ev /\ moved.owner = x.owner
  <2>1. x \in [owner : Reqs, avec : BOOLEAN, ev : Events,
               email : UNION {{f.email, f.avec} : f \in Forms}, nr : Nat]
    BY DEF SignupInv, TypeOK
  <2>2. QED
    BY <2>1
<1> HIDE DEF moved
<1>3. ASSUME NEW c PROVE Cardinality(In(rows', c)) <= Cardinality(In(rows, c))
  <2>1. IsFiniteSet(In(rows, c)) /\ Cardinality(In(rows, c)) \in Nat
    BY <1>1, CountMonotone
  <2>2. CASE x.ev = c
    <3>1. In(rows', c) = (In(rows, c) \ {x}) \cup {moved} /\ x \in In(rows, c)
      BY <1>1, <1>2, <2>2
    <3>2. QED
      BY <2>1, <3>1, SwapCount
  <2>3. CASE x.ev # c
    <3>1. In(rows', c) = In(rows, c)
      BY <1>1, <1>2, <2>3
    <3>2. Cardinality(In(rows', c)) = Cardinality(In(rows, c))
      BY <3>1, Zenon
    <3>3. QED
      BY <2>1, <3>2
  <2>4. QED
    BY <2>2, <2>3
<1>4. ASSUME NEW r PROVE Cardinality(Of(rows', r)) <= Cardinality(Of(rows, r))
  <2>1. IsFiniteSet(Of(rows, r)) /\ Cardinality(Of(rows, r)) \in Nat
    BY <1>1, CountMonotone
  <2>2. CASE x.owner = r
    <3>1. Of(rows', r) = (Of(rows, r) \ {x}) \cup {moved} /\ x \in Of(rows, r)
      BY <1>1, <1>2, <2>2
    <3>2. QED
      BY <2>1, <3>1, SwapCount
  <2>3. CASE x.owner # r
    <3>1. Of(rows', r) = Of(rows, r)
      BY <1>1, <1>2, <2>3
    <3>2. Cardinality(Of(rows', r)) = Cardinality(Of(rows, r))
      BY <3>1, Zenon
    <3>3. QED
      BY <2>1, <3>2
  <2>4. QED
    BY <2>2, <2>3
<1>5. QED
  BY <1>3, <1>4

-----------------------------------------------------------------------------

\* A signup for a child within its limit stays within it unless it read the
\* child as unlimited: the race that the comment after the transaction in
\* registration.py accepts, and no other.
THEOREM OnlyTheRaceOverbooks == Spec => OverbookedOnlyByRace
<1>1. SignupInv /\ LedgerInv /\ [Next]_vars =>
        [\A c \in Children :
           Cardinality({x \in rows' : x.ev = c}) > Count(c)
             => \/ capacity[c] = 0
                \/ Cardinality({x \in rows' : x.ev = c}) <= capacity[c]
                \/ \E r \in Reqs : Commits(r) /\ form[r].ev = c /\ seenMax[r] = 0]_vars
  <2> SUFFICES ASSUME SignupInv, LedgerInv, [Next]_vars, NEW c \in Children,
                      Cardinality({x \in rows' : x.ev = c}) > Count(c)
               PROVE  \/ Cardinality({x \in rows' : x.ev = c}) <= capacity[c]
                      \/ \E r \in Reqs : Commits(r) /\ form[r].ev = c /\ seenMax[r] = 0
    OBVIOUS
  <2>1. IsFiniteSet({x \in rows : x.ev = c}) /\ Count(c) \in Nat
    BY CountMonotone DEF SignupInv, Count
  <2>2. ~(rows' \subseteq rows)
    <3>1. SUFFICES ASSUME rows' \subseteq rows PROVE FALSE
      OBVIOUS
    <3>2. {x \in rows' : x.ev = c} \subseteq {x \in rows : x.ev = c}
      BY <3>1
    <3>3. QED
      BY <2>1, <3>2, CountMonotone DEF Count
  <2>3. ~ \E x \in rows, nr \in ManualNrs : RenumberAttendee(x, nr)
    <3>1. SUFFICES ASSUME NEW x \in rows, NEW nr \in ManualNrs, RenumberAttendee(x, nr)
                   PROVE  FALSE
      OBVIOUS
    <3>2. Cardinality({y \in rows' : y.ev = c}) <= Count(c)
      BY <3>1, RenumberCount DEF Count
    <3>3. IsFiniteSet(rows') /\ Cardinality({y \in rows' : y.ev = c}) \in Nat
      BY <3>1, RenumberAttendeeInv, CountMonotone DEF SignupInv
    <3>4. QED
      BY <2>1, <3>2, <3>3
  <2>4. PICK r \in Reqs : Commit(r)
    BY <2>2, <2>3, RowsGrow
  <2>5. form[r].ev = c
    <3>1. SUFFICES ASSUME form[r].ev # c PROVE FALSE
      OBVIOUS
    <3>2. {x \in rows' : x.ev = c} = {x \in rows : x.ev = c}
      BY <2>4, <3>1, CommitElsewhere
    <3>3. Cardinality({x \in rows' : x.ev = c}) = Count(c)
      BY <3>2, Zenon DEF Count
    <3>4. QED
      BY <2>1, <3>3
  <2>6. Commits(r)
    BY <2>4 DEF Commit, Commits, SignupInv, TypeOK
  <2>7. CASE seenMax[r] # 0
    <3>1. childLock[c] = r
      BY <2>4, <2>5, <2>7 DEF LedgerInv, LimitLocked, Commit, InTx, Writing
    <3>2. Count(c) + Places(r) <= capacity[c]
      BY <2>4, <2>7, <3>1 DEF SignupInv, ChildRowHeld, PlacesKept, Commit
    <3>3. /\ Cardinality({x \in rows' : x.ev = c}) <= Count(c) + Places(r)
          /\ IsFiniteSet(rows')
      BY <2>4, CommitCount
    <3>4. Cardinality({x \in rows' : x.ev = c}) \in Nat /\ Places(r) \in Nat
          /\ capacity[c] \in Nat
      BY <3>3, CountMonotone DEF Places, SignupInv, TypeOK
    <3>5. QED
      BY <2>1, <3>2, <3>3, <3>4
  <2>8. QED
    BY <2>5, <2>6, <2>7
<1>2. Spec => [](SignupInv /\ LedgerInv)
  BY LedgerInvariant
<1>3. QED
  BY <1>1, <1>2, PTL DEF Spec, OverbookedOnlyByRace

-----------------------------------------------------------------------------

\* Whose rows are committed has its answer, so nobody commits twice.
OwnersDone == \A x \in rows : pc[x.owner] = "done"

LEMMA NextOwnersDone ==
  ASSUME SignupInv, OwnersDone, [Next]_vars
  PROVE  OwnersDone'
<1>1. \A r \in Reqs : pc[r] = "done" => pc'[r] = "done"
  BY DEF Next, Admin, vars, Submit, Step, AbortDeadlock, Crash, ReadEvent, LockChild,
     EnsureCapacity, BeginReserve, Reserve, InsertGuest, InsertAvec, InsertRow, Collide,
     Commit, Rollback, LoadEvent, SaveEvent, DeleteAttendee, RenumberAttendee,
     SignupInv, TypeOK, InTx, Writing, Deadlocked, WaitsFor
<1>2. \A x \in rows : x.owner \in Reqs
  BY DEF SignupInv, TypeOK
<1>3. CASE rows' \subseteq rows
  BY <1>1, <1>2, <1>3 DEF OwnersDone
<1>4. ASSUME NEW r \in Reqs, Commit(r) PROVE OwnersDone'
  <2>1. pc'[r] = "done" /\ rows' = rows \cup Pending(r)
    BY <1>4 DEF Commit, SignupInv, TypeOK
  <2>2. \A x \in Pending(r) : x.owner = r
    BY <1>4, PendingParty DEF Commit
  <2>3. QED
    BY <1>1, <1>2, <2>1, <2>2 DEF OwnersDone
<1>5. ASSUME NEW x \in rows, NEW nr \in ManualNrs, RenumberAttendee(x, nr) PROVE OwnersDone'
  <2>1. rows' = (rows \ {x}) \cup {[x EXCEPT !.nr = nr]}
    BY <1>5 DEF RenumberAttendee
  <2>2. [x EXCEPT !.nr = nr].owner = x.owner
    <3>1. x \in [owner : Reqs, avec : BOOLEAN, ev : Events,
                 email : UNION {{f.email, f.avec} : f \in Forms}, nr : Nat]
      BY DEF SignupInv, TypeOK
    <3>2. QED
      BY <3>1
  <2>3. QED
    BY <1>1, <1>2, <2>1, <2>2 DEF OwnersDone
<1>6. QED
  BY <1>3, <1>4, <1>5, RowsGrow

\* What a commit writes: the guest, and the avec ten after the guest.
LEMMA CommitPair ==
  ASSUME SignupInv, LedgerInv, OwnersDone, NEW q \in Reqs, Commit(q), NEW r \in Reqs
  PROVE  LET after == {x \in rows' : x.owner = r} IN
           \/ after = {x \in rows : x.owner = r}
           \/ /\ Cardinality(after) = Places(r)
              /\ \A x, y \in after : x.avec /\ ~y.avec => x.nr = y.nr + 10
<1> DEFINE after == {x \in rows' : x.owner = r}
<1>1. pc[q] = "commit" /\ rows' = rows \cup Pending(q)
  BY DEF Commit
<1>2. /\ Cardinality(Pending(q)) = Places(q) /\ Places(q) \in {1, 2}
      /\ \A x \in Pending(q) : x.owner = q
  BY <1>1, PendingParty
<1>3. CASE q # r
  <2>1. after = {x \in rows : x.owner = r}
    BY <1>1, <1>2, <1>3
  <2>2. QED
    BY <2>1
<1>4. CASE q = r
  <2>1. \A x \in rows : x.owner # r
    BY <1>1, <1>4 DEF OwnersDone
  <2>2. after = Pending(q)
    BY <1>1, <1>2, <1>4, <2>1
  <2>3. Cardinality(after) = Places(r)
    BY <1>2, <1>4, <2>2
  <2>4. ASSUME NEW x \in Pending(q), NEW y \in Pending(q), x.avec, ~y.avec
        PROVE  x.nr = y.nr + 10
    <3>1. /\ GuestRow(q).avec = FALSE /\ GuestRow(q).nr = end[q] - 10 * (Places(q) - 1)
          /\ AvecRow(q).avec = TRUE /\ AvecRow(q).nr = end[q]
      BY DEF GuestRow, AvecRow, Row
    <3>2. form[q].avec # None /\ x = AvecRow(q) /\ y = GuestRow(q)
      BY <1>1, <2>4, <3>1 DEF Pending
    <3>3. Places(q) = 2 /\ end[q] \in Nat
      BY <3>2 DEF Places, SignupInv, TypeOK
    <3>4. QED
      BY <3>1, <3>2, <3>3
  <2>5. QED
    BY <2>2, <2>3, <2>4
<1>5. QED
  BY <1>3, <1>4

\* A guest and an avec are committed together, with adjacent numbers, whatever
\* fails between the two INSERTs (registration.py: _register_event_signup_once).
THEOREM PairsStayTogether == Spec => PairsTogether
<1>1. Init => OwnersDone
  BY DEF Init, OwnersDone
<1>2. SignupInv /\ OwnersDone /\ [Next]_vars => OwnersDone'
  BY NextOwnersDone
<1>3. SignupInv /\ LedgerInv /\ OwnersDone /\ [Next]_vars =>
        [\A r \in Reqs :
           LET before == {x \in rows : x.owner = r}
               after  == {x \in rows' : x.owner = r}
           IN ~(after \subseteq before) /\ Cardinality(after) > Cardinality(before) =>
                /\ Cardinality(after) = Places(r)
                /\ \A x, y \in after : x.avec /\ ~y.avec => x.nr = y.nr + 10]_vars
  <2> SUFFICES ASSUME SignupInv, LedgerInv, OwnersDone, [Next]_vars, NEW r \in Reqs,
                      ~({x \in rows' : x.owner = r} \subseteq {x \in rows : x.owner = r}),
                      Cardinality({x \in rows' : x.owner = r})
                        > Cardinality({x \in rows : x.owner = r})
               PROVE  /\ Cardinality({x \in rows' : x.owner = r}) = Places(r)
                      /\ \A x, y \in {z \in rows' : z.owner = r} :
                           x.avec /\ ~y.avec => x.nr = y.nr + 10
    OBVIOUS
  <2>1. ~(rows' \subseteq rows)
    OBVIOUS
  <2>2. ~ \E x \in rows, nr \in ManualNrs : RenumberAttendee(x, nr)
    <3>1. SUFFICES ASSUME NEW x \in rows, NEW nr \in ManualNrs, RenumberAttendee(x, nr)
                   PROVE  FALSE
      OBVIOUS
    <3>2. Cardinality({y \in rows' : y.owner = r}) <= Cardinality({y \in rows : y.owner = r})
      BY <3>1, RenumberCount
    <3>3. IsFiniteSet(rows') /\ IsFiniteSet(rows)
      BY <3>1, RenumberAttendeeInv DEF SignupInv
    <3>4. /\ Cardinality({y \in rows' : y.owner = r}) \in Nat
          /\ Cardinality({y \in rows : y.owner = r}) \in Nat
      BY <3>3, CountMonotone
    <3>5. QED
      BY <3>2, <3>4
  <2>3. PICK q \in Reqs : Commit(q)
    BY <2>1, <2>2, RowsGrow
  <2>4. QED
    BY <2>3, CommitPair
<1>4. QED
  BY <1>1, <1>2, <1>3, LedgerInvariant, PTL DEF Spec, PairsTogether

-----------------------------------------------------------------------------
(* Until a change form is saved, the limits are those the requests read:    *)
(* whoever aims at a limited child takes its row first, and nobody takes    *)
(* the row of an unlimited one.                                             *)

AsRead ==
  Unedited =>
    /\ \A r \in Reqs : pc[r] \in InTx /\ form[r].ev \in Children
         => seenMax[r] = capacity[form[r].ev]
    /\ \A r \in Reqs : pc[r] = "lock" => seenMax[r] # 0
    /\ \A r \in Reqs, c \in Children : childLock[c] = r => capacity[c] # 0

\* A save ends Unedited for good; no other step touches a limit.
LEMMA UneditedSteps ==
  ASSUME SignupInv, [Next]_vars, Unedited'
  PROVE  Unedited /\ capacity' = capacity /\ ~ \E a \in Editors : SaveEvent(a)
<1>1. ASSUME NEW a \in Editors, SaveEvent(a) PROVE FALSE
  <2>1. edit'[a].at = "saved"
    BY <1>1 DEF SaveEvent, SignupInv, TypeOK
  <2>2. QED
    BY <2>1 DEF Unedited
<1>2. ASSUME NEW a \in Editors, LoadEvent(a) PROVE Unedited /\ capacity' = capacity
  <2>1. \A b \in Editors \ {a} : edit'[b] = edit[b]
    BY <1>2 DEF LoadEvent, SignupInv, TypeOK
  <2>2. QED
    BY <1>2, <2>1 DEF LoadEvent, Unedited
<1>3. CASE edit' = edit /\ capacity' = capacity
  BY <1>1, <1>3 DEF Unedited
<1>4. \/ \E a \in Editors : LoadEvent(a) \/ SaveEvent(a)
      \/ edit' = edit /\ capacity' = capacity
  BY DEF Next, Admin, vars, Submit, Step, AbortDeadlock, Crash, ReadEvent, LockChild,
     EnsureCapacity, BeginReserve, Reserve, InsertGuest, InsertAvec, InsertRow, Collide,
     Commit, Rollback, DeleteAttendee, RenumberAttendee
<1>5. QED
  BY <1>1, <1>2, <1>3, <1>4

\* A step of one request keeps AsRead if it does for that request.
LEMMA AsReadKept ==
  ASSUME SignupInv, AsRead, NEW r \in Reqs, Unedited, capacity' = capacity,
         \A q \in Reqs \ {r} : pc'[q] = pc[q] /\ form'[q] = form[q] /\ seenMax'[q] = seenMax[q],
         \A c \in Children : childLock'[c] \in {childLock[c], None}
                             \/ (childLock'[c] = r /\ capacity[c] # 0),
         pc'[r] \in InTx /\ form'[r].ev \in Children => seenMax'[r] = capacity[form'[r].ev],
         pc'[r] = "lock" => seenMax'[r] # 0
  PROVE  AsRead'
BY SignupAssumption DEF AsRead

LEMMA NextAsRead ==
  ASSUME SignupInv, AsRead, [Next]_vars
  PROVE  AsRead'
<1> SUFFICES ASSUME Unedited' PROVE AsRead'
  BY DEF AsRead
<1>1. Unedited /\ capacity' = capacity /\ ~ \E a \in Editors : SaveEvent(a)
  BY UneditedSteps
<1>2. ASSUME NEW r \in Reqs, NEW outcome \in {"read"} \cup Answered, Rollback(r, outcome)
      PROVE  AsRead'
  <2>1. pc'[r] \notin InTx /\ \A q \in Reqs \ {r} : pc'[q] = pc[q]
    BY <1>2 DEF Rollback, SignupInv, TypeOK, InTx, Writing, Answered
  <2>2. "lock" \in InTx
    BY DEF InTx
  <2>3. \A c \in Children : childLock'[c] \in {childLock[c], None}
    BY <1>2 DEF Rollback, ReleaseLocks
  <2>4. QED
    BY <1>1, <1>2, <2>1, <2>2, <2>3, AsReadKept DEF Rollback
<1>3. ASSUME NEW r \in Reqs, Submit(r) PROVE AsRead'
  <2>1. pc'[r] \notin InTx /\ pc'[r] # "lock"
        /\ \A q \in Reqs \ {r} : pc'[q] = pc[q] /\ form'[q] = form[q]
    BY <1>3 DEF Submit, SignupInv, TypeOK, InTx, Writing
  <2>2. QED
    BY <1>1, <1>3, <2>1, AsReadKept DEF Submit
<1>4. ASSUME NEW r \in Reqs, ReadEvent(r) PROVE AsRead'
  <2>1. /\ form'[r].ev \in Children => seenMax'[r] = capacity[form'[r].ev]
        /\ pc'[r] = "lock" => seenMax'[r] # 0
        /\ \A q \in Reqs \ {r} : pc'[q] = pc[q] /\ seenMax'[q] = seenMax[q]
    BY <1>4 DEF ReadEvent, SignupInv, TypeOK
  <2>2. QED
    BY <1>1, <1>4, <2>1, AsReadKept DEF ReadEvent
<1>5. ASSUME NEW r \in Reqs, LockChild(r) PROVE AsRead'
  <2>1. pc[r] = "lock" /\ form[r].ev \in Children /\ capacity[form[r].ev] # 0
    BY <1>1, <1>5 DEF LockChild, AsRead, SignupInv, ChildRowHeld, InTx
  <2>2. /\ seenMax'[r] = capacity[form[r].ev] /\ pc'[r] = "capacity" /\ form' = form
        /\ \A q \in Reqs \ {r} : pc'[q] = pc[q] /\ seenMax'[q] = seenMax[q]
    BY <1>5 DEF LockChild, SignupInv, TypeOK
  <2>3. \A c \in Children : childLock'[c] = childLock[c]
                            \/ (childLock'[c] = r /\ capacity[c] # 0)
    BY <1>5, <2>1 DEF LockChild, SignupInv, TypeOK
  <2>4. QED
    BY <1>1, <2>1, <2>2, <2>3, AsReadKept
<1>6. ASSUME NEW r \in Reqs, NEW x \in InTx \ {"lock"}, pc[r] \in InTx,
             pc' = [pc EXCEPT ![r] = x], UNCHANGED <<childLock, form, seenMax>>
      PROVE  AsRead'
  <2>1. pc'[r] = x /\ \A q \in Reqs \ {r} : pc'[q] = pc[q]
    BY <1>6 DEF SignupInv, TypeOK
  <2>2. form[r].ev \in Children => seenMax[r] = capacity[form[r].ev]
    BY <1>1, <1>6 DEF AsRead
  <2>3. QED
    BY <1>1, <1>6, <2>1, <2>2, AsReadKept
<1>7. ASSUME NEW r \in Reqs,
             EnsureCapacity(r) \/ BeginReserve(r) \/ Reserve(r) \/ InsertGuest(r) \/ InsertAvec(r)
      PROVE  AsRead'
  <2>1. pc[r] \in InTx
    BY <1>7 DEF EnsureCapacity, BeginReserve, Reserve, InsertGuest, InsertAvec, InTx, Writing
  <2>2. \/ \E outcome \in {"full", "duplicate", "read", "busy"} : Rollback(r, outcome)
        \/ /\ \E x \in {"reserve", "wait", "insert", "avec", "commit"} : pc' = [pc EXCEPT ![r] = x]
           /\ UNCHANGED <<childLock, form, seenMax>>
    BY <1>7 DEF EnsureCapacity, BeginReserve, Reserve, InsertGuest, InsertAvec, InsertRow, Collide
  <2>3. QED
    BY <1>2, <1>6, <2>1, <2>2 DEF Answered, InTx, Writing
<1>8. ASSUME NEW r \in Reqs, Commit(r) PROVE AsRead'
  <2>1. pc'[r] \notin InTx /\ pc'[r] # "lock" /\ \A q \in Reqs \ {r} : pc'[q] = pc[q]
    BY <1>8 DEF Commit, SignupInv, TypeOK, InTx, Writing
  <2>2. \A c \in Children : childLock'[c] \in {childLock[c], None}
    BY <1>8 DEF Commit, ReleaseLocks
  <2>3. QED
    BY <1>1, <1>8, <2>1, <2>2, AsReadKept DEF Commit
<1>9. ASSUME NEW r \in Reqs, AbortDeadlock(r) \/ Crash(r) PROVE AsRead'
  BY <1>2, <1>9, AbortRollsBack DEF Answered
<1>10. CASE UNCHANGED <<childLock, pc, form, seenMax>>
  BY <1>1, <1>10 DEF AsRead
<1>11. Admin \/ UNCHANGED vars => UNCHANGED <<childLock, pc, form, seenMax>>
  BY DEF vars, Admin, LoadEvent, SaveEvent, DeleteAttendee, RenumberAttendee
<1>12. QED
  BY <1>3, <1>4, <1>5, <1>7, <1>8, <1>9, <1>10, <1>11 DEF Next, Step

\* With the limits the requests read, waits lead from child rows to the
\* counter row and never back.
LEMMA AsReadNoCycle ==
  ASSUME SignupInv, LedgerInv, AsRead, Unedited
  PROVE  \A r \in Reqs : ~Deadlocked(r)
<1> SUFFICES ASSUME NEW r \in Reqs, NEW q \in WaitsFor(r), r \in WaitsFor(q)
             PROVE  FALSE
  BY DEF Deadlocked
<1>1. \A p \in Reqs, c \in Children, u \in Reqs :
        childLock[c] = u /\ pc[p] \in InTx \ {"lock"} /\ form[p].ev = c => p = u
  <2> SUFFICES ASSUME NEW p \in Reqs, NEW c \in Children, NEW u \in Reqs, childLock[c] = u,
                      pc[p] \in InTx \ {"lock"}, form[p].ev = c
               PROVE  p = u
    OBVIOUS
  <2>1. capacity[c] # 0 /\ seenMax[p] = capacity[c]
    BY DEF AsRead
  <2>2. QED
    BY <2>1 DEF LedgerInv, LimitLocked
<1>2. q \in Reqs
  <2>1. /\ mainLock \in Reqs \cup {None}
        /\ \A c \in Children : childLock[c] \in Reqs \cup {None}
        /\ pc[r] = "lock" => form[r].ev \in Children
    BY Shapes DEF SignupInv, ChildRowHeld
  <2>2. QED
    BY <2>1 DEF WaitsFor
<1>3. pc[r] # "commit" /\ pc[q] # "commit"
  BY <1>1, <1>2 DEF WaitsFor, SignupInv, TypeOK, InTx, Writing
<1>4. \A p \in Reqs, u \in Reqs : u \in WaitsFor(p) /\ pc[p] # "commit" => pc[u] \in InTx \ {"lock"}
  BY DEF WaitsFor, SignupInv, CounterRowHeld, ChildRowHeld, InTx, Writing, TypeOK
<1>5. pc[q] \in InTx \ {"lock"} /\ pc[r] \in InTx \ {"lock"}
  BY <1>2, <1>3, <1>4
<1>6. pc[q] = "wait" /\ mainLock = r /\ pc[r] = "wait"
  BY <1>3, <1>5 DEF WaitsFor
<1>7. QED
  BY <1>6 DEF SignupInv, CounterRowHeld, Writing

\* No two signups ever wait for each other while no child goes from unlimited
\* to limited (registration.py takes the child's row before the counter's).
THEOREM SignupsNeverDeadlock == Spec => []NoWaitCycle
<1>1. Init => AsRead /\ (0 \notin Caps => ChildFirst)
  BY InitChildFirst, SignupAssumption DEF Init, AsRead, InTx, Writing
<1>2. SignupInv /\ AsRead /\ (0 \notin Caps => ChildFirst) /\ [Next]_vars =>
        (AsRead /\ (0 \notin Caps => ChildFirst))'
  BY NextAsRead, ChildFirstStep
<1>3. SignupInv /\ LedgerInv /\ AsRead /\ (0 \notin Caps => ChildFirst) => NoWaitCycle
  BY AsReadNoCycle, ChildFirstNoCycle DEF NoWaitCycle
<1>4. QED
  BY <1>1, <1>2, <1>3, LedgerInvariant, PTL DEF Spec

-----------------------------------------------------------------------------
(* Until a change form is saved, and if nobody types numbers, the counter   *)
(* is ahead of every row and every snapshot, and a reserved number ahead of *)
(* the counter: the maximum and the unique index are never needed.          *)

CounterAhead ==
  Unedited =>
    /\ \A x \in rows : x.nr <= counter
    /\ \A r \in Reqs : pc[r] = "wait" => snapMax[r] <= counter
    /\ \A r \in Reqs : pc[r] \in Writing => end[r] - 10 * (Places(r) - 1) > counter
    /\ \A r \in Reqs : pc[r] = "avec" => Places(r) = 2
    /\ \A r \in Reqs : attempt[r] = 0

\* Rounding the counter down to tens and adding tens skips past it.
LEMMA NextTens ==
  ASSUME NEW base \in Nat, NEW n \in {1, 2}
  PROVE  /\ (base \div 10) * 10 + 10 * n \in Nat
         /\ (base \div 10) * 10 + 10 * n - 10 * (n - 1) > base
OBVIOUS

\* A step of r that leaves the counter and the rows, or removes rows only.
LEMMA AheadKept ==
  ASSUME SignupInv, CounterAhead, NEW r \in Reqs, Unedited,
         rows' \subseteq rows, counter' = counter,
         \A q \in Reqs \ {r} : /\ pc'[q] = pc[q] /\ form'[q] = form[q] /\ end'[q] = end[q]
                               /\ snapMax'[q] = snapMax[q] /\ attempt'[q] = attempt[q],
         pc'[r] = "wait" => snapMax'[r] <= counter,
         pc'[r] \in Writing => end'[r] - 10 * (Places(r)' - 1) > counter,
         pc'[r] = "avec" => Places(r)' = 2,
         attempt'[r] = 0
  PROVE  CounterAhead'
<1>1. \A q \in Reqs \ {r} : Places(q)' = Places(q)
  BY DEF Places
<1>2. QED
  BY <1>1 DEF CounterAhead

\* No INSERT meets its number in the table or in its own transaction.
LEMMA NoCollision ==
  ASSUME SignupInv, CounterAhead, Unedited, NEW r \in Reqs
  PROVE  /\ pc[r] = "insert" =>
              \A x \in rows \cup Pending(r) : x.nr # GuestRow(r).nr
         /\ pc[r] = "avec" =>
              \A x \in rows \cup Pending(r) : x.nr # AvecRow(r).nr
<1>1. /\ GuestRow(r).nr = end[r] - 10 * (Places(r) - 1) /\ AvecRow(r).nr = end[r]
      /\ Places(r) \in {1, 2} /\ end[r] \in Nat /\ counter \in Nat
      /\ \A x \in rows : x.nr \in Nat /\ x.nr <= counter
  BY DEF GuestRow, AvecRow, Row, Places, SignupInv, TypeOK, CounterAhead
<1>2. CASE pc[r] = "insert"
  <2>1. Pending(r) = {} /\ end[r] - 10 * (Places(r) - 1) > counter
    BY <1>2 DEF Pending, CounterAhead, Writing
  <2>2. QED
    BY <1>1, <1>2, <2>1
<1>3. CASE pc[r] = "avec"
  <2>1. Pending(r) = {GuestRow(r)} /\ end[r] - 10 * (Places(r) - 1) > counter
    BY <1>3 DEF Pending, CounterAhead, Writing
  <2>2. Places(r) = 2
    BY <1>3 DEF CounterAhead
  <2>3. QED
    BY <1>1, <1>3, <2>1, <2>2
<1>4. QED
  BY <1>2, <1>3

\* A roll-back without a collision.
LEMMA RollbackAhead ==
  ASSUME SignupInv, CounterAhead, Unedited, NEW r \in Reqs,
         NEW outcome \in {"read"} \cup Answered, Rollback(r, outcome), attempt' = attempt
  PROVE  CounterAhead'
<1>1. /\ pc'[r] \notin {"wait"} \cup Writing
      /\ \A q \in Reqs \ {r} : pc'[q] = pc[q]
  BY DEF Rollback, SignupInv, TypeOK, Writing, Answered
<1>2. "avec" \in Writing /\ attempt[r] = 0
  BY DEF Writing, CounterAhead
<1>3. QED
  BY <1>1, <1>2, AheadKept DEF Rollback

LEMMA StagesAhead ==
  ASSUME SignupInv, CounterAhead, Unedited, NEW r \in Reqs,
         Submit(r) \/ ReadEvent(r) \/ LockChild(r) \/ EnsureCapacity(r)
  PROVE  CounterAhead'
<1>1. CASE EnsureCapacity(r) /\ Rollback(r, "full")
  BY <1>1, RollbackAhead DEF EnsureCapacity, Answered
<1>2. CASE pc'[r] \in {"read", "duplicate", "lock", "capacity", "reserve"}
  <2>1. /\ \A q \in Reqs \ {r} : pc'[q] = pc[q] /\ form'[q] = form[q]
        /\ UNCHANGED <<rows, counter, end, snapMax, attempt>>
    BY <1>2 DEF Submit, ReadEvent, LockChild, EnsureCapacity, Rollback, SignupInv, TypeOK
  <2>2. pc'[r] \notin {"wait", "avec"} \cup Writing /\ attempt[r] = 0
    BY <1>2 DEF Writing, CounterAhead
  <2>3. QED
    BY <2>1, <2>2, AheadKept
<1>3. QED
  BY <1>1, <1>2 DEF Submit, ReadEvent, LockChild, EnsureCapacity, SignupInv, TypeOK

LEMMA ReserveAhead ==
  ASSUME SignupInv, CounterAhead, Unedited, NEW r \in Reqs, BeginReserve(r) \/ Reserve(r)
  PROVE  CounterAhead'
<1>0. TypeOK /\ attempt[r] = 0 /\ counter \in Nat
  BY DEF SignupInv, TypeOK, CounterAhead
<1>1. CASE BeginReserve(r)
  <2>1. /\ pc'[r] = "wait"
        /\ \A q \in Reqs \ {r} : pc'[q] = pc[q] /\ snapMax'[q] = snapMax[q]
    BY <1>0, <1>1 DEF BeginReserve, TypeOK
  <2>2. snapMax'[r] \in {x.nr : x \in rows} \cup {0}
    BY <1>0, <1>1 DEF BeginReserve, TypeOK
  <2>3. snapMax'[r] <= counter
    BY <1>0, <2>2 DEF CounterAhead
  <2>4. QED
    BY <1>0, <1>1, <2>1, <2>3, AheadKept DEF BeginReserve, Writing
<1>2. CASE Reserve(r)
  <2>1. /\ pc'[r] = "insert"
        /\ \A q \in Reqs \ {r} : pc'[q] = pc[q] /\ end'[q] = end[q]
    BY <1>0, <1>2 DEF Reserve, TypeOK
  <2>2. snapMax[r] <= counter /\ snapMax[r] \in Nat /\ Places(r) \in {1, 2}
    BY <1>0, <1>2 DEF Reserve, CounterAhead, Places, TypeOK
  <2>3. counter >= snapMax[r]
    BY <1>0, <2>2
  <2>4. end'[r] = (counter \div 10) * 10 + 10 * Places(r)
    BY <1>0, <1>2, <2>3 DEF Reserve, TypeOK
  <2>5. end'[r] - 10 * (Places(r) - 1) > counter
    BY <1>0, <2>2, <2>4, NextTens
  <2>6. Places(r)' = Places(r)
    BY <1>2 DEF Reserve, Places
  <2>7. QED
    BY <1>0, <1>2, <2>1, <2>5, <2>6, AheadKept DEF Reserve, Writing
<1>3. QED
  BY <1>1, <1>2

LEMMA InsertAhead ==
  ASSUME SignupInv, CounterAhead, Unedited, NEW r \in Reqs, InsertGuest(r) \/ InsertAvec(r)
  PROVE  CounterAhead'
<1>1. \/ Rollback(r, "duplicate") /\ UNCHANGED attempt
      \/ /\ \E x \in {"avec", "commit"} :
              pc' = [pc EXCEPT ![r] = x] /\ (x = "avec" => form[r].avec # None)
         /\ UNCHANGED <<rows, counter, form, end, snapMax, attempt>>
  BY NoCollision DEF InsertGuest, InsertAvec, InsertRow
<1>2. CASE Rollback(r, "duplicate") /\ UNCHANGED attempt
  BY <1>2, RollbackAhead DEF Answered
<1>3. CASE /\ \E x \in {"avec", "commit"} :
                pc' = [pc EXCEPT ![r] = x] /\ (x = "avec" => form[r].avec # None)
           /\ UNCHANGED <<rows, counter, form, end, snapMax, attempt>>
  <2>1. /\ pc'[r] \in {"avec", "commit"}
        /\ pc'[r] = "avec" => form[r].avec # None
        /\ \A q \in Reqs \ {r} : pc'[q] = pc[q]
    BY <1>3 DEF SignupInv, TypeOK
  <2>2. pc[r] \in Writing
    BY DEF InsertGuest, InsertAvec, Writing
  <2>3. end[r] - 10 * (Places(r) - 1) > counter /\ attempt[r] = 0
    BY <2>2 DEF CounterAhead
  <2>4. Places(r)' = Places(r) /\ (pc'[r] = "avec" => Places(r) = 2)
    BY <1>3, <2>1 DEF Places
  <2>5. QED
    BY <1>3, <2>1, <2>3, <2>4, AheadKept
<1>4. QED
  BY <1>1, <1>2, <1>3

\* The numbers of a commit lie between the counter before it and after it.
LEMMA CommitNumbers ==
  ASSUME SignupInv, CounterAhead, Unedited, NEW r \in Reqs, Commit(r)
  PROVE  /\ \A y \in Pending(r) : counter < y.nr /\ y.nr <= end[r]
         /\ counter < end[r] /\ end[r] \in Nat
<1>1. pc[r] = "commit" /\ end[r] - 10 * (Places(r) - 1) > counter
  BY DEF Commit, CounterAhead, Writing
<1>2. Places(r) \in {1, 2} /\ end[r] \in Nat /\ counter \in Nat
  BY DEF Places, SignupInv, TypeOK
<1>3. /\ GuestRow(r).nr = end[r] - 10 * (Places(r) - 1)
      /\ AvecRow(r).nr = end[r]
      /\ Pending(r) \subseteq {GuestRow(r), AvecRow(r)}
  BY <1>1 DEF GuestRow, AvecRow, Row, Pending
<1>4. QED
  BY <1>1, <1>2, <1>3

LEMMA CommitAhead ==
  ASSUME SignupInv, CounterAhead, Unedited, NEW r \in Reqs, Commit(r)
  PROVE  CounterAhead'
<1>1. /\ pc[r] \in Writing /\ pc'[r] = "done" /\ \A q \in Reqs \ {r} : pc'[q] = pc[q]
      /\ rows' = rows \cup Pending(r) /\ counter' = end[r]
      /\ UNCHANGED <<form, end, snapMax, attempt>>
  BY DEF Commit, SignupInv, TypeOK, Writing
<1>2. /\ \A y \in Pending(r) : y.nr <= end[r]
      /\ counter < end[r] /\ end[r] \in Nat
  BY CommitNumbers
<1>3. counter \in Nat /\ \A x \in rows : x.nr \in Nat /\ \A q \in Reqs : snapMax[q] \in Nat
  BY DEF SignupInv, TypeOK
<1>4. \A q \in Reqs : pc'[q] \notin Writing
  BY <1>1, OneWriter DEF Writing
<1>5. \A x \in rows' : x.nr <= counter'
  BY <1>1, <1>2, <1>3 DEF CounterAhead
<1>6. \A q \in Reqs : pc'[q] = "wait" => snapMax'[q] <= counter'
  <2> SUFFICES ASSUME NEW q \in Reqs, pc'[q] = "wait" PROVE snapMax'[q] <= counter'
    OBVIOUS
  <2>1. pc[q] = "wait" /\ snapMax[q] \in Nat
    BY <1>1 DEF SignupInv, TypeOK
  <2>2. snapMax[q] <= counter
    BY <2>1 DEF CounterAhead
  <2>3. QED
    BY <1>1, <1>2, <1>3, <2>1, <2>2
<1>7. QED
  BY <1>1, <1>4, <1>5, <1>6 DEF CounterAhead, Writing

LEMMA NextAhead ==
  ASSUME ManualNrs = {}, SignupInv, CounterAhead, [Next]_vars
  PROVE  CounterAhead'
<1> SUFFICES ASSUME Unedited' PROVE CounterAhead'
  BY DEF CounterAhead
<1>1. Unedited /\ ~ \E a \in Editors : SaveEvent(a)
  BY UneditedSteps
<1>2. ASSUME NEW r \in Reqs, Submit(r) \/ Step(r) PROVE CounterAhead'
  BY <1>1, <1>2, StagesAhead, ReserveAhead, InsertAhead, CommitAhead DEF Step
<1>3. ASSUME NEW r \in Reqs, AbortDeadlock(r) \/ Crash(r) PROVE CounterAhead'
  <2>1. Rollback(r, "error") /\ attempt' = attempt
    BY <1>3 DEF AbortDeadlock, Crash
  <2>2. QED
    BY <1>1, <2>1, RollbackAhead DEF Answered
<1>4. CASE rows' \subseteq rows /\ UNCHANGED <<counter, pc, form, end, snapMax, attempt>>
  BY <1>1, <1>4 DEF CounterAhead, Places
<1>5. Admin \/ UNCHANGED vars =>
        rows' \subseteq rows /\ UNCHANGED <<counter, pc, form, end, snapMax, attempt>>
  BY <1>1 DEF Admin, vars, LoadEvent, DeleteAttendee
<1>6. QED
  BY <1>2, <1>3, <1>4, <1>5 DEF Next

LEMMA InitAhead == Init => CounterAhead
BY DEF Init, CounterAhead, Writing

\* Until a change form is saved, and if nobody types numbers, a signup's numbers
\* come after those of every signup before it (models.py: reserve_attendee_nrs).
THEOREM NumbersInOrder ==
  ASSUME ManualNrs = {}
  PROVE  Spec => NumbersFollowCommits
<1>1. SignupInv /\ CounterAhead /\ [Next]_vars => CounterAhead'
  BY NextAhead
<1>2. SignupInv /\ CounterAhead /\ [Next]_vars =>
        [\A r \in Reqs : Unedited /\ Commits(r) =>
           \A x \in rows, y \in rows' \ rows : x.nr < y.nr]_vars
  <2> SUFFICES ASSUME SignupInv, CounterAhead, Next, Unedited, NEW r \in Reqs, Commits(r),
                      NEW x \in rows, NEW y \in rows' \ rows
               PROVE  x.nr < y.nr
    OBVIOUS
  <2>1. Commit(r)
    BY CommitsOnlyByCommit
  <2>2. y \in Pending(r)
    BY <2>1 DEF Commit
  <2>3. counter < y.nr /\ y.nr <= end[r] /\ end[r] \in Nat
    BY <2>1, <2>2, CommitNumbers
  <2>4. x.nr <= counter /\ x.nr \in Nat /\ counter \in Nat /\ y.nr \in Int
    <3>1. rows' \subseteq [owner : Reqs, avec : BOOLEAN, ev : Events,
                           email : UNION {{f.email, f.avec} : f \in Forms}, nr : Nat]
      BY NextInv DEF SignupInv, TypeOK
    <3>2. QED
      BY <3>1 DEF CounterAhead, SignupInv, TypeOK
  <2>5. QED
    BY <2>3, <2>4
<1>3. QED
  BY <1>1, <1>2, InitAhead, SignupInvariant, PTL DEF Spec, NumbersFollowCommits

\* Until a change form is saved, and if nobody types numbers, no signup collides
\* with another's number and runs its transaction twice.
THEOREM SignupsRunOnce ==
  ASSUME ManualNrs = {}
  PROVE  Spec => []RetriesOnlyAfterEdit
<1>1. SignupInv /\ CounterAhead /\ [Next]_vars => CounterAhead'
  BY NextAhead
<1>2. CounterAhead => RetriesOnlyAfterEdit
  BY DEF CounterAhead, RetriesOnlyAfterEdit
<1>3. QED
  BY <1>1, <1>2, InitAhead, SignupInvariant, PTL DEF Spec
=============================================================================
