--------------------------- MODULE CheckInProofs ---------------------------
(***************************************************************************)
(* The attendance log, for any number of requests, attendees and           *)
(* corrections: its rows stay well formed, its readings agree, and repeats *)
(* come only from requests that overlapped.  The modules that compose the  *)
(* check-in with voters and pages use these lemmas.                        *)
(***************************************************************************)
EXTENDS CheckIn, FiniteSetTheorems, WellFoundedInduction, TLAPS

USE CheckInAssumption, NoneAssumption

\* The order of the log is a strict order, total on rows with different ids.
LEMMA BeforeOrder ==
  /\ \A c \in Changes : ~Before(c, c)
  /\ \A c, d \in Changes : Before(c, d) => ~Before(d, c)
  /\ \A c, d, e \in Changes : Before(c, d) /\ Before(d, e) => Before(c, e)
  /\ \A c, d \in Changes : c.id # d.id => Before(c, d) \/ Before(d, c)
BY DEF Before, Changes

\* A set of natural numbers has a least one.
LEMMA LeastNat ==
  ASSUME NEW T \in SUBSET Nat, T # {}
  PROVE  \E x \in T : \A y \in T : x <= y
<1> DEFINE R == OpToRel(<, Nat)
<1>1. IsWellFoundedOn(R, Nat)
  BY NatLessThanWellFounded
<1>2. \A x, y \in Nat : y < x => <<y, x>> \in R
  BY DEF OpToRel
<1> HIDE DEF R
<1>3. PICK x \in T : \A y \in T : ~(<<y, x>> \in R)
  BY <1>1, WFMin
<1>4. ASSUME NEW y \in T PROVE x <= y
  <2>1. x \in Nat /\ y \in Nat
    OBVIOUS
  <2>2. ~(y < x)
    BY <1>2, <1>3, <2>1
  <2>3. QED
    BY <2>1, <2>2
<1>5. QED
  BY <1>4

\* Who is present by the vote's reading of the log is on the meeting's list.
LEMMA PresentIsListed ==
  ASSUME log \subseteq Changes, NEW a, NEW t, IsAttendeePresent(log, a, t)
  PROVE  a \in PresentAttendees(log, t)
<1>1. PICK c \in log : /\ c.who = a /\ c.at <= t /\ c.type = "ENTER"
                       /\ \A d \in log : d.who = a /\ d.at <= t /\ d # c => Before(d, c)
  BY DEF IsAttendeePresent
<1>2. \A d \in log : d.who = c.who /\ d.at <= t => ~Before(c, d)
  BY <1>1, BeforeOrder
<1>3. c \in LatestChanges(log, t)
  BY <1>1, <1>2 DEF LatestChanges
<1> QED
  BY <1>1, <1>3 DEF PresentAttendees, Arrivals

LEMMA InitLog == InitCheckIn => LogInv /\ MeetingInv
BY DEF InitCheckIn, LogInv, MeetingInv, CheckInTypeOK, Requests, Idle, Types, Changes, Written,
       LogOrdered, SawOther, RowAfterSeen

\* A request's row has the type of a row.
LEMMA RowType ==
  ASSUME LogInv, NEW p \in Checks, check[p].at # "new", NEW i \in Nat
  PROVE  Row(p, i) \in Changes
BY DEF LogInv, CheckInTypeOK, Row, Changes, Requests

LEMMA LogStep == LogInv /\ CheckInNext => LogInv'
<1> SUFFICES ASSUME LogInv, CheckInNext PROVE LogInv'
  OBVIOUS
<1> USE DEF LogInv, CheckInTypeOK
<1>1. CASE Tick
  BY <1>1 DEF Tick
<1>2. ASSUME NEW p \in Checks, Ask(p) PROVE LogInv'
  <2>1. PICK a \in Attendees, ty \in Types :
          check' = [check EXCEPT ![p].at = IF MayChange(a, ty) THEN "allowed" ELSE "refused",
                                 ![p].who = a, ![p].type = ty]
    BY <1>2 DEF Ask
  <2>2. /\ check' \in [Checks -> Requests]
        /\ \A q \in Checks : check'[q].at # "new" => check'[q].who \in Attendees
    <3>1. PICK step \in {"allowed", "refused"} :
            check' = [check EXCEPT ![p] = [check[p] EXCEPT !.at = step, !.who = a, !.type = ty]]
      BY <2>1
    <3>2. check[p] \in Requests
      OBVIOUS
    <3>3. [check[p] EXCEPT !.at = step, !.who = a, !.type = ty] \in Requests
      BY <3>2 DEF Requests
    <3>4. check' \in [Checks -> Requests]
      BY <3>1, <3>3
    <3>5. \A q \in Checks : check'[q].at # "new" => check'[q].who \in Attendees
      BY <3>1, <3>2 DEF Requests
    <3> QED
      BY <3>4, <3>5
  <2>3. saw' \in [Checks -> SUBSET Nat]
    BY <1>2 DEF Ask, Changes
  <2>4. UNCHANGED <<log, nextId, now, fix, fixes>>
    BY <1>2 DEF Ask
  <2> QED
    BY <2>2, <2>3, <2>4
<1>3. ASSUME NEW p \in Checks, Stamp(p) PROVE LogInv'
  <2>1. check[p] \in Requests /\ now \in Nat /\ check[p].at # "new"
    BY <1>3 DEF Stamp
  <2>2. check' = [check EXCEPT ![p] = [check[p] EXCEPT !.at = "stamped", !.stamp = now]]
    BY <1>3 DEF Stamp
  <2>3. [check[p] EXCEPT !.at = "stamped", !.stamp = now] \in Requests
    BY <2>1 DEF Requests
  <2>4. check' \in [Checks -> Requests]
    BY <2>2, <2>3
  <2>5. [check[p] EXCEPT !.at = "stamped", !.stamp = now].who = check[p].who
    BY <2>1 DEF Requests
  <2>6. \A q \in Checks : check'[q].at # "new" => check'[q].who \in Attendees
    BY <2>1, <2>2, <2>5
  <2>7. UNCHANGED <<log, nextId, now, saw, fix, fixes>>
    BY <1>3 DEF Stamp
  <2> QED
    BY <2>4, <2>6, <2>7
<1>4. ASSUME NEW p \in Checks, Save(p) PROVE LogInv'
  <2>1. Row(p, nextId) \in Changes /\ Row(p, nextId).id = nextId
    BY <1>4, RowType DEF Save, Row
  <2>2. log' = log \cup {Row(p, nextId)} /\ nextId' = nextId + 1
    BY <1>4 DEF Save
  <2>3. /\ log' \subseteq Changes
        /\ \A c, d \in log' : c.id = d.id => c = d
        /\ nextId' \in Nat /\ nextId' > 0
        /\ \A c \in log' : 0 < c.id /\ c.id < nextId'
    <3>1. \A c \in log : c \in Changes /\ c.id \in Nat /\ 0 < c.id /\ c.id < nextId
      BY DEF Changes
    <3> QED
      BY <2>1, <2>2, <3>1
  <2>4. check' \in [Checks -> Requests]
    <3>0. check[p] \in Requests /\ nextId \in Nat
      OBVIOUS
    <3>1. [check[p] EXCEPT !.at = "saved", !.id = nextId] \in Requests
      BY <3>0 DEF Requests
    <3>2. check' = [check EXCEPT ![p] = [check[p] EXCEPT !.at = "saved", !.id = nextId]]
      BY <1>4 DEF Save
    <3> QED
      BY <3>1, <3>2
  <2>5. \A q \in Checks : check'[q].at # "new" => check'[q].who \in Attendees
    BY <1>4 DEF Save
  <2>6. UNCHANGED <<now, saw, fix, fixes>>
    BY <1>4 DEF Save
  <2>7. fix.at = "uncommitted" =>
          /\ fix.old # None => fix.old \in log'
          /\ fix.new # None =>
               /\ 0 < fix.new.id /\ fix.new.id < nextId'
               /\ \A c \in log' : c.id = fix.new.id => c = fix.old
    <3> SUFFICES ASSUME fix.at = "uncommitted", fix.new # None
                 PROVE  /\ fix.new.id < nextId'
                        /\ \A c \in log' : c.id = fix.new.id => c = fix.old
      BY <2>2
    <3>1. fix.new.id \in Nat /\ fix.new.id < nextId
      BY DEF Changes
    <3> QED
      BY <2>1, <2>2, <3>1
  <2> QED
    BY <2>3, <2>4, <2>5, <2>6, <2>7
<1>5. ASSUME NEW p \in Checks, Announce(p) PROVE LogInv'
  <2>1. check[p] \in Requests /\ now \in Nat /\ check[p].at # "new"
    BY <1>5 DEF Announce
  <2>2. check' = [check EXCEPT ![p] = [check[p] EXCEPT !.at = "done"]]
    BY <1>5 DEF Announce
  <2>3. [check[p] EXCEPT !.at = "done"] \in Requests
    BY <2>1 DEF Requests
  <2>4. check' \in [Checks -> Requests]
    BY <2>2, <2>3
  <2>5. [check[p] EXCEPT !.at = "done"].who = check[p].who
    BY <2>1 DEF Requests
  <2>6. \A q \in Checks : check'[q].at # "new" => check'[q].who \in Attendees
    BY <2>1, <2>2, <2>5
  <2>7. UNCHANGED <<log, nextId, now, saw, fix, fixes>>
    BY <1>5 DEF Announce
  <2> QED
    BY <2>4, <2>6, <2>7
<1>6. CASE Correct
  <2>1. PICK old \in log \cup {None}, who \in Attendees, ty \in Types, at \in 0..now :
          \E new \in {None, [id |-> IF old = None THEN nextId ELSE old.id,
                              who |-> who, at |-> at, type |-> ty]} :
            /\ old # new
            /\ fix' = [at |-> "uncommitted", old |-> old, new |-> new]
            /\ nextId' = IF old = None THEN nextId + 1 ELSE nextId
    BY <1>6 DEF Correct
  <2>2. PICK new \in {None, [id |-> IF old = None THEN nextId ELSE old.id,
                              who |-> who, at |-> at, type |-> ty]} :
            /\ old # new
            /\ fix' = [at |-> "uncommitted", old |-> old, new |-> new]
            /\ nextId' = IF old = None THEN nextId + 1 ELSE nextId
    BY <2>1
  <2>3. \A c \in log : c \in Changes /\ c.id \in Nat /\ 0 < c.id /\ c.id < nextId
    BY DEF Changes
  <2>4. new # None => /\ new \in Changes
                      /\ new.id = IF old = None THEN nextId ELSE old.id
    BY <2>2, <2>3 DEF Changes
  <2>5. old \in Changes \cup {None}
    BY <2>3
  <2>6. fix' \in [at : {"idle", "uncommitted", "untold"},
                  old : Changes \cup {None}, new : Changes \cup {None}]
    BY <2>2, <2>4, <2>5
  <2>7. /\ nextId' \in Nat /\ nextId' > 0 /\ nextId' >= nextId
        /\ new # None => 0 < new.id /\ new.id < nextId'
    BY <2>2, <2>3, <2>4
  <2>8. \A c \in log : new # None /\ c.id = new.id => c = old
    BY <2>3, <2>4
  <2>9. /\ UNCHANGED <<log, now, check, saw>> /\ fixes' \in 0..MaxFixes
    BY <1>6 DEF Correct
  <2>10. \A c \in log' : 0 < c.id /\ c.id < nextId'
    BY <2>3, <2>7, <2>9
  <2> QED
    BY <2>2, <2>6, <2>7, <2>8, <2>9, <2>10
<1>7. CASE CommitCorrection
  <2>1. /\ log' = (log \ {fix.old}) \cup ({fix.new} \ {None}) /\ fix' = Idle
        /\ UNCHANGED <<nextId, now, check, saw, fixes>> /\ fix.at = "uncommitted"
    BY <1>7 DEF CommitCorrection
  <2>2. fix.new # None => /\ fix.new \in Changes
                          /\ 0 < fix.new.id /\ fix.new.id < nextId
                          /\ \A c \in log : c.id = fix.new.id => c = fix.old
    BY <2>1
  <2>3. log' \subseteq Changes /\ \A c \in log' : 0 < c.id /\ c.id < nextId'
    BY <2>1, <2>2
  <2>4. \A c, d \in log' : c.id = d.id => c = d
    BY <2>1, <2>2
  <2>5. /\ fix'.at # "uncommitted"
        /\ fix' \in [at : {"idle", "uncommitted", "untold"},
                     old : Changes \cup {None}, new : Changes \cup {None}]
    BY <2>1 DEF Idle
  <2> QED
    BY <2>1, <2>3, <2>4, <2>5
<1>8. CASE DeleteSelected
  <2>1. /\ log' \subseteq log /\ fix'.at = "untold" /\ fixes' \in 0..MaxFixes
        /\ fix' \in [at : {"idle", "uncommitted", "untold"},
                     old : Changes \cup {None}, new : Changes \cup {None}]
        /\ UNCHANGED <<nextId, now, check, saw>>
    BY <1>8 DEF DeleteSelected, Idle
  <2> QED
    BY <2>1
<1>9. CASE TellDeleted
  BY <1>9 DEF TellDeleted, Idle
<1> QED
  BY <1>1, <1>2, <1>3, <1>4, <1>5, <1>6, <1>7, <1>8, <1>9 DEF CheckInNext, CheckInStep

\* The log with one more row, newer in id than all of it, still has a latest
\* row for everyone.
LEMMA LatestAfterSave ==
  ASSUME LogInv, LogOrdered, NEW n \in Changes, n.id = nextId, n.at <= now,
         log' = log \cup {n}, now' = now
  PROVE  LogOrdered'
<1> USE DEF LogInv, CheckInTypeOK
<1>1. \A c \in log : c \in Changes /\ c.id < n.id /\ c.id # n.id
  BY DEF Changes
<1>2. \A c \in log : c.at <= n.at => Before(c, n)
  BY <1>1 DEF Before, Changes
<1>3. SUFFICES ASSUME NEW c \in log'
               PROVE  c.at <= now /\ \E m \in log' : m.who = c.who /\ Latest(m)'
  BY DEF LogOrdered
<1>4. c.at <= now
  BY DEF LogOrdered
<1>5. CASE c.who # n.who
  <2>1. PICK m \in log : m.who = c.who /\ Latest(m)
    BY <1>5 DEF LogOrdered
  <2>2. Latest(m)'
    BY <2>1, <1>5 DEF Latest
  <2> QED
    BY <1>4, <2>1, <2>2
<1>6. CASE c.who = n.who /\ \E d \in log : d.who = n.who
  <2>1. PICK m \in log : m.who = n.who /\ Latest(m)
    BY <1>6 DEF LogOrdered
  <2>2. CASE Before(m, n)
    <3>1. \A d \in log : d.who = n.who => Before(d, n)
      BY <2>1, <2>2, <1>1, BeforeOrder DEF Latest
    <3>2. Latest(n)'
      BY <3>1 DEF Latest
    <3> QED
      BY <1>4, <1>6, <3>2
  <2>3. CASE Before(n, m)
    <3>1. Latest(m)'
      BY <2>1, <2>3 DEF Latest
    <3> QED
      BY <1>4, <1>6, <2>1, <3>1
  <2> QED
    BY <1>1, <2>2, <2>3, BeforeOrder
<1>7. CASE c.who = n.who /\ ~\E d \in log : d.who = n.who
  <2>1. Latest(n)'
    BY <1>7 DEF Latest
  <2> QED
    BY <1>4, <1>7, <2>1
<1> QED
  BY <1>5, <1>6, <1>7

\* A request let through sees, after each row of its type, one of the other.
LEMMA AllowedSawOther ==
  ASSUME LogInv, LogOrdered, NEW a, NEW ty \in Types, MayChange(a, ty),
         NEW c \in log, c.who = a, c.type = ty
  PROVE  \E e \in log : Follows(c, e) /\ e.type # ty
<1> USE DEF LogInv, CheckInTypeOK, LogOrdered
<1>1. PICK m \in log : m.who = a /\ \A d \in log : d.who = a /\ d # m => Before(d, m)
  BY DEF Latest
<1>2. m.type = "ENTER" => IsAttendeePresent(log, a, now)
  BY <1>1 DEF IsAttendeePresent
<1>3. IsAttendeePresent(log, a, now) => m.type = "ENTER"
  <2> SUFFICES ASSUME IsAttendeePresent(log, a, now) PROVE m.type = "ENTER"
    OBVIOUS
  <2>1. PICK p \in log : /\ p.who = a /\ p.type = "ENTER"
                         /\ \A d \in log : d.who = a /\ d # p => Before(d, p)
    BY DEF IsAttendeePresent
  <2>2. p = m
    BY <1>1, <2>1, BeforeOrder
  <2> QED
    BY <2>1, <2>2
<1>4. m.type # ty
  BY <1>2, <1>3 DEF MayChange, Types, Changes
<1> QED
  BY <1>1, <1>4 DEF Follows

\* A step that leaves the rows a request saw, and the request, as they are.
LEMMA OthersKeep ==
  ASSUME LogInv, LogOrdered, NEW q \in Checks, SawOther(q), RowAfterSeen(q),
         log \subseteq log', \A c \in log' \ log : c.id >= nextId,
         nextId' \in Nat, nextId' >= nextId, now' \in Nat, now' >= now,
         check'[q] = check[q], saw'[q] = saw[q]
  PROVE  SawOther(q)' /\ RowAfterSeen(q)'
<1> USE DEF LogInv, CheckInTypeOK, Requests
<1>1. saw[q] \subseteq Nat /\ \A i \in saw[q] : i < nextId
  BY DEF RowAfterSeen
<1>2. RowAfterSeen(q)'
  <2>1. /\ check[q].stamp \in Nat /\ check[q].stamp <= now'
        /\ \A i \in saw[q] : i < nextId'
    BY <1>1 DEF RowAfterSeen
  <2> QED
    BY <2>1 DEF RowAfterSeen, Written, Row
<1>3. SawOther(q)'
  <2>1. \A c \in log' : c.id \in saw[q] => c \in log
    BY <1>1
  <2> QED
    BY <2>1 DEF SawOther, Follows
<1> QED
  BY <1>2, <1>3

LEMMA MeetingStep == LogInv /\ MeetingInv /\ CheckInNext => MeetingInv'
<1> SUFFICES ASSUME LogInv, MeetingInv, CheckInNext, fixes' = 0 PROVE MeetingInv'
  BY DEF MeetingInv
<1>1. fixes = 0 /\ fix' = fix /\ fixes' = fixes
  <2>1. fixes \in Nat /\ (fixes = 0 => fix.at = "idle")
    BY DEF LogInv, CheckInTypeOK, MeetingInv, Idle
  <2>2. ~Correct /\ ~DeleteSelected
    BY <2>1 DEF Correct, DeleteSelected
  <2>3. ~CommitCorrection /\ ~TellDeleted
    BY <2>1 DEF CommitCorrection, TellDeleted
  <2>4. Tick \/ (\E p \in Checks : CheckInStep(p)) => UNCHANGED <<fix, fixes>>
    BY DEF CheckInStep, Tick, Ask, Stamp, Save, Announce
  <2> QED
    BY <2>2, <2>3, <2>4 DEF CheckInNext
<1>2. fix = Idle /\ LogOrdered /\ \A q \in Checks : SawOther(q) /\ RowAfterSeen(q)
  BY <1>1 DEF MeetingInv
<1>3. ~Correct /\ ~CommitCorrection /\ ~DeleteSelected /\ ~TellDeleted
  BY <1>1, <1>2 DEF Correct, CommitCorrection, DeleteSelected, TellDeleted, Idle
<1>4. SUFFICES LogOrdered' /\ \A q \in Checks : SawOther(q)' /\ RowAfterSeen(q)'
  BY <1>1, <1>2 DEF MeetingInv, Idle
<1> USE DEF LogInv, CheckInTypeOK
<1>5. \A c \in log : c.at \in Nat /\ c.id \in Nat
  BY DEF Changes
<1>6. ASSUME log' = log, now' \in Nat, now' >= now PROVE LogOrdered'
  <2>1. \A m : Latest(m) => Latest(m)'
    BY <1>6 DEF Latest
  <2> QED
    BY <1>2, <1>5, <1>6, <2>1 DEF LogOrdered
<1>7. CASE Tick
  <2>1. /\ now' = now + 1 /\ UNCHANGED <<log, nextId, check, saw>>
    BY <1>7 DEF Tick
  <2> QED
    BY <1>2, <1>6, <2>1, OthersKeep
<1>8. ASSUME NEW p \in Checks, Ask(p)
      PROVE  LogOrdered' /\ \A q \in Checks : SawOther(q)' /\ RowAfterSeen(q)'
  <2>1. PICK a \in Attendees, ty \in Types :
          check' = [check EXCEPT ![p].at = IF MayChange(a, ty) THEN "allowed" ELSE "refused",
                                 ![p].who = a, ![p].type = ty]
    BY <1>8 DEF Ask
  <2>2. /\ check[p].at = "new" /\ saw' = [saw EXCEPT ![p] = {c.id : c \in log}]
        /\ UNCHANGED <<log, nextId, now>>
    BY <1>8 DEF Ask
  <2>3. ASSUME NEW q \in Checks, q # p PROVE SawOther(q)' /\ RowAfterSeen(q)'
    <3>1. check'[q] = check[q] /\ saw'[q] = saw[q]
      BY <2>1, <2>2, <2>3
    <3> QED
      BY <1>2, <2>2, <3>1, OthersKeep
  <2>4. /\ check'[p].at = IF MayChange(a, ty) THEN "allowed" ELSE "refused"
        /\ check'[p].who = a /\ check'[p].type = ty
        /\ check'[p].stamp = check[p].stamp /\ check'[p].id = check[p].id
        /\ saw'[p] = {c.id : c \in log}
    BY <2>1, <2>2 DEF Requests
  <2>5. RowAfterSeen(p)'
    BY <1>2, <2>2, <2>4 DEF RowAfterSeen, Written
  <2>6. SawOther(p)'
    <3> SUFFICES ASSUME MayChange(a, ty), NEW c \in log, c.who = a, c.type = ty
                 PROVE  \E e \in log : e.id \in saw'[p] /\ Follows(c, e) /\ e.type # ty
      BY <2>2, <2>4 DEF SawOther, Follows
    <3> QED
      BY <1>2, <2>4, AllowedSawOther
  <2> QED
    BY <1>6, <2>2, <2>3, <2>5, <2>6
<1>9. ASSUME NEW p \in Checks, Stamp(p)
      PROVE  LogOrdered' /\ \A q \in Checks : SawOther(q)' /\ RowAfterSeen(q)'
  <2>1. /\ check[p].at = "allowed" /\ UNCHANGED <<log, nextId, now, saw>>
        /\ check' = [check EXCEPT ![p].at = "stamped", ![p].stamp = now]
    BY <1>9 DEF Stamp
  <2>2. ASSUME NEW q \in Checks, q # p PROVE SawOther(q)' /\ RowAfterSeen(q)'
    <3>1. check'[q] = check[q] /\ saw'[q] = saw[q]
      BY <2>1, <2>2
    <3> QED
      BY <1>2, <2>1, <3>1, OthersKeep
  <2>3. /\ check'[p].at = "stamped" /\ check'[p].stamp = now
        /\ check'[p].who = check[p].who /\ check'[p].type = check[p].type
        /\ check'[p].id = check[p].id
    BY <2>1 DEF Requests
  <2>4. RowAfterSeen(p)'
    BY <1>2, <2>1, <2>3 DEF RowAfterSeen, Written
  <2>5. SawOther(p)'
    BY <1>2, <2>1, <2>3 DEF SawOther, Follows, LogOrdered
  <2> QED
    BY <1>6, <2>1, <2>2, <2>4, <2>5
<1>10. ASSUME NEW p \in Checks, Save(p)
       PROVE  LogOrdered' /\ \A q \in Checks : SawOther(q)' /\ RowAfterSeen(q)'
  <2> DEFINE n == Row(p, nextId)
  <2>1. /\ check[p].at = "stamped" /\ UNCHANGED <<now, saw>>
        /\ log' = log \cup {n} /\ nextId' = nextId + 1
        /\ check' = [check EXCEPT ![p].at = "saved", ![p].id = nextId]
    BY <1>10 DEF Save
  <2>2. n \in Changes /\ n.id = nextId /\ n.at = check[p].stamp
    BY <2>1, RowType DEF Row
  <2>3. n.at <= now
    BY <1>2, <2>2 DEF RowAfterSeen
  <2>4. LogOrdered'
    <3> HIDE DEF n
    <3> QED
      BY <1>2, <2>1, <2>2, <2>3, LatestAfterSave
  <2>5. log \subseteq log' /\ \A c \in log' \ log : c.id >= nextId
    BY <2>1, <2>2
  <2>6. ASSUME NEW q \in Checks, q # p PROVE SawOther(q)' /\ RowAfterSeen(q)'
    <3>1. check'[q] = check[q] /\ saw'[q] = saw[q]
      BY <2>1, <2>6
    <3> QED
      BY <1>2, <2>1, <2>5, <3>1, OthersKeep
  <2>7. /\ check'[p].at = "saved" /\ check'[p].id = nextId /\ saw'[p] = saw[p]
        /\ check'[p].who = check[p].who /\ check'[p].type = check[p].type
        /\ check'[p].stamp = check[p].stamp
    BY <2>1 DEF Requests
  <2>9. Row(p, check[p].id)' = n
    BY <2>7 DEF Row
  <2>10. saw[p] \subseteq Nat /\ \A i \in saw[p] : i < nextId
    BY <1>2 DEF RowAfterSeen
  <2>11. RowAfterSeen(p)'
    BY <1>2, <2>1, <2>7, <2>9, <2>10 DEF RowAfterSeen, Written
  <2>12. SawOther(p)'
    <3>1. \A c \in log' : c.id \in saw[p] => c \in log
      BY <2>1, <2>2, <2>10
    <3> QED
      BY <1>2, <2>1, <2>5, <2>7, <3>1 DEF SawOther, Follows
  <2> QED
    BY <2>4, <2>6, <2>11, <2>12
<1>11. ASSUME NEW p \in Checks, Announce(p)
       PROVE  LogOrdered' /\ \A q \in Checks : SawOther(q)' /\ RowAfterSeen(q)'
  <2>1. /\ check[p].at = "saved" /\ UNCHANGED <<log, nextId, now, saw>>
        /\ check' = [check EXCEPT ![p].at = "done"]
    BY <1>11 DEF Announce
  <2>2. ASSUME NEW q \in Checks, q # p PROVE SawOther(q)' /\ RowAfterSeen(q)'
    <3>1. check'[q] = check[q] /\ saw'[q] = saw[q]
      BY <2>1, <2>2
    <3> QED
      BY <1>2, <2>1, <3>1, OthersKeep
  <2>3. /\ check'[p].at = "done" /\ check'[p].stamp = check[p].stamp
        /\ check'[p].who = check[p].who /\ check'[p].type = check[p].type
        /\ check'[p].id = check[p].id /\ saw'[p] = saw[p]
    BY <2>1 DEF Requests
  <2>4. Row(p, check[p].id)' = Row(p, check[p].id)
    BY <2>3 DEF Row
  <2>5. RowAfterSeen(p)'
    BY <1>2, <2>1, <2>3, <2>4 DEF RowAfterSeen, Written
  <2>6. SawOther(p)'
    BY <1>2, <2>1, <2>3 DEF SawOther, Follows
  <2> QED
    BY <1>6, <2>1, <2>2, <2>5, <2>6
<1> QED
  BY <1>3, <1>7, <1>8, <1>9, <1>10, <1>11 DEF CheckInNext, CheckInStep

\* While nobody corrects the log, a repeat needs two overlapping requests.
LEMMA RepeatNeedsOverlap == LogInv /\ MeetingInv => RepeatOnlyByOverlap
<1> SUFFICES ASSUME LogInv, MeetingInv, fixes = 0,
                    NEW c \in log, NEW d \in log, NEW q \in Checks,
                    Repeats(c, d), check[q].id = d.id, c.id \in saw[q]
             PROVE  FALSE
  BY DEF RepeatOnlyByOverlap
<1> USE DEF LogInv, CheckInTypeOK
<1>1. SawOther(q) /\ RowAfterSeen(q)
  BY DEF MeetingInv
<1>2. Written(q) /\ d = Row(q, check[q].id)
  <2>1. d.id # 0
    BY DEF Changes
  <2>2. Written(q) /\ Row(q, check[q].id) \in log
    BY <1>1, <2>1 DEF RowAfterSeen
  <2>3. Row(q, check[q].id).id = d.id
    BY DEF Row
  <2> QED
    BY <2>2, <2>3
<1>3. d.who = check[q].who /\ d.at = check[q].stamp /\ d.type = check[q].type
  BY <1>2 DEF Row
<1>4. PICK e \in log : /\ e.id \in saw[q] /\ Follows(c, e) /\ e.type # c.type
                       /\ e.at <= check[q].stamp
  BY <1>1, <1>2, <1>3 DEF SawOther, Repeats, Follows, Written
<1>5. e.id < d.id
  BY <1>1, <1>2, <1>4 DEF RowAfterSeen
<1>6. Before(e, d)
  BY <1>3, <1>4, <1>5 DEF Before, Changes
<1> QED
  BY <1>4, <1>6 DEF Repeats, Follows

-----------------------------------------------------------------------------
(* The report.                                                             *)

IsLog(L) == L \subseteq Changes /\ IsFiniteSet(L) /\ \A c, d \in L : c.id = d.id => c = d

EarlierRows(L, c) == {d \in L : Before(d, c)}

\* Fewer than all the rows come before one of them, and they are more the
\* later it is.
LEMMA RankOfRow ==
  ASSUME NEW L, IsLog(L)
  PROVE  /\ Cardinality(L) \in Nat
         /\ \A c \in L : Cardinality(EarlierRows(L, c)) \in 0..Cardinality(L) - 1
         /\ \A c, d \in L :
              Before(c, d) => Cardinality(EarlierRows(L, c)) < Cardinality(EarlierRows(L, d))
<1>1. IsFiniteSet(L) /\ Cardinality(L) \in Nat
  BY FS_CardinalityType DEF IsLog
<1>2. ASSUME NEW c \in L
      PROVE  /\ IsFiniteSet(EarlierRows(L, c))
             /\ Cardinality(EarlierRows(L, c)) \in 0..Cardinality(L) - 1
  <2>1. EarlierRows(L, c) \in SUBSET (L \ {c})
    BY BeforeOrder DEF EarlierRows, IsLog
  <2>2. IsFiniteSet(L \ {c}) /\ Cardinality(L \ {c}) = Cardinality(L) - 1
    BY <1>1, FS_RemoveElement
  <2>3. /\ IsFiniteSet(EarlierRows(L, c))
        /\ Cardinality(EarlierRows(L, c)) <= Cardinality(L) - 1
    BY <2>1, <2>2, FS_Subset
  <2>4. Cardinality(EarlierRows(L, c)) \in Nat
    BY <2>3, FS_CardinalityType
  <2> QED
    BY <1>1, <2>3, <2>4
<1>3. ASSUME NEW c \in L, NEW d \in L, Before(c, d)
      PROVE  Cardinality(EarlierRows(L, c)) < Cardinality(EarlierRows(L, d))
  <2>1. EarlierRows(L, c) \in SUBSET EarlierRows(L, d)
    BY <1>3, BeforeOrder DEF EarlierRows, IsLog
  <2>2. c \in EarlierRows(L, d) /\ c \notin EarlierRows(L, c)
    BY <1>3, BeforeOrder DEF EarlierRows, IsLog
  <2>3. IsFiniteSet(EarlierRows(L, d))
    BY <1>2
  <2>4. /\ Cardinality(EarlierRows(L, c)) <= Cardinality(EarlierRows(L, d))
        /\ Cardinality(EarlierRows(L, c)) # Cardinality(EarlierRows(L, d))
    BY <2>1, <2>2, <2>3, FS_Subset
  <2>5. Cardinality(EarlierRows(L, c)) \in Int /\ Cardinality(EarlierRows(L, d)) \in Int
    BY <1>1, <1>2
  <2> QED
    BY <2>4, <2>5
<1> QED
  BY <1>1, <1>2, <1>3

\* So each number of earlier rows is that of one row.
LEMMA RankOfSome ==
  ASSUME NEW L, IsLog(L), NEW k \in 0..Cardinality(L) - 1
  PROVE  \E c \in L : Cardinality(EarlierRows(L, c)) = k
<1> DEFINE n == Cardinality(L)
           R == [c \in L |-> Cardinality(EarlierRows(L, c))]
<1>1. R \in [L -> 0..n - 1] /\ n \in Nat
  BY RankOfRow
<1>2. ASSUME NEW c \in L, NEW d \in L, c # d PROVE R[c] # R[d]
  <2>1. Before(c, d) \/ Before(d, c)
    BY <1>2, BeforeOrder DEF IsLog
  <2>2. R[c] < R[d] \/ R[d] < R[c]
    BY <2>1, RankOfRow
  <2>3. R[c] \in Int /\ R[d] \in Int
    BY <1>1
  <2> HIDE DEF R
  <2> QED
    BY <2>2, <2>3
<1> HIDE DEF n, R
<1>3. R \in Injection(L, 0..n - 1)
  BY <1>1, <1>2 DEF Injection, IsInjective
<1>4. IsFiniteSet(0..n - 1) /\ Cardinality(0..n - 1) = n
  <2>1. 0 \in Int /\ n - 1 \in Int
    BY <1>1
  <2>2. /\ IsFiniteSet(0..n - 1)
        /\ Cardinality(0..n - 1) = IF 0 > n - 1 THEN 0 ELSE (n - 1) - 0 + 1
    BY <2>1, FS_Interval
  <2> QED
    BY <1>1, <2>2
<1>5. R \in Surjection(L, 0..n - 1)
  BY <1>3, <1>4, FS_Injection DEF n
<1>6. \E c \in L : R[c] = k
  BY <1>5 DEF Surjection, n
<1> QED
  BY <1>6 DEF R

\* The rows as the report loads them: all of them, in order.
LEMMA TimelineIs ==
  ASSUME NEW L, IsLog(L)
  PROVE  /\ \A k \in 1..Cardinality(L) : Timeline(L)[k] \in L
         /\ \A c \in L : \E k \in 1..Cardinality(L) : Timeline(L)[k] = c
         /\ \A i, k \in 1..Cardinality(L) : i < k => Before(Timeline(L)[i], Timeline(L)[k])
<1> DEFINE n == Cardinality(L)
           z == Timeline(L)
           R(c) == Cardinality(EarlierRows(L, c))
<1>1. n \in Nat /\ \A c \in L : R(c) \in 0..n - 1
  BY RankOfRow
<1>2. \A c, d \in L : Before(c, d) => R(c) < R(d)
  BY RankOfRow
<1>3. \A k \in 0..n - 1 : \E c \in L : R(c) = k
  BY RankOfSome
<1>4. z = [k \in 1..n |-> CHOOSE c \in L : R(c) = k - 1]
  BY DEF Timeline, EarlierRows
<1>5. \A c, d \in L : c # d => Before(c, d) \/ Before(d, c)
  BY BeforeOrder DEF IsLog
<1> HIDE DEF n, z, R
<1>6. ASSUME NEW k \in 1..n PROVE z[k] \in L /\ R(z[k]) = k - 1
  <2>1. k - 1 \in 0..n - 1
    BY <1>1
  <2>2. \E c \in L : R(c) = k - 1
    BY <1>3, <2>1
  <2> QED
    BY <1>4, <2>2
<1>7. ASSUME NEW c \in L PROVE \E k \in 1..n : z[k] = c
  <2>1. R(c) + 1 \in 1..n /\ (R(c) + 1) - 1 = R(c) /\ R(c) \in Int
    BY <1>1
  <2>2. PICK k \in 1..n : k = R(c) + 1
    BY <2>1
  <2>3. z[k] \in L /\ R(z[k]) = R(c)
    BY <1>6, <2>1, <2>2
  <2>4. z[k] = c
    <3>1. SUFFICES ASSUME z[k] # c PROVE FALSE
      OBVIOUS
    <3>2. R(z[k]) < R(c) \/ R(c) < R(z[k])
      BY <1>2, <1>5, <2>3, <3>1
    <3> QED
      BY <2>1, <2>3, <3>2
  <2> QED
    BY <2>4
<1>8. ASSUME NEW i \in 1..n, NEW k \in 1..n, i < k PROVE Before(z[i], z[k])
  <2>1. z[i] \in L /\ z[k] \in L /\ R(z[i]) = i - 1 /\ R(z[k]) = k - 1
    BY <1>6
  <2>2. R(z[i]) < R(z[k])
    BY <1>8, <2>1, <1>1
  <2>3. z[i] # z[k] /\ ~(R(z[k]) < R(z[i]))
    BY <2>1, <1>1, <1>8
  <2> QED
    BY <1>2, <1>5, <2>1, <2>3
<1> QED
  BY <1>6, <1>7, <1>8 DEF n, z

NobodyYet == [room |-> {}, peak |-> 0]

\* A is the replay of the rows z up to the n-th.
IsReplay(A, z, n, end) ==
  A = [k \in 0..n |-> IF k = 0 THEN NobodyYet ELSE Replay(A[k - 1], z[k], end)]

\* There is one, for any number of rows.
LEMMA ReplayExists ==
  ASSUME NEW z, NEW end, NEW n \in Nat
  PROVE  \E A : IsReplay(A, z, n, end)
<1> DEFINE bad == {m \in Nat : ~\E A : IsReplay(A, z, m, end)}
<1> SUFFICES ASSUME bad # {} PROVE FALSE
  OBVIOUS
<1>1. PICK m \in bad : \A k \in bad : m <= k
  <2>1. bad \in SUBSET Nat
    OBVIOUS
  <2> HIDE DEF bad
  <2> QED
    BY <2>1, LeastNat
<1>2. m \in Nat /\ \A k \in Nat : k < m => \E A : IsReplay(A, z, k, end)
  BY <1>1
<1>3. CASE m = 0
  <2> DEFINE A == [k \in 0..0 |-> NobodyYet]
  <2>1. \A k \in 0..0 : k = 0
    OBVIOUS
  <2>2. A = [k \in 0..0 |-> IF k = 0 THEN NobodyYet ELSE Replay(A[k - 1], z[k], end)]
    BY <2>1
  <2>3. IsReplay(A, z, 0, end)
    BY <2>2 DEF IsReplay
  <2> QED
    BY <1>1, <1>3, <2>3
<1>4. CASE m # 0
  <2>1. m - 1 \in Nat /\ m - 1 < m
    BY <1>2, <1>4
  <2>2. PICK B : IsReplay(B, z, m - 1, end)
    BY <1>2, <2>1
  <2> DEFINE A == [k \in 0..m |-> IF k = m THEN Replay(B[m - 1], z[m], end) ELSE B[k]]
  <2>3. \A k \in 0..m - 1 : A[k] = B[k]
    BY <1>2, <2>1
  <2>4. \A k \in 0..m - 1 : B[k] = IF k = 0 THEN NobodyYet ELSE Replay(B[k - 1], z[k], end)
    BY <2>2 DEF IsReplay
  <2>5. A[m] = Replay(B[m - 1], z[m], end)
    BY <1>2
  <2>6. A = [k \in 0..m |-> A[k]]
    OBVIOUS
  <2> HIDE DEF A
  <2>7. ASSUME NEW k \in 0..m
        PROVE  A[k] = IF k = 0 THEN NobodyYet ELSE Replay(A[k - 1], z[k], end)
    <3>1. CASE k = m
      <4>1. m - 1 \in 0..m - 1
        BY <2>1
      <4>2. A[m - 1] = B[m - 1]
        BY <2>3, <4>1
      <4> QED
        BY <1>4, <2>5, <3>1, <4>2
    <3>2. CASE k # m /\ k # 0
      <4>1. k \in 0..m - 1 /\ k - 1 \in 0..m - 1
        BY <1>2, <3>2
      <4>2. A[k - 1] = B[k - 1] /\ A[k] = B[k]
        BY <2>3, <4>1
      <4> QED
        BY <2>4, <3>2, <4>1, <4>2
    <3>3. CASE k = 0
      <4>1. 0 \in 0..m - 1
        BY <2>1
      <4> QED
        BY <2>3, <2>4, <3>3, <4>1
    <3> QED
      BY <3>1, <3>2, <3>3
  <2>8. IsReplay(A, z, m, end)
    BY <2>6, <2>7 DEF IsReplay
  <2> QED
    BY <1>1, <2>8
<1> QED
  BY <1>3, <1>4

\* The report's replay is one.
LEMMA ReplayedIs ==
  ASSUME NEW L, IsLog(L), NEW end
  PROVE  /\ Replayed(L, end)[0] = NobodyYet
         /\ \A k \in 1..Cardinality(L) :
              Replayed(L, end)[k] = Replay(Replayed(L, end)[k - 1], Timeline(L)[k], end)
<1> DEFINE n == Cardinality(L)
           z == Timeline(L)
           A == Replayed(L, end)
<1>1. n \in Nat
  BY RankOfRow
<1>2. A = CHOOSE B : IsReplay(B, z, n, end)
  BY DEF Replayed, IsReplay, NobodyYet
<1> HIDE DEF n, z, A
<1>3. IsReplay(A, z, n, end)
  BY <1>1, <1>2, ReplayExists
<1>4. \A k \in 0..n : A[k] = IF k = 0 THEN NobodyYet ELSE Replay(A[k - 1], z[k], end)
  BY <1>3 DEF IsReplay
<1>5. 0 \in 0..n /\ \A k \in 1..n : k \in 0..n /\ k # 0
  BY <1>1
<1> QED
  BY <1>4, <1>5 DEF n, z, A

LEMMA MaxOfTwo ==
  ASSUME NEW a \in Nat, NEW b \in Nat
  PROVE  Max({a, b}) \in {a, b} /\ a <= Max({a, b}) /\ b <= Max({a, b})
<1>1. \E x \in {a, b} : \A y \in {a, b} : x >= y
  <2>1. CASE a >= b
    BY <2>1
  <2>2. CASE b >= a
    BY <2>2
  <2> QED
    BY <2>1, <2>2
<1> DEFINE m == Max({a, b})
<1>2. m = CHOOSE x \in {a, b} : \A y \in {a, b} : x >= y
  BY DEF Max
<1> HIDE DEF m
<1>3. m \in {a, b} /\ \A y \in {a, b} : m >= y
  BY <1>1, <1>2
<1> QED
  BY <1>3 DEF m

LEMMA ArrivalsFinite ==
  ASSUME NEW L, IsLog(L)
  PROVE  IsFiniteSet(Arrivals(L)) /\ Cardinality(Arrivals(L)) \in Nat
<1> DEFINE D == {c \in L : c.type = "ENTER"}
           f == [c \in D |-> c.who]
<1>1. IsFiniteSet(D)
  <2>1. D \in SUBSET L
    OBVIOUS
  <2> QED
    BY <2>1, FS_Subset DEF IsLog
<1>2. Arrivals(L) = {c.who : c \in D}
  BY DEF Arrivals
<1>3. f \in Surjection(D, Arrivals(L))
  BY <1>2 DEF Surjection
<1> HIDE DEF D, f
<1>4. IsFiniteSet(Arrivals(L))
  BY <1>1, <1>3, FS_Surjection
<1> QED
  BY <1>4, FS_CardinalityType

\* One row: who is in the room arrived, and the room was never fuller than the
\* peak.
LEMMA ReplayBounds ==
  ASSUME NEW L, IsLog(L), NEW c \in L, NEW end, NEW acc,
         acc.room \subseteq Arrivals(L), acc.peak \in Nat,
         Cardinality(acc.room) <= acc.peak, acc.peak <= Cardinality(Arrivals(L))
  PROVE  LET next == Replay(acc, c, end)
         IN  /\ next.room \subseteq Arrivals(L) /\ next.peak \in Nat
             /\ Cardinality(next.room) <= next.peak
             /\ next.peak <= Cardinality(Arrivals(L))
<1> DEFINE room == IF c.type = "ENTER" THEN acc.room \cup {c.who} ELSE acc.room \ {c.who}
<1>1. room \subseteq Arrivals(L)
  <2>1. c.type = "ENTER" => c.who \in Arrivals(L)
    BY DEF Arrivals
  <2> QED
    BY <2>1
<1>2. Replay(acc, c, end) = IF Counts(c, end)
                            THEN [room |-> room, peak |-> Max({acc.peak, Cardinality(room)})]
                            ELSE acc
  BY DEF Replay
<1> HIDE DEF room
<1>3. IsFiniteSet(Arrivals(L)) /\ Cardinality(Arrivals(L)) \in Nat
  BY ArrivalsFinite
<1>4. Cardinality(room) \in Nat /\ Cardinality(room) <= Cardinality(Arrivals(L))
  <2>1. room \in SUBSET Arrivals(L)
    BY <1>1
  <2> QED
    BY <1>3, <2>1, FS_Subset, FS_CardinalityType
<1> DEFINE m == Max({acc.peak, Cardinality(room)})
<1>5. m \in {acc.peak, Cardinality(room)} /\ acc.peak <= m /\ Cardinality(room) <= m
  BY <1>4, MaxOfTwo
<1> HIDE DEF m
<1>6. m \in Nat /\ m <= Cardinality(Arrivals(L))
  BY <1>4, <1>5
<1>7. CASE Counts(c, end)
  <2>1. Replay(acc, c, end) = [room |-> room, peak |-> m]
    BY <1>2, <1>7 DEF m
  <2> QED
    BY <1>1, <1>5, <1>6, <2>1
<1>8. CASE ~Counts(c, end)
  BY <1>2, <1>8
<1> QED
  BY <1>7, <1>8

\* And so for all the rows.
LEMMA ReplayedBounds ==
  ASSUME NEW L, IsLog(L), NEW end, NEW k \in 0..Cardinality(L)
  PROVE  LET after == Replayed(L, end)[k]
         IN  /\ after.room \subseteq Arrivals(L) /\ after.peak \in Nat
             /\ Cardinality(after.room) <= after.peak
             /\ after.peak <= Cardinality(Arrivals(L))
<1> DEFINE n == Cardinality(L)
           z == Timeline(L)
           A == Replayed(L, end)
           Good(acc) == /\ acc.room \subseteq Arrivals(L) /\ acc.peak \in Nat
                        /\ Cardinality(acc.room) <= acc.peak
                        /\ acc.peak <= Cardinality(Arrivals(L))
           bad == {i \in 0..n : ~Good(A[i])}
<1>1. n \in Nat
  BY RankOfRow
<1>2. A[0] = NobodyYet /\ \A i \in 1..n : A[i] = Replay(A[i - 1], z[i], end)
  BY ReplayedIs
<1>3. \A i \in 1..n : z[i] \in L
  BY TimelineIs
<1>4. Good(A[0])
  <2>1. Cardinality({}) = 0 /\ Cardinality(Arrivals(L)) \in Nat
    BY FS_EmptySet, ArrivalsFinite
  <2> HIDE DEF A
  <2> QED
    BY <1>2, <2>1 DEF NobodyYet
<1>5. ASSUME NEW i \in 1..n, Good(A[i - 1]) PROVE Good(A[i])
  <2>1. z[i] \in L /\ A[i] = Replay(A[i - 1], z[i], end)
    BY <1>2, <1>3
  <2> HIDE DEF A, z, n
  <2> DEFINE acc == A[i - 1]
             c == z[i]
  <2>2. /\ acc.room \subseteq Arrivals(L) /\ acc.peak \in Nat
        /\ Cardinality(acc.room) <= acc.peak /\ acc.peak <= Cardinality(Arrivals(L))
    BY <1>5
  <2>3. c \in L /\ A[i] = Replay(acc, c, end)
    BY <2>1
  <2> HIDE DEF acc, c
  <2> QED
    BY <2>2, <2>3, ReplayBounds
<1> HIDE DEF n, z, A, Good
<1>6. bad = {}
  <2> SUFFICES ASSUME bad # {} PROVE FALSE
    OBVIOUS
  <2>1. bad \in SUBSET Nat
    BY <1>1
  <2>2. PICK i \in bad : \A j \in bad : i <= j
    <3> HIDE DEF bad
    <3> QED
      BY <2>1, LeastNat
  <2>3. i \in 1..n /\ i - 1 \in 0..n /\ ~(i <= i - 1)
    BY <1>1, <1>4, <2>2
  <2>4. Good(A[i - 1])
    BY <2>2, <2>3
  <2> QED
    BY <1>5, <2>2, <2>3, <2>4
<1>7. k \in 0..n
  BY DEF n
<1>8. Good(A[k])
  BY <1>6, <1>7
<1> QED
  BY <1>8 DEF Good, A

\* Who arrived with the i-th row and has no later row, among the first k that
\* count, is in the room.
LEMMA StaysInRoom ==
  ASSUME NEW L, IsLog(L), NEW end, NEW i \in 1..Cardinality(L),
         Timeline(L)[i].type = "ENTER", Counts(Timeline(L)[i], end),
         \A j \in i + 1..Cardinality(L) :
           Counts(Timeline(L)[j], end) => Timeline(L)[j].who # Timeline(L)[i].who
  PROVE  Timeline(L)[i].who \in Replayed(L, end)[Cardinality(L)].room
<1> DEFINE n == Cardinality(L)
           z == Timeline(L)
           A == Replayed(L, end)
           bad == {k \in i..n : z[i].who \notin A[k].room}
<1>1. n \in Nat
  BY RankOfRow
<1>2. \A k \in 1..n : A[k] = Replay(A[k - 1], z[k], end)
  BY ReplayedIs
<1>3. /\ i \in 1..n /\ z[i].type = "ENTER" /\ Counts(z[i], end)
      /\ \A j \in i + 1..n : Counts(z[j], end) => z[j].who # z[i].who
  OBVIOUS
<1> HIDE DEF n, z, A
<1>4. z[i].who \in A[i].room
  <2> HIDE DEF bad
  <2>1. A[i] = Replay(A[i - 1], z[i], end)
    BY <1>2, <1>3
  <2>2. z[i].type = "ENTER" /\ Counts(z[i], end)
    BY <1>3
  <2> QED
    BY <2>1, <2>2 DEF Replay
<1>5. ASSUME NEW k \in i + 1..n, z[i].who \in A[k - 1].room PROVE z[i].who \in A[k].room
  <2>1. k \in 1..n
    BY <1>1, <1>3
  <2>2. A[k] = Replay(A[k - 1], z[k], end)
    BY <1>2, <2>1
  <2>3. Counts(z[k], end) => z[k].who # z[i].who
    BY <1>3
  <2> QED
    BY <1>5, <2>2, <2>3 DEF Replay
<1>6. bad = {}
  <2> SUFFICES ASSUME bad # {} PROVE FALSE
    OBVIOUS
  <2>1. bad \in SUBSET Nat
    BY <1>1, <1>3
  <2>2. PICK k \in bad : \A j \in bad : k <= j
    <3> HIDE DEF bad
    <3> QED
      BY <2>1, LeastNat
  <2>3. k \in i + 1..n /\ k - 1 \in i..n /\ ~(k <= k - 1)
    BY <1>1, <1>3, <1>4, <2>2
  <2>4. z[i].who \in A[k - 1].room
    BY <2>2, <2>3
  <2> QED
    BY <1>5, <2>2, <2>3, <2>4
<1>7. n \in i..n
  BY <1>1, <1>3
<1>8. z[i].who \in A[n].room
  BY <1>6, <1>7
<1> QED
  BY <1>8 DEF n, z, A

\* When the rows that count are those up to t, those present at t are in the
\* room the replay ends with.
LEMMA PresentInRoom ==
  ASSUME NEW L, IsLog(L), NEW end, NEW t \in Nat, \A c \in L : Counts(c, end) <=> c.at <= t
  PROVE  PresentCount(L, t) \in Nat /\ PresentCount(L, t) <= PeakPresentCount(L, end)
<1> DEFINE n == Cardinality(L)
           z == Timeline(L)
           P == {c \in LatestChanges(L, t) : c.type = "ENTER"}
           f == [c \in P |-> c.who]
           after == Replayed(L, end)[n]
<1>1. \A c \in P : /\ c \in L /\ c.at <= t /\ c.type = "ENTER"
                   /\ \A d \in L : d.at <= t /\ d.who = c.who => ~Before(c, d)
  BY DEF LatestChanges
<1>2. /\ after.room \subseteq Arrivals(L) /\ after.peak \in Nat
      /\ Cardinality(after.room) <= after.peak
  <2>1. n \in 0..n
    BY RankOfRow
  <2> QED
    BY <2>1, ReplayedBounds
<1>3. ASSUME NEW c \in P PROVE c.who \in after.room
  <2>1. PICK i \in 1..n : z[i] = c
    BY <1>1, TimelineIs
  <2>2. ASSUME NEW j \in i + 1..n, Counts(z[j], end) PROVE z[j].who # z[i].who
    <3>1. n \in Nat
      BY RankOfRow
    <3>2. j \in 1..n /\ i < j
      <4> HIDE DEF n
      <4> QED
        BY <3>1
    <3>3. z[j] \in L /\ Before(z[i], z[j])
      BY <3>2, TimelineIs
    <3>4. z[j].at <= t
      BY <2>2, <3>3
    <3> QED
      BY <1>1, <2>1, <3>3, <3>4
  <2>3. z[i].type = "ENTER" /\ Counts(z[i], end)
    BY <1>1, <2>1
  <2>4. z[i].who \in after.room
    BY <2>2, <2>3, StaysInRoom
  <2> QED
    BY <2>1, <2>4
<1>4. IsFiniteSet(after.room)
  <2>1. after.room \in SUBSET Arrivals(L)
    BY <1>2
  <2> QED
    BY <2>1, ArrivalsFinite, FS_Subset
<1>5. ASSUME NEW c \in P, NEW d \in P, c.who = d.who PROVE c = d
  <2>1. c \in L /\ d \in L /\ ~Before(c, d) /\ ~Before(d, c)
    BY <1>1, <1>5
  <2>2. c \in Changes /\ d \in Changes
    BY <2>1 DEF IsLog
  <2>3. c.id = d.id
    BY <2>1, <2>2, BeforeOrder
  <2> QED
    BY <2>1, <2>3 DEF IsLog
<1> HIDE DEF P, after
<1>6. f \in Injection(P, after.room)
  <2>1. f \in [P -> after.room]
    BY <1>3
  <2>2. \A c, d \in P : f[c] = f[d] => c = d
    BY <1>5
  <2> HIDE DEF f
  <2> QED
    BY <2>1, <2>2 DEF Injection, IsInjective
<1> HIDE DEF f
<1>7. IsFiniteSet(P) /\ Cardinality(P) <= Cardinality(after.room)
  BY <1>4, <1>6, FS_Injection
<1>8. Cardinality(P) \in Nat /\ Cardinality(after.room) \in Nat
  BY <1>4, <1>7, FS_CardinalityType
<1>9. Cardinality(P) <= after.peak
  BY <1>2, <1>7, <1>8
<1> QED
  BY <1>8, <1>9 DEF P, after, PresentCount, PeakPresentCount

\* The last moment of a log that is not empty.
LEMMA LastMoment ==
  ASSUME NEW L, IsLog(L), L # {}
  PROVE  LET t == Max({c.at : c \in L}) IN t \in Nat /\ \A c \in L : c.at <= t
<1> DEFINE n == Cardinality(L)
           T == {c.at : c \in L}
           last == Timeline(L)[n]
<1>1. n \in Nat /\ n # 0
  BY RankOfRow, FS_EmptySet DEF IsLog
<1>2. /\ \A k \in 1..n : Timeline(L)[k] \in L
      /\ \A c \in L : \E k \in 1..n : Timeline(L)[k] = c
      /\ \A i, k \in 1..n : i < k => Before(Timeline(L)[i], Timeline(L)[k])
  BY TimelineIs
<1>3. \A c \in L : c.at \in Nat
  BY DEF IsLog, Changes
<1> HIDE DEF n
<1>4. last \in L
  BY <1>1, <1>2
<1>5. ASSUME NEW c \in L PROVE c.at <= last.at
  <2>1. PICK k \in 1..n : Timeline(L)[k] = c
    BY <1>2
  <2>2. CASE k = n
    BY <1>3, <2>1, <2>2
  <2>3. CASE k # n
    <3>1. k < n /\ n \in 1..n
      BY <1>1, <2>3
    <3>2. Before(c, last)
      BY <1>2, <2>1, <3>1
    <3> HIDE DEF last
    <3> QED
      BY <1>3, <1>4, <3>2 DEF Before
  <2> QED
    BY <2>2, <2>3
<1> HIDE DEF last
<1>6. \E x \in T : \A y \in T : x >= y
  <2>1. last.at \in T
    BY <1>4
  <2>2. \A y \in T : last.at >= y
    BY <1>3, <1>4, <1>5
  <2> QED
    BY <2>1, <2>2
<1> DEFINE t == Max(T)
<1>7. t = CHOOSE x \in T : \A y \in T : x >= y
  BY DEF Max
<1>8. t \in T /\ \A y \in T : t >= y
  <2> HIDE DEF T, t
  <2> QED
    BY <1>6, <1>7
<1>9. t \in Nat /\ \A c \in L : c.at <= t
  <2> HIDE DEF t
  <2> QED
    BY <1>3, <1>8
<1> QED
  BY <1>9

\* Those present at the end are among the peak, and the peak among those who
\* ever came.
LEMMA ReportOf ==
  ASSUME NEW L, IsLog(L), NEW end, end = {} \/ \E t \in Nat : end = {t}
  PROVE  /\ PresentAtEnd(L, end) <= PeakPresentCount(L, end)
         /\ PeakPresentCount(L, end) <= EverPresentCount(L)
<1>1. /\ PeakPresentCount(L, end) \in Nat
      /\ PeakPresentCount(L, end) <= EverPresentCount(L)
  <2>1. Cardinality(L) \in 0..Cardinality(L)
    BY RankOfRow
  <2> QED
    BY <2>1, ReplayedBounds DEF PeakPresentCount, EverPresentCount
<1>2. CASE end = {} /\ L = {}
  BY <1>1, <1>2 DEF PresentAtEnd
<1>3. CASE end = {} /\ L # {}
  <2> DEFINE t == Max({c.at : c \in L})
  <2>1. t \in Nat /\ \A c \in L : c.at <= t
    BY <1>3, LastMoment
  <2>2. PresentAtEnd(L, end) = PresentCount(L, t)
    BY <1>3 DEF PresentAtEnd
  <2> HIDE DEF t
  <2>3. \A c \in L : Counts(c, end) <=> c.at <= t
    BY <1>3, <2>1 DEF Counts
  <2> QED
    BY <1>1, <2>1, <2>2, <2>3, PresentInRoom
<1>4. CASE end # {}
  <2>1. PICK t \in Nat : end = {t}
    BY <1>4
  <2>2. Max(end) = t
    <3>1. Max(end) = CHOOSE x \in {t} : \A y \in {t} : x >= y
      BY <2>1 DEF Max
    <3>2. \E x \in {t} : \A y \in {t} : x >= y
      BY <2>1
    <3> QED
      BY <3>1, <3>2
  <2>3. PresentAtEnd(L, end) = PresentCount(L, t)
    BY <1>4, <2>2 DEF PresentAtEnd
  <2>4. \A c \in L : Counts(c, end) <=> c.at <= t
    BY <2>1 DEF Counts
  <2> QED
    BY <1>1, <2>3, <2>4, PresentInRoom
<1> QED
  BY <1>2, <1>3, <1>4

\* The rows are finitely many, and so the report agrees.
LEMMA LogFinite == LogInv /\ IsFiniteSet(log) /\ CheckInNext => IsFiniteSet(log')
<1> SUFFICES ASSUME LogInv, IsFiniteSet(log), CheckInNext PROVE IsFiniteSet(log')
  OBVIOUS
<1>1. CASE log' \subseteq log
  <2>1. log' \in SUBSET log
    BY <1>1
  <2> QED
    BY <2>1, FS_Subset
<1>2. ASSUME NEW c, log' \subseteq log \cup {c} PROVE IsFiniteSet(log')
  <2>1. IsFiniteSet(log \cup {c})
    BY FS_AddElement
  <2>2. log' \in SUBSET (log \cup {c})
    BY <1>2
  <2> QED
    BY <2>1, <2>2, FS_Subset
<1>3. ASSUME NEW p \in Checks, Save(p) PROVE IsFiniteSet(log')
  BY <1>2, <1>3 DEF Save
<1>4. ASSUME CommitCorrection PROVE IsFiniteSet(log')
  <2>1. log' \subseteq log \cup {fix.new}
    BY <1>4 DEF CommitCorrection
  <2> QED
    BY <1>2, <2>1
<1>5. ASSUME DeleteSelected PROVE IsFiniteSet(log')
  BY <1>1, <1>5 DEF DeleteSelected
<1>6. CASE UNCHANGED log
  BY <1>1, <1>6
<1> QED
  BY <1>3, <1>4, <1>5, <1>6
     DEF CheckInNext, CheckInStep, Tick, Ask, Stamp, Announce, Correct, TellDeleted

LEMMA ReportHolds == LogInv /\ IsFiniteSet(log) => ReportAgrees
<1> SUFFICES ASSUME LogInv, IsFiniteSet(log), NEW end \in {{}} \cup {{t} : t \in 0..MaxTime}
             PROVE  /\ PresentAtEnd(log, end) <= PeakPresentCount(log, end)
                    /\ PeakPresentCount(log, end) <= EverPresentCount(log)
  BY DEF ReportAgrees
<1>1. IsLog(log)
  BY DEF LogInv, CheckInTypeOK, IsLog
<1>2. end = {} \/ \E t \in Nat : end = {t}
  OBVIOUS
<1> QED
  BY <1>1, <1>2, ReportOf
=============================================================================
