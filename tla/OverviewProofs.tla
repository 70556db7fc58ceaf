--------------------------- MODULE OverviewProofs ---------------------------
(***************************************************************************)
(* The live overview, for any number of pages, check-ins, attendees,       *)
(* corrections and broken connections: a page that has received everything *)
(* shows who is present, except where an update was lost or a row was      *)
(* corrected under it.                                                     *)
(***************************************************************************)
EXTENDS Overview, CheckInProofs, SequenceTheorems

USE OverviewAssumption

Frames ==
  [kind : {"change"}, change : Changes]
    \cup [kind : {"snapshot"}, states : SUBSET Changes]
    \cup [kind : {"invalidate"}]

Views ==
  [at : {"loading", "html", "joined", "live"}, rows : SUBSET Attendees,
   ver : [Attendees -> Changes \cup {None}], inbox : Seq(Frames)]

PageTypes == page \in [Pages -> Views] /\ unsure \in [Pages -> SUBSET Attendees]

\* The clock is ahead of the log and of what is on its way to it.
LogClock ==
  /\ \A c \in log : c.at <= now
  /\ \A p \in Checks : check[p].stamp <= now
  /\ fix.new # None => fix.new.at <= now

OneEach(states) == \A c, d \in states : c.who = d.who => c = d

Snapshots(g) == {i \in DOMAIN page[g].inbox : page[g].inbox[i].kind = "snapshot"}

\* A snapshot is the first frame of its connection.
SnapshotFirst(g) ==
  /\ page[g].at \in {"loading", "html"} => page[g].inbox = <<>>
  /\ page[g].at = "joined" => page[g].ver = NoVersions
  /\ \A i \in Snapshots(g) :
       /\ i = 1 /\ page[g].at = "live" /\ page[g].ver = NoVersions
       /\ OneEach(page[g].inbox[i].states)

\* Once it is merged, the rows shown are those the versions say.
RowsAreVersions(g) ==
  page[g].at = "live" /\ Snapshots(g) = {} =>
    \A a \in Attendees :
      /\ a \in page[g].rows <=> page[g].ver[a] # None /\ page[g].ver[a].type = "ENTER"
      /\ page[g].ver[a] # None => page[g].ver[a].who = a

\* What the page has been told on this connection, and has not given up for
\* something newer.
Known(g) ==
  Queued(g) \cup (UNION {page[g].inbox[i].states : i \in Snapshots(g)})
    \cup ({page[g].ver[a] : a \in Attendees} \ {None})

\* Saved, and to be announced.
Pending(c) == \E p \in Checks : check[p].at = "saved" /\ Sent(p) = c

NewerOrSame(c, d) == c = d \/ Before(c, d)

\* Nothing a page has been told of an attendee it is sure of is out of the log,
\* and no row of the log is newer than what it has been or will be told.
InStep(g) ==
  page[g].at = "live" => \A a \in Attendees \ unsure[g] :
    /\ \A c \in Known(g) : c.who = a => c \in log
    /\ \A c \in log : c.who = a =>
         Pending(c) \/ \E d \in Known(g) : d.who = a /\ NewerOrSame(c, d)

PageInv(g) == SnapshotFirst(g) /\ RowsAreVersions(g) /\ InStep(g)

OverviewInv == LogInv /\ LogClock /\ PageTypes /\ \A g \in Pages : PageInv(g)

LEMMA InitOverview == Init => OverviewInv
<1> SUFFICES ASSUME Init PROVE OverviewInv
  OBVIOUS
<1>1. LogInv
  BY InitLog DEF Init
<1>2. LogClock
  BY DEF Init, InitCheckIn, LogClock, Idle
<1>3. NoVersions \in [Attendees -> Changes \cup {None}] /\ <<>> \in Seq(Frames)
  BY DEF NoVersions
<1>4. PageTypes
  BY <1>3 DEF Init, PageTypes, Views
<1>5. ASSUME NEW g \in Pages PROVE PageInv(g)
  <2>1. page[g].at = "loading" /\ page[g].inbox = <<>>
    BY DEF Init
  <2>2. Snapshots(g) = {}
    BY <2>1 DEF Snapshots
  <2> QED
    BY <2>1, <2>2 DEF PageInv, SnapshotFirst, RowsAreVersions, InStep
<1> QED
  BY <1>1, <1>2, <1>4, <1>5 DEF OverviewInv

-----------------------------------------------------------------------------
(* The log.                                                                *)

LEMMA ClockStep == LogInv /\ LogClock /\ CheckInNext => LogClock'
<1> SUFFICES ASSUME LogInv, LogClock, CheckInNext PROVE LogClock'
  OBVIOUS
<1> USE DEF LogClock
<1>0. /\ now \in Nat /\ check \in [Checks -> Requests]
      /\ \A p \in Checks : check[p].stamp \in Nat
      /\ \A c \in log : c.at \in Nat
      /\ fix.new # None => fix.new.at \in Nat
  BY DEF LogInv, CheckInTypeOK, Requests, Changes
<1>1. CASE Tick
  <2>1. now' = now + 1 /\ UNCHANGED <<log, check, fix>>
    BY <1>1 DEF Tick
  <2> QED
    BY <1>0, <2>1
<1>2. ASSUME NEW p \in Checks, CheckInStep(p) PROVE LogClock'
  <2>1. /\ UNCHANGED <<now, fix>>
        /\ \A q \in Checks \ {p} : check'[q] = check[q]
        /\ check'[p].stamp \in {check[p].stamp, now}
    <3>1. CASE Ask(p)
      BY <1>0, <3>1 DEF Ask, Requests
    <3>2. CASE Stamp(p)
      BY <1>0, <3>2 DEF Stamp, Requests
    <3>3. CASE Save(p)
      BY <1>0, <3>3 DEF Save, Requests
    <3>4. CASE Announce(p)
      BY <1>0, <3>4 DEF Announce, Requests
    <3> QED
      BY <1>2, <3>1, <3>2, <3>3, <3>4 DEF CheckInStep
  <2>2. \A c \in log' : c \in log \/ c.at = check[p].stamp
    <3>1. CASE Save(p)
      <4>1. log' = log \cup {Row(p, nextId)} /\ Row(p, nextId).at = check[p].stamp
        BY <3>1 DEF Save, Row
      <4> QED
        BY <4>1
    <3>2. CASE ~Save(p)
      BY <1>2, <3>2 DEF CheckInStep, Ask, Stamp, Announce
    <3> QED
      BY <3>1, <3>2
  <2> QED
    BY <1>0, <2>1, <2>2
<1>3. CASE Correct
  <2>1. UNCHANGED <<log, now, check>>
    BY <1>3 DEF Correct
  <2>2. fix'.new # None => fix'.new.at <= now
    <3>1. PICK old \in log \cup {None}, who \in Attendees, ty \in Types, at \in 0..now :
            \E new \in {None, [id |-> IF old = None THEN nextId ELSE old.id,
                                who |-> who, at |-> at, type |-> ty]} :
              fix' = [at |-> "uncommitted", old |-> old, new |-> new]
      BY <1>3 DEF Correct
    <3> QED
      BY <3>1
  <2> QED
    BY <2>1, <2>2
<1>4. CASE CommitCorrection
  <2>1. /\ \A c \in log' : c \in log \/ (fix.new # None /\ c = fix.new)
        /\ UNCHANGED <<now, check>>
    BY <1>4 DEF CommitCorrection
  <2>2. fix'.new = None
    BY <1>4 DEF CommitCorrection, Idle
  <2> QED
    BY <1>0, <2>1, <2>2
<1>5. CASE DeleteSelected
  <2>1. log' \subseteq log /\ UNCHANGED <<now, check>>
    BY <1>5 DEF DeleteSelected
  <2>2. fix'.new = None
    BY <1>5 DEF DeleteSelected, Idle
  <2> QED
    BY <1>0, <2>1, <2>2
<1>6. CASE TellDeleted
  BY <1>6 DEF TellDeleted, Idle
<1> QED
  BY <1>1, <1>2, <1>3, <1>4, <1>5, <1>6 DEF CheckInNext

\* A set of numbers with a bound has a greatest one.
LEMMA GreatestNat ==
  ASSUME NEW T \in SUBSET Nat, T # {}, NEW b \in Nat, \A x \in T : x <= b
  PROVE  \E x \in T : \A y \in T : y <= x
<1> DEFINE D == {b - x : x \in T}
<1>1. D \in SUBSET Nat /\ D # {}
  <2>1. \A x \in T : b - x \in Nat
    OBVIOUS
  <2> QED
    BY <2>1
<1>2. PICK m \in D : \A y \in D : m <= y
  <2> HIDE DEF D
  <2> QED
    BY <1>1, LeastNat
<1>3. PICK x \in T : m = b - x
  BY <1>2
<1>4. ASSUME NEW y \in T PROVE y <= x
  <2>1. m <= b - y
    BY <1>2
  <2> QED
    BY <1>3, <2>1
<1> QED
  BY <1>4

\* Every row of the log is followed, or is itself, its attendee's latest.
LEMMA LatestExists ==
  ASSUME LogInv, LogClock, NEW c \in log
  PROVE  \E d \in LatestChanges(log, now) : d.who = c.who /\ NewerOrSame(c, d)
<1> DEFINE mine == {d \in log : d.who = c.who}
<1>1. /\ \A d \in log : d \in Changes /\ d.at \in Nat /\ d.id \in Nat /\ d.at <= now /\ d.id <= nextId
      /\ now \in Nat /\ nextId \in Nat /\ c \in mine
      /\ \A d, e \in log : d.id = e.id => d = e
  BY DEF LogInv, LogClock, CheckInTypeOK, Changes
<1>2. PICK t \in {d.at : d \in mine} : \A u \in {d.at : d \in mine} : u <= t
  <2>1. {d.at : d \in mine} \in SUBSET Nat /\ {d.at : d \in mine} # {}
        /\ \A x \in {d.at : d \in mine} : x <= now
    BY <1>1
  <2> QED
    BY <1>1, <2>1, GreatestNat
<1> DEFINE last == {d \in mine : d.at = t}
<1>3. PICK n \in {d.id : d \in last} : \A u \in {d.id : d \in last} : u <= n
  <2>1. {d.id : d \in last} \in SUBSET Nat /\ {d.id : d \in last} # {}
        /\ \A x \in {d.id : d \in last} : x <= nextId
    BY <1>1, <1>2
  <2> QED
    BY <1>1, <2>1, GreatestNat
<1>4. PICK m \in last : m.id = n
  BY <1>3
<1>5. ASSUME NEW d \in mine PROVE NewerOrSame(d, m)
  <2>1. d.at <= t /\ m.at = t
    BY <1>2, <1>4
  <2>2. CASE d.at = t
    <3>1. d.id <= m.id
      BY <1>3, <1>4, <2>2
    <3> QED
      BY <1>1, <1>4, <2>1, <2>2, <3>1 DEF NewerOrSame, Before
  <2>3. CASE d.at # t
    BY <1>1, <1>4, <2>1, <2>3 DEF NewerOrSame, Before
  <2> QED
    BY <2>2, <2>3
<1>6. m \in LatestChanges(log, now)
  <2>1. ASSUME NEW d \in log, d.who = m.who PROVE ~Before(m, d)
    <3>1. d \in mine
      BY <1>4, <2>1
    <3> QED
      BY <1>1, <1>4, <1>5, <3>1, BeforeOrder DEF NewerOrSame
  <2> QED
    BY <1>1, <1>4, <2>1 DEF LatestChanges
<1> QED
  BY <1>1, <1>4, <1>5, <1>6

\* The window query has one row per attendee.
LEMMA LatestOneEach ==
  ASSUME LogInv
  PROVE  OneEach(LatestChanges(log, now)) /\ LatestChanges(log, now) \subseteq log
<1>1. \A d \in log : d \in Changes
  BY DEF LogInv, CheckInTypeOK
<1>2. \A d, e \in log : d.id = e.id => d = e
  BY DEF LogInv, CheckInTypeOK
<1> QED
  BY <1>1, <1>2, BeforeOrder DEF LatestChanges, OneEach

-----------------------------------------------------------------------------
(* Frames waiting for a page.                                              *)

ChangesIn(s) == {s[i].change : i \in {j \in DOMAIN s : s[j].kind = "change"}}
SnapshotsIn(s) == {i \in DOMAIN s : s[i].kind = "snapshot"}
StatesIn(s) == UNION {s[i].states : i \in SnapshotsIn(s)}
Versions(g) == {page[g].ver[a] : a \in Attendees} \ {None}

LEMMA KnownParts ==
  ASSUME NEW g \in Pages
  PROVE  /\ Known(g) = ChangesIn(page[g].inbox) \cup StatesIn(page[g].inbox) \cup Versions(g)
         /\ Snapshots(g) = SnapshotsIn(page[g].inbox)
         /\ Queued(g) = ChangesIn(page[g].inbox)
<1>1. Queued(g) = ChangesIn(page[g].inbox)
  BY DEF Queued, ChangesIn
<1>2. Snapshots(g) = SnapshotsIn(page[g].inbox)
  BY DEF Snapshots, SnapshotsIn
<1> QED
  BY <1>1, <1>2 DEF Known, StatesIn, Versions

LEMMA KnownPartsNext ==
  ASSUME NEW g \in Pages
  PROVE  /\ Known(g)' = ChangesIn(page'[g].inbox) \cup StatesIn(page'[g].inbox) \cup Versions(g)'
         /\ Snapshots(g)' = SnapshotsIn(page'[g].inbox)
<1>1. Queued(g)' = ChangesIn(page'[g].inbox)
  BY DEF Queued, ChangesIn
<1>2. Snapshots(g)' = SnapshotsIn(page'[g].inbox)
  BY DEF Snapshots, SnapshotsIn
<1> QED
  BY <1>1, <1>2 DEF Known, StatesIn, Versions

LEMMA FrameKinds ==
  ASSUME NEW f \in Frames
  PROVE  /\ f.kind \in {"change", "snapshot", "invalidate"}
         /\ f.kind = "change" => f.change \in Changes
         /\ f.kind = "snapshot" => f.states \subseteq Changes
BY DEF Frames

LEMMA NoFrames == ChangesIn(<<>>) = {} /\ SnapshotsIn(<<>>) = {} /\ StatesIn(<<>>) = {}
BY DEF ChangesIn, SnapshotsIn, StatesIn

LEMMA ChangesType ==
  ASSUME NEW s \in Seq(Frames)
  PROVE  ChangesIn(s) \subseteq Changes /\ StatesIn(s) \subseteq Changes
<1>1. \A i \in DOMAIN s : s[i] \in Frames
  OBVIOUS
<1> QED
  BY <1>1, FrameKinds DEF ChangesIn, StatesIn, SnapshotsIn

LEMMA AppendFrame ==
  ASSUME NEW s \in Seq(Frames), NEW f \in Frames, f.kind # "snapshot"
  PROVE  /\ Append(s, f) \in Seq(Frames)
         /\ ChangesIn(Append(s, f)) = ChangesIn(s) \cup (IF f.kind = "change" THEN {f.change} ELSE {})
         /\ SnapshotsIn(Append(s, f)) = SnapshotsIn(s)
         /\ \A i \in SnapshotsIn(s) : Append(s, f)[i] = s[i]
         /\ StatesIn(Append(s, f)) = StatesIn(s)
<1> DEFINE z == Append(s, f)
<1>1. /\ z \in Seq(Frames) /\ DOMAIN z = 1..Len(s) + 1 /\ DOMAIN s = 1..Len(s) /\ Len(s) \in Nat
      /\ \A i \in 1..Len(s) : z[i] = s[i]
      /\ z[Len(s) + 1] = f
  OBVIOUS
<1> HIDE DEF z
<1>2. SnapshotsIn(z) = SnapshotsIn(s)
  BY <1>1 DEF SnapshotsIn
<1>3. \A i \in SnapshotsIn(s) : z[i] = s[i]
  BY <1>1 DEF SnapshotsIn
<1>4. StatesIn(z) = StatesIn(s)
  BY <1>2, <1>3 DEF StatesIn
<1>5. ChangesIn(z) = ChangesIn(s) \cup (IF f.kind = "change" THEN {f.change} ELSE {})
  <2>1. DOMAIN z = DOMAIN s \cup {Len(s) + 1}
    BY <1>1
  <2>2. {j \in DOMAIN z : z[j].kind = "change"} =
          {j \in DOMAIN s : s[j].kind = "change"}
            \cup (IF f.kind = "change" THEN {Len(s) + 1} ELSE {})
    BY <1>1, <2>1
  <2> QED
    BY <1>1, <2>2 DEF ChangesIn
<1> QED
  BY <1>1, <1>2, <1>3, <1>4, <1>5 DEF z

\* The first frame is taken; only it may be a snapshot.
LEMMA TakeFrame ==
  ASSUME NEW s \in Seq(Frames), s # <<>>, \A i \in SnapshotsIn(s) : i = 1
  PROVE  /\ Head(s) \in Frames /\ Tail(s) \in Seq(Frames) /\ Head(s) = s[1]
         /\ ChangesIn(s) = ChangesIn(Tail(s)) \cup (IF Head(s).kind = "change" THEN {Head(s).change} ELSE {})
         /\ StatesIn(s) = IF Head(s).kind = "snapshot" THEN Head(s).states ELSE {}
         /\ SnapshotsIn(s) = IF Head(s).kind = "snapshot" THEN {1} ELSE {}
         /\ SnapshotsIn(Tail(s)) = {} /\ StatesIn(Tail(s)) = {}
<1> DEFINE z == Tail(s)
<1>1. /\ z \in Seq(Frames) /\ DOMAIN s = 1..Len(s) /\ Len(s) \in Nat \ {0}
      /\ DOMAIN z = 1..Len(s) - 1 /\ \A i \in DOMAIN z : z[i] = s[i + 1]
      /\ Head(s) = s[1] /\ Head(s) \in Frames
  OBVIOUS
<1> HIDE DEF z
<1>2. SnapshotsIn(s) = IF Head(s).kind = "snapshot" THEN {1} ELSE {}
  BY <1>1 DEF SnapshotsIn
<1>3. StatesIn(s) = IF Head(s).kind = "snapshot" THEN Head(s).states ELSE {}
  BY <1>1, <1>2 DEF StatesIn
<1>4. SnapshotsIn(z) = {} /\ StatesIn(z) = {}
  <2>1. ASSUME NEW i \in DOMAIN z, z[i].kind = "snapshot" PROVE FALSE
    <3>1. i + 1 \in SnapshotsIn(s) /\ i \in Nat \ {0}
      BY <1>1, <2>1 DEF SnapshotsIn
    <3> QED
      BY <3>1
  <2> QED
    BY <2>1 DEF SnapshotsIn, StatesIn
<1>5. ChangesIn(s) = ChangesIn(z) \cup (IF Head(s).kind = "change" THEN {Head(s).change} ELSE {})
  <2>1. \A i \in DOMAIN s : i = 1 \/ (i - 1 \in DOMAIN z /\ s[i] = z[i - 1])
    BY <1>1
  <2>2. \A i \in DOMAIN z : i + 1 \in DOMAIN s /\ z[i] = s[i + 1]
    BY <1>1
  <2>3. ASSUME NEW c \in ChangesIn(s)
        PROVE  c \in ChangesIn(z) \/ (Head(s).kind = "change" /\ c = Head(s).change)
    BY <1>1, <2>1, <2>3 DEF ChangesIn
  <2>4. ChangesIn(z) \subseteq ChangesIn(s)
    BY <2>2 DEF ChangesIn
  <2>5. Head(s).kind = "change" => Head(s).change \in ChangesIn(s)
    <3>1. 1 \in DOMAIN s
      BY <1>1
    <3> QED
      BY <1>1, <3>1 DEF ChangesIn
  <2> QED
    BY <2>3, <2>4, <2>5
<1> QED
  BY <1>1, <1>2, <1>3, <1>4, <1>5 DEF z

\* A snapshot is put ahead of what has been queued.
LEMMA PutFirst ==
  ASSUME NEW s \in Seq(Frames), NEW f \in Frames, f.kind = "snapshot", SnapshotsIn(s) = {}
  PROVE  /\ <<f>> \o s \in Seq(Frames)
         /\ ChangesIn(<<f>> \o s) = ChangesIn(s)
         /\ SnapshotsIn(<<f>> \o s) = {1} /\ (<<f>> \o s)[1] = f
         /\ StatesIn(<<f>> \o s) = f.states
<1> DEFINE z == <<f>> \o s
<1>1. /\ z \in Seq(Frames) /\ DOMAIN s = 1..Len(s) /\ Len(s) \in Nat
      /\ DOMAIN z = 1..Len(s) + 1 /\ z[1] = f
      /\ \A i \in DOMAIN s : z[i + 1] = s[i]
  OBVIOUS
<1> HIDE DEF z
<1>2. \A i \in DOMAIN z : i = 1 \/ (i - 1 \in DOMAIN s /\ z[i] = s[i - 1])
  BY <1>1
<1>3. \A i \in DOMAIN s : i + 1 \in DOMAIN z /\ s[i] = z[i + 1]
  BY <1>1
<1>4. SnapshotsIn(z) = {1}
  BY <1>1, <1>2 DEF SnapshotsIn
<1>5. StatesIn(z) = f.states
  BY <1>1, <1>4 DEF StatesIn
<1>6. ChangesIn(z) \subseteq ChangesIn(s)
  BY <1>1, <1>2 DEF ChangesIn
<1>7. ChangesIn(s) \subseteq ChangesIn(z)
  BY <1>3 DEF ChangesIn
<1> QED
  BY <1>1, <1>4, <1>5, <1>6, <1>7 DEF z

-----------------------------------------------------------------------------
(* What a step does to one page.                                           *)

\* A page the step leaves alone, if the rows it is sure of stay, and what is
\* new in the log is still to be announced.
LEMMA Stays ==
  ASSUME NEW g \in Pages, PageInv(g), page'[g] = page[g],
         page[g].at = "live" =>
           \A a \in Attendees \ unsure'[g] :
             /\ a \notin unsure[g]
             /\ \A c \in log : c.who = a => c \in log'
             /\ \A c \in log' : c.who = a => Pending(c)' \/ (c \in log /\ ~Pending(c))
  PROVE  PageInv(g)'
<1>1. Known(g)' = Known(g) /\ Snapshots(g)' = Snapshots(g)
  BY DEF Known, Snapshots, Queued
<1>2. SnapshotFirst(g)'
  BY <1>1 DEF PageInv, SnapshotFirst
<1>3. RowsAreVersions(g)'
  BY <1>1 DEF PageInv, RowsAreVersions
<1>4. InStep(g)'
  <2> SUFFICES ASSUME page[g].at = "live", NEW a \in Attendees \ unsure'[g]
               PROVE  /\ \A c \in Known(g) : c.who = a => c \in log'
                      /\ \A c \in log' : c.who = a =>
                           Pending(c)' \/ \E d \in Known(g) : d.who = a /\ NewerOrSame(c, d)
    BY <1>1 DEF InStep, NewerOrSame
  <2> QED
    BY DEF PageInv, InStep
<1> QED
  BY <1>2, <1>3, <1>4 DEF PageInv

\* A page a broadcast reaches: the frame is the last of its inbox.
LEMMA Reached ==
  ASSUME PageTypes, NEW g \in Pages, PageInv(g), NEW f \in Frames, f.kind # "snapshot",
         page[g].at \in {"joined", "live"},
         page'[g] = [page[g] EXCEPT !.inbox = Append(@, f)],
         log' = log, unsure[g] \subseteq unsure'[g],
         f.kind = "change" => f.change \in log \/ f.change.who \in unsure'[g],
         \A c \in log : Pending(c) => Pending(c)' \/ (f.kind = "change" /\ c = f.change)
  PROVE  PageInv(g)'
<1>0. page[g] \in Views
  BY DEF PageTypes
<1>1. /\ page[g].inbox \in Seq(Frames)
      /\ page'[g].at = page[g].at /\ page'[g].rows = page[g].rows
      /\ page'[g].ver = page[g].ver /\ page'[g].inbox = Append(page[g].inbox, f)
  BY <1>0 DEF Views
<1>2. /\ Snapshots(g)' = Snapshots(g)
      /\ \A i \in Snapshots(g) : page'[g].inbox[i] = page[g].inbox[i]
      /\ Known(g)' = Known(g) \cup (IF f.kind = "change" THEN {f.change} ELSE {})
  <2>1. Versions(g)' = Versions(g)
    BY <1>1 DEF Versions
  <2> DEFINE s == page[g].inbox
             z == page'[g].inbox
  <2>2. /\ SnapshotsIn(z) = SnapshotsIn(s) /\ StatesIn(z) = StatesIn(s)
        /\ \A i \in SnapshotsIn(s) : z[i] = s[i]
        /\ ChangesIn(z) = ChangesIn(s) \cup (IF f.kind = "change" THEN {f.change} ELSE {})
    <3>1. s \in Seq(Frames) /\ z = Append(s, f)
      BY <1>1
    <3> HIDE DEF s, z
    <3> QED
      BY <3>1, AppendFrame
  <2>3. /\ Known(g) = ChangesIn(s) \cup StatesIn(s) \cup Versions(g)
        /\ Snapshots(g) = SnapshotsIn(s)
    BY KnownParts
  <2>4. /\ Known(g)' = ChangesIn(z) \cup StatesIn(z) \cup Versions(g)'
        /\ Snapshots(g)' = SnapshotsIn(z)
    BY KnownPartsNext
  <2> HIDE DEF s, z
  <2>5. Snapshots(g)' = Snapshots(g) /\ \A i \in Snapshots(g) : z[i] = s[i]
    BY <2>2, <2>3, <2>4
  <2>6. Known(g)' = Known(g) \cup (IF f.kind = "change" THEN {f.change} ELSE {})
    BY <2>1, <2>2, <2>3, <2>4
  <2> QED
    BY <2>5, <2>6 DEF s, z
<1>3. SnapshotFirst(g)'
  BY <1>1, <1>2 DEF PageInv, SnapshotFirst, OneEach
<1>4. RowsAreVersions(g)'
  BY <1>1, <1>2 DEF PageInv, RowsAreVersions
<1>5. InStep(g)'
  <2> SUFFICES ASSUME page[g].at = "live", NEW a \in Attendees \ unsure'[g]
               PROVE  /\ \A c \in Known(g)' : c.who = a => c \in log
                      /\ \A c \in log : c.who = a =>
                           Pending(c)' \/ \E d \in Known(g)' : d.who = a /\ NewerOrSame(c, d)
    BY <1>1 DEF InStep, NewerOrSame
  <2>1. /\ \A c \in Known(g) : c.who = a => c \in log
        /\ \A c \in log : c.who = a =>
             Pending(c) \/ \E d \in Known(g) : d.who = a /\ NewerOrSame(c, d)
    BY DEF PageInv, InStep
  <2>2. \A c \in Known(g)' : c.who = a => c \in log
    BY <1>2, <2>1
  <2>3. ASSUME NEW c \in log, c.who = a
        PROVE  Pending(c)' \/ \E d \in Known(g)' : d.who = a /\ NewerOrSame(c, d)
    <3>1. CASE Pending(c)
      <4>1. Pending(c)' \/ (c \in Known(g)' /\ NewerOrSame(c, c))
        BY <1>2, <3>1 DEF NewerOrSame
      <4> QED
        BY <2>3, <4>1
    <3>2. CASE ~Pending(c)
      BY <1>2, <2>1, <2>3, <3>2
    <3> QED
      BY <3>1, <3>2
  <2> QED
    BY <2>2, <2>3
<1> QED
  BY <1>3, <1>4, <1>5 DEF PageInv

\* A page that is not connected, its inbox empty.
LEMMA NotLive ==
  ASSUME NEW g \in Pages, page'[g].at # "live", page'[g].inbox = <<>>,
         page'[g].at = "joined" => page'[g].ver = NoVersions
  PROVE  PageInv(g)'
<1>1. Snapshots(g)' = {}
  BY NoFrames, KnownPartsNext
<1> QED
  BY <1>1 DEF PageInv, SnapshotFirst, RowsAreVersions, InStep

\* A frame taken in: what the page knew of the attendees it is sure of is
\* known still, or something newer is.
LEMMA KeepsInStep ==
  ASSUME PageTypes, LogInv, NEW g \in Pages, InStep(g), page[g].at = "live",
         UNCHANGED <<log, check, unsure>>,
         Known(g)' \subseteq Known(g), Known(g) \subseteq Changes,
         \A d \in Known(g) : d.who \notin unsure[g] /\ (\A e \in Known(g) : e.who = d.who => e \in log)
           => \E e \in Known(g)' : e.who = d.who /\ NewerOrSame(d, e)
  PROVE  InStep(g)'
<1> SUFFICES ASSUME NEW a \in Attendees \ unsure[g]
             PROVE  /\ \A c \in Known(g)' : c.who = a => c \in log
                    /\ \A c \in log : c.who = a =>
                         Pending(c) \/ \E d \in Known(g)' : d.who = a /\ NewerOrSame(c, d)
  BY DEF InStep, NewerOrSame, Pending, Sent, Row
<1>1. /\ \A c \in Known(g) : c.who = a => c \in log
      /\ \A c \in log : c.who = a =>
           Pending(c) \/ \E d \in Known(g) : d.who = a /\ NewerOrSame(c, d)
  BY DEF InStep
<1>2. ASSUME NEW c \in log, c.who = a, ~Pending(c)
      PROVE  \E d \in Known(g)' : d.who = a /\ NewerOrSame(c, d)
  <2>1. PICK d \in Known(g) : d.who = a /\ NewerOrSame(c, d)
    BY <1>1, <1>2
  <2>2. PICK e \in Known(g)' : e.who = a /\ NewerOrSame(d, e)
    BY <1>1, <2>1
  <2>3. c \in Changes /\ d \in Changes /\ e \in Changes
    BY <2>1, <2>2 DEF LogInv, CheckInTypeOK
  <2>4. NewerOrSame(c, e)
    BY <2>1, <2>2, <2>3, BeforeOrder DEF NewerOrSame
  <2> QED
    BY <2>2, <2>4
<1> QED
  BY <1>1, <1>2

\* The page in which the snapshot is merged shows what the snapshot says.
LEMMA MergeSnapshot ==
  ASSUME NEW rows \in SUBSET Attendees, NEW states \in SUBSET Changes, OneEach(states),
         NEW list, list = Merge([rows |-> rows, ver |-> NoVersions], states)
  PROVE  /\ list.rows \in SUBSET Attendees
         /\ list.ver \in [Attendees -> Changes \cup {None}]
         /\ {list.ver[a] : a \in Attendees} \ {None} = states
         /\ \A a \in Attendees :
              /\ a \in list.rows <=> list.ver[a] # None /\ list.ver[a].type = "ENTER"
              /\ list.ver[a] # None => list.ver[a].who = a
<1>1. \A c \in states : c.who \in Attendees /\ c # None
  <2>1. \A c \in states : c # None
    BY NoneAssumption
  <2>2. \A c \in states : c.who \in Attendees
    BY DEF Changes
  <2> QED
    BY <2>1, <2>2
<1> DEFINE kept  == {a \in rows : a \in Whose(states) \/ NoVersions[a] # None}
           newer == {c \in states : Newer(c, NoVersions)}
<1>2. newer = states
  BY <1>1 DEF Newer, NoVersions
<1>3. kept \ Whose(newer) = {}
  BY <1>2 DEF NoVersions
<1>4. list.rows = Arrivals(states)
  <2>1. list.rows = (kept \ Whose(newer)) \cup Arrivals(newer)
    BY DEF Merge
  <2> HIDE DEF kept, newer
  <2> QED
    BY <1>2, <1>3, <2>1
<1>5. list.ver = [a \in Attendees |-> IF a \in Whose(newer)
                    THEN CHOOSE c \in newer : c.who = a ELSE NoVersions[a]]
  BY DEF Merge
<1> HIDE DEF kept, newer
<1>6. ASSUME NEW c \in states PROVE list.ver[c.who] = c
  <2>1. c.who \in Whose(newer) /\ c.who \in Attendees /\ c \in newer
    BY <1>1, <1>2 DEF Whose
  <2>2. (CHOOSE d \in newer : d.who = c.who) = c
    BY <1>2, <2>1 DEF OneEach
  <2> QED
    BY <1>5, <2>1, <2>2
<1>7. \A a \in Attendees : list.ver[a] = None \/ (list.ver[a] \in states /\ list.ver[a].who = a)
  <2> TAKE a \in Attendees
  <2>1. CASE a \in Whose(newer)
    <3>1. PICK c \in states : c.who = a
      BY <1>2, <2>1 DEF Whose
    <3> QED
      BY <1>6, <3>1
  <2>2. CASE a \notin Whose(newer)
    BY <1>5, <2>2 DEF NoVersions
  <2> QED
    BY <2>1, <2>2
<1>8. list.ver \in [Attendees -> Changes \cup {None}]
  <2>1. \A a \in Attendees : list.ver[a] \in Changes \cup {None}
    BY <1>7
  <2> QED
    BY <1>5, <2>1
<1>9. \A a \in Attendees : a \in list.rows <=> list.ver[a] # None /\ list.ver[a].type = "ENTER"
  BY <1>1, <1>4, <1>6, <1>7 DEF Arrivals
<1>10. list.rows \in SUBSET Attendees
  BY <1>1, <1>4 DEF Arrivals
<1>11. {list.ver[a] : a \in Attendees} \ {None} = states
  BY <1>1, <1>6, <1>7
<1> QED
  BY <1>7, <1>8, <1>9, <1>10, <1>11

-----------------------------------------------------------------------------
(* The page's own steps.                                                   *)

\* A page that has the same frames and rows as before, the log unchanged.
LEMMA SamePage ==
  ASSUME NEW g \in Pages, PageInv(g), UNCHANGED checkInVars,
         page'[g] = page[g], unsure'[g] = unsure[g]
  PROVE  PageInv(g)'
<1>1. UNCHANGED <<log, check>>
  BY DEF checkInVars
<1>2. \A c : Pending(c)' <=> Pending(c)
  BY <1>1 DEF Pending, Sent, Row
<1> QED
  BY <1>1, <1>2, Stays

LEMMA LoadStep ==
  ASSUME PageTypes, LogInv, NEW g \in Pages, Load(g)
  PROVE  PageTypes' /\ PageInv(g)'
<1> DEFINE new == [at |-> "html", rows |-> PresentAttendees(log, now),
                   ver |-> NoVersions, inbox |-> <<>>]
<1>1. PresentAttendees(log, now) \in SUBSET Attendees
  BY DEF PresentAttendees, Arrivals, LatestChanges, LogInv, CheckInTypeOK, Changes
<1>2. NoVersions \in [Attendees -> Changes \cup {None}] /\ <<>> \in Seq(Frames)
  BY DEF NoVersions
<1>3. new \in Views
  BY <1>1, <1>2 DEF Views
<1>4. /\ page' = [page EXCEPT ![g] = new] /\ unsure' = [unsure EXCEPT ![g] = {}]
      /\ new.at = "html" /\ new.inbox = <<>>
  BY DEF Load
<1> HIDE DEF new
<1>5. PageTypes'
  BY <1>3, <1>4 DEF PageTypes
<1>6. page'[g] = new
  BY <1>4 DEF PageTypes
<1> QED
  BY <1>4, <1>5, <1>6, NotLive

LEMMA JoinStep ==
  ASSUME PageTypes, NEW g \in Pages, PageInv(g), Join(g)
  PROVE  PageTypes' /\ PageInv(g)'
<1>1. page[g] \in Views /\ NoVersions \in [Attendees -> Changes \cup {None}]
  BY DEF PageTypes, NoVersions
<1>2. /\ page[g].at = "html" /\ unsure' = unsure
      /\ page' = [page EXCEPT ![g] = [page[g] EXCEPT !.at = "joined", !.ver = NoVersions]]
  BY DEF Join, VersionsOnConnect
<1> DEFINE new == [page[g] EXCEPT !.at = "joined", !.ver = NoVersions]
<1>3. /\ new \in Views /\ new.at = "joined" /\ new.ver = NoVersions
      /\ new.inbox = page[g].inbox
  BY <1>1 DEF Views
<1> HIDE DEF new
<1>4. page' = [page EXCEPT ![g] = new]
  BY <1>2 DEF new
<1>5. PageTypes' /\ page'[g] = new
  BY <1>2, <1>3, <1>4 DEF PageTypes
<1>6. page[g].inbox = <<>>
  BY <1>2 DEF PageInv, SnapshotFirst
<1> QED
  BY <1>3, <1>5, <1>6, NotLive

LEMMA DropStep ==
  ASSUME PageTypes, NEW g \in Pages, Drop(g)
  PROVE  PageTypes' /\ PageInv(g)'
<1>1. page[g] \in Views /\ <<>> \in Seq(Frames)
  BY DEF PageTypes
<1>2. /\ unsure' = unsure
      /\ page' = [page EXCEPT ![g] = [page[g] EXCEPT !.at = "html", !.inbox = <<>>]]
  BY DEF Drop, AfterClose
<1> DEFINE new == [page[g] EXCEPT !.at = "html", !.inbox = <<>>]
<1>3. new \in Views /\ new.at = "html" /\ new.inbox = <<>>
  BY <1>1 DEF Views
<1> HIDE DEF new
<1>4. page' = [page EXCEPT ![g] = new]
  BY <1>2 DEF new
<1>5. PageTypes' /\ page'[g] = new
  BY <1>2, <1>3, <1>4 DEF PageTypes
<1> QED
  BY <1>3, <1>5, NotLive

\* The snapshot is the latest row of every attendee, and only what was queued
\* before it was read can be out of the log.
LEMMA SendSnapshotStep ==
  ASSUME PageTypes, LogInv, LogClock, NEW g \in Pages, PageInv(g), SendSnapshot(g),
         UNCHANGED checkInVars
  PROVE  PageTypes' /\ PageInv(g)'
<1> DEFINE latest == LatestChanges(log, now)
           snap == [kind |-> "snapshot", states |-> latest]
           s == page[g].inbox
           z == <<snap>> \o s
           doubt == Whose(Queued(g) \ log)
           new == [page[g] EXCEPT !.at = "live", !.inbox = z]
<1>1. /\ page[g] \in Views /\ page[g].at = "joined" /\ s \in Seq(Frames)
      /\ page[g].ver = NoVersions /\ SnapshotsIn(s) = {}
  <2>1. page[g] \in Views /\ page[g].at = "joined"
    BY DEF PageTypes, SendSnapshot
  <2>2. page[g].ver = NoVersions /\ Snapshots(g) = {}
    BY <2>1 DEF PageInv, SnapshotFirst
  <2> QED
    BY <2>1, <2>2, KnownParts DEF Views
<1>2. /\ latest \subseteq log /\ OneEach(latest) /\ log \subseteq Changes
      /\ \A c \in log : \E d \in latest : d.who = c.who /\ NewerOrSame(c, d)
  BY LatestOneEach, LatestExists DEF LogInv, CheckInTypeOK
<1>3. snap \in Frames /\ snap.kind = "snapshot" /\ snap.states = latest
  <2> HIDE DEF latest
  <2> QED
    BY <1>2 DEF Frames
<1>4. page' = [page EXCEPT ![g] = new] /\ unsure' = [unsure EXCEPT ![g] = doubt]
  BY DEF SendSnapshot, Snapshot
<1> HIDE DEF snap, latest, s
<1>5. /\ z \in Seq(Frames) /\ ChangesIn(z) = ChangesIn(s)
      /\ SnapshotsIn(z) = {1} /\ z[1] = snap /\ StatesIn(z) = latest
  BY <1>1, <1>3, PutFirst
<1> HIDE DEF z
<1>6. /\ new \in Views /\ new.at = "live" /\ new.ver = NoVersions /\ new.inbox = z
  BY <1>1, <1>5 DEF Views
<1>7. Queued(g) = ChangesIn(s)
  BY KnownParts DEF s
<1>8. doubt \in SUBSET Attendees
  <2>1. Queued(g) \subseteq Changes
    BY <1>1, <1>7, ChangesType
  <2> QED
    BY <2>1 DEF Whose, Changes
<1> HIDE DEF new, doubt
<1>9. PageTypes'
  BY <1>4, <1>6, <1>8 DEF PageTypes
<1>10. page'[g] = new /\ unsure'[g] = doubt
  BY <1>4 DEF PageTypes
<1>11. /\ Snapshots(g)' = {1} /\ Known(g)' = ChangesIn(s) \cup latest
  <2>1. Versions(g)' = {}
    BY <1>6, <1>10 DEF Versions, NoVersions
  <2>2. page'[g].inbox = z
    BY <1>6, <1>10
  <2> QED
    BY <1>5, <2>1, <2>2, KnownPartsNext
<1>12. SnapshotFirst(g)'
  BY <1>2, <1>3, <1>5, <1>6, <1>10, <1>11 DEF SnapshotFirst, OneEach
<1>13. RowsAreVersions(g)'
  BY <1>11 DEF RowsAreVersions
<1>14. log' = log
  BY DEF checkInVars
<1>15. InStep(g)'
  <2> SUFFICES ASSUME NEW a \in Attendees \ doubt
               PROVE  /\ \A c \in Known(g)' : c.who = a => c \in log
                      /\ \A c \in log : c.who = a => \E d \in Known(g)' : d.who = a /\ NewerOrSame(c, d)
    BY <1>10, <1>14 DEF InStep, NewerOrSame
  <2>1. \A c \in ChangesIn(s) : c.who = a => c \in log
    BY <1>7 DEF doubt, Whose
  <2> QED
    BY <1>2, <1>11, <2>1
<1> QED
  BY <1>9, <1>12, <1>13, <1>15 DEF PageInv

\* What a page has been told are changes.
LEMMA KnownTypes ==
  ASSUME PageTypes, NEW g \in Pages
  PROVE  Known(g) \subseteq Changes
<1>1. page[g] \in Views
  BY DEF PageTypes
<1>2. page[g].inbox \in Seq(Frames) /\ Versions(g) \subseteq Changes
  BY <1>1 DEF Views, Versions
<1> QED
  BY <1>2, KnownParts, ChangesType

LEMMA ReceiveReload ==
  ASSUME PageTypes, NEW g \in Pages, Receive(g), Head(page[g].inbox).kind = "invalidate"
  PROVE  PageTypes' /\ PageInv(g)'
<1> DEFINE new == [at |-> "loading", rows |-> page[g].rows, ver |-> page[g].ver, inbox |-> <<>>]
<1>1. page[g] \in Views /\ <<>> \in Seq(Frames)
  BY DEF PageTypes
<1>2. page' = [page EXCEPT ![g] = new] /\ unsure' = unsure
  BY DEF Receive, List
<1>3. new \in Views /\ new.at = "loading" /\ new.inbox = <<>>
  BY <1>1 DEF Views
<1> HIDE DEF new
<1>4. PageTypes' /\ page'[g] = new
  BY <1>2, <1>3 DEF PageTypes
<1> QED
  BY <1>3, <1>4, NotLive

LEMMA ReceiveSnapshot ==
  ASSUME PageTypes, LogInv, NEW g \in Pages, PageInv(g), Receive(g),
         Head(page[g].inbox).kind = "snapshot", UNCHANGED checkInVars
  PROVE  PageTypes' /\ PageInv(g)'
<1> DEFINE s == page[g].inbox
           states == Head(s).states
           list == Merge([rows |-> page[g].rows, ver |-> NoVersions], states)
           new == [at |-> "live", rows |-> list.rows, ver |-> list.ver, inbox |-> Tail(s)]
<1>1. /\ page[g] \in Views /\ page[g].at = "live" /\ s \in Seq(Frames) /\ s # <<>>
      /\ page[g].rows \in SUBSET Attendees
  BY DEF PageTypes, Receive, Views
<1>2. /\ \A i \in SnapshotsIn(s) : i = 1
      /\ \A i \in SnapshotsIn(s) : page[g].ver = NoVersions /\ OneEach(s[i].states)
  BY KnownParts DEF PageInv, SnapshotFirst
<1> HIDE DEF s
<1>3. /\ Head(s) \in Frames /\ Tail(s) \in Seq(Frames) /\ Head(s) = s[1]
      /\ Head(s).kind = "snapshot"
      /\ ChangesIn(s) = ChangesIn(Tail(s)) /\ StatesIn(s) = states /\ SnapshotsIn(s) = {1}
      /\ SnapshotsIn(Tail(s)) = {} /\ StatesIn(Tail(s)) = {}
  <2>1. Head(s).kind = "snapshot"
    BY DEF s
  <2> QED
    BY <1>1, <1>2, <2>1, TakeFrame
<1>4. /\ states \in SUBSET Changes /\ OneEach(states) /\ page[g].ver = NoVersions
  <2>1. Head(s).states \subseteq Changes
    BY <1>3, FrameKinds
  <2> QED
    BY <1>2, <1>3, <2>1
<1>5. page' = [page EXCEPT ![g] = new] /\ unsure' = unsure
  BY <1>4 DEF Receive, List, s
<1> HIDE DEF states
<1>6. /\ list.rows \in SUBSET Attendees
      /\ list.ver \in [Attendees -> Changes \cup {None}]
      /\ {list.ver[a] : a \in Attendees} \ {None} = states
      /\ \A a \in Attendees :
           /\ a \in list.rows <=> list.ver[a] # None /\ list.ver[a].type = "ENTER"
           /\ list.ver[a] # None => list.ver[a].who = a
  <2> DEFINE rows == page[g].rows
  <2>1. rows \in SUBSET Attendees
    BY <1>1
  <2> HIDE DEF rows
  <2> SUFFICES ASSUME NEW l, l = Merge([rows |-> rows, ver |-> NoVersions], states)
               PROVE  /\ l.rows \in SUBSET Attendees
                      /\ l.ver \in [Attendees -> Changes \cup {None}]
                      /\ {l.ver[a] : a \in Attendees} \ {None} = states
                      /\ \A a \in Attendees :
                           /\ a \in l.rows <=> l.ver[a] # None /\ l.ver[a].type = "ENTER"
                           /\ l.ver[a] # None => l.ver[a].who = a
    BY DEF rows
  <2> QED
    BY <1>4, <2>1, MergeSnapshot
<1> HIDE DEF list
<1>7. new \in Views /\ new.at = "live" /\ new.rows = list.rows /\ new.ver = list.ver /\ new.inbox = Tail(s)
  BY <1>3, <1>6 DEF Views
<1> HIDE DEF new
<1>8. PageTypes' /\ page'[g] = new
  BY <1>5, <1>7 DEF PageTypes
<1>9. Snapshots(g)' = {} /\ Known(g)' = Known(g)
  <2>1. Versions(g)' = states
    BY <1>6, <1>7, <1>8 DEF Versions
  <2>2. Versions(g) = {}
    BY <1>4 DEF Versions, NoVersions
  <2>3. page'[g].inbox = Tail(s)
    BY <1>7, <1>8
  <2>4. Known(g)' = ChangesIn(Tail(s)) \cup states /\ Snapshots(g)' = {}
    BY <1>3, <2>1, <2>3, KnownPartsNext
  <2>5. Known(g) = ChangesIn(s) \cup states
    BY <1>3, <2>2, KnownParts DEF s
  <2> QED
    BY <1>3, <2>4, <2>5
<1>10. SnapshotFirst(g)'
  BY <1>7, <1>8, <1>9 DEF SnapshotFirst
<1>11. RowsAreVersions(g)'
  BY <1>6, <1>7, <1>8 DEF RowsAreVersions
<1>12. InStep(g)'
  BY <1>1, <1>5, <1>9, KnownTypes, KeepsInStep DEF NewerOrSame, PageInv, checkInVars
<1> QED
  BY <1>8, <1>10, <1>11, <1>12 DEF PageInv

ShowVersions(list) ==
  \A a \in Attendees :
    /\ a \in list.rows <=> list.ver[a] # None /\ list.ver[a].type = "ENTER"
    /\ list.ver[a] # None => list.ver[a].who = a

\* list is the page's list once it has had the change c.
Applied(rows, ver, c, list) ==
  /\ list.rows \in SUBSET Attendees
  /\ list.ver \in [Attendees -> Changes \cup {None}]
  /\ ShowVersions(list)
  /\ \A a \in Attendees \ {c.who} : list.ver[a] = ver[a]
  /\ \/ list.ver[c.who] = c /\ (ver[c.who] = None \/ Before(ver[c.who], c))
     \/ list.ver[c.who] = ver[c.who] /\ ver[c.who] # None /\ ~Before(ver[c.who], c)

\* A state taken in, or ignored because the page has one that is newer.
LEMMA ApplyChange ==
  ASSUME NEW rows \in SUBSET Attendees, NEW ver \in [Attendees -> Changes \cup {None}],
         NEW c \in Changes,
         \A a \in Attendees :
           /\ a \in rows <=> ver[a] # None /\ ver[a].type = "ENTER"
           /\ ver[a] # None => ver[a].who = a
  PROVE  Applied(rows, ver, c, Apply([rows |-> rows, ver |-> ver], c))
<1> DEFINE list == Apply([rows |-> rows, ver |-> ver], c)
<1> SUFFICES Applied(rows, ver, c, list)
  OBVIOUS
<1> USE DEF Applied, ShowVersions
<1>0. c.who \in Attendees /\ c # None
  <2>1. c # None
    BY NoneAssumption
  <2> QED
    BY <2>1 DEF Changes
<1>1. CASE Newer(c, ver)
  <2>1. /\ list.rows = (IF c.type = "ENTER" THEN rows \cup {c.who} ELSE rows \ {c.who})
        /\ list.ver = [ver EXCEPT ![c.who] = c]
        /\ ver[c.who] = None \/ Before(ver[c.who], c)
    BY <1>1 DEF Apply, Newer
  <2>2. list.ver[c.who] = c /\ \A a \in Attendees \ {c.who} : list.ver[a] = ver[a]
    BY <1>0, <2>1
  <2>3. list.ver \in [Attendees -> Changes \cup {None}] /\ list.rows \in SUBSET Attendees
    <3>1. [ver EXCEPT ![c.who] = c] \in [Attendees -> Changes \cup {None}]
      BY <1>0
    <3>2. rows \cup {c.who} \in SUBSET Attendees /\ rows \ {c.who} \in SUBSET Attendees
      BY <1>0
    <3> QED
      BY <2>1, <3>1, <3>2
  <2>4. ASSUME NEW a \in Attendees
        PROVE  /\ a \in list.rows <=> list.ver[a] # None /\ list.ver[a].type = "ENTER"
               /\ list.ver[a] # None => list.ver[a].who = a
    BY <1>0, <2>1, <2>2
  <2> QED
    BY <2>1, <2>2, <2>3, <2>4
<1>2. CASE ~Newer(c, ver)
  BY <1>2 DEF Apply, Newer
<1> QED
  BY <1>1, <1>2

LEMMA ReceiveChange ==
  ASSUME PageTypes, LogInv, NEW g \in Pages, PageInv(g), Receive(g),
         Head(page[g].inbox).kind = "change", UNCHANGED checkInVars
  PROVE  PageTypes' /\ PageInv(g)'
<1> DEFINE s == page[g].inbox
           c == Head(s).change
           rows == page[g].rows
           ver == page[g].ver
           list == Apply([rows |-> rows, ver |-> ver], c)
           new == [at |-> "live", rows |-> list.rows, ver |-> list.ver, inbox |-> Tail(s)]
<1>1. /\ page[g] \in Views /\ page[g].at = "live" /\ s \in Seq(Frames) /\ s # <<>>
      /\ rows \in SUBSET Attendees /\ ver \in [Attendees -> Changes \cup {None}]
  BY DEF PageTypes, Receive, Views
<1>2. page' = [page EXCEPT ![g] = new] /\ unsure' = unsure
  BY DEF Receive, List
<1>3. /\ \A i \in SnapshotsIn(s) : i = 1
      /\ Snapshots(g) = SnapshotsIn(s)
      /\ Known(g) = ChangesIn(s) \cup StatesIn(s) \cup Versions(g)
  BY KnownParts DEF PageInv, SnapshotFirst
<1>4. Head(s).kind = "change"
  OBVIOUS
<1> HIDE DEF s
<1>5. /\ Head(s) \in Frames /\ Tail(s) \in Seq(Frames)
      /\ ChangesIn(s) = ChangesIn(Tail(s)) \cup {c} /\ StatesIn(s) = {} /\ SnapshotsIn(s) = {}
      /\ SnapshotsIn(Tail(s)) = {} /\ StatesIn(Tail(s)) = {}
  BY <1>1, <1>3, <1>4, TakeFrame
<1>6. c \in Changes
  BY <1>4, <1>5, FrameKinds
<1>7. \A a \in Attendees :
        /\ a \in rows <=> ver[a] # None /\ ver[a].type = "ENTER"
        /\ ver[a] # None => ver[a].who = a
  BY <1>1, <1>3, <1>5 DEF PageInv, RowsAreVersions
<1> HIDE DEF c
<1>8. Applied(rows, ver, c, list)
  BY <1>1, <1>6, <1>7, ApplyChange
<1> HIDE DEF list
<1> USE DEF Applied, ShowVersions
<1>9. new \in Views /\ new.at = "live" /\ new.rows = list.rows /\ new.ver = list.ver /\ new.inbox = Tail(s)
  BY <1>5, <1>8 DEF Views
<1> HIDE DEF new
<1>10. PageTypes' /\ page'[g] = new
  BY <1>2, <1>9 DEF PageTypes
<1>11. /\ Snapshots(g)' = {}
       /\ Known(g) = ChangesIn(Tail(s)) \cup {c} \cup ({ver[a] : a \in Attendees} \ {None})
       /\ Known(g)' = ChangesIn(Tail(s)) \cup ({list.ver[a] : a \in Attendees} \ {None})
  <2>1. Versions(g)' = {list.ver[a] : a \in Attendees} \ {None}
    BY <1>9, <1>10 DEF Versions
  <2>2. page'[g].inbox = Tail(s)
    BY <1>9, <1>10
  <2>3. /\ Known(g)' = ChangesIn(Tail(s)) \cup ({list.ver[a] : a \in Attendees} \ {None})
        /\ Snapshots(g)' = {}
    BY <1>5, <2>1, <2>2, KnownPartsNext
  <2> QED
    BY <1>3, <1>5, <2>3 DEF Versions
<1> HIDE DEF rows, ver
<1>12. c # None /\ c.who \in Attendees
  <2>1. c # None
    BY <1>6, NoneAssumption
  <2> QED
    BY <1>6, <2>1 DEF Changes
<1>13. Known(g)' \subseteq Known(g)
  <2> SUFFICES ASSUME NEW a \in Attendees, list.ver[a] # None
               PROVE  list.ver[a] \in {c} \cup ({ver[b] : b \in Attendees} \ {None})
    BY <1>11
  <2>1. CASE a = c.who
    BY <1>8, <1>12, <2>1
  <2>2. CASE a # c.who
    BY <1>8, <2>2
  <2> QED
    BY <2>1, <2>2
<1>14. Known(g) \subseteq Changes /\ log \subseteq Changes /\ \A d, e \in log : d.id = e.id => d = e
  BY KnownTypes DEF LogInv, CheckInTypeOK
<1>15. ASSUME NEW d \in Known(g), \A e \in Known(g) : e.who = d.who => e \in log
       PROVE  \E e \in Known(g)' : e.who = d.who /\ NewerOrSame(d, e)
  <2>1. CASE d \in Known(g)'
    BY <2>1 DEF NewerOrSame
  <2>2. CASE d \notin Known(g)' /\ d = c
    <3> DEFINE old == ver[c.who]
    <3>1. list.ver[c.who] # c
      BY <1>11, <1>12, <2>2
    <3>2. list.ver[c.who] = old /\ old # None /\ ~Before(old, c)
      BY <1>8, <3>1
    <3>3. old.who = c.who /\ old \in Known(g)' /\ old \in Known(g) /\ c \in Known(g)
      BY <1>7, <1>11, <1>12, <3>2
    <3>4. old \in log /\ c \in log
      BY <1>15, <2>2, <3>3
    <3>5. NewerOrSame(c, old)
      BY <1>14, <3>2, <3>4, BeforeOrder DEF NewerOrSame
    <3> QED
      BY <2>2, <3>3, <3>5
  <2>3. CASE d \notin Known(g)' /\ d # c
    <3>1. PICK a \in Attendees : d = ver[a] /\ d # None
      BY <1>11, <2>3
    <3>2. list.ver[a] # ver[a]
      BY <1>11, <2>3, <3>1
    <3>3. a = c.who /\ list.ver[a] = c /\ Before(d, c)
      BY <1>8, <3>1, <3>2
    <3>4. d.who = a /\ c \in Known(g)'
      BY <1>7, <1>11, <1>12, <3>1, <3>3
    <3> QED
      BY <3>3, <3>4 DEF NewerOrSame
  <2> QED
    BY <2>1, <2>2, <2>3
<1>16. SnapshotFirst(g)'
  BY <1>9, <1>10, <1>11 DEF SnapshotFirst
<1>17. RowsAreVersions(g)'
  BY <1>8, <1>9, <1>10 DEF RowsAreVersions
<1>18. InStep(g)'
  BY <1>1, <1>2, <1>13, <1>14, <1>15, KeepsInStep DEF PageInv, checkInVars
<1> QED
  BY <1>10, <1>16, <1>17, <1>18 DEF PageInv

LEMMA ReceiveStep ==
  ASSUME PageTypes, LogInv, NEW g \in Pages, PageInv(g), Receive(g), UNCHANGED checkInVars
  PROVE  PageTypes' /\ PageInv(g)'
<1>1. page[g].inbox \in Seq(Frames) /\ page[g].inbox # <<>>
  BY DEF PageTypes, Views, Receive
<1>2. Head(page[g].inbox) \in Frames
  BY <1>1
<1> QED
  BY <1>2, FrameKinds, ReceiveReload, ReceiveSnapshot, ReceiveChange

-----------------------------------------------------------------------------
(* Writes and broadcasts.                                                  *)

\* A broadcast leaves a page as it is, or puts its frame in the inbox.
LEMMA BroadcastStep ==
  ASSUME PageTypes, NEW f \in Frames, Broadcast(f)
  PROVE  /\ page' \in [Pages -> Views]
         /\ \A g \in Pages :
              \/ page'[g] = page[g]
              \/ g \in Group /\ page'[g] = [page[g] EXCEPT !.inbox = Append(@, f)]
<1>1. PICK reached \in SUBSET Group :
        page' = [g \in Pages |-> IF g \in reached
                                 THEN [page[g] EXCEPT !.inbox = Append(@, f)] ELSE page[g]]
  BY DEF Broadcast
<1>2. ASSUME NEW g \in Pages
      PROVE  page[g] \in Views /\ [page[g] EXCEPT !.inbox = Append(page[g].inbox, f)] \in Views
  <2>1. page[g] \in Views
    BY DEF PageTypes
  <2>2. page[g].inbox \in Seq(Frames)
    BY <2>1 DEF Views
  <2>3. Append(page[g].inbox, f) \in Seq(Frames)
    BY <2>2
  <2> QED
    BY <2>1, <2>3 DEF Views
<1>3. page' \in [Pages -> Views]
  BY <1>1, <1>2
<1>4. \A g \in Pages :
        \/ page'[g] = page[g]
        \/ g \in Group /\ page'[g] = [page[g] EXCEPT !.inbox = Append(@, f)]
  BY <1>1
<1> QED
  BY <1>3, <1>4

LEMMA GroupSteps == \A g \in Group : g \in Pages /\ page[g].at \in {"joined", "live"}
BY DEF Group

LEMMA DoubtsGrow ==
  ASSUME PageTypes, NEW ps, NEW changes \in SUBSET Changes, Doubts(ps, changes)
  PROVE  /\ unsure' \in [Pages -> SUBSET Attendees]
         /\ \A g \in Pages : unsure[g] \subseteq unsure'[g]
         /\ \A g \in Pages, c \in changes : g \in ps => c.who \in unsure'[g]
<1>1. Whose(changes) \in SUBSET Attendees /\ \A c \in changes : c.who \in Whose(changes)
  BY DEF Whose, Changes
<1> QED
  BY <1>1 DEF PageTypes, Doubts

LEMMA TellStep ==
  ASSUME PageTypes, LogInv, \A g \in Pages : PageInv(g), NEW p \in Checks, Tell(p)
  PROVE  PageTypes' /\ \A g \in Pages : PageInv(g)'
<1> DEFINE f == [kind |-> "change", change |-> Sent(p)]
           lost == {g \in Group : Sent(p) \notin log \/ page'[g] = page[g]}
<1>1. check[p].at = "saved" /\ log' = log /\ Broadcast(f) /\ Doubts(lost, {Sent(p)})
  BY DEF Tell, Announce
<1>2. Sent(p) \in Changes
  <2>1. check[p].at # "new" /\ check[p].id \in Nat
    BY <1>1 DEF LogInv, CheckInTypeOK, Requests
  <2> QED
    BY <2>1, RowType DEF Sent
<1>3. f \in Frames /\ f.kind = "change" /\ f.change = Sent(p)
  BY <1>2 DEF Frames
<1>4. \A c \in log : Pending(c) => Pending(c)' \/ c = Sent(p)
  <2> SUFFICES ASSUME NEW q \in Checks, check[q].at = "saved", q # p
               PROVE  check'[q] = check[q]
    BY DEF Pending, Sent, Row
  <2> QED
    BY DEF Tell, Announce, LogInv, CheckInTypeOK
<1>5. \A c : Pending(c)' => Pending(c)
  <2>1. \A q \in Checks : check'[q].at = "saved" => check'[q] = check[q]
    BY DEF Tell, Announce, LogInv, CheckInTypeOK, Requests
  <2> QED
    BY <2>1 DEF Pending, Sent, Row
<1> HIDE DEF f
<1>6. /\ page' \in [Pages -> Views]
      /\ \A g \in Pages :
           \/ page'[g] = page[g]
           \/ g \in Group /\ page'[g] = [page[g] EXCEPT !.inbox = Append(@, f)]
  BY <1>1, <1>3, BroadcastStep
<1>7. /\ unsure' \in [Pages -> SUBSET Attendees]
      /\ \A g \in Pages : unsure[g] \subseteq unsure'[g]
      /\ \A g \in Pages : g \in lost => Sent(p).who \in unsure'[g]
  <2> HIDE DEF lost
  <2> QED
    BY <1>1, <1>2, DoubtsGrow
<1>8. ASSUME NEW g \in Pages PROVE PageInv(g)'
  <2>1. CASE page'[g] = page[g]
    <3>1. page[g].at = "live" => g \in Group
      BY DEF Group
    <3>2. page[g].at = "live" => Sent(p).who \in unsure'[g]
      BY <1>7, <2>1, <3>1
    <3>3. ASSUME page[g].at = "live", NEW a \in Attendees \ unsure'[g]
          PROVE  /\ a \notin unsure[g]
                 /\ \A c \in log : c.who = a => Pending(c)' \/ ~Pending(c)
      BY <1>4, <1>7, <3>2, <3>3
    <3> QED
      BY <1>1, <2>1, <3>3, Stays
  <2>2. CASE g \in Group /\ page'[g] # page[g]
    <3>1. page'[g] = [page[g] EXCEPT !.inbox = Append(@, f)]
      BY <1>6, <2>2
    <3>2. f.change \in log \/ f.change.who \in unsure'[g]
      BY <1>3, <1>7, <2>2
    <3> QED
      BY <1>1, <1>3, <1>4, <1>7, <2>2, <3>1, <3>2, GroupSteps, Reached
  <2> QED
    BY <1>6, <2>1, <2>2
<1> QED
  BY <1>6, <1>7, <1>8 DEF PageTypes

\* A correction's broadcast changes what no page knows.
LEMMA InvalidateStep ==
  ASSUME PageTypes, \A g \in Pages : PageInv(g), Invalidate, UNCHANGED <<log, check>>
  PROVE  PageTypes' /\ \A g \in Pages : PageInv(g)'
<1> DEFINE f == [kind |-> "invalidate"]
<1>1. f \in Frames /\ f.kind = "invalidate" /\ Broadcast(f) /\ unsure' = unsure
  BY DEF Frames, Invalidate
<1> HIDE DEF f
<1>2. /\ page' \in [Pages -> Views]
      /\ \A g \in Pages :
           \/ page'[g] = page[g]
           \/ g \in Group /\ page'[g] = [page[g] EXCEPT !.inbox = Append(@, f)]
  BY <1>1, BroadcastStep
<1>3. \A c : Pending(c)' <=> Pending(c)
  BY DEF Pending, Sent, Row
<1>4. ASSUME NEW g \in Pages PROVE PageInv(g)'
  <2>1. CASE page'[g] = page[g]
    BY <1>1, <1>3, <2>1, Stays
  <2>2. CASE g \in Group /\ page'[g] = [page[g] EXCEPT !.inbox = Append(@, f)]
    BY <1>1, <1>3, <2>2, GroupSteps, Reached
  <2> QED
    BY <1>2, <2>1, <2>2
<1> QED
  BY <1>1, <1>2, <1>4 DEF PageTypes

\* A correction committed: what it takes away or puts in place is in doubt.
LEMMA CommitStep ==
  ASSUME PageTypes, LogInv, LogInv', \A g \in Pages : PageInv(g),
         Doubts(Group, Commits), UNCHANGED <<page, check>>
  PROVE  PageTypes' /\ \A g \in Pages : PageInv(g)'
<1>1. Commits \in SUBSET Changes
  BY DEF Commits, LogInv, CheckInTypeOK
<1>2. /\ unsure' \in [Pages -> SUBSET Attendees]
      /\ \A g \in Pages : unsure[g] \subseteq unsure'[g]
      /\ \A g \in Pages, c \in Commits : g \in Group => c.who \in unsure'[g]
  BY <1>1, DoubtsGrow
<1>3. \A c : Pending(c)' <=> Pending(c)
  BY DEF Pending, Sent, Row
<1>4. ASSUME NEW g \in Pages PROVE PageInv(g)'
  <2>1. ASSUME page[g].at = "live", NEW a \in Attendees \ unsure'[g]
        PROVE  /\ a \notin unsure[g]
               /\ \A c \in log : c.who = a => c \in log'
               /\ \A c \in log' : c.who = a => Pending(c)' \/ (c \in log /\ ~Pending(c))
    <3>1. g \in Group
      BY <2>1 DEF Group
    <3>2. \A c \in Commits : c.who # a
      BY <1>2, <2>1, <3>1
    <3> QED
      BY <1>2, <1>3, <2>1, <3>2 DEF Commits
  <2> QED
    BY <2>1, Stays
<1> QED
  BY <1>2, <1>4 DEF PageTypes

\* The pages are not touched until the row is announced.
LEMMA WriteStep ==
  ASSUME PageTypes, LogInv, \A g \in Pages : PageInv(g), UNCHANGED pageVars,
         Tick \/ Writes
  PROVE  PageTypes' /\ \A g \in Pages : PageInv(g)'
<1>1. UNCHANGED <<page, unsure>>
  BY DEF pageVars
<1>2. log \subseteq log' /\ \A c \in log' : Pending(c)' \/ (c \in log /\ ~Pending(c))
  <2>1. CASE Tick
    BY <2>1 DEF Tick, Pending, Sent, Row
  <2>2. ASSUME NEW p \in Checks, Ask(p) \/ Stamp(p) \/ Save(p)
        PROVE  log \subseteq log' /\ \A c \in log' : Pending(c)' \/ (c \in log /\ ~Pending(c))
    <3>1. \A q \in Checks \ {p} : check'[q] = check[q]
      BY <2>2 DEF Ask, Stamp, Save, LogInv, CheckInTypeOK
    <3>2. check[p].at # "saved"
      BY <2>2 DEF Ask, Stamp, Save
    <3>3. \A c : Pending(c) => Pending(c)'
      BY <3>1, <3>2 DEF Pending, Sent, Row
    <3>4. CASE Save(p)
      <4>1. /\ log' = log \cup {Row(p, nextId)}
            /\ check' = [check EXCEPT ![p] = [check[p] EXCEPT !.at = "saved", !.id = nextId]]
            /\ check[p] \in Requests
        BY <3>4 DEF Save, LogInv, CheckInTypeOK
      <4>2. /\ check'[p].at = "saved" /\ check'[p].id = nextId
            /\ check'[p].who = check[p].who /\ check'[p].stamp = check[p].stamp
            /\ check'[p].type = check[p].type
        BY <4>1 DEF LogInv, CheckInTypeOK, Requests
      <4>3. Sent(p)' = Row(p, nextId)
        BY <4>2 DEF Sent, Row
      <4>4. \A c : c = Row(p, nextId) => Pending(c)'
        BY <4>2, <4>3 DEF Pending
      <4> QED
        BY <3>3, <4>1, <4>4
    <3>5. CASE Ask(p) \/ Stamp(p)
      BY <3>3, <3>5 DEF Ask, Stamp
    <3> QED
      BY <2>2, <3>4, <3>5
  <2> QED
    BY <2>1, <2>2 DEF Writes
<1>3. \A g \in Pages : PageInv(g)'
  BY <1>1, <1>2, Stays
<1> QED
  BY <1>1, <1>3 DEF PageTypes

LEMMA NextOverview == OverviewInv /\ [Next]_vars => OverviewInv'
<1> SUFFICES ASSUME OverviewInv, [Next]_vars PROVE OverviewInv'
  OBVIOUS
<1>0. LogInv /\ LogClock /\ PageTypes /\ \A g \in Pages : PageInv(g)
  BY DEF OverviewInv
<1>1. ASSUME UNCHANGED checkInVars PROVE LogInv' /\ LogClock'
  <2>1. LogInv'
    BY <1>0, <1>1 DEF checkInVars, LogInv, CheckInTypeOK
  <2>2. LogClock'
    BY <1>0, <1>1 DEF checkInVars, LogClock
  <2> QED
    BY <2>1, <2>2
<1>2. ASSUME CheckInNext PROVE LogInv' /\ LogClock'
  BY <1>0, <1>2, LogStep, ClockStep
<1>3. CASE (Tick \/ Writes) /\ UNCHANGED pageVars
  <2>1. CheckInNext
    BY <1>3 DEF Writes, CheckInNext, CheckInStep
  <2> QED
    BY <1>0, <1>2, <1>3, <2>1, WriteStep DEF OverviewInv
<1>4. ASSUME NEW p \in Checks, Tell(p) PROVE OverviewInv'
  <2>1. CheckInNext
    BY <1>4 DEF Tell, CheckInNext, CheckInStep
  <2> QED
    BY <1>0, <1>2, <1>4, <2>1, TellStep DEF OverviewInv
<1>5. CASE Corrections
  <2>1. LogInv' /\ LogClock'
    BY <1>2, <1>5 DEF Corrections, CheckInNext
  <2>2. CASE (Correct \/ TellDeleted) /\ Invalidate
    BY <1>0, <2>1, <2>2, InvalidateStep DEF OverviewInv, Correct, TellDeleted
  <2>3. CASE (CommitCorrection \/ DeleteSelected) /\ Doubts(Group, Commits)
             /\ UNCHANGED <<page, drops, told>>
    BY <1>0, <2>1, <2>3, CommitStep DEF OverviewInv, CommitCorrection, DeleteSelected
  <2> QED
    BY <1>5, <2>2, <2>3 DEF Corrections
<1>6. ASSUME NEW g \in Pages, PageStep(g) \/ Drop(g), UNCHANGED checkInVars
      PROVE  OverviewInv'
  <2>1. PageTypes' /\ PageInv(g)'
    BY <1>0, <1>6, LoadStep, JoinStep, SendSnapshotStep, ReceiveStep, DropStep DEF PageStep
  <2>2. ASSUME NEW h \in Pages, h # g PROVE PageInv(h)'
    <3>1. page'[h] = page[h] /\ unsure'[h] = unsure[h]
      BY <1>0, <1>6, <2>2 DEF PageStep, Load, Join, SendSnapshot, Receive, Drop, PageTypes
    <3> QED
      BY <1>0, <1>6, <3>1, SamePage
  <2> QED
    BY <1>1, <1>6, <2>1, <2>2 DEF OverviewInv
<1>7. CASE UNCHANGED vars
  <2>1. UNCHANGED checkInVars /\ UNCHANGED <<page, unsure>>
    BY <1>7 DEF vars, pageVars
  <2>2. PageTypes' /\ \A g \in Pages : PageInv(g)'
    BY <1>0, <2>1, SamePage DEF PageTypes
  <2> QED
    BY <1>1, <2>1, <2>2 DEF OverviewInv
<1> QED
  BY <1>3, <1>4, <1>5, <1>6, <1>7 DEF Next

\* A page that has received everything, when nothing is left to be announced,
\* shows of every attendee it is sure of what the log says.
LEMMA SettledShowsLog ==
  ASSUME OverviewInv, Quiet, NEW g \in Pages, Settled(g), NEW a \in Attendees \ unsure[g]
  PROVE  a \in page[g].rows <=> a \in PresentAttendees(log, now)
<1> DEFINE mine == page[g].ver[a]
<1>1. /\ LogInv /\ LogClock /\ page[g] \in Views /\ page[g].at = "live" /\ page[g].inbox = <<>>
      /\ \A c : ~Pending(c)
  BY DEF OverviewInv, PageTypes, Settled, Quiet, Pending
<1>2. Snapshots(g) = {} /\ Known(g) = Versions(g)
  BY <1>1, NoFrames, KnownParts
<1>3. \A b \in Attendees :
        /\ b \in page[g].rows <=> page[g].ver[b] # None /\ page[g].ver[b].type = "ENTER"
        /\ page[g].ver[b] # None => page[g].ver[b].who = b
  BY <1>1, <1>2 DEF OverviewInv, PageInv, RowsAreVersions
<1>4. /\ \A c \in Known(g) : c.who = a => c \in log
      /\ \A c \in log : c.who = a => \E d \in Known(g) : d.who = a /\ NewerOrSame(c, d)
  BY <1>1 DEF OverviewInv, PageInv, InStep
<1>5. \A d \in Known(g) : d.who = a => d = mine /\ mine # None
  BY <1>2, <1>3 DEF Versions
<1>6. mine # None => mine \in log /\ mine.who = a
  <2> SUFFICES ASSUME mine # None PROVE mine \in log /\ mine.who = a
    OBVIOUS
  <2>1. mine \in Known(g)
    BY <1>2 DEF Versions
  <2> QED
    BY <1>3, <1>4, <2>1
<1>7. \A c \in log : c.who = a => mine # None /\ NewerOrSame(c, mine)
  BY <1>4, <1>5
<1>8. \A c \in log : c \in Changes /\ c.at <= now
  BY <1>1 DEF LogInv, CheckInTypeOK, LogClock
<1>9. ASSUME NEW c \in LatestChanges(log, now), c.who = a PROVE c = mine
  <2>1. c \in log /\ \A d \in log : d.who = a => ~Before(c, d)
    BY <1>8, <1>9 DEF LatestChanges
  <2>2. mine # None /\ NewerOrSame(c, mine)
    BY <1>7, <1>9, <2>1
  <2> QED
    BY <1>6, <2>1, <2>2 DEF NewerOrSame
<1>10. mine # None => mine \in LatestChanges(log, now)
  <2> SUFFICES ASSUME mine # None PROVE mine \in LatestChanges(log, now)
    OBVIOUS
  <2>1. mine \in log /\ mine.who = a
    BY <1>6
  <2>2. ASSUME NEW d \in log, d.who = a PROVE ~Before(mine, d)
    <3>1. NewerOrSame(d, mine) /\ d \in Changes /\ mine \in Changes
      BY <1>7, <1>8, <2>1, <2>2
    <3> QED
      BY <3>1, BeforeOrder DEF NewerOrSame
  <2> QED
    BY <1>8, <2>1, <2>2 DEF LatestChanges
<1>11. a \in PresentAttendees(log, now) <=> mine # None /\ mine.type = "ENTER"
  <2>1. ASSUME a \in PresentAttendees(log, now) PROVE mine # None /\ mine.type = "ENTER"
    <3>1. PICK c \in LatestChanges(log, now) : c.type = "ENTER" /\ c.who = a
      BY <2>1 DEF PresentAttendees, Arrivals
    <3>2. c \in log
      BY <3>1 DEF LatestChanges
    <3> QED
      BY <1>7, <1>9, <3>1, <3>2
  <2>2. ASSUME mine # None, mine.type = "ENTER" PROVE a \in PresentAttendees(log, now)
    BY <1>6, <1>10, <2>2 DEF PresentAttendees, Arrivals
  <2> QED
    BY <2>1, <2>2
<1> QED
  BY <1>3, <1>11

\* Every behaviour of the overview keeps its pages in step with the log.
THEOREM OverviewInvariant == Spec => []OverviewInv
<1>1. Init => OverviewInv
  BY InitOverview
<1>2. OverviewInv /\ [Next]_vars => OverviewInv'
  BY NextOverview
<1> QED
  BY <1>1, <1>2, PTL DEF Spec

\* A page that has received everything shows who the log says is present, but
\* for the attendees whose update it missed or whose row was corrected under
\* it (applyAttendanceState and replaceAttendees of overview.js).
THEOREM PagesAgree == Spec => []SettledPagesAgree
<1>1. OverviewInv => SettledPagesAgree
  <2> SUFFICES ASSUME OverviewInv, Quiet, NEW g \in Pages, Settled(g),
                      NEW a \in WrongOn(g), a \notin unsure[g]
               PROVE  FALSE
    BY DEF SettledPagesAgree
  <2>1. a \in Attendees
    BY DEF OverviewInv, PageTypes, Views, WrongOn, PresentAttendees, Arrivals,
           LatestChanges, LogInv, CheckInTypeOK, Changes
  <2> QED
    BY <2>1, SettledShowsLog DEF WrongOn
<1> QED
  BY <1>1, OverviewInvariant, PTL

\* The repeats of the log still need overlapping requests, whatever the pages
\* do.
THEOREM OverviewRepeats == Spec => []RepeatOnlyByOverlap
<1>1. Init => OverviewInv /\ MeetingInv
  BY InitOverview, InitLog DEF Init
<1>2. OverviewInv /\ MeetingInv /\ [Next]_vars => OverviewInv' /\ MeetingInv'
  <2> SUFFICES ASSUME OverviewInv, MeetingInv, [Next]_vars PROVE MeetingInv'
    BY NextOverview
  <2>1. CheckInNext \/ UNCHANGED checkInVars
    BY DEF Next, Writes, Tell, Corrections, CheckInNext, CheckInStep, vars
  <2>2. CASE CheckInNext
    BY <2>2, MeetingStep DEF OverviewInv
  <2>3. CASE UNCHANGED checkInVars
    BY <2>3 DEF checkInVars, MeetingInv, LogOrdered, Latest, SawOther, RowAfterSeen, Written,
                Row, Follows
  <2> QED
    BY <2>1, <2>2, <2>3
<1>3. OverviewInv /\ MeetingInv => RepeatOnlyByOverlap
  BY RepeatNeedsOverlap DEF OverviewInv
<1> QED
  BY <1>1, <1>2, <1>3, PTL DEF Spec
=============================================================================
