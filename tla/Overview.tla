------------------------------ MODULE Overview ------------------------------
(***************************************************************************)
(* The live list of those present: the staff page overview.js, its socket  *)
(* (AttendanceConsumer), and the broadcasts of every write to the log      *)
(* (module CheckIn).                                                       *)
(*                                                                         *)
(* A page is rendered from the log, then connects: the consumer joins the  *)
(* meeting's group, reads a snapshot and sends it before it forwards       *)
(* anything the group received meanwhile.  The page keeps a version per    *)
(* attendee, the newest (timestamp, primary key) seen on this connection,  *)
(* and ignores older states.  A change is broadcast after its row is       *)
(* committed, from the object in memory; a correction has no payload and   *)
(* makes the page reload.  A broadcast may miss any page: the channel      *)
(* layer's failures are swallowed and nothing is sent again.               *)
(*                                                                         *)
(* Left out: the rotating code, the feed of recent changes, and the loss   *)
(* of the staff permission, after which the page stops.                    *)
(***************************************************************************)
EXTENDS CheckIn, Sequences

CONSTANTS
  Pages,   \* open overview pages
  MaxDrops \* bound: connections that break

ASSUME OverviewAssumption == MaxDrops \in Nat

VARIABLES
  page,  \* per page: its step, the rows shown, the versions, frames to come
  drops, \* connections broken so far
  told,  \* per page: a correction made it reload, or it missed a frame (history)
  unsure \* per page: attendees it may show wrong, see Doubts (history)

pageVars == <<page, drops, told, unsure>>
vars     == <<checkInVars, pageVars>>

NoVersions == [a \in Attendees |-> None]

Init ==
  /\ InitCheckIn
  /\ page = [g \in Pages |-> [at |-> "loading", rows |-> {}, ver |-> NoVersions, inbox |-> <<>>]]
  /\ drops = 0
  /\ told = [g \in Pages |-> "untold"]
  /\ unsure = [g \in Pages |-> {}]

Group == {g \in Pages : page[g].at \in {"joined", "live"}}

Sent(p) == Row(p, check[p].id)

Whose(changes) == {c.who : c \in changes}

-----------------------------------------------------------------------------
(* The page. *)

\* applyAttendanceState returns early unless the state is newer.
Newer(c, ver) == ver[c.who] = None \/ Before(ver[c.who], c)

Apply(list, c) ==
  IF Newer(c, list.ver)
  THEN [rows |-> IF c.type = "ENTER" THEN list.rows \cup {c.who} ELSE list.rows \ {c.who},
        ver |-> [list.ver EXCEPT ![c.who] = c]]
  ELSE list

\* replaceAttendees: rows neither in the snapshot nor versioned are dropped,
\* then each state of it is applied; it holds one state per attendee.
Merge(list, states) ==
  LET kept  == {a \in list.rows : a \in Whose(states) \/ list.ver[a] # None}
      newer == {c \in states : Newer(c, list.ver)}
  IN  [rows |-> (kept \ Whose(newer)) \cup Arrivals(newer),
       ver |-> [a \in Attendees |-> IF a \in Whose(newer)
                                    THEN CHOOSE c \in newer : c.who = a ELSE list.ver[a]]]

Repaired(t) == IF t = "missed" THEN "untold" ELSE t

List(g) == [rows |-> page[g].rows, ver |-> page[g].ver]

\* The page is opened, or reloaded: AttendanceEventOverview renders it.
Load(g) ==
  /\ page[g].at = "loading"
  /\ page' = [page EXCEPT ![g] = [at |-> "html", rows |-> PresentAttendees(log, now),
                                  ver |-> NoVersions, inbox |-> <<>>]]
  /\ told' = [told EXCEPT ![g] = Repaired(@)]
  /\ unsure' = [unsure EXCEPT ![g] = {}]
  /\ UNCHANGED drops

\* makeWebsocket clears the versions.
VersionsOnConnect(g) == NoVersions

\* makeWebsocket; the consumer joins the group.
Join(g) ==
  /\ page[g].at = "html"
  /\ page' = [page EXCEPT ![g].at = "joined", ![g].ver = VersionsOnConnect(g)]
  /\ UNCHANGED <<drops, told, unsure>>

\* Mutant: the snapshot lists those present only.
SnapshotPresent == {c \in LatestChanges(log, now) : c.type = "ENTER"}

\* AttendanceConsumer._snapshot: absent attendees too.
Snapshot == LatestChanges(log, now)

Queued(g) == {page[g].inbox[i].change : i \in {j \in DOMAIN page[g].inbox : page[g].inbox[j].kind = "change"}}

\* The snapshot is sent from connect(), ahead of what the group has queued.
SendSnapshot(g) ==
  /\ page[g].at = "joined"
  /\ page' = [page EXCEPT ![g].at = "live",
                ![g].inbox = <<[kind |-> "snapshot", states |-> Snapshot]>> \o @]
  /\ told' = [told EXCEPT ![g] = Repaired(@)]
  /\ unsure' = [unsure EXCEPT ![g] = Whose(Queued(g) \ log)]
  /\ UNCHANGED drops

\* onMessage.
Receive(g) ==
  /\ page[g].at = "live" /\ page[g].inbox # <<>>
  /\ LET frame == Head(page[g].inbox)
         list  == CASE frame.kind = "change" -> Apply(List(g), frame.change)
                    [] frame.kind = "snapshot" -> Merge(List(g), frame.states)
                    [] OTHER -> List(g)
         reload == frame.kind = "invalidate"
     IN  /\ page' = [page EXCEPT ![g] =
                    [at |-> IF reload THEN "loading" ELSE "live",
                     rows |-> list.rows, ver |-> list.ver,
                     inbox |-> IF reload THEN <<>> ELSE Tail(page[g].inbox)]]
         /\ told' = IF reload THEN [told EXCEPT ![g] = "told"] ELSE told
  /\ UNCHANGED <<drops, unsure>>

\* Mutant: only a close the page knows is answered, the others end it.
AfterCloseGivesUp == "closed"

\* The close handler calls makeWebsocket again after five seconds.
AfterClose == "html"

Drop(g) ==
  /\ g \in Group /\ drops < MaxDrops
  /\ page' = [page EXCEPT ![g].at = AfterClose, ![g].inbox = <<>>]
  /\ drops' = drops + 1
  /\ UNCHANGED <<told, unsure>>

PageStep(g) == Load(g) \/ Join(g) \/ SendSnapshot(g) \/ Receive(g)

-----------------------------------------------------------------------------
(* The broadcasts. *)

\* websocket._send: any part of the group may be missed.
Broadcast(frame) ==
  \E reached \in SUBSET Group :
    /\ page' = [g \in Pages |-> IF g \in reached
                                THEN [page[g] EXCEPT !.inbox = Append(@, frame)]
                                ELSE page[g]]
    /\ told' = [g \in Pages |-> IF g \in Group \ reached THEN "missed" ELSE told[g]]
    /\ UNCHANGED drops

\* The attendees of these changes may be shown wrong on the pages ps until
\* their next load or snapshot.
Doubts(ps, changes) ==
  unsure' = [g \in Pages |-> IF g \in ps THEN unsure[g] \cup Whose(changes) ELSE unsure[g]]

\* send_attendance_change; in doubt where it is lost, and everywhere when the
\* row has been corrected since it was saved.
Tell(p) ==
  /\ Announce(p)
  /\ Broadcast([kind |-> "change", change |-> Sent(p)])
  /\ Doubts({g \in Group : Sent(p) \notin log \/ page'[g] = page[g]}, {Sent(p)})

Invalidate == Broadcast([kind |-> "invalidate"]) /\ UNCHANGED unsure

\* What a correction replaces and puts in its place is in doubt on every page
\* connected when it is committed.
Commits == (log \ log') \cup (log' \ log)

Corrections ==
  \/ Correct /\ Invalidate
  \/ CommitCorrection /\ Doubts(Group, Commits) /\ UNCHANGED <<page, drops, told>>
  \/ DeleteSelected /\ Doubts(Group, Commits) /\ UNCHANGED <<page, drops, told>>
  \/ TellDeleted /\ Invalidate

Writes == \E p \in Checks : Ask(p) \/ Stamp(p) \/ Save(p)

Next ==
  \/ (Tick \/ Writes) /\ UNCHANGED pageVars
  \/ \E p \in Checks : Tell(p)
  \/ Corrections
  \/ \E g \in Pages : (PageStep(g) \/ Drop(g)) /\ UNCHANGED checkInVars

Spec == Init /\ [][Next]_vars

\* Requests and pages keep running, and a correction begun is finished; a
\* connection may last for ever.
FairSpec ==
  /\ Spec
  /\ \A p \in Checks :
       WF_vars(((Stamp(p) \/ Save(p)) /\ UNCHANGED pageVars) \/ Tell(p))
  /\ WF_vars((CommitCorrection \/ TellDeleted) /\ Corrections)
  /\ \A g \in Pages : WF_vars(PageStep(g) /\ UNCHANGED checkInVars)

-----------------------------------------------------------------------------
Settled(g) == page[g].at = "live" /\ page[g].inbox = <<>>

\* No write is still to be announced or committed.
Quiet == fix = Idle /\ \A p \in Checks : check[p].at # "saved"

WrongOn(g) ==
  LET present == PresentAttendees(log, now)
  IN  (page[g].rows \ present) \cup (present \ page[g].rows)

\* A page that has received everything shows who the log says is present, but
\* for attendees whose update was lost or whose row was corrected under it:
\* snapshots, deltas and reloads may come in any order and late.
SettledPagesAgree ==
  Quiet => \A g \in Pages : Settled(g) => WrongOn(g) \subseteq unsure[g]

\* "Reloading it is the only answer that also repairs the feed": a page that a
\* correction made reload, and that has missed nothing since, is right.
ReloadRepairs ==
  Quiet => \A g \in Pages : Settled(g) /\ told[g] = "told" => WrongOn(g) = {}

\* Every page is connected and has caught up in the end, whatever broke.
PagesSettle == \A g \in Pages : <>[](Settled(g) /\ WrongOn(g) \subseteq unsure[g])
=============================================================================
