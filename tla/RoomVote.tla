------------------------------ MODULE RoomVote ------------------------------
(***************************************************************************)
(* One poll of src/polls, voted on while members check in to and out of    *)
(* the meeting it is attached to (src/attendance, module CheckIn).         *)
(*                                                                         *)
(* A vote is checked in a fixed order by _validate_vote, each check its    *)
(* own query outside any transaction, and then counted in a transaction:   *)
(* one UPDATE raises the counters of the picked choices and locks their    *)
(* rows, then voters.add looks for the member's Vote row and inserts one   *)
(* if there is none.  No constraint makes that row unique.  The admin page *)
(* reads the choices, with their counters, and writes back whole the ones  *)
(* that were reworded.  PostgreSQL, READ COMMITTED.                        *)
(*                                                                         *)
(* Left out: choices added or removed, the deletion of Vote rows by a      *)
(* superuser, a change of who may vote, and two editors on one page.  The  *)
(* rows an UPDATE locks are taken at once.                                 *)
(***************************************************************************)
EXTENDS CheckIn

CONSTANTS
  Ballots,  \* vote requests
  Members,  \* those who can sign in; a visitor is None
  Voters,   \* the members a poll for ordinary or voting members is for
  Answers,  \* the rows of Choice
  Polls,    \* the polls there can be at the start
  MaxEdits  \* bound: the times the admin page is saved

\* required: required_multiple_choices, 0 when it is not set.
Questions ==
  [options : {"anyone", "members", "voters"}, multiple : BOOLEAN, required : Nat,
   attached : BOOLEAN, ended : BOOLEAN]

ASSUME RoomVoteAssumption ==
  /\ Members \subseteq Attendees /\ Voters \subseteq Members
  /\ MaxEdits \in Nat
  /\ Polls \subseteq Questions
  /\ IsFiniteSet(Ballots)

VARIABLES
  poll,     \* the Question row, attached: an AttendancePoll row points at it
  tally,    \* Choice.votes
  voted,    \* per member: how many Vote rows
  ballot,   \* per request: its step, voter, choices; fresh: add found no row
  page,     \* the counters the admin page read, while it is open
  edits,    \* the times the page was saved
  reworded, \* choices the page has written back (history)
  earlier,  \* per request: the ballots counted when it began (history)
  roomMet   \* per request: since it began, the poll was open to all or the
            \* member in the room, at some moment (history)

pollVars == <<poll, tally, voted, ballot, page, edits, reworded, earlier>>
vars     == <<checkInVars, pollVars, roomMet>>

Blank  == [at |-> "new", who |-> None, picks |-> {}, fresh |-> FALSE]

Init ==
  /\ InitCheckIn
  /\ poll \in Polls
  /\ tally = [c \in Answers |-> 0]
  /\ voted = [m \in Members |-> 0]
  /\ ballot = [v \in Ballots |-> Blank]
  /\ page = None /\ edits = 0 /\ reworded = {}
  /\ earlier = [v \in Ballots |-> {}]
  /\ roomMet = [v \in Ballots |-> FALSE]

Counted == {v \in Ballots : ballot[v].at = "counted"}

\* single_choice_multiple_selected, required_multiple_choices_matches_selected.
WellFormed(picks) ==
  /\ picks # {}
  /\ poll.multiple \/ Cardinality(picks) = 1
  /\ poll.required > 0 => Cardinality(picks) = poll.required

\* is_user_authorized_to_vote.
Authorized(m) ==
  \/ poll.options = "anyone"
  \/ poll.options = "members" /\ m \in Members
  \/ poll.options = "voters" /\ m \in Voters

\* Mutant: the poll is asked whether it knows the voter only on paper.
AlreadyVotedNever(m) == FALSE

AlreadyVoted(m) == poll.options # "anyone" /\ m \in Members /\ voted[m] > 0

\* Mutant: was_attendee_present, whoever has been there counts.
EverInRoom(m) == poll.attached => m \in Members /\ m \in Arrivals(log)

\* voter_is_present: an attached poll asks for a signed-in member in the room.
InRoom(m) == poll.attached => m \in Members /\ IsAttendeePresent(log, m, now)

\* The question is loaded and the submission checked against it.
LoadPoll(v) ==
  /\ ballot[v].at = "new"
  /\ \E m \in Members \cup {None}, picks \in SUBSET Answers :
       ballot' = [ballot EXCEPT ![v] =
         IF ~poll.ended /\ WellFormed(picks) /\ Authorized(m)
         THEN [at |-> "loaded", who |-> m, picks |-> picks, fresh |-> FALSE]
         ELSE [Blank EXCEPT !.at = "refused"]]
  /\ earlier' = [earlier EXCEPT ![v] = Counted]
  /\ UNCHANGED <<poll, tally, voted, page, edits, reworded>>

Check(v, from, to, ok) ==
  /\ ballot[v].at = from
  /\ ballot' = [ballot EXCEPT ![v] =
       IF ok THEN [ballot[v] EXCEPT !.at = to] ELSE [Blank EXCEPT !.at = "refused"]]
  /\ UNCHANGED <<poll, tally, voted, page, edits, reworded, earlier>>

\* user_has_voted.
ReadVoted(v) == Check(v, "loaded", "eligible", ~AlreadyVoted(ballot[v].who))

\* voter_is_present, deliberately last.
ReadRoom(v) == Check(v, "eligible", "admitted", InRoom(ballot[v].who))

\* Mutant: the counters are raised last, so nothing is locked yet.
LockedNever(c) == FALSE

Locked(c) == \E v \in Ballots : ballot[v].at = "counting" /\ c \in ballot[v].picks

\* handle_selected_choices: the UPDATE waits for the choices and locks them;
\* then voters.add looks for the member's row.
Count(v) ==
  /\ ballot[v].at = "admitted"
  /\ \A c \in ballot[v].picks : ~Locked(c)
  /\ ballot' = [ballot EXCEPT ![v].at = "counting",
                  ![v].fresh = ballot[v].who \in Members /\ voted[ballot[v].who] = 0]
  /\ UNCHANGED <<poll, tally, voted, page, edits, reworded, earlier>>

\* The missing row is inserted and the transaction commits.
Commit(v) ==
  /\ ballot[v].at = "counting"
  /\ tally' = [c \in Answers |-> IF c \in ballot[v].picks THEN tally[c] + 1 ELSE tally[c]]
  /\ voted' = [m \in Members |-> IF ballot[v].fresh /\ ballot[v].who = m
                                 THEN voted[m] + 1 ELSE voted[m]]
  /\ ballot' = [ballot EXCEPT ![v].at = "counted"]
  /\ UNCHANGED <<poll, page, edits, reworded, earlier>>

\* The admin page is submitted: ChoiceInline reads its rows.
OpenPage ==
  /\ page = None /\ edits < MaxEdits
  /\ page' = tally
  /\ edits' = edits + 1
  /\ UNCHANGED <<poll, tally, voted, ballot, reworded, earlier>>

\* Mutant: the choices that were not reworded are deleted.
WrittenBackOnly(words) == [c \in words |-> page[c]]

\* Mutant: every choice of the page is saved, reworded or not.
WrittenBackAll(words) == page

\* What a reworded choice is saved with: every field, votes too, as read.
WrittenBack(words) == [c \in Answers |-> IF c \in words THEN page[c] ELSE tally[c]]

\* The poll and its choices are saved and committed; the UPDATE of a reworded
\* choice waits for the ballots that hold it.
SavePage ==
  /\ page # None
  /\ \E attached, ended \in BOOLEAN, words \in SUBSET Answers :
       /\ \A c \in words : ~Locked(c)
       /\ poll' = [poll EXCEPT !.attached = attached, !.ended = ended]
       /\ tally' = WrittenBack(words)
       /\ reworded' = reworded \cup words
  /\ page' = None
  /\ UNCHANGED <<voted, ballot, edits, earlier>>

VoteStep(v) == LoadPoll(v) \/ ReadVoted(v) \/ ReadRoom(v) \/ Count(v) \/ Commit(v)

PollNext == (\E v \in Ballots : VoteStep(v)) \/ OpenPage \/ SavePage

\* In this state the room requirement of a vote still being checked is met, as
\* the overview page lists who is present.
RoomMet(v) ==
  /\ ballot[v].at \in {"loaded", "eligible"}
  /\ poll.attached => ballot[v].who \in Members \cap PresentAttendees(log, now)

Watch == roomMet' = [v \in Ballots |-> roomMet[v] \/ RoomMet(v)']

Next ==
  \/ CheckInNext /\ UNCHANGED pollVars /\ Watch
  \/ PollNext /\ UNCHANGED checkInVars /\ Watch

Spec == Init /\ [][Next]_vars

-----------------------------------------------------------------------------
Requested ==
  [at : {"new", "refused", "loaded", "eligible", "admitted", "counting", "counted"},
   who : Members \cup {None}, picks : SUBSET Answers, fresh : BOOLEAN]

TypeOK ==
  /\ CheckInTypeOK
  /\ poll \in Questions
  /\ tally \in [Answers -> Nat] /\ voted \in [Members -> Nat]
  /\ ballot \in [Ballots -> Requested]
  /\ page \in [Answers -> Nat] \cup {None}
  /\ edits \in 0..MaxEdits /\ reworded \subseteq Answers
  /\ earlier \in [Ballots -> SUBSET Ballots]
  /\ roomMet \in [Ballots -> BOOLEAN]

\* A ballot counts only if, between its submission and its last check, the
\* poll was free of a meeting or its member on the list of those present: the
\* vote (is_attendee_present) and the meeting's pages (present_attendees) agree
\* on the room, and whoever left before voting cannot vote.
CountedInRoom == \A v \in Counted : roomMet[v]

Two(v, w) ==
  /\ v # w /\ {v, w} \subseteq Counted
  /\ ballot[v].who = ballot[w].who /\ ballot[v].who \in Members

\* A member's second ballot counts only if it was under way before the first
\* was counted: user_has_voted stops every later one.
SecondVoteOnlyByOverlap ==
  poll.options # "anyone" =>
    \A v, w \in Ballots : Two(v, w) => v \notin earlier[w]

For(c) == Cardinality({v \in Counted : c \in ballot[v].picks})

\* A choice's counter is the number of ballots for it; one the admin page
\* wrote back may have lost some, never gained.
TallyIsBallots ==
  \A c \in Answers : tally[c] <= For(c) /\ (c \notin reworded => tally[c] = For(c))

\* The list of voters: nobody counted is missing, and a member is on it twice
\* only after two ballots without a common choice, which no row lock orders.
VoterListExact ==
  /\ \A v \in Counted : ballot[v].who \in Members => voted[ballot[v].who] > 0
  /\ \A m \in Members : voted[m] > 1 =>
       \E v, w \in Ballots :
         Two(v, w) /\ ballot[v].who = m /\ ballot[v].picks \cap ballot[w].picks = {}

\* How far a request has come.
Past(v, steps) == ballot[v].at \in steps

RoomInv ==
  \A v \in Ballots : RoomMet(v) \/ Past(v, {"admitted", "counting", "counted"}) => roomMet[v]

\* The ballots a request began after are counted for ever; once it has passed
\* user_has_voted none of them is its own member's.
EarlierInv ==
  \A w \in Ballots :
    /\ earlier[w] \subseteq Counted
    /\ poll.options # "anyone" /\ Past(w, {"eligible", "admitted", "counting", "counted"}) =>
         \A v \in earlier[w] : ballot[v].who \in Members => ballot[v].who # ballot[w].who

\* The Vote rows are those of the ballots that inserted one: two such ballots
\* of one member cannot both have waited for the same choice.
FreshInv ==
  \A v \in Ballots :
    ballot[v].fresh => ballot[v].who \in Members /\ Past(v, {"counting", "counted"})

ListedInv ==
  \A v \in Ballots :
    Past(v, {"counted"}) \/ (Past(v, {"counting"}) /\ ~ballot[v].fresh)
      => (ballot[v].who \in Members => voted[ballot[v].who] > 0)

DisjointInv ==
  \A v, w \in Ballots :
    v # w /\ ballot[v].fresh /\ ballot[w].fresh /\ ballot[v].who = ballot[w].who
      => ballot[v].picks \cap ballot[w].picks = {}

Inserted(v, m) == Past(v, {"counted"}) /\ ballot[v].fresh /\ ballot[v].who = m

RowsInv ==
  \A m \in Members :
    /\ voted[m] > 0 => \E v \in Ballots : Inserted(v, m)
    /\ voted[m] > 1 => \E v, w \in Ballots : v # w /\ Inserted(v, m) /\ Inserted(w, m)

ListInv == FreshInv /\ ListedInv /\ DisjointInv /\ RowsInv

TallyInv ==
  /\ TallyIsBallots
  /\ page # None => \A c \in Answers : page[c] <= For(c)

VoteInv ==
  /\ LogInv /\ MeetingInv /\ TypeOK
  /\ RoomInv /\ EarlierInv /\ ListInv /\ TallyInv
=============================================================================
