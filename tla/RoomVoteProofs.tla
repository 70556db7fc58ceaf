--------------------------- MODULE RoomVoteProofs ---------------------------
(***************************************************************************)
(* For any number of votes, check-ins, members and choices, any poll and   *)
(* any number of saves of its page: who has left the room is not counted,  *)
(* a second vote of a member needs two overlapping requests, the counters  *)
(* are the ballots, and the list of voters misses nobody.                  *)
(***************************************************************************)
EXTENDS RoomVote, CheckInProofs, FiniteSetTheorems

USE RoomVoteAssumption

LEMMA VoteInit == Init => VoteInv
<1> SUFFICES ASSUME Init PROVE VoteInv
  OBVIOUS
<1> USE DEF Init
<1>1. LogInv /\ MeetingInv
  BY InitLog
<1>2. TypeOK
  BY <1>1 DEF LogInv, TypeOK, Blank, Requested
<1>3. Counted = {} /\ \A v \in Ballots : ballot[v] = Blank
  BY DEF Counted, Blank
<1>4. RoomInv /\ EarlierInv /\ ListInv
  <2>1. RoomInv
    BY <1>3 DEF RoomInv, RoomMet, Past, Blank
  <2>2. EarlierInv
    BY <1>3 DEF EarlierInv, Past, Blank
  <2>3. ListInv
    BY <1>3 DEF ListInv, FreshInv, ListedInv, DisjointInv, RowsInv, Past, Blank
  <2> QED
    BY <2>1, <2>2, <2>3
<1>5. \A c \in Answers : For(c) = 0
  BY <1>3, FS_EmptySet DEF For
<1>6. TallyInv
  BY <1>5 DEF TallyInv, TallyIsBallots
<1> QED
  BY <1>1, <1>2, <1>4, <1>6 DEF VoteInv

LEMMA CountingRequested ==
  ASSUME NEW b \in Requested, NEW f \in BOOLEAN
  PROVE  [b EXCEPT !.at = "counting", !.fresh = f] \in Requested
BY DEF Requested

\* What a step of a vote does to the requests: one goes on, the rest stay.
LEMMA VoteMoves ==
  ASSUME TypeOK, NEW v \in Ballots, VoteStep(v)
  PROVE  /\ \A w \in Ballots : w # v => ballot'[w] = ballot[w]
         /\ ballot' \in [Ballots -> Requested]
         /\ ballot[v].at # "counted"
         /\ ballot'[v].at # "refused" /\ ballot[v].at # "new" =>
              /\ ballot'[v].who = ballot[v].who /\ ballot'[v].picks = ballot[v].picks
<1> USE DEF TypeOK
<1>1. CASE LoadPoll(v)
  <2>1. ballot[v].at = "new" /\ \E b \in Requested : ballot' = [ballot EXCEPT ![v] = b]
    <3>1. PICK m \in Members \cup {None}, picks \in SUBSET Answers :
            ballot' = [ballot EXCEPT ![v] =
              IF ~poll.ended /\ WellFormed(picks) /\ Authorized(m)
              THEN [at |-> "loaded", who |-> m, picks |-> picks, fresh |-> FALSE]
              ELSE [Blank EXCEPT !.at = "refused"]]
      BY <1>1 DEF LoadPoll
    <3>2. [at |-> "loaded", who |-> m, picks |-> picks, fresh |-> FALSE] \in Requested
      BY DEF Requested
    <3>3. [Blank EXCEPT !.at = "refused"] \in Requested
      BY DEF Requested, Blank
    <3> QED
      BY <1>1, <3>1, <3>2, <3>3 DEF LoadPoll
  <2> QED
    BY <2>1
<1>2. ASSUME NEW from \in {"loaded", "eligible"}, NEW to \in {"eligible", "admitted"},
             NEW ok, Check(v, from, to, ok)
      PROVE  /\ \A w \in Ballots : w # v => ballot'[w] = ballot[w]
             /\ ballot' \in [Ballots -> Requested]
             /\ ballot[v].at # "counted"
             /\ ballot'[v].at # "refused" =>
                  /\ ballot'[v].who = ballot[v].who /\ ballot'[v].picks = ballot[v].picks
  <2>1. ballot[v] \in Requested /\ ballot[v].at = from
    BY <1>2 DEF Check
  <2>2. PICK b \in {[ballot[v] EXCEPT !.at = to], [Blank EXCEPT !.at = "refused"]} :
          ballot' = [ballot EXCEPT ![v] = b]
    BY <1>2 DEF Check
  <2>3. /\ b \in Requested
        /\ b.at # "refused" => b.who = ballot[v].who /\ b.picks = ballot[v].picks
    BY <2>1, <2>2 DEF Requested, Blank
  <2> QED
    BY <2>1, <2>2, <2>3
<1>3. CASE ReadVoted(v)
  BY <1>2, <1>3 DEF ReadVoted
<1>4. CASE ReadRoom(v)
  BY <1>2, <1>4 DEF ReadRoom
<1>5. CASE Count(v)
  <2>1. PICK f \in BOOLEAN : ballot' = [ballot EXCEPT ![v].at = "counting", ![v].fresh = f]
    BY <1>5 DEF Count
  <2>2. ballot[v].at = "admitted" /\ ballot[v] \in Requested
    BY <1>5 DEF Count
  <2>3. [ballot[v] EXCEPT !.at = "counting", !.fresh = f] \in Requested
    BY <2>2, CountingRequested
  <2>4. ballot' = [ballot EXCEPT ![v] = [ballot[v] EXCEPT !.at = "counting", !.fresh = f]]
    BY <2>1
  <2>5. ballot'[v].who = ballot[v].who /\ ballot'[v].picks = ballot[v].picks
    BY <2>2, <2>4 DEF Requested
  <2> QED
    BY <2>2, <2>3, <2>4, <2>5
<1>6. CASE Commit(v)
  BY <1>6 DEF Commit, Requested
<1> QED
  BY <1>1, <1>3, <1>4, <1>5, <1>6 DEF VoteStep

LEMMA TypeStep == VoteInv /\ Next => TypeOK'
<1> SUFFICES ASSUME VoteInv, Next PROVE TypeOK'
  OBVIOUS
<1>1. TypeOK /\ LogInv
  BY DEF VoteInv
<1> USE DEF TypeOK
<1>2. roomMet' \in [Ballots -> BOOLEAN]
  BY <1>1 DEF Next, Watch, RoomMet, InRoom
<1>3. CASE CheckInNext /\ UNCHANGED pollVars
  BY <1>1, <1>2, <1>3, LogStep DEF pollVars, LogInv
<1>4. CASE PollNext /\ UNCHANGED checkInVars
  <2>1. CheckInTypeOK'
    BY <1>1, <1>4 DEF CheckInTypeOK, checkInVars
  <2>2. ASSUME NEW v \in Ballots, VoteStep(v)
        PROVE  /\ ballot' \in [Ballots -> Requested] /\ UNCHANGED <<poll, page, edits, reworded>>
               /\ earlier' \in [Ballots -> SUBSET Ballots]
               /\ tally' \in [Answers -> Nat] /\ voted' \in [Members -> Nat]
    <3>1. ballot' \in [Ballots -> Requested]
      BY <1>1, <2>2, VoteMoves
    <3>2. CASE LoadPoll(v)
      BY <1>1, <3>1, <3>2 DEF LoadPoll, Counted
    <3>3. CASE ReadVoted(v) \/ ReadRoom(v)
      BY <1>1, <3>1, <3>3 DEF ReadVoted, ReadRoom, Check
    <3>4. CASE Count(v)
      BY <1>1, <3>1, <3>4 DEF Count
    <3>5. CASE Commit(v)
      BY <1>1, <3>1, <3>5 DEF Commit
    <3> QED
      BY <2>2, <3>2, <3>3, <3>4, <3>5 DEF VoteStep
  <2>3. CASE OpenPage
    BY <1>1, <1>2, <2>1, <2>3 DEF OpenPage
  <2>4. CASE SavePage
    <3>1. PICK attached \in BOOLEAN, ended \in BOOLEAN, words \in SUBSET Answers :
            /\ poll' = [poll EXCEPT !.attached = attached, !.ended = ended]
            /\ tally' = WrittenBack(words) /\ reworded' = reworded \cup words
      BY <2>4 DEF SavePage
    <3>2. poll' \in Questions
      BY <1>1, <3>1 DEF Questions
    <3>3. tally' \in [Answers -> Nat]
      BY <1>1, <2>4, <3>1 DEF WrittenBack, SavePage
    <3>4. page' = None /\ UNCHANGED <<voted, ballot, edits, earlier>>
      BY <2>4 DEF SavePage
    <3> QED
      BY <1>1, <1>2, <2>1, <3>1, <3>2, <3>3, <3>4
  <2> QED
    BY <1>1, <1>2, <1>4, <2>1, <2>2, <2>3, <2>4 DEF PollNext
<1> QED
  BY <1>3, <1>4 DEF Next

\* The log's invariants do not depend on the poll.
LEMMA LogKept == VoteInv /\ Next => LogInv' /\ MeetingInv'
<1> SUFFICES ASSUME VoteInv, Next PROVE LogInv' /\ MeetingInv'
  OBVIOUS
<1>1. LogInv /\ MeetingInv
  BY DEF VoteInv
<1>2. CASE CheckInNext
  BY <1>1, <1>2, LogStep, MeetingStep
<1>3. CASE UNCHANGED checkInVars
  BY <1>1, <1>3 DEF LogInv, MeetingInv, CheckInTypeOK, LogOrdered, SawOther, RowAfterSeen,
       Latest, Written, Row, Follows, checkInVars
<1> QED
  BY <1>2, <1>3 DEF Next

LEMMA RoomStep == VoteInv /\ Next => RoomInv'
<1> SUFFICES ASSUME VoteInv, Next, NEW v \in Ballots,
                    Past(v, {"admitted", "counting", "counted"})', ~RoomMet(v)'
             PROVE  roomMet[v]
  BY DEF RoomInv, Next, Watch
<1>1. TypeOK /\ RoomInv /\ LogInv
  BY DEF VoteInv
<1>2. CASE Past(v, {"admitted", "counting", "counted"})
  BY <1>1, <1>2 DEF RoomInv
<1>3. CASE ~Past(v, {"admitted", "counting", "counted"})
  <2>1. ballot'[v] # ballot[v]
    BY <1>3 DEF Past
  <2>2. VoteStep(v)
    <3>1. PollNext
      BY <2>1 DEF Next, pollVars
    <3>2. PICK w \in Ballots : VoteStep(w)
      BY <2>1, <3>1 DEF PollNext, OpenPage, SavePage
    <3>3. w = v
      BY <1>1, <2>1, <3>2, VoteMoves
    <3> QED
      BY <3>2, <3>3
  <2>3. ReadRoom(v)
    <3>1. ~LoadPoll(v)
      BY <1>1 DEF LoadPoll, Past, Blank, TypeOK
    <3>2. ~ReadVoted(v)
      BY <1>1 DEF ReadVoted, Check, Past, Blank, TypeOK, Requested
    <3>3. ~Count(v) /\ ~Commit(v)
      BY <1>3 DEF Count, Commit, Past
    <3> QED
      BY <2>2, <3>1, <3>2, <3>3 DEF VoteStep
  <2>4. ballot[v].at = "eligible" /\ InRoom(ballot[v].who)
    BY <1>1, <2>3 DEF ReadRoom, Check, Past, Blank, TypeOK
  <2>5. RoomMet(v)
    BY <1>1, <2>4, PresentIsListed DEF InRoom, RoomMet, LogInv, CheckInTypeOK
  <2> QED
    BY <1>1, <2>5 DEF RoomInv
<1> QED
  BY <1>2, <1>3

\* Whoever is counted stays counted.
LEMMA CountedStays ==
  ASSUME TypeOK, Next
  PROVE  /\ Counted \subseteq Counted'
         /\ \A v \in Counted : ballot'[v] = ballot[v]
<1>1. ASSUME NEW v \in Counted PROVE ballot'[v] = ballot[v]
  <2>1. CASE UNCHANGED ballot
    BY <2>1
  <2>2. ASSUME NEW w \in Ballots, VoteStep(w) PROVE ballot'[v] = ballot[v]
    BY <2>2, VoteMoves DEF Counted
  <2> QED
    BY <2>1, <2>2 DEF Next, PollNext, pollVars, OpenPage, SavePage
<1> QED
  BY <1>1 DEF Counted

LEMMA OptionsStay == ASSUME TypeOK, Next PROVE poll'.options = poll.options
<1>1. CASE SavePage
  BY <1>1 DEF SavePage, TypeOK, Questions
<1>2. CASE UNCHANGED poll
  BY <1>2
<1>3. ASSUME NEW v \in Ballots, VoteStep(v) PROVE UNCHANGED poll
  BY <1>3 DEF VoteStep, LoadPoll, ReadVoted, ReadRoom, Check, Count, Commit
<1> QED
  BY <1>1, <1>2, <1>3 DEF Next, PollNext, pollVars, OpenPage

LEMMA EarlierStep == VoteInv /\ Next => EarlierInv'
<1> SUFFICES ASSUME VoteInv, Next, NEW w \in Ballots
             PROVE  /\ earlier'[w] \subseteq Counted'
                    /\ poll'.options # "anyone"
                       /\ Past(w, {"eligible", "admitted", "counting", "counted"})' =>
                         \A v \in earlier'[w] :
                           ballot'[v].who \in Members => ballot'[v].who # ballot'[w].who
  BY DEF EarlierInv
<1>1. TypeOK /\ EarlierInv /\ ListInv
  BY DEF VoteInv
<1>2. Counted \subseteq Counted' /\ \A v \in Counted : ballot'[v] = ballot[v]
  BY <1>1, CountedStays
<1>3. poll'.options = poll.options
  BY <1>1, OptionsStay
<1>4. CASE ballot'[w] = ballot[w] /\ earlier'[w] = earlier[w]
  BY <1>1, <1>2, <1>3, <1>4 DEF EarlierInv, Past
<1>5. ASSUME VoteStep(w)
      PROVE  /\ earlier'[w] \subseteq Counted'
             /\ poll'.options # "anyone"
                /\ Past(w, {"eligible", "admitted", "counting", "counted"})' =>
                  \A v \in earlier'[w] :
                    ballot'[v].who \in Members => ballot'[v].who # ballot'[w].who
  <2>1. CASE LoadPoll(w)
    <3>1. earlier'[w] = Counted
      BY <1>1, <2>1 DEF LoadPoll, TypeOK
    <3>2. ballot'[w].at \in {"loaded", "refused"}
      BY <1>1, <2>1 DEF LoadPoll, TypeOK, Blank
    <3> QED
      BY <1>2, <3>1, <3>2 DEF Past
  <2>2. ASSUME ~LoadPoll(w) PROVE earlier'[w] = earlier[w] /\ ballot[w].at # "new"
    BY <1>5, <2>2 DEF VoteStep, ReadVoted, ReadRoom, Check, Count, Commit
  <2>3. CASE ReadVoted(w)
    <3>2. ballot'[w].at = "eligible" => ~AlreadyVoted(ballot[w].who)
      BY <1>1, <2>3 DEF ReadVoted, Check, TypeOK, Requested, Blank
    <3>3. ballot'[w].at # "refused" => ballot'[w].who = ballot[w].who
      BY <1>1, <1>5, <2>3, VoteMoves DEF ReadVoted, Check
    <3>4. earlier'[w] = earlier[w] /\ earlier[w] \subseteq Counted
      BY <1>1, <2>3 DEF ReadVoted, Check, EarlierInv
    <3>5. \A v \in Counted : ballot[v].who \in Members => voted[ballot[v].who] > 0
      <4>1. ListedInv
        BY <1>1 DEF ListInv
      <4>2. \A v \in Counted : v \in Ballots /\ Past(v, {"counted"})
        BY DEF Counted, Past
      <4> QED
        BY <4>1, <4>2 DEF ListedInv
    <3>6. earlier'[w] \subseteq Counted'
      BY <1>2, <3>4
    <3>7. ASSUME poll'.options # "anyone",
                 Past(w, {"eligible", "admitted", "counting", "counted"})',
                 NEW v \in earlier'[w], ballot'[v].who \in Members
          PROVE  ballot'[v].who # ballot'[w].who
      <4>1. ballot'[w].at = "eligible" /\ ballot'[w].who = ballot[w].who
        BY <1>1, <2>3, <3>3, <3>7 DEF ReadVoted, Check, TypeOK, Requested, Blank, Past
      <4>2. v \in Counted /\ ballot'[v] = ballot[v] /\ voted[ballot[v].who] > 0
        BY <1>2, <3>4, <3>5, <3>7
      <4> QED
        BY <1>3, <3>2, <3>7, <4>1, <4>2 DEF AlreadyVoted
    <3> QED
      BY <3>6, <3>7
  <2>4. CASE ReadRoom(w) \/ Count(w) \/ Commit(w)
    <3>1. Past(w, {"eligible", "admitted", "counting", "counted"}) /\ ~LoadPoll(w)
      BY <2>4 DEF ReadRoom, Check, Count, Commit, Past, LoadPoll
    <3>2. ballot'[w].at # "refused" => ballot'[w].who = ballot[w].who
      BY <1>1, <1>5, <3>1, VoteMoves DEF Past
    <3>3. earlier'[w] = earlier[w]
      BY <2>2, <3>1
    <3> QED
      BY <1>1, <1>2, <1>3, <3>1, <3>2, <3>3 DEF EarlierInv, Past
  <2> QED
    BY <1>5, <2>1, <2>3, <2>4 DEF VoteStep
<1>6. ASSUME NEW v \in Ballots, v # w, VoteStep(v) PROVE ballot'[w] = ballot[w] /\ earlier'[w] = earlier[w]
  <2>1. ballot'[w] = ballot[w]
    BY <1>1, <1>6, VoteMoves
  <2> QED
    BY <1>1, <1>6, <2>1 DEF VoteStep, LoadPoll, ReadVoted, ReadRoom, Check, Count, Commit, TypeOK
<1> QED
  BY <1>4, <1>5, <1>6 DEF Next, PollNext, pollVars, OpenPage, SavePage

LEMMA ListStep == VoteInv /\ Next => ListInv'
<1> SUFFICES ASSUME VoteInv, Next PROVE ListInv'
  OBVIOUS
<1>1. TypeOK /\ FreshInv /\ ListedInv /\ DisjointInv /\ RowsInv
  BY DEF VoteInv, ListInv
<1> USE DEF TypeOK
<1>2. CASE UNCHANGED <<ballot, voted>>
  BY <1>1, <1>2 DEF ListInv, FreshInv, ListedInv, DisjointInv, RowsInv, Inserted, Past
<1>3. ASSUME NEW v \in Ballots, VoteStep(v), ~Count(v), ~Commit(v) PROVE ListInv'
  <2>1. voted' = voted
    BY <1>3 DEF VoteStep, LoadPoll, ReadVoted, ReadRoom, Check
  <2>2. \A w \in Ballots : w # v => ballot'[w] = ballot[w]
    BY <1>1, <1>3, VoteMoves
  <2>3. ballot[v].at \notin {"counting", "counted"}
    BY <1>3 DEF VoteStep, LoadPoll, ReadVoted, ReadRoom, Check
  <2>4. ~ballot[v].fresh
    BY <1>1, <2>3 DEF FreshInv, Past
  <2>5. ~ballot'[v].fresh /\ ballot'[v].at \notin {"counting", "counted"}
    <3>1. CASE LoadPoll(v)
      BY <1>1, <3>1 DEF LoadPoll, Blank
    <3>2. CASE ReadVoted(v) \/ ReadRoom(v)
      BY <1>1, <2>4, <3>2 DEF ReadVoted, ReadRoom, Check, Blank, Requested
    <3> QED
      BY <1>3, <3>1, <3>2 DEF VoteStep
  <2>6. FreshInv'
    BY <1>1, <2>2, <2>5 DEF FreshInv, Past
  <2>7. ListedInv'
    BY <1>1, <2>1, <2>2, <2>5 DEF ListedInv, Past
  <2>8. DisjointInv'
    BY <1>1, <2>2, <2>5 DEF DisjointInv
  <2>9. \A w \in Ballots, m \in Members : Inserted(w, m) => Inserted(w, m)'
    BY <2>2, <2>3 DEF Inserted, Past
  <2>10. RowsInv'
    BY <1>1, <2>1, <2>9 DEF RowsInv
  <2> QED
    BY <2>6, <2>7, <2>8, <2>10 DEF ListInv
<1>4. ASSUME NEW v \in Ballots, Count(v) PROVE ListInv'
  <2> DEFINE m == ballot[v].who
  <2>1. /\ voted' = voted /\ ballot[v].at = "admitted"
        /\ \A c \in ballot[v].picks : ~Locked(c)
        /\ ballot' = [ballot EXCEPT ![v].at = "counting",
                                    ![v].fresh = m \in Members /\ voted[m] = 0]
    BY <1>4 DEF Count
  <2>2. /\ ballot'[v].at = "counting" /\ ballot'[v].who = m
        /\ ballot'[v].picks = ballot[v].picks
        /\ ballot'[v].fresh <=> m \in Members /\ voted[m] = 0
    BY <1>1, <2>1 DEF Requested
  <2>3. \A w \in Ballots : w # v => ballot'[w] = ballot[w]
    BY <1>1, <2>1
  <2>4. FreshInv'
    BY <1>1, <2>2, <2>3 DEF FreshInv, Past
  <2>5. ListedInv'
    BY <1>1, <2>1, <2>2, <2>3 DEF ListedInv, Past
  <2>6. ASSUME NEW w \in Ballots, w # v, ballot[w].fresh, ballot'[v].fresh, ballot[w].who = m
        PROVE  ballot[w].picks \cap ballot[v].picks = {}
    <3>1. voted[m] = 0 /\ m \in Members
      BY <2>2, <2>6
    <3>2. ~Past(w, {"counted"})
      BY <1>1, <2>6, <3>1 DEF ListedInv
    <3>3. Past(w, {"counting", "counted"})
      BY <1>1, <2>6 DEF FreshInv
    <3>4. ballot[w].at = "counting"
      BY <3>2, <3>3 DEF Past
    <3> QED
      BY <2>1, <3>4 DEF Locked
  <2>7. DisjointInv'
    BY <1>1, <2>2, <2>3, <2>6 DEF DisjointInv
  <2>8. \A w \in Ballots, n \in Members : Inserted(w, n) => Inserted(w, n)'
    BY <2>1, <2>3 DEF Inserted, Past
  <2>9. RowsInv'
    BY <1>1, <2>1, <2>8 DEF RowsInv
  <2> QED
    BY <2>4, <2>5, <2>7, <2>9 DEF ListInv
<1>5. ASSUME NEW v \in Ballots, Commit(v) PROVE ListInv'
  <2> DEFINE m == ballot[v].who
  <2>1. /\ ballot[v].at = "counting" /\ ballot' = [ballot EXCEPT ![v].at = "counted"]
        /\ voted' = [n \in Members |-> IF ballot[v].fresh /\ m = n
                                       THEN voted[n] + 1 ELSE voted[n]]
    BY <1>5 DEF Commit
  <2>2. /\ ballot'[v].at = "counted" /\ ballot'[v].who = m
        /\ ballot'[v].picks = ballot[v].picks /\ ballot'[v].fresh = ballot[v].fresh
    BY <1>1, <2>1 DEF Requested
  <2>3. \A w \in Ballots : w # v => ballot'[w] = ballot[w]
    BY <1>1, <2>1
  <2>4. \A n \in Members : voted'[n] \in Nat /\ voted[n] \in Nat /\ voted'[n] >= voted[n]
    BY <1>1, <2>1
  <2>5. m \in Members => voted'[m] > 0
    BY <1>1, <2>1 DEF ListedInv, Past
  <2>6. FreshInv'
    BY <1>1, <2>2, <2>3 DEF FreshInv, Past
  <2>7. ListedInv'
    BY <1>1, <2>2, <2>3, <2>4, <2>5 DEF ListedInv, Past
  <2>8. DisjointInv'
    BY <1>1, <2>2, <2>3 DEF DisjointInv
  <2>9. \A w \in Ballots, n \in Members : Inserted(w, n) => Inserted(w, n)' /\ w # v
    BY <2>1, <2>3 DEF Inserted, Past
  <2>10. ASSUME NEW n \in Members
        PROVE  /\ voted'[n] > 0 => \E w \in Ballots : Inserted(w, n)'
               /\ voted'[n] > 1 => \E x, w \in Ballots :
                    x # w /\ Inserted(x, n)' /\ Inserted(w, n)'
    <3>1. CASE ~(ballot[v].fresh /\ m = n)
      <4>1. voted'[n] = voted[n]
        BY <2>1, <3>1
      <4> QED
        BY <1>1, <2>9, <4>1 DEF RowsInv
    <3>2. CASE ballot[v].fresh /\ m = n
      <4>1. Inserted(v, n)'
        BY <2>2, <3>2 DEF Inserted, Past
      <4>2. voted'[n] > 1 => voted[n] > 0
        BY <1>1, <2>1, <3>2
      <4>3. voted[n] > 0 => \E w \in Ballots : Inserted(w, n)
        BY <1>1 DEF RowsInv
      <4> QED
        BY <2>9, <4>1, <4>2, <4>3
    <3> QED
      BY <3>1, <3>2
  <2>11. RowsInv'
    BY <2>10 DEF RowsInv
  <2> QED
    BY <2>6, <2>7, <2>8, <2>11 DEF ListInv
<1> QED
  BY <1>2, <1>3, <1>4, <1>5 DEF Next, PollNext, pollVars, OpenPage, SavePage

\* The ballots for a choice, counted: a commit adds its own to those it picked.
LEMMA ForType ==
  ASSUME NEW c \in Answers
  PROVE  /\ For(c) \in Nat
         /\ IsFiniteSet({v \in Counted : c \in ballot[v].picks})
<1>1. IsFiniteSet({v \in Counted : c \in ballot[v].picks})
  BY FS_Subset DEF Counted
<1> QED
  BY <1>1, FS_CardinalityType DEF For

LEMMA ForKept ==
  ASSUME \A v \in Ballots : /\ (ballot'[v].at = "counted") <=> (ballot[v].at = "counted")
                            /\ ballot[v].at = "counted" => ballot'[v] = ballot[v],
         NEW c \in Answers
  PROVE  For(c)' = For(c)
<1>1. {v \in Counted : c \in ballot[v].picks}' = {v \in Counted : c \in ballot[v].picks}
  BY DEF Counted
<1> QED
  BY <1>1 DEF For

LEMMA TallyStep == VoteInv /\ Next => TallyInv'
<1> SUFFICES ASSUME VoteInv, Next PROVE TallyInv'
  OBVIOUS
<1>1. TypeOK /\ TallyInv
  BY DEF VoteInv
<1> USE DEF TypeOK
<1>2. CASE UNCHANGED <<ballot, tally, page, reworded>>
  <2>1. \A c \in Answers : For(c)' = For(c)
    BY <1>2, ForKept
  <2> QED
    BY <1>1, <1>2, <2>1 DEF TallyInv, TallyIsBallots
<1>3. ASSUME NEW v \in Ballots, VoteStep(v), ~Commit(v) PROVE TallyInv'
  <2>1. UNCHANGED <<tally, page, reworded>>
    BY <1>3 DEF VoteStep, LoadPoll, ReadVoted, ReadRoom, Check, Count
  <2>2. ballot[v].at # "counted" /\ \A w \in Ballots : w # v => ballot'[w] = ballot[w]
    BY <1>1, <1>3, VoteMoves
  <2>3. ballot'[v].at # "counted"
    <3>1. CASE LoadPoll(v)
      BY <1>1, <3>1 DEF LoadPoll, Blank
    <3>2. CASE ReadVoted(v) \/ ReadRoom(v)
      BY <1>1, <3>2 DEF ReadVoted, ReadRoom, Check, Blank, Requested
    <3>3. CASE Count(v)
      BY <1>1, <3>3 DEF Count, Requested
    <3> QED
      BY <1>3, <3>1, <3>2, <3>3 DEF VoteStep
  <2>4. \A c \in Answers : For(c)' = For(c)
    BY <2>2, <2>3, ForKept
  <2> QED
    BY <1>1, <2>1, <2>4 DEF TallyInv, TallyIsBallots
<1>4. ASSUME NEW v \in Ballots, Commit(v) PROVE TallyInv'
  <2>1. /\ ballot[v].at = "counting" /\ ballot' = [ballot EXCEPT ![v].at = "counted"]
        /\ tally' = [c \in Answers |-> IF c \in ballot[v].picks THEN tally[c] + 1 ELSE tally[c]]
        /\ UNCHANGED <<page, reworded>>
    BY <1>4 DEF Commit
  <2>2. /\ ballot'[v].at = "counted" /\ ballot'[v].picks = ballot[v].picks
        /\ \A w \in Ballots : w # v => ballot'[w] = ballot[w]
    BY <1>1, <2>1 DEF Requested
  <2>3. ASSUME NEW c \in Answers
        PROVE  For(c)' = IF c \in ballot[v].picks THEN For(c) + 1 ELSE For(c)
    <3> DEFINE S == {w \in Counted : c \in ballot[w].picks}
    <3>1. v \notin S /\ IsFiniteSet(S)
      BY <2>1, ForType DEF Counted
    <3>2. S' = IF c \in ballot[v].picks THEN S \cup {v} ELSE S
      BY <2>1, <2>2 DEF Counted
    <3>3. Cardinality(S \cup {v}) = Cardinality(S) + 1
      BY <3>1, FS_AddElement
    <3> QED
      BY <3>2, <3>3 DEF For
  <2>4. \A c \in Answers : For(c) \in Nat /\ tally[c] \in Nat
    BY <1>1, ForType
  <2>5. TallyIsBallots'
    BY <1>1, <2>1, <2>3, <2>4 DEF TallyInv, TallyIsBallots
  <2>6. page' # None => \A c \in Answers : page'[c] <= For(c)'
    BY <1>1, <2>1, <2>3, <2>4 DEF TallyInv
  <2> QED
    BY <2>5, <2>6 DEF TallyInv
<1>5. CASE OpenPage
  <2>1. \A c \in Answers : For(c)' = For(c)
    BY <1>5, ForKept DEF OpenPage
  <2> QED
    BY <1>1, <1>5, <2>1 DEF TallyInv, TallyIsBallots, OpenPage
<1>6. CASE SavePage
  <2>1. \A c \in Answers : For(c)' = For(c) /\ For(c) \in Nat
    BY <1>6, ForKept, ForType DEF SavePage
  <2>2. PICK words \in SUBSET Answers : /\ tally' = WrittenBack(words)
                                        /\ reworded' = reworded \cup words
    BY <1>6 DEF SavePage
  <2>3. page # None /\ page' = None
    BY <1>6 DEF SavePage
  <2>4. \A c \in Answers : tally'[c] = IF c \in words THEN page[c] ELSE tally[c]
    BY <2>2 DEF WrittenBack
  <2> QED
    BY <1>1, <2>1, <2>2, <2>3, <2>4 DEF TallyInv, TallyIsBallots
<1> QED
  BY <1>2, <1>3, <1>4, <1>5, <1>6 DEF Next, PollNext, pollVars

LEMMA VoteInductive == VoteInv /\ [Next]_vars => VoteInv'
<1> SUFFICES ASSUME VoteInv, [Next]_vars PROVE VoteInv'
  OBVIOUS
<1>1. CASE Next
  BY <1>1, TypeStep, LogKept, RoomStep, EarlierStep, ListStep, TallyStep DEF VoteInv
<1>2. CASE UNCHANGED vars
  <2>1. LogInv' /\ MeetingInv'
    BY <1>2 DEF VoteInv, LogInv, MeetingInv, CheckInTypeOK, LogOrdered, SawOther, RowAfterSeen,
         Latest, Written, Row, Follows, vars, checkInVars
  <2>2. TypeOK' /\ RoomInv' /\ EarlierInv'
    BY <1>2 DEF VoteInv, TypeOK, CheckInTypeOK, RoomInv, RoomMet, EarlierInv, Past, Counted,
         PresentAttendees, vars, checkInVars, pollVars
  <2>3. ListInv'
    BY <1>2 DEF VoteInv, ListInv, FreshInv, ListedInv, DisjointInv, RowsInv, Inserted, Past,
         vars, pollVars
  <2>4. TallyInv'
    <3>1. \A c \in Answers : For(c)' = For(c)
      BY <1>2, ForKept DEF vars, pollVars
    <3> QED
      BY <1>2, <3>1 DEF VoteInv, TallyInv, TallyIsBallots, vars, pollVars
  <2> QED
    BY <2>1, <2>2, <2>3, <2>4 DEF VoteInv
<1> QED
  BY <1>1, <1>2

THEOREM VoteInvariant == Spec => []VoteInv
<1> QED
  BY VoteInit, VoteInductive, PTL DEF Spec

\* Every variable keeps its type.
THEOREM VoteTypeCorrect == Spec => []TypeOK
<1>1. VoteInv => TypeOK
  BY DEF VoteInv
<1> QED
  BY <1>1, VoteInvariant, PTL

\* Nobody who was out of the room throughout a vote is counted.
THEOREM RoomHolds == Spec => []CountedInRoom
<1>1. VoteInv => CountedInRoom
  BY DEF VoteInv, RoomInv, CountedInRoom, Counted, Past
<1> QED
  BY <1>1, VoteInvariant, PTL

\* A member counted twice had both votes under way at once.
THEOREM SecondVoteOverlaps == Spec => []SecondVoteOnlyByOverlap
<1>1. VoteInv => SecondVoteOnlyByOverlap
  BY DEF VoteInv, EarlierInv, SecondVoteOnlyByOverlap, Two, Counted, Past
<1> QED
  BY <1>1, VoteInvariant, PTL

\* The counters are the ballots, less what the admin page wrote back.
THEOREM TallyHolds == Spec => []TallyIsBallots
<1>1. VoteInv => TallyIsBallots
  BY DEF VoteInv, TallyInv
<1> QED
  BY <1>1, VoteInvariant, PTL

\* Nobody counted is missing from the voters, and who is listed twice cast two
\* ballots without a common choice.
THEOREM ListHolds == Spec => []VoterListExact
<1>1. VoteInv => VoterListExact
  <2> SUFFICES ASSUME VoteInv PROVE VoterListExact
    OBVIOUS
  <2>1. TypeOK /\ ListedInv /\ DisjointInv /\ RowsInv
    BY DEF VoteInv, ListInv
  <2>2. \A v \in Counted : ballot[v].who \in Members => voted[ballot[v].who] > 0
    BY <2>1 DEF ListedInv, Counted, Past
  <2>3. ASSUME NEW m \in Members, voted[m] > 1
        PROVE  \E v, w \in Ballots :
                 Two(v, w) /\ ballot[v].who = m /\ ballot[v].picks \cap ballot[w].picks = {}
    <3>1. PICK v \in Ballots, w \in Ballots : v # w /\ Inserted(v, m) /\ Inserted(w, m)
      BY <2>1, <2>3 DEF RowsInv
    <3> QED
      BY <2>1, <3>1 DEF DisjointInv, Two, Inserted, Past, Counted
  <2> QED
    BY <2>2, <2>3 DEF VoterListExact
<1> QED
  BY <1>1, VoteInvariant, PTL

\* Two arrivals in a row come from two requests at once, unless the log was
\* corrected.
THEOREM RepeatOverlaps == Spec => []RepeatOnlyByOverlap
<1>1. VoteInv => RepeatOnlyByOverlap
  BY RepeatNeedsOverlap DEF VoteInv
<1> QED
  BY <1>1, VoteInvariant, PTL

\* The three headcounts of the report agree, whatever is in the log.
THEOREM ReportHeadcounts == Spec => []ReportAgrees
<1>1. Init => IsFiniteSet(log)
  BY FS_EmptySet DEF Init, InitCheckIn
<1>2. VoteInv /\ IsFiniteSet(log) /\ [Next]_vars => IsFiniteSet(log)'
  <2>1. CheckInNext /\ LogInv /\ IsFiniteSet(log) => IsFiniteSet(log')
    BY LogFinite
  <2>2. [Next]_vars => CheckInNext \/ UNCHANGED log
    BY DEF Next, vars, checkInVars
  <2> QED
    BY <2>1, <2>2 DEF VoteInv
<1>3. VoteInv /\ IsFiniteSet(log) => ReportAgrees
  BY ReportHolds DEF VoteInv
<1> QED
  BY <1>1, <1>2, <1>3, VoteInvariant, PTL DEF Spec
=============================================================================
