----------------------------- MODULE SignupLedger -----------------------------
(***************************************************************************)
(* What registration promises, without transactions, locks or counters:    *)
(* a request is answered once; if it is accepted, its one or two attendees *)
(* appear in one step, with emails and numbers nobody else in the storage  *)
(* event has, and within the child's limit - unless the request had seen   *)
(* the child while it was unlimited.  EventSignup implements this.         *)
(***************************************************************************)
EXTENDS Integers, FiniteSets

CONSTANTS Reqs, Main, Children, None

VARIABLES
  rows,      \* the attendees of the storage event
  capacity,  \* the limit of each child, 0 for none
  answer,    \* per request: "none", "accepted" or "refused"
  lenient    \* per request: the child it has seen unlimited, or None

ledgerVars == <<rows, capacity, answer, lenient>>

Init ==
  /\ rows = {}
  /\ capacity \in [Children -> Nat]
  /\ answer = [r \in Reqs |-> "none"]
  /\ lenient = [r \in Reqs |-> None]

In(c) == {x \in rows : x.ev = c}

SeeUnlimited(r, c) ==
  /\ answer[r] = "none"
  /\ capacity[c] = 0
  /\ lenient' = [lenient EXCEPT ![r] = c]
  /\ UNCHANGED <<rows, capacity, answer>>

\* A request that starts over forgets what it saw.
Forget(r) ==
  /\ lenient' = [lenient EXCEPT ![r] = None]
  /\ UNCHANGED <<rows, capacity, answer>>

Fresh(new) ==
  \A x \in new, y \in rows \cup new :
    x # y => x.email # y.email /\ x.nr # y.nr

\* One guest, or a guest and an avec, all for the same event.
Party(r, new) ==
  /\ Cardinality(new) \in {1, 2}
  /\ \A x \in new : x.owner = r /\ x \notin rows
  /\ \A x, y \in new : x.ev = y.ev /\ (x # y => x.avec # y.avec)

Accept(r) ==
  /\ answer[r] = "none"
  /\ LET new == rows' \ rows IN
       /\ rows \subseteq rows'
       /\ Party(r, new)
       /\ Fresh(new)
       /\ \A x \in new : x.ev \in Children =>
            \/ lenient[r] = x.ev
            \/ Cardinality(In(x.ev)) + Cardinality(new) <= capacity[x.ev]
  /\ answer' = [answer EXCEPT ![r] = "accepted"]
  /\ lenient' = [lenient EXCEPT ![r] = None]
  /\ UNCHANGED capacity

Refuse(r) ==
  /\ answer[r] = "none"
  /\ answer' = [answer EXCEPT ![r] = "refused"]
  /\ lenient' = [lenient EXCEPT ![r] = None]
  /\ UNCHANGED <<rows, capacity>>

SetLimit(c) ==
  /\ capacity'[c] \in Nat
  /\ capacity' = [capacity EXCEPT ![c] = capacity'[c]]
  /\ UNCHANGED <<rows, answer, lenient>>

Remove(x) ==
  /\ rows' = rows \ {x}
  /\ UNCHANGED <<capacity, answer, lenient>>

Renumber(x) ==
  /\ \E new \in rows' \ rows :
       /\ \A y \in rows : y.nr # new.nr
       /\ rows' = (rows \ {x}) \cup {[x EXCEPT !.nr = new.nr]}
  /\ UNCHANGED <<capacity, answer, lenient>>

Next ==
  \/ \E r \in Reqs : Accept(r) \/ Refuse(r) \/ Forget(r)
  \/ \E r \in Reqs, c \in Children : SeeUnlimited(r, c)
  \/ \E c \in Children : SetLimit(c)
  \/ \E x \in rows : Remove(x) \/ Renumber(x)

Spec == Init /\ [][Next]_ledgerVars
=============================================================================
