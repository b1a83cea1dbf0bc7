--------------------------- MODULE EventDelivery ---------------------------
(***************************************************************************)
(* What the outbox promises a module that emits events: an event, once     *)
(* published, is queued until every effect it owes has been delivered, or  *)
(* until its delivery has failed MaxAttempts times and it is abandoned.    *)
(* An effect is delivered once, while the event is queued, and the outcome *)
(* of an event is final.                                                   *)
(***************************************************************************)
EXTENDS Naturals

CONSTANTS Events, Slots, Optional, MaxAttempts

VARIABLES outcome, failures, delivered

Owed(e) == {s \in Slots \ Optional : s[1] = e}

Init ==
    /\ outcome = [e \in Events |-> "unborn"]
    /\ failures = [e \in Events |-> 0]
    /\ delivered = {}

Publish(e) ==
    /\ outcome[e] = "unborn"
    /\ outcome' = [outcome EXCEPT ![e] = "queued"]
    /\ UNCHANGED <<failures, delivered>>

Deliver(s) ==
    /\ outcome[s[1]] = "queued"
    /\ s \notin delivered
    /\ delivered' = delivered \cup {s}
    /\ UNCHANGED <<outcome, failures>>

Handle(e) ==
    /\ outcome[e] = "queued"
    /\ Owed(e) \subseteq delivered
    /\ outcome' = [outcome EXCEPT ![e] = "handled"]
    /\ UNCHANGED <<failures, delivered>>

Fail(e) ==
    /\ outcome[e] = "queued"
    /\ failures[e] < MaxAttempts
    /\ failures' = [failures EXCEPT ![e] = @ + 1]
    /\ outcome' = [outcome EXCEPT ![e] =
                      IF failures'[e] = MaxAttempts THEN "abandoned" ELSE "queued"]
    /\ UNCHANGED delivered

Next ==
    \/ \E e \in Events : Publish(e) \/ Handle(e) \/ Fail(e)
    \/ \E s \in Slots : Deliver(s)

Spec == Init /\ [][Next]_<<outcome, failures, delivered>>
=============================================================================
