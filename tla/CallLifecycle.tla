---------------------------- MODULE CallLifecycle ----------------------------
(***************************************************************************)
(* The voice calls of one tenant: rows of comms_call, the requests of the  *)
(* two ends, the clock jobs of a call, and the safety sweep, which visits  *)
(* a tenant only while Redis holds it in the set of active ones.           *)
(*                                                                         *)
(* No request runs in a transaction: each statement is its own step, and   *)
(* everything after an UPDATE may be lost with the process.  Who is told   *)
(* what, recordings and the ring pushes are left out.                      *)
(***************************************************************************)
EXTENDS Naturals, FiniteSets

CONSTANTS
    Users,
    Calls,      \* bound: calls dialled at all
    MaxAsks,    \* bound: requests between their read and their write at a time
    MaxFaults   \* bound: deaths, refusals of Redis, lost jobs

ASSUME CallAssumption == IsFiniteSet(Calls) /\ MaxAsks \in Nat /\ MaxFaults \in Nat

VARIABLES
    status, ends,   \* the row: its status, <<caller_id, callee_id>>
    overdue,        \* calls past the deadline of their status
    dials,          \* createCall before its INSERT
    tails,          \* what a dial or an answer still has to do after its write
    jobs,           \* calls with the clock of their present status queued; the
                    \* clock of a status they have left finds so and does nothing
    asks,           \* transitions decided on a row read earlier
    marked, quiet,  \* the tenant is in the active set; its score is old
    sweep, plan, left,  \* where the sweep is, its transitions, the calls alive
    faults

rows  == <<status, ends, overdue>>
clock == <<tails, jobs>>
mark  == <<marked, quiet>>
sweeper == <<sweep, plan, left>>
vars == <<status, ends, overdue, dials, tails, jobs, asks, marked, quiet,
          sweep, plan, left, faults>>

Active == {"RINGING", "IN_CALL"}
\* MISSED stands for NO_ANSWER, CANCELLED, DECLINED and a failure while it rings,
\* ENDED for the ends of an answered call, a failure included.
Final == {"MISSED", "ENDED"}
Live == {c \in Calls : status[c] \in Active}
\* How a live call ends.
To(s) == IF s = "RINGING" THEN "MISSED" ELSE "ENDED"
\* A call, and the status it was read in.
Move == [call : Calls, from : Active]

TypeOK ==
    /\ status \in [Calls -> Active \cup Final \cup {"none"}]
    /\ ends \in [Calls -> (Users \X Users) \cup {<<>>}]
    /\ \A c \in Calls : IF status[c] = "none" THEN ends[c] = <<>>
           ELSE /\ ends[c] \in Users \X Users
                /\ ends[c][1] # ends[c][2]
    /\ overdue \subseteq Live
    /\ Cardinality(dials) <= Cardinality({c \in Calls : status[c] = "none"})
    /\ dials \subseteq Users \X Users
    /\ tails \subseteq Move /\ jobs \subseteq Live
    /\ asks \subseteq Move /\ plan \subseteq Move
    /\ marked \in BOOLEAN /\ quiet \in BOOLEAN /\ (quiet => marked)
    /\ sweep \in {"off", "due", "live", "drop"} /\ left \subseteq Calls
    /\ faults \in 0 .. MaxFaults

Init ==
    /\ status = [c \in Calls |-> "none"]
    /\ ends = [c \in Calls |-> <<>>]
    /\ overdue = {} /\ dials = {} /\ tails = {} /\ jobs = {} /\ asks = {}
    /\ marked = FALSE /\ quiet = FALSE
    /\ sweep = "off" /\ plan = {} /\ left = {}
    /\ faults = 0

Fault == faults < MaxFaults /\ faults' = faults + 1
Party(u, c) == status[c] # "none" /\ u \in {ends[c][1], ends[c][2]}
\* findActiveCall, in either role
OnACall(u) == \E c \in Live : Party(u, c)

-----------------------------------------------------------------------------
(* Dialling. *)

Unused == {c \in Calls : status[c] = "none"}

\* Mutant: the partner of the channel may be the caller.
DialAnyone(u, v) ==
    /\ Cardinality(dials) < Cardinality(Unused) /\ \A d \in dials : d[1] # u
    /\ ~OnACall(u) /\ ~OnACall(v)
    /\ dials' = dials \cup {<<u, v>>}
    /\ UNCHANGED <<rows, clock, asks, mark, sweeper, faults>>

\* The partner is the other member of the channel; the two SELECTs find both free.
\* Bound: a dial needs a call nobody has dialled yet.
Dial(u, v) ==
    /\ Cardinality(dials) < Cardinality(Unused) /\ \A d \in dials : d[1] # u
    /\ u # v /\ ~OnACall(u) /\ ~OnACall(v)
    /\ dials' = dials \cup {<<u, v>>}
    /\ UNCHANGED <<rows, clock, asks, mark, sweeper, faults>>

\* The partial unique indexes: one over the callers, one over the callees.
Collides(d) == \E c \in Live : ends[c][1] = d[1] \/ ends[c][2] = d[2]

Insert(d) ==
    /\ dials' = dials \ {d}
    /\ IF Collides(d) THEN UNCHANGED <<status, ends, tails>>
       ELSE LET c == CHOOSE c \in Unused : TRUE IN
            /\ status' = [status EXCEPT ![c] = "RINGING"]
            /\ ends' = [ends EXCEPT ![c] = d]
            /\ tails' = tails \cup {[call |-> c, from |-> "RINGING"]}
    /\ UNCHANGED <<overdue, jobs, asks, mark, sweeper, faults>>

-----------------------------------------------------------------------------
(* After the write: the tenant is marked, then the job is queued. *)

Queue(t) == jobs' = IF status[t.call] = t.from THEN jobs \cup {t.call} ELSE jobs

Follow(t) ==
    /\ tails' = tails \ {t}
    /\ marked' = TRUE /\ quiet' = FALSE
    /\ Queue(t)
    /\ UNCHANGED <<rows, dials, asks, sweeper, faults>>

\* The process dies before or between the two, or Redis refuses one of them,
\* which is logged and goes no further.
FollowInPart(t) ==
    /\ Fault
    /\ tails' = tails \ {t}
    /\ \/ UNCHANGED <<mark, jobs>>
       \/ marked' = TRUE /\ quiet' = FALSE /\ jobs' = jobs
       \/ UNCHANGED mark /\ Queue(t)
    /\ UNCHANGED <<rows, dials, asks, sweeper>>

-----------------------------------------------------------------------------
(* The two ends. *)

\* An UPDATE of the status; what hung on the old one is over.
Write(c, s) ==
    /\ status' = [status EXCEPT ![c] = s]
    /\ overdue' = overdue \ {c} /\ jobs' = jobs \ {c}

\* Mutant: nothing bounds the talk time.
AcceptNoCap(u, c) ==
    /\ status[c] = "RINGING" /\ ends[c][2] = u
    /\ Write(c, "IN_CALL")
    /\ UNCHANGED <<ends, dials, tails, asks, mark, sweeper, faults>>

Accept(u, c) ==
    /\ status[c] = "RINGING" /\ ends[c][2] = u
    /\ Write(c, "IN_CALL")
    /\ tails' = tails \cup {[call |-> c, from |-> "IN_CALL"]}
    /\ UNCHANGED <<ends, dials, asks, mark, sweeper, faults>>

RoomToAsk == Cardinality(asks) < MaxAsks

\* Decline, hang-up and report of failure read the row and decide by it.
Ask(u, c) ==
    /\ c \in Live /\ Party(u, c) /\ RoomToAsk
    /\ asks' = asks \cup {[call |-> c, from |-> status[c]]}
    /\ UNCHANGED <<rows, dials, clock, mark, sweeper, faults>>

\* Mutant: the UPDATE goes by the id alone.
TransitionById(a) == Write(a.call, To(a.from))

\* Only a row still in the status it was read in moves; the loser answers 409.
Transition(a) ==
    IF status[a.call] = a.from THEN Write(a.call, To(a.from))
    ELSE UNCHANGED <<status, overdue, jobs>>

\* The transition of a request or of a job.
Conclude(a) ==
    /\ Transition(a)
    /\ asks' = asks \ {a}
    /\ UNCHANGED <<ends, dials, tails, mark, sweeper, faults>>

-----------------------------------------------------------------------------
(* The clocks of a call. *)

Pass(c) ==
    /\ c \in Live \ overdue
    /\ overdue' = overdue \cup {c}
    /\ UNCHANGED <<status, ends, dials, clock, asks, mark, sweeper, faults>>

\* expireRing, capCall.
RunClock(c) ==
    /\ c \in jobs \cap overdue /\ RoomToAsk
    /\ asks' = asks \cup {[call |-> c, from |-> status[c]]}
    /\ UNCHANGED <<rows, dials, clock, mark, sweeper, faults>>

\* Its attempts fail, or a slow clock finds the call not due: the job it then
\* queues has the id of the active one, itself, and is dropped.
LoseJob(c) ==
    /\ Fault /\ c \in jobs
    /\ jobs' = jobs \ {c}
    /\ UNCHANGED <<rows, dials, tails, asks, mark, sweeper>>

\* The liveness job, whose verdict on the two ends may come at any time.
FindGone(c) ==
    /\ status[c] = "IN_CALL" /\ RoomToAsk
    /\ asks' = asks \cup {[call |-> c, from |-> "IN_CALL"]}
    /\ UNCHANGED <<rows, dials, clock, mark, sweeper, faults>>

-----------------------------------------------------------------------------
(* The safety sweep. *)

SweepOf(S) == {[call |-> c, from |-> status[c]] : c \in S}

\* Mutant: the query has lost its second half.
DueRinging == {c \in overdue : status[c] = "RINGING"}

Due == overdue

SweepDue ==
    /\ sweep = "off" /\ marked
    /\ sweep' = "due" /\ plan' = SweepOf(Due) /\ left' = {}
    /\ UNCHANGED <<rows, dials, clock, asks, mark, faults>>

SweepEnd(a) ==
    /\ Transition(a)
    /\ plan' = plan \ {a}
    /\ left' = IF status[a.call] = a.from THEN left \ {a.call} ELSE left
    /\ UNCHANGED <<ends, dials, tails, asks, mark, sweep, faults>>

SweepLive ==
    /\ sweep = "due" /\ plan = {}
    /\ sweep' = "live" /\ left' = Live
    /\ \E gone \in SUBSET {c \in Live : status[c] = "IN_CALL"} : plan' = SweepOf(gone)
    /\ UNCHANGED <<rows, dials, clock, asks, mark, faults>>

\* releaseIfIdle reads the score, and then removes the tenant.
ReadScore ==
    /\ sweep = "live" /\ plan = {}
    /\ sweep' = IF left = {} /\ marked /\ quiet THEN "drop" ELSE "off"
    /\ left' = {}
    /\ UNCHANGED <<rows, dials, clock, asks, mark, plan, faults>>

Release ==
    /\ sweep = "drop" /\ sweep' = "off"
    /\ marked' = FALSE /\ quiet' = FALSE
    /\ UNCHANGED <<rows, dials, clock, asks, plan, left, faults>>

SweepDies ==
    /\ Fault /\ sweep # "off"
    /\ sweep' = "off" /\ plan' = {} /\ left' = {}
    /\ UNCHANGED <<rows, dials, clock, asks, mark>>

\* Ten minutes without a dial or an answer.
FallQuiet ==
    /\ marked /\ ~quiet
    /\ quiet' = TRUE
    /\ UNCHANGED <<rows, dials, clock, asks, marked, sweeper, faults>>

-----------------------------------------------------------------------------
Sweep ==
    \/ SweepDue \/ SweepLive \/ ReadScore \/ Release
    \/ \E a \in plan : SweepEnd(a)

Next ==
    \/ \E u, v \in Users : Dial(u, v)
    \/ \E d \in dials : Insert(d)
    \/ \E u \in Users, c \in Calls : Accept(u, c) \/ Ask(u, c)
    \/ \E c \in Calls : FindGone(c) \/ Pass(c) \/ RunClock(c) \/ LoseJob(c)
    \/ \E t \in tails : Follow(t) \/ FollowInPart(t)
    \/ \E a \in asks : Conclude(a)
    \/ Sweep \/ SweepDies \/ FallQuiet

Spec == Init /\ [][Next]_vars

\* Requests and workers go on, time passes and the scheduler ticks.
FairSpec ==
    /\ Spec
    /\ WF_vars(Sweep)
    /\ WF_vars(\E a \in asks : Conclude(a))
    /\ WF_vars(\E t \in tails : Follow(t))
    /\ WF_vars(\E c \in Calls : RunClock(c))
    /\ WF_vars(\E c \in Calls : Pass(c))

-----------------------------------------------------------------------------
(* Properties. *)

\* A call moves along its state machine: what has ended never moves again, what
\* was answered never ends as unanswered and nothing skips the ringing, however
\* many requests, jobs and sweeps decided on rows they read earlier.
Moves(s) ==
    CASE s = "none" -> {"RINGING"}
      [] s = "RINGING" -> {"IN_CALL", "MISSED"}
      [] s = "IN_CALL" -> {"ENDED"}
      [] OTHER -> {}
EndsOnce ==
    [][\A c \in Calls : status'[c] # status[c] => status'[c] \in Moves(status[c])]_vars

\* Nothing will ever look at this call by itself: no clock of its status is queued
\* or about to be, and no sweep visits the tenant.
Clocked(c) == c \in jobs \/ [call |-> c, from |-> status[c]] \in tails
Forgotten(c) == c \in Live /\ ~marked /\ ~Clocked(c)

\* Every live call without a clock lost it to a failure of its own: not to the job
\* of its ring that runs beside its answer, nor to a decision on an old row; and
\* only such a call can be forgotten, when a sweep that saw no call removes the
\* tenant just after one was dialled.
Unclocked == {c \in Live : ~Clocked(c)}
UnclockedNeedFaults == Cardinality(Unclocked) <= faults

\* Every call ends, by its ends, its clocks or the sweep, whatever is lost, unless
\* both its clock and the mark of the tenant are: again and again, no call is left
\* that is live and watched.
EveryCallEnds == []<>(\A c \in Live : Forgotten(c))

\* One active call per user, in either role, as the migration states it.
OneActiveCall ==
    \A c, d \in Live : c # d => {ends[c][1], ends[c][2]} \cap {ends[d][1], ends[d][2]} = {}
=============================================================================
