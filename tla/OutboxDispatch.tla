--------------------------- MODULE OutboxDispatch ---------------------------
(***************************************************************************)
(* The orchestration outbox of one tenant schema.                          *)
(*                                                                         *)
(* A module service inserts event_log rows inside its own transaction; the *)
(* row gets its id when it is inserted and becomes visible when the        *)
(* transaction commits.  A recurring scheduler enqueues one drain job per  *)
(* tenant and environment, deduplicated by its job id.  A worker that      *)
(* takes the job reads a batch of undispatched events, runs the handlers   *)
(* registered for each of them and records the outcome in event_dispatch.  *)
(* Every query is a step of its own, so a worker can crash, or a second    *)
(* drain can run (a job whose lock expired is handed out again), between   *)
(* any two of them.                                                        *)
(***************************************************************************)
EXTENDS Naturals, Sequences, FiniteSets

CONSTANTS
    NumEvents,    \* events the model lets the services insert
    Registry,     \* event id -> the handlers registered for its event key
    Workers,      \* processes that consume the orchestration-dispatch queue
    NoWorker,     \* the lock of a job nobody holds
    MaxAttempts,  \* MAX_ATTEMPTS, 5 in the code
    Limit,        \* rows one drain reads, 200 in the code
    MaxCrashes,   \* bound: crashed or aborted drains
    MaxStalls     \* bound: job locks lost by a worker that is still running

Events == 1 .. NumEvents

(***************************************************************************)
(* What a handler does with its event, told apart by how it recognises an  *)
(* event it has already handled:                                           *)
(*   entry        looks for a row, then inserts one (no unique index)      *)
(*   sourceRef    the same, over a column with a unique index              *)
(*   openDossier  looks for a link, creates a record in a transaction of   *)
(*                its own, then links it                                   *)
(* An optional handler may return without effect: its feature is off, or   *)
(* the event or its record gives it nothing to do (no reference, a record  *)
(* or a setting that is not there), which it reports as skipped.           *)
(***************************************************************************)
Kinds    == {"entry", "sourceRef", "openDossier"}
Handlers == [kind : Kinds, optional : BOOLEAN]

ASSUME OutboxAssumption ==
    /\ NumEvents \in Nat
    /\ Registry \in [Events -> Seq(Handlers)]
    /\ NoWorker \notin Workers
    /\ MaxAttempts \in Nat \ {0}
    /\ Limit \in Nat \ {0}
    /\ MaxCrashes \in Nat
    /\ MaxStalls \in Nat

\* One slot per event and handler position: the effect that handler owes it.
Slots == UNION {{e} \X DOMAIN Registry[e] : e \in Events}

NoEvent == 0

VARIABLES
    log,      \* event_log: none, open (inserted), committed, rolledback
    disp,     \* event_dispatch: the row of each event, "none" if it has none
    made,     \* records the handler of a slot has created
    linked,   \* slots whose record is linked back to its source
    job,      \* the drain job of the queue and the worker that holds its lock
    pc,       \* where each worker stands in dispatchPending
    todo,     \* rows of the batch the worker has still to process
    cur,      \* the event it is processing
    pos,      \* the handler of that event it is running
    seen,     \* the attempts each row of the batch had when it was read
    died,     \* whether this drain has dead-lettered an event
    notified, \* lastNotified: the worker reported a backlog within the day
    reported, \* dead-lettered events some report has covered
    crashes, stalls

outbox == <<log, disp>>
effects == <<made, linked>>
mind   == <<todo, cur, pos, seen, died>>
alarm  == <<notified, reported>>
faults == <<crashes, stalls>>
vars   == <<log, disp, made, linked, job, pc, todo, cur, pos, seen, died,
            notified, reported, crashes, stalls>>

-----------------------------------------------------------------------------
Settled == {"DONE", "DEAD"}
Row     == [status : {"none", "FAILED", "DONE", "DEAD"}, attempts : 0 .. MaxAttempts]
PCs     == {"idle", "next", "check", "write", "link", "mark", "fail", "census"}

TypeOK ==
    /\ log \in [Events -> {"none", "open", "committed", "rolledback"}]
    /\ disp \in [Events -> Row]
    /\ made \in [Slots -> Nat]
    /\ linked \in SUBSET Slots
    /\ job \in [state : {"absent", "waiting", "active"}, owner : Workers \cup {NoWorker}]
    /\ pc \in [Workers -> PCs]
    /\ todo \in [Workers -> SUBSET Events]
    /\ cur \in [Workers -> Events \cup {NoEvent}]
    /\ pos \in [Workers -> Nat \ {0}]
    /\ seen \in [Workers -> [Events -> 0 .. MaxAttempts]]
    /\ died \in [Workers -> BOOLEAN]
    /\ notified \in [Workers -> BOOLEAN]
    /\ reported \in SUBSET Events
    /\ crashes \in 0 .. MaxCrashes
    /\ stalls \in 0 .. MaxStalls

Init ==
    /\ log = [e \in Events |-> "none"]
    /\ disp = [e \in Events |-> [status |-> "none", attempts |-> 0]]
    /\ made = [s \in Slots |-> 0]
    /\ linked = {}
    /\ job = [state |-> "absent", owner |-> NoWorker]
    /\ pc = [w \in Workers |-> "idle"]
    /\ todo = [w \in Workers |-> {}]
    /\ cur = [w \in Workers |-> NoEvent]
    /\ pos = [w \in Workers |-> 1]
    /\ seen = [w \in Workers |-> [e \in Events |-> 0]]
    /\ died = [w \in Workers |-> FALSE]
    /\ notified = [w \in Workers |-> FALSE]
    /\ reported = {}
    /\ crashes = 0
    /\ stalls = 0

-----------------------------------------------------------------------------
(* The module services: emitEvent inside a business transaction.           *)

\* INSERT INTO event_log: the sequence hands the ids out in insertion order.
InsertEvent(e) ==
    /\ log[e] = "none"
    /\ \A f \in 1 .. e - 1 : log[f] # "none"
    /\ log' = [log EXCEPT ![e] = "open"]
    /\ UNCHANGED <<disp, effects, job, pc, mind, alarm, faults>>

\* The caller's transaction ends; transactions end in any order.
EndTransaction(e, outcome) ==
    /\ log[e] = "open"
    /\ log' = [log EXCEPT ![e] = outcome]
    /\ UNCHANGED <<disp, effects, job, pc, mind, alarm, faults>>

-----------------------------------------------------------------------------
(* The scheduler and the queue.                                            *)

\* Mutant: no job id, every tick enqueues a job of its own.
TickWithoutJobId ==
    /\ job.state # "waiting"
    /\ job' = [state |-> "waiting", owner |-> NoWorker]
    /\ UNCHANGED <<outbox, effects, pc, mind, alarm, faults>>

\* A tick enqueues the job; a waiting or active job of the same id absorbs it.
Tick ==
    /\ job.state = "absent"
    /\ job' = [state |-> "waiting", owner |-> NoWorker]
    /\ UNCHANGED <<outbox, effects, pc, mind, alarm, faults>>

\* The lock of an active job expires: its worker died, or is alive but late
\* in renewing it.  The queue hands the job out again.
LoseLock ==
    /\ job.state = "active"
    /\ job' = [state |-> "waiting", owner |-> NoWorker]
    /\ IF job.owner = NoWorker
       THEN stalls' = stalls
       ELSE stalls < MaxStalls /\ stalls' = stalls + 1
    /\ UNCHANGED <<outbox, effects, pc, mind, alarm, crashes>>

\* The worker returns: the job is gone from the queue, unless its lock was lost.
Release(w, next) ==
    job' = IF job.owner = w THEN [state |-> next, owner |-> NoWorker] ELSE job

\* dispatchPending is left: its local variables go out of scope.
Leave(w) ==
    /\ pc' = [pc EXCEPT ![w] = "idle"]
    /\ todo' = [todo EXCEPT ![w] = {}]
    /\ cur' = [cur EXCEPT ![w] = NoEvent]
    /\ pos' = [pos EXCEPT ![w] = 1]
    /\ seen' = [seen EXCEPT ![w] = [e \in Events |-> 0]]
    /\ died' = [died EXCEPT ![w] = FALSE]

-----------------------------------------------------------------------------
(* dispatchPending                                                         *)

\* Mutant: a drain also reads rows of transactions still open.
PendingDirtyRead ==
    {e \in Events :
        /\ log[e] \in {"open", "committed"}
        /\ \/ disp[e].status = "none"
           \/ disp[e].status = "FAILED" /\ disp[e].attempts < MaxAttempts}

\* Mutant: the consumer keeps a cursor, the largest event id dispatched.
PendingAfterCursor ==
    {e \in Events :
        /\ log[e] = "committed"
        /\ \/ disp[e].status = "none" /\ \A f \in Events : disp[f].status # "none" => f < e
           \/ disp[e].status = "FAILED" /\ disp[e].attempts < MaxAttempts}

\* Rows without a dispatch row, or failed ones with attempts left.
Pending ==
    {e \in Events :
        /\ log[e] = "committed"
        /\ \/ disp[e].status = "none"
           \/ disp[e].status = "FAILED" /\ disp[e].attempts < MaxAttempts}

\* The first Limit of them by event id.
Batch == {e \in Pending : Cardinality({f \in Pending : f < e}) < Limit}

Take(w) ==
    /\ job.state = "waiting"
    /\ pc[w] = "idle"
    /\ job' = [state |-> "active", owner |-> w]
    /\ pc' = [pc EXCEPT ![w] = "next"]
    /\ todo' = [todo EXCEPT ![w] = Batch]
    /\ seen' = [seen EXCEPT ![w] = [e \in Events |-> disp[e].attempts]]
    /\ UNCHANGED <<outbox, effects, cur, pos, died, alarm, faults>>

Write(e, row) == disp' = [disp EXCEPT ![e] = row]

\* The upsert of markDone leaves the attempts of an existing row alone.
MarkRowDone(e) == Write(e, [disp[e] EXCEPT !.status = "DONE"])

\* The next row of the batch, in event id order.
IsNext(w, e) == e \in todo[w] /\ \A f \in todo[w] : e <= f

NextEvent(w) ==
    /\ pc[w] = "next"
    /\ \E e \in Events :
        /\ IsNext(w, e)
        /\ todo' = [todo EXCEPT ![w] = @ \ {e}]
        /\ IF Registry[e] = <<>>
           THEN /\ MarkRowDone(e)
                /\ UNCHANGED <<pc, cur, pos>>
           ELSE /\ pc' = [pc EXCEPT ![w] = "check"]
                /\ cur' = [cur EXCEPT ![w] = e]
                /\ UNCHANGED <<disp, pos>>
    /\ UNCHANGED <<log, effects, job, seen, died, alarm, faults>>

Handler(w) == Registry[cur[w]][pos[w]]
Slot(w)    == <<cur[w], pos[w]>>

\* What the handler's existence check finds.
Exists(s) ==
    IF Registry[s[1]][s[2]].kind = "openDossier" THEN s \in linked ELSE made[s] > 0

\* Mutant: off by one, the last handler of an event is never run.
AdvanceTooEarly(w) ==
    IF pos[w] + 1 < Len(Registry[cur[w]])
    THEN /\ pos' = [pos EXCEPT ![w] = @ + 1]
         /\ pc' = [pc EXCEPT ![w] = "check"]
    ELSE /\ pc' = [pc EXCEPT ![w] = "mark"]
         /\ UNCHANGED pos

\* The handler has returned: the next one runs, or the event is marked.
Advance(w) ==
    IF pos[w] < Len(Registry[cur[w]])
    THEN /\ pos' = [pos EXCEPT ![w] = @ + 1]
         /\ pc' = [pc EXCEPT ![w] = "check"]
    ELSE /\ pc' = [pc EXCEPT ![w] = "mark"]
         /\ UNCHANGED pos

\* featureEnabled, then the handler's early returns and its idempotency check.
CheckHandler(w) ==
    /\ pc[w] = "check"
    /\ \/ (Handler(w).optional \/ Exists(Slot(w))) /\ Advance(w)
       \/ ~ Exists(Slot(w)) /\ pc' = [pc EXCEPT ![w] = "write"] /\ UNCHANGED pos
    /\ UNCHANGED <<outbox, effects, job, todo, cur, seen, died, alarm, faults>>

\* The insert the check allowed; the unique index refuses a second one.
WriteHandler(w) ==
    /\ pc[w] = "write"
    /\ IF Handler(w).kind = "sourceRef" /\ made[Slot(w)] > 0
       THEN /\ pc' = [pc EXCEPT ![w] = "fail"]
            /\ UNCHANGED <<made, pos>>
       ELSE /\ made' = [made EXCEPT ![Slot(w)] = @ + 1]
            /\ IF Handler(w).kind = "openDossier"
               THEN pc' = [pc EXCEPT ![w] = "link"] /\ UNCHANGED pos
               ELSE Advance(w)
    /\ UNCHANGED <<outbox, linked, job, todo, cur, seen, died, alarm, faults>>

\* UPDATE ... WHERE dossier_id IS NULL: a link already there stays.
LinkHandler(w) ==
    /\ pc[w] = "link"
    /\ linked' = linked \cup {Slot(w)}
    /\ Advance(w)
    /\ UNCHANGED <<outbox, made, job, todo, cur, seen, died, alarm, faults>>

\* Mutant: the rejection is logged and swallowed.
ThrowSwallowed(w) ==
    /\ pc[w] \in {"check", "write", "link", "mark"}
    /\ pc' = [pc EXCEPT ![w] = "mark"]
    /\ UNCHANGED <<outbox, effects, job, mind, alarm, faults>>

\* A query of the handler, or markDone inside the same try, rejects.
Throw(w) ==
    /\ pc[w] \in {"check", "write", "link", "mark"}
    /\ pc' = [pc EXCEPT ![w] = "fail"]
    /\ UNCHANGED <<outbox, effects, job, mind, alarm, faults>>

\* The loop moves on to the next row.
NextRow(w) ==
    /\ pc' = [pc EXCEPT ![w] = "next"]
    /\ cur' = [cur EXCEPT ![w] = NoEvent]
    /\ pos' = [pos EXCEPT ![w] = 1]

MarkDone(w) ==
    /\ pc[w] = "mark"
    /\ MarkRowDone(cur[w])
    /\ NextRow(w)
    /\ UNCHANGED <<log, effects, job, todo, seen, died, alarm, faults>>

\* Mutant: the last attempt leaves the row retriable.
FailedRowOffByOne(attempts) ==
    [status   |-> IF attempts > MaxAttempts THEN "DEAD" ELSE "FAILED",
     attempts |-> attempts]

\* Mutant: the attempt is counted by the caller and again here.
FailedRowCountedTwice(attempts) ==
    [status   |-> IF attempts >= MaxAttempts THEN "DEAD" ELSE "FAILED",
     attempts |-> attempts + 1]

\* The attempts written are those the batch was read with, plus one.
FailedRow(attempts) ==
    [status   |-> IF attempts >= MaxAttempts THEN "DEAD" ELSE "FAILED",
     attempts |-> attempts]

MarkFailed(w) ==
    LET row == FailedRow(seen[w][cur[w]] + 1)
    IN  /\ pc[w] = "fail"
        /\ Write(cur[w], row)
        /\ died' = [died EXCEPT ![w] = @ \/ row.status = "DEAD"]
        /\ NextRow(w)
        /\ UNCHANGED <<log, effects, job, todo, seen, alarm, faults>>

EndOfBatch(w) ==
    /\ pc[w] = "next" /\ todo[w] = {}
    /\ pc' = [pc EXCEPT ![w] = "census"]
    /\ UNCHANGED <<outbox, effects, job, mind, alarm, faults>>

-----------------------------------------------------------------------------
(* The dead-letter census after every drain.                               *)

Dead == {e \in Events : disp[e].status = "DEAD"}

\* Mutant: only a drain that dead-lettered an event itself reports.
CensusOfOwnDead(w) ==
    /\ pc[w] = "census"
    /\ IF died[w]
       THEN notified' = [notified EXCEPT ![w] = TRUE] /\ reported' = Dead
       ELSE UNCHANGED alarm
    /\ Leave(w)
    /\ Release(w, "absent")
    /\ UNCHANGED <<outbox, effects, faults>>

Census(w) ==
    /\ pc[w] = "census"
    /\ IF Dead = {}
       THEN notified' = [notified EXCEPT ![w] = FALSE] /\ UNCHANGED reported
       ELSE IF died[w] \/ ~ notified[w]
            THEN notified' = [notified EXCEPT ![w] = TRUE] /\ reported' = Dead
            ELSE UNCHANGED alarm
    /\ Leave(w)
    /\ Release(w, "absent")
    /\ UNCHANGED <<outbox, effects, faults>>

\* The census query rejects: the drain still succeeds.
CensusFails(w) ==
    /\ pc[w] = "census"
    /\ crashes < MaxCrashes
    /\ crashes' = crashes + 1
    /\ Leave(w)
    /\ Release(w, "absent")
    /\ UNCHANGED <<outbox, effects, alarm, stalls>>

\* DEAD_LETTER_RENOTIFY_MS goes by since the worker's last report.
DayPasses(w) ==
    /\ notified[w]
    /\ notified' = [notified EXCEPT ![w] = FALSE]
    /\ UNCHANGED <<outbox, effects, job, pc, mind, reported, faults>>

-----------------------------------------------------------------------------
(* Failures of the drain itself.                                           *)

Stop(w) ==
    /\ crashes < MaxCrashes
    /\ crashes' = crashes + 1
    /\ Leave(w)

\* The process dies: nobody renews the lock of its job, lastNotified is lost.
Crash(w) ==
    /\ pc[w] # "idle"
    /\ Stop(w)
    /\ job' = IF job.owner = w THEN [job EXCEPT !.owner = NoWorker] ELSE job
    /\ notified' = [notified EXCEPT ![w] = FALSE]
    /\ UNCHANGED <<outbox, effects, reported, stalls>>

\* markFailed, or markDone outside the try, rejects: dispatchPending throws
\* and the queue retries the job or, its attempts spent, drops it.
Abort(w) ==
    /\ \/ pc[w] = "fail"
       \/ pc[w] = "next" /\ \E e \in Events : IsNext(w, e) /\ Registry[e] = <<>>
    /\ Stop(w)
    /\ \E next \in {"waiting", "absent"} : Release(w, next)
    /\ UNCHANGED <<outbox, effects, alarm, stalls>>

-----------------------------------------------------------------------------
Drain(w) ==
    \/ NextEvent(w) \/ CheckHandler(w) \/ WriteHandler(w) \/ LinkHandler(w)
    \/ MarkDone(w) \/ MarkFailed(w) \/ EndOfBatch(w) \/ Census(w)

Next ==
    \/ \E e \in Events :
        \/ InsertEvent(e)
        \/ \E outcome \in {"committed", "rolledback"} : EndTransaction(e, outcome)
    \/ Tick
    \/ LoseLock
    \/ \E w \in Workers :
        \/ Take(w) \/ Drain(w) \/ Throw(w) \/ CensusFails(w) \/ DayPasses(w)
        \/ Crash(w) \/ Abort(w)

(***************************************************************************)
(* Fairness is that of the deployment: the scheduler ticks, the queue      *)
(* hands a waiting job to a worker and takes a dead worker's job back, a   *)
(* running drain goes on, days pass.  Failures are never fair.             *)
(***************************************************************************)
Fairness ==
    /\ WF_vars(Tick)
    /\ WF_vars(LoseLock /\ job.owner = NoWorker)
    /\ WF_vars(\E w \in Workers : Take(w))
    /\ \A w \in Workers : WF_vars(Drain(w)) /\ WF_vars(DayPasses(w))

Spec == Init /\ [][Next]_vars
FairSpec == Spec /\ Fairness

-----------------------------------------------------------------------------
(* Safety.                                                                 *)

\* An event marked DONE has every effect its handlers owe it, whatever was
\* retried, crashed or drained twice on the way: markDone comes last.
DoneMeansEffects ==
    \A s \in Slots :
        disp[s[1]].status = "DONE" /\ ~ Registry[s[1]][s[2]].optional => Exists(s)

\* The outbox guarantee: an event whose transaction has not committed has no
\* dispatch row and no effect, so a rolled back operation triggers nothing.
NothingFromUncommitted ==
    \A e \in Events : log[e] # "committed" =>
        /\ disp[e].status = "none"
        /\ \A s \in Slots : s[1] = e => made[s] = 0 /\ s \notin linked

\* A row is FAILED exactly while attempts are left and DEAD exactly when the
\* last one is spent, also when an overlapping drain writes a stale count.
AttemptsMatchStatus ==
    \A e \in Events :
        /\ disp[e].status = "none" => disp[e].attempts = 0
        /\ disp[e].status = "FAILED" => disp[e].attempts \in 1 .. MaxAttempts - 1
        /\ disp[e].status = "DEAD" => disp[e].attempts = MaxAttempts

\* The job id keeps two drains of one schema apart as long as no live worker
\* loses its lock; a crashed worker's successor starts after it is gone.
NoOverlap ==
    stalls = 0 => \A v, w \in Workers : pc[v] # "idle" /\ pc[w] # "idle" => v = w

\* Every record after the first has a cause.  The source_ref index lets none
\* through; a check-then-insert on entry_id takes a drain that has lost its lock
\* for each; a dossier, created before its link, takes a failed attempt at its
\* event or a crash for each, as long as drains do not overlap.
EveryRecordIsCaused ==
    \A s \in Slots :
        LET kind == Registry[s[1]][s[2]].kind
        IN  /\ kind = "sourceRef" => made[s] <= 1
            /\ kind = "entry" => made[s] <= 1 + stalls
            /\ kind = "openDossier" /\ stalls = 0 =>
                  made[s] <= 1 + disp[s[1]].attempts + crashes

\* One drain at a time implements the delivery contract.
Outcome(e) ==
    IF log[e] # "committed" THEN "unborn"
    ELSE CASE disp[e].status = "DONE" -> "handled"
           [] disp[e].status = "DEAD" -> "abandoned"
           [] OTHER -> "queued"

Contract == INSTANCE EventDelivery WITH
    Optional  <- {s \in Slots : Registry[s[1]][s[2]].optional},
    outcome   <- [e \in Events |-> Outcome(e)],
    failures  <- [e \in Events |-> disp[e].attempts],
    delivered <- {s \in Slots : Exists(s)}

\* Every step of an outbox whose drains do not overlap is a step of the
\* contract, or leaves what it promises unchanged.
ImplementsContract == Contract!Spec

-----------------------------------------------------------------------------
(* Liveness.                                                               *)

\* No committed event is lost or starved: not one that commits after events
\* with larger ids were drained, not one behind a failing batch of Limit rows.
EveryEventSettles ==
    \A e \in Events : log[e] = "committed" ~> disp[e].status \in Settled

\* A dead-lettered event is brought to an operator's attention, even when the
\* drain that gave up on it dies before its census.
DeadLettersAreReported ==
    \A e \in Events : disp[e].status = "DEAD" ~> (e \in reported \/ disp[e].status # "DEAD")
=============================================================================
