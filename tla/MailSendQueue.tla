---------------------------- MODULE MailSendQueue ----------------------------
(***************************************************************************)
(* The outgoing mail of one mailbox: rows of email_send_queue, the people  *)
(* who send, cancel and retry them, and the flush jobs that transmit them. *)
(*                                                                         *)
(* A flush claims a batch in one statement and then sends row after row,   *)
(* each statement committed by itself.  One job of a tenant runs at a time *)
(* as long as it keeps its lock; one that loses it runs on.  Mail of the   *)
(* sandbox, which is never transmitted, is left out.                       *)
(***************************************************************************)
EXTENDS Naturals, FiniteSets

CONSTANTS
    Messages, NoMessage,
    Flushers, NoFlusher,
    BatchLimit,     \* rows one claim takes
    HourlyLimit,    \* messages the mailbox may send in an hour
    MaxAttempts,
    MaxFaults,      \* bound: deaths, lost locks, failed statements, lost answers
    MaxPresses      \* bound: times people press Send or Retry again

ASSUME MailAssumption ==
    /\ NoMessage \notin Messages /\ NoFlusher \notin Flushers
    /\ BatchLimit \in Nat \ {0} /\ HourlyLimit \in Nat \ {0}
    /\ MaxAttempts \in Nat \ {0}
    /\ MaxFaults \in Nat /\ MaxPresses \in Nat
    /\ IsFiniteSet(Flushers)

VARIABLES
    status, attempts,   \* the row; attempts past MaxAttempts are not told apart
    wait,       \* what release_at waits for: nothing, a delay, the next hour
    aged,       \* rows SENDING and not updated for ten minutes
    recorded,   \* messages stored in the Sent folder
    draft,      \* drafts with the attachments staged on them
    used,       \* email_send_window: messages counted in this hour
    place, cur, \* where each flusher is, and the row it is sending
    batch,      \* the attempts of each row of its claim, 0 when it is not in it
    job,        \* the flusher that holds the lock of the job
    faults, presses,
    wire        \* history: copies of each message the mail host accepted

row     == <<status, attempts, wait, aged>>
flusher == <<place, cur, batch>>
book    == <<recorded, draft, used, wire>>
vars    == <<status, attempts, wait, aged, recorded, draft, used, place, cur,
             batch, job, faults, presses, wire>>

Settled == {"SENT", "FAILED", "CANCELLED"}
Statuses == {"none", "HELD", "QUEUED", "SENDING"} \cup Settled
Places == {"idle", "claim", "next", "throttle", "send", "count", "record",
           "attach", "mark", "again", "refuse"}

TypeOK ==
    /\ status \in [Messages -> Statuses]
    /\ attempts \in [Messages -> 0 .. MaxAttempts]
    /\ wait \in [Messages -> {"due", "delay", "hour"}]
    /\ aged \subseteq Messages /\ recorded \subseteq Messages /\ draft \subseteq Messages
    /\ used \in Nat
    /\ place \in [Flushers -> Places]
    /\ cur \in [Flushers -> Messages \cup {NoMessage}]
    /\ \A f \in Flushers : place[f] \notin {"idle", "claim", "next"} => cur[f] \in Messages
    /\ batch \in [Flushers -> [Messages -> 0 .. MaxAttempts]]
    /\ job \in Flushers \cup {NoFlusher}
    /\ faults \in 0 .. MaxFaults /\ presses \in 0 .. MaxPresses
    /\ wire \in [Messages -> Nat]

Init ==
    /\ status = [m \in Messages |-> "none"]
    /\ attempts = [m \in Messages |-> 0]
    /\ wait = [m \in Messages |-> "due"]
    /\ aged = {} /\ recorded = {} /\ draft = Messages
    /\ used = 0
    /\ place = [f \in Flushers |-> "idle"]
    /\ cur = [f \in Flushers |-> NoMessage]
    /\ batch = [f \in Flushers |-> [m \in Messages |-> 0]]
    /\ job = NoFlusher
    /\ faults = 0 /\ presses = 0
    /\ wire = [m \in Messages |-> 0]

Fault == faults < MaxFaults /\ faults' = faults + 1
Goto(f, p) == place' = [place EXCEPT ![f] = p]
\* An update of the row of m; every one stamps updated_at.
Write(m, s, w) ==
    /\ status' = [status EXCEPT ![m] = s]
    /\ wait' = [wait EXCEPT ![m] = w]
    /\ aged' = aged \ {m}
\* The flusher is done with the row it is sending.
Leave(f) == Goto(f, "next") /\ cur' = [cur EXCEPT ![f] = NoMessage]

-----------------------------------------------------------------------------
(* People. *)

\* send: the row is held for the undo window, which may be nil, or until its
\* schedule.
Enqueue(m) ==
    /\ status[m] = "none" /\ used + 1 <= HourlyLimit
    /\ \E w \in {"due", "delay"} : Write(m, "HELD", w)
    /\ UNCHANGED <<attempts, flusher, book, job, faults, presses>>

\* send again with the same idempotency key: only updated_at moves.
Resubmit(m) ==
    /\ status[m] # "none" /\ used + 1 <= HourlyLimit /\ presses < MaxPresses
    /\ aged' = aged \ {m} /\ presses' = presses + 1
    /\ UNCHANGED <<status, attempts, wait, flusher, book, job, faults>>

\* Mutant: the row may be in the hands of a flusher.
CancelInFlight(m) ==
    /\ status[m] \in {"HELD", "SENDING"}
    /\ Write(m, "CANCELLED", "due")
    /\ UNCHANGED <<attempts, flusher, book, job, faults, presses>>

Cancel(m) ==
    /\ status[m] = "HELD"
    /\ Write(m, "CANCELLED", "due")
    /\ UNCHANGED <<attempts, flusher, book, job, faults, presses>>

\* Mutant: the UPDATE trusts the status read before it.
RetryUnguarded(m) ==
    /\ status[m] # "none" /\ presses < MaxPresses
    /\ Write(m, "QUEUED", "due")
    /\ attempts' = [attempts EXCEPT ![m] = 0] /\ presses' = presses + 1
    /\ UNCHANGED <<flusher, book, job, faults>>

Retry(m) ==
    /\ status[m] = "FAILED" /\ presses < MaxPresses
    /\ Write(m, "QUEUED", "due")
    /\ attempts' = [attempts EXCEPT ![m] = 0]
    /\ presses' = presses + 1
    /\ UNCHANGED <<flusher, book, job, faults>>

-----------------------------------------------------------------------------
(* Time. *)

Release(m) ==
    /\ wait[m] = "delay"
    /\ wait' = [wait EXCEPT ![m] = "due"]
    /\ UNCHANGED <<status, attempts, aged, flusher, book, job, faults, presses>>

NextHour ==
    /\ used' = 0
    /\ wait' = [m \in Messages |-> IF wait[m] = "hour" THEN "due" ELSE wait[m]]
    /\ UNCHANGED <<status, attempts, aged, recorded, draft, wire, flusher, job, faults, presses>>

Age(m) ==
    /\ status[m] = "SENDING"
    /\ aged' = aged \cup {m}
    /\ UNCHANGED <<status, attempts, wait, flusher, book, job, faults, presses>>

-----------------------------------------------------------------------------
(* The flush job. *)

\* A flush takes the first free slot: which one says nothing.
Idle == LET free == {f \in Flushers : place[f] = "idle"}
        IN  {f \in free : f = CHOOSE g \in free : TRUE}

\* Mutant: the last attempt but one is taken for the last.
StalledEarly == {m \in aged : status[m] = "SENDING" /\ attempts[m] + 1 < MaxAttempts}

Stalled == {m \in aged : status[m] = "SENDING" /\ attempts[m] < MaxAttempts}

\* A tick starts a flush unless one holds the job; first it requeues what looks
\* stalled, and goes on when that statement fails.
Start(f) ==
    /\ job = NoFlusher /\ f \in Idle
    /\ job' = f /\ Goto(f, "claim")
    /\ \/ /\ status' = [m \in Messages |-> IF m \in Stalled THEN "QUEUED" ELSE status[m]]
          /\ wait' = [m \in Messages |-> IF m \in Stalled THEN "due" ELSE wait[m]]
          /\ aged' = aged \ Stalled /\ UNCHANGED faults
       \/ Fault /\ UNCHANGED <<status, wait, aged>>
    /\ UNCHANGED <<attempts, cur, batch, book, presses>>

Due == {m \in Messages : status[m] \in {"HELD", "QUEUED"} /\ wait[m] = "due"}
Counted(m) == IF attempts[m] < MaxAttempts THEN attempts[m] + 1 ELSE MaxAttempts

\* claimDue: one statement, which skips the rows another claim has locked.
Claim(f) ==
    /\ place[f] = "claim" /\ Goto(f, "next")
    /\ \E S \in SUBSET Due :
          /\ S = Due \/ Cardinality(S) = BatchLimit
          /\ Cardinality(S) <= BatchLimit
          /\ status' = [m \in Messages |-> IF m \in S THEN "SENDING" ELSE status[m]]
          /\ attempts' = [m \in Messages |-> IF m \in S THEN Counted(m) ELSE attempts[m]]
          /\ aged' = aged \ S
          /\ batch' = [batch EXCEPT ![f] = [m \in Messages |-> IF m \in S THEN Counted(m) ELSE 0]]
    /\ UNCHANGED <<wait, cur, book, job, faults, presses>>

\* Mutant: the cap is off by one.
TakeOneMore(f) ==
    /\ place[f] = "next" /\ used <= HourlyLimit /\ Goto(f, "send")
    /\ \E m \in Messages : batch[f][m] # 0 /\ cur' = [cur EXCEPT ![f] = m]
    /\ UNCHANGED <<row, batch, book, job, faults, presses>>

\* flushOne reads the mailbox, which may be gone, and what is left of its hour.
Take(f) ==
    /\ place[f] = "next"
    /\ \E m \in Messages : batch[f][m] # 0 /\ cur' = [cur EXCEPT ![f] = m]
    /\ \/ Goto(f, "refuse")
       \/ Goto(f, IF used + 1 > HourlyLimit THEN "throttle" ELSE "send")
    /\ UNCHANGED <<row, batch, book, job, faults, presses>>

End(f) ==
    /\ place[f] = "next" /\ \A m \in Messages : batch[f][m] = 0
    /\ Goto(f, "idle") /\ job' = IF job = f THEN NoFlusher ELSE job
    /\ UNCHANGED <<row, cur, batch, book, faults, presses>>

Drop(f) == batch' = [batch EXCEPT ![f] = [@ EXCEPT ![cur[f]] = 0]]

\* Mutant: a throttled row goes on to be sent, the return is missing.
ThrottleOnward(f) ==
    /\ place[f] = "throttle"
    /\ Write(cur[f], "QUEUED", "hour")
    /\ Goto(f, "send") /\ cur' = [cur EXCEPT ![f] = NoMessage] /\ Drop(f)
    /\ UNCHANGED <<attempts, book, job, faults, presses>>

Throttle(f) ==
    /\ place[f] = "throttle"
    /\ Write(cur[f], "QUEUED", "hour")
    /\ Leave(f) /\ Drop(f)
    /\ UNCHANGED <<attempts, book, job, faults, presses>>

\* sendEmail: accepted; refused for good or for now; accepted, but the answer of
\* the host is lost.
Transmit(f) ==
    /\ place[f] = "send"
    /\ \/ /\ wire' = [wire EXCEPT ![cur[f]] = @ + 1]
          /\ \/ Goto(f, "count") /\ UNCHANGED faults
             \/ Goto(f, "again") /\ Fault
       \/ /\ \E p \in {"refuse", "again"} : Goto(f, p)
          /\ UNCHANGED <<wire, faults>>
    /\ UNCHANGED <<row, cur, batch, recorded, draft, used, job, presses>>

\* recordSent.
Count(f) ==
    /\ place[f] = "count"
    /\ used' = used + 1 /\ Goto(f, "record")
    /\ UNCHANGED <<row, cur, batch, recorded, draft, wire, job, faults, presses>>

\* recordOutbound: the message is stored once; a copy stored before yields none,
\* and then the draft is left as it is.
Record(f) ==
    /\ place[f] = "record"
    /\ recorded' = recorded \cup {cur[f]}
    /\ Goto(f, IF cur[f] \in recorded THEN "mark" ELSE "attach")
    /\ UNCHANGED <<row, cur, batch, draft, used, wire, job, faults, presses>>

\* attachToMessage and deleteDraft.
Attach(f) ==
    /\ place[f] = "attach"
    /\ draft' = draft \ {cur[f]} /\ Goto(f, "mark")
    /\ UNCHANGED <<row, cur, batch, recorded, used, wire, job, faults, presses>>

\* markSent, whatever the status is by now.
MarkSent(f) ==
    /\ place[f] = "mark"
    /\ Write(cur[f], "SENT", "due")
    /\ Leave(f) /\ Drop(f)
    /\ UNCHANGED <<attempts, book, job, faults, presses>>

\* One of the statements after the transmission fails; a message may have been
\* stored before recordOutbound does.
Stumble(f) ==
    /\ place[f] \in {"count", "record", "attach", "mark"}
    /\ Fault /\ Goto(f, "again")
    /\ recorded' \in {recorded, IF place[f] = "record" THEN recorded \cup {cur[f]} ELSE recorded}
    /\ UNCHANGED <<row, cur, batch, draft, used, wire, job, presses>>

\* retryPlan, from the attempts of the claim, and markAttemptFailed.
MarkFailed(f) ==
    /\ place[f] \in {"again", "refuse"}
    /\ IF place[f] = "refuse" \/ batch[f][cur[f]] >= MaxAttempts
         THEN Write(cur[f], "FAILED", wait[cur[f]])
         ELSE Write(cur[f], "QUEUED", "delay")
    /\ Leave(f) /\ Drop(f)
    /\ UNCHANGED <<attempts, book, job, faults, presses>>

\* The process dies, or a statement outside the catch fails: the rest of the
\* batch is dropped.
Die(f) ==
    /\ place[f] # "idle" /\ Fault
    /\ Goto(f, "idle") /\ cur' = [cur EXCEPT ![f] = NoMessage]
    /\ batch' = [batch EXCEPT ![f] = [m \in Messages |-> 0]]
    /\ job' = IF job = f THEN NoFlusher ELSE job
    /\ UNCHANGED <<row, book, presses>>

\* The lock of the job is not renewed in time, and its flusher does not know.
LoseLock ==
    /\ job # NoFlusher /\ Fault /\ job' = NoFlusher
    /\ UNCHANGED <<row, flusher, book, presses>>

Flush(f) ==
    \/ Claim(f) \/ Take(f) \/ End(f) \/ Throttle(f) \/ Transmit(f)
    \/ Count(f) \/ Record(f) \/ Attach(f) \/ MarkSent(f) \/ MarkFailed(f)

Next ==
    \/ \E m \in Messages : Enqueue(m) \/ Resubmit(m) \/ Cancel(m) \/ Retry(m)
                           \/ Release(m) \/ Age(m)
    \/ NextHour \/ LoseLock
    \/ \E f \in Flushers : Start(f) \/ Flush(f) \/ Stumble(f) \/ Die(f)

\* The scheduler ticks for ever, a flusher goes on until it dies, time passes.
Spec == Init /\ [][Next]_vars
FairSpec ==
    /\ Spec /\ WF_vars(NextHour) /\ WF_vars(\E f \in Flushers : Start(f))
    /\ \A f \in Flushers : WF_vars(Flush(f))
    /\ \A m \in Messages : WF_vars(Release(m)) /\ WF_vars(Age(m))

-----------------------------------------------------------------------------
(* Properties. *)

\* A cancelled message never left and no flusher has it: of a cancel and a flush
\* that race for a row, one wins (outbox.repo.js, cancel and claimDue).
CancelledStaysHere ==
    \A m \in Messages : status[m] = "CANCELLED" =>
        wire[m] = 0 /\ \A f \in Flushers : batch[f][m] = 0

\* Every copy after the first is owed to a fault of its own: requeueing, late
\* outcomes written over newer ones, and retries add none.  Without a fault the
\* row says whether the message has left: only one that did not leave is queued
\* again or failed.
FaultsBoundCopies ==
    \A m \in Messages :
        /\ wire[m] <= 1 + faults
        /\ faults = 0 /\ status[m] = "SENT" => wire[m] = 1
        /\ faults = 0 /\ status[m] \in {"HELD", "QUEUED", "FAILED"} => wire[m] = 0

\* The messages counted in an hour pass the cap by one for each fault at most:
\* only flushers side by side pass it between them (checkSendAllowance).
HourKeepsItsCap == used <= HourlyLimit + faults

\* The row nothing picks up: its flusher is gone and its attempts are spent.
Stuck(m) ==
    /\ status[m] = "SENDING" /\ attempts[m] = MaxAttempts /\ faults > 0
    /\ \A f \in Flushers : batch[f][m] = 0

\* A message held, queued or being sent comes to an end, unless its flusher was
\* lost on the last attempt.
EveryMessageSettles ==
    \A m \in Messages :
        status[m] \in {"HELD", "QUEUED", "SENDING"} ~> (status[m] \in Settled \/ Stuck(m))
=============================================================================
