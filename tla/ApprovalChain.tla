---------------------------- MODULE ApprovalChain ----------------------------
(***************************************************************************)
(* The approval-chain executor, with one purchase order as its record.     *)
(*                                                                         *)
(* Issuing the order opens the first applicable step of the tenant's       *)
(* workflow as an approval task, in the transaction that issues it.  A     *)
(* decision on a task is a sequence of autocommitted queries: read the     *)
(* task, check the actor, write the decision, read the steps again, open   *)
(* the next task or finalise the order.  The order can also be moved       *)
(* directly, by a transition that a pending task blocks; it reads the      *)
(* order before its own transaction begins.  Requests of several users     *)
(* interleave between any two of these queries, and any of them may fail.  *)
(***************************************************************************)
EXTENDS Naturals, Sequences

CONSTANTS
    Users, NoUser,
    Steps,       \* step_seq values the designer may use
    KindOf,      \* step_kind of each step
    Bands,       \* min_amount_xaf and max_amount_xaf of each step
    Eligible,    \* <<user, step>>: role, scope and capability fit, or the CEO
    Amounts,     \* totals the order may be issued with
    Unknown,     \* a total that is not computed yet, or an absent bound
    Sessions,    \* requests in flight
    MaxTasks,    \* bound: approval tasks of the order
    MaxFaults,   \* bound: requests cut short by a crash or a rejected query
    MaxEdits     \* bound: edits of the workflow while the chain runs

Verbs    == {"validate", "approve", "reject", "skip"}
Cleared  == {"VALIDATED", "APPROVED", "SKIPPED"}
Statuses == {"DRAFT", "ISSUED_LOCKED", "APPROVED_LOCKED", "CANCELLED"}

ASSUME ChainAssumption ==
    /\ NoUser \notin Users
    /\ Steps \subseteq Nat \ {0}
    /\ KindOf \in [Steps -> {"VALIDATE", "APPROVE"}]
    /\ Unknown \notin Nat
    /\ Bands \in [Steps -> [min : Nat \cup {Unknown}, max : Nat \cup {Unknown}]]
    /\ Amounts \subseteq Nat \cup {Unknown}
    /\ Eligible \subseteq Users \X Steps
    /\ MaxTasks \in Nat /\ MaxFaults \in Nat /\ MaxEdits \in Nat

VARIABLES
    steps,     \* workflow_step rows of the workflow bound to po.issued
    amount,    \* total_ttc of the order
    status,    \* purchase_order.status
    maker,     \* earliest attributed actor of the order in event_log
    tasks,     \* approval_task rows of the order, in creation order
    req,       \* what each request in flight has read and does next
    faults, edits,
    due,       \* history: per chain, its steps, less those since removed
    decisions, \* history: every decision written, <<task, status, user>>
    approvedBy \* history: how the order last became APPROVED_LOCKED

record  == <<status, maker>>
flow    == <<steps, edits>>
history == <<due, decisions, approvedBy>>
vars    == <<steps, amount, status, maker, tasks, req, faults, edits,
             due, decisions, approvedBy>>

-----------------------------------------------------------------------------
(* Routing: pure functions of the steps and the amount.                    *)

\* An unknown amount applies to every step, an absent bound bounds nothing.
StepApplies(s, a) ==
    \/ a = Unknown
    \/ /\ Bands[s].min = Unknown \/ a >= Bands[s].min
       /\ Bands[s].max = Unknown \/ a <= Bands[s].max

Applicable(ss, a) == {s \in ss : StepApplies(s, a)}

\* Mutant: the applicable steps are sorted the wrong way round.
FollowingDescending(ss, after, a) ==
    LET later == {s \in Applicable(ss, a) : s > after}
    IN  {s \in later : \A r \in later : r <= s}

\* The smallest applicable step after a given one, as a set of at most one.
Following(ss, after, a) ==
    LET later == {s \in Applicable(ss, a) : s > after}
    IN  {s \in later : \A r \in later : s <= r}

\* The verbs a step accepts, and the status each of them writes.
KindActions == [VALIDATE |-> {"validate", "reject", "skip"},
                APPROVE  |-> {"approve", "reject", "skip"}]

\* Mutant: the verb of the request is written as the status.
ActionVerbatim == [v \in Verbs |-> v]

ActionStatus == [validate |-> "VALIDATED", approve |-> "APPROVED",
                 reject |-> "REJECTED", skip |-> "SKIPPED"]

NextStatus == [DRAFT           |-> {"ISSUED_LOCKED", "CANCELLED"},
               ISSUED_LOCKED   |-> {"APPROVED_LOCKED", "CANCELLED"},
               APPROVED_LOCKED |-> {"CANCELLED"},
               CANCELLED       |-> {}]

-----------------------------------------------------------------------------
Task == [step   : Steps,
         chain  : Nat \ {0},
         amount : Amounts,
         status : {"PENDING", "VALIDATED", "APPROVED", "REJECTED", "SKIPPED"}]

\* pc: idle; decide, advance, open, dispatch (a decision); apply (a transition)
Request ==
    [pc : {"idle", "decide", "advance", "open", "dispatch", "apply"},
     user : Users \cup {NoUser}, task : Nat, verb : Verbs,
     next : Steps \cup {0}, to : Statuses, viaChain : BOOLEAN]

Idle == [pc |-> "idle", user |-> NoUser, task |-> 0, verb |-> "skip",
         next |-> 0, to |-> "DRAFT", viaChain |-> FALSE]

TypeOK ==
    /\ steps \subseteq Steps
    /\ amount \in Amounts
    /\ status \in Statuses
    /\ maker \in Users \cup {NoUser}
    /\ tasks \in Seq(Task)
    /\ req \in [Sessions -> Request]
    /\ faults \in 0 .. MaxFaults
    /\ edits \in 0 .. MaxEdits
    /\ due \in Seq(SUBSET Steps)
    /\ decisions \subseteq (Nat \X {"VALIDATED", "APPROVED", "REJECTED", "SKIPPED"} \X Users)
    /\ approvedBy \in {"nobody", "chain", "transition"}

Init ==
    /\ steps \in SUBSET Steps
    /\ amount \in Amounts
    /\ status = "DRAFT"
    /\ maker = NoUser
    /\ tasks = <<>>
    /\ req = [r \in Sessions |-> Idle]
    /\ faults = 0 /\ edits = 0
    /\ due = <<>>
    /\ decisions = {}
    /\ approvedBy = "nobody"

Pending == {t \in DOMAIN tasks : tasks[t].status = "PENDING"}

\* The request goes on to another query, or ends.
Goto(r, pc)  == req' = [req EXCEPT ![r].pc = pc]
Finish(r)    == req' = [req EXCEPT ![r] = Idle]

-----------------------------------------------------------------------------
(* act: the decision on a task.                                            *)

\* The task is read, and the verb, the actor's eligibility and maker-checker
\* are checked against what was read; a refusal changes nothing.
ReadTask(r, u, t, verb) ==
    /\ req[r].pc = "idle"
    /\ tasks[t].status = "PENDING"
    /\ verb \in KindActions[KindOf[tasks[t].step]]
    /\ <<u, tasks[t].step>> \in Eligible
    /\ u # maker
    /\ req' = [req EXCEPT ![r] = [Idle EXCEPT !.pc = "decide", !.user = u,
                                              !.task = t, !.verb = verb]]
    /\ UNCHANGED <<amount, record, tasks, flow, faults, history>>

\* UPDATE approval_task by id, whatever its status has become since.  A
\* rejected purchase order has no handler: it keeps its status.
Decide(r) ==
    LET t == req[r].task
        s == ActionStatus[req[r].verb]
    IN  /\ req[r].pc = "decide"
        /\ tasks' = [tasks EXCEPT ![t].status = s]
        /\ decisions' = decisions \cup {<<t, s, req[r].user>>}
        /\ IF req[r].verb = "reject" THEN Finish(r) ELSE Goto(r, "advance")
        /\ UNCHANGED <<amount, record, flow, faults, due, approvedBy>>

\* Mutant: a cleared task completes its chain.
AdvanceToEnd(r) ==
    /\ req[r].pc = "advance"
    /\ Goto(r, "dispatch")
    /\ UNCHANGED <<amount, record, tasks, flow, faults, history>>

\* The steps are read again: the next one that applies, or the end.
Advance(r) ==
    LET task == tasks[req[r].task]
        next == Following(steps, task.step, task.amount)
    IN  /\ req[r].pc = "advance"
        /\ \/ next = {} /\ Goto(r, "dispatch")
           \/ \E s \in next :
                 req' = [req EXCEPT ![r].pc = "open", ![r].next = s]
        /\ UNCHANGED <<amount, record, tasks, flow, faults, history>>

\* INSERT of the next task; its step must still exist.
OpenNext(r) ==
    LET task == tasks[req[r].task]
    IN  /\ req[r].pc = "open"
        /\ Finish(r)
        /\ IF req[r].next \in steps
           THEN /\ Len(tasks) < MaxTasks
                /\ tasks' = Append(tasks, [task EXCEPT !.step = req[r].next,
                                                       !.status = "PENDING"])
           ELSE UNCHANGED tasks
        /\ UNCHANGED <<amount, record, flow, faults, history>>

\* Mutant: no handler is registered for the order's prefix.
DispatchUnregistered(r) ==
    /\ req[r].pc = "dispatch"
    /\ Finish(r)
    /\ UNCHANGED <<amount, record, tasks, flow, faults, history>>

\* The chain is complete: the order's handler starts its transition.
Dispatch(r) ==
    /\ req[r].pc = "dispatch"
    /\ IF "APPROVED_LOCKED" \in NextStatus[status]
       THEN req' = [req EXCEPT ![r].pc = "apply", ![r].to = "APPROVED_LOCKED",
                               ![r].viaChain = TRUE]
       ELSE Finish(r)
    /\ UNCHANGED <<amount, record, tasks, flow, faults, history>>

-----------------------------------------------------------------------------
(* transition: the order is moved directly.                                *)

\* The order is read and checked; a pending task blocks the approval.
ReadOrder(r, u, to) ==
    /\ req[r].pc = "idle"
    /\ to \in NextStatus[status]
    /\ to = "APPROVED_LOCKED" => Pending = {}
    /\ req' = [req EXCEPT ![r] = [Idle EXCEPT !.pc = "apply", !.user = u, !.to = to]]
    /\ UNCHANGED <<amount, record, tasks, flow, faults, history>>

\* start: a pending task of the order absorbs the new chain.
StartChain ==
    LET first == Following(steps, 0, amount)
        chain == Len(due) + 1
    IN  IF Pending # {} \/ first = {}
        THEN UNCHANGED <<tasks, due>>
        ELSE /\ Len(tasks) < MaxTasks
             /\ \E s \in first :
                  tasks' = Append(tasks, [step |-> s, chain |-> chain,
                                          amount |-> amount, status |-> "PENDING"])
             /\ due' = Append(due, Applicable(steps, amount))

\* The transaction: status, the chain when it issues, the event with its actor.
ApplyTransition(r) ==
    LET to == req[r].to
    IN  /\ req[r].pc = "apply"
        /\ status' = to
        /\ maker' = IF maker = NoUser THEN req[r].user ELSE maker
        /\ IF to = "ISSUED_LOCKED" THEN StartChain ELSE UNCHANGED <<tasks, due>>
        /\ approvedBy' = IF to = "APPROVED_LOCKED"
                         THEN IF req[r].viaChain THEN "chain" ELSE "transition"
                         ELSE approvedBy
        /\ Finish(r)
        /\ UNCHANGED <<amount, flow, faults, decisions>>

-----------------------------------------------------------------------------
(* The workflow designer, and failures.                                    *)

\* removeStep: a step some task points at is protected by its foreign key.
RemoveStep(s) ==
    /\ edits < MaxEdits /\ edits' = edits + 1
    /\ s \in steps
    /\ \A t \in DOMAIN tasks : tasks[t].step # s
    /\ steps' = steps \ {s}
    /\ due' = [c \in DOMAIN due |-> due[c] \ {s}]
    /\ UNCHANGED <<amount, record, tasks, req, faults, decisions, approvedBy>>

AddStep(s) ==
    /\ edits < MaxEdits /\ edits' = edits + 1
    /\ s \notin steps
    /\ steps' = steps \cup {s}
    /\ UNCHANGED <<amount, record, tasks, req, faults, history>>

\* A query of the request rejects or its process dies: what is written stays.
Fail(r) ==
    /\ req[r].pc # "idle"
    /\ faults < MaxFaults /\ faults' = faults + 1
    /\ Finish(r)
    /\ UNCHANGED <<amount, record, tasks, flow, history>>

-----------------------------------------------------------------------------
Continue(r) == Decide(r) \/ Advance(r) \/ OpenNext(r) \/ Dispatch(r) \/ ApplyTransition(r)

Next ==
    \/ \E r \in Sessions :
        \/ \E u \in Users, t \in DOMAIN tasks, verb \in Verbs : ReadTask(r, u, t, verb)
        \/ \E u \in Users, to \in Statuses : ReadOrder(r, u, to)
        \/ Continue(r)
        \/ Fail(r)
    \/ \E s \in Steps : RemoveStep(s) \/ AddStep(s)

Spec == Init /\ [][Next]_vars

\* A request that was accepted runs on; nobody is obliged to decide a task.
FairSpec == Spec /\ \A r \in Sessions : WF_vars(Continue(r))

-----------------------------------------------------------------------------
\* A chain is walked in order and without gaps: a task exists only if every
\* step due before it was cleared by someone, whatever raced or was edited.
NoStepSkipped ==
    \A t \in DOMAIN tasks : \A s \in due[tasks[t].chain] :
        s < tasks[t].step =>
            \E d \in decisions :
                /\ tasks[d[1]].chain = tasks[t].chain
                /\ tasks[d[1]].step = s
                /\ d[2] \in Cleared

\* The chain approves an order only when every step due has been cleared, and an
\* order whose total is not known yet only after every step of the workflow,
\* whatever the bands.
ChainApprovesComplete ==
    [][\A r \in Sessions :
        req[r].pc = "apply" /\ req[r].viaChain /\ approvedBy' = "chain" /\ req'[r].pc = "idle" =>
            LET c == tasks[req[r].task].chain
                Needed == due[c] \cup IF amount = Unknown /\ edits = 0 THEN steps ELSE {}
            IN  \A s \in Needed : \E d \in decisions :
                    tasks[d[1]].chain = c /\ tasks[d[1]].step = s /\ d[2] \in Cleared]_vars

\* The order has tasks, and all of them are cleared.
AllCleared == tasks # <<>> /\ \A t \in DOMAIN tasks : tasks[t].status \in Cleared

\* The bound of the model, and nothing else, keeps a task from being opened.
Bounded == Len(tasks) = MaxTasks /\ \E r \in Sessions : req[r].pc = "open"

\* No chain stalls half way or at its end: an issued order whose tasks are all
\* cleared has its next task opened, or is moved on, whatever races it, unless a
\* request failed or the workflow was edited on the way.
ClearedChainMovesOn ==
    (AllCleared /\ status = "ISSUED_LOCKED") ~>
        (~AllCleared \/ status # "ISSUED_LOCKED" \/ faults > 0 \/ edits > 0 \/ Bounded)
=============================================================================
