-------------------------- MODULE ApprovalChainProofs --------------------------
(* Proofs about the approval chain: its types, that no step due is skipped,   *)
(* and that the chain approves an order only when all of them are cleared;    *)
(* for any workflow, grants, number of users and of requests in flight.       *)
EXTENDS ApprovalChain, WellFoundedInduction, NaturalsInduction, TLAPS

\* Somebody cleared this task.
ClearedTask(t) == \E d \in decisions : d[1] = t /\ d[2] \in Cleared

\* The chain of a task has nothing due after its step and before a bound.
NothingBetween(t, bound) ==
    \A s \in due[tasks[t].chain] : s < bound => s <= tasks[t].step

ViaChain(r) == req[r].pc = "apply" /\ req[r].viaChain

\* What a request has read is still true enough for what it does next.
ReqInv(r) ==
    /\ req[r].pc \in {"decide", "advance", "open", "dispatch"} \/ ViaChain(r) =>
          req[r].task \in DOMAIN tasks
    /\ req[r].pc = "decide" => req[r].user \in Users
    /\ req[r].pc \in {"advance", "open", "dispatch"} \/ ViaChain(r) => ClearedTask(req[r].task)
    /\ req[r].pc = "open" => req[r].next \in Steps /\ NothingBetween(req[r].task, req[r].next)
    /\ req[r].pc = "dispatch" \/ ViaChain(r) =>
          \A s \in due[tasks[req[r].task].chain] : s <= tasks[req[r].task].step

\* The steps due are steps of the workflow that apply, and all of them until
\* the workflow is edited.
DueInv ==
    \A c \in DOMAIN due :
        /\ due[c] \subseteq Applicable(steps, amount)
        /\ edits = 0 => due[c] = Applicable(steps, amount)

TaskInv ==
    /\ \A t \in DOMAIN tasks : tasks[t].chain \in DOMAIN due /\ tasks[t].amount = amount
    /\ \A d \in decisions : d[1] \in DOMAIN tasks

Inv == TypeOK /\ DueInv /\ TaskInv /\ NoStepSkipped /\ \A r \in Sessions : ReqInv(r)

-----------------------------------------------------------------------------
\* Tasks and decisions are only added, and steps due only taken away.
Grows ==
    /\ DOMAIN tasks \subseteq DOMAIN tasks'
    /\ \A t \in DOMAIN tasks : tasks'[t].step = tasks[t].step /\ tasks'[t].chain = tasks[t].chain
    /\ DOMAIN due \subseteq DOMAIN due'
    /\ \A c \in DOMAIN due : due'[c] \subseteq due[c]
    /\ decisions \subseteq decisions'

\* A request that does nothing meanwhile still finds what it relies on.
LEMMA Waits ==
    ASSUME Inv, Grows, NEW r \in Sessions, req'[r] = req[r]
    PROVE  ReqInv(r)'
  <1>1. \A t \in DOMAIN tasks : due'[tasks'[t].chain] \subseteq due[tasks[t].chain]
    BY DEF Inv, TaskInv, Grows
  <1>2. \A t \in DOMAIN tasks : ClearedTask(t) => ClearedTask(t)'
    BY DEF Grows, ClearedTask
  <1>3. ReqInv(r)
    BY DEF Inv
  <1> QED BY <1>1, <1>2, <1>3 DEF ReqInv, ViaChain, NothingBetween, Grows

\* The steps before a task that was there already stay cleared.
LEMMA OldTask ==
    ASSUME Inv, Grows, NEW t \in DOMAIN tasks
    PROVE  \A s \in due'[tasks'[t].chain] : s < tasks'[t].step =>
               \E d \in decisions' : /\ tasks'[d[1]].chain = tasks'[t].chain
                                     /\ tasks'[d[1]].step = s /\ d[2] \in Cleared
  <1>1. /\ tasks'[t].chain = tasks[t].chain /\ tasks'[t].step = tasks[t].step
        /\ due'[tasks[t].chain] \subseteq due[tasks[t].chain]
    BY DEF Inv, TaskInv, Grows
  <1> TAKE s \in due'[tasks'[t].chain]
  <1> HAVE s < tasks'[t].step
  <1>2. PICK d \in decisions : /\ tasks[d[1]].chain = tasks[t].chain
                               /\ tasks[d[1]].step = s /\ d[2] \in Cleared
    BY <1>1 DEF Inv, NoStepSkipped
  <1>3. d[1] \in DOMAIN tasks /\ d \in decisions'
    BY <1>2 DEF Inv, TaskInv, Grows
  <1> QED BY <1>1, <1>2, <1>3 DEF Grows

\* The step that follows a task leaves none due between them.
LEMMA FollowingStep ==
    ASSUME NEW ss \in SUBSET Steps, NEW after \in Nat, NEW a, NEW s \in Following(ss, after, a)
    PROVE  /\ s \in ss /\ s > after /\ \A q \in Applicable(ss, a) : q < s => q <= after
  BY ChainAssumption DEF Following, Applicable

LEMMA LeastOf ==
    ASSUME NEW S \in SUBSET Nat, S # {}
    PROVE  \E s \in S : \A q \in S : s <= q
  <1> DEFINE R == OpToRel(<, Nat)
  <1>1. IsWellFoundedOn(R, Nat)
    BY NatLessThanWellFounded
  <1>2. \A x, y \in Nat : ~(<<x, y>> \in R) => y <= x
    BY DEF OpToRel
  <1> HIDE DEF R
  <1>3. PICK s \in S : \A q \in S : ~(<<q, s>> \in R)
    BY <1>1, WFMin
  <1> QED BY <1>2, <1>3

\* No step follows: none of those that apply comes after the task.
LEMMA LastStep ==
    ASSUME NEW ss \in SUBSET Steps, NEW after \in Nat, NEW a, Following(ss, after, a) = {}
    PROVE  \A s \in Applicable(ss, a) : s <= after
  <1> DEFINE later == {s \in Applicable(ss, a) : s > after}
  <1>1. later \in SUBSET Nat /\ Applicable(ss, a) \subseteq Nat
    BY ChainAssumption DEF Applicable
  <1>2. Following(ss, after, a) = {s \in later : \A q \in later : s <= q}
    BY DEF Following
  <1>3. later = {}
    <2> HIDE DEF later
    <2> QED BY <1>1, <1>2, LeastOf
  <1> QED BY <1>1, <1>3

-----------------------------------------------------------------------------
(* Types. *)

LEMMA TaskType ==
    ASSUME TypeOK, NEW t \in DOMAIN tasks
    PROVE  /\ tasks[t] \in Task /\ t \in Nat /\ DOMAIN tasks = 1 .. Len(tasks) /\ Len(tasks) \in Nat
           /\ tasks[t].step \in Steps /\ tasks[t].chain \in Nat \ {0} /\ tasks[t].amount \in Amounts
  <1>1. tasks \in Seq(Task)
    BY DEF TypeOK
  <1>2. tasks[t] \in Task /\ t \in Nat /\ DOMAIN tasks = 1 .. Len(tasks) /\ Len(tasks) \in Nat
    BY <1>1
  <1> QED BY <1>2 DEF Task

LEMMA RequestType ==
    ASSUME TypeOK, NEW r \in Sessions
    PROVE  /\ Finish(r) => req' \in [Sessions -> Request]
           /\ \A pc \in {"advance", "open", "dispatch", "apply"} :
                  Goto(r, pc) => req' \in [Sessions -> Request]
  <1>1. Idle \in Request
    BY DEF Idle, Request, Verbs, Statuses
  <1>2. Finish(r) => req' \in [Sessions -> Request]
    BY <1>1 DEF Finish, TypeOK
  <1>3. ASSUME NEW pc \in {"advance", "open", "dispatch", "apply"}, Goto(r, pc)
        PROVE  req' \in [Sessions -> Request]
    <2>1. req[r] \in Request
      BY DEF TypeOK
    <2>2. [req[r] EXCEPT !.pc = pc] \in Request
      BY <2>1 DEF Request
    <2> QED BY <1>3, <2>2 DEF Goto, TypeOK
  <1> QED BY <1>2, <1>3

\* One more task.
LEMMA AddTask ==
    ASSUME TypeOK, NEW new \in Task, tasks' = Append(tasks, new)
    PROVE  /\ tasks' \in Seq(Task) /\ Len(tasks) \in Nat
           /\ DOMAIN tasks = 1 .. Len(tasks) /\ DOMAIN tasks' = 1 .. Len(tasks) + 1
           /\ tasks'[Len(tasks) + 1] = new
           /\ \A t \in DOMAIN tasks : tasks'[t] = tasks[t]
  <1>1. tasks \in Seq(Task)
    BY DEF TypeOK
  <1> QED BY <1>1

LEMMA DecideType ==
    ASSUME TypeOK, NEW r \in Sessions, ReqInv(r), Decide(r)
    PROVE  TypeOK'
  <1> DEFINE t == req[r].task
             s == ActionStatus[req[r].verb]
  <1>1. t \in DOMAIN tasks /\ req[r].user \in Users /\ req[r].verb \in Verbs
    BY DEF ReqInv, Decide, TypeOK, Request
  <1>2. s \in {"VALIDATED", "APPROVED", "REJECTED", "SKIPPED"}
    BY <1>1 DEF ActionStatus, Verbs
  <1>3. tasks' \in Seq(Task)
    <2>1. tasks \in Seq(Task) /\ tasks[t] \in Task
      BY <1>1, TaskType DEF TypeOK
    <2>2. [tasks[t] EXCEPT !.status = s] \in Task
      BY <1>2, <2>1 DEF Task
    <2>3. tasks' = [tasks EXCEPT ![t] = [tasks[t] EXCEPT !.status = s]]
      BY DEF Decide
    <2> HIDE DEF s, t
    <2> QED BY <1>1, <2>1, <2>2, <2>3
  <1>4. decisions' \subseteq (Nat \X {"VALIDATED", "APPROVED", "REJECTED", "SKIPPED"} \X Users)
    <2>1. t \in Nat
      BY <1>1, TaskType
    <2> QED BY <1>1, <1>2, <2>1 DEF Decide, TypeOK
  <1>5. req' \in [Sessions -> Request]
    BY RequestType DEF Decide
  <1> QED BY <1>3, <1>4, <1>5 DEF Decide, TypeOK, record, flow

LEMMA ReadType ==
    ASSUME TypeOK, NEW r \in Sessions, NEW u \in Users,
           \/ \E t \in DOMAIN tasks, verb \in Verbs : ReadTask(r, u, t, verb)
           \/ \E to \in Statuses : ReadOrder(r, u, to)
    PROVE  TypeOK'
  <1>1. ASSUME NEW t \in DOMAIN tasks, NEW verb \in Verbs, ReadTask(r, u, t, verb) PROVE TypeOK'
    <2>1. [Idle EXCEPT !.pc = "decide", !.user = u, !.task = t, !.verb = verb] \in Request
      BY TaskType DEF Idle, Request, Statuses
    <2> QED BY <1>1, <2>1 DEF ReadTask, TypeOK, record, flow, history
  <1>2. ASSUME NEW to \in Statuses, ReadOrder(r, u, to) PROVE TypeOK'
    <2>1. [Idle EXCEPT !.pc = "apply", !.user = u, !.to = to] \in Request
      BY DEF Idle, Request, Verbs
    <2> QED BY <1>2, <2>1 DEF ReadOrder, TypeOK, record, flow, history
  <1> QED BY <1>1, <1>2

LEMMA GoOnType ==
    ASSUME TypeOK, NEW r \in Sessions, ReqInv(r),
           Advance(r) \/ OpenNext(r) \/ Dispatch(r) \/ Fail(r)
    PROVE  TypeOK'
  <1>1. req[r] \in Request
    BY DEF TypeOK
  <1>2. CASE Advance(r)
    <2>1. CASE Goto(r, "dispatch")
      BY <1>2, <2>1, RequestType DEF Advance, TypeOK, record, flow, history
    <2>2. CASE \E s \in Following(steps, tasks[req[r].task].step, tasks[req[r].task].amount) :
                   req' = [req EXCEPT ![r].pc = "open", ![r].next = s]
      <3> PICK s \in Following(steps, tasks[req[r].task].step, tasks[req[r].task].amount) :
                   req' = [req EXCEPT ![r].pc = "open", ![r].next = s]
        BY <2>2
      <3>1. s \in Steps
        BY DEF Following, Applicable, TypeOK
      <3>2. [req[r] EXCEPT !.pc = "open", !.next = s] \in Request
        BY <1>1, <3>1 DEF Request
      <3>3. req' = [req EXCEPT ![r] = [req[r] EXCEPT !.pc = "open", !.next = s]]
        OBVIOUS
      <3>4. req' \in [Sessions -> Request]
        BY <3>2, <3>3 DEF TypeOK
      <3> QED BY <1>2, <3>4 DEF Advance, TypeOK, record, flow, history
    <2> QED BY <1>2, <2>1, <2>2 DEF Advance
  <1>3. CASE OpenNext(r)
    <2>1. req' \in [Sessions -> Request]
      BY <1>3, RequestType DEF OpenNext
    <2>2. CASE UNCHANGED tasks
      BY <1>3, <2>1, <2>2 DEF OpenNext, TypeOK, record, flow, history
    <2>3. CASE req[r].next \in steps
      <3> DEFINE new == [tasks[req[r].task] EXCEPT !.step = req[r].next, !.status = "PENDING"]
      <3>1. tasks[req[r].task] \in Task
        BY <1>3, TaskType DEF OpenNext, ReqInv
      <3>2. new \in Task /\ tasks' = Append(tasks, new)
        BY <1>3, <2>3, <3>1 DEF OpenNext, Task, TypeOK
      <3> HIDE DEF new
      <3> QED BY <1>3, <2>1, <3>2, AddTask DEF OpenNext, TypeOK, record, flow, history
    <2> QED BY <1>3, <2>2, <2>3 DEF OpenNext
  <1>4. CASE Dispatch(r)
    <2>1. CASE Finish(r)
      BY <1>4, <2>1, RequestType DEF Dispatch, TypeOK, record, flow, history
    <2>2. CASE req' = [req EXCEPT ![r].pc = "apply", ![r].to = "APPROVED_LOCKED", ![r].viaChain = TRUE]
      <3>1. [req[r] EXCEPT !.pc = "apply", !.to = "APPROVED_LOCKED", !.viaChain = TRUE] \in Request
        BY <1>1 DEF Request, Statuses
      <3>2. req' \in [Sessions -> Request]
        BY <2>2, <3>1 DEF TypeOK
      <3> QED BY <1>4, <3>2 DEF Dispatch, TypeOK, record, flow, history
    <2> QED BY <1>4, <2>1, <2>2 DEF Dispatch
  <1>5. CASE Fail(r)
    BY <1>5, RequestType, ChainAssumption DEF Fail, TypeOK, record, flow, history
  <1> QED BY <1>2, <1>3, <1>4, <1>5

\* Starting a chain adds a task and what is due, or nothing.
LEMMA StartType ==
    ASSUME TypeOK, StartChain
    PROVE  \/ UNCHANGED <<tasks, due>>
           \/ \E s \in Following(steps, 0, amount) :
                /\ [step |-> s, chain |-> Len(due) + 1, amount |-> amount, status |-> "PENDING"] \in Task
                /\ tasks' = Append(tasks, [step |-> s, chain |-> Len(due) + 1, amount |-> amount,
                                           status |-> "PENDING"])
                /\ due' = Append(due, Applicable(steps, amount))
                /\ due' \in Seq(SUBSET Steps) /\ Len(due) \in Nat
                /\ DOMAIN due = 1 .. Len(due) /\ DOMAIN due' = 1 .. Len(due) + 1
                /\ due'[Len(due) + 1] = Applicable(steps, amount)
                /\ \A c \in DOMAIN due : due'[c] = due[c]
  <1> SUFFICES ASSUME ~UNCHANGED <<tasks, due>>
               PROVE  \E s \in Following(steps, 0, amount) :
                /\ [step |-> s, chain |-> Len(due) + 1, amount |-> amount, status |-> "PENDING"] \in Task
                /\ tasks' = Append(tasks, [step |-> s, chain |-> Len(due) + 1, amount |-> amount,
                                           status |-> "PENDING"])
                /\ due' = Append(due, Applicable(steps, amount))
                /\ due' \in Seq(SUBSET Steps) /\ Len(due) \in Nat
                /\ DOMAIN due = 1 .. Len(due) /\ DOMAIN due' = 1 .. Len(due) + 1
                /\ due'[Len(due) + 1] = Applicable(steps, amount)
                /\ \A c \in DOMAIN due : due'[c] = due[c]
    OBVIOUS
  <1>1. PICK s \in Following(steps, 0, amount) :
            tasks' = Append(tasks, [step |-> s, chain |-> Len(due) + 1, amount |-> amount,
                                    status |-> "PENDING"])
    BY DEF StartChain
  <1>2. due' = Append(due, Applicable(steps, amount)) /\ due \in Seq(SUBSET Steps)
    BY DEF StartChain, TypeOK
  <1>3. Applicable(steps, amount) \in SUBSET Steps /\ s \in Steps
    BY DEF Applicable, Following, TypeOK
  <1> HIDE DEF Applicable
  <1>4. /\ due' \in Seq(SUBSET Steps) /\ Len(due) \in Nat
        /\ DOMAIN due = 1 .. Len(due) /\ DOMAIN due' = 1 .. Len(due) + 1
        /\ due'[Len(due) + 1] = Applicable(steps, amount)
        /\ \A c \in DOMAIN due : due'[c] = due[c]
    BY <1>2, <1>3
  <1>5. [step |-> s, chain |-> Len(due) + 1, amount |-> amount, status |-> "PENDING"] \in Task
    BY <1>3, <1>4 DEF Task, TypeOK
  <1> QED BY <1>1, <1>2, <1>4, <1>5

LEMMA ApplyType ==
    ASSUME TypeOK, NEW r \in Sessions, ApplyTransition(r)
    PROVE  TypeOK'
  <1>1. req[r] \in Request /\ req' \in [Sessions -> Request]
    BY RequestType DEF ApplyTransition, TypeOK
  <1>2. status' \in Statuses /\ maker' \in Users \cup {NoUser}
    BY <1>1 DEF ApplyTransition, Request, TypeOK
  <1>3. approvedBy' \in {"nobody", "chain", "transition"}
    BY DEF ApplyTransition, TypeOK
  <1>4. tasks' \in Seq(Task) /\ due' \in Seq(SUBSET Steps)
    <2>1. CASE UNCHANGED <<tasks, due>>
      BY <2>1 DEF TypeOK
    <2>2. CASE StartChain
      BY <2>1, <2>2, StartType, AddTask
    <2> QED BY <2>1, <2>2 DEF ApplyTransition
  <1> QED BY <1>1, <1>2, <1>3, <1>4 DEF ApplyTransition, TypeOK, flow

LEMMA EditType ==
    ASSUME TypeOK, NEW s \in Steps, RemoveStep(s) \/ AddStep(s)
    PROVE  TypeOK'
  <1>1. steps' \subseteq Steps /\ edits' \in 0 .. MaxEdits
    <2>1. steps' \subseteq Steps
      BY DEF RemoveStep, AddStep, TypeOK
    <2>2. edits \in 0 .. MaxEdits /\ edits < MaxEdits /\ edits' = edits + 1
      BY DEF RemoveStep, AddStep, TypeOK
    <2> QED BY <2>1, <2>2, ChainAssumption
  <1>2. due' \in Seq(SUBSET Steps)
    <2>1. due \in Seq(SUBSET Steps)
      BY DEF TypeOK
    <2>2. CASE due' = [c \in DOMAIN due |-> due[c] \ {s}]
      <3>1. Len(due) \in Nat /\ DOMAIN due = 1 .. Len(due) /\ \A c \in DOMAIN due : due[c] \in SUBSET Steps
        BY <2>1
      <3>2. due' \in [1 .. Len(due) -> SUBSET Steps]
        BY <2>2, <3>1
      <3> QED BY <3>1, <3>2
    <2> QED BY <2>1, <2>2 DEF RemoveStep, AddStep, history
  <1> QED BY <1>1, <1>2 DEF RemoveStep, AddStep, TypeOK, record, history

-----------------------------------------------------------------------------
(* The invariant, step by step. *)

LEMMA Together ==
    ASSUME Inv, TypeOK', DueInv', TaskInv', NoStepSkipped', Grows, NEW r \in Sessions, ReqInv(r)',
           \A q \in Sessions : q # r => req'[q] = req[q]
    PROVE  Inv'
  BY Waits DEF Inv

\* A step that reads: nothing is written, only what the request knows changes.
LEMMA Reads ==
    ASSUME Inv, NEW r \in Sessions, TypeOK', ReqInv(r)', UNCHANGED <<steps, amount, tasks, edits, history>>,
           \A q \in Sessions : q # r => req'[q] = req[q]
    PROVE  Inv'
  <1>1. Grows
    BY DEF Grows, history
  <1>2. DueInv' /\ TaskInv' /\ NoStepSkipped'
    BY DEF Inv, DueInv, TaskInv, NoStepSkipped, history, Applicable, StepApplies
  <1> QED BY <1>1, <1>2, Together

LEMMA Others ==
    ASSUME TypeOK, NEW r \in Sessions, NEW req1,
           Finish(r) \/ (\E pc : Goto(r, pc)) \/ req' = [req EXCEPT ![r] = req1]
    PROVE  \A q \in Sessions : q # r => req'[q] = req[q]
  BY DEF Finish, Goto, TypeOK

\* A request that has ended relies on nothing.
LEMMA Ended ==
    ASSUME TypeOK, NEW r \in Sessions, Finish(r)
    PROVE  ReqInv(r)'
  <1>1. req'[r] = Idle
    BY DEF Finish, TypeOK
  <1> QED BY <1>1 DEF ReqInv, ViaChain, Idle

LEMMA ReadStep ==
    ASSUME Inv, NEW r \in Sessions, NEW u \in Users,
           \/ \E t \in DOMAIN tasks, verb \in Verbs : ReadTask(r, u, t, verb)
           \/ \E to \in Statuses : ReadOrder(r, u, to)
    PROVE  Inv'
  <1>1. TypeOK /\ TypeOK'
    BY ReadType DEF Inv
  <1>2. ASSUME NEW t \in DOMAIN tasks, NEW verb \in Verbs, ReadTask(r, u, t, verb) PROVE Inv'
    <2>1. /\ req'[r] = [Idle EXCEPT !.pc = "decide", !.user = u, !.task = t, !.verb = verb]
          /\ \A q \in Sessions : q # r => req'[q] = req[q]
      BY <1>1, <1>2 DEF ReadTask, TypeOK
    <2>2. req'[r].pc = "decide" /\ req'[r].user = u /\ req'[r].task = t
      BY <2>1 DEF Idle
    <2>3. UNCHANGED <<steps, amount, tasks, edits, history>>
      BY <1>2 DEF ReadTask, flow
    <2>4. ReqInv(r)'
      BY <2>2, <2>3 DEF ReqInv, ViaChain
    <2> QED BY <1>1, <2>1, <2>3, <2>4, Reads
  <1>3. ASSUME NEW to \in Statuses, ReadOrder(r, u, to) PROVE Inv'
    <2>1. /\ req'[r] = [Idle EXCEPT !.pc = "apply", !.user = u, !.to = to]
          /\ \A q \in Sessions : q # r => req'[q] = req[q]
      BY <1>1, <1>3 DEF ReadOrder, TypeOK
    <2>2. req'[r].pc = "apply" /\ req'[r].viaChain = FALSE
      BY <2>1 DEF Idle
    <2>3. UNCHANGED <<steps, amount, tasks, edits, history>>
      BY <1>3 DEF ReadOrder, flow
    <2>4. ReqInv(r)'
      BY <2>2 DEF ReqInv, ViaChain
    <2> QED BY <1>1, <2>1, <2>3, <2>4, Reads
  <1> QED BY <1>2, <1>3

LEMMA DecideStep ==
    ASSUME Inv, NEW r \in Sessions, Decide(r)
    PROVE  Inv'
  <1> DEFINE t == req[r].task
             s == ActionStatus[req[r].verb]
  <1>1. TypeOK /\ TypeOK' /\ ReqInv(r) /\ req[r] \in Request
    BY DecideType DEF Inv, TypeOK
  <1>2. t \in DOMAIN tasks /\ req[r].verb \in Verbs
    BY <1>1 DEF ReqInv, Decide, Request
  <1>3. /\ decisions' = decisions \cup {<<t, s, req[r].user>>}
        /\ UNCHANGED <<steps, amount, edits, due>>
    BY DEF Decide, flow
  <1>4. /\ DOMAIN tasks' = DOMAIN tasks
        /\ \A i \in DOMAIN tasks : /\ tasks'[i].step = tasks[i].step
                                   /\ tasks'[i].chain = tasks[i].chain
                                   /\ tasks'[i].amount = tasks[i].amount
    <2>1. tasks \in Seq(Task) /\ tasks[t] \in Task
      BY <1>1, <1>2, TaskType DEF TypeOK
    <2>2. tasks' = [tasks EXCEPT ![t] = [tasks[t] EXCEPT !.status = s]]
      BY DEF Decide
    <2>3. \A i \in DOMAIN tasks : i # t => tasks'[i] = tasks[i]
      BY <2>1, <2>2
    <2>4. tasks'[t] = [tasks[t] EXCEPT !.status = s]
      BY <1>2, <2>1, <2>2
    <2>5. /\ tasks'[t].step = tasks[t].step /\ tasks'[t].chain = tasks[t].chain
          /\ tasks'[t].amount = tasks[t].amount
      BY <2>1, <2>4 DEF Task
    <2> QED BY <2>1, <2>2, <2>3, <2>5
  <1>5. Grows
    BY <1>3, <1>4 DEF Grows
  <1>6. DueInv'
    BY <1>3 DEF Inv, DueInv, Applicable, StepApplies
  <1>7. TaskInv'
    BY <1>2, <1>3, <1>4 DEF Inv, TaskInv
  <1>8. NoStepSkipped'
    BY <1>4, <1>5, OldTask DEF NoStepSkipped
  <1>9. ReqInv(r)'
    <2>1. CASE req[r].verb = "reject"
      BY <1>1, <2>1, Ended DEF Decide
    <2>2. CASE req[r].verb # "reject"
      <3>1. s \in Cleared
        BY <1>2, <2>2 DEF ActionStatus, Cleared, Verbs
      <3>2. req' = [req EXCEPT ![r].pc = "advance"]
        BY <2>2 DEF Decide, Goto
      <3>3. req'[r].pc = "advance" /\ req'[r].task = t
        BY <1>1, <3>2 DEF TypeOK, Request
      <3>4. \E d \in decisions' : d[1] = t /\ d[2] \in Cleared
        <4>1. <<t, s, req[r].user>> \in decisions'
          BY <1>3
        <4>2. <<t, s, req[r].user>>[1] = t /\ <<t, s, req[r].user>>[2] = s
          OBVIOUS
        <4> HIDE DEF t, s
        <4> QED BY <3>1, <4>1, <4>2
      <3> QED BY <1>2, <1>4, <3>3, <3>4 DEF ReqInv, ViaChain, ClearedTask
    <2> QED BY <2>1, <2>2
  <1>10. \A q \in Sessions : q # r => req'[q] = req[q]
    BY <1>1, Others DEF Decide
  <1> QED BY <1>1, <1>5, <1>6, <1>7, <1>8, <1>9, <1>10, Together

LEMMA AdvanceStep ==
    ASSUME Inv, NEW r \in Sessions, Advance(r)
    PROVE  Inv'
  <1> DEFINE t == req[r].task
  <1>1. TypeOK /\ TypeOK' /\ ReqInv(r) /\ req[r] \in Request
    BY GoOnType DEF Inv, TypeOK
  <1>2. t \in DOMAIN tasks /\ ClearedTask(t)
    BY <1>1 DEF ReqInv, Advance
  <1>3. UNCHANGED <<steps, amount, tasks, edits, history>>
    BY DEF Advance, flow
  <1>4. /\ tasks[t].amount = amount /\ due[tasks[t].chain] \subseteq Applicable(steps, amount)
        /\ tasks[t].step \in Nat /\ steps \in SUBSET Steps
    BY <1>1, <1>2, TaskType, ChainAssumption DEF Inv, TaskInv, DueInv, TypeOK
  <1>5. CASE Following(steps, tasks[t].step, amount) = {} /\ Goto(r, "dispatch")
    <2>1. \A s \in due[tasks[t].chain] : s <= tasks[t].step
      BY <1>4, <1>5, LastStep
    <2>2. req'[r].pc = "dispatch" /\ req'[r].task = t
      BY <1>1, <1>5 DEF Goto, TypeOK, Request
    <2>3. ReqInv(r)'
      BY <1>2, <1>3, <2>1, <2>2 DEF ReqInv, ViaChain, ClearedTask, history
    <2> QED BY <1>1, <1>3, <1>5, <2>3, Others, Reads
  <1>6. CASE \E s \in Following(steps, tasks[t].step, amount) :
                 req' = [req EXCEPT ![r].pc = "open", ![r].next = s]
    <2> PICK s \in Following(steps, tasks[t].step, amount) :
                 req' = [req EXCEPT ![r].pc = "open", ![r].next = s]
      BY <1>6
    <2>1. s \in Steps /\ \A d \in due[tasks[t].chain] : d < s => d <= tasks[t].step
      BY <1>4, FollowingStep
    <2>2. /\ req'[r].pc = "open" /\ req'[r].task = t /\ req'[r].next = s
          /\ \A q \in Sessions : q # r => req'[q] = req[q]
      BY <1>1 DEF TypeOK, Request
    <2>3. ReqInv(r)'
      BY <1>2, <1>3, <2>1, <2>2 DEF ReqInv, ViaChain, ClearedTask, NothingBetween, history
    <2> QED BY <1>1, <1>3, <2>2, <2>3, Reads
  <1> QED BY <1>4, <1>5, <1>6 DEF Advance

LEMMA DispatchStep ==
    ASSUME Inv, NEW r \in Sessions, Dispatch(r) \/ Fail(r)
    PROVE  Inv'
  <1>1. TypeOK /\ TypeOK' /\ ReqInv(r) /\ req[r] \in Request
    BY GoOnType DEF Inv, TypeOK
  <1>2. UNCHANGED <<steps, amount, tasks, edits, history>>
    BY DEF Dispatch, Fail, flow
  <1>3. CASE Finish(r)
    BY <1>1, <1>2, <1>3, Ended, Others, Reads
  <1>4. CASE Dispatch(r) /\ req' = [req EXCEPT ![r].pc = "apply", ![r].to = "APPROVED_LOCKED",
                                               ![r].viaChain = TRUE]
    <2>1. /\ req'[r].pc = "apply" /\ req'[r].task = req[r].task
          /\ \A q \in Sessions : q # r => req'[q] = req[q]
      BY <1>1, <1>4 DEF TypeOK, Request
    <2>2. req[r].pc = "dispatch"
      BY <1>4 DEF Dispatch
    <2>3. ReqInv(r)'
      BY <1>1, <1>2, <2>1, <2>2 DEF ReqInv, ViaChain, ClearedTask, history
    <2> QED BY <1>1, <1>2, <2>1, <2>3, Reads
  <1> QED BY <1>3, <1>4 DEF Dispatch, Fail

LEMMA OpenStep ==
    ASSUME Inv, NEW r \in Sessions, OpenNext(r)
    PROVE  Inv'
  <1> DEFINE t == req[r].task
  <1>1. TypeOK /\ TypeOK' /\ ReqInv(r) /\ Finish(r)
    BY GoOnType DEF Inv, OpenNext
  <1>2. t \in DOMAIN tasks /\ ClearedTask(t) /\ NothingBetween(t, req[r].next) /\ req[r].next \in Steps
    BY <1>1 DEF ReqInv, OpenNext
  <1>3. UNCHANGED <<steps, amount, edits, history>>
    BY DEF OpenNext, flow
  <1>4. CASE UNCHANGED tasks
    BY <1>1, <1>3, <1>4, Ended, Others, Reads
  <1>5. CASE tasks' = Append(tasks, [tasks[t] EXCEPT !.step = req[r].next, !.status = "PENDING"])
    <2> DEFINE new == [tasks[t] EXCEPT !.step = req[r].next, !.status = "PENDING"]
               n == Len(tasks) + 1
    <2>1. tasks[t] \in Task
      BY <1>1, <1>2, TaskType
    <2>2. /\ new \in Task /\ new.step = req[r].next /\ new.chain = tasks[t].chain
          /\ new.amount = tasks[t].amount
      BY <1>2, <2>1 DEF Task
    <2>3. tasks' = Append(tasks, new)
      BY <1>5
    <2> HIDE DEF new
    <2>4. /\ DOMAIN tasks = 1 .. Len(tasks) /\ DOMAIN tasks' = 1 .. n /\ Len(tasks) \in Nat
          /\ tasks'[n] = new /\ \A i \in DOMAIN tasks : tasks'[i] = tasks[i]
      BY <1>1, <2>2, <2>3, AddTask
    <2>5. Grows
      BY <1>3, <2>4 DEF Grows, history
    <2>6. DueInv'
      BY <1>3 DEF Inv, DueInv, Applicable, StepApplies, history
    <2>7. TaskInv'
      BY <1>2, <1>3, <2>2, <2>4 DEF Inv, TaskInv, history
    <2>8. ASSUME NEW s \in due'[tasks'[n].chain], s < tasks'[n].step
          PROVE  \E d \in decisions' : /\ tasks'[d[1]].chain = tasks'[n].chain
                                       /\ tasks'[d[1]].step = s /\ d[2] \in Cleared
      <3>1. s \in due[tasks[t].chain] /\ s < req[r].next /\ s <= tasks[t].step
        BY <1>2, <1>3, <2>2, <2>4, <2>8 DEF NothingBetween, history
      <3>2. \E d \in decisions : /\ tasks[d[1]].chain = tasks[t].chain
                                 /\ tasks[d[1]].step = s /\ d[2] \in Cleared
        <4>1. CASE s = tasks[t].step
          BY <1>2, <4>1 DEF ClearedTask
        <4>2. CASE s # tasks[t].step
          <5>1. tasks[t].step \in Nat /\ s \in Nat
            BY <1>1, <1>2, <3>1, TaskType, ChainAssumption DEF Inv, DueInv, TaskInv, Applicable, TypeOK
          <5>2. s < tasks[t].step
            BY <3>1, <4>2, <5>1
          <5> QED BY <1>2, <3>1, <5>2 DEF Inv, NoStepSkipped
        <4> QED BY <4>1, <4>2
      <3> QED BY <1>3, <2>2, <2>4, <3>2 DEF Inv, TaskInv, history
    <2>9. NoStepSkipped'
      <3>1. \A i \in DOMAIN tasks' : i \in DOMAIN tasks \/ i = n
        BY <2>4
      <3> QED BY <2>5, <2>8, <3>1, OldTask DEF NoStepSkipped
    <2> QED BY <1>1, <2>5, <2>6, <2>7, <2>9, Ended, Others, Together
  <1> QED BY <1>4, <1>5 DEF OpenNext

LEMMA ApplyStep ==
    ASSUME Inv, NEW r \in Sessions, ApplyTransition(r)
    PROVE  Inv'
  <1>1. TypeOK /\ TypeOK' /\ Finish(r) /\ UNCHANGED <<steps, amount, edits, decisions>>
    BY ApplyType DEF Inv, ApplyTransition, flow
  <1>2. CASE UNCHANGED <<tasks, due>>
    <2>1. Grows /\ DueInv' /\ TaskInv' /\ NoStepSkipped'
      BY <1>1, <1>2 DEF Grows, Inv, DueInv, TaskInv, NoStepSkipped, Applicable, StepApplies
    <2> QED BY <1>1, <2>1, Ended, Others, Together
  <1>3. CASE \E s \in Following(steps, 0, amount) :
                /\ [step |-> s, chain |-> Len(due) + 1, amount |-> amount, status |-> "PENDING"] \in Task
                /\ tasks' = Append(tasks, [step |-> s, chain |-> Len(due) + 1, amount |-> amount,
                                           status |-> "PENDING"])
                /\ due' = Append(due, Applicable(steps, amount))
                /\ due' \in Seq(SUBSET Steps) /\ Len(due) \in Nat
                /\ DOMAIN due = 1 .. Len(due) /\ DOMAIN due' = 1 .. Len(due) + 1
                /\ due'[Len(due) + 1] = Applicable(steps, amount)
                /\ \A c \in DOMAIN due : due'[c] = due[c]
    <2> DEFINE n == Len(tasks) + 1
               c == Len(due) + 1
    <2>1. PICK s \in Following(steps, 0, amount) :
                /\ [step |-> s, chain |-> c, amount |-> amount, status |-> "PENDING"] \in Task
                /\ tasks' = Append(tasks, [step |-> s, chain |-> c, amount |-> amount, status |-> "PENDING"])
      BY <1>3
    <2>2. /\ DOMAIN due' = DOMAIN due \cup {c} /\ c \notin DOMAIN due
          /\ due'[c] = Applicable(steps, amount) /\ \A i \in DOMAIN due : due'[i] = due[i]
      BY <1>3
    <2> HIDE DEF c
    <2>3. /\ DOMAIN tasks' = DOMAIN tasks \cup {n} /\ \A i \in DOMAIN tasks : tasks'[i] = tasks[i]
          /\ tasks'[n] = [step |-> s, chain |-> c, amount |-> amount, status |-> "PENDING"]
      <3>1. /\ DOMAIN tasks = 1 .. Len(tasks) /\ DOMAIN tasks' = 1 .. n /\ Len(tasks) \in Nat
            /\ \A i \in DOMAIN tasks : tasks'[i] = tasks[i]
            /\ tasks'[n] = [step |-> s, chain |-> c, amount |-> amount, status |-> "PENDING"]
        BY <1>1, <2>1, AddTask
      <3> QED BY <3>1
    <2>4. tasks'[n].chain = c /\ tasks'[n].step = s /\ tasks'[n].amount = amount
      BY <2>3
    <2> HIDE DEF n
    <2>5. Grows
      BY <1>1, <2>2, <2>3 DEF Grows
    <2>6. DueInv'
      BY <1>1, <2>2 DEF Inv, DueInv, Applicable, StepApplies
    <2>7. TaskInv'
      BY <1>1, <2>2, <2>3, <2>4 DEF Inv, TaskInv
    <2>8. \A q \in due'[c] : ~(q < s)
      <3>1. steps \in SUBSET Steps
        BY <1>1 DEF TypeOK
      <3>2. \A q \in Applicable(steps, amount) : q < s => q <= 0
        BY <3>1, FollowingStep
      <3>3. \A q \in Applicable(steps, amount) : q \in Nat \ {0}
        BY <3>1, ChainAssumption DEF Applicable
      <3> QED BY <2>2, <3>2, <3>3
    <2>9. NoStepSkipped'
      BY <2>3, <2>4, <2>5, <2>8, OldTask DEF NoStepSkipped
    <2> QED BY <1>1, <2>5, <2>6, <2>7, <2>9, Ended, Others, Together
  <1>4. StartChain => UNCHANGED <<tasks, due>> \/ ~UNCHANGED <<tasks, due>>
    OBVIOUS
  <1>5. CASE StartChain
    BY <1>1, <1>2, <1>3, <1>5, StartType
  <1> QED BY <1>2, <1>5 DEF ApplyTransition

LEMMA EditStep ==
    ASSUME Inv, NEW s \in Steps, RemoveStep(s) \/ AddStep(s)
    PROVE  Inv'
  <1>1. TypeOK /\ TypeOK' /\ UNCHANGED <<amount, tasks, req, decisions>> /\ edits' # 0
    <2>1. TypeOK /\ TypeOK'
      BY EditType DEF Inv
    <2>2. UNCHANGED <<amount, tasks, req, decisions>>
      BY DEF RemoveStep, AddStep, history
    <2>3. edits \in Nat /\ edits' = edits + 1
      BY <2>1, ChainAssumption DEF RemoveStep, AddStep, TypeOK
    <2> QED BY <2>1, <2>2, <2>3
  <1>2. DOMAIN due' = DOMAIN due /\ \A c \in DOMAIN due : due'[c] \subseteq due[c]
    BY DEF RemoveStep, AddStep, history
  <1>3. Grows
    BY <1>1, <1>2 DEF Grows
  <1>4. DueInv'
    <2> SUFFICES ASSUME NEW c \in DOMAIN due PROVE due'[c] \subseteq Applicable(steps', amount)
      BY <1>1, <1>2 DEF DueInv, Applicable, StepApplies
    <2>1. due[c] \subseteq Applicable(steps, amount)
      BY DEF Inv, DueInv
    <2>2. CASE RemoveStep(s)
      BY <2>1, <2>2 DEF RemoveStep, Applicable
    <2>3. CASE AddStep(s)
      BY <2>1, <2>3 DEF AddStep, Applicable, history
    <2> QED BY <2>2, <2>3
  <1>5. TaskInv'
    BY <1>1, <1>2 DEF Inv, TaskInv
  <1>6. NoStepSkipped'
    BY <1>1, <1>3, OldTask DEF NoStepSkipped
  <1>7. \A r \in Sessions : ReqInv(r)'
    BY <1>1, <1>3, Waits
  <1> QED BY <1>1, <1>4, <1>5, <1>6, <1>7 DEF Inv

LEMMA Step == Inv /\ [Next]_vars => Inv'
  <1> SUFFICES ASSUME Inv, [Next]_vars PROVE Inv'
    OBVIOUS
  <1>1. CASE UNCHANGED vars
    BY <1>1 DEF vars, Inv, TypeOK, DueInv, TaskInv, NoStepSkipped, ReqInv, ViaChain, ClearedTask,
                NothingBetween, Applicable, StepApplies
  <1>2. ASSUME NEW r \in Sessions, NEW u \in Users,
               \/ \E t \in DOMAIN tasks, verb \in Verbs : ReadTask(r, u, t, verb)
               \/ \E to \in Statuses : ReadOrder(r, u, to)
        PROVE  Inv'
    BY <1>2, ReadStep
  <1>3. ASSUME NEW r \in Sessions, Continue(r) \/ Fail(r) PROVE Inv'
    BY <1>3, DecideStep, AdvanceStep, OpenStep, DispatchStep, ApplyStep DEF Continue
  <1>4. ASSUME NEW s \in Steps, RemoveStep(s) \/ AddStep(s) PROVE Inv'
    BY <1>4, EditStep
  <1> QED BY <1>1, <1>2, <1>3, <1>4 DEF Next

LEMMA Start == Init => Inv
  <1> SUFFICES ASSUME Init PROVE Inv
    OBVIOUS
  <1>1. Idle \in Request
    BY DEF Idle, Request, Verbs, Statuses
  <1>2. TypeOK
    BY <1>1, ChainAssumption DEF Init, TypeOK, Statuses
  <1>3. DueInv /\ TaskInv /\ NoStepSkipped
    BY DEF Init, DueInv, TaskInv, NoStepSkipped
  <1>4. \A r \in Sessions : ReqInv(r)
    BY DEF Init, ReqInv, ViaChain, Idle
  <1> QED BY <1>2, <1>3, <1>4 DEF Inv

THEOREM Invariance == Spec => []Inv
  BY Start, Step, PTL DEF Spec

\* The tasks, the steps due and the requests keep their shape.
THEOREM TypeCorrect == Spec => []TypeOK
  BY Invariance, PTL DEF Inv

\* A task exists only after every step due before it was cleared, whatever raced
\* or was edited (executor.js, advance and openTask).
THEOREM NoneSkipped == Spec => []NoStepSkipped
  BY Invariance, PTL DEF Inv

\* A request that is about to apply the chain's approval has every step cleared.
LEMMA ClearedToTheEnd ==
    ASSUME Inv, NEW r \in Sessions, ViaChain(r)
    PROVE  LET c == tasks[req[r].task].chain
               Needed == due[c] \cup IF amount = Unknown /\ edits = 0 THEN steps ELSE {}
           IN  \A s \in Needed : \E d \in decisions :
                   tasks[d[1]].chain = c /\ tasks[d[1]].step = s /\ d[2] \in Cleared
  <1> DEFINE t == req[r].task
             c == tasks[t].chain
  <1>1. t \in DOMAIN tasks /\ ClearedTask(t) /\ \A s \in due[c] : s <= tasks[t].step
    BY DEF Inv, ReqInv
  <1>2. c \in DOMAIN due /\ due[c] \subseteq steps
    BY <1>1 DEF Inv, TaskInv, DueInv, Applicable
  <1>3. amount = Unknown /\ edits = 0 => due[c] = steps
    BY <1>2 DEF Inv, DueInv, Applicable, StepApplies
  <1>4. ASSUME NEW s \in due[c]
        PROVE  \E d \in decisions : tasks[d[1]].chain = c /\ tasks[d[1]].step = s /\ d[2] \in Cleared
    <2>1. s \in Nat /\ tasks[t].step \in Nat
      BY <1>1, <1>2, TaskType, ChainAssumption DEF Inv, TypeOK
    <2>2. CASE s = tasks[t].step
      BY <1>1, <2>2 DEF ClearedTask
    <2>3. CASE s < tasks[t].step
      BY <1>1, <2>3 DEF Inv, NoStepSkipped
    <2> QED BY <1>1, <2>1, <2>2, <2>3
  <1> HIDE DEF c
  <1> QED BY <1>3, <1>4 DEF c

\* The chain approves an order only once every step due has been cleared, and an
\* order of unknown total only after every step (executor.js, advance;
\* purchase_order on-approved handler).
THEOREM ApprovalIsComplete == Spec => ChainApprovesComplete
  <1>1. ASSUME Inv
        PROVE  \A r \in Sessions :
                 req[r].pc = "apply" /\ req[r].viaChain /\ approvedBy' = "chain" /\ req'[r].pc = "idle" =>
                   LET c == tasks[req[r].task].chain
                       Needed == due[c] \cup IF amount = Unknown /\ edits = 0 THEN steps ELSE {}
                   IN  \A s \in Needed : \E d \in decisions :
                         tasks[d[1]].chain = c /\ tasks[d[1]].step = s /\ d[2] \in Cleared
    BY <1>1, ClearedToTheEnd DEF ViaChain
  <1> QED BY <1>1, Invariance, PTL DEF ChainApprovesComplete

-----------------------------------------------------------------------------
(* No chain stalls. *)

\* A request that will open the next task of a chain or approve the order.
Carries(r) == req[r].pc \in {"advance", "open", "dispatch"} \/ ViaChain(r)

\* The part of ClearedChainMovesOn that holds of every state.
NoneStranded ==
    AllCleared /\ status = "ISSUED_LOCKED" /\ faults = 0 /\ edits = 0 =>
        \E r \in Sessions : Carries(r)

\* Until the workflow is edited an order with tasks has a first step, and the
\* step a request is about to open exists; the chain only approves.
StrandInv ==
    /\ edits = 0 /\ tasks # <<>> => Following(steps, 0, amount) # {}
    /\ \A r \in Sessions :
        /\ edits = 0 /\ req[r].pc = "open" => req[r].next \in steps
        /\ ViaChain(r) => req[r].to = "APPROVED_LOCKED"

\* A task that waits for a decision is not cleared.
LEMMA NotAllCleared ==
    ASSUME NEW t \in DOMAIN tasks', tasks'[t].status \in {"PENDING", "REJECTED"}
    PROVE  ~AllCleared'
  BY DEF AllCleared, Cleared

\* A request that carries nothing reads, ends or fails.
LEMMA StrandKept ==
    ASSUME Inv, NoneStranded, StrandInv, NEW r \in Sessions, ~Carries(r),
           UNCHANGED <<steps, amount, status, tasks, edits>>, faults' = 0 => faults = 0,
           \A q \in Sessions : q # r => req'[q] = req[q],
           req'[r].pc \in {"idle", "decide"} \/ (req'[r].pc = "apply" /\ ~req'[r].viaChain)
    PROVE  NoneStranded' /\ StrandInv'
  <1>1. \A q \in Sessions : Carries(q) => Carries(q)'
    BY DEF Carries, ViaChain
  <1>2. NoneStranded'
    BY <1>1 DEF NoneStranded, AllCleared
  <1>3. StrandInv'
    BY DEF StrandInv, ViaChain, Following, Applicable, StepApplies
  <1> QED BY <1>2, <1>3

LEMMA StrandRead ==
    ASSUME Inv, NoneStranded, StrandInv, NEW r \in Sessions, NEW u \in Users,
           \/ \E t \in DOMAIN tasks, verb \in Verbs : ReadTask(r, u, t, verb)
           \/ \E to \in Statuses : ReadOrder(r, u, to)
    PROVE  NoneStranded' /\ StrandInv'
  <1>1. req[r].pc = "idle" /\ UNCHANGED <<steps, amount, status, tasks, edits, faults>>
    BY DEF ReadTask, ReadOrder, flow, record
  <1>2. \A q \in Sessions : q # r => req'[q] = req[q]
    BY DEF ReadTask, ReadOrder, Inv, TypeOK
  <1>3. req'[r].pc = "decide" \/ (req'[r].pc = "apply" /\ ~req'[r].viaChain)
    BY DEF ReadTask, ReadOrder, Inv, TypeOK, Idle
  <1> QED BY <1>1, <1>2, <1>3, StrandKept DEF Carries, ViaChain

LEMMA StrandDecide ==
    ASSUME Inv, NoneStranded, StrandInv, NEW r \in Sessions, Decide(r)
    PROVE  NoneStranded' /\ StrandInv'
  <1> DEFINE t == req[r].task
  <1>1. TypeOK /\ req[r] \in Request /\ t \in DOMAIN tasks /\ req[r].verb \in Verbs
    BY DEF Inv, ReqInv, Decide, TypeOK, Request
  <1>2. /\ UNCHANGED <<steps, amount, status, edits, faults>>
        /\ \A q \in Sessions : q # r => req'[q] = req[q]
    BY <1>1, Others DEF Decide, flow, record
  <1>3. tasks \in Seq(Task) /\ tasks # <<>>
    BY <1>1 DEF TypeOK
  <1>4. CASE req[r].verb = "reject"
    <2>1. req'[r].pc = "idle"
      BY <1>1, <1>4 DEF Decide, Finish, Idle, TypeOK
    <2>2. t \in DOMAIN tasks' /\ tasks'[t].status = "REJECTED"
      <3>1. tasks' = [tasks EXCEPT ![t] = [tasks[t] EXCEPT !.status = "REJECTED"]]
        BY <1>4 DEF Decide, ActionStatus
      <3>2. [tasks[t] EXCEPT !.status = "REJECTED"].status = "REJECTED"
        BY <1>1, TaskType DEF Task
      <3> QED BY <1>1, <1>3, <3>1, <3>2
    <2>3. NoneStranded'
      BY <2>2, NotAllCleared DEF NoneStranded
    <2>4. StrandInv'
      BY <1>2, <1>3, <2>1 DEF StrandInv, ViaChain, Following, Applicable, StepApplies
    <2> QED BY <2>3, <2>4
  <1>5. CASE req[r].verb # "reject"
    <2>1. req'[r].pc = "advance"
      BY <1>1, <1>5 DEF Decide, Goto, TypeOK, Request
    <2>2. NoneStranded'
      BY <2>1 DEF NoneStranded, Carries
    <2>3. StrandInv'
      BY <1>2, <1>3, <2>1 DEF StrandInv, ViaChain, Following, Applicable, StepApplies
    <2> QED BY <2>2, <2>3
  <1> QED BY <1>4, <1>5

LEMMA StrandAdvance ==
    ASSUME Inv, NoneStranded, StrandInv, NEW r \in Sessions, Advance(r)
    PROVE  NoneStranded' /\ StrandInv'
  <1>1. UNCHANGED <<steps, amount, tasks, edits>> /\ TypeOK
    BY DEF Advance, flow, Inv
  <1>2. /\ req'[r].pc \in {"open", "dispatch"} /\ \A q \in Sessions : q # r => req'[q] = req[q]
        /\ req'[r].pc = "open" => req'[r].next \in steps
    BY <1>1 DEF Advance, Goto, TypeOK, Request, Following, Applicable
  <1>3. NoneStranded'
    BY <1>2 DEF NoneStranded, Carries
  <1>4. StrandInv'
    BY <1>1, <1>2 DEF StrandInv, ViaChain, Following, Applicable, StepApplies
  <1> QED BY <1>3, <1>4

LEMMA StrandOpen ==
    ASSUME Inv, NoneStranded, StrandInv, NEW r \in Sessions, OpenNext(r)
    PROVE  NoneStranded' /\ StrandInv'
  <1> DEFINE t == req[r].task
  <1>1. TypeOK /\ t \in DOMAIN tasks /\ UNCHANGED <<steps, amount, edits>> /\ tasks # <<>>
    BY DEF OpenNext, Inv, ReqInv, flow, TypeOK
  <1>2. req'[r].pc = "idle" /\ \A q \in Sessions : q # r => req'[q] = req[q]
    BY <1>1 DEF OpenNext, Finish, Idle, TypeOK
  <1>3. NoneStranded'
    <2>1. CASE edits' # 0
      BY <2>1 DEF NoneStranded
    <2>2. CASE edits = 0
      <3> DEFINE new == [tasks[t] EXCEPT !.step = req[r].next, !.status = "PENDING"]
      <3>1. req[r].next \in steps /\ tasks' = Append(tasks, new)
        BY <2>2 DEF StrandInv, OpenNext
      <3>2. new \in Task /\ new.status = "PENDING"
        BY <1>1, <3>1, TaskType DEF Task, TypeOK
      <3> HIDE DEF new
      <3>3. Len(tasks) + 1 \in DOMAIN tasks' /\ tasks'[Len(tasks) + 1] = new
        BY <1>1, <3>1, <3>2, AddTask
      <3> QED BY <3>2, <3>3, NotAllCleared DEF NoneStranded
    <2> QED BY <1>1, <2>1, <2>2
  <1>4. StrandInv'
    BY <1>1, <1>2 DEF StrandInv, ViaChain, Following, Applicable, StepApplies
  <1> QED BY <1>3, <1>4

LEMMA StrandDispatch ==
    ASSUME Inv, NoneStranded, StrandInv, NEW r \in Sessions, Dispatch(r)
    PROVE  NoneStranded' /\ StrandInv'
  <1>1. TypeOK /\ UNCHANGED <<steps, amount, status, tasks, edits, faults>>
    BY DEF Dispatch, flow, record, Inv
  <1>2. \A q \in Sessions : q # r => req'[q] = req[q]
    BY <1>1 DEF Dispatch, Finish, TypeOK
  <1>3. CASE "APPROVED_LOCKED" \in NextStatus[status]
    <2>1. req'[r].pc = "apply" /\ req'[r].viaChain /\ req'[r].to = "APPROVED_LOCKED"
      BY <1>1, <1>3 DEF Dispatch, TypeOK, Request
    <2>2. NoneStranded'
      BY <2>1 DEF NoneStranded, Carries, ViaChain
    <2>3. StrandInv'
      BY <1>1, <1>2, <2>1 DEF StrandInv, ViaChain, Following, Applicable, StepApplies
    <2> QED BY <2>2, <2>3
  <1>4. CASE "APPROVED_LOCKED" \notin NextStatus[status]
    <2>1. req'[r].pc = "idle"
      BY <1>1, <1>4 DEF Dispatch, Finish, Idle, TypeOK
    <2>2. NoneStranded'
      BY <1>1, <1>4 DEF NoneStranded, NextStatus
    <2>3. StrandInv'
      BY <1>1, <1>2, <2>1 DEF StrandInv, ViaChain, Following, Applicable, StepApplies
    <2> QED BY <2>2, <2>3
  <1> QED BY <1>3, <1>4

LEMMA StrandApply ==
    ASSUME Inv, NoneStranded, StrandInv, NEW r \in Sessions, ApplyTransition(r)
    PROVE  NoneStranded' /\ StrandInv'
  <1>1. TypeOK /\ UNCHANGED <<steps, amount, edits, faults>> /\ status' = req[r].to
    BY DEF ApplyTransition, flow, Inv
  <1>2. req'[r].pc = "idle" /\ \A q \in Sessions : q # r => req'[q] = req[q]
    BY <1>1 DEF ApplyTransition, Finish, Idle, TypeOK
  <1>3. \A q \in Sessions : q # r /\ Carries(q) => Carries(q)'
    BY <1>2 DEF Carries, ViaChain
  <1>4. CASE status' # "ISSUED_LOCKED"
    <2>1. UNCHANGED tasks
      BY <1>1, <1>4 DEF ApplyTransition
    <2>2. StrandInv'
      BY <1>1, <1>2, <2>1 DEF StrandInv, ViaChain, Following, Applicable, StepApplies
    <2> QED BY <1>4, <2>2 DEF NoneStranded
  <1>5. CASE status' = "ISSUED_LOCKED"
    <2>1. StartChain
      BY <1>1, <1>5 DEF ApplyTransition
    <2>2. CASE UNCHANGED tasks
      <3>1. StrandInv'
        BY <1>1, <1>2, <2>2 DEF StrandInv, ViaChain, Following, Applicable, StepApplies
      <3>2. ASSUME edits = 0, AllCleared
            PROVE  FALSE
        <4>1. Pending = {} /\ Following(steps, 0, amount) # {}
          BY <3>2 DEF Pending, AllCleared, Cleared, StrandInv
        <4>2. PICK new : tasks' = Append(tasks, new)
          BY <2>1, <4>1 DEF StartChain
        <4>3. tasks \in Seq(Task)
          BY <1>1 DEF TypeOK
        <4>4. Len(tasks') = Len(tasks) + 1 /\ Len(tasks) \in Nat
          BY <4>2, <4>3
        <4> QED BY <2>2, <4>4
      <3>3. NoneStranded'
        BY <1>1, <2>2, <3>2 DEF NoneStranded, AllCleared
      <3> QED BY <3>1, <3>3
    <2>3. CASE \E s \in Following(steps, 0, amount) :
                 LET new == [step |-> s, chain |-> Len(due) + 1, amount |-> amount,
                             status |-> "PENDING"]
                 IN  new \in Task /\ tasks' = Append(tasks, new)
      <3> PICK s \in Following(steps, 0, amount) :
                 LET new == [step |-> s, chain |-> Len(due) + 1, amount |-> amount,
                             status |-> "PENDING"]
                 IN  new \in Task /\ tasks' = Append(tasks, new)
        BY <2>3
      <3> DEFINE new == [step |-> s, chain |-> Len(due) + 1, amount |-> amount, status |-> "PENDING"]
      <3>1. new.status = "PENDING" /\ new \in Task /\ tasks' = Append(tasks, new)
        OBVIOUS
      <3> HIDE DEF new
      <3>2. Len(tasks) + 1 \in DOMAIN tasks' /\ tasks'[Len(tasks) + 1] = new
        BY <1>1, <3>1, AddTask
      <3>3. NoneStranded'
        BY <3>1, <3>2, NotAllCleared DEF NoneStranded
      <3>4. StrandInv'
        BY <1>1, <1>2 DEF StrandInv, ViaChain, Following, Applicable, StepApplies
      <3> QED BY <3>3, <3>4
    <2> QED BY <1>1, <2>1, <2>2, <2>3, StartType
  <1> QED BY <1>4, <1>5

LEMMA NextStranded ==
    ASSUME Inv, NoneStranded, StrandInv, [Next]_vars
    PROVE  NoneStranded' /\ StrandInv'
  <1>1. CASE UNCHANGED vars
    BY <1>1 DEF vars, NoneStranded, StrandInv, AllCleared, Carries, ViaChain, Following, Applicable,
                StepApplies
  <1>2. ASSUME NEW r \in Sessions, Fail(r)
        PROVE  NoneStranded' /\ StrandInv'
    <2>1. faults' # 0 /\ UNCHANGED <<steps, amount, tasks, edits>>
      BY <1>2, ChainAssumption DEF Fail, flow, Inv, TypeOK
    <2>2. req'[r].pc = "idle" /\ \A q \in Sessions : q # r => req'[q] = req[q]
      BY <1>2 DEF Fail, Finish, Idle, Inv, TypeOK
    <2>3. StrandInv'
      BY <2>1, <2>2 DEF StrandInv, ViaChain, Following, Applicable, StepApplies
    <2> QED BY <2>1, <2>3 DEF NoneStranded
  <1>3. ASSUME NEW s \in Steps, RemoveStep(s) \/ AddStep(s)
        PROVE  NoneStranded' /\ StrandInv'
    <2>1. edits' # 0 /\ UNCHANGED req
      BY <1>3, ChainAssumption DEF RemoveStep, AddStep, Inv, TypeOK
    <2> QED BY <2>1 DEF NoneStranded, StrandInv, ViaChain
  <1> QED BY <1>1, <1>2, <1>3, StrandRead, StrandDecide, StrandAdvance, StrandOpen, StrandDispatch,
             StrandApply DEF Next, Continue

\* While no request has failed and the workflow is as it was, an issued order whose
\* tasks are all cleared is in the hands of a request that will open its next task
\* or approve it: no interleaving of decisions and transitions leaves it stranded
\* (executor.js, act; on-approved.js, dispatch).
THEOREM NoChainStalls == Spec => []NoneStranded
  <1>1. Init => NoneStranded /\ StrandInv
    BY DEF Init, NoneStranded, StrandInv, AllCleared, ViaChain, Idle
  <1>2. Inv /\ NoneStranded /\ StrandInv /\ [Next]_vars => NoneStranded' /\ StrandInv'
    BY NextStranded
  <1> QED BY <1>1, <1>2, Invariance, PTL DEF Spec

-----------------------------------------------------------------------------
(* Maker and checker. *)

\* Whoever made the order decides none of its tasks, at any time.
MakerNeverDecides == \A d \in decisions : d[3] # maker /\ maker # NoUser

\* An order with tasks has a maker, who is not one of the users about to decide.
MakerInv ==
    /\ tasks # <<>> => maker # NoUser
    /\ \A r \in Sessions :
        /\ req[r].pc # "idle" => req[r].user \in Users
        /\ req[r].pc = "decide" => req[r].user # maker

LEMMA NextMaker ==
    ASSUME Inv, MakerNeverDecides, MakerInv, [Next]_vars
    PROVE  MakerNeverDecides' /\ MakerInv'
  <1>t. TypeOK /\ \A r \in Sessions : req[r] \in Request
    BY DEF Inv, TypeOK
  <1>1. CASE UNCHANGED vars
    BY <1>1 DEF vars, MakerNeverDecides, MakerInv
  <1>2. ASSUME NEW r \in Sessions, NEW u \in Users, NEW t \in DOMAIN tasks, NEW verb \in Verbs,
               ReadTask(r, u, t, verb)
        PROVE  MakerNeverDecides' /\ MakerInv'
    <2>1. /\ req'[r].pc = "decide" /\ req'[r].user = u /\ u # maker
          /\ \A q \in Sessions : q # r => req'[q] = req[q]
      BY <1>2, <1>t DEF ReadTask, TypeOK, Idle
    <2>2. UNCHANGED <<maker, tasks, decisions>>
      BY <1>2 DEF ReadTask, record, history
    <2> QED BY <2>1, <2>2 DEF MakerNeverDecides, MakerInv
  <1>3. ASSUME NEW r \in Sessions, NEW u \in Users, NEW to \in Statuses, ReadOrder(r, u, to)
        PROVE  MakerNeverDecides' /\ MakerInv'
    <2>1. /\ req'[r].pc = "apply" /\ req'[r].user = u
          /\ \A q \in Sessions : q # r => req'[q] = req[q]
      BY <1>3, <1>t DEF ReadOrder, TypeOK, Idle
    <2>2. UNCHANGED <<maker, tasks, decisions>>
      BY <1>3 DEF ReadOrder, record, history
    <2> QED BY <2>1, <2>2 DEF MakerNeverDecides, MakerInv
  <1>4. ASSUME NEW r \in Sessions, Decide(r)
        PROVE  MakerNeverDecides' /\ MakerInv'
    <2>1. req[r].task \in DOMAIN tasks /\ tasks # <<>> /\ req[r].pc = "decide"
      BY <1>4, <1>t DEF Decide, Inv, ReqInv, TypeOK
    <2>2. req[r].user # maker /\ maker # NoUser /\ maker' = maker
      BY <1>4, <2>1 DEF MakerInv, Decide, record
    <2>3. /\ req'[r].pc \in {"idle", "advance"} /\ \A q \in Sessions : q # r => req'[q] = req[q]
          /\ req'[r].pc # "idle" => req'[r].user = req[r].user
      BY <1>4, <1>t DEF Decide, Finish, Goto, Idle, TypeOK, Request
    <2>4. MakerNeverDecides'
      <3> SUFFICES ASSUME NEW d \in decisions', d \notin decisions
                   PROVE  d[3] # maker
        BY <2>2 DEF MakerNeverDecides
      <3>1. \E t, s : d = <<t, s, req[r].user>>
        BY <1>4 DEF Decide
      <3> QED BY <2>2, <3>1
    <2>5. MakerInv'
      BY <2>1, <2>2, <2>3 DEF MakerInv
    <2> QED BY <2>4, <2>5
  <1>5. ASSUME NEW r \in Sessions, Advance(r) \/ OpenNext(r) \/ Dispatch(r) \/ Fail(r)
        PROVE  MakerNeverDecides' /\ MakerInv'
    <2>1. /\ UNCHANGED <<maker, decisions>> /\ req[r].pc # "idle" /\ req'[r].pc # "decide"
          /\ \A q \in Sessions : q # r => req'[q] = req[q]
          /\ req'[r].pc # "idle" => req'[r].user = req[r].user
      BY <1>5, <1>t DEF Advance, OpenNext, Dispatch, Fail, Finish, Goto, Idle, TypeOK, Request,
                        record, history
    <2>2. tasks' # <<>> => tasks # <<>>
      BY <1>5, <1>t DEF Advance, OpenNext, Dispatch, Fail, Inv, ReqInv, TypeOK
    <2> QED BY <2>1, <2>2 DEF MakerNeverDecides, MakerInv
  <1>6. ASSUME NEW r \in Sessions, ApplyTransition(r)
        PROVE  MakerNeverDecides' /\ MakerInv'
    <2>1. /\ UNCHANGED decisions /\ req[r].user \in Users
          /\ maker' = IF maker = NoUser THEN req[r].user ELSE maker
      BY <1>6 DEF ApplyTransition, MakerInv
    <2>2. maker' # NoUser /\ (maker # NoUser => maker' = maker)
      BY <2>1, ChainAssumption
    <2>3. MakerNeverDecides'
      BY <2>1, <2>2 DEF MakerNeverDecides
    <2>4. req'[r].pc = "idle" /\ \A q \in Sessions : q # r => req'[q] = req[q]
      BY <1>6, <1>t DEF ApplyTransition, Finish, Idle, TypeOK
    <2>5. ASSUME NEW q \in Sessions, req[q].pc = "decide" PROVE maker # NoUser
      <3>1. req[q].task \in DOMAIN tasks
        BY <2>5 DEF Inv, ReqInv
      <3>2. tasks # <<>>
        BY <3>1
      <3> QED BY <3>2 DEF MakerInv
    <2>6. MakerInv'
      BY <2>2, <2>4, <2>5 DEF MakerInv
    <2> QED BY <2>3, <2>6
  <1>7. ASSUME NEW s \in Steps, RemoveStep(s) \/ AddStep(s)
        PROVE  MakerNeverDecides' /\ MakerInv'
    BY <1>7 DEF RemoveStep, AddStep, record, history, MakerNeverDecides, MakerInv
  <1> QED BY <1>1, <1>2, <1>3, <1>4, <1>5, <1>6, <1>7 DEF Next, Continue

\* Maker and checker are two people: nobody decides a task of an order they made,
\* though the maker is read before the decision is written (executor.js, act).
THEOREM MakerIsNotChecker == Spec => []MakerNeverDecides
  <1>1. Init => MakerNeverDecides /\ MakerInv
    BY DEF Init, MakerNeverDecides, MakerInv, Idle
  <1>2. Inv /\ MakerNeverDecides /\ MakerInv /\ [Next]_vars => MakerNeverDecides' /\ MakerInv'
    BY NextMaker
  <1> QED BY <1>1, <1>2, Invariance, PTL DEF Spec
=============================================================================
