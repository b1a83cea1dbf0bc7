# Praxis LS: specifications

Praxis LS is a multi-tenant logistics ERP: a Node/Express backend over one
PostgreSQL database per tenant, Redis and BullMQ for background jobs, Socket.IO
for realtime, and React applications in front. This directory holds TLA+
modules of the parts in which several actors meet. TLC checks them on small
instances; TLAPS proves every safety property among the checked ones for all
instances.

Paths below are relative to the repository, whose backend is the directory
`src/` inside it. `PROJECT.json` maps every definition to the lines it stands
for, and lists components, runs, hazards, findings and theorems.

- [The system and its parts](#the-system-and-its-parts)
- [Modules](#modules)
- [Runs](#runs), [bounds](#bounds), [fairness](#fairness)
- [Findings](#findings)
- [Proofs](#proofs)
- [Hazards without a property](#hazards-without-a-property)
- [Not modelled](#not-modelled)

## The system and its parts

A request enters through middleware that resolves the tenant from the host and
the environment (`live` or `sandbox`, two schemas of the tenant's database),
authenticates, and makes the write idempotent. A module service then runs SQL on
the request's one connection. Services emit events inside their transactions;
background drains pass them to handlers of other modules. Records with a
workflow go through an approval chain that finally moves them on.

| Component | State it keeps | Operations | Interacts with | What is hard | What makes it correct | Module |
|---|---|---|---|---|---|---|
| Event outbox and dispatcher (`src/orchestration`, `src/jobs/handlers/orchestration-*`) | `event_log`, `event_dispatch`, the queue's job, the alarm of each worker | emit, tick, drain, mark, census | services emit; handlers write other modules' records | crash between effect and mark, overlapping drains, commit order against id order | nothing lost, starved or triggered by a rollback; dead letters are noticed | `OutboxDispatch` |
| Approval chain (`src/services/workflow`, `src/modules/workflow`) | `workflow_step`, `approval_task` | start, act, step edits, guard, dispatch on completion | records call `start`; completion calls the record's handler | autocommitted queries, two actors, edits under a running chain | no step skipped, complete before approved, cleared means approved | `ApprovalChain` |
| Request connection (`src/middleware/tenant-context.js`, `src/services/tenant/registry.service.js`) | leases, pool, search_path and its tag | acquire, switch, restore, release | every database call | callbacks interleaved with awaits, client gone | one holder, right schema, nothing leaked | `RequestConnection` |
| Idempotent write (`client/src/lib/outbox.ts`, `src/middleware/idempotency.js`) | outbox entry, `idempotency_key` | submit, flush, claim, read, record, free, expire | every mutating endpoint | lost answers, retries beside a running copy, crash after commit | repeated only for a cause; answers are true; claims end | `IdempotentWrite` |
| Outgoing mail (`src/modules/mail/mail/outbox.*`) | `email_send_queue`, the hour's count | queue, cancel, claim, throttle, send, record, requeue, retry | provider, composer | sent but not recorded, slow batch looks stalled | cancelled mail stays; no copy without a fault; each message ends | `MailSendQueue` |
| Supplier invoices, journal and shared transactions (`src/modules/procurement/supplier_invoice`, `src/modules/finance/journal_entry`, `src/shared/db/tx.js`) | status, amount paid, payment rows, entries | match, post, pay, reverse | ledger, numbering | status and totals read before BEGIN, a COMMIT inside another's transaction | posted once, paid at most in full, never half reversed for good | `SupplierSettlement` |
| Calls (`src/modules/smartcomm`) | call rows, clock jobs, the set of active tenants | ring, accept, decline, hang up, clock, sweep | sockets, Redis, the queue | four parties race for one transition | one outcome; a call ends; none is forgotten | `CallLifecycle` |
| Qualified signatures (`src/modules/vault/qes`, `signature_request`, `signature_public`) | request, party, envelope, signature rows | send, sign, hand off, charge, webhook, poll, settle, decline, void, certify | provider, vault | webhook against poll, claim before work | signed means signed; envelopes settle with their document; completion after the last answer | `SigningChain` |
| Purchase orders | status | draft, submit, transition, pay, unlock | approval chain | two ways to approve | the chain decides | transitions in `ApprovalChain` |
| Workers (`src/jobs`) | slots per tenant, cron locks, delayed jobs | enqueue, run | all of the above | lost locks, duplicates of a job | one job at a time | as used by `OutboxDispatch`, `MailSendQueue`, `CallLifecycle` |
| Warehouse stock (`src/modules/wms`) | quantities, states, outbound lines | move, set state, dispatch | inbound, outbound | locked movements beside unlocked edits | conservation | none |
| Payroll (`src/modules/hr/payroll`) | run status, entry | validate, post, pay | ledger, advances | journal committed before status | posted once | none |
| Auth and caches (`src/middleware/auth.js`, `src/shared/cache`, registry caches) | cached identity, sessions, hosts, pools | look up, revoke, evict | every request | staleness, eviction under use | bounded staleness | none |
| Platform services (`src/services/platform`) | tenants, backups | provision, migrate, back up, restore | external commands | partial failure | repeatable from any step | none |

The other parts (master data, operations, sales, fleet, documents, the assistant,
search, site content, portals, the web applications, shared packages) keep
records with little interaction between actors; `PROJECT.json` names each with
the reason it is left out. The modelled share is a small part of the code by
lines: most of the repository is user interface, reports and record keeping.

The components meet in four places. A service inserts its event in its own
transaction (`InsertEvent`, `EndTransaction` of `OutboxDispatch` are that side of
every emitter); the approval chain and its record share the record's status
(`ApprovalChain` holds both); every service runs on the connection of its
request (`RequestConnection`, where `Statement` is any of them); and an
idempotent write surrounds any handler (`IdempotentWrite`, where `Commit` and
`Finish` are the handler). Beyond these interfaces the modules are independent,
and their product is not checked: no property here relates two of them.

## Modules

| Module | What it is |
|---|---|
| `OutboxDispatch` | the outbox, its scheduler, queue, drains and alarm |
| `EventDelivery` | what the outbox promises an emitting module (abstract) |
| `ApprovalChain` | the chain executor over one purchase order |
| `RequestConnection` | leases of pooled connections and their schema |
| `IdempotentWrite` | one queued write and its copies |
| `MailSendQueue` | the send queue of one mailbox |
| `SupplierSettlement` | one supplier invoice, its entries and payments |
| `CallLifecycle` | the calls of one tenant |
| `SigningChain` | one signature request, its parties and envelopes |
| `MC...` | instances for TLC: registries, steps, grants, symmetry |
| `...Proofs` | the theorems about the module of that name |

In every module an action is what runs between two points where somebody else
can run: one autocommitted query, one transaction under a lock, or the code
between two awaits. What a request or a worker has read and not yet used is
state of its own (`req`, `proc`, `asks`, `batch`), so stale decisions happen.
Definitions called `Mutant` in their comment are broken variants of the
definition they precede. No specification uses them; each shows that a property
notices that bug. Variables marked `history` record what a property speaks of
and influence nothing else.

### OutboxDispatch and EventDelivery

`log` and `disp` are the rows of `event_log` and `event_dispatch`. Ids follow
insertion (`InsertEvent`), visibility follows commit (`EndTransaction`), in any
order. `job` is the one BullMQ job per tenant: its fixed id absorbs further ticks
(`Tick`); `LoseLock` hands it out again when the lock expires, which can happen
to a worker that is still running. A worker walks through `dispatchPending`:
`Take` is the batch query, `NextEvent` the loop head, `CheckHandler`,
`WriteHandler` and `LinkHandler` a handler's existence check, insert and link,
`MarkDone` and `MarkFailed` the two upserts, `Census` the dead-letter report.
`Throw` is any rejected query in the try block, `Abort` one outside it, `Crash`
the death of the process.

Handlers are told apart by how they recognise work already done: `entry` looks
before it inserts, `sourceRef` has a unique index as well, `openDossier` looks
for a link and commits its record before the link exists. An `optional` handler
may return without an effect, because its feature is off or because the event or
its record gives it nothing to do (`skipped`, as in
`opportunity-won-open-dossier.js:31-44`): DONE then owes nothing. A handler that
is not optional stands for the event whose data do call for its effect. Amounts and
payloads are left out: no property depends on them.

`EventDelivery` is the contract: an event published is queued until its effects
are delivered or its attempts are spent; its outcome is final.
`ImplementsContract` is the refinement, with the mapping `log`, `disp`, `made`,
`linked` to `outcome`, `failures`, `delivered`. It holds while no live worker
loses its lock: an overlapping drain can write FAILED over DONE.

### ApprovalChain

One purchase order, its tasks, the tenant's steps and the requests in flight. A
decision is `ReadTask`, `Decide`, `Advance`, `OpenNext` or `Dispatch`, then
`ApplyTransition`: the separate, autocommitted queries of `act` and of the
order's handler. A direct transition is `ReadOrder` (checks and guard, before
BEGIN) and `ApplyTransition` (the transaction, which starts the chain when it
issues the order). `Fail` ends a request between two queries. `AddStep` and
`RemoveStep` are the workflow designer; a step a task points at cannot be
removed. `Following` is `nextStep` over `applicableSteps`; it is a set so that
"no next step" needs no value of its own. `Eligible` stands for role, scope,
capability and the chief executive's override. History variables: the steps each
chain owes (`due`), decisions written, and how the order was approved.

### RequestConnection

An action is the code between two awaits, since handlers share one event loop.
`Call` starts a database call and ends at its first await (`acquire`, `switch` or
a `checkout` of its own once the lease is gone); `Acquire`, `CheckoutOwn`,
`Switch` and `Timeout` are the answers; `EndCall` and `Restore` unwind.
`path` is what the server has, `tag` what this process believes. `Statement` runs
in the innermost call and may begin or end a transaction. `Respond` and `Abort`
are the events `finish` and `close`. The calls of one request nest and are
sequential.

### IdempotentWrite

One write of the client and up to `MaxCopies` requests that carry it. The client
side is the outbox entry (`Submit`, `Flush`, `NetworkError`, `Receive`,
`RetryEntry`); the server side is what the middleware does with a copy (`Claim`,
`Read`, `Outcome`, `EndBodyless`, `FreeKey`) around a handler that commits or
fails (`Commit`, `Finish`). Copies interleave between claim and read, commit and
record. `stale` stands for both clocks: a claim past its five minutes (`Age`) and
a record past its 48 hours (`Expire`). `Age` asks for nothing but the time: the
comment at `idempotency.js:62-68` calls five minutes comfortably longer than any
request, but nothing ends a request that takes longer and the takeover tests
`created_at` alone. Such a copy is in `overrun`, and the properties count it. What
it does when it ends is modelled as written: `RecordOutcome` and `FreeKey` go by
the key, whoever has claimed it since.

### MailSendQueue

Rows of one mailbox, people and flush jobs. `Enqueue` and `Resubmit` are Send and
its repetition, `Cancel` the undo, `Retry` the button on a failed row. `Start` is
a tick that requeues what looks stalled (`Stalled`); `Flush` is one statement of
the flusher: `Claim` of a batch, then for each row throttle, transmission, count,
record in Sent, attachments, mark, or the way back to QUEUED or FAILED.
`batch` keeps the attempts of each claimed row because the outcome is written
from them. `Stumble` is a statement that fails, `LoseLock` puts a second flusher
beside a running one, `Die` loses a process. `wire` counts the copies the mail
host accepted. Left out: drafts and their editing, guardrails, time-zone
schedules, the sandbox sink, and the direct send of `mail.service.js`.

### SupplierSettlement

One invoice and concurrent requests, each with what it read before BEGIN
(`req`). `Post` and `Pay` read, `Posted`, `Insert` and `Paid` write. The entry of
a payment takes the lock of its journal and period (`held`); what happens under
that lock is one step. `Paid` sums the rows again and `WithinTotal` is the CHECK
`chk_supplier_invoice_paid_within_total`, which turns an overpayment it can see
into an error (`Fail`). `Reverse` begins a transaction which
`journal_entry.reverse` then commits, so everything after is a step of its own and
`Fail` may fall between. `LookAtPosting` and `LookAtPayment` are the search for an
earlier reversal, before the lock of the sequence; `UndoPosting` and `UndoPayment`
the insertion, which `OneReversal`, the unique index, lets through once. A reversal
cut off after its first step cannot be taken up again: every retry finds the first
entry reversed and fails. History: `overlapped`, `cut`, `split` name the conditions
under which the properties are stated. Left out: withheld taxes, currencies, the three-way match
itself and dossier costs.

### CallLifecycle

Rows of `comms_call`, the requests of the two ends, the delayed jobs of a call's
clock and the sweep over the tenants Redis knows as active. `Dial` is the two
SELECTs, `Insert` the row with its unique indexes, `Follow` what comes after a
write (queue the clock, mark the tenant), `Ask` and `Conclude` a transition
decided on a row read earlier, `RunClock` a job that has come due, `Sweep` the
steps of the safety sweep. `FollowInPart`, `LoseJob` and `SweepDies` are faults.
NO_ANSWER, CANCELLED, DECLINED and a failure while ringing are one status, and so
are the ends of an answered call; the job of a status the call has left finds so
and is not kept. What presence and media say is nondeterministic. Recordings and
ring pushes are left out.

### SigningChain

A request with `Parties` in order. `SendNext` invites, `Complete` is the party's
code or hand-off to the provider, `Decline`, `Void`, `Edit` and `Expire` end the
chain from outside. `Deliver` is the provider's answer, by webhook or poll alike;
`ProviderEnds` is the provider. `Continue` is the next query of a process, at one of
the places of `pc`: hand off, create, charge, refuse, close, check, settle,
insert, advance, dispatch, certify, render, cancel. Only dispatch and charge run
in a transaction; the advisory locks elsewhere are released with the statement
that takes them, so they exclude nothing and are not modelled. `StepFails` and
`Die` are the faults; `Die` is also a claim that could not be put back because the
update failed, an error the code swallows. `orphaned` (history) names the envelopes
that lost their process. `CancelEnvelope` asks the provider, unless the tenant's
key is gone: then the envelope is CANCELLED here and stays open there. Left out:
the issuer's internal path, paper, one-time codes
and tokens, reminders; VIEWED counts as SENT, and the provider's CANCELLED and
FAILED are one.

## Runs

A passing run explores all states of its instance. A run that finds a violation
states what the repository says of itself and shows that the code does
otherwise. States are distinct ones.

| Run | States | Properties | Shows |
|---|---|---|---|
| `outbox_delivery` | 66 864 | `TypeOK`, `NothingFromUncommitted`, `ImplementsContract` | under crashes, throws and aborts the outbox implements its contract |
| `outbox_liveness` | 345 742 | `DoneMeansEffects`, `AttemptsMatchStatus`, `EveryRecordIsCaused`, `EveryEventSettles`, `DeadLettersAreReported` | with a lost lock and batches of one row: DONE means every effect, no record is repeated without a failure, every event settles, dead letters are reported |
| `approval_chain` | 557 858 | `TypeOK`, `NoStepSkipped`, `ChainApprovesComplete`, `ClearedChainMovesOn` | order and completeness of the chain under two requests, a fault and an edit; a chain whose tasks are all cleared goes on, to its next task or to the order |
| `connection_lease` | 155 925 | `TypeOK`, `RunsWhereAsked`, `ConnectionsAccountedFor`, `PoolRefills` | one holder always, and at most one connection lost for each client that went away; without an abort the schema and transaction asked for, and a full pool in the end |
| `write_once` | 681 917 | `TypeOK`, `OverlapsHaveACause`, `ClaimInHand`, `AnswersAreTrue`, `EveryRepeatHasACause`, `KeyComesFree` | a cause for every claimant beside another and for every second commit; no claim without somebody to settle it; true answers; keys that come free |
| `mail_queue` | 355 746 | `TypeOK`, `CancelledStaysHere`, `FaultsBoundCopies`, `HourKeepsItsCap`, `EveryMessageSettles` | a copy or a message over the cap costs a fault each; of cancel and claim one wins; messages settle |
| `settlement` | 356 737 | `TypeOK`, `OneSequenceKeepsTheSum`, `OverpaidBySplitOnly`, `SerialBooks` | the sum survives behind the sequence lock and lets the CHECK refuse what outruns the invoice; serial requests keep the books, and REVERSED means every entry is reversed once |
| `settlement_race` | violation | `DerivedNeverDisagrees` | finding 1 |
| `calls` | 344 910 | `TypeOK`, `UnclockedNeedFaults`, `EndsOnce`, `EveryCallEnds` | one end per call, no more calls without a clock than faults, and every watched call ends |
| `call_glare` | violation | `OneActiveCall` | finding 2 |
| `signing_chain` | 286 955 | `TypeOK`, `OneSignature`, `EmptyHandsNeedFaults`, `CompletesOnceAnswered`, `EveryEnvelopeSettles` | one signature a party; signed without a signature costs a fault; the chain completes; envelopes settle, with their document unless their process died with the claim |
| `signing_declined` | violation | `CertificateMeansSigned` | finding 3 |

Each property of a passing run has a mutant in `PROJECT.json`: a plausible bug in
a modelled definition under which TLC finds that property violated.

### Bounds

- Outbox: two events, since the hazards are an event against itself (replay) and
  against one with a smaller id (commit order, batch). Two workers, since a job
  has one holder and at most one former holder per lost lock. `MaxCrashes` 2 lets
  a replay be interrupted again. `MaxAttempts` 2 or 3 (5 in the code) reaches
  failure, retry and dead letter; `Limit` 1 or 2 (200 in the code) puts events on
  both sides of the batch. `MaxStalls` 0 or 1 is the lost lock of a live worker.
- Chain: two steps are the least with an order, two requests the least that race;
  the totals are one below the second band and one unknown. `MaxTasks` 2 admits
  one full chain, `MaxFaults` and `MaxEdits` 1 one interruption of each kind.
- Connections: two requests over two connections can both hold and exchange
  them. `MaxDepth` 2 nests once, `MaxCalls` 2, `MaxAborts` 1.
- Write: three copies, because two cannot show a loser that runs beside a third.
  `MaxAttempts` is 2 (4 in the code), so that three copies are enough to meet it.
  The one fault may be of any kind and strike in any state; claims that outrun the
  reclaim window need none and are not bounded.
- Mail: two messages fill a batch of two and stand on both sides of an hourly cap
  of one; two flushers are a slow one and its successor; `MaxAttempts` 2 has a
  first and a last attempt; one fault, one repeated press.
- Settlement: three requests (two that race and one that reverses), two periods,
  `Due` 2 for instalments of one, four entries for a posting, two payments and a
  second posting. Requests and periods are symmetric.
- Calls: two users and two calls can ring each other; two requests between read
  and write; one fault. `call_glare` has three users and no fault.
- Signing: two parties are the least chain, two processes the least race, one
  envelope and one fault. The safety properties were also explored with two
  envelopes (4.3 million states), where a cancelled envelope is replaced.

Deadlock is checked for the outbox, whose scheduler never stops. The other
models end: an order is cancelled, requests are answered, copies are used up,
invoices are reversed, calls and requests are closed.

### Fairness

- Outbox: weak fairness of the tick (BullMQ's repeatable job), of handing out a
  waiting job, of reclaiming one whose holder is dead (the stalled-job check), of
  each running drain, and of time for the alarm. Nothing is assumed of commits,
  throws, crashes or lost locks.
- Chain: weak fairness of a request that was accepted. No one is obliged to
  decide a task.
- Connections: the database answers or times out (weak). A handler ends its
  transaction and its call, and responds (strong: it may run further statements
  in between, but not for ever). Clients need not go away.
- Write: the server continues its requests and time passes. Nothing is assumed of
  the client: the code flushes on reconnection and at the start of the application
  and has no timer, so no property says that a queued entry leaves the outbox.
- Mail: the scheduler ticks, a flusher that lives goes on, delays, hours and the
  ten minutes of a stalled row pass. No user presses anything.
- Calls: requests and follow-ups go on, due jobs run, deadlines pass, the sweep
  runs on its schedule.
- Signing: a process goes on; a creation nobody confirmed is polled; and for each
  envelope a delivery that is possible again and again happens (strong, because
  the half-hourly poll asks again, and both processes may be busy at any one
  moment). The poll does so for a tenant whose provider is configured, and for the
  hundred oldest envelopes in flight (`qes.repo.js:79-86`, `qes.service.js:763`):
  both are assumed of the envelopes the model has. A hundred older ones that never
  end would starve the next.
- Settlement has none: its properties are safety.

### Conditions the properties name

Several properties hold under a condition that is part of their statement, since
without it the code does something else. Where the code does repeat or lose
something, the property counts it against what caused it instead of leaving it
out: `EveryRecordIsCaused` records against lost locks, failed attempts and
crashes (dossiers only while drains do not overlap, since a stale drain can lower
the count of attempts), `OverlapsHaveACause` claimants beside each other against
copies that outran the reclaim window and copies that found the key free after a
refused claim, `EveryRepeatHasACause` commits against the same and faults (as long
as no response goes out without a body), `ConnectionsAccountedFor`
connections against clients that went away, `FaultsBoundCopies`,
`UnclockedNeedFaults` and `EmptyHandsNeedFaults` copies, calls and signatures
against faults. `EmptyHandsNeedFaults` and `EveryEnvelopeSettles` excuse an envelope
that says COMPLETED without its document only if its own process was lost. `ClearedChainMovesOn` excuses failures and edits, and a next task
only the bound `MaxTasks` keeps from being opened (`Bounded`). `RunsWhereAsked` and
`PoolRefills` speak of histories without an aborted request. `ClaimInHand`
speaks of histories without a fault, and `KeyComesFree` promises no more than a key
open to the next copy after one. `EveryMessageSettles` excepts a row whose
flusher was lost on its last attempt, which nothing requeues; `StuckNeedFaults`
bounds those. `OneSequenceKeepsTheSum` and `OverpaidBySplitOnly` need
payments in one period, `SerialBooks` requests that do not overlap; after a reversal
that was cut off it promises no more than that the invoice is not called reversed. `EveryCallEnds` excepts a call whose clock and
tenant mark are both lost.

## Findings

1. `settlement_race`: `supplier_invoice.service.js:142` says the status is derived
   and can never disagree with the payments. It is derived from a sum read before
   BEGIN (line 160); two instalments that read the same sum and together pay the
   invoice leave the status the later one's own reading implied: paid in full and
   still POSTED_LOCKED, which no further payment may change (FULLY_PAID). What
   would outrun the invoice within one period the CHECK refuses.
2. `call_glare`: `migrations/tenant/14000_comms_calls.sql:69` says the database
   allows one active call per user in either role. The indexes are one per role;
   two people who dial each other are each in two calls.
3. `signing_declined`: `signature_request.service.js:569` says a certificate is
   issued when every party has signed. `advance` asks only whether anyone is
   pending; a decline is two updates, and a last signature between them completes
   and certifies a request one party refused.

Disagreements met while modelling, refuted by the same modules in exploration but
kept without a run of their own:

- A replay of a won opportunity opens a second dossier: the dossier is committed
  before its link (`opportunity-won-open-dossier.js:47-57`, against its lines 8-10).
- Two requests decide one approval task: `executor.js:289` checks, 303-306 update
  by id.
- A direct approval passes while a chain is between two steps, when no task is
  pending (`pending-guard.js:17-18`, `executor.js:303` to 321).
- A failure after the last decision strands the order: `workflow.service.js:149`
  opens no transaction, contrary to `on-approved.js:7-8`.
- The schema tag can be set through a variable `close` has cleared, so that it
  lies about its connection (`tenant-context.js:118`, `registry.service.js:405`).
- A lease that arrives after the only release is never returned
  (`tenant-context.js:108`, 172-173).
- The same write commits twice without a fault: a copy whose claim was refused
  runs unclaimed when the winner's failure has freed the key
  (`idempotency.js:189`, 299), and a copy whose handler takes longer than five
  minutes is taken over (115-117, against 62-68).
- Payments dated in two periods at once overpay an invoice: each sums without the
  other's row, and the CHECK compares `amount_paid` (`supplier_invoice.service.js:196`,
  against `10721_procurement_port.sql:151-153`).
- A reversal that fails after its first entry stays half done: every retry ends in
  ALREADY_REVERSED (`supplier_invoice.service.js:233`, `journal_entry.service.js:164`).
- "A failure anywhere in 3-7 puts the claim back" and "the poll will find the
  envelope either way" (`qes.service.js:503`, 680): a process that dies after the
  claim, or whose update back fails, leaves the envelope COMPLETED without its
  document, and the poll takes CREATING and SENT only (`qes.repo.js:79-86`).
  `EveryEnvelopeSettles` without `e \in orphaned` is refuted by it.
- Undo answers "that message has already left" for a row that is QUEUED
  (`outbox.service.js:427-441`).
- Two requests post one supplier invoice twice (`supplier_invoice.service.js:103`).

Observations that contradict no stated promise, or lie outside the models:
`flushOne` hands no attachments to `sendEmail`. A clock job that finds its call
"not due" reschedules under its own active job id, which the queue drops, and the
sweep reads a tenant's score and then removes it (`smartcomm.call.clock.js:27`).
In signing, the advisory locks taken outside a transaction end with their
statement, so two certificates may be rendered; after a settled party a retry of
the envelope cancels it, although `qes.service.js:503` says a failure puts the
claim back; and the charge writes SENT without a guard over an envelope voided
meanwhile.

## Proofs

Eight modules hold the proofs, one for each modelled component. Together they
prove every invariant and every action property of the passing runs, the refinement of
`EventDelivery`, and what three of the liveness properties say of single states
(`NoChainStalls`, `NobodyLeftHanging` and `AnsweredFirst`, `StuckNeedFaults`), for
any number of events, workers, requests, copies, messages, calls, parties and
faults. The only assumptions are the named ones of the modules
(`OutboxAssumption`, `ChainAssumption`, `ConnectionAssumption`,
`WriteAssumption`, `MailAssumption`, `SettlementAssumption`, `CallAssumption`):
types of the constants, sentinels outside the sets they mark, and finiteness
where something is counted. TLC evaluates them in the runs. Three theorems that
count have a hypothesis of their own, that `Messages` or `Requests` is finite, and
`Implements` has `MaxStalls = 0`; counts of workers, calls and connections adrift
need none, since the invariant carries the finiteness of what it counts.

Each proof follows one scheme: an invariant `IInv` (or a second, larger one built
on it) that says what each process knows at its place in the code, an induction
with a lemma for each action, and the property as a consequence.

**Outbox.** `TypeCorrect`, `DoneIsComplete`, `OnlyCommittedEvents`,
`AttemptsAgree`, `RecordedOnce`, `Implements`. `PlaceOK` ties event, handler and
batch to the program counter; `ReadOK` bounds the attempts read, which gives
`AttemptsAgree` also for stale counts; `ReturnedOK` says that a handler passed over
is optional or has its effect. Effects are never withdrawn, so what a drain has
seen stays true whatever another does, and overlapping drains need no exclusion.
`RecordedOnce` does: `LockInv` is the exclusion by the job's lock, `CheckedInv`
that the existence check of the running handler is still true. `Implements` adds
`FreshInv`, that the status and attempts a drain has read are those of the row,
and maps each step to a contract step or a stutter; its hypothesis is
`MaxStalls = 0`. `RecordsAreCaused` counts. `AstrayInv`: the drains without their
lock are at most the locks lost. `EntryOK`, for each slot: the check lets workers
through only while there is no record, at most one more than the drains astray,
and from then on records plus workers about to insert do not grow. `DossierOK`:
a dossier beyond the failures counted so far is one whose worker stands between
creating and linking it, and the link, the failed attempt or the crash that takes
it from there pays for it; that the attempts only grow rests on `FreshInv`.

**Approval chain.** `TypeCorrect`, `NoneSkipped`, `ApprovalIsComplete`,
`NoChainStalls`, `MakerIsNotChecker`. `ReqInv`
says what a request has read that is still true: its task was cleared, and
nothing due lies between its step and the one it opens. `DueInv` and `TaskInv`
relate the steps a chain owes to its tasks. Decisions are only added, which makes
`ReqInv` stable under races and edits. That nothing remains due at the end needs
the least step after a given one, by well-founded induction on numbers.
`NoChainStalls` is the state half of `ClearedChainMovesOn`: without a failure or an
edit an issued order whose tasks are all cleared is in the hands of a request that
opens the next task or moves it on (`NoneStranded`; `StrandInv` says that the first
step, and the one such a request is about to open, exist). Two requests that clear the same task
make it delicate: the one that goes on need not be the one that decided last.
`MakerIsNotChecker` (`MakerInv`): an order with tasks has a maker, and the maker is
only ever set once, so that the one read before a decision is still the one when
it is written.

**Request connection.** `TypeCorrect`, `HeldByOne`, `NoConnectionLost`,
`StatementsStayPut`. `HoldInv`:
leases, connections of own calls (`OwnInv`) and the pool are disjoint.
`StatementsStayPut` adds, while nobody went away, that every connection a request
holds is where its innermost call, or the switch under way, wants it, and that a
transaction is open only on a connection its request holds (`Place`, `Fenced`,
`Clean`). `NoConnectionLost` accounts for each connection (`AccountInv`): it is in
the pool, on a lease or on a call of its own (`PlacedInv`), and a lease no release
will find any more is that of a request whose client went away, one for each, since
a request that was answered has released what it had (`ReleasedInv`).

**Idempotent write.** `TypeCorrect`, `OverlapsAreCaused`, `RepeatsAreCaused`,
`HappensOnceWhenClaimed`, `ClaimsAreHeld`, `AnswersTrue`. `OverlapInv`: copies that
hold the key or think they do, plus the room for one more, grow only with an overrun
or a copy that found the key free too late. `CauseInv` counts work done, work under
way that may still be done, and a key that invites more of it; no step adds to the
sum without a fault, an overrun or a copy that found the key free too late, which `WhereInv`
keeps in its place. `HappensOnceWhenClaimed` is the case without any of them, and
`ClaimsAreHeld` that nobody then waits out the reclaim window for nothing.
`TruthInv`: a recorded success is that of a copy which
committed.

**Mail queue.** `TypeCorrect`, `CancelledStays`, `CapKept`, `CopiesBounded`,
`OrphansNeedFaults`, `StuckNeedFaults`.
`AwayInv`: an unclaimed or cancelled row is in no batch. `HourInv` counts: the
messages counted plus the flushers about to count are at most the cap plus the
flushers a fault set adrift. `CopyInv`, for each message: copies out, plus one if
the row still waits to be sent, plus the flushers about to send it, are at most
one more than the faults. Both rest on cardinalities of sets of flushers.
`OrphansNeedFaults`: a row marked as being sent is in a flusher's batch, but for
one batch for each fault (`OrphansBounded`; `BatchInv` bounds a batch). The rows
`EveryMessageSettles` excepts are among them, hence `StuckNeedFaults`.

**Settlement.** `TypeCorrect`, `SumKept`, `WithinDue`, `SerialKept`. `SumInv`: in
one period one request holds the lock, and what it has read is the sum of the
rows. `WithinDue` builds on it: the lock makes the sum complete that the CHECK
compares, so races within a period pay what is due at most. `SerialInv`: without
overlap one request is active (`Alone`), the books are right up to what it is doing
(`Books`), and what it read still holds (`Sound`). That a reversal cut off after its
first step never ends in REVERSED is part of it: the entry already reversed keeps
the retry from going on.

**Calls.** `TypeCorrect`, `UnclockedByFault`, `ForgottenByFault`, `EndsForGood`.
`ClockInv`: the live calls whose clock is neither queued nor about to be are at
most as many as the faults; the sweep is not needed for it, and so the calls that
neither clock nor sweep will visit are no more. `EndsForGood` follows from the guards of the updates alone.

**Signing.** `TypeCorrect`, `SignedOnce`, `EmptyHandsBounded`, `AnsweredFirst`,
`NobodyLeftHanging`.
`Knows` says what a process at each place knows of its envelope, `SigInv` that
each party has one writer of its signature. `EmptyHandsBounded` shows that each
step which adds to `Unwritten` spends a fault, and that only `Die` adds to `Hollow`:
every other end of a process that holds a claim writes its fate first. `AnsweredFirst`: no
party becomes pending again, and a process renders only for a completed request
(`RenderInv`). `NobodyLeftHanging`: while no step has failed, an open request whose
parties have all answered has a process on its way to tell it (`Telling`), however
webhook, poll, code and decline race for the last answer.

Only model-checked: liveness, which is outside the prover's reach
(`EveryEventSettles`, `DeadLettersAreReported`, `ClearedChainMovesOn`,
`PoolRefills`, `KeyComesFree`, `EveryMessageSettles`,
`EveryCallEnds`, `EveryEnvelopeSettles` and the second half of
`CompletesOnceAnswered`). Where such a property could be lost in a single state,
because nobody is left who would go on, that nobody-is-left is what the theorems
named above exclude; that whoever is left does go on is what TLC checks. The three
violated properties are refuted by their counterexamples. `HappensOnceWhenClaimed`
and `RunsWhereAsked` are statements about quiet histories and are proved as such.
`EntryOK` and `DossierOK` were also explored with three workers and one lost lock
(7.7 million states) before they were proved.

## Hazards without a property

`PROJECT.json` lists the hazards with their lines. Those that no property covers
are of three kinds. Some do go wrong, and a property would only restate that: the
double posting of an invoice or a receipt, the failure after the last decision
(excused by `ClearedChainMovesOn`) and the call whose clock and tenant mark are both
lost (excepted by `EveryCallEnds`); the second dossier and the lease that arrives too
late, which also do, are counted by `EveryRecordIsCaused` and
`ConnectionsAccountedFor`. Some need
state the models leave out: the eviction of a pool under use (several pools), two browser tabs
and the order between two outbox entries (a store of entries). And one repeats,
in another module of the code, a pattern modelled here: payments of a purchase
order have the shape of `SupplierSettlement`.

## Not modelled

- Data: payload values, amounts beyond what a property tells apart, notification
  texts, formatting and layout.
- Credentials and permissions beyond the eligibility of an approver; the
  hash-chained audit trail; adapters of mail, media and signature providers beyond
  their answers.
- Expiry by wall clock beyond the timers named above; caches of hosts, pools and
  identities, whose correctness is a bound on staleness and restates the cache.
- Warehouse stock and payroll: the two remaining parts with unlocked reads before
  writes. A module over quantities and reservations, and one over the journal a
  payroll run posts before it changes its status, would come next.
- Customer invoices, receipts, purchase order payments and petty cash: the shape of
  `SupplierSettlement` with other names.
- Within modelled components: the pool cache and the transaction pooler of the
  registry, several entries of the write outbox, reject handlers of records other
  than the purchase order, mail drafts and schedules, call recordings, and the
  issuer's own way to sign. `PROJECT.json` marks these components `partly`.
- Generated code, dictionaries, user interfaces, reports, search and site content,
  which keep no state that two actors contend for.
