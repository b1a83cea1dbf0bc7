---------------------------- MODULE SigningChain ----------------------------
(***************************************************************************)
(* One signature request, its parties and the certified envelopes sent for  *)
(* them (modules/vault/qes, signature_request, signature_public).           *)
(*                                                                         *)
(* A party signs with an e-mailed code, or hands the document to a          *)
(* provider whose answer comes back by webhook or poll.  Only dispatch by   *)
(* the operator and the charge of an envelope run in a transaction: in all  *)
(* else every query commits by itself, and the advisory locks, which last   *)
(* as long as a transaction, are gone when the next query starts.  An       *)
(* action is one such query, with the reads whose result nobody can have    *)
(* changed in a way that matters before it.                                 *)
(*                                                                         *)
(* Left out: the issuer's internal path, paper, codes and tokens            *)
(* (verified), reminders, events, and VIEWED, which counts as SENT.         *)
(***************************************************************************)
EXTENDS Integers, FiniteSets, FiniteSetsExt

CONSTANTS Parties,       \* how many parties sign, in order
          Envelopes,     \* bound: envelopes ever created
          Procs,         \* requests, webhook deliveries and polls in flight
          MaxFaults      \* bound: failed steps and deaths of a process

ASSUME ChainAssumption ==
    /\ Parties \in Nat \ {0} /\ Envelopes \in Nat /\ MaxFaults \in Nat
    /\ IsFiniteSet(Procs)

VARIABLES
    request,       \* signature_request.status
    amended,       \* the document no longer hashes to the request's content_hash
    party,         \* signature_party.status
    rows,          \* how many document_signature rows a party has
    certificate,   \* certificate_doc_id is set
    env,           \* qes_envelope, with its ledger row (charged)
    provider,      \* the provider's own document of an envelope
    proc,          \* where each process is, and whose party and envelope it holds
    faults,
    orphaned       \* history: envelopes that lost the process that held them

chain == <<request, amended, party, rows, certificate>>
losses == <<faults, orphaned>>
vars == <<chain, env, provider, proc, losses>>

Party == 1 .. Parties
Env == 1 .. Envelopes
None == 0

Open == {"DRAFT", "SENT", "PARTIALLY_SIGNED"}
Unsettled == {"PENDING", "SENT"}
InFlight == {"CREATING", "SENT"}
Ended == {"COMPLETED", "DECLINED", "CANCELLED"}

Idle == [pc |-> "idle", party |-> None, env |-> None, todo |-> {}]

Init ==
    /\ request = "DRAFT" /\ amended = FALSE /\ certificate = FALSE
    /\ party = [p \in Party |-> "PENDING"]
    /\ rows = [p \in Party |-> 0]
    /\ env = [e \in Env |-> [status |-> "none", of |-> None, charged |-> FALSE, vaulted |-> FALSE]]
    /\ provider = [e \in Env |-> "none"]
    /\ proc = [w \in Procs |-> Idle]
    /\ faults = 0 /\ orphaned = {}

-----------------------------------------------------------------------------
\* The guarded updates: a row that has left the expected states stays.
TransitionRequest(from, to) == request' = IF request \in from THEN to ELSE request

\* Mutant: the update looks at no status.
SettleAny(p, to) == party' = [party EXCEPT ![p] = to]

SettleParty(p, to) == party' = IF party[p] \in Unsettled THEN [party EXCEPT ![p] = to] ELSE party

TransitionEnvelope(e, from, to) ==
    env' = IF env[e].status \in from THEN [env EXCEPT ![e].status = to] ELSE env

\* onAmendment: a document that moved ends the chain.
OnAmendment == TransitionRequest(Open, "AMENDED")

\* Mutant: a party that has its link counts as done.
RemainingUnsent == {p \in Party : party[p] = "PENDING"}

\* nextPendingParty
Remaining == {p \in Party : party[p] \in Unsettled}

ActiveFor(p) == {e \in Env : env[e].of = p /\ env[e].status \in InFlight}

Fault == faults < MaxFaults /\ faults' = faults + 1 /\ UNCHANGED orphaned
At(w, pc) == proc[w].pc = pc
Goto(w, pc) == proc' = [proc EXCEPT ![w].pc = pc]
Return(w) == proc' = [proc EXCEPT ![w] = Idle]
Begin(w, pc, p, e) ==
    proc' = [proc EXCEPT ![w] = [pc |-> pc, party |-> p, env |-> e, todo |-> {}]]

-----------------------------------------------------------------------------
(* What people and the provider do. *)

\* The tenant presses "send next link", in a transaction.
SendNext ==
    /\ request \in Open
    /\ \E p \in Party : party[p] = "PENDING"
    /\ party' = [party EXCEPT ![Min({p \in Party : party[p] = "PENDING"})] = "SENT"]
    /\ TransitionRequest({"DRAFT"}, "SENT")
    /\ UNCHANGED <<amended, rows, certificate, env, provider, proc, losses>>

Edit ==
    /\ ~amended /\ amended' = TRUE
    /\ UNCHANGED <<request, party, rows, certificate, env, provider, proc, losses>>

\* expireOverdue
Expire ==
    /\ request \in {"SENT", "PARTIALLY_SIGNED"} /\ request' = "EXPIRED"
    /\ UNCHANGED <<amended, party, rows, certificate, env, provider, proc, losses>>

\* The signer signs or declines at the provider, or the document is cancelled,
\* bounced or lost there.
ProviderEnds(e) ==
    /\ provider[e] = "open"
    /\ \E how \in Ended : provider' = [provider EXCEPT ![e] = how]
    /\ UNCHANGED <<chain, env, proc, losses>>

-----------------------------------------------------------------------------
(* The signing page. *)

\* resolveToken, assertSignable: only a dispatched party has a token.
Signable(p) == party[p] = "SENT" /\ request \in Open

\* complete, to the branch on the card.  A moved document ends the chain.
Complete(w, p) ==
    /\ At(w, "idle") /\ Signable(p)
    /\ IF amended
       THEN OnAmendment /\ UNCHANGED proc
       ELSE /\ \/ Begin(w, "settle", p, None)
               \/ Begin(w, "handoff", p, None)
            /\ UNCHANGED request
    /\ UNCHANGED <<amended, party, rows, certificate, env, provider, losses>>

\* getActiveForParty refuses a second envelope in flight, and so does the
\* unique index behind the insert.
Handoff(w) ==
    /\ At(w, "handoff")
    /\ LET p == proc[w].party
           unused == {e \in Env : env[e].status = "none"}
       IN IF ActiveFor(p) # {} \/ unused = {}
          THEN Return(w) /\ UNCHANGED env
          ELSE LET e == Min(unused)
               IN /\ env' = [env EXCEPT ![e].status = "CREATING", ![e].of = p]
                  /\ Begin(w, "create", p, e)
    /\ UNCHANGED <<chain, provider, losses>>

\* The provider takes the document; or refuses it, or its answer is lost, and
\* the envelope is written off.
Create(w) ==
    LET e == proc[w].env IN
    /\ At(w, "create")
    /\ \/ /\ provider' = [provider EXCEPT ![e] = "open"]
          /\ Goto(w, "charge")
          /\ UNCHANGED <<env, losses>>
       \/ /\ Fault
          /\ \E doc \in {"none", "open"} : provider' = [provider EXCEPT ![e] = doc]
          /\ env' = [env EXCEPT ![e].status = "FAILED"]
          /\ Return(w)
    /\ UNCHANGED chain

\* The transaction of provider_ref, SENT and the ledger row; the update looks at
\* no status.  If it fails the envelope is written off and the document cancelled,
\* if the provider takes that.
Charge(w) ==
    LET e == proc[w].env
        clash == ActiveFor(proc[w].party) \ {e} # {}
        recalled == IF provider[e] = "open" THEN "CANCELLED" ELSE provider[e]
    IN
    /\ At(w, "charge") /\ Return(w)
    /\ \/ /\ ~clash
          /\ env' = [env EXCEPT ![e].status = "SENT", ![e].charged = TRUE]
          /\ UNCHANGED <<provider, losses>>
       \/ /\ clash \/ faults < MaxFaults
          /\ faults' = (IF clash THEN faults ELSE faults + 1) /\ UNCHANGED orphaned
          /\ env' = [env EXCEPT ![e].status = "FAILED"]
          /\ \E doc \in {recalled, provider[e]} : provider' = [provider EXCEPT ![e] = doc]
    /\ UNCHANGED chain

\* declineSigning, and then its two updates.
Decline(w, p) ==
    /\ At(w, "idle") /\ Signable(p)
    /\ Begin(w, "refuse", p, None)
    /\ UNCHANGED <<chain, env, provider, losses>>

Refuse(w) ==
    /\ At(w, "refuse")
    /\ SettleParty(proc[w].party, "DECLINED")
    /\ IF party'[proc[w].party] = party[proc[w].party] THEN Return(w) ELSE Goto(w, "close")
    /\ UNCHANGED <<request, amended, rows, certificate, env, provider, losses>>

Close(w) ==
    /\ At(w, "close") /\ Return(w)
    /\ TransitionRequest(Open, "DECLINED")
    /\ UNCHANGED <<amended, party, rows, certificate, env, provider, losses>>

-----------------------------------------------------------------------------
(* The provider's answer. *)

\* Mutant: only envelopes of open requests are asked about.
DeliverOpen(w, e) ==
    /\ env[e].charged /\ env[e].status \in InFlight
    /\ provider[e] \in Ended
    /\ At(w, "idle") /\ request \in Open
    /\ TransitionEnvelope(e, InFlight, provider[e])
    /\ IF provider[e] = "CANCELLED" THEN UNCHANGED proc ELSE Begin(w, "check", env[e].of, e)
    /\ UNCHANGED <<chain, provider, losses>>

\* handleProviderEvent: the claim.  A webhook and the poll both come here, at
\* any time and any number of times; an envelope without its ref is not found.
Deliver(w, e) ==
    /\ env[e].charged /\ env[e].status \in InFlight
    /\ provider[e] \in Ended
    /\ At(w, "idle")
    /\ TransitionEnvelope(e, InFlight, provider[e])
    /\ IF provider[e] = "CANCELLED" THEN UNCHANGED proc ELSE Begin(w, "check", env[e].of, e)
    /\ UNCHANGED <<chain, provider, losses>>

\* A create call whose process died: the poll writes the envelope off.
PollUnconfirmed(e) ==
    /\ env[e].status = "CREATING"
    /\ \A w \in Procs : proc[w].env # e
    /\ TransitionEnvelope(e, {"CREATING"}, "FAILED")
    /\ UNCHANGED <<chain, provider, proc, losses>>

\* declinedEnvelope: a chain that is over is left alone.
CheckDecline(w) ==
    LET e == proc[w].env IN
    /\ At(w, "check") /\ provider[e] = "DECLINED"
    /\ IF request \in Open /\ party[env[e].of] \in Unsettled THEN Goto(w, "refuse") ELSE Return(w)
    /\ UNCHANGED <<chain, env, provider, losses>>

\* Mutant: the claim of a party settled by another method is kept.
UnclaimClosed(w) ==
    LET e == proc[w].env IN
    /\ At(w, "check") /\ provider[e] = "COMPLETED"
    /\ request \notin Open \/ party[env[e].of] \notin Unsettled
    /\ TransitionEnvelope(e, IF request \in Open THEN {} ELSE {"COMPLETED"}, "CANCELLED")
    /\ Return(w)
    /\ UNCHANGED <<chain, provider, losses>>

\* completedEnvelope, step 2: the request closed, or the party settled by
\* another method, while the provider was working.
Unclaim(w) ==
    LET e == proc[w].env IN
    /\ At(w, "check") /\ provider[e] = "COMPLETED"
    /\ request \notin Open \/ party[env[e].of] \notin Unsettled
    /\ TransitionEnvelope(e, {"COMPLETED"}, "CANCELLED")
    /\ Return(w)
    /\ UNCHANGED <<chain, provider, losses>>

\* Step 3: a document that moved ends the chain, one that cannot be read fails
\* the envelope.
CheckDocument(w) ==
    LET e == proc[w].env IN
    /\ At(w, "check") /\ provider[e] = "COMPLETED"
    /\ request \in Open /\ party[env[e].of] \in Unsettled
    /\ \/ /\ ~amended /\ Goto(w, "settle")
          /\ UNCHANGED <<request, env, losses>>
       \/ /\ amended /\ Return(w)
          /\ OnAmendment
          /\ TransitionEnvelope(e, {"COMPLETED"}, "FAILED")
          /\ UNCHANGED losses
       \/ /\ Fault /\ Return(w)
          /\ TransitionEnvelope(e, {"COMPLETED"}, "FAILED")
          /\ UNCHANGED request
    /\ UNCHANGED <<amended, party, rows, certificate, provider>>

-----------------------------------------------------------------------------
(* The act of signing, by code or by envelope. *)

\* What an error does: the claim of an envelope goes back, a page shows it.
PutBack(w, to) ==
    /\ Return(w)
    /\ IF proc[w].env = None THEN UNCHANGED env
       ELSE TransitionEnvelope(proc[w].env, {"COMPLETED"}, to)

\* The second arbiter of the race; the envelope that loses it is cancelled.
Settle(w) ==
    LET p == proc[w].party IN
    /\ At(w, "settle")
    /\ SettleParty(p, "SIGNED")
    /\ IF party'[p] # party[p] THEN Goto(w, "insert") /\ UNCHANGED env
       ELSE PutBack(w, "CANCELLED")
    /\ UNCHANGED <<request, amended, rows, certificate, provider, losses>>

\* The document_signature row, and the vaulted copies on the envelope.
Insert(w) ==
    LET e == proc[w].env IN
    /\ At(w, "insert") /\ Goto(w, "advance")
    /\ rows' = [rows EXCEPT ![proc[w].party] = @ + 1]
    /\ env' = IF e = None THEN env ELSE [env EXCEPT ![e].vaulted = TRUE]
    /\ UNCHANGED <<request, amended, party, certificate, provider, losses>>

\* advance: with nobody left the request completes, unless it was closed.
Advance(w) ==
    /\ At(w, "advance")
    /\ IF Remaining = {}
       THEN TransitionRequest(Open, "COMPLETED") /\ Goto(w, "certify")
       ELSE /\ TransitionRequest(Open, "PARTIALLY_SIGNED")
            /\ IF party[Min(Remaining)] = "PENDING" THEN Goto(w, "dispatch") ELSE Return(w)
    /\ UNCHANGED <<amended, party, rows, certificate, env, provider, losses>>

\* dispatch, called by advance outside a transaction: it throws when the request
\* was closed or the party was dispatched in between, and when the mail fails,
\* with the party already SENT.  Nobody signs with a link
\* between the read of a pending party and its update, so these are one step.
Dispatch(w) ==
    LET pending == {p \in Party : party[p] = "PENDING"} IN
    /\ At(w, "dispatch")
    /\ IF request \in Open /\ pending # {}
       THEN /\ party' = [party EXCEPT ![Min(pending)] = "SENT"]
            /\ \/ Return(w) /\ UNCHANGED <<env, losses>>
               \/ PutBack(w, "SENT") /\ Fault
       ELSE PutBack(w, "SENT") /\ UNCHANGED <<party, losses>>
    /\ UNCHANGED <<request, amended, rows, certificate, provider>>

\* generateCertificate, also asked for by the tenant: the read, then the
\* rendering and the update.
AskCertificate(w) ==
    /\ At(w, "idle") /\ request = "COMPLETED" /\ ~certificate
    /\ Begin(w, "certify", None, None)
    /\ UNCHANGED <<chain, env, provider, losses>>

Certify(w) ==
    /\ At(w, "certify")
    /\ IF ~certificate /\ request = "COMPLETED" THEN Goto(w, "render") ELSE Return(w)
    /\ UNCHANGED <<chain, env, provider, losses>>

Render(w) ==
    /\ At(w, "render") /\ Return(w)
    /\ certificate' = TRUE
    /\ UNCHANGED <<request, amended, party, rows, env, provider, losses>>

-----------------------------------------------------------------------------
(* Voiding. *)

\* voidRequest, and the list of envelopes in flight with the ref each has by then.
Void(w) ==
    /\ At(w, "idle") /\ request \in Open \cup {"AMENDED"}
    /\ request' = "VOIDED"
    /\ proc' = [proc EXCEPT ![w] = [Idle EXCEPT !.pc = "cancel",
                    !.todo = {<<e, env[e].charged>> : e \in {d \in Env : env[d].status \in InFlight}}]]
    /\ UNCHANGED <<amended, party, rows, certificate, env, provider, losses>>

\* cancelForRequest: one envelope.  If the provider does not take the cancel,
\* the envelope keeps its status; without the provider's key nobody asks it, and
\* its document stays what it is, completed maybe.
CancelEnvelope(w) ==
    /\ At(w, "cancel")
    /\ \E listed \in proc[w].todo :
        LET e == listed[1]
            asks == listed[2]
            refused == asks /\ provider[e] \in {"COMPLETED", "DECLINED"}
        IN  /\ proc' = [proc EXCEPT ![w].todo = @ \ {listed}]
            /\ \/ /\ ~refused
                  /\ provider' = IF asks THEN [provider EXCEPT ![e] = "CANCELLED"] ELSE provider
                  /\ TransitionEnvelope(e, InFlight, "CANCELLED")
                  /\ UNCHANGED losses
               \/ /\ asks /\ UNCHANGED <<provider, losses>>
                  /\ TransitionEnvelope(e, InFlight, "CANCELLED")
               \/ refused /\ UNCHANGED <<env, provider, losses>>
               \/ Fault /\ UNCHANGED <<env, provider>>
    /\ UNCHANGED chain

Cancelled(w) ==
    /\ At(w, "cancel") /\ proc[w].todo = {} /\ Return(w)
    /\ UNCHANGED <<chain, env, provider, losses>>

-----------------------------------------------------------------------------
(* Faults. *)

\* Mutant: the claim goes back to a status of the party.
StepFailsPending(w) ==
    /\ proc[w].pc \in {"settle", "insert", "advance", "dispatch"} /\ proc[w].env # None
    /\ Fault
    /\ PutBack(w, "PENDING")
    /\ UNCHANGED <<chain, provider>>

\* A step of 4 to 7 throws: the claim goes back to the poll, or, when the
\* provider refuses its files for good, the envelope fails.
StepFails(w) ==
    /\ proc[w].pc \in {"settle", "insert", "advance", "dispatch"} /\ proc[w].env # None
    /\ Fault
    /\ PutBack(w, "SENT") \/ (At(w, "settle") /\ PutBack(w, "FAILED"))
    /\ UNCHANGED <<chain, provider>>

\* The process dies, or its connection does and with it the update that would put
\* the claim back, an error that is swallowed; or a page's request ends with one.
Die(w) ==
    /\ ~At(w, "idle") /\ Return(w)
    /\ faults < MaxFaults /\ faults' = faults + 1
    /\ orphaned' = orphaned \cup ({proc[w].env} \ {None})
    /\ UNCHANGED <<chain, env, provider>>

-----------------------------------------------------------------------------
Continue(w) ==
    \/ Handoff(w) \/ Create(w) \/ Charge(w)
    \/ Refuse(w) \/ Close(w)
    \/ CheckDecline(w) \/ Unclaim(w) \/ CheckDocument(w)
    \/ Settle(w) \/ Insert(w) \/ Advance(w) \/ Dispatch(w)
    \/ Certify(w) \/ Render(w)
    \/ CancelEnvelope(w) \/ Cancelled(w)

Next ==
    \/ SendNext \/ Edit \/ Expire
    \/ \E e \in Env : ProviderEnds(e) \/ PollUnconfirmed(e)
    \/ \E w \in Procs :
        \/ \E p \in Party : Complete(w, p) \/ Decline(w, p)
        \/ \E e \in Env : Deliver(w, e)
        \/ AskCertificate(w) \/ Void(w)
        \/ Continue(w) \/ StepFails(w) \/ Die(w)

Spec == Init /\ [][Next]_vars

\* A process runs on; the poll asks the provider again every half hour about what is
\* still in flight.  That takes a configured provider, and an envelope among the
\* hundred oldest in flight, which is all a sweep looks at.
FairSpec ==
    /\ Spec
    /\ \A w \in Procs : WF_vars(Continue(w))
    /\ \A e \in Env : WF_vars(PollUnconfirmed(e)) /\ SF_vars(\E w \in Procs : Deliver(w, e))

-----------------------------------------------------------------------------
(* Properties. *)

TypeOK ==
    /\ request \in Open \cup {"COMPLETED", "DECLINED", "VOIDED", "EXPIRED", "AMENDED"}
    /\ amended \in BOOLEAN /\ certificate \in BOOLEAN
    /\ party \in [Party -> Unsettled \cup {"SIGNED", "DECLINED"}]
    /\ rows \in [Party -> Nat]
    /\ env \in [Env -> [status : InFlight \cup Ended \cup {"none", "FAILED"},
                        of : Party \cup {None}, charged : BOOLEAN, vaulted : BOOLEAN]]
    /\ provider \in [Env -> Ended \cup {"none", "open"}]
    /\ proc \in [Procs ->
           [pc : {"idle", "handoff", "create", "charge", "refuse", "close", "check", "settle",
                  "insert", "advance", "dispatch", "certify", "render", "cancel"},
            party : Party \cup {None}, env : Env \cup {None},
            todo : SUBSET (Env \X BOOLEAN)]]
    /\ faults \in 0 .. MaxFaults
    /\ orphaned \subseteq Env

\* "A replayed webhook writes one signature, not two", and a party that signs by
\* code while the provider finishes writes one as well.
OneSignature == \A p \in Party : rows[p] <= 1 /\ (rows[p] = 1 => party[p] = "SIGNED")

\* Parties that count as signed, and envelopes that are COMPLETED, without a
\* signature and without a process that is writing it.
Unwritten == {p \in Party : /\ party[p] = "SIGNED" /\ rows[p] = 0
                            /\ \A w \in Procs : ~(At(w, "insert") /\ proc[w].party = p)}
Hollow == {e \in Env : /\ env[e].status = "COMPLETED" /\ ~env[e].vaulted
                       /\ \A w \in Procs : proc[w].env # e}

\* "There is no status that means 'we think it is signed'", but for faults: a party
\* without its signature has one of its own, and an envelope whose claim was never
\* put back lost its process.
EmptyHandsNeedFaults == Cardinality(Unwritten) <= faults /\ Hollow \subseteq orphaned

\* A chain completes, and has its certificate, only when everybody has answered;
\* and once everybody has signed it does, unless a step failed or it was closed.
CompletesOnceAnswered ==
    /\ [](/\ request = "COMPLETED" => \A p \in Party : party[p] \notin Unsettled
          /\ certificate => request = "COMPLETED")
    /\ (\A p \in Party : party[p] = "SIGNED") ~> (request \notin Open \/ faults > 0)

\* "A certificate is issued when every party has signed."  False: advance takes
\* nobody pending for everybody signed, and a decline is two updates.
CertificateMeansSigned == certificate => \A p \in Party : party[p] = "SIGNED"

\* None is in creation for ever, and once the provider is done with a document its
\* envelope is settled for good: after a lost webhook or a failed step by the poll,
\* with the signed copies in the vault if it says COMPLETED.  Only an envelope whose
\* process died after the claim says so without them, and no poll looks at it again.
EveryEnvelopeSettles ==
    \A e \in Env :
        /\ env[e].status = "CREATING" ~> env[e].status # "CREATING"
        /\ env[e].charged /\ provider[e] \in Ended ~>
              [](/\ env[e].status \notin InFlight
                 /\ env[e].status = "COMPLETED" => env[e].vaulted \/ e \in orphaned)
=============================================================================
