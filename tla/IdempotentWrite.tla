--------------------------- MODULE IdempotentWrite ---------------------------
(***************************************************************************)
(* One write of the client, sent as often as the network requires, and the *)
(* idempotency middleware that makes the copies one.                       *)
(*                                                                         *)
(* The client tags the write with a key once.  When no response comes back *)
(* it keeps the write in its outbox and sends a further copy on every      *)
(* flush.  On the server a copy claims the key, or reads what became of    *)
(* it; the one that runs records its outcome before it answers.  Copies of *)
(* the key may be on the server together: the network gives no sign of     *)
(* whether a request that was not answered is still being served.          *)
(***************************************************************************)
EXTENDS Naturals, FiniteSets

CONSTANTS
    MaxCopies,    \* bound: requests the client sends for the write
    MaxFaults,    \* bound: deaths of a process, failures of the middleware's
                  \*        own queries, errors after a commit, outages longer
                  \*        than the life of a key
    MaxAttempts   \* MAX_ATTEMPTS of the outbox

ASSUME WriteAssumption ==
    /\ MaxCopies \in Nat \ {0} /\ MaxFaults \in Nat
    /\ MaxAttempts \in Nat /\ MaxAttempts > 1

Copies == 1 .. MaxCopies
NoCopy == 0

VARIABLES
    client,     \* state of the write in the browser
    attempts,   \* attempts counted against it
    sent,       \* copies sent; the latest is the one the client waits for
    row,        \* idempotency_key: none, in_flight or completed
    stale,      \* the in-flight claim is older than STALE_CLAIM, or the completed
                \* row is past its expires_at
    original,   \* the copy whose response is recorded
    pc,         \* where each copy is
    answer,     \* the response each copy is about to give or has given
    captured,   \* copies whose response the middleware will record
    owed,       \* copies that have answered and have yet to free the key
    bodyless,   \* the endpoint answers with res.end, not with res.json
    faults,
    claimant,   \* history: the copy that took the claim last
    effects,    \* history: copies whose work was committed
    unclaimed,  \* history: copies that ran without taking the claim
    overrun     \* history: copies still being served when their claim grew stale

outbox  == <<client, attempts, sent>>
key     == <<row, stale, original>>
server  == <<pc, answer, captured, owed, bodyless>>
history == <<claimant, effects, unclaimed, overrun>>
vars    == <<client, attempts, sent, row, stale, original, pc, answer, captured,
             owed, bodyless, faults, claimant, effects, unclaimed, overrun>>

\* ok: 2xx; refused: a 4xx decision; failed: 5xx; busy: IDEMPOTENCY_IN_PROGRESS.
Answers == {"ok", "refused", "failed", "busy"}

\* handler: running, nothing committed; committed: its work is, it still runs;
\* outcome: res.json is recording; answered: the response is on its way.
Places  == {"unsent", "transit", "read", "handler", "committed", "outcome",
            "answered", "dead"}
Running == {"handler", "committed", "outcome"}

TypeOK ==
    /\ client \in {"idle", "first", "queued", "replay", "sent", "thrown", "rejected"}
    /\ attempts \in 0 .. MaxAttempts
    /\ sent \in 0 .. MaxCopies
    /\ row \in {"none", "in_flight", "completed"}
    /\ stale \in BOOLEAN
    /\ original \in Copies \cup {NoCopy}
    /\ pc \in [Copies -> Places]
    /\ answer \in [Copies -> Answers]
    /\ captured \subseteq Copies /\ owed \subseteq Copies
    /\ bodyless \in BOOLEAN
    /\ faults \in 0 .. MaxFaults
    /\ claimant \in Copies \cup {NoCopy}
    /\ effects \subseteq Copies
    /\ unclaimed \subseteq Copies /\ overrun \subseteq Copies

Init ==
    /\ client = "idle" /\ attempts = 0 /\ sent = 0
    /\ row = "none" /\ stale = FALSE /\ original = NoCopy
    /\ pc = [i \in Copies |-> "unsent"]
    /\ answer = [i \in Copies |-> "failed"]
    /\ captured = {} /\ owed = {} /\ faults = 0
    /\ bodyless \in BOOLEAN
    /\ claimant = NoCopy /\ effects = {} /\ unclaimed = {} /\ overrun = {}

Goto(i, place) == pc' = [pc EXCEPT ![i] = place]
Answer(i, a)   == answer' = [answer EXCEPT ![i] = a]
Fault          == faults < MaxFaults /\ faults' = faults + 1

-----------------------------------------------------------------------------
(* The client's outbox.                                                    *)

Send ==
    /\ sent < MaxCopies
    /\ sent' = sent + 1
    /\ Goto(sent + 1, "transit")
    /\ UNCHANGED <<answer, captured, owed, bodyless, key, faults, history>>

Submit ==
    /\ client = "idle" /\ client' = "first"
    /\ Send
    /\ UNCHANGED attempts

\* A flush: on a reconnect, at the start of the application, after a retry.
Flush ==
    /\ client = "queued" /\ client' = "replay"
    /\ Send
    /\ UNCHANGED attempts

\* No response comes back, wherever the copy is.
NetworkError ==
    /\ client \in {"first", "replay"}
    /\ client' = "queued"
    /\ attempts' = IF client = "first" THEN 1 ELSE attempts
    /\ UNCHANGED <<sent, key, server, faults, history>>

\* The response to the copy the client waits for arrives.
Permanent == {"refused"}

\* Mutant: attempts are counted and not limited.
ReceiveUncapped ==
    LET a == answer[sent]
    IN  /\ client \in {"first", "replay"}
        /\ pc[sent] = "answered"
        /\ client' = CASE a = "ok" -> "sent"
                       [] a # "ok" /\ client = "first" -> "thrown"
                       [] a \in Permanent /\ client = "replay" -> "rejected"
                       [] OTHER -> "queued"
        /\ attempts' = IF a # "ok" /\ client = "replay" THEN attempts + 1 ELSE attempts
        /\ UNCHANGED <<sent, key, server, faults, history>>

Receive ==
    LET a == answer[sent]
    IN  /\ client \in {"first", "replay"}
        /\ pc[sent] = "answered"
        /\ \/ /\ a = "ok"
              /\ client' = "sent"
              /\ UNCHANGED attempts
           \/ /\ a # "ok" /\ client = "first"
              /\ client' = "thrown"
              /\ UNCHANGED attempts
           \/ /\ a # "ok" /\ client = "replay"
              /\ attempts' = attempts + 1
              /\ client' = IF a \in Permanent \/ attempts + 1 >= MaxAttempts
                           THEN "rejected" ELSE "queued"
        /\ UNCHANGED <<sent, key, server, faults, history>>

\* The user puts a rejected write back.
RetryEntry ==
    /\ client = "rejected"
    /\ client' = "queued" /\ attempts' = 0
    /\ UNCHANGED <<sent, key, server, faults, history>>

-----------------------------------------------------------------------------
(* The middleware in front of the handler.                                 *)

\* Mutant: any claim that is not completed is taken over.
ClaimableInFlight == row # "completed"

\* Mutant: no reclaim window, a claim ends with its response only.
ClaimableExpired == row = "none" \/ (row = "completed" /\ stale)

\* INSERT ... ON CONFLICT DO UPDATE: the key is free, its claim is stale or it
\* has expired.
Claimable == row = "none" \/ stale

Claim(i) ==
    /\ pc[i] = "transit"
    /\ IF Claimable
       THEN /\ row' = "in_flight" /\ stale' = FALSE /\ original' = NoCopy
            /\ claimant' = i
            /\ captured' = captured \cup {i}
            /\ Goto(i, "handler")
       ELSE /\ Goto(i, "read")
            /\ UNCHANGED <<key, captured, claimant>>
    /\ UNCHANGED <<outbox, answer, owed, bodyless, faults, effects, unclaimed, overrun>>

\* The claim's own query fails: the write runs without replay protection.
ClaimFails(i) ==
    /\ pc[i] \in {"transit", "read"}
    /\ Fault
    /\ Goto(i, "handler")
    /\ unclaimed' = unclaimed \cup {i}
    /\ UNCHANGED <<outbox, key, answer, captured, owed, bodyless, claimant, effects, overrun>>

\* WHERE key = $1 AND expires_at > now() finds nothing.
Gone == row = "none" \/ (row = "completed" /\ stale)

\* Mutant: a claim still running is answered as if it had completed.
ReadOptimistic(i) ==
    /\ pc[i] = "read"
    /\ \/ /\ Gone
          /\ Goto(i, "handler")
          /\ captured' = captured \cup {i}
          /\ unclaimed' = unclaimed \cup {i}
          /\ UNCHANGED answer
       \/ /\ ~Gone
          /\ Goto(i, "answered") /\ Answer(i, "ok")
          /\ UNCHANGED <<captured, unclaimed>>
    /\ UNCHANGED <<outbox, key, owed, bodyless, faults, claimant, effects, overrun>>

\* Somebody else had the key: what became of it?
Read(i) ==
    /\ pc[i] = "read"
    /\ \/ /\ Gone
          /\ Goto(i, "handler")
          /\ captured' = captured \cup {i}
          /\ unclaimed' = unclaimed \cup {i}
          /\ UNCHANGED answer
       \/ /\ row = "in_flight"
          /\ Goto(i, "answered") /\ Answer(i, "busy")
          /\ UNCHANGED <<captured, unclaimed>>
       \/ /\ row = "completed" /\ ~stale
          /\ Goto(i, "answered") /\ Answer(i, answer[original])
          /\ UNCHANGED <<captured, unclaimed>>
    /\ UNCHANGED <<outbox, key, owed, bodyless, faults, claimant, effects, overrun>>

\* The handler commits its work.
Commit(i) ==
    /\ pc[i] = "handler"
    /\ effects' = effects \cup {i}
    /\ Goto(i, "committed")
    /\ UNCHANGED <<outbox, key, answer, captured, owed, bodyless, faults, claimant, unclaimed,
                   overrun>>

\* The handler is done: with what it committed, or with an error instead of it.
Finish(i) ==
    /\ \/ pc[i] = "committed" /\ ~bodyless /\ Answer(i, "ok")
       \/ pc[i] = "handler" /\ (Answer(i, "refused") \/ Answer(i, "failed"))
    /\ Goto(i, "outcome")
    /\ UNCHANGED <<outbox, key, captured, owed, bodyless, faults, history>>

\* A handler commits and fails afterwards.
FailLate(i) ==
    /\ pc[i] = "committed"
    /\ Fault
    /\ Answer(i, "failed") /\ Goto(i, "outcome")
    /\ UNCHANGED <<outbox, key, captured, owed, bodyless, history>>

\* Mutant: a success frees the key too.
RecordNoOutcome(i) ==
    row' = "none" /\ stale' = FALSE /\ original' = NoCopy /\ answer[i] \in Answers

\* res.json: a success is recorded on the row, if there is one, an error frees
\* the key; only then is the response sent.
RecordOutcome(i) ==
    \/ /\ answer[i] = "ok" /\ row # "none"
       /\ row' = "completed" /\ original' = i /\ stale' = (stale /\ row = "completed")
    \/ /\ answer[i] = "ok" /\ row = "none"
       /\ UNCHANGED key
    \/ /\ answer[i] # "ok"
       /\ row' = "none" /\ stale' = FALSE /\ original' = NoCopy

Outcome(i) ==
    /\ pc[i] = "outcome"
    /\ IF i \in captured THEN RecordOutcome(i) ELSE UNCHANGED key
    /\ Goto(i, "answered")
    /\ UNCHANGED <<outbox, answer, captured, owed, bodyless, faults, history>>

\* Mutant: res.end is left as it is.
EndUnseen(i) ==
    /\ pc[i] = "committed" /\ bodyless
    /\ Answer(i, "ok") /\ Goto(i, "answered")
    /\ UNCHANGED <<outbox, key, captured, owed, bodyless, faults, history>>

\* res.end: there is no body to replay, so the key is freed after the answer.
EndBodyless(i) ==
    /\ pc[i] = "committed" /\ bodyless
    /\ Answer(i, "ok") /\ Goto(i, "answered")
    /\ owed' = owed \cup ({i} \cap captured)
    /\ UNCHANGED <<outbox, key, captured, bodyless, faults, history>>

FreeKey(i) ==
    /\ i \in owed
    /\ owed' = owed \ {i}
    /\ row' = "none" /\ stale' = FALSE /\ original' = NoCopy
    /\ UNCHANGED <<outbox, pc, answer, captured, bodyless, faults, history>>

\* Recording or freeing fails; the response is sent all the same.
OutcomeFails(i) ==
    /\ \/ pc[i] = "outcome" /\ i \in captured
       \/ i \in owed
    /\ Fault
    /\ Goto(i, "answered") /\ owed' = owed \ {i}
    /\ UNCHANGED <<outbox, key, answer, captured, bodyless, history>>

\* The process that serves the copy dies.
Die(i) ==
    /\ pc[i] \in {"transit", "read"} \cup Running
    /\ Fault
    /\ Goto(i, "dead")
    /\ UNCHANGED <<outbox, key, answer, captured, owed, bodyless, history>>

\* The copy whose claim is in flight is there to settle it.
InHand == pc[claimant] \in Running \/ claimant \in owed

\* Five minutes pass since the claim.  They are meant to be "comfortably longer
\* than any request this API serves", but nothing ends a request that takes
\* longer, and the takeover asks for the age alone.
Age ==
    /\ row = "in_flight" /\ ~stale
    /\ stale' = TRUE
    /\ overrun' = IF InHand THEN overrun \cup {claimant} ELSE overrun
    /\ UNCHANGED <<outbox, row, original, server, faults, claimant, effects, unclaimed>>

\* Forty-eight hours pass; the outbox of the browser knows no such limit.
Expire ==
    /\ row = "completed" /\ ~stale
    /\ Fault
    /\ stale' = TRUE
    /\ UNCHANGED <<outbox, row, original, server, history>>

-----------------------------------------------------------------------------
Serve(i) == Claim(i) \/ Read(i) \/ Finish(i) \/ Outcome(i) \/ EndBodyless(i) \/ FreeKey(i)

Next ==
    \/ Submit \/ Flush \/ NetworkError \/ Receive \/ RetryEntry \/ Age \/ Expire
    \/ \E i \in Copies :
        \/ Serve(i) \/ Commit(i)
        \/ ClaimFails(i) \/ FailLate(i) \/ OutcomeFails(i) \/ Die(i)

Spec == Init /\ [][Next]_vars

\* The server gets on with its requests and time passes.  Nothing is assumed of
\* the client: a flush waits for a reconnect or a start of the application.
FairSpec ==
    /\ Spec
    /\ WF_vars(Age)
    /\ \A i \in Copies : WF_vars(Serve(i))

-----------------------------------------------------------------------------
\* "Two identical writes racing is the exact thing this table exists to prevent":
\* the claimants that run beside each other are one, and one more for each copy
\* that outran the reclaim window and for each that found the key free only after
\* its claim had been refused.  A copy that was overtaken settles a key that is no
\* longer its own, and even so lets nobody else in.
OverlapsHaveACause ==
    Cardinality({i \in captured : pc[i] \in Running})
        <= 1 + Cardinality(overrun) + Cardinality(captured \cap unclaimed)

\* Unless something failed, the claim in flight belongs to a copy that will settle
\* it: no retry meets "a 409 for the whole five-minute stale window" for nothing.
ClaimInHand == faults = 0 /\ row = "in_flight" => InHand

\* "The caller gets the ORIGINAL response": what is recorded is the success of a
\* copy that did the work, never an error and never an empty success, and a write
\* the outbox drops as sent was done.
AnswersAreTrue ==
    /\ row = "completed" => original \in effects /\ answer[original] = "ok"
    /\ client = "sent" => effects # {}

\* However often an answer with a body is sent for, every time the work is done
\* beyond the first has a cause of its own: a fault, a copy that outran the reclaim
\* window, or one that found the key free only after its claim had been refused.
EveryRepeatHasACause ==
    ~bodyless =>
        Cardinality(effects)
            <= 1 + faults + Cardinality(overrun) + Cardinality(captured \cap unclaimed)

\* "Without a reclaim window, one crash mid-write would lock that key out
\* permanently": every claim is settled by its response in the end, and one that a
\* failure left behind is at least open to the next copy.
KeyComesFree == row = "in_flight" ~> (row # "in_flight" \/ (faults > 0 /\ Claimable))
=============================================================================
