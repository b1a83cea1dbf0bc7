------------------------ MODULE IdempotentWriteProofs ------------------------
(* Proofs about the idempotent write: the type invariant, how many claimants *)
(* may run beside each other, how often the work is done and what the client *)
(* is told of it, for every number of copies and faults.                     *)
EXTENDS IdempotentWrite, FiniteSetTheorems, TLAPS

\* A copy that has not been sent is nowhere.
UnsentInv == \A i \in Copies : i > sent => pc[i] = "unsent"

\* The outbox offers no write that has used up its attempts.
AttemptsInv == client \in {"queued", "replay"} => attempts < MaxAttempts

\* A response on record is some copy's.
OriginalInv == row = "completed" => original \in Copies

\* Capturing starts when a copy gets past the middleware; the key is owed by
\* copies that have answered, and a claim in flight was taken by a captured copy.
CaptureInv ==
    /\ \A i \in captured : pc[i] \notin {"unsent", "transit", "read"}
    /\ \A i \in owed : i \in captured /\ pc[i] = "answered"
    /\ row = "in_flight" => claimant \in captured

IInv == TypeOK /\ UnsentInv /\ AttemptsInv /\ OriginalInv /\ CaptureInv

-----------------------------------------------------------------------------
\* Where a step takes a copy, and what it answers, is of the right type.
LEMMA GotoType ==
    ASSUME TypeOK, NEW i \in Copies, NEW place \in Places, Goto(i, place)
    PROVE  /\ pc' \in [Copies -> Places]
           /\ pc'[i] = place
           /\ \A j \in Copies : j # i => pc'[j] = pc[j]
  BY DEF Goto, TypeOK

LEMMA AnswerType ==
    ASSUME TypeOK, NEW i \in Copies, NEW a \in Answers, Answer(i, a)
    PROVE  answer' \in [Copies -> Answers]
  BY DEF Answer, TypeOK

LEMMA FaultType ==
    ASSUME TypeOK, Fault
    PROVE  faults' \in 0 .. MaxFaults
  BY WriteAssumption DEF Fault, TypeOK

LEMMA InitIInv == Init => IInv
  <1> SUFFICES ASSUME Init PROVE IInv
    OBVIOUS
  <1> USE WriteAssumption DEF Init
  <1>1. TypeOK
    <2>1. pc \in [Copies -> Places] /\ answer \in [Copies -> Answers]
      BY DEF Places, Answers
    <2>2. attempts \in 0 .. MaxAttempts /\ sent \in 0 .. MaxCopies /\ faults \in 0 .. MaxFaults
      OBVIOUS
    <2>3. bodyless \in BOOLEAN /\ stale \in BOOLEAN
      OBVIOUS
    <2> HIDE WriteAssumption
    <2> QED BY <2>1, <2>2, <2>3 DEF TypeOK
  <1>2. UnsentInv /\ AttemptsInv /\ OriginalInv
    BY DEF UnsentInv, AttemptsInv, OriginalInv
  <1>3. CaptureInv
    BY DEF CaptureInv
  <1> QED BY <1>1, <1>2, <1>3 DEF IInv

-----------------------------------------------------------------------------
\* The client sends one more copy, the first that was unsent.
LEMMA SendStep ==
    ASSUME IInv, Send, client' \in {"first", "replay"}, UNCHANGED attempts,
           client' = "replay" => client = "queued"
    PROVE  IInv'
  <1> USE DEF IInv, key, history
  <1> DEFINE n == sent + 1
  <1>1. n \in Copies /\ sent' = n /\ pc[n] = "unsent" /\ sent \in Nat
    BY WriteAssumption DEF Send, TypeOK, Copies, UnsentInv
  <1>2. /\ pc' \in [Copies -> Places] /\ pc'[n] = "transit"
        /\ \A j \in Copies : j # n => pc'[j] = pc[j]
    BY <1>1, GotoType DEF Send, Places
  <1>3. TypeOK'
    BY <1>1, <1>2, WriteAssumption DEF Send, TypeOK, Copies
  <1>4. UnsentInv'
    BY <1>1, <1>2 DEF UnsentInv, Copies
  <1>5. AttemptsInv' /\ OriginalInv'
    BY DEF AttemptsInv, OriginalInv, Send
  <1>6. n \notin captured /\ n \notin owed
    BY <1>1 DEF CaptureInv
  <1>7. CaptureInv'
    BY <1>2, <1>6 DEF CaptureInv, Send, TypeOK
  <1> QED BY <1>3, <1>4, <1>5, <1>7

\* The client takes notice of an answer or of its absence.
LEMMA ClientStep ==
    ASSUME IInv, NetworkError \/ Receive \/ RetryEntry
    PROVE  IInv'
  <1> USE DEF IInv, key, server, history, outbox
  <1>1. UNCHANGED <<sent, row, stale, original, pc, answer, captured, owed,
                    bodyless, faults, claimant, effects, unclaimed, overrun>>
    BY DEF NetworkError, Receive, RetryEntry
  <1>2. /\ client' \in {"queued", "sent", "thrown", "rejected"}
        /\ attempts' \in 0 .. MaxAttempts
        /\ client' = "queued" => attempts' < MaxAttempts
    <2>1. CASE NetworkError
      BY <2>1, WriteAssumption DEF NetworkError, TypeOK, AttemptsInv
    <2>2. CASE Receive
      BY <2>2, WriteAssumption DEF Receive, TypeOK, AttemptsInv
    <2>3. CASE RetryEntry
      BY <2>3, WriteAssumption DEF RetryEntry
    <2> QED BY <2>1, <2>2, <2>3
  <1>3. TypeOK'
    BY <1>1, <1>2 DEF TypeOK
  <1>4. UnsentInv' /\ OriginalInv' /\ CaptureInv'
    BY <1>1 DEF UnsentInv, OriginalInv, CaptureInv
  <1>5. AttemptsInv'
    BY <1>2 DEF AttemptsInv
  <1> QED BY <1>3, <1>4, <1>5

\* A claim or a record grows old.
LEMMA TimeStep ==
    ASSUME IInv, Age \/ Expire
    PROVE  IInv'
  <1> USE DEF IInv, key, server, history, outbox
  <1>1. UNCHANGED <<client, attempts, sent, row, original, pc, answer, captured,
                    owed, bodyless, claimant, effects, unclaimed>>
        /\ stale' = TRUE
    BY DEF Age, Expire
  <1>2. faults' \in 0 .. MaxFaults
    BY FaultType DEF Age, Expire, TypeOK
  <1>3. overrun' \subseteq Copies
    <2>1. CASE Age
      <3>1. InHand => claimant \in Copies
        BY <2>1 DEF Age, CaptureInv, TypeOK
      <3> QED BY <2>1, <3>1 DEF Age, TypeOK
    <2>2. CASE Expire
      BY <2>2 DEF Expire, TypeOK
    <2> QED BY <2>1, <2>2
  <1>4. TypeOK'
    BY <1>1, <1>2, <1>3 DEF TypeOK
  <1>5. UnsentInv' /\ OriginalInv' /\ CaptureInv' /\ AttemptsInv'
    BY <1>1 DEF UnsentInv, OriginalInv, CaptureInv, AttemptsInv
  <1> QED BY <1>4, <1>5

-----------------------------------------------------------------------------
\* A copy moves on, and the key, the claimant and who is captured stay: the
\* copy neither starts nor stops being the one that will settle the key, or
\* it stops.
LEMMA MoveStep ==
    ASSUME IInv, NEW i \in Copies, NEW place \in Places \ {"unsent", "transit", "read"},
           Goto(i, place), pc[i] # "unsent",
           place \in Running => pc[i] \in Running \/ i \notin captured,
           i \in owed' => place = "answered",
           owed' \subseteq owed \cup ({i} \cap captured),
           i \in owed' \ owed => pc[i] \in Running,
           answer' \in [Copies -> Answers],
           faults' \in 0 .. MaxFaults,
           effects' \subseteq Copies,
           unclaimed \subseteq unclaimed', unclaimed' \subseteq Copies,
           UNCHANGED <<client, attempts, sent, row, stale, original, captured,
                       bodyless, claimant, overrun>>
    PROVE  IInv'
  <1> USE DEF IInv
  <1>1. /\ pc' \in [Copies -> Places] /\ pc'[i] = place
        /\ \A j \in Copies : j # i => pc'[j] = pc[j]
    BY GotoType
  <1>2. TypeOK'
    BY <1>1 DEF TypeOK
  <1>3. UnsentInv' /\ AttemptsInv' /\ OriginalInv'
    BY <1>1 DEF UnsentInv, AttemptsInv, OriginalInv
  <1>4. CaptureInv'
    BY <1>1 DEF CaptureInv, TypeOK
  <1> QED BY <1>2, <1>3, <1>4

\* The copies that move without settling the key.
LEMMA RunStep ==
    ASSUME IInv, NEW i \in Copies,
           ClaimFails(i) \/ Commit(i) \/ Finish(i) \/ FailLate(i) \/ EndBodyless(i)
             \/ OutcomeFails(i) \/ Die(i)
    PROVE  IInv'
  <1> USE DEF IInv, key, server, history, outbox
  <1>t. TypeOK /\ CaptureInv
    OBVIOUS
  <1>1. CASE ClaimFails(i)
    BY <1>1, <1>t, MoveStep, FaultType DEF ClaimFails, CaptureInv, TypeOK, Places, Running
  <1>2. CASE Commit(i)
    BY <1>2, <1>t, MoveStep DEF Commit, CaptureInv, TypeOK, Places, Running
  <1>3. CASE Finish(i)
    BY <1>3, <1>t, MoveStep, AnswerType DEF Finish, CaptureInv, TypeOK, Places, Running, Answers
  <1>4. CASE FailLate(i)
    BY <1>4, <1>t, MoveStep, FaultType, AnswerType
       DEF FailLate, CaptureInv, TypeOK, Places, Running, Answers
  <1>5. CASE EndBodyless(i)
    BY <1>5, <1>t, MoveStep, AnswerType
       DEF EndBodyless, CaptureInv, TypeOK, Places, Running, Answers
  <1>6. CASE OutcomeFails(i)
    BY <1>6, <1>t, MoveStep, FaultType DEF OutcomeFails, CaptureInv, TypeOK, Places, Running
  <1>7. CASE Die(i)
    BY <1>7, <1>t, MoveStep, FaultType DEF Die, CaptureInv, TypeOK, Places, Running
  <1> QED BY <1>1, <1>2, <1>3, <1>4, <1>5, <1>6, <1>7

-----------------------------------------------------------------------------
\* A copy takes the key, or is refused it.
LEMMA ClaimStep ==
    ASSUME IInv, NEW i \in Copies, Claim(i)
    PROVE  IInv'
  <1> USE DEF IInv, key, outbox
  <1>1. pc[i] = "transit" /\ i \notin captured /\ i \notin owed
    BY DEF Claim, CaptureInv
  <1>2. CASE ~Claimable
    <2>1. /\ pc' \in [Copies -> Places] /\ pc'[i] = "read"
          /\ \A j \in Copies : j # i => pc'[j] = pc[j]
      BY <1>2, GotoType DEF Claim, Places
    <2>2. TypeOK'
      BY <1>2, <2>1 DEF Claim, TypeOK
    <2>3. UnsentInv' /\ AttemptsInv' /\ OriginalInv'
      BY <1>1, <1>2, <2>1 DEF Claim, UnsentInv, AttemptsInv, OriginalInv
    <2>4. CaptureInv'
      BY <1>1, <1>2, <2>1 DEF Claim, CaptureInv, TypeOK
    <2> QED BY <2>2, <2>3, <2>4
  <1>3. CASE Claimable
    <2>1. /\ pc' \in [Copies -> Places] /\ pc'[i] = "handler"
          /\ \A j \in Copies : j # i => pc'[j] = pc[j]
      BY <1>3, GotoType DEF Claim, Places
    <2>2. /\ row' = "in_flight" /\ stale' = FALSE /\ original' = NoCopy
          /\ claimant' = i /\ captured' = captured \cup {i}
          /\ UNCHANGED <<client, attempts, sent, answer, owed, bodyless, faults,
                         effects, unclaimed, overrun>>
      BY <1>3 DEF Claim
    <2>3. TypeOK'
      BY <2>1, <2>2 DEF TypeOK
    <2>4. UnsentInv' /\ AttemptsInv' /\ OriginalInv'
      BY <1>1, <2>1, <2>2 DEF UnsentInv, AttemptsInv, OriginalInv
    <2>5. CaptureInv'
      BY <1>1, <2>1, <2>2 DEF CaptureInv, TypeOK
    <2> QED BY <2>3, <2>4, <2>5
  <1> QED BY <1>2, <1>3

\* A copy that was refused the key is answered, or runs unclaimed.
LEMMA ReadStep ==
    ASSUME IInv, NEW i \in Copies, Read(i)
    PROVE  IInv'
  <1> USE DEF IInv, key, outbox
  <1>1. pc[i] = "read" /\ i \notin captured /\ i \notin owed
    BY DEF Read, CaptureInv
  <1>2. CASE Gone /\ Goto(i, "handler") /\ captured' = captured \cup {i}
             /\ unclaimed' = unclaimed \cup {i} /\ UNCHANGED answer
    <2>1. /\ pc' \in [Copies -> Places] /\ pc'[i] = "handler"
          /\ \A j \in Copies : j # i => pc'[j] = pc[j]
      BY <1>2, GotoType DEF Places
    <2>2. TypeOK'
      BY <1>2, <2>1 DEF Read, TypeOK
    <2>3. UnsentInv' /\ AttemptsInv' /\ OriginalInv'
      BY <1>1, <2>1 DEF Read, UnsentInv, AttemptsInv, OriginalInv
    <2>4. CaptureInv'
      BY <1>1, <1>2, <2>1 DEF Read, CaptureInv, TypeOK
    <2> QED BY <2>2, <2>3, <2>4
  <1>3. CASE row \in {"in_flight", "completed"} /\ Goto(i, "answered")
             /\ \/ row = "in_flight" /\ Answer(i, "busy")
                \/ row = "completed" /\ Answer(i, answer[original])
             /\ UNCHANGED <<captured, unclaimed>>
    <2>1. answer' \in [Copies -> Answers]
      BY <1>3, AnswerType DEF OriginalInv, TypeOK, Answers
    <2> QED BY <1>1, <1>3, <2>1, MoveStep DEF Read, TypeOK, Places, Running
  <1> QED BY <1>2, <1>3 DEF Read

\* A copy settles the key, its own or by now another's.
LEMMA SettleStep ==
    ASSUME IInv, NEW i \in Copies, Outcome(i) \/ FreeKey(i)
    PROVE  IInv'
  <1> USE DEF IInv, key, history, outbox
  <1>1. /\ pc' \in [Copies -> Places] /\ pc'[i] = "answered"
        /\ \A j \in Copies : j # i => pc'[j] = pc[j]
    BY GotoType DEF Outcome, FreeKey, Places, CaptureInv, TypeOK
  <1>2. /\ UNCHANGED <<client, attempts, sent, answer, captured, bodyless, faults,
                       claimant, effects, unclaimed, overrun>>
        /\ owed' \subseteq owed
        /\ row' = "in_flight" => row = "in_flight"
        /\ i \in owed' => i \in owed /\ pc[i] = "outcome"
    BY DEF Outcome, FreeKey, RecordOutcome
  <1>3. i \notin owed'
    BY <1>2 DEF CaptureInv
  <1>4. /\ row' \in {"none", "in_flight", "completed"} /\ stale' \in BOOLEAN
        /\ original' \in Copies \cup {NoCopy}
        /\ row' = "completed" => original' \in Copies
    BY DEF Outcome, FreeKey, RecordOutcome, TypeOK, OriginalInv
  <1>5. TypeOK'
    BY <1>1, <1>2, <1>4 DEF TypeOK
  <1>6. UnsentInv' /\ AttemptsInv' /\ OriginalInv'
    BY <1>1, <1>2, <1>4 DEF UnsentInv, AttemptsInv, OriginalInv, Outcome, FreeKey, CaptureInv
  <1>7. CaptureInv'
    BY <1>1, <1>2, <1>3 DEF CaptureInv, TypeOK
  <1> QED BY <1>5, <1>6, <1>7

-----------------------------------------------------------------------------
LEMMA Stutter == IInv /\ UNCHANGED vars => IInv'
  BY DEF IInv, vars, TypeOK, UnsentInv, AttemptsInv, OriginalInv, CaptureInv

LEMMA NextIInv == IInv /\ [Next]_vars => IInv'
  <1> SUFFICES ASSUME IInv, [Next]_vars PROVE IInv'
    OBVIOUS
  <1>1. CASE Submit
    BY <1>1, SendStep DEF Submit
  <1>2. CASE Flush
    BY <1>2, SendStep DEF Flush
  <1>3. CASE NetworkError \/ Receive \/ RetryEntry
    BY <1>3, ClientStep
  <1>4. CASE Age \/ Expire
    BY <1>4, TimeStep
  <1>5. ASSUME NEW i \in Copies, Claim(i) PROVE IInv'
    BY <1>5, ClaimStep
  <1>6. ASSUME NEW i \in Copies, Read(i) PROVE IInv'
    BY <1>6, ReadStep
  <1>7. ASSUME NEW i \in Copies, Outcome(i) \/ FreeKey(i) PROVE IInv'
    BY <1>7, SettleStep
  <1>8. ASSUME NEW i \in Copies,
               ClaimFails(i) \/ Commit(i) \/ Finish(i) \/ FailLate(i)
                 \/ EndBodyless(i) \/ OutcomeFails(i) \/ Die(i)
        PROVE IInv'
    BY <1>8, RunStep
  <1>9. CASE UNCHANGED vars
    BY <1>9, Stutter
  <1> QED BY <1>1, <1>2, <1>3, <1>4, <1>5, <1>6, <1>7, <1>8, <1>9 DEF Next, Serve

THEOREM Inductive == Spec => []IInv
  BY InitIInv, NextIInv, PTL DEF Spec

\* Every variable of the outbox, the key and the copies keeps its type; the
\* attempts never pass MAX_ATTEMPTS.
THEOREM TypeCorrect == Spec => []TypeOK
  <1>1. IInv => TypeOK
    BY DEF IInv
  <1> QED BY <1>1, Inductive, PTL

-----------------------------------------------------------------------------
(* How often the work is done.                                              *)

\* Where the copies the history speaks of may be: a claim that has not aged has not
\* been overrun.
WhereInv ==
    /\ \A i \in effects \cup unclaimed : pc[i] \notin {"unsent", "transit", "read"}
    /\ \A i \in effects : pc[i] # "handler"
    /\ owed # {} => bodyless
    /\ overrun \subseteq captured
    /\ row = "in_flight" /\ ~stale => claimant \notin overrun

\* The claim in flight belongs to a copy that will never settle it.
Abandoned == row = "in_flight" /\ ~InHand

\* Without a fault the copy that holds the claim is there to settle it.
NothingAbandoned == faults = 0 => ~Abandoned

\* The next copy may have the key, now or once the claim has aged.
Open == Claimable \/ Abandoned

\* Copies that may yet do the work, or give the key back without having done it.
Trying ==
    {i \in Copies : \/ pc[i] = "handler"
                    \/ pc[i] = "outcome" /\ answer[i] # "ok" /\ i \in captured}

\* Work done, work that may be done and a key that invites more of it: no step
\* adds to their sum without adding a cause.
CauseInv ==
    ~bodyless =>
        Cardinality(effects) + Cardinality(Trying) + (IF Open THEN 1 ELSE 0)
            <= 1 + faults + Cardinality(overrun) + Cardinality(captured \cap unclaimed)

\* Captured copies that have yet to settle the key.
Holding == {i \in captured : pc[i] \in Running \/ i \in owed}

\* Nobody holds a claim that has not aged.
Free == ~(row = "in_flight" /\ ~stale /\ InHand)

\* Copies that hold, and room for one more: no step adds to their sum without an
\* overrun or a copy that found the key free too late.
OverlapInv ==
    Cardinality(Holding) + (IF Free THEN 1 ELSE 0)
        <= 1 + Cardinality(overrun) + Cardinality(captured \cap unclaimed)

CInv == IInv /\ WhereInv /\ NothingAbandoned /\ CauseInv /\ OverlapInv

\* How the sizes of two sets of copies compare.
LEMMA CopyCounts ==
    ASSUME NEW S \in SUBSET Copies, NEW T \in SUBSET Copies
    PROVE  /\ Cardinality(S) \in Nat /\ Cardinality(T) \in Nat
           /\ T \subseteq S => Cardinality(T) <= Cardinality(S)
           /\ \A i : T \subseteq S \cup {i} => Cardinality(T) <= Cardinality(S) + 1
           /\ \A i \in S : T \subseteq S \ {i} => Cardinality(T) + 1 <= Cardinality(S)
  <1>1. IsFiniteSet(S) /\ IsFiniteSet(T)
    <2>1. IsFiniteSet(Copies)
      BY WriteAssumption, FS_Interval DEF Copies
    <2> QED BY <2>1, FS_Subset
  <1>2. Cardinality(S) \in Nat /\ Cardinality(T) \in Nat
    BY <1>1, FS_CardinalityType
  <1>3. T \subseteq S => Cardinality(T) <= Cardinality(S)
    BY <1>1, FS_Subset
  <1>4. ASSUME NEW i, T \subseteq S \cup {i} PROVE Cardinality(T) <= Cardinality(S) + 1
    <2>1. IsFiniteSet(S \cup {i}) /\ Cardinality(S \cup {i}) <= Cardinality(S) + 1
      <3>1. /\ IsFiniteSet(S \cup {i})
            /\ Cardinality(S \cup {i}) = IF i \in S THEN Cardinality(S) ELSE Cardinality(S) + 1
        BY <1>1, FS_AddElement
      <3> QED BY <1>2, <3>1
    <2>2. Cardinality(T) <= Cardinality(S \cup {i}) /\ Cardinality(S \cup {i}) \in Nat
      BY <1>4, <2>1, FS_Subset, FS_CardinalityType
    <2> QED BY <1>2, <2>1, <2>2
  <1>5. ASSUME NEW i \in S, T \subseteq S \ {i} PROVE Cardinality(T) + 1 <= Cardinality(S)
    <2>1. IsFiniteSet(S \ {i}) /\ Cardinality(S \ {i}) = Cardinality(S) - 1
      BY <1>1, FS_RemoveElement
    <2>2. Cardinality(T) <= Cardinality(S \ {i})
      BY <1>5, <2>1, FS_Subset
    <2> QED BY <1>2, <2>1, <2>2
  <1> QED BY <1>2, <1>3, <1>4, <1>5

LEMMA Sizes ==
    ASSUME TypeOK
    PROVE  /\ faults \in Nat
           /\ effects \in SUBSET Copies /\ Trying \in SUBSET Copies
           /\ captured \cap unclaimed \in SUBSET Copies
           /\ overrun \in SUBSET Copies /\ Holding \in SUBSET Copies
           /\ Cardinality(effects) \in Nat /\ Cardinality(Trying) \in Nat
           /\ Cardinality(captured \cap unclaimed) \in Nat
           /\ Cardinality(overrun) \in Nat /\ Cardinality(Holding) \in Nat
  <1>1. faults \in Nat
    BY WriteAssumption DEF TypeOK
  <1>2. /\ effects \in SUBSET Copies /\ Trying \in SUBSET Copies
        /\ captured \cap unclaimed \in SUBSET Copies
        /\ overrun \in SUBSET Copies /\ Holding \in SUBSET Copies
    BY DEF TypeOK, Trying, Holding
  <1> QED BY <1>1, <1>2, CopyCounts

LEMMA SizesNext ==
    ASSUME TypeOK'
    PROVE  /\ faults' \in Nat
           /\ effects' \in SUBSET Copies /\ Trying' \in SUBSET Copies
           /\ (captured \cap unclaimed)' \in SUBSET Copies
           /\ overrun' \in SUBSET Copies /\ Holding' \in SUBSET Copies
           /\ Cardinality(effects') \in Nat /\ Cardinality(Trying') \in Nat
           /\ Cardinality((captured \cap unclaimed)') \in Nat
           /\ Cardinality(overrun') \in Nat /\ Cardinality(Holding') \in Nat
  <1>1. faults' \in Nat
    BY WriteAssumption DEF TypeOK
  <1>2. /\ effects' \in SUBSET Copies /\ Trying' \in SUBSET Copies
        /\ (captured \cap unclaimed)' \in SUBSET Copies
        /\ overrun' \in SUBSET Copies /\ Holding' \in SUBSET Copies
    BY DEF TypeOK, Trying, Holding
  <1> QED BY <1>1, <1>2, CopyCounts

\* A step that gives nobody a chance, and makes the key available to the next
\* copy only at the price of a fault, of an overrun or of a chance.
LEMMA NoChance ==
    ASSUME TypeOK, TypeOK', CauseInv, UNCHANGED <<bodyless, effects>>,
           Trying' \subseteq Trying, (captured \cap unclaimed) \subseteq (captured \cap unclaimed)',
           overrun \subseteq overrun',
           \/ (Open' => Open) /\ faults' = faults
           \/ faults' = faults + 1
           \/ (\E i \in overrun' : i \notin overrun) /\ faults' = faults
           \/ (\E i \in Trying : i \notin Trying') /\ faults' = faults
    PROVE  CauseInv'
  <1>1. /\ Cardinality(Trying') <= Cardinality(Trying)
        /\ Cardinality(captured \cap unclaimed) <= Cardinality((captured \cap unclaimed)')
        /\ Cardinality(overrun) <= Cardinality(overrun')
    BY Sizes, SizesNext, CopyCounts
  <1>2. ASSUME NEW i \in Trying, i \notin Trying'
        PROVE  Cardinality(Trying') + 1 <= Cardinality(Trying)
    <2>1. Trying' \subseteq Trying \ {i}
      BY <1>2
    <2> QED BY <1>2, <2>1, Sizes, SizesNext, CopyCounts
  <1>3. ASSUME NEW i \in overrun', i \notin overrun
        PROVE  Cardinality(overrun) + 1 <= Cardinality(overrun')
    <2>1. overrun \subseteq overrun' \ {i}
      BY <1>3
    <2> QED BY <1>3, <2>1, Sizes, SizesNext, CopyCounts
  <1> QED BY <1>1, <1>2, <1>3, Sizes, SizesNext DEF CauseInv

\* A copy starts: in exchange for the key, by a fault, or because it found the
\* key free after its claim had been refused.
LEMMA NewChance ==
    ASSUME TypeOK, TypeOK', CauseInv, UNCHANGED <<bodyless, effects>>,
           NEW i, Trying' \subseteq Trying \cup {i}, Open' => Open,
           (captured \cap unclaimed) \subseteq (captured \cap unclaimed)', overrun' = overrun,
           \/ Open /\ ~Open' /\ faults' = faults
           \/ faults' = faults + 1
           \/ i \in (captured \cap unclaimed)' \ (captured \cap unclaimed) /\ faults' = faults
    PROVE  CauseInv'
  <1>1. Cardinality(Trying') <= Cardinality(Trying) + 1
    BY Sizes, SizesNext, CopyCounts
  <1>2. Cardinality(captured \cap unclaimed) <= Cardinality((captured \cap unclaimed)')
    BY Sizes, SizesNext, CopyCounts
  <1>3. ASSUME i \in (captured \cap unclaimed)' \ (captured \cap unclaimed)
        PROVE  Cardinality(captured \cap unclaimed) + 1 <= Cardinality((captured \cap unclaimed)')
    <2>1. (captured \cap unclaimed) \subseteq (captured \cap unclaimed)' \ {i}
      BY <1>3
    <2> QED BY <1>3, <2>1, Sizes, SizesNext, CopyCounts
  <1> QED BY <1>1, <1>2, <1>3, Sizes, SizesNext DEF CauseInv

\* Only the copy that moves starts or stops trying.
LEMMA TryingMove ==
    ASSUME TypeOK, NEW i \in Copies, NEW place \in Places, Goto(i, place),
           \A j \in Copies : j # i => answer'[j] = answer[j],
           captured' \subseteq captured \cup {i}
    PROVE  /\ Trying' \subseteq Trying \cup {i}
           /\ i \in Trying' <=> \/ place = "handler"
                                \/ place = "outcome" /\ answer'[i] # "ok" /\ i \in captured'
           /\ i \notin Trying' => Trying' \subseteq Trying \ {i}
  BY GotoType DEF Trying

\* A claim stays in the hands it is in, as long as the copy that moves is
\* another one or goes on running.
LEMMA ClaimStays ==
    ASSUME TypeOK, CaptureInv, NEW i \in Copies, NEW place \in Places, Goto(i, place),
           UNCHANGED <<row, claimant>>, owed \subseteq owed',
           row = "in_flight" /\ i = claimant => place \in Running \/ i \in owed'
    PROVE  Abandoned' => Abandoned
  <1>1. row = "in_flight" => claimant \in Copies
    BY DEF TypeOK, CaptureInv
  <1> QED BY <1>1, GotoType DEF Abandoned, InHand

LEMMA WhereStep ==
    ASSUME IInv, WhereInv, [Next]_vars
    PROVE  WhereInv'
  <1> USE DEF key, outbox, server, history
  <1>t. TypeOK /\ UnsentInv /\ CaptureInv
    BY DEF IInv
  <1>1. CASE Submit \/ Flush
    <2>1. sent + 1 \in Copies /\ pc[sent + 1] = "unsent"
      BY <1>1, <1>t, WriteAssumption DEF Submit, Flush, Send, TypeOK, Copies, UnsentInv
    <2>2. \A j \in Copies : j # sent + 1 => pc'[j] = pc[j]
      BY <1>1, <1>t, <2>1, GotoType DEF Submit, Flush, Send, Places
    <2> QED BY <1>1, <1>t, <2>1, <2>2 DEF Submit, Flush, Send, WhereInv, TypeOK
  <1>2. CASE NetworkError \/ Receive \/ RetryEntry \/ Expire
    BY <1>2 DEF NetworkError, Receive, RetryEntry, Expire, WhereInv
  <1>8. CASE Age
    BY <1>8, <1>t DEF Age, WhereInv, CaptureInv
  <1>3. ASSUME NEW i \in Copies, Claim(i) \/ Read(i) PROVE WhereInv'
    <2>1. /\ \A j \in Copies : j # i => pc'[j] = pc[j]
          /\ pc'[i] \in {"read", "handler", "answered"} /\ pc[i] \in {"transit", "read"}
      BY <1>3, <1>t, GotoType DEF Claim, Read, Places
    <2>2. i \notin effects \cup unclaimed
      BY <2>1 DEF WhereInv
    <2>3. pc'[i] = "read" => unclaimed' = unclaimed
      BY <1>3, <1>t, GotoType DEF Claim, Read, Places
    <2>4. /\ effects' = effects /\ unclaimed' \subseteq unclaimed \cup {i}
          /\ owed' = owed /\ bodyless' = bodyless /\ captured \subseteq captured'
          /\ overrun' = overrun
      BY <1>3 DEF Claim, Read
    <2>5. i \notin overrun
      BY <1>t, <2>1 DEF WhereInv, CaptureInv
    <2>6. \/ UNCHANGED <<row, stale, claimant>>
          \/ claimant' = i
      BY <1>3 DEF Claim, Read
    <2>7. /\ overrun' \subseteq captured'
          /\ row' = "in_flight" /\ ~stale' => claimant' \notin overrun'
      BY <2>4, <2>5, <2>6 DEF WhereInv
    <2> QED BY <1>t, <2>1, <2>2, <2>3, <2>4, <2>7 DEF WhereInv, TypeOK
  <1>4. ASSUME NEW i \in Copies, ClaimFails(i) \/ Commit(i) \/ Finish(i) \/ FailLate(i)
               \/ Outcome(i) \/ OutcomeFails(i) \/ Die(i)
        PROVE WhereInv'
    <2>1. \E place \in Places \ {"unsent", "transit", "read"} : Goto(i, place) /\
              (place = "handler" => i \notin effects')
      BY <1>4 DEF ClaimFails, Commit, Finish, FailLate, Outcome, OutcomeFails, Die, Places,
                  Running, WhereInv
    <2>2. /\ \A j \in Copies : j # i => pc'[j] = pc[j]
          /\ pc'[i] \notin {"unsent", "transit", "read"}
          /\ pc'[i] = "handler" => i \notin effects'
      BY <1>t, <2>1, GotoType
    <2>3. /\ effects' \subseteq effects \cup {i} /\ unclaimed' \subseteq unclaimed \cup {i}
          /\ captured' = captured /\ claimant' = claimant /\ owed' \subseteq owed
          /\ row' = "in_flight" => row = "in_flight" /\ stale' = stale
          /\ bodyless' = bodyless /\ overrun' = overrun
      BY <1>4 DEF ClaimFails, Commit, Finish, FailLate, Outcome, RecordOutcome, OutcomeFails, Die
    <2> QED BY <1>t, <2>2, <2>3 DEF WhereInv, TypeOK
  <1>5. ASSUME NEW i \in Copies, EndBodyless(i) PROVE WhereInv'
    <2>1. pc'[i] = "answered" /\ \A j \in Copies : j # i => pc'[j] = pc[j]
      BY <1>5, <1>t, GotoType DEF EndBodyless, Places
    <2> QED BY <1>5, <1>t, <2>1 DEF EndBodyless, WhereInv, TypeOK
  <1>6. ASSUME NEW i \in Copies, FreeKey(i) PROVE WhereInv'
    BY <1>6 DEF FreeKey, WhereInv
  <1>7. CASE UNCHANGED vars
    BY <1>7 DEF vars, WhereInv
  <1> QED BY <1>1, <1>2, <1>3, <1>4, <1>5, <1>6, <1>7, <1>8 DEF Next, Serve

\* The client and the clock: a claim that ages was abandoned before, or its copy is
\* overrun from now on.
LEMMA OutsideCause ==
    ASSUME CInv, IInv',
           Submit \/ Flush \/ NetworkError \/ Receive \/ RetryEntry \/ Age \/ Expire
             \/ UNCHANGED vars
    PROVE  NothingAbandoned' /\ CauseInv'
  <1> USE DEF key, outbox, server, history
  <1>t. /\ TypeOK /\ UnsentInv /\ CaptureInv /\ WhereInv /\ CauseInv /\ NothingAbandoned
        /\ TypeOK'
    BY DEF CInv, IInv
  <1>1. CASE Submit \/ Flush
    <2>1. sent + 1 \in Copies /\ pc[sent + 1] = "unsent"
      BY <1>1, <1>t, WriteAssumption DEF Submit, Flush, Send, TypeOK, Copies, UnsentInv
    <2>2. /\ Goto(sent + 1, "transit")
          /\ UNCHANGED <<row, stale, claimant, owed, answer, captured, unclaimed, effects,
                         faults, bodyless, overrun>>
      BY <1>1 DEF Submit, Flush, Send
    <2>3. row = "in_flight" => claimant # sent + 1
      BY <1>t, <2>1 DEF CaptureInv
    <2>4. Abandoned' => Abandoned
      BY <1>t, <2>1, <2>2, <2>3, ClaimStays DEF Places
    <2>5. Trying' \subseteq Trying
      BY <1>t, <2>1, <2>2, TryingMove DEF Places
    <2> QED BY <1>t, <2>2, <2>4, <2>5, NoChance DEF NothingAbandoned, Open, Claimable
  <1>2. CASE NetworkError \/ Receive \/ RetryEntry \/ UNCHANGED vars
    <2>1. UNCHANGED <<row, stale, claimant, owed, answer, captured, unclaimed, effects,
                      faults, bodyless, pc, overrun>>
      BY <1>2 DEF NetworkError, Receive, RetryEntry, vars
    <2>2. UNCHANGED <<Abandoned, Trying, Open>>
      BY <2>1 DEF Abandoned, InHand, Trying, Open, Claimable
    <2> QED BY <1>t, <2>1, <2>2, NoChance DEF NothingAbandoned
  <1>3. CASE Age
    <2>1. /\ UNCHANGED <<row, claimant, owed, answer, captured, unclaimed, effects,
                         faults, bodyless, pc>>
          /\ row = "in_flight" /\ ~stale
          /\ overrun' = IF InHand THEN overrun \cup {claimant} ELSE overrun
      BY <1>3 DEF Age
    <2>2. UNCHANGED <<Abandoned, Trying>>
      BY <2>1 DEF Abandoned, InHand, Trying
    <2>3. CASE InHand
      <3>1. claimant \in overrun' /\ claimant \notin overrun
        BY <1>t, <2>1, <2>3 DEF WhereInv
      <3> QED BY <1>t, <2>1, <2>2, <3>1, NoChance DEF NothingAbandoned
    <2>4. CASE ~InHand
      <3>1. Open /\ overrun' = overrun
        BY <2>1, <2>4 DEF Open, Abandoned
      <3> QED BY <1>t, <2>1, <2>2, <3>1, NoChance DEF NothingAbandoned
    <2> QED BY <2>3, <2>4
  <1>4. CASE Expire
    <2>1. /\ UNCHANGED <<row, claimant, owed, answer, captured, unclaimed, effects,
                         bodyless, pc, overrun>>
          /\ faults' = faults + 1
      BY <1>4 DEF Expire, Fault
    <2>2. UNCHANGED <<Abandoned, Trying>>
      BY <2>1 DEF Abandoned, InHand, Trying
    <2> QED BY <1>t, <2>1, <2>2, NoChance, Sizes DEF NothingAbandoned
  <1> QED BY <1>1, <1>2, <1>3, <1>4

\* The copies on their way to the handler.
LEMMA ArrivalCause ==
    ASSUME CInv, IInv', NEW i \in Copies, Claim(i) \/ Read(i) \/ ClaimFails(i)
    PROVE  NothingAbandoned' /\ CauseInv'
  <1> USE DEF key, outbox, server, history
  <1>t. /\ TypeOK /\ CaptureInv /\ WhereInv /\ CauseInv /\ NothingAbandoned
        /\ TypeOK'
    BY DEF CInv, IInv
  <1>1. /\ pc[i] \in {"transit", "read"} /\ i \notin captured /\ i \notin unclaimed
        /\ row = "in_flight" => i # claimant
    BY <1>t DEF Claim, Read, ClaimFails, WhereInv, CaptureInv
  <1>2. \A j \in Copies : j # i => answer'[j] = answer[j]
    BY <1>t DEF Claim, Read, ClaimFails, Answer, TypeOK
  <1>3. CASE Claim(i) /\ Claimable
    <2>1. /\ row' = "in_flight" /\ stale' = FALSE /\ claimant' = i
          /\ captured' = captured \cup {i} /\ Goto(i, "handler")
          /\ UNCHANGED <<faults, bodyless, effects, unclaimed, overrun>>
      BY <1>3 DEF Claim
    <2>2. pc'[i] = "handler"
      BY <1>t, <2>1, GotoType DEF Places
    <2>4. ~Abandoned' /\ ~Open' /\ Open
      BY <1>3, <2>1, <2>2 DEF Abandoned, InHand, Open, Claimable, Running
    <2>3. Trying' \subseteq Trying \cup {i}
      BY <1>t, <1>2, <2>1, TryingMove DEF Places
    <2> QED BY <1>t, <2>1, <2>4, <2>3, NewChance DEF NothingAbandoned
  <1>4. CASE (Claim(i) /\ ~Claimable) \/ (Read(i) /\ ~Gone)
    <2>1. /\ UNCHANGED <<row, stale, claimant, owed, captured, unclaimed, effects,
                         faults, bodyless, overrun>>
          /\ Goto(i, "read") \/ Goto(i, "answered")
      BY <1>4 DEF Claim, Read
    <2>2. Abandoned' => Abandoned
      BY <1>t, <1>1, <2>1, ClaimStays DEF Places
    <2>3. Trying' \subseteq Trying
      BY <1>t, <1>2, <2>1, TryingMove DEF Places
    <2> QED BY <1>t, <2>1, <2>2, <2>3, NoChance DEF NothingAbandoned, Open, Claimable
  <1>5. CASE Read(i) /\ Gone
    <2>1. /\ UNCHANGED <<row, stale, claimant, owed, effects, faults, bodyless, overrun>>
          /\ captured' = captured \cup {i} /\ unclaimed' = unclaimed \cup {i}
          /\ Goto(i, "handler")
      BY <1>5 DEF Read, Gone
    <2>2. Abandoned' => Abandoned
      BY <1>t, <1>1, <2>1, ClaimStays DEF Places
    <2>3. Trying' \subseteq Trying \cup {i}
      BY <1>t, <1>2, <2>1, TryingMove DEF Places
    <2> QED BY <1>t, <1>1, <2>1, <2>2, <2>3, NewChance DEF NothingAbandoned, Open, Claimable
  <1>6. CASE ClaimFails(i)
    <2>1. /\ UNCHANGED <<row, stale, claimant, owed, captured, effects, bodyless, overrun>>
          /\ unclaimed' = unclaimed \cup {i} /\ faults' = faults + 1
          /\ Goto(i, "handler")
      BY <1>6 DEF ClaimFails, Fault
    <2>2. Abandoned' => Abandoned
      BY <1>t, <1>1, <2>1, ClaimStays DEF Places
    <2>3. Trying' \subseteq Trying \cup {i}
      BY <1>t, <1>2, <2>1, TryingMove DEF Places
    <2> QED BY <1>t, <1>1, <2>1, <2>2, <2>3, NewChance, Sizes DEF NothingAbandoned, Open, Claimable
  <1> QED BY <1>3, <1>4, <1>5, <1>6

\* The copies in the handler, and the faults that befall them.
LEMMA HandlerCause ==
    ASSUME CInv, IInv', NEW i \in Copies,
           Commit(i) \/ Finish(i) \/ FailLate(i) \/ OutcomeFails(i) \/ Die(i)
    PROVE  NothingAbandoned' /\ CauseInv'
  <1> USE DEF key, outbox, server, history
  <1>t. /\ TypeOK /\ CaptureInv /\ WhereInv /\ CauseInv /\ NothingAbandoned
        /\ TypeOK'
    BY DEF CInv, IInv
  <1>1. UNCHANGED <<row, stale, claimant, captured, unclaimed, bodyless, overrun>>
    BY DEF Commit, Finish, FailLate, OutcomeFails, Die
  <1>2. \A j \in Copies : j # i => answer'[j] = answer[j]
    BY <1>t DEF Commit, Finish, FailLate, OutcomeFails, Die, Answer, TypeOK
  <1>3. CASE Commit(i)
    <2>1. /\ effects' = effects \cup {i} /\ i \in Trying /\ Goto(i, "committed")
          /\ UNCHANGED <<owed, faults>>
      BY <1>3 DEF Commit, Trying
    <2>2. Abandoned' => Abandoned
      BY <1>t, <1>1, <2>1, ClaimStays DEF Places, Running
    <2>3. Trying' \subseteq Trying \ {i}
      BY <1>t, <1>1, <1>2, <2>1, TryingMove DEF Places
    <2>4. Cardinality(effects') <= Cardinality(effects) + 1
      BY <1>t, <2>1, Sizes, SizesNext, CopyCounts
    <2>5. Cardinality(Trying') + 1 <= Cardinality(Trying)
      BY <1>t, <2>1, <2>3, Sizes, SizesNext, CopyCounts
    <2>6. Open' => Open
      BY <1>1, <2>2 DEF Open, Claimable
    <2> QED BY <1>t, <1>1, <2>1, <2>2, <2>4, <2>5, <2>6, Sizes, SizesNext
            DEF NothingAbandoned, CauseInv
  <1>4. CASE Finish(i)
    <2>1. /\ Goto(i, "outcome") /\ UNCHANGED <<owed, faults, effects>>
          /\ answer'[i] # "ok" => i \in Trying
      BY <1>4, <1>t DEF Finish, Trying, Answer, TypeOK
    <2>2. Abandoned' => Abandoned
      BY <1>t, <1>1, <2>1, ClaimStays DEF Places, Running
    <2>3. Trying' \subseteq Trying
      BY <1>t, <1>1, <1>2, <2>1, TryingMove DEF Places
    <2> QED BY <1>t, <1>1, <2>1, <2>2, <2>3, NoChance DEF NothingAbandoned, Open, Claimable
  <1>5. CASE FailLate(i)
    <2>1. /\ Goto(i, "outcome") /\ UNCHANGED <<owed, effects>> /\ faults' = faults + 1
      BY <1>5 DEF FailLate, Fault
    <2>2. Abandoned' => Abandoned
      BY <1>t, <1>1, <2>1, ClaimStays DEF Places, Running
    <2>3. Trying' \subseteq Trying \cup {i}
      BY <1>t, <1>1, <1>2, <2>1, TryingMove DEF Places
    <2> QED BY <1>t, <1>1, <2>1, <2>2, <2>3, NewChance, Sizes DEF NothingAbandoned, Open, Claimable
  <1>6. CASE OutcomeFails(i) \/ Die(i)
    <2>1. /\ Goto(i, "answered") \/ Goto(i, "dead")
          /\ UNCHANGED effects /\ faults' = faults + 1
      BY <1>6 DEF OutcomeFails, Die, Fault
    <2>2. Trying' \subseteq Trying
      BY <1>t, <1>1, <1>2, <2>1, TryingMove DEF Places
    <2> QED BY <1>t, <1>1, <2>1, <2>2, NoChance, Sizes DEF NothingAbandoned
  <1> QED BY <1>3, <1>4, <1>5, <1>6

\* The outcome: a success keeps the key closed, an error gives it back in place
\* of the copy's own chance.
LEMMA OutcomeCause ==
    ASSUME CInv, IInv', NEW i \in Copies, Outcome(i) \/ EndBodyless(i) \/ FreeKey(i)
    PROVE  NothingAbandoned' /\ CauseInv'
  <1> USE DEF key, outbox, server, history
  <1>t. /\ TypeOK /\ CaptureInv /\ WhereInv /\ CauseInv /\ NothingAbandoned
        /\ TypeOK'
    BY DEF CInv, IInv
  <1>1. CASE EndBodyless(i)
    <2>1. /\ bodyless /\ bodyless' /\ Goto(i, "answered") /\ UNCHANGED <<row, claimant, faults>>
          /\ owed' = owed \cup ({i} \cap captured)
      BY <1>1 DEF EndBodyless
    <2>2. row = "in_flight" /\ i = claimant => i \in owed'
      BY <1>t, <2>1 DEF CaptureInv
    <2>3. Abandoned' => Abandoned
      BY <1>t, <2>1, <2>2, ClaimStays DEF Places
    <2> QED BY <1>t, <2>1, <2>3 DEF NothingAbandoned, CauseInv
  <1>2. CASE FreeKey(i)
    BY <1>t, <1>2 DEF FreeKey, NothingAbandoned, CauseInv, WhereInv, Abandoned
  <1>3. CASE Outcome(i)
    <2>1. /\ pc[i] = "outcome" /\ Goto(i, "answered")
          /\ UNCHANGED <<answer, captured, owed, bodyless, faults, claimant, effects, unclaimed,
                         overrun>>
      BY <1>3 DEF Outcome
    <2>2. Trying' \subseteq Trying /\ i \notin Trying'
      BY <1>t, <2>1, TryingMove DEF Places
    <2>3. CASE i \notin captured
      <3>1. UNCHANGED <<row, stale>> /\ (row = "in_flight" => i # claimant)
        BY <1>3, <1>t, <2>3 DEF Outcome, CaptureInv
      <3>2. Abandoned' => Abandoned
        BY <1>t, <2>1, <3>1, ClaimStays DEF Places
      <3> QED BY <1>t, <2>1, <2>2, <3>1, <3>2, NoChance DEF NothingAbandoned, Open, Claimable
    <2>4. CASE i \in captured /\ answer[i] = "ok"
      <3>1. (row' = "none" => row = "none") /\ (stale' => stale) /\ row' # "in_flight"
        BY <1>3, <1>t, <2>4 DEF Outcome, RecordOutcome, TypeOK
      <3>2. ~Abandoned' /\ (Open' => Open)
        BY <3>1 DEF Abandoned, Open, Claimable
      <3> QED BY <1>t, <2>1, <2>2, <3>2, NoChance DEF NothingAbandoned
    <2>5. CASE i \in captured /\ answer[i] # "ok"
      <3>1. i \in Trying /\ row' = "none"
        BY <1>3, <2>1, <2>5 DEF Outcome, RecordOutcome, Trying
      <3> QED BY <1>t, <2>1, <2>2, <3>1, NoChance DEF NothingAbandoned, Abandoned
    <2> QED BY <2>3, <2>4, <2>5
  <1> QED BY <1>1, <1>2, <1>3

\* How a step may change who holds a claim: nobody new does; one that did is gone;
\* or one more does, in exchange for the key or as one that found it free too late.
LEMMA HoldStep ==
    ASSUME TypeOK, TypeOK', OverlapInv, overrun \subseteq overrun',
           (captured \cap unclaimed) \subseteq (captured \cap unclaimed)',
           \/ /\ Holding' \subseteq Holding
              /\ \/ Free' => Free
                 \/ \E i \in overrun' : i \notin overrun
                 \/ \E i \in Holding : i \notin Holding'
           \/ \E i : /\ Holding' \subseteq Holding \cup {i}
                    /\ \/ Free /\ ~Free'
                       \/ /\ Free' => Free
                          /\ i \in (captured \cap unclaimed)' \ (captured \cap unclaimed)
    PROVE  OverlapInv'
  <1>1. /\ Cardinality(overrun) <= Cardinality(overrun')
        /\ Cardinality(captured \cap unclaimed) <= Cardinality((captured \cap unclaimed)')
    BY Sizes, SizesNext, CopyCounts
  <1>2. CASE Holding' \subseteq Holding
    <2>1. Cardinality(Holding') <= Cardinality(Holding)
      BY <1>2, Sizes, SizesNext, CopyCounts
    <2>2. ASSUME NEW i \in overrun', i \notin overrun
          PROVE  Cardinality(overrun) + 1 <= Cardinality(overrun')
      <3>1. overrun \subseteq overrun' \ {i}
        BY <2>2
      <3> QED BY <2>2, <3>1, Sizes, SizesNext, CopyCounts
    <2>3. ASSUME NEW i \in Holding, i \notin Holding'
          PROVE  Cardinality(Holding') + 1 <= Cardinality(Holding)
      <3>1. Holding' \subseteq Holding \ {i}
        BY <1>2, <2>3
      <3> QED BY <2>3, <3>1, Sizes, SizesNext, CopyCounts
    <2>4. CASE (Free' => Free) \/ (\E i \in overrun' : i \notin overrun)
               \/ (\E i \in Holding : i \notin Holding')
      BY <1>1, <2>1, <2>2, <2>3, <2>4, Sizes, SizesNext DEF OverlapInv
    <2>5. CASE Free /\ ~Free'
      BY <1>1, <2>1, <2>5, Sizes, SizesNext DEF OverlapInv
    <2>6. CASE \E i \in (captured \cap unclaimed)' \ (captured \cap unclaimed) : Free' => Free
      BY <1>1, <2>1, <2>6, Sizes, SizesNext DEF OverlapInv
    <2> QED BY <2>4, <2>5, <2>6
  <1>3. ASSUME NEW i, Holding' \subseteq Holding \cup {i}, Free, ~Free'
        PROVE  OverlapInv'
    <2>1. Cardinality(Holding') <= Cardinality(Holding) + 1
      BY <1>3, Sizes, SizesNext, CopyCounts
    <2> QED BY <1>1, <1>3, <2>1, Sizes, SizesNext DEF OverlapInv
  <1>4. ASSUME NEW i \in (captured \cap unclaimed)' \ (captured \cap unclaimed),
               Holding' \subseteq Holding \cup {i}, Free' => Free
        PROVE  OverlapInv'
    <2>1. Cardinality(Holding') <= Cardinality(Holding) + 1
      BY <1>4, Sizes, SizesNext, CopyCounts
    <2>2. (captured \cap unclaimed) \subseteq (captured \cap unclaimed)' \ {i}
      BY <1>4
    <2>3. Cardinality(captured \cap unclaimed) + 1 <= Cardinality((captured \cap unclaimed)')
      BY <1>4, <2>2, Sizes, SizesNext, CopyCounts
    <2> QED BY <1>4, <2>1, <2>3, <1>1, Sizes, SizesNext DEF OverlapInv
  <1> QED BY <1>2, <1>3, <1>4

\* The client changes nobody's hold, and time takes the newest only at the price
\* of an overrun.
LEMMA OutsideOverlap ==
    ASSUME CInv, IInv',
           Submit \/ Flush \/ NetworkError \/ Receive \/ RetryEntry \/ Age \/ Expire
             \/ UNCHANGED vars
    PROVE  OverlapInv'
  <1> USE DEF key, outbox, server, history
  <1>t. /\ TypeOK /\ UnsentInv /\ CaptureInv /\ WhereInv /\ OverlapInv /\ TypeOK'
    BY DEF CInv, IInv
  <1>1. CASE Submit \/ Flush
    <2>1. sent + 1 \in Copies /\ pc[sent + 1] = "unsent"
      BY <1>1, <1>t, WriteAssumption DEF Submit, Flush, Send, TypeOK, Copies, UnsentInv
    <2>2. /\ Goto(sent + 1, "transit")
          /\ UNCHANGED <<row, stale, claimant, owed, captured, unclaimed, overrun>>
      BY <1>1 DEF Submit, Flush, Send
    <2>3. /\ pc'[sent + 1] = "transit"
          /\ \A j \in Copies : j # sent + 1 => pc'[j] = pc[j]
      BY <1>t, <2>1, <2>2, GotoType DEF Places
    <2>4. Holding' \subseteq Holding
      BY <1>t, <2>2, <2>3 DEF Holding, TypeOK, Running, CaptureInv
    <2>5. row = "in_flight" => claimant \in Copies /\ claimant # sent + 1
      BY <1>t, <2>1 DEF CaptureInv, TypeOK
    <2>6. Free' => Free
      BY <2>2, <2>3, <2>5 DEF Free, InHand
    <2> QED BY <1>t, <2>2, <2>4, <2>6, HoldStep
  <1>2. CASE NetworkError \/ Receive \/ RetryEntry \/ UNCHANGED vars
    <2>1. UNCHANGED <<row, stale, claimant, owed, captured, unclaimed, overrun, pc>>
      BY <1>2 DEF NetworkError, Receive, RetryEntry, vars
    <2>2. UNCHANGED <<Holding, Free>>
      BY <2>1 DEF Holding, Free, InHand
    <2> QED BY <1>t, <2>1, <2>2, HoldStep
  <1>3. CASE Age
    <2>1. /\ UNCHANGED <<row, claimant, owed, captured, unclaimed, pc>>
          /\ row = "in_flight" /\ ~stale
          /\ overrun' = IF InHand THEN overrun \cup {claimant} ELSE overrun
      BY <1>3 DEF Age
    <2>2. UNCHANGED Holding
      BY <2>1 DEF Holding
    <2>3. CASE InHand
      <3>1. claimant \in overrun' /\ claimant \notin overrun
        BY <1>t, <2>1, <2>3 DEF WhereInv
      <3> QED BY <1>t, <2>1, <2>2, <3>1, HoldStep
    <2>4. CASE ~InHand
      <3>1. Free /\ overrun' = overrun
        BY <2>1, <2>4 DEF Free
      <3> QED BY <1>t, <2>1, <2>2, <3>1, HoldStep
    <2> QED BY <2>3, <2>4
  <1>4. CASE Expire
    <2>1. /\ UNCHANGED <<row, claimant, owed, captured, unclaimed, overrun, pc>>
          /\ row = "completed"
      BY <1>4 DEF Expire
    <2>2. UNCHANGED <<Holding, Free>>
      BY <2>1 DEF Holding, Free
    <2> QED BY <1>t, <2>1, <2>2, HoldStep
  <1> QED BY <1>1, <1>2, <1>3, <1>4

\* A copy begins to hold in exchange for the key, or because it found it free too
\* late; whoever opens the key again stops holding.
LEMMA ServerOverlap ==
    ASSUME CInv, IInv', NEW i \in Copies,
           Serve(i) \/ Commit(i) \/ ClaimFails(i) \/ FailLate(i) \/ OutcomeFails(i) \/ Die(i)
    PROVE  OverlapInv'
  <1> USE DEF key, outbox, server, history
  <1>t. /\ TypeOK /\ CaptureInv /\ WhereInv /\ OverlapInv /\ TypeOK'
    BY DEF CInv, IInv
  <1>c. row = "in_flight" => claimant \in captured /\ claimant \in Copies
    BY <1>t DEF CaptureInv, TypeOK
  <1>m. ASSUME NEW place \in Places, Goto(i, place)
        PROVE  pc'[i] = place /\ \A j \in Copies : j # i => pc'[j] = pc[j]
    BY <1>m, <1>t, GotoType
  <1>1. CASE Claim(i) /\ Claimable
    <2>1. /\ row' = "in_flight" /\ stale' = FALSE /\ claimant' = i
          /\ captured' = captured \cup {i} /\ pc'[i] = "handler"
          /\ \A j \in Copies : j # i => pc'[j] = pc[j]
          /\ UNCHANGED <<owed, unclaimed, overrun>>
      BY <1>1, <1>m DEF Claim, Places
    <2>2. Free /\ ~Free'
      BY <1>1, <2>1 DEF Free, Claimable, InHand, Running
    <2>3. Holding' \subseteq Holding \cup {i}
      BY <1>t, <2>1 DEF Holding, TypeOK
    <2> QED BY <1>t, <2>1, <2>2, <2>3, HoldStep
  <1>2. CASE Read(i) /\ Gone
    <2>1. /\ captured' = captured \cup {i} /\ unclaimed' = unclaimed \cup {i}
          /\ \A j \in Copies : j # i => pc'[j] = pc[j]
          /\ UNCHANGED <<row, owed, overrun>> /\ row # "in_flight" /\ i \notin captured
      BY <1>2, <1>m, <1>t DEF Read, Gone, Places, CaptureInv
    <2>2. Free /\ Free'
      BY <2>1 DEF Free
    <2>3. Holding' \subseteq Holding \cup {i}
      BY <1>t, <2>1 DEF Holding, TypeOK
    <2> QED BY <1>t, <2>1, <2>2, <2>3, HoldStep
  <1>3. CASE (Claim(i) /\ ~Claimable) \/ (Read(i) /\ ~Gone) \/ ClaimFails(i)
    <2>1. /\ UNCHANGED <<row, stale, claimant, owed, captured, overrun>>
          /\ unclaimed \subseteq unclaimed'
          /\ \A j \in Copies : j # i => pc'[j] = pc[j]
          /\ i \notin captured
      BY <1>3, <1>m, <1>t DEF Claim, Read, ClaimFails, Places, CaptureInv
    <2>2. UNCHANGED Holding
      BY <1>t, <2>1 DEF Holding, TypeOK
    <2>3. Free' => Free
      BY <1>c, <2>1 DEF Free, InHand
    <2> QED BY <1>t, <2>1, <2>2, <2>3, HoldStep
  <1>4. CASE Commit(i) \/ Finish(i) \/ FailLate(i)
    <2>1. /\ UNCHANGED <<row, stale, claimant, owed, captured, unclaimed, overrun>>
          /\ pc[i] \in Running /\ pc'[i] \in Running
          /\ \A j \in Copies : j # i => pc'[j] = pc[j]
      BY <1>4, <1>m DEF Commit, Finish, FailLate, Places, Running
    <2>2. UNCHANGED Holding
      BY <1>t, <2>1 DEF Holding, TypeOK
    <2>3. Free' => Free
      BY <1>c, <2>1 DEF Free, InHand
    <2> QED BY <1>t, <2>1, <2>2, <2>3, HoldStep
  <1>5. CASE EndBodyless(i)
    <2>1. /\ UNCHANGED <<row, stale, claimant, captured, unclaimed, overrun>>
          /\ owed' = owed \cup ({i} \cap captured)
          /\ pc[i] \in Running /\ pc'[i] = "answered"
          /\ \A j \in Copies : j # i => pc'[j] = pc[j]
      BY <1>5, <1>m DEF EndBodyless, Places, Running
    <2>2. Holding' \subseteq Holding
      BY <1>t, <2>1 DEF Holding, TypeOK, Running
    <2>3. Free' => Free
      BY <1>c, <2>1 DEF Free, InHand
    <2> QED BY <1>t, <2>1, <2>2, <2>3, HoldStep
  <1>6. CASE Outcome(i) \/ FreeKey(i) \/ OutcomeFails(i) \/ Die(i)
    <2>1. /\ UNCHANGED <<claimant, captured, unclaimed, overrun>>
          /\ owed' \subseteq owed /\ \A j \in owed : j # i => j \in owed'
          /\ pc'[i] \in {"answered", "dead"}
          /\ \A j \in Copies : j # i => pc'[j] = pc[j]
      <3>1. CASE Outcome(i)
        BY <3>1, <1>m DEF Outcome, Places
      <3>2. CASE FreeKey(i)
        BY <3>2, <1>t DEF FreeKey, CaptureInv
      <3>3. CASE OutcomeFails(i)
        BY <3>3, <1>m DEF OutcomeFails, Places
      <3>4. CASE Die(i)
        BY <3>4, <1>m DEF Die, Places
      <3> QED BY <1>6, <3>1, <3>2, <3>3, <3>4
    <2>2. Holding' \subseteq Holding
      BY <1>t, <2>1 DEF Holding, TypeOK, Running
    <2>3. CASE i \in Holding
      <3>1. i \notin owed'
        <4>1. i \in owed => pc[i] = "answered"
          BY <1>t DEF CaptureInv
        <4> QED BY <1>6, <1>t, <2>1, <4>1 DEF Outcome, FreeKey, OutcomeFails, Die, Running
      <3>2. i \notin Holding'
        BY <2>1, <3>1 DEF Holding, Running
      <3> QED BY <1>t, <2>1, <2>2, <2>3, <3>2, HoldStep
    <2>4. CASE i \notin Holding
      <3>1. i \notin captured
        BY <1>6, <1>t, <2>4 DEF Holding, CaptureInv, Outcome, FreeKey, OutcomeFails, Die, Running
      <3>2. UNCHANGED <<row, stale>>
        BY <1>6, <1>t, <3>1 DEF Outcome, FreeKey, OutcomeFails, Die, CaptureInv
      <3>3. Free' => Free
        BY <1>c, <2>1, <3>1, <3>2 DEF Free, InHand
      <3> QED BY <1>t, <2>1, <2>2, <3>3, HoldStep
    <2> QED BY <2>3, <2>4
  <1> QED BY <1>1, <1>2, <1>3, <1>4, <1>5, <1>6 DEF Serve

LEMMA CountInductive == Spec => []CInv
  <1>1. Init => CInv
    <2> SUFFICES ASSUME Init PROVE CInv
      OBVIOUS
    <2>1. IInv /\ TypeOK
      BY InitIInv DEF IInv
    <2>2. WhereInv /\ NothingAbandoned
      BY DEF Init, WhereInv, NothingAbandoned, Abandoned
    <2>3. effects = {} /\ Trying = {} /\ faults = 0
      BY DEF Init, Trying
    <2>4. CauseInv
      BY <2>1, <2>3, Sizes, FS_EmptySet DEF CauseInv
    <2>5. Holding = {}
      BY DEF Init, Holding
    <2>6. OverlapInv
      BY <2>1, <2>5, Sizes, FS_EmptySet DEF OverlapInv
    <2> QED BY <2>1, <2>2, <2>4, <2>6 DEF CInv
  <1>2. CInv /\ [Next]_vars => CInv'
    <2> SUFFICES ASSUME CInv, [Next]_vars PROVE CInv'
      OBVIOUS
    <2>1. IInv' /\ WhereInv'
      BY NextIInv, WhereStep DEF CInv
    <2>2. NothingAbandoned' /\ CauseInv'
      BY <2>1, OutsideCause, ArrivalCause, HandlerCause, OutcomeCause DEF Next, Serve
    <2>3. OverlapInv'
      BY <2>1, OutsideOverlap, ServerOverlap DEF Next, Serve
    <2> QED BY <2>1, <2>2, <2>3 DEF CInv
  <1> QED BY <1>1, <1>2, PTL DEF Spec

\* Two claimants run beside each other only if a copy outran the reclaim window, or
\* found the key free after its claim had been refused; and a third only if there
\* was one more of these.
THEOREM OverlapsAreCaused == Spec => []OverlapsHaveACause
  <1>1. CInv => OverlapsHaveACause
    <2> SUFFICES ASSUME CInv PROVE OverlapsHaveACause
      OBVIOUS
    <2> DEFINE Beside == {i \in captured : pc[i] \in Running}
    <2>1. TypeOK /\ OverlapInv
      BY DEF CInv, IInv
    <2>2. Beside \in SUBSET Copies /\ Beside \subseteq Holding
      BY <2>1 DEF Holding, TypeOK
    <2>3. Cardinality(Beside) <= Cardinality(Holding) /\ Cardinality(Beside) \in Nat
      BY <2>1, <2>2, Sizes, CopyCounts
    <2> QED BY <2>1, <2>3, Sizes DEF OverlapInv, OverlapsHaveACause
  <1> QED BY <1>1, CountInductive, PTL

\* For any number of copies, faults, overruns and keys found free too late: the
\* work is done at most once more for each of these.
THEOREM RepeatsAreCaused == Spec => []EveryRepeatHasACause
  <1>1. CInv => EveryRepeatHasACause
    BY Sizes DEF CInv, IInv, CauseInv, EveryRepeatHasACause
  <1> QED BY <1>1, CountInductive, PTL

\* Without a fault, as long as every copy that ran had claimed the key, none outran
\* the reclaim window and the response has a body to record, the write happens once.
ClaimedHappensOnce ==
    faults = 0 /\ unclaimed = {} /\ overrun = {} /\ ~bodyless => \A i, j \in effects : i = j

THEOREM HappensOnceWhenClaimed == Spec => []ClaimedHappensOnce
  <1>1. TypeOK /\ EveryRepeatHasACause => ClaimedHappensOnce
    <2> SUFFICES ASSUME TypeOK, EveryRepeatHasACause, faults = 0, unclaimed = {},
                        overrun = {}, ~bodyless, NEW i \in effects, NEW j \in effects, i # j
                 PROVE  FALSE
      BY DEF ClaimedHappensOnce
    <2>1. /\ captured \cap unclaimed = {} /\ Cardinality(captured \cap unclaimed) = 0
          /\ Cardinality(overrun) = 0
      BY FS_EmptySet
    <2>2. Cardinality(effects) <= 1
      BY <2>1, Sizes DEF EveryRepeatHasACause
    <2>3. /\ {i} \in SUBSET Copies /\ effects \ {i} \in SUBSET Copies /\ {} \in SUBSET Copies
          /\ effects \in SUBSET Copies /\ j \in effects \ {i}
      BY Sizes
    <2>4. /\ Cardinality(effects \ {i}) + 1 <= Cardinality(effects)
          /\ Cardinality({}) + 1 <= Cardinality(effects \ {i})
      BY <2>3, CopyCounts
    <2> QED BY <2>2, <2>3, <2>4, CopyCounts
  <1> QED BY <1>1, TypeCorrect, RepeatsAreCaused, PTL

\* The claim in flight is held by a copy that will settle it, unless something
\* failed: nobody waits out the reclaim window for nothing.
THEOREM ClaimsAreHeld == Spec => []ClaimInHand
  <1>1. CInv => ClaimInHand
    BY DEF CInv, NothingAbandoned, Abandoned, ClaimInHand
  <1> QED BY <1>1, CountInductive, PTL

-----------------------------------------------------------------------------
(* What the client is told was done.                                       *)

\* A copy that says it succeeded has committed, or repeats the answer of one
\* that has; what is on record is the answer of a copy that has given it.
TruthInv ==
    /\ \A i \in Copies :
        /\ pc[i] = "committed" => i \in effects
        /\ pc[i] = "outcome" /\ answer[i] = "ok" => i \in effects
        /\ pc[i] = "answered" /\ answer[i] = "ok" => effects # {}
    /\ row = "completed" =>
        original \in effects /\ answer[original] = "ok" /\ pc[original] = "answered"
    /\ client = "sent" => effects # {}
    /\ client # "idle" => sent # 0

\* A copy moves on without touching the key or the client.
LEMMA TruthMove ==
    ASSUME IInv, TruthInv, NEW i \in Copies, NEW place \in Places, Goto(i, place),
           answer' \in [Copies -> Answers],
           \A j \in Copies : j # i => answer'[j] = answer[j],
           effects \subseteq effects',
           place = "committed" => i \in effects',
           place = "outcome" /\ answer'[i] = "ok" => i \in effects',
           place = "answered" /\ answer'[i] = "ok" => effects' # {},
           pc[i] # "answered" \/ (place = "answered" /\ answer'[i] = answer[i]),
           UNCHANGED <<client, sent, row, original>>
    PROVE  TruthInv'
  <1>1. pc'[i] = place /\ \A j \in Copies : j # i => pc'[j] = pc[j]
    BY GotoType DEF IInv
  <1>2. \A j \in Copies :
          /\ pc'[j] = "committed" => j \in effects'
          /\ pc'[j] = "outcome" /\ answer'[j] = "ok" => j \in effects'
          /\ pc'[j] = "answered" /\ answer'[j] = "ok" => effects' # {}
    BY <1>1 DEF TruthInv
  <1>3. row' = "completed" =>
          original' \in effects' /\ answer'[original'] = "ok" /\ pc'[original'] = "answered"
    BY <1>1 DEF TruthInv, IInv, OriginalInv
  <1>4. (client' = "sent" => effects' # {}) /\ (client' # "idle" => sent' # 0)
    BY DEF TruthInv
  <1> QED BY <1>2, <1>3, <1>4 DEF TruthInv

\* A step that leaves the copies and their answers alone, and clears the key or
\* leaves it.
LEMMA TruthStay ==
    ASSUME TruthInv, UNCHANGED <<pc, answer, effects, sent>>,
           client' # "idle" => client # "idle",
           row' = "completed" => row = "completed" /\ original' = original,
           client' = "sent" => client = "sent" \/ effects # {}
    PROVE  TruthInv'
  BY DEF TruthInv

LEMMA TruthRun ==
    ASSUME IInv, TruthInv, NEW i \in Copies,
           ClaimFails(i) \/ Commit(i) \/ Finish(i) \/ FailLate(i) \/ EndBodyless(i)
             \/ OutcomeFails(i) \/ Die(i)
    PROVE  TruthInv'
  <1> USE DEF key, server, history, outbox, Places, Answers
  <1>a. answer \in [Copies -> Answers] /\ effects \subseteq Copies
    BY DEF IInv, TypeOK
  <1>b. ASSUME NEW a \in Answers, Answer(i, a)
        PROVE  /\ answer' \in [Copies -> Answers] /\ answer'[i] = a
               /\ \A j \in Copies : j # i => answer'[j] = answer[j]
    BY <1>a, <1>b DEF Answer
  <1>1. CASE ClaimFails(i)
    BY <1>1, <1>a, TruthMove DEF ClaimFails
  <1>2. CASE Commit(i)
    BY <1>2, <1>a, TruthMove DEF Commit
  <1>3. CASE Finish(i)
    BY <1>3, <1>a, <1>b, TruthMove DEF Finish, TruthInv
  <1>4. CASE FailLate(i)
    BY <1>4, <1>a, <1>b, TruthMove DEF FailLate
  <1>5. CASE EndBodyless(i)
    BY <1>5, <1>a, <1>b, TruthMove DEF EndBodyless, TruthInv
  <1>6. CASE OutcomeFails(i)
    <2>1. pc[i] \in {"outcome", "answered"}
      BY <1>6 DEF OutcomeFails, IInv, CaptureInv
    <2>2. answer[i] = "ok" => effects # {}
      BY <2>1 DEF TruthInv
    <2> QED BY <1>6, <1>a, <2>1, <2>2, TruthMove DEF OutcomeFails
  <1>7. CASE Die(i)
    BY <1>7, <1>a, TruthMove DEF Die, Running
  <1> QED BY <1>1, <1>2, <1>3, <1>4, <1>5, <1>6, <1>7

\* The copies that settle or take the key, or read it.
LEMMA TruthKey ==
    ASSUME IInv, TruthInv, NEW i \in Copies, Claim(i) \/ Read(i) \/ Outcome(i) \/ FreeKey(i)
    PROVE  TruthInv'
  <1> USE DEF key, server, history, outbox
  <1>a. answer \in [Copies -> Answers] /\ effects \subseteq Copies
    BY DEF IInv, TypeOK
  <1>1. CASE Claim(i)
    <2>1. CASE Claimable
      <3>1. pc'[i] = "handler" /\ \A j \in Copies : j # i => pc'[j] = pc[j]
        BY <1>1, <2>1, GotoType DEF Claim, Places, IInv
      <3>2. row' = "in_flight" /\ UNCHANGED <<client, sent, answer, effects>>
        BY <1>1, <2>1 DEF Claim
      <3> QED BY <3>1, <3>2 DEF TruthInv
    <2>2. CASE ~Claimable
      BY <1>1, <2>2, <1>a, TruthMove DEF Claim, Places
    <2> QED BY <2>1, <2>2
  <1>2. CASE Read(i)
    <2>1. CASE Gone
      BY <1>2, <2>1, <1>a, TruthMove DEF Read, Places, Gone
    <2>2. CASE row = "in_flight"
      <3>1. /\ answer' \in [Copies -> Answers] /\ answer'[i] = "busy"
            /\ \A j \in Copies : j # i => answer'[j] = answer[j]
        BY <1>2, <2>2, <1>a DEF Read, Gone, Answer, Answers
      <3> QED BY <1>2, <2>2, <3>1, TruthMove DEF Read, Gone, Places
    <2>3. CASE row = "completed" /\ ~stale
      <3>1. original \in Copies /\ answer[original] = "ok" /\ effects # {}
        BY <2>3 DEF TruthInv, IInv, OriginalInv
      <3>2. /\ answer' \in [Copies -> Answers] /\ answer'[i] = "ok"
            /\ \A j \in Copies : j # i => answer'[j] = answer[j]
        BY <1>2, <2>3, <1>a, <3>1 DEF Read, Gone, Answer, Answers
      <3> QED BY <1>2, <2>3, <3>1, <3>2, TruthMove DEF Read, Gone, Places
    <2> QED BY <1>2, <2>1, <2>2, <2>3 DEF Read
  <1>3. CASE Outcome(i)
    <2>1. /\ pc[i] = "outcome" /\ pc'[i] = "answered"
          /\ \A j \in Copies : j # i => pc'[j] = pc[j]
          /\ UNCHANGED <<client, sent, answer, effects>>
      BY <1>3, GotoType DEF Outcome, Places, IInv
    <2>2. answer[i] = "ok" => i \in effects
      BY <2>1 DEF TruthInv
    <2>3. \/ UNCHANGED key
          \/ answer[i] = "ok" /\ original' = i
          \/ row' = "none"
      BY <1>3 DEF Outcome, RecordOutcome
    <2>4. row' = "completed" =>
            original' \in effects' /\ answer'[original'] = "ok" /\ pc'[original'] = "answered"
      BY <2>1, <2>2, <2>3 DEF TruthInv, IInv, OriginalInv
    <2> QED BY <2>1, <2>2, <2>4 DEF TruthInv
  <1>4. CASE FreeKey(i)
    BY <1>4, TruthStay DEF FreeKey
  <1> QED BY <1>1, <1>2, <1>3, <1>4

LEMMA TruthNext == IInv /\ TruthInv /\ [Next]_vars => TruthInv'
  <1> SUFFICES ASSUME IInv, TruthInv, [Next]_vars PROVE TruthInv'
    OBVIOUS
  <1> USE DEF key, server, history, outbox
  <1>1. ASSUME Send, client' # "sent" PROVE TruthInv'
    <2>1. sent + 1 \in Copies /\ pc[sent + 1] = "unsent"
      BY <1>1, WriteAssumption DEF Send, IInv, TypeOK, UnsentInv, Copies
    <2>2. /\ pc'[sent + 1] = "transit"
          /\ \A j \in Copies : j # sent + 1 => pc'[j] = pc[j]
      BY <1>1, <2>1, GotoType DEF Send, Places, IInv
    <2>3. sent' # 0 /\ UNCHANGED <<row, original, answer, effects>>
      BY <1>1, WriteAssumption DEF Send, IInv, TypeOK
    <2> QED BY <1>1, <2>1, <2>2, <2>3 DEF TruthInv, IInv, OriginalInv
  <1>2. CASE Submit \/ Flush
    BY <1>1, <1>2 DEF Submit, Flush
  <1>3. CASE NetworkError \/ RetryEntry
    BY <1>3, TruthStay DEF NetworkError, RetryEntry
  <1>4. CASE Receive
    <2>1. sent \in Copies
      BY <1>4, WriteAssumption DEF Receive, IInv, TypeOK, TruthInv, Copies
    <2>2. answer[sent] = "ok" => effects # {}
      BY <1>4, <2>1 DEF Receive, TruthInv
    <2>3. client' = "sent" => answer[sent] = "ok"
      BY <1>4 DEF Receive
    <2> QED BY <1>4, <2>2, <2>3, TruthStay DEF Receive
  <1>5. CASE Age \/ Expire
    BY <1>5, TruthStay DEF Age, Expire
  <1>6. ASSUME NEW i \in Copies, Claim(i) \/ Read(i) \/ Outcome(i) \/ FreeKey(i)
        PROVE  TruthInv'
    BY <1>6, TruthKey
  <1>7. ASSUME NEW i \in Copies,
               ClaimFails(i) \/ Commit(i) \/ Finish(i) \/ FailLate(i) \/ EndBodyless(i)
                 \/ OutcomeFails(i) \/ Die(i)
        PROVE  TruthInv'
    BY <1>7, TruthRun
  <1>8. CASE UNCHANGED vars
    BY <1>8, TruthStay DEF vars
  <1> QED BY <1>2, <1>3, <1>4, <1>5, <1>6, <1>7, <1>8 DEF Next, Serve

\* Only a success of a copy that did the work is on record, and a write the
\* outbox drops as sent was done, whatever fails and however many copies there
\* are.
THEOREM AnswersTrue == Spec => []AnswersAreTrue
  <1>1. Init => TruthInv
    BY DEF Init, TruthInv
  <1>2. TruthInv => AnswersAreTrue
    BY DEF TruthInv, AnswersAreTrue
  <1> QED BY <1>1, <1>2, TruthNext, Inductive, PTL DEF Spec
=============================================================================
