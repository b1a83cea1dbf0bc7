------------------------- MODULE MailSendQueueProofs -------------------------
(* Proofs about the send queue: its types, that a cancelled message stays,    *)
(* that the messages counted in an hour pass the cap by one for each fault at *)
(* most and that so do the copies of a message, for any number of messages    *)
(* and flushers, limits and attempts.                                         *)
EXTENDS MailSendQueue, FiniteSetTheorems, TLAPS

Waits == {"due", "delay", "hour"}
Busy  == Places \ {"idle", "claim", "next"}

\* A flusher that is sending a row holds it in its batch.
CurInv == \A f \in Flushers : place[f] \in Busy => batch[f][cur[f]] # 0

\* A row nobody has claimed, or that was cancelled, has not left and is in no
\* batch.
AwayInv ==
    \A m \in Messages : status[m] \in {"none", "HELD", "CANCELLED"} =>
        wire[m] = 0 /\ \A f \in Flushers : batch[f][m] = 0

IInv == TypeOK /\ CurInv /\ AwayInv

-----------------------------------------------------------------------------
LEMMA WriteType ==
    ASSUME TypeOK, NEW m \in Messages, NEW s \in Statuses, NEW w \in Waits, Write(m, s, w)
    PROVE  /\ status' \in [Messages -> Statuses] /\ status'[m] = s
           /\ \A n \in Messages : n # m => status'[n] = status[n]
           /\ wait' \in [Messages -> Waits]
           /\ aged' \subseteq Messages
  BY DEF Write, TypeOK, Waits

LEMMA FaultType ==
    ASSUME TypeOK, Fault
    PROVE  faults' \in 0 .. MaxFaults /\ faults' = faults + 1
  BY MailAssumption DEF Fault, TypeOK

LEMMA InitIInv == Init => IInv
  <1> SUFFICES ASSUME Init PROVE IInv
    OBVIOUS
  <1>1. TypeOK
    BY MailAssumption DEF Init, TypeOK, Statuses, Settled, Places
  <1>2. CurInv /\ AwayInv
    BY DEF Init, CurInv, AwayInv, Busy
  <1> QED BY <1>1, <1>2 DEF IInv

-----------------------------------------------------------------------------
\* People and time touch the rows and leave the flushers and the wire alone.
LEMMA RowStep ==
    ASSUME IInv, UNCHANGED <<flusher, wire, recorded, draft, job, faults>>,
           status' \in [Messages -> Statuses], wait' \in [Messages -> Waits],
           attempts' \in [Messages -> 0 .. MaxAttempts], aged' \subseteq Messages,
           used' \in Nat, presses' \in 0 .. MaxPresses,
           \A m \in Messages : status'[m] \in {"none", "HELD", "CANCELLED"} =>
               status[m] \in {"none", "HELD", "CANCELLED"}
    PROVE  IInv'
  <1>1. TypeOK'
    BY DEF IInv, TypeOK, flusher, Waits
  <1>2. CurInv' /\ AwayInv'
    BY DEF IInv, CurInv, AwayInv, flusher
  <1> QED BY <1>1, <1>2 DEF IInv

LEMMA PeopleStep ==
    ASSUME IInv, NEW m \in Messages, Enqueue(m) \/ Resubmit(m) \/ Cancel(m) \/ Retry(m)
    PROVE  IInv'
  <1>t. /\ TypeOK /\ wait \in [Messages -> Waits] /\ presses \in 0 .. MaxPresses
        /\ MaxPresses \in Nat /\ MaxAttempts \in Nat
    BY MailAssumption DEF IInv, TypeOK, Waits
  <1>1. CASE Enqueue(m)
    <2>1. PICK w \in {"due", "delay"} : Write(m, "HELD", w)
      BY <1>1 DEF Enqueue
    <2>2. "HELD" \in Statuses /\ w \in Waits
      BY DEF Statuses, Waits
    <2>3. /\ UNCHANGED <<attempts, flusher, book, job, faults, presses>>
          /\ status[m] = "none"
      BY <1>1 DEF Enqueue
    <2> QED BY <1>t, <2>1, <2>2, <2>3, WriteType, RowStep DEF book, TypeOK
  <1>2. CASE Resubmit(m)
    BY <1>2, <1>t, RowStep DEF Resubmit, book, TypeOK
  <1>3. CASE Cancel(m)
    <2>1. "CANCELLED" \in Statuses /\ "due" \in Waits
      BY DEF Statuses, Settled, Waits
    <2> QED BY <1>3, <1>t, <2>1, WriteType, RowStep DEF Cancel, book, TypeOK
  <1>4. CASE Retry(m)
    <2>1. "QUEUED" \in Statuses /\ "due" \in Waits
      BY DEF Statuses, Waits
    <2>2. presses' \in 0 .. MaxPresses /\ attempts' \in [Messages -> 0 .. MaxAttempts]
      BY <1>4, <1>t DEF Retry, TypeOK
    <2> QED BY <1>4, <1>t, <2>1, <2>2, WriteType, RowStep DEF Retry, book, TypeOK
  <1> QED BY <1>1, <1>2, <1>3, <1>4

LEMMA TimeStep ==
    ASSUME IInv, NextHour \/ \E m \in Messages : Release(m) \/ Age(m)
    PROVE  IInv'
  <1>1. CASE NextHour
    BY <1>1, RowStep DEF NextHour, IInv, TypeOK, Waits
  <1>2. ASSUME NEW m \in Messages, Release(m) PROVE IInv'
    BY <1>2, RowStep DEF Release, IInv, TypeOK, Waits, book
  <1>3. ASSUME NEW m \in Messages, Age(m) PROVE IInv'
    BY <1>3, RowStep DEF Age, IInv, TypeOK, Waits, book
  <1> QED BY <1>1, <1>2, <1>3

-----------------------------------------------------------------------------
\* A flush starts, and requeues what looks stalled.
LEMMA StartStep ==
    ASSUME IInv, NEW f \in Flushers, Start(f)
    PROVE  IInv'
  <1>1. /\ place' = [place EXCEPT ![f] = "claim"]
        /\ job' = f
        /\ UNCHANGED <<attempts, cur, batch, book, presses>>
    BY DEF Start, Goto
  <1>2. /\ status' \in [Messages -> Statuses] /\ wait' \in [Messages -> Waits]
        /\ aged' \subseteq Messages /\ faults' \in 0 .. MaxFaults
        /\ \A m \in Messages : status'[m] = status[m] \/ status'[m] = "QUEUED"
    <2>1. CASE Fault /\ UNCHANGED <<status, wait, aged>>
      BY <2>1, FaultType DEF IInv, TypeOK, Waits
    <2>2. CASE /\ status' = [m \in Messages |-> IF m \in Stalled THEN "QUEUED" ELSE status[m]]
               /\ wait' = [m \in Messages |-> IF m \in Stalled THEN "due" ELSE wait[m]]
               /\ aged' = aged \ Stalled /\ UNCHANGED faults
      BY <2>2 DEF IInv, TypeOK, Waits, Statuses
    <2> QED BY <2>1, <2>2 DEF Start
  <1>3. TypeOK'
    BY <1>1, <1>2 DEF IInv, TypeOK, Places, Waits, book
  <1>4. CurInv'
    BY <1>1 DEF IInv, CurInv, TypeOK, Busy
  <1>5. AwayInv'
    BY <1>1, <1>2 DEF IInv, AwayInv, book
  <1> QED BY <1>3, <1>4, <1>5 DEF IInv

\* The claim: what it takes was due, and is being sent from now on.
LEMMA ClaimStep ==
    ASSUME IInv, NEW f \in Flushers, Claim(f)
    PROVE  IInv'
  <1>1. PICK S \in SUBSET Due :
          /\ status' = [m \in Messages |-> IF m \in S THEN "SENDING" ELSE status[m]]
          /\ attempts' = [m \in Messages |-> IF m \in S THEN Counted(m) ELSE attempts[m]]
          /\ aged' = aged \ S
          /\ batch' = [batch EXCEPT ![f] = [m \in Messages |-> IF m \in S THEN Counted(m) ELSE 0]]
    BY DEF Claim
  <1>2. /\ place[f] = "claim" /\ place' = [place EXCEPT ![f] = "next"]
        /\ UNCHANGED <<wait, cur, book, job, faults, presses>>
    BY DEF Claim, Goto
  <1>3. \A m \in Messages : Counted(m) \in 0 .. MaxAttempts
    BY MailAssumption DEF Counted, IInv, TypeOK
  <1>4. [m \in Messages |-> IF m \in S THEN Counted(m) ELSE 0] \in [Messages -> 0 .. MaxAttempts]
    BY <1>3, MailAssumption
  <1>5. /\ batch' \in [Flushers -> [Messages -> 0 .. MaxAttempts]]
        /\ \A m \in Messages : m \notin S => batch'[f][m] = 0
        /\ \A g \in Flushers : g # f => batch'[g] = batch[g]
    BY <1>1, <1>4 DEF IInv, TypeOK
  <1>6. TypeOK'
    <2>1. /\ status' \in [Messages -> Statuses]
          /\ attempts' \in [Messages -> 0 .. MaxAttempts] /\ aged' \subseteq Messages
      BY <1>1, <1>3 DEF IInv, TypeOK, Statuses
    <2> QED BY <1>2, <1>5, <2>1 DEF IInv, TypeOK, Places, book
  <1>7. CurInv'
    BY <1>2, <1>5 DEF IInv, CurInv, TypeOK, Busy
  <1>8. AwayInv'
    <2> SUFFICES ASSUME NEW m \in Messages, status'[m] \in {"none", "HELD", "CANCELLED"}
                 PROVE  wire'[m] = 0 /\ \A g \in Flushers : batch'[g][m] = 0
      BY DEF AwayInv
    <2>1. m \notin S /\ status'[m] = status[m]
      BY <1>1
    <2> QED BY <1>2, <1>5, <2>1 DEF IInv, AwayInv, book
  <1> QED BY <1>6, <1>7, <1>8 DEF IInv

\* A flusher takes a row of its batch, or has none left, or is gone.
LEMMA FlusherStep ==
    ASSUME IInv, NEW f \in Flushers, Take(f) \/ End(f) \/ Die(f)
    PROVE  IInv'
  <1>1. CASE Take(f)
    <2>1. PICK m \in Messages : batch[f][m] # 0 /\ cur' = [cur EXCEPT ![f] = m]
      BY <1>1 DEF Take
    <2>2. PICK p \in {"refuse", "throttle", "send"} : place' = [place EXCEPT ![f] = p]
      BY <1>1 DEF Take, Goto
    <2>3. UNCHANGED <<row, batch, book, job, faults, presses>>
      BY <1>1 DEF Take
    <2>4. TypeOK'
      BY <2>1, <2>2, <2>3 DEF IInv, TypeOK, Places, row, book
    <2>5. CurInv' /\ AwayInv'
      BY <2>1, <2>2, <2>3 DEF IInv, CurInv, AwayInv, TypeOK, row, book
    <2> QED BY <2>4, <2>5 DEF IInv
  <1>2. CASE End(f)
    <2>1. /\ place' = [place EXCEPT ![f] = "idle"]
          /\ job' \in Flushers \cup {NoFlusher}
          /\ UNCHANGED <<row, cur, batch, book, faults, presses>>
      BY <1>2 DEF End, Goto, IInv, TypeOK
    <2>2. TypeOK'
      BY <2>1 DEF IInv, TypeOK, Places, row, book
    <2>3. CurInv' /\ AwayInv'
      BY <2>1 DEF IInv, CurInv, AwayInv, TypeOK, Busy, row, book
    <2> QED BY <2>2, <2>3 DEF IInv
  <1>3. CASE Die(f)
    <2>1. /\ place' = [place EXCEPT ![f] = "idle"]
          /\ cur' = [cur EXCEPT ![f] = NoMessage]
          /\ batch' = [batch EXCEPT ![f] = [m \in Messages |-> 0]]
          /\ job' \in Flushers \cup {NoFlusher}
          /\ faults' \in 0 .. MaxFaults
          /\ UNCHANGED <<row, book, presses>>
      BY <1>3, FaultType DEF Die, Goto, IInv, TypeOK
    <2>2. [m \in Messages |-> 0] \in [Messages -> 0 .. MaxAttempts]
      BY MailAssumption
    <2>3. TypeOK'
      BY <2>1, <2>2 DEF IInv, TypeOK, Places, row, book
    <2>4. CurInv' /\ AwayInv'
      BY <2>1 DEF IInv, CurInv, AwayInv, TypeOK, Busy, row, book
    <2> QED BY <2>3, <2>4 DEF IInv
  <1> QED BY <1>1, <1>2, <1>3

\* The flusher is done with its row and writes how it ended.
LEMMA LeaveStep ==
    ASSUME IInv, NEW f \in Flushers, place[f] \in Busy,
           NEW s \in {"QUEUED", "SENT", "FAILED"}, NEW w \in Waits,
           Write(cur[f], s, w), Leave(f), Drop(f),
           UNCHANGED <<attempts, book, job, faults, presses>>
    PROVE  IInv'
  <1>1. cur[f] \in Messages /\ s \in Statuses
    BY DEF IInv, TypeOK, Busy, Places, Statuses, Settled
  <1>2. /\ status' \in [Messages -> Statuses] /\ status'[cur[f]] = s
        /\ \A n \in Messages : n # cur[f] => status'[n] = status[n]
        /\ wait' \in [Messages -> Waits] /\ aged' \subseteq Messages
    BY <1>1, WriteType DEF IInv
  <1>3. /\ place' = [place EXCEPT ![f] = "next"]
        /\ cur' = [cur EXCEPT ![f] = NoMessage]
    BY DEF Leave, Goto
  <1>4. /\ batch' \in [Flushers -> [Messages -> 0 .. MaxAttempts]]
        /\ \A g \in Flushers, n \in Messages : batch'[g][n] = batch[g][n] \/ batch'[g][n] = 0
        /\ \A g \in Flushers : g # f => batch'[g] = batch[g]
    BY <1>1, MailAssumption DEF Drop, IInv, TypeOK
  <1>5. TypeOK'
    BY <1>2, <1>3, <1>4 DEF IInv, TypeOK, Places, Waits, book
  <1>6. CurInv'
    BY <1>3, <1>4 DEF IInv, CurInv, TypeOK, Busy
  <1>7. AwayInv'
    BY <1>2, <1>4 DEF IInv, AwayInv, book
  <1> QED BY <1>5, <1>6, <1>7 DEF IInv

LEMMA OutcomeStep ==
    ASSUME IInv, NEW f \in Flushers, Throttle(f) \/ MarkSent(f) \/ MarkFailed(f)
    PROVE  IInv'
  <1> USE DEF Busy, Places, Waits
  <1>1. CASE Throttle(f)
    BY <1>1, LeaveStep DEF Throttle
  <1>2. CASE MarkSent(f)
    BY <1>2, LeaveStep DEF MarkSent
  <1>3. CASE MarkFailed(f)
    <2>1. place[f] \in Busy /\ wait[cur[f]] \in Waits
      BY <1>3 DEF MarkFailed, IInv, TypeOK
    <2> QED BY <1>3, <2>1, LeaveStep DEF MarkFailed
  <1> QED BY <1>1, <1>2, <1>3

\* The flusher goes on with its row, which may leave meanwhile.
LEMMA GoOnStep ==
    ASSUME IInv, NEW f \in Flushers, place[f] \in Busy, NEW p \in Busy, Goto(f, p),
           UNCHANGED <<row, cur, batch, job, presses>>,
           faults' \in 0 .. MaxFaults, used' \in Nat,
           recorded' \subseteq Messages, draft' \subseteq Messages,
           wire' = wire \/ wire' = [wire EXCEPT ![cur[f]] = @ + 1]
    PROVE  IInv'
  <1>1. cur[f] \in Messages /\ batch[f][cur[f]] # 0
    BY DEF IInv, TypeOK, CurInv, Busy, Places
  <1>2. place' = [place EXCEPT ![f] = p]
    BY DEF Goto
  <1>3. wire' \in [Messages -> Nat]
    BY <1>1 DEF IInv, TypeOK
  <1>4. TypeOK'
    BY <1>2, <1>3, <1>1 DEF IInv, TypeOK, Busy, row
  <1>5. CurInv'
    BY <1>1, <1>2 DEF IInv, CurInv, TypeOK
  <1>6. AwayInv'
    <2> SUFFICES ASSUME NEW m \in Messages, status[m] \in {"none", "HELD", "CANCELLED"}
                 PROVE  wire'[m] = 0 /\ \A g \in Flushers : batch[g][m] = 0
      BY DEF AwayInv, row
    <2>1. m # cur[f] /\ wire[m] = 0 /\ \A g \in Flushers : batch[g][m] = 0
      BY <1>1 DEF IInv, AwayInv
    <2> QED BY <2>1, <1>1 DEF IInv, TypeOK
  <1> QED BY <1>4, <1>5, <1>6 DEF IInv

LEMMA SendStep ==
    ASSUME IInv, NEW f \in Flushers,
           Transmit(f) \/ Count(f) \/ Record(f) \/ Attach(f) \/ Stumble(f)
    PROVE  IInv'
  <1>b. /\ {"send", "count", "record", "attach", "mark", "again", "refuse"} \subseteq Busy
        /\ faults \in 0 .. MaxFaults /\ used \in Nat
        /\ recorded \subseteq Messages /\ draft \subseteq Messages
        /\ place[f] \in Busy => cur[f] \in Messages
    BY DEF Busy, Places, IInv, TypeOK
  <1>1. CASE Transmit(f)
    BY <1>1, <1>b, FaultType, GoOnStep DEF Transmit, IInv
  <1>2. CASE Count(f)
    BY <1>2, <1>b, GoOnStep DEF Count
  <1>3. CASE Record(f)
    BY <1>3, <1>b, GoOnStep DEF Record
  <1>4. CASE Attach(f)
    BY <1>4, <1>b, GoOnStep DEF Attach
  <1>5. CASE Stumble(f)
    BY <1>5, <1>b, FaultType, GoOnStep DEF Stumble, IInv
  <1> QED BY <1>1, <1>2, <1>3, <1>4, <1>5

LEMMA NextIInv == IInv /\ [Next]_vars => IInv'
  <1> SUFFICES ASSUME IInv, [Next]_vars PROVE IInv'
    OBVIOUS
  <1>1. CASE UNCHANGED vars
    BY <1>1 DEF vars, IInv, TypeOK, CurInv, AwayInv
  <1>2. ASSUME NEW m \in Messages, Enqueue(m) \/ Resubmit(m) \/ Cancel(m) \/ Retry(m)
        PROVE  IInv'
    BY <1>2, PeopleStep
  <1>3. CASE NextHour \/ \E m \in Messages : Release(m) \/ Age(m)
    BY <1>3, TimeStep
  <1>4. CASE LoseLock
    BY <1>4, FaultType DEF LoseLock, IInv, TypeOK, CurInv, AwayInv, row, flusher, book
  <1>5. ASSUME NEW f \in Flushers, Start(f) \/ Claim(f) PROVE IInv'
    BY <1>5, StartStep, ClaimStep
  <1>6. ASSUME NEW f \in Flushers, Take(f) \/ End(f) \/ Die(f) PROVE IInv'
    BY <1>6, FlusherStep
  <1>7. ASSUME NEW f \in Flushers, Throttle(f) \/ MarkSent(f) \/ MarkFailed(f) PROVE IInv'
    BY <1>7, OutcomeStep
  <1>8. ASSUME NEW f \in Flushers,
               Transmit(f) \/ Count(f) \/ Record(f) \/ Attach(f) \/ Stumble(f)
        PROVE  IInv'
    BY <1>8, SendStep
  <1> QED BY <1>1, <1>2, <1>3, <1>4, <1>5, <1>6, <1>7, <1>8 DEF Next, Flush

THEOREM Invariance == Spec => []IInv
  BY InitIInv, NextIInv, PTL DEF Spec

\* The rows, the flushers and the window keep their types, and a flusher past
\* its claim has a row in hand.
THEOREM TypeCorrect == Spec => []TypeOK
  <1>1. IInv => TypeOK
    BY DEF IInv
  <1> QED BY <1>1, Invariance, PTL

\* Of a cancel and a flush that race for a row one wins: a cancelled message has
\* not left and no flusher has it.
THEOREM CancelledStays == Spec => []CancelledStaysHere
  <1>1. IInv => CancelledStaysHere
    BY DEF IInv, AwayInv, CancelledStaysHere
  <1> QED BY <1>1, Invariance, PTL

-----------------------------------------------------------------------------
(* The cap of the hour.  A flusher without the lock of the job got there by a *)
(* fault, so at most one more than the faults can be between the check of the *)
(* allowance and the count of the message.                                    *)

Adrift  == {f \in Flushers : place[f] # "idle" /\ f # job}
Sending == {f \in Flushers : place[f] \in {"send", "count"}}

HourInv ==
    /\ Cardinality(Adrift) <= faults
    /\ used + Cardinality(Sending) <= HourlyLimit + faults

LEMMA Finite ==
    /\ IsFiniteSet(Adrift) /\ Cardinality(Adrift) \in Nat
    /\ IsFiniteSet(Sending) /\ Cardinality(Sending) \in Nat
    /\ IsFiniteSet(Adrift') /\ Cardinality(Adrift') \in Nat
    /\ IsFiniteSet(Sending') /\ Cardinality(Sending') \in Nat
  <1>1. /\ Adrift \in SUBSET Flushers /\ Sending \in SUBSET Flushers
        /\ Adrift' \in SUBSET Flushers /\ Sending' \in SUBSET Flushers
    BY DEF Adrift, Sending
  <1>2. IsFiniteSet(Flushers)
    BY MailAssumption
  <1>3. \A S \in SUBSET Flushers : IsFiniteSet(S) /\ Cardinality(S) \in Nat
    BY <1>2, FS_Subset, FS_CardinalityType
  <1> QED BY <1>1, <1>3

\* Any set of busy flushers is no larger than the faults and one.
LEMMA OneMore ==
    ASSUME NEW n \in Nat, Cardinality(Adrift) <= n, NEW S \in SUBSET (Adrift \cup {job})
    PROVE  IsFiniteSet(S) /\ Cardinality(S) \in Nat /\ Cardinality(S) <= n + 1
  <1>1. /\ IsFiniteSet(Adrift \cup {job})
        /\ Cardinality(Adrift \cup {job}) <= Cardinality(Adrift) + 1
        /\ Cardinality(Adrift \cup {job}) \in Nat
    <2>1. /\ IsFiniteSet(Adrift \cup {job})
          /\ Cardinality(Adrift \cup {job}) =
                IF job \in Adrift THEN Cardinality(Adrift) ELSE Cardinality(Adrift) + 1
      BY Finite, FS_AddElement
    <2>2. Cardinality(Adrift \cup {job}) \in Nat
      BY <2>1, FS_CardinalityType
    <2> QED BY <2>1, <2>2, Finite
  <1>2. IsFiniteSet(S) /\ Cardinality(S) <= Cardinality(Adrift \cup {job})
    BY <1>1, FS_Subset
  <1>3. Cardinality(S) \in Nat
    BY <1>2, FS_CardinalityType
  <1> QED BY <1>1, <1>2, <1>3, Finite

\* A step after which no flusher is newly adrift or between check and count.
LEMMA QuietStep ==
    ASSUME TypeOK, HourInv, used' = used, faults' \in Nat, faults' >= faults,
           Adrift' \subseteq Adrift, Sending' \subseteq Sending
    PROVE  HourInv'
  <1>1. /\ Cardinality(Adrift') <= Cardinality(Adrift)
        /\ Cardinality(Sending') <= Cardinality(Sending)
    BY Finite, FS_Subset
  <1> QED BY <1>1, Finite, MailAssumption DEF HourInv, TypeOK

LEMMA HourStep ==
    ASSUME IInv, HourInv, [Next]_vars
    PROVE  HourInv'
  <1>t. /\ TypeOK /\ faults \in Nat /\ used \in Nat /\ HourlyLimit \in Nat /\ HourlyLimit >= 1
        /\ job # NoFlusher => job \in Flushers
    BY MailAssumption DEF IInv, TypeOK
  <1>s. Sending \subseteq Adrift \cup {job}
    BY DEF Sending, Adrift
  <1>1. CASE UNCHANGED vars
    BY <1>1, <1>t, QuietStep DEF vars, Adrift, Sending
  <1>2. ASSUME NEW m \in Messages,
               \/ Enqueue(m) \/ Resubmit(m) \/ Cancel(m) \/ Retry(m)
               \/ Release(m) \/ Age(m)
        PROVE  HourInv'
    <2>1. UNCHANGED <<place, job, used, faults>>
      BY <1>2 DEF Enqueue, Resubmit, Cancel, Retry, Release, Age, flusher, book
    <2> QED BY <2>1, <1>t, QuietStep DEF Adrift, Sending
  <1>3. CASE NextHour
    <2>1. UNCHANGED <<place, job, faults>> /\ used' = 0
      BY <1>3 DEF NextHour, flusher
    <2>2. Cardinality(Sending) <= faults + 1
      BY <1>s, <1>t, OneMore, Finite DEF HourInv
    <2>3. Adrift' = Adrift /\ Sending' = Sending
      BY <2>1 DEF Adrift, Sending
    <2> QED BY <2>1, <2>2, <2>3, <1>t, Finite DEF HourInv
  <1>4. CASE LoseLock
    <2>1. /\ UNCHANGED <<place, used>>
          /\ faults' = faults + 1
      BY <1>4 DEF LoseLock, flusher, book, Fault
    <2>2. Adrift' \subseteq Adrift \cup {job} /\ Sending' = Sending
      BY <2>1 DEF Adrift, Sending
    <2>3. Cardinality(Adrift') <= faults + 1
      BY <2>2, <1>t, OneMore, Finite DEF HourInv
    <2> QED BY <2>1, <2>2, <2>3, <1>t, Finite DEF HourInv
  <1>5. ASSUME NEW f \in Flushers, Start(f) PROVE HourInv'
    <2>1. /\ job' = f /\ place' = [place EXCEPT ![f] = "claim"] /\ used' = used
          /\ faults' \in Nat /\ faults' >= faults
      BY <1>5, <1>t DEF Start, Goto, Fault, book
    <2>2. Adrift' \subseteq Adrift /\ Sending' \subseteq Sending
      BY <1>5, <2>1, <1>t, MailAssumption DEF Start, Adrift, Sending, TypeOK
    <2> QED BY <2>1, <2>2, <1>t, QuietStep
  <1>6. ASSUME NEW f \in Flushers, Take(f) PROVE HourInv'
    <2>1. /\ UNCHANGED <<job, used, faults>> /\ place[f] = "next"
          /\ \E p \in Places \ {"idle"} : place' = [place EXCEPT ![f] = p]
      BY <1>6 DEF Take, Goto, book, Places
    <2>2. Adrift' \subseteq Adrift
      BY <2>1, <1>t DEF Adrift, TypeOK
    <2>3. CASE used + 1 <= HourlyLimit
      <3>1. Adrift' = Adrift /\ Sending' \subseteq Adrift \cup {job}
        BY <2>1, <2>2, <1>s, <1>t DEF Adrift, Sending, TypeOK
      <3>2. Cardinality(Sending') <= faults + 1
        BY <3>1, <1>t, OneMore, Finite DEF HourInv
      <3> QED BY <2>1, <2>3, <3>1, <3>2, <1>t, Finite DEF HourInv
    <2>4. CASE ~(used + 1 <= HourlyLimit)
      <3>1. used + 1 > HourlyLimit
        BY <2>4, <1>t
      <3>2. \E p \in {"refuse", "throttle"} : place' = [place EXCEPT ![f] = p]
        BY <1>6, <3>1 DEF Take, Goto
      <3>3. Sending' \subseteq Sending
        BY <3>2, <1>t DEF Sending, TypeOK
      <3> QED BY <2>1, <2>2, <3>3, <1>t, QuietStep
    <2> QED BY <2>3, <2>4
  <1>7. ASSUME NEW f \in Flushers, Count(f) PROVE HourInv'
    <2>1. /\ UNCHANGED <<job, faults>> /\ used' = used + 1 /\ place[f] = "count"
          /\ place' = [place EXCEPT ![f] = "record"]
      BY <1>7 DEF Count, Goto
    <2>2. Adrift' = Adrift /\ Sending' = Sending \ {f} /\ f \in Sending
      BY <2>1, <1>t DEF Adrift, Sending, TypeOK
    <2>3. Cardinality(Sending') = Cardinality(Sending) - 1
      BY <2>2, Finite, FS_RemoveElement
    <2> QED BY <2>1, <2>2, <2>3, <1>t, Finite DEF HourInv
  <1>8. ASSUME NEW f \in Flushers, End(f) \/ Die(f) PROVE HourInv'
    <2>1. /\ place' = [place EXCEPT ![f] = "idle"] /\ used' = used
          /\ job' = IF job = f THEN NoFlusher ELSE job
          /\ faults' \in Nat /\ faults' >= faults
      BY <1>8, <1>t DEF End, Die, Goto, Fault, book
    <2>2. Adrift' \subseteq Adrift /\ Sending' \subseteq Sending
      BY <2>1, <1>t DEF Adrift, Sending, TypeOK
    <2> QED BY <2>1, <2>2, <1>t, QuietStep
  <1>9. ASSUME NEW f \in Flushers, Throttle(f) \/ MarkSent(f) \/ MarkFailed(f) \/ Claim(f)
         PROVE  HourInv'
    <2>1. /\ place' = [place EXCEPT ![f] = "next"] /\ place[f] # "idle"
          /\ UNCHANGED <<job, used, faults>>
      BY <1>9 DEF Throttle, MarkSent, MarkFailed, Claim, Leave, Goto, book
    <2>2. Adrift' \subseteq Adrift /\ Sending' \subseteq Sending
      BY <2>1, <1>t DEF Adrift, Sending, TypeOK
    <2> QED BY <2>1, <2>2, <1>t, QuietStep
  <1>10. ASSUME NEW f \in Flushers, Transmit(f) \/ Record(f) \/ Attach(f) \/ Stumble(f)
         PROVE  HourInv'
    <2>1. /\ UNCHANGED <<job, used>> /\ faults' \in Nat /\ faults' >= faults
          /\ place[f] # "idle"
      BY <1>10, <1>t DEF Transmit, Record, Attach, Stumble, Fault, book
    <2>2. PICK p \in Places :
              /\ place' = [place EXCEPT ![f] = p]
              /\ p \in {"send", "count"} => place[f] \in {"send", "count"}
      BY <1>10 DEF Transmit, Record, Attach, Stumble, Goto, Places
    <2>3. Adrift' \subseteq Adrift /\ Sending' \subseteq Sending
      BY <2>1, <2>2, <1>t DEF Adrift, Sending, TypeOK
    <2> QED BY <2>1, <2>3, <1>t, QuietStep
  <1> QED BY <1>1, <1>2, <1>3, <1>4, <1>5, <1>6, <1>7, <1>8, <1>9, <1>10 DEF Next, Flush

\* The messages counted in an hour pass the cap by one for each fault at most:
\* a flush checks the allowance and counts the message in separate statements,
\* and only one that lost its lock stands beside another.
THEOREM CapKept == Spec => []HourKeepsItsCap
  <1>1. Init => HourInv
    <2> SUFFICES ASSUME Init PROVE HourInv
      OBVIOUS
    <2>1. Adrift = {} /\ Sending = {}
      BY DEF Init, Adrift, Sending
    <2> QED BY <2>1, FS_EmptySet, MailAssumption DEF Init, HourInv
  <1>2. IInv /\ HourInv /\ [Next]_vars => HourInv'
    BY HourStep
  <1>3. IInv /\ HourInv => HourKeepsItsCap
    BY Finite, MailAssumption DEF IInv, TypeOK, HourInv, HourKeepsItsCap
  <1> QED BY <1>1, <1>2, <1>3, Invariance, PTL DEF Spec
-----------------------------------------------------------------------------
(* The copies of a message.  Each one that may still leave is in the hands of *)
(* a flusher that has not transmitted it, or of one without the lock that has *)
(* yet to claim, or else in a row that waits to be claimed.  Together with    *)
(* the copies that left, these are one and one for each fault.                *)

Past(f, m) == cur[f] = m /\ place[f] \in {"count", "record", "attach", "mark"}
Armed(m) ==
    {f \in Flushers : \/ batch[f][m] # 0 /\ ~Past(f, m)
                      \/ f # job /\ place[f] = "claim"}
Waiting(m) ==
    \/ status[m] \in {"none", "HELD", "QUEUED", "FAILED"}
    \/ status[m] = "SENDING" /\ ~\E f \in Flushers : f = job /\ batch[f][m] # 0
Owed(m) == IF Waiting(m) THEN 1 ELSE 0

EmptyInv == \A f \in Flushers : place[f] \in {"idle", "claim"} =>
               \A m \in Messages : batch[f][m] = 0
LeftInv == \A m \in Messages :
              status[m] = "SENT" \/ (\E f \in Flushers : Past(f, m)) => wire[m] >= 1
CopyInv == \A m \in Messages : wire[m] + Owed(m) + Cardinality(Armed(m)) <= 1 + faults

LEMMA EmptyStep ==
    ASSUME IInv, EmptyInv, [Next]_vars
    PROVE  EmptyInv'
  <1> USE DEF EmptyInv
  <1>t. /\ place \in [Flushers -> Places]
        /\ batch \in [Flushers -> [Messages -> 0 .. MaxAttempts]]
        /\ \A f \in Flushers : place[f] \notin {"idle", "claim", "next"} => cur[f] \in Messages
    BY DEF IInv, TypeOK
  <1>1. CASE UNCHANGED vars
    BY <1>1 DEF vars
  <1>2. ASSUME NEW m \in Messages,
               \/ Enqueue(m) \/ Resubmit(m) \/ Cancel(m) \/ Retry(m)
               \/ Release(m) \/ Age(m)
        PROVE  EmptyInv'
    BY <1>2 DEF Enqueue, Resubmit, Cancel, Retry, Release, Age, flusher
  <1>3. CASE NextHour \/ LoseLock
    BY <1>3 DEF NextHour, LoseLock, flusher
  <1>4. ASSUME NEW f \in Flushers, Start(f) PROVE EmptyInv'
    <2>1. place[f] = "idle" /\ place' = [place EXCEPT ![f] = "claim"] /\ batch' = batch
      BY <1>4 DEF Start, Goto, Idle
    <2> QED BY <2>1, <1>t
  <1>5. ASSUME NEW f \in Flushers, Claim(f) PROVE EmptyInv'
    <2>1. /\ place' = [place EXCEPT ![f] = "next"]
          /\ \E b \in {batch'[f]} : batch' = [batch EXCEPT ![f] = b]
      BY <1>5, <1>t DEF Claim, Goto
    <2> QED BY <2>1, <1>t
  <1>6. ASSUME NEW f \in Flushers, Take(f) \/ End(f) PROVE EmptyInv'
    BY <1>6, <1>t DEF Take, End, Goto
  <1>7. ASSUME NEW f \in Flushers, Die(f) PROVE EmptyInv'
    BY <1>7, <1>t DEF Die, Goto
  <1>8. ASSUME NEW f \in Flushers, Throttle(f) \/ MarkSent(f) \/ MarkFailed(f)
        PROVE  EmptyInv'
    <2>1. place' = [place EXCEPT ![f] = "next"]
          /\ \A g \in Flushers : g # f => batch'[g] = batch[g]
      BY <1>8, <1>t DEF Throttle, MarkSent, MarkFailed, Leave, Goto, Drop
    <2> QED BY <2>1, <1>t
  <1>9. ASSUME NEW f \in Flushers,
               Transmit(f) \/ Count(f) \/ Record(f) \/ Attach(f) \/ Stumble(f)
        PROVE  EmptyInv'
    <2>1. /\ batch' = batch
          /\ \E p \in Busy : place' = [place EXCEPT ![f] = p]
      BY <1>9 DEF Transmit, Count, Record, Attach, Stumble, Goto, Busy, Places
    <2> QED BY <2>1, <1>t DEF Busy
  <1> QED BY <1>1, <1>2, <1>3, <1>4, <1>5, <1>6, <1>7, <1>8, <1>9 DEF Next, Flush

\* What the flushers may send, counted before and after a step.
LEMMA ArmedSize ==
    ASSUME NEW m \in Messages
    PROVE  /\ Cardinality(Armed(m)) \in Nat /\ Cardinality(Armed(m)') \in Nat
           /\ Armed(m)' \subseteq Armed(m) => Cardinality(Armed(m)') <= Cardinality(Armed(m))
           /\ \A f \in Flushers : Armed(m)' \subseteq Armed(m) \cup {f} =>
                 Cardinality(Armed(m)') <= Cardinality(Armed(m)) + 1
           /\ \A f \in Armed(m) : Armed(m)' \subseteq Armed(m) \ {f} =>
                 Cardinality(Armed(m)') <= Cardinality(Armed(m)) - 1
  <1> DEFINE A == Armed(m)
             B == Armed(m)'
  <1>1. A \in SUBSET Flushers /\ B \in SUBSET Flushers
    BY DEF Armed
  <1> HIDE DEF A, B
  <1>2. IsFiniteSet(A) /\ IsFiniteSet(B)
    BY <1>1, MailAssumption, FS_Subset
  <1>3. Cardinality(A) \in Nat /\ Cardinality(B) \in Nat
    BY <1>2, FS_CardinalityType
  <1>4. B \subseteq A => Cardinality(B) <= Cardinality(A)
    BY <1>2, FS_Subset
  <1>5. ASSUME NEW f \in Flushers, B \subseteq A \cup {f}
        PROVE  Cardinality(B) <= Cardinality(A) + 1
    <2>1. /\ IsFiniteSet(A \cup {f})
          /\ \/ Cardinality(A \cup {f}) = Cardinality(A)
             \/ Cardinality(A \cup {f}) = Cardinality(A) + 1
      BY <1>2, FS_AddElement
    <2>2. Cardinality(B) <= Cardinality(A \cup {f}) /\ Cardinality(A \cup {f}) \in Nat
      BY <1>5, <2>1, FS_Subset, FS_CardinalityType
    <2> QED BY <1>3, <2>1, <2>2
  <1>6. ASSUME NEW f \in A, B \subseteq A \ {f}
        PROVE  Cardinality(B) <= Cardinality(A) - 1
    <2>1. IsFiniteSet(A \ {f}) /\ Cardinality(A \ {f}) = Cardinality(A) - 1
      BY <1>2, FS_RemoveElement
    <2>2. Cardinality(B) <= Cardinality(A \ {f})
      BY <1>6, <2>1, FS_Subset
    <2> QED BY <2>1, <2>2
  <1>7. /\ Cardinality(A) \in Nat /\ Cardinality(B) \in Nat
        /\ B \subseteq A => Cardinality(B) <= Cardinality(A)
        /\ \A f \in Flushers : B \subseteq A \cup {f} => Cardinality(B) <= Cardinality(A) + 1
        /\ \A f \in A : B \subseteq A \ {f} => Cardinality(B) <= Cardinality(A) - 1
    BY <1>3, <1>4, <1>5, <1>6
  <1> QED BY <1>7 DEF A, B

\* A step that keeps the balance of every message keeps the invariants.
LEMMA BalanceStep ==
    ASSUME IInv, IInv', CopyInv, LeftInv,
           \A m \in Messages :
              /\ wire'[m] + Owed(m)' + Cardinality(Armed(m)') + faults
                    <= wire[m] + Owed(m) + Cardinality(Armed(m)) + faults'
              /\ wire'[m] >= wire[m]
              /\ status'[m] = "SENT" => status[m] = "SENT" \/ \E f \in Flushers : Past(f, m)
              /\ (\E f \in Flushers : Past(f, m)') =>
                    (\E f \in Flushers : Past(f, m)) \/ wire'[m] >= 1
    PROVE  CopyInv' /\ LeftInv'
  <1>1. \A m \in Messages :
           /\ wire[m] \in Nat /\ wire'[m] \in Nat
           /\ Owed(m) \in Nat /\ Owed(m)' \in Nat
           /\ Cardinality(Armed(m)) \in Nat /\ Cardinality(Armed(m)') \in Nat
    BY ArmedSize DEF IInv, TypeOK, Owed
  <1>2. faults \in Nat /\ faults' \in Nat
    BY MailAssumption DEF IInv, TypeOK
  <1>3. CopyInv'
    BY <1>1, <1>2 DEF CopyInv
  <1>4. LeftInv'
    BY <1>1 DEF LeftInv
  <1> QED BY <1>3, <1>4

\* A step after which a message has no more senders and no more waits.
LEMMA SameStep ==
    ASSUME IInv, IInv', CopyInv, LeftInv, wire' = wire, faults' = faults,
           \A m \in Messages :
              /\ Armed(m)' \subseteq Armed(m)
              /\ Waiting(m)' => Waiting(m)
              /\ status'[m] = "SENT" => status[m] = "SENT" \/ \E f \in Flushers : Past(f, m)
              /\ (\E f \in Flushers : Past(f, m)') => \E f \in Flushers : Past(f, m)
    PROVE  CopyInv' /\ LeftInv'
  <1>1. faults \in Nat /\ \A m \in Messages : wire[m] \in Nat
    BY MailAssumption DEF IInv, TypeOK
  <1>2. ASSUME NEW m \in Messages
        PROVE  Owed(m)' <= Owed(m) /\ Owed(m) \in Nat /\ Owed(m)' \in Nat
    BY <1>2 DEF Owed
  <1>3. ASSUME NEW m \in Messages
        PROVE  wire'[m] + Owed(m)' + Cardinality(Armed(m)') + faults
                  <= wire[m] + Owed(m) + Cardinality(Armed(m)) + faults'
    BY <1>1, <1>2, ArmedSize
  <1> QED BY <1>1, <1>3, BalanceStep

LEMMA CopyStep ==
    ASSUME IInv, IInv', EmptyInv, CopyInv, LeftInv, [Next]_vars
    PROVE  CopyInv' /\ LeftInv'
  <1>t. /\ place \in [Flushers -> Places]
        /\ status \in [Messages -> Statuses]
        /\ batch \in [Flushers -> [Messages -> 0 .. MaxAttempts]]
        /\ cur \in [Flushers -> Messages \cup {NoMessage}]
        /\ wire \in [Messages -> Nat] /\ faults \in Nat
        /\ job \in Flushers \cup {NoFlusher} /\ NoFlusher \notin Flushers
        /\ NoMessage \notin Messages
        /\ \A f \in Flushers : place[f] \in Busy => cur[f] \in Messages /\ batch[f][cur[f]] # 0
    BY MailAssumption DEF IInv, TypeOK, CurInv, Busy, Places
  <1>n. \A m \in Messages :
           /\ Owed(m) \in {0, 1} /\ Owed(m)' \in {0, 1}
           /\ Cardinality(Armed(m)) \in Nat /\ Cardinality(Armed(m)') \in Nat
    BY ArmedSize DEF Owed
  <1>1. CASE UNCHANGED vars
    BY <1>1, SameStep DEF vars, Armed, Waiting, Past
  <1>2. ASSUME NEW m \in Messages,
               \/ Enqueue(m) \/ Resubmit(m) \/ Cancel(m) \/ Retry(m)
               \/ Release(m) \/ Age(m)
        PROVE  CopyInv' /\ LeftInv'
    <2>1. UNCHANGED <<place, cur, batch, job, wire, faults>>
      BY <1>2 DEF Enqueue, Resubmit, Cancel, Retry, Release, Age, flusher, book
    <2>2. \A n \in Messages :
             \/ status'[n] = status[n]
             \/ status'[n] = "CANCELLED"
             \/ status[n] = "none" /\ status'[n] = "HELD"
             \/ status[n] = "FAILED" /\ status'[n] = "QUEUED"
      BY <1>2, <1>t DEF Enqueue, Resubmit, Cancel, Retry, Release, Age, Write
    <2>3. \A n \in Messages : (Waiting(n)' => Waiting(n)) /\ (status'[n] = "SENT" => status[n] = "SENT")
      BY <2>1, <2>2 DEF Waiting
    <2> QED BY <2>1, <2>3, SameStep DEF Armed, Past
  <1>3. CASE NextHour
    BY <1>3, SameStep DEF NextHour, flusher, Armed, Waiting, Past
  <1>4. CASE LoseLock
    <2>1. /\ UNCHANGED <<status, place, cur, batch, wire>> /\ job' = NoFlusher
          /\ faults' = faults + 1 /\ job \in Flushers
      BY <1>4, <1>t DEF LoseLock, Fault, row, flusher, book
    <2>2. ASSUME NEW m \in Messages
          PROVE  Owed(m)' + Cardinality(Armed(m)') <= Owed(m) + Cardinality(Armed(m)) + 1
      <3>1. CASE batch[job][m] # 0
        <4>1. Armed(m)' \subseteq Armed(m)
          <5>1. place[job] # "claim"
            BY <2>1, <3>1 DEF EmptyInv
          <5> QED BY <2>1, <5>1 DEF Armed, Past
        <4> QED BY <4>1, <1>n, ArmedSize
      <3>2. CASE batch[job][m] = 0
        <4>1. Armed(m)' \subseteq Armed(m) \cup {job}
          BY <2>1 DEF Armed, Past
        <4>2. Waiting(m)' => Waiting(m)
          BY <2>1, <3>2 DEF Waiting
        <4>3. Owed(m)' <= Owed(m)
          BY <4>2 DEF Owed
        <4> QED BY <2>1, <4>1, <4>3, <1>n, ArmedSize
      <3> QED BY <3>1, <3>2
    <2>3. \A m \in Messages :
             wire'[m] + Owed(m)' + Cardinality(Armed(m)') + faults
                <= wire[m] + Owed(m) + Cardinality(Armed(m)) + faults'
      BY <2>1, <2>2, <1>n, <1>t
    <2> QED BY <2>1, <2>3, <1>t, BalanceStep DEF Past
  <1>5. ASSUME NEW f \in Flushers, Start(f) PROVE CopyInv' /\ LeftInv'
    <2>1. /\ job = NoFlusher /\ job' = f /\ place[f] = "idle"
          /\ place' = [place EXCEPT ![f] = "claim"]
          /\ UNCHANGED <<cur, batch, wire>>
          /\ faults' \in {faults, faults + 1}
          /\ \A m \in Messages : \/ status'[m] = status[m]
                                 \/ status[m] = "SENDING" /\ status'[m] = "QUEUED"
      BY <1>5, <1>t DEF Start, Goto, Idle, Stalled, Fault, book
    <2>2. ASSUME NEW m \in Messages
          PROVE  /\ Armed(m)' \subseteq Armed(m)
                 /\ Waiting(m)' => Waiting(m)
                 /\ status'[m] = "SENT" => status[m] = "SENT"
                 /\ \A g \in Flushers : Past(g, m)' => Past(g, m)
      <3>1. batch[f][m] = 0 /\ f # NoFlusher
        BY <2>1, <1>t DEF EmptyInv
      <3>2. \A g \in Flushers : g # f => place'[g] = place[g] /\ g # job
        BY <2>1, <1>t
      <3>3. place'[f] = "claim"
        BY <2>1, <1>t
      <3>4. Armed(m)' \subseteq Armed(m) /\ \A g \in Flushers : Past(g, m)' => Past(g, m)
        BY <2>1, <3>1, <3>2, <3>3 DEF Armed, Past
      <3>5. Waiting(m)' => Waiting(m)
        BY <2>1, <1>t DEF Waiting
      <3> QED BY <2>1, <3>4, <3>5
    <2>3. \A m \in Messages :
             wire'[m] + Owed(m)' + Cardinality(Armed(m)') + faults
                <= wire[m] + Owed(m) + Cardinality(Armed(m)) + faults'
      <3> TAKE m \in Messages
      <3>1. Owed(m)' <= Owed(m)
        BY <2>2 DEF Owed
      <3>2. Cardinality(Armed(m)') <= Cardinality(Armed(m))
        BY <2>2, ArmedSize
      <3> QED BY <2>1, <3>1, <3>2, <1>n, <1>t
    <2> QED BY <2>1, <2>2, <2>3, <1>t, BalanceStep
  <1>6. ASSUME NEW f \in Flushers, Claim(f) PROVE CopyInv' /\ LeftInv'
    <2>1. PICK S \in SUBSET Due :
            /\ status' = [m \in Messages |-> IF m \in S THEN "SENDING" ELSE status[m]]
            /\ batch' = [batch EXCEPT ![f] = [m \in Messages |-> IF m \in S THEN Counted(m) ELSE 0]]
      BY <1>6 DEF Claim
    <2>2. /\ place[f] = "claim" /\ place' = [place EXCEPT ![f] = "next"]
          /\ UNCHANGED <<cur, job, wire, faults>>
      BY <1>6 DEF Claim, Goto, book
    <2>3. /\ \A m \in Messages : batch[f][m] = 0
          /\ \A m \in Messages : m \in S => batch'[f][m] # 0
          /\ \A m \in Messages : m \notin S => batch'[f][m] = 0
          /\ \A g \in Flushers : g # f => batch'[g] = batch[g]
      <3>1. \A m \in Messages : Counted(m) # 0
        BY MailAssumption DEF Counted, IInv, TypeOK
      <3> QED BY <2>1, <2>2, <3>1, <1>t DEF EmptyInv
    <2>4. \A m \in Messages : m \in S => status[m] \in {"HELD", "QUEUED"} /\ status'[m] = "SENDING"
      BY <2>1 DEF Due
    <2>5. \A g \in Flushers : place'[g] = IF g = f THEN "next" ELSE place[g]
      BY <2>2, <1>t
    <2>6. ASSUME NEW m \in Messages
          PROVE  Owed(m)' + Cardinality(Armed(m)') <= Owed(m) + Cardinality(Armed(m))
      <3>1. CASE m \in S /\ f = job
        <4>1. Waiting(m) /\ ~Waiting(m)'
          BY <2>2, <2>3, <2>4, <3>1 DEF Waiting
        <4>2. Owed(m) = 1 /\ Owed(m)' = 0
          BY <4>1 DEF Owed
        <4>3. Armed(m)' \subseteq Armed(m) \cup {f}
          BY <2>2, <2>3, <2>5 DEF Armed, Past
        <4> QED BY <4>2, <4>3, <1>n, ArmedSize
      <3>2. CASE m \in S /\ f # job
        <4>1. Waiting(m)
          BY <2>4, <3>2 DEF Waiting
        <4>2. Owed(m) = 1
          BY <4>1 DEF Owed
        <4>3. Armed(m)' \subseteq Armed(m)
          BY <2>2, <2>3, <2>5, <3>2 DEF Armed, Past
        <4> QED BY <4>2, <4>3, <1>n, ArmedSize
      <3>3. CASE m \notin S
        <4>1. status'[m] = status[m]
          BY <2>1, <3>3
        <4>2. Armed(m)' \subseteq Armed(m)
          BY <2>2, <2>3, <2>5, <3>3 DEF Armed, Past
        <4>3. Waiting(m)' => Waiting(m)
          BY <2>2, <2>3, <3>3, <4>1 DEF Waiting
        <4>4. Owed(m)' <= Owed(m)
          BY <4>3 DEF Owed
        <4> QED BY <4>2, <4>4, <1>n, ArmedSize
      <3> QED BY <3>1, <3>2, <3>3
    <2>7. \A m \in Messages :
             wire'[m] + Owed(m)' + Cardinality(Armed(m)') + faults
                <= wire[m] + Owed(m) + Cardinality(Armed(m)) + faults'
      BY <2>2, <2>6, <1>n, <1>t
    <2>8. \A m \in Messages : status'[m] = "SENT" => status[m] = "SENT"
      BY <2>1
    <2>9. \A g \in Flushers, m \in Messages : Past(g, m)' => Past(g, m)
      BY <2>2, <2>5 DEF Past
    <2> QED BY <2>2, <2>7, <2>8, <2>9, <1>t, BalanceStep
  <1>7. ASSUME NEW f \in Flushers, Take(f) \/ End(f) PROVE CopyInv' /\ LeftInv'
    <2>1. CASE Take(f)
      <3>1. /\ place[f] = "next" /\ UNCHANGED <<status, batch, job, wire, faults>>
            /\ \E p \in {"refuse", "throttle", "send"} : place' = [place EXCEPT ![f] = p]
            /\ \A g \in Flushers : g # f => cur'[g] = cur[g]
        BY <2>1, <1>t DEF Take, Goto, row, book
      <3>2. ASSUME NEW m \in Messages
            PROVE  Armed(m)' \subseteq Armed(m) /\ \A g \in Flushers : Past(g, m)' => Past(g, m)
        BY <3>1, <1>t DEF Armed, Past
      <3> QED BY <3>1, <3>2, SameStep DEF Waiting
    <2>2. CASE End(f)
      <3>1. /\ place' = [place EXCEPT ![f] = "idle"]
            /\ UNCHANGED <<status, cur, batch, wire, faults>>
            /\ job' = IF job = f THEN NoFlusher ELSE job
            /\ \A m \in Messages : batch[f][m] = 0
        BY <2>2 DEF End, Goto, row, book
      <3>2. ASSUME NEW m \in Messages
            PROVE  /\ Armed(m)' \subseteq Armed(m) /\ (Waiting(m)' => Waiting(m))
                   /\ \A g \in Flushers : Past(g, m)' => Past(g, m)
        <4>1. Armed(m)' \subseteq Armed(m) /\ \A g \in Flushers : Past(g, m)' => Past(g, m)
          BY <3>1, <1>t DEF Armed, Past
        <4>2. Waiting(m)' => Waiting(m)
          BY <3>1, <1>t DEF Waiting
        <4> QED BY <4>1, <4>2
      <3> QED BY <3>1, <3>2, SameStep
    <2> QED BY <1>7, <2>1, <2>2
  <1>8. ASSUME NEW f \in Flushers, Die(f) PROVE CopyInv' /\ LeftInv'
    <2>1. /\ place' = [place EXCEPT ![f] = "idle"]
          /\ batch' = [batch EXCEPT ![f] = [m \in Messages |-> 0]]
          /\ cur' = [cur EXCEPT ![f] = NoMessage]
          /\ UNCHANGED <<status, wire>> /\ faults' = faults + 1
          /\ job' = IF job = f THEN NoFlusher ELSE job
      BY <1>8 DEF Die, Goto, Fault, row, book
    <2>2. ASSUME NEW m \in Messages
          PROVE  Armed(m)' \subseteq Armed(m) /\ \A g \in Flushers : Past(g, m)' => Past(g, m)
      BY <2>1, <1>t DEF Armed, Past
    <2>3. \A m \in Messages :
             wire'[m] + Owed(m)' + Cardinality(Armed(m)') + faults
                <= wire[m] + Owed(m) + Cardinality(Armed(m)) + faults'
      BY <2>1, <2>2, <1>n, <1>t, ArmedSize
    <2> QED BY <2>1, <2>2, <2>3, <1>t, BalanceStep
  <1>9. ASSUME NEW f \in Flushers, Throttle(f) \/ MarkSent(f) \/ MarkFailed(f)
        PROVE  CopyInv' /\ LeftInv'
    <2>0. PICK c \in Messages : c = cur[f]
      BY <1>9, <1>t DEF Throttle, MarkSent, MarkFailed, Busy, Places
    <2>1. /\ c = cur[f] /\ batch[f][c] # 0 /\ place[f] \in Busy
          /\ place' = [place EXCEPT ![f] = "next"]
          /\ cur' = [cur EXCEPT ![f] = NoMessage]
          /\ batch' = [batch EXCEPT ![f] = [@ EXCEPT ![c] = 0]]
          /\ UNCHANGED <<job, wire, faults>>
          /\ \E s \in {"QUEUED", "SENT", "FAILED"} :
                /\ status' = [status EXCEPT ![c] = s]
                /\ s = "SENT" <=> place[f] = "mark"
          /\ place[f] \in {"mark", "throttle", "again", "refuse"}
      BY <1>9, <1>t, <2>0 DEF Throttle, MarkSent, MarkFailed, Leave, Goto, Drop, Write, book, Busy, Places
    <2>2. /\ place'[f] = "next" /\ batch'[f][c] = 0
          /\ \A m \in Messages : m # c => batch'[f][m] = batch[f][m]
          /\ \A g \in Flushers : g # f => /\ place'[g] = place[g] /\ batch'[g] = batch[g]
                                          /\ cur'[g] = cur[g]
      BY <2>1, <1>t
    <2>3. ASSUME NEW m \in Messages
          PROVE  /\ Armed(m)' \subseteq Armed(m)
                 /\ \A g \in Flushers : Past(g, m)' => Past(g, m)
      <3>1. m # c => ~Past(f, m)
        BY <2>0 DEF Past
      <3> QED BY <2>1, <2>2, <3>1 DEF Armed, Past
    <2>4. ASSUME NEW m \in Messages, m # c
          PROVE  status'[m] = status[m] /\ Owed(m)' = Owed(m)
      <3>1. status'[m] = status[m] /\ \A g \in Flushers : batch'[g][m] = batch[g][m]
        BY <2>1, <2>2, <2>4, <1>t
      <3>2. Waiting(m)' <=> Waiting(m)
        BY <2>1, <3>1 DEF Waiting
      <3> QED BY <3>1, <3>2 DEF Owed
    <2>5. Owed(c)' + Cardinality(Armed(c)') <= Owed(c) + Cardinality(Armed(c))
      <3>1. CASE place[f] = "mark"
        <4>1. status'[c] = "SENT"
          BY <2>1, <3>1, <1>t
        <4>2. Owed(c)' = 0
          BY <4>1 DEF Owed, Waiting
        <4> QED BY <2>1, <2>3, <4>2, <1>n, ArmedSize
      <3>2. CASE place[f] # "mark"
        <4>1. f \in Armed(c)
          BY <2>1, <3>2 DEF Armed, Past
        <4>2. Armed(c)' \subseteq Armed(c) \ {f}
          BY <2>1, <2>2, <2>3 DEF Armed
        <4> QED BY <2>1, <4>1, <4>2, <1>n, ArmedSize
      <3> QED BY <3>1, <3>2
    <2>6. \A m \in Messages :
             wire'[m] + Owed(m)' + Cardinality(Armed(m)') + faults
                <= wire[m] + Owed(m) + Cardinality(Armed(m)) + faults'
      <3> TAKE m \in Messages
      <3>1. Owed(m)' + Cardinality(Armed(m)') <= Owed(m) + Cardinality(Armed(m))
        BY <2>3, <2>4, <2>5, <1>n, ArmedSize
      <3> QED BY <2>1, <3>1, <1>n, <1>t
    <2>7. \A m \in Messages : status'[m] = "SENT" =>
             status[m] = "SENT" \/ \E g \in Flushers : Past(g, m)
      <3>1. status'[c] = "SENT" => Past(f, c)
        BY <2>1, <1>t DEF Past
      <3> QED BY <2>4, <3>1
    <2> QED BY <2>1, <2>3, <2>6, <2>7, <1>t, BalanceStep
  <1>10. ASSUME NEW f \in Flushers, Transmit(f) PROVE CopyInv' /\ LeftInv'
    <2>0. PICK c \in Messages : c = cur[f]
      BY <1>10, <1>t DEF Transmit, Busy, Places
    <2>1. /\ c = cur[f] /\ batch[f][c] # 0 /\ place[f] = "send"
          /\ UNCHANGED <<status, cur, batch, job>>
      BY <1>10, <1>t, <2>0 DEF Transmit, row, Busy, Places
    <2>2. PICK p \in {"count", "again", "refuse"} :
            /\ place' = [place EXCEPT ![f] = p]
            /\ \/ p = "count" /\ wire' = [wire EXCEPT ![c] = @ + 1] /\ faults' = faults
               \/ p = "again" /\ wire' = [wire EXCEPT ![c] = @ + 1] /\ faults' = faults + 1
               \/ p # "count" /\ wire' = wire /\ faults' = faults
      BY <1>10, <2>0 DEF Transmit, Goto, Fault
    <2>3. \A g \in Flushers : place'[g] = IF g = f THEN p ELSE place[g]
      BY <2>2, <1>t
    <2>4. ASSUME NEW m \in Messages
          PROVE  /\ Armed(m)' \subseteq Armed(m)
                 /\ Owed(m)' = Owed(m)
                 /\ \A g \in Flushers : Past(g, m)' => Past(g, m) \/ (p = "count" /\ m = c)
      <3>1. Waiting(m)' <=> Waiting(m)
        BY <2>1 DEF Waiting
      <3>2. Armed(m)' \subseteq Armed(m)
        BY <2>1, <2>3 DEF Armed, Past
      <3>3. \A g \in Flushers : Past(g, m)' => Past(g, m) \/ (p = "count" /\ m = c)
        <4>1. Past(f, m)' => p = "count" /\ m = c
          <5>1. place'[f] = p /\ cur'[f] = c
            BY <2>0, <2>1, <2>3
          <5> QED BY <2>2, <5>1 DEF Past
        <4>2. \A g \in Flushers : g # f => (Past(g, m)' => Past(g, m))
          BY <2>1, <2>3 DEF Past
        <4> QED BY <4>1, <4>2
      <3> QED BY <3>1, <3>2, <3>3 DEF Owed
    <2>5. p = "count" => Cardinality(Armed(c)') <= Cardinality(Armed(c)) - 1
      <3>1. f \in Armed(c)
        BY <2>1 DEF Armed, Past
      <3>2. p = "count" => Armed(c)' \subseteq Armed(c) \ {f}
        BY <2>1, <2>3, <2>4 DEF Armed, Past
      <3> QED BY <2>1, <3>1, <3>2, ArmedSize
    <2>6. \A m \in Messages : wire'[m] >= wire[m] /\ (p = "count" => wire'[c] >= 1)
      BY <2>1, <2>2, <1>t
    <2>7. \A m \in Messages :
             wire'[m] + Owed(m)' + Cardinality(Armed(m)') + faults
                <= wire[m] + Owed(m) + Cardinality(Armed(m)) + faults'
      <3> TAKE m \in Messages
      <3>1. Cardinality(Armed(m)') <= Cardinality(Armed(m)) /\ Owed(m)' = Owed(m)
        BY <2>4, ArmedSize
      <3>2. CASE m # c
        <4>1. wire'[m] = wire[m] /\ faults' >= faults /\ faults' \in Nat
          BY <2>1, <2>2, <3>2, <1>t
        <4> QED BY <3>1, <4>1, <1>n, <1>t
      <3>3. CASE m = c
        <4>1. \/ p = "count" /\ wire'[m] = wire[m] + 1 /\ faults' = faults
              \/ wire'[m] = wire[m] + 1 /\ faults' = faults + 1
              \/ wire'[m] = wire[m] /\ faults' = faults
          BY <2>1, <2>2, <3>3, <1>t
        <4> QED BY <2>5, <3>1, <3>3, <4>1, <1>n, <1>t
      <3> QED BY <3>2, <3>3
    <2> QED BY <2>1, <2>4, <2>6, <2>7, BalanceStep
  <1>11. ASSUME NEW f \in Flushers, Count(f) \/ Record(f) \/ Attach(f)
         PROVE  CopyInv' /\ LeftInv'
    <2>1. /\ UNCHANGED <<status, cur, batch, job, wire, faults>>
          /\ place[f] \in {"count", "record", "attach", "mark"}
          /\ \E p \in {"count", "record", "attach", "mark"} : place' = [place EXCEPT ![f] = p]
      BY <1>11 DEF Count, Record, Attach, Goto, row
    <2>2. ASSUME NEW m \in Messages
          PROVE  Armed(m)' \subseteq Armed(m) /\ \A g \in Flushers : Past(g, m)' => Past(g, m)
      BY <2>1, <1>t DEF Armed, Past
    <2> QED BY <2>1, <2>2, SameStep DEF Waiting
  <1>12. ASSUME NEW f \in Flushers, Stumble(f) PROVE CopyInv' /\ LeftInv'
    <2>1. /\ UNCHANGED <<status, cur, batch, job, wire>> /\ faults' = faults + 1
          /\ place' = [place EXCEPT ![f] = "again"]
      BY <1>12 DEF Stumble, Fault, Goto, row
    <2>2. ASSUME NEW m \in Messages
          PROVE  /\ Armed(m)' \subseteq Armed(m) \cup {f} /\ Owed(m)' = Owed(m)
                 /\ \A g \in Flushers : Past(g, m)' => Past(g, m)
      <3>1. Waiting(m)' <=> Waiting(m)
        BY <2>1 DEF Waiting
      <3>2. Armed(m)' \subseteq Armed(m) \cup {f} /\ \A g \in Flushers : Past(g, m)' => Past(g, m)
        BY <2>1, <1>t DEF Armed, Past
      <3> QED BY <3>1, <3>2 DEF Owed
    <2>3. \A m \in Messages :
             wire'[m] + Owed(m)' + Cardinality(Armed(m)') + faults
                <= wire[m] + Owed(m) + Cardinality(Armed(m)) + faults'
      BY <2>1, <2>2, <1>n, <1>t, ArmedSize
    <2> QED BY <2>1, <2>2, <2>3, <1>t, BalanceStep
  <1> QED BY <1>1, <1>2, <1>3, <1>4, <1>5, <1>6, <1>7, <1>8, <1>9, <1>10, <1>11, <1>12
          DEF Next, Flush

\* Every copy of a message after the first has a fault of its own, and without a
\* fault the row says whether the message has left.
THEOREM CopiesBounded == Spec => []FaultsBoundCopies
  <1>1. Init => EmptyInv /\ CopyInv /\ LeftInv
    <2> SUFFICES ASSUME Init PROVE EmptyInv /\ CopyInv /\ LeftInv
      OBVIOUS
    <2>1. EmptyInv /\ LeftInv
      BY DEF Init, EmptyInv, LeftInv, Past
    <2>2. \A m \in Messages : Armed(m) = {} /\ wire[m] = 0 /\ Owed(m) = 1
      BY DEF Init, Armed, Owed, Waiting
    <2>3. CopyInv
      BY <2>2, FS_EmptySet DEF Init, CopyInv
    <2> QED BY <2>1, <2>3
  <1>2. IInv /\ IInv' /\ EmptyInv /\ CopyInv /\ LeftInv /\ [Next]_vars
           => EmptyInv' /\ CopyInv' /\ LeftInv'
    BY EmptyStep, CopyStep
  <1>3. IInv /\ CopyInv /\ LeftInv => FaultsBoundCopies
    <2> SUFFICES ASSUME IInv, CopyInv, LeftInv, NEW m \in Messages
                 PROVE  /\ wire[m] <= 1 + faults
                        /\ faults = 0 /\ status[m] = "SENT" => wire[m] = 1
                        /\ faults = 0 /\ status[m] \in {"HELD", "QUEUED", "FAILED"} => wire[m] = 0
      BY DEF FaultsBoundCopies
    <2>1. wire[m] \in Nat /\ faults \in Nat /\ Cardinality(Armed(m)) \in Nat
      BY MailAssumption, ArmedSize DEF IInv, TypeOK
    <2>2. /\ Owed(m) \in {0, 1}
          /\ status[m] \in {"HELD", "QUEUED", "FAILED"} => Owed(m) = 1
      BY DEF Owed, Waiting
    <2> QED BY <2>1, <2>2 DEF CopyInv, LeftInv
  <1> QED BY <1>1, <1>2, <1>3, Invariance, PTL DEF Spec

-----------------------------------------------------------------------------
(* Rows without a flusher. *)

InHand(f) == {m \in Messages : batch[f][m] # 0}

\* Rows marked as being sent that no flusher will come back to.
Orphans == {m \in Messages : status[m] = "SENDING" /\ \A f \in Flushers : m \notin InHand(f)}

\* A failure leaves no more of them than one claim takes.
OrphansBounded == Cardinality(Orphans) <= BatchLimit * faults

BatchInv == \A f \in Flushers : Cardinality(InHand(f)) <= BatchLimit

LEMMA Counts ==
    ASSUME IsFiniteSet(Messages), NEW S \in SUBSET Messages
    PROVE  /\ IsFiniteSet(S) /\ Cardinality(S) \in Nat
           /\ \A T \in SUBSET S : Cardinality(T) <= Cardinality(S) /\ Cardinality(T) \in Nat
           /\ \A T \in SUBSET Messages : Cardinality(S \cup T) <= Cardinality(S) + Cardinality(T)
  <1>1. \A T \in SUBSET Messages : IsFiniteSet(T) /\ Cardinality(T) \in Nat
    BY FS_Subset, FS_CardinalityType
  <1>2. \A T \in SUBSET S : Cardinality(T) <= Cardinality(S)
    BY <1>1, FS_Subset
  <1>3. ASSUME NEW T \in SUBSET Messages
        PROVE  Cardinality(S \cup T) <= Cardinality(S) + Cardinality(T)
    <2>1. /\ Cardinality(S \cup T) = Cardinality(S) + Cardinality(T) - Cardinality(S \cap T)
          /\ Cardinality(S \cap T) \in Nat /\ Cardinality(S) \in Nat /\ Cardinality(T) \in Nat
      BY <1>1, FS_Union
    <2> QED BY <2>1
  <1> QED BY <1>1, <1>2, <1>3

LEMMA Share ==
    ASSUME IInv
    PROVE  /\ BatchLimit \in Nat /\ faults \in Nat /\ BatchLimit * faults \in Nat
           /\ BatchLimit * (faults + 1) = BatchLimit * faults + BatchLimit
  <1>1. BatchLimit \in Nat /\ faults \in Nat
    BY MailAssumption DEF IInv, TypeOK
  <1> QED BY <1>1

\* A step that leaves no row alone, and takes no batch.
LEMMA OrphanKept ==
    ASSUME IsFiniteSet(Messages), IInv, BatchInv, OrphansBounded,
           faults' \in {faults, faults + 1}, Orphans' \subseteq Orphans,
           \A f \in Flushers : InHand(f)' \subseteq InHand(f)
    PROVE  BatchInv' /\ OrphansBounded'
  <1>1. \A f \in Flushers : Cardinality(InHand(f)') <= Cardinality(InHand(f))
    BY Counts DEF InHand
  <1>2. BatchInv'
    <2> SUFFICES ASSUME NEW f \in Flushers
                 PROVE  Cardinality(InHand(f)') <= BatchLimit
      BY DEF BatchInv
    <2>1. InHand(f) \in SUBSET Messages /\ InHand(f)' \in SUBSET Messages
      BY DEF InHand
    <2>2. Cardinality(InHand(f)) \in Nat /\ Cardinality(InHand(f)') \in Nat
      BY <2>1, Counts
    <2> QED BY <1>1, <2>2, Share DEF BatchInv
  <1>3. Cardinality(Orphans') <= Cardinality(Orphans)
    BY Counts DEF Orphans
  <1>4. Orphans \in SUBSET Messages /\ Orphans' \in SUBSET Messages
    BY DEF Orphans
  <1>5. Cardinality(Orphans) \in Nat /\ Cardinality(Orphans') \in Nat
    BY <1>4, Counts
  <1>6. BatchLimit * faults <= BatchLimit * faults'
    BY Share
  <1>7. BatchLimit * faults' \in Nat /\ BatchLimit * faults \in Nat
    BY Share
  <1> HIDE DEF Orphans
  <1> QED BY <1>2, <1>3, <1>5, <1>6, <1>7 DEF OrphansBounded

\* No flusher lets go of a row that stays marked as being sent.
LEMMA OrphanFewer ==
    ASSUME IsFiniteSet(Messages), IInv, BatchInv, OrphansBounded,
           faults' \in {faults, faults + 1},
           \A m \in Messages : status'[m] = "SENDING" =>
               status[m] = "SENDING" /\ \A f \in Flushers : batch'[f][m] = batch[f][m],
           \A f \in Flushers, m \in Messages : batch[f][m] = 0 => batch'[f][m] = 0
    PROVE  BatchInv' /\ OrphansBounded'
  <1>1. Orphans' \subseteq Orphans
    BY DEF Orphans, InHand
  <1>2. \A f \in Flushers : InHand(f)' \subseteq InHand(f)
    BY DEF InHand
  <1> QED BY <1>1, <1>2, OrphanKept

LEMMA OrphanClaim ==
    ASSUME IsFiniteSet(Messages), IInv, EmptyInv, BatchInv, OrphansBounded,
           NEW f \in Flushers, Claim(f)
    PROVE  BatchInv' /\ OrphansBounded'
  <1>1. PICK S \in SUBSET Due :
          /\ Cardinality(S) <= BatchLimit
          /\ status' = [m \in Messages |-> IF m \in S THEN "SENDING" ELSE status[m]]
          /\ batch' = [batch EXCEPT ![f] = [m \in Messages |-> IF m \in S THEN Counted(m) ELSE 0]]
    BY DEF Claim
  <1>2. place[f] = "claim" /\ faults' = faults
    BY DEF Claim
  <1>3. \A m \in Messages : batch[f][m] = 0
    BY <1>2 DEF EmptyInv
  <1>4. \A m \in Messages : Counted(m) # 0
    BY MailAssumption DEF Counted, IInv, TypeOK
  <1>5. /\ \A g \in Flushers : g # f => batch'[g] = batch[g]
        /\ \A m \in Messages : batch'[f][m] # 0 <=> m \in S
    BY <1>1, <1>4 DEF IInv, TypeOK
  <1>6. InHand(f)' = S /\ \A g \in Flushers : g # f => InHand(g)' = InHand(g)
    BY <1>1, <1>5 DEF InHand, Due
  <1>7. BatchInv'
    BY <1>1, <1>6 DEF BatchInv
  <1>8. Orphans' \subseteq Orphans
    <2> SUFFICES ASSUME NEW m \in Messages, status'[m] = "SENDING",
                        \A g \in Flushers : batch'[g][m] = 0
                 PROVE  status[m] = "SENDING" /\ \A g \in Flushers : batch[g][m] = 0
      BY DEF Orphans, InHand
    <2>1. m \notin S
      BY <1>5
    <2> QED BY <1>1, <1>3, <1>5, <2>1
  <1>9. Cardinality(Orphans') <= Cardinality(Orphans)
    BY <1>8, Counts DEF Orphans
  <1>10. Cardinality(Orphans) \in Nat /\ Cardinality(Orphans') \in Nat
    <2>1. Orphans \in SUBSET Messages /\ Orphans' \in SUBSET Messages
      BY DEF Orphans
    <2> QED BY <2>1, Counts
  <1> HIDE DEF Orphans
  <1> QED BY <1>2, <1>7, <1>9, <1>10, Share DEF OrphansBounded

LEMMA OrphanDie ==
    ASSUME IsFiniteSet(Messages), IInv, BatchInv, OrphansBounded, NEW f \in Flushers, Die(f)
    PROVE  BatchInv' /\ OrphansBounded'
  <1>1. /\ batch' = [batch EXCEPT ![f] = [m \in Messages |-> 0]]
        /\ status' = status /\ faults' = faults + 1
    BY DEF Die, Fault, row
  <1>2. InHand(f)' = {} /\ \A g \in Flushers : g # f => InHand(g)' = InHand(g)
    BY <1>1 DEF IInv, TypeOK, InHand
  <1>3. BatchInv'
    BY <1>2, FS_EmptySet, MailAssumption DEF BatchInv
  <1>4. Orphans' \subseteq Orphans \cup InHand(f)
    BY <1>1, <1>2 DEF Orphans
  <1>5. /\ Orphans \in SUBSET Messages /\ InHand(f) \in SUBSET Messages
        /\ Orphans \cup InHand(f) \in SUBSET Messages
    BY DEF Orphans, InHand
  <1>6. /\ Cardinality(Orphans') <= Cardinality(Orphans \cup InHand(f))
        /\ Cardinality(Orphans \cup InHand(f)) <= Cardinality(Orphans) + Cardinality(InHand(f))
        /\ Cardinality(Orphans') \in Nat /\ Cardinality(Orphans) \in Nat
        /\ Cardinality(Orphans \cup InHand(f)) \in Nat /\ Cardinality(InHand(f)) \in Nat
    BY <1>4, <1>5, Counts
  <1>7. Cardinality(InHand(f)) <= BatchLimit
    BY DEF BatchInv
  <1> HIDE DEF Orphans, InHand
  <1> QED BY <1>1, <1>3, <1>6, <1>7, Share DEF OrphansBounded

LEMMA OrphanStep ==
    ASSUME IsFiniteSet(Messages), IInv, EmptyInv, BatchInv, OrphansBounded, [Next]_vars
    PROVE  BatchInv' /\ OrphansBounded'
  <1>t. /\ status \in [Messages -> Statuses]
        /\ batch \in [Flushers -> [Messages -> 0 .. MaxAttempts]]
        /\ \A f \in Flushers : place[f] \notin {"idle", "claim", "next"} => cur[f] \in Messages
    BY DEF IInv, TypeOK
  <1>1. CASE UNCHANGED vars
    BY <1>1, OrphanFewer DEF vars
  <1>2. ASSUME NEW m \in Messages,
               \/ Enqueue(m) \/ Resubmit(m) \/ Cancel(m) \/ Retry(m) \/ Release(m) \/ Age(m)
        PROVE  BatchInv' /\ OrphansBounded'
    <2>1. UNCHANGED <<batch, faults>>
      BY <1>2 DEF Enqueue, Resubmit, Cancel, Retry, Release, Age, flusher
    <2>2. \A n \in Messages : status'[n] = "SENDING" => status[n] = "SENDING"
      BY <1>2, <1>t DEF Enqueue, Resubmit, Cancel, Retry, Release, Age, Write
    <2> QED BY <2>1, <2>2, OrphanFewer
  <1>3. CASE NextHour \/ LoseLock
    BY <1>3, OrphanFewer DEF NextHour, LoseLock, flusher, row, Fault
  <1>4. ASSUME NEW f \in Flushers, Start(f) PROVE BatchInv' /\ OrphansBounded'
    <2>1. UNCHANGED batch /\ faults' \in {faults, faults + 1}
      BY <1>4 DEF Start, Fault
    <2>2. \A n \in Messages : status'[n] = "SENDING" => status[n] = "SENDING"
      BY <1>4, <1>t DEF Start
    <2> QED BY <2>1, <2>2, OrphanFewer
  <1>5. ASSUME NEW f \in Flushers,
               \/ Take(f) \/ End(f) \/ Transmit(f) \/ Count(f) \/ Record(f) \/ Attach(f) \/ Stumble(f)
        PROVE  BatchInv' /\ OrphansBounded'
    <2>1. UNCHANGED <<status, batch>> /\ faults' \in {faults, faults + 1}
      BY <1>5 DEF Take, End, Transmit, Count, Record, Attach, Stumble, Fault, row
    <2> QED BY <2>1, OrphanFewer
  <1>6. ASSUME NEW f \in Flushers, Throttle(f) \/ MarkSent(f) \/ MarkFailed(f)
        PROVE  BatchInv' /\ OrphansBounded'
    <2>1. /\ cur[f] \in Messages /\ UNCHANGED faults
          /\ \E s \in {"QUEUED", "SENT", "FAILED"} : status' = [status EXCEPT ![cur[f]] = s]
          /\ batch' = [batch EXCEPT ![f] = [@ EXCEPT ![cur[f]] = 0]]
      BY <1>6, <1>t DEF Throttle, MarkSent, MarkFailed, Write, Drop
    <2>2. PICK c \in Messages : c = cur[f]
      BY <2>1
    <2>3. \A n \in Messages : status'[n] = "SENDING" => n # c /\ status[n] = "SENDING"
      BY <2>1, <2>2, <1>t
    <2>4. \A g \in Flushers, n \in Messages :
             batch'[g][n] = IF g = f /\ n = c THEN 0 ELSE batch[g][n]
      BY <2>1, <2>2, <1>t
    <2> QED BY <2>1, <2>3, <2>4, OrphanFewer
  <1>7. ASSUME NEW f \in Flushers, Claim(f) PROVE BatchInv' /\ OrphansBounded'
    BY <1>7, OrphanClaim
  <1>8. ASSUME NEW f \in Flushers, Die(f) PROVE BatchInv' /\ OrphansBounded'
    BY <1>8, OrphanDie
  <1> QED BY <1>1, <1>2, <1>3, <1>4, <1>5, <1>6, <1>7, <1>8 DEF Next, Flush

\* A row marked as being sent has a flusher, but for those a failure took with it:
\* one batch for each, whatever lost locks, late outcomes and requeueing do.
THEOREM OrphansNeedFaults ==
    ASSUME IsFiniteSet(Messages)
    PROVE  Spec => []OrphansBounded
  <1>1. Init => EmptyInv /\ BatchInv /\ OrphansBounded
    <2> SUFFICES ASSUME Init PROVE EmptyInv /\ BatchInv /\ OrphansBounded
      OBVIOUS
    <2>1. EmptyInv
      BY DEF Init, EmptyInv
    <2>2. Orphans = {} /\ \A f \in Flushers : InHand(f) = {}
      BY DEF Init, Orphans, InHand
    <2> QED BY <2>1, <2>2, FS_EmptySet, MailAssumption DEF Init, BatchInv, OrphansBounded
  <1>2. IInv /\ EmptyInv /\ BatchInv /\ OrphansBounded /\ [Next]_vars
           => EmptyInv' /\ BatchInv' /\ OrphansBounded'
    BY EmptyStep, OrphanStep
  <1> QED BY <1>1, <1>2, Invariance, PTL DEF Spec

\* So the messages that EveryMessageSettles excuses, which nothing picks up again,
\* are at most one batch for each failure.
THEOREM StuckNeedFaults ==
    ASSUME IsFiniteSet(Messages)
    PROVE  Spec => [](Cardinality({m \in Messages : Stuck(m)}) <= BatchLimit * faults)
  <1>1. ASSUME IInv, OrphansBounded
        PROVE  Cardinality({m \in Messages : Stuck(m)}) <= BatchLimit * faults
    <2> DEFINE S == {m \in Messages : Stuck(m)}
    <2>1. S \in SUBSET Orphans /\ Orphans \in SUBSET Messages
      BY DEF Stuck, Orphans, InHand
    <2> HIDE DEF S
    <2>2. /\ Cardinality(S) <= Cardinality(Orphans)
          /\ Cardinality(S) \in Nat /\ Cardinality(Orphans) \in Nat
      BY <2>1, Counts
    <2>3. Cardinality(S) <= BatchLimit * faults
      BY <1>1, <2>2, Share DEF OrphansBounded
    <2> QED BY <2>3 DEF S
  <1> QED BY <1>1, Invariance, OrphansNeedFaults, PTL
=============================================================================
