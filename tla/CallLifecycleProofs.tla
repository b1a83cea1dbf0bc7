------------------------- MODULE CallLifecycleProofs -------------------------
(* Proofs about calls: their types, that a call moves along its state machine *)
(* whatever was read when, and that each live call without a clock costs a    *)
(* fault of its own; for any number of users, calls and requests in flight.   *)
EXTENDS CallLifecycle, FiniteSetTheorems, TLAPS

Statuses == Active \cup Final \cup {"none"}

\* A live call has a clock queued, or its dial or answer is about to queue it;
\* every one that has not costs a failure.
ClockInv == UnclockedNeedFaults

\* Nobody dials himself, and not all the world dials at once.
DialInv == IsFiniteSet(dials) /\ \A d \in dials : d[1] # d[2]

IInv == TypeOK /\ DialInv /\ ClockInv

-----------------------------------------------------------------------------
LEMMA DialsType ==
    ASSUME IInv
    PROVE  /\ Cardinality(dials) \in Nat
           /\ IsFiniteSet(Unused) /\ Cardinality(Unused) \in Nat
           /\ Cardinality(dials) <= Cardinality(Unused)
  <1>1. Unused \in SUBSET Calls
    BY DEF Unused
  <1>2. IsFiniteSet(Unused)
    BY <1>1, CallAssumption, FS_Subset
  <1> QED BY <1>2, FS_CardinalityType DEF IInv, TypeOK, DialInv, Unused

LEMMA InitIInv == Init => IInv
  <1> SUFFICES ASSUME Init PROVE IInv
    OBVIOUS
  <1>1. Unused \in SUBSET Calls
    BY DEF Unused
  <1>2. Cardinality(dials) = 0 /\ IsFiniteSet(dials) /\ Cardinality(Unused) \in Nat
    BY <1>1, CallAssumption, FS_Subset, FS_EmptySet, FS_CardinalityType DEF Init
  <1>3. Cardinality(dials) <= Cardinality({c \in Calls : status[c] = "none"})
    BY <1>2 DEF Unused
  <1>4. /\ status \in [Calls -> Active \cup Final \cup {"none"}]
        /\ \A c \in Calls : status[c] = "none" /\ ends[c] = <<>>
        /\ faults \in 0 .. MaxFaults
    BY CallAssumption DEF Init
  <1>5. TypeOK
    BY <1>3, <1>4 DEF Init, TypeOK
  <1>6. ClockInv
    <2>1. Unclocked = {}
      BY DEF Init, Unclocked, Live, Active
    <2> QED BY <2>1, FS_EmptySet DEF Init, ClockInv, UnclockedNeedFaults
  <1> QED BY <1>2, <1>5, <1>6 DEF Init, IInv, DialInv

-----------------------------------------------------------------------------
LEMMA UnclockedType ==
    ASSUME IInv
    PROVE  /\ IsFiniteSet(Unclocked) /\ Cardinality(Unclocked) \in Nat
           /\ Cardinality(Unclocked) <= faults /\ faults \in Nat
  <1>1. Unclocked \in SUBSET Calls
    BY DEF Unclocked, Live
  <1>2. IsFiniteSet(Unclocked) /\ Cardinality(Unclocked) \in Nat
    BY <1>1, CallAssumption, FS_Subset, FS_CardinalityType
  <1> QED BY <1>2, CallAssumption DEF IInv, ClockInv, UnclockedNeedFaults, TypeOK

\* No call loses its clock.
LEMMA ClockKept ==
    ASSUME IInv, faults' = faults,
           \A c \in Live' : (c \in Live => Clocked(c)) => Clocked(c)'
    PROVE  ClockInv'
  <1>1. Unclocked' \subseteq Unclocked
    BY DEF Unclocked
  <1>2. Cardinality(Unclocked') <= Cardinality(Unclocked) /\ Cardinality(Unclocked') \in Nat
    BY <1>1, UnclockedType, FS_Subset, FS_CardinalityType
  <1> QED BY <1>2, UnclockedType DEF ClockInv, UnclockedNeedFaults

\* A failure costs one call its clock.
LEMMA ClockLost ==
    ASSUME IInv, faults' = faults + 1, Live' = Live, NEW x,
           \A c \in Live : c # x /\ Clocked(c) => Clocked(c)'
    PROVE  ClockInv'
  <1>1. Unclocked' \subseteq Unclocked \cup {x}
    BY DEF Unclocked
  <1>2. /\ IsFiniteSet(Unclocked \cup {x})
        /\ Cardinality(Unclocked \cup {x}) <= Cardinality(Unclocked) + 1
        /\ Cardinality(Unclocked \cup {x}) \in Nat
    <2>1. /\ IsFiniteSet(Unclocked \cup {x})
          /\ Cardinality(Unclocked \cup {x}) =
                IF x \in Unclocked THEN Cardinality(Unclocked) ELSE Cardinality(Unclocked) + 1
      BY UnclockedType, FS_AddElement
    <2> QED BY <2>1, UnclockedType, FS_CardinalityType
  <1>3. Cardinality(Unclocked') <= Cardinality(Unclocked \cup {x}) /\ Cardinality(Unclocked') \in Nat
    BY <1>1, <1>2, FS_Subset, FS_CardinalityType
  <1> QED BY <1>2, <1>3, UnclockedType DEF ClockInv, UnclockedNeedFaults

\* A step that dials nobody and writes no row.
LEMMA RowsStay ==
    ASSUME IInv, UNCHANGED <<status, ends, dials>>,
           overdue' \subseteq Live, tails' \subseteq Move, jobs' \subseteq Live,
           asks' \subseteq Move, plan' \subseteq Move,
           marked' \in BOOLEAN, quiet' \in BOOLEAN, quiet' => marked',
           sweep' \in {"off", "due", "live", "drop"}, left' \subseteq Calls,
           faults' \in 0 .. MaxFaults,
           \/ faults' = faults /\ \A c \in Live : Clocked(c) => Clocked(c)'
           \/ /\ faults' = faults + 1
              /\ \E x : \A c \in Live : c # x /\ Clocked(c) => Clocked(c)'
    PROVE  IInv'
  <1>1. Live' = Live
    BY DEF Live
  <1>2. TypeOK'
    BY <1>1 DEF IInv, TypeOK
  <1>3. ClockInv'
    BY <1>1, ClockKept, ClockLost
  <1> QED BY <1>2, <1>3 DEF IInv, DialInv

\* The present status of a call that is live is a move to make.
LEMMA ReadMove ==
    ASSUME IInv, NEW c \in Live
    PROVE  [call |-> c, from |-> status[c]] \in Move
  BY DEF Live, Move

LEMMA FaultType ==
    ASSUME IInv, Fault
    PROVE  faults' \in 0 .. MaxFaults /\ faults' = faults + 1
  BY CallAssumption DEF IInv, TypeOK, Fault

LEMMA WatchStep ==
    ASSUME IInv,
           \/ \E c \in Calls : \/ \E u \in Users : Ask(u, c)
                               \/ FindGone(c) \/ Pass(c) \/ RunClock(c) \/ LoseJob(c)
           \/ \E t \in tails : Follow(t) \/ FollowInPart(t)
           \/ SweepDue \/ SweepLive \/ ReadScore \/ Release \/ SweepDies \/ FallQuiet
    PROVE  IInv'
  <1>t. /\ overdue \subseteq Live /\ tails \subseteq Move /\ jobs \subseteq Live
        /\ asks \subseteq Move /\ plan \subseteq Move
        /\ marked \in BOOLEAN /\ quiet \in BOOLEAN /\ (quiet => marked)
        /\ sweep \in {"off", "due", "live", "drop"} /\ left \subseteq Calls
        /\ faults \in 0 .. MaxFaults
    BY DEF IInv, TypeOK
  <1>1. ASSUME NEW c \in Calls, NEW u \in Users, Ask(u, c) PROVE IInv'
    <2>1. asks' \subseteq Move
      BY <1>1, <1>t, ReadMove DEF Ask
    <2> QED BY <1>1, <1>t, <2>1, RowsStay DEF Ask, rows, clock, mark, sweeper, Clocked
  <1>2. ASSUME NEW c \in Calls, FindGone(c) PROVE IInv'
    <2>1. asks' \subseteq Move
      BY <1>2, <1>t DEF FindGone, Move, Active
    <2> QED BY <1>2, <1>t, <2>1, RowsStay DEF FindGone, rows, clock, mark, sweeper, Clocked
  <1>3. ASSUME NEW c \in Calls, Pass(c) PROVE IInv'
    BY <1>3, <1>t, RowsStay DEF Pass, clock, mark, sweeper, Clocked
  <1>4. ASSUME NEW c \in Calls, RunClock(c) PROVE IInv'
    <2>1. asks' \subseteq Move
      BY <1>4, <1>t, ReadMove DEF RunClock
    <2> QED BY <1>4, <1>t, <2>1, RowsStay DEF RunClock, rows, clock, mark, sweeper, Clocked
  <1>5. ASSUME NEW c \in Calls, LoseJob(c) PROVE IInv'
    <2>1. \A e \in Live : e # c /\ Clocked(e) => Clocked(e)'
      BY <1>5 DEF LoseJob, Clocked, rows
    <2> QED BY <1>5, <1>t, <2>1, FaultType, RowsStay DEF LoseJob, rows, mark, sweeper
  <1>6. ASSUME NEW t \in tails, Follow(t) PROVE IInv'
    <2>1. t.call \in Calls /\ t.from \in Active /\ t = [call |-> t.call, from |-> t.from]
      BY <1>t DEF Move
    <2>2. /\ jobs' = IF status[t.call] = t.from THEN jobs \cup {t.call} ELSE jobs
          /\ tails' = tails \ {t} /\ status' = status
      BY <1>6 DEF Follow, Queue, rows
    <2>3. jobs' \subseteq Live
      BY <1>t, <2>1, <2>2 DEF Live
    <2>4. \A c \in Live : Clocked(c) => Clocked(c)'
      BY <2>1, <2>2 DEF Clocked
    <2> QED BY <1>6, <1>t, <2>2, <2>3, <2>4, RowsStay DEF Follow, rows, sweeper
  <1>7. ASSUME NEW t \in tails, FollowInPart(t) PROVE IInv'
    <2>1. t.call \in Calls /\ t.from \in Active
      BY <1>t DEF Move
    <2>2. jobs' \subseteq Live
      BY <1>7, <1>t, <2>1 DEF FollowInPart, Queue, Live
    <2>3. marked' \in BOOLEAN /\ quiet' \in BOOLEAN /\ (quiet' => marked')
      <3>1. UNCHANGED mark \/ (marked' = TRUE /\ quiet' = FALSE)
        BY <1>7 DEF FollowInPart
      <3>2. CASE UNCHANGED mark
        BY <1>t, <3>2 DEF mark
      <3>3. CASE marked' = TRUE /\ quiet' = FALSE
        BY <3>3
      <3> QED BY <3>1, <3>2, <3>3
    <2>4. \A e \in Live : e # t.call /\ Clocked(e) => Clocked(e)'
      <3>1. tails' = tails \ {t} /\ jobs \subseteq jobs' /\ status' = status
        BY <1>7 DEF FollowInPart, Queue, rows
      <3>2. \A e : e # t.call => [call |-> e, from |-> status[e]] # t
        BY <1>t DEF Move
      <3> QED BY <3>1, <3>2 DEF Clocked
    <2> QED BY <1>7, <1>t, <2>2, <2>3, <2>4, FaultType, RowsStay DEF FollowInPart, rows, sweeper
  <1>8. CASE SweepDue \/ SweepLive
    <2>1. plan' \subseteq Move
      BY <1>8, <1>t, ReadMove DEF SweepDue, SweepLive, SweepOf, Due
    <2> QED BY <1>8, <1>t, <2>1, RowsStay DEF SweepDue, SweepLive, rows, clock, mark, Clocked, Live
  <1>9. CASE ReadScore
    BY <1>9, <1>t, RowsStay DEF ReadScore, rows, clock, mark, Clocked
  <1>10. CASE Release
    BY <1>10, <1>t, RowsStay DEF Release, rows, clock, Clocked
  <1>11. CASE FallQuiet
    <2>1. quiet' = TRUE /\ marked' = TRUE /\ UNCHANGED <<rows, dials, clock, asks, sweeper, faults>>
      BY <1>11, <1>t DEF FallQuiet
    <2> QED BY <1>t, <2>1, RowsStay DEF rows, clock, sweeper, Clocked
  <1>12. CASE SweepDies
    <2>1. \A e \in Live : Clocked(e) => Clocked(e)'
      BY <1>12 DEF SweepDies, Clocked, rows, clock
    <2> QED BY <1>12, <1>t, <2>1, FaultType, RowsStay DEF SweepDies, rows, clock, mark
  <1> QED BY <1>1, <1>2, <1>3, <1>4, <1>5, <1>6, <1>7, <1>8, <1>9, <1>10, <1>11, <1>12

-----------------------------------------------------------------------------
\* A call that was dialled moves on: what hung on its old status is over.
LEMMA WriteStep ==
    ASSUME IInv, NEW c \in Calls, status[c] \in Active,
           NEW s \in {"IN_CALL", "MISSED", "ENDED"}, Write(c, s),
           s = "IN_CALL" => [call |-> c, from |-> s] \in tails',
           tails \subseteq tails', tails' \subseteq Move,
           asks' \subseteq asks, plan' \subseteq plan, left' \subseteq left,
           UNCHANGED <<ends, dials, mark, sweep, faults>>
    PROVE  IInv'
  <1>t. TypeOK
    BY DEF IInv
  <1>1. /\ status' \in [Calls -> Active \cup Final \cup {"none"}] /\ status'[c] = s
        /\ \A d \in Calls : d # c => status'[d] = status[d]
    BY <1>t DEF Write, TypeOK, Active, Final
  <1>2. \A d \in Calls : status'[d] = "none" <=> status[d] = "none"
    BY <1>1 DEF Active
  <1>3. {d \in Calls : status'[d] = "none"} = {d \in Calls : status[d] = "none"}
    BY <1>2
  <1>4. Live \ {c} \subseteq Live'
    BY <1>1 DEF Live
  <1>5. overdue' \subseteq Live' /\ jobs' \subseteq Live'
    BY <1>t, <1>4 DEF Write, TypeOK
  <1>6. TypeOK'
    BY <1>t, <1>1, <1>2, <1>3, <1>5 DEF TypeOK, mark
  <1>7. ClockInv'
    <2> SUFFICES ASSUME NEW d \in Calls, status'[d] \in Active, d \in Live => Clocked(d)
                 PROVE  d \in jobs' \/ [call |-> d, from |-> status'[d]] \in tails'
      BY ClockKept DEF Clocked, Live
    <2>1. CASE d = c
      BY <1>1, <2>1 DEF Active
    <2>2. CASE d # c
      BY <1>1, <2>2 DEF Clocked, Live, Write
    <2> QED BY <2>1, <2>2
  <1> QED BY <1>6, <1>7 DEF IInv, DialInv

LEMMA EndStep ==
    ASSUME IInv, NEW a \in Move, Transition(a), tails' = tails,
           asks' \subseteq asks, plan' \subseteq plan, left' \subseteq left,
           UNCHANGED <<ends, dials, mark, sweep, faults>>
    PROVE  IInv'
  <1>1. a.call \in Calls /\ a.from \in Active /\ TypeOK
    BY DEF Move, IInv
  <1>2. CASE status[a.call] = a.from
    <2>1. Write(a.call, To(a.from)) /\ To(a.from) \in {"MISSED", "ENDED"}
      BY <1>2 DEF Transition, To
    <2> QED BY <1>1, <1>2, <2>1, WriteStep DEF TypeOK
  <1>3. CASE status[a.call] # a.from
    <2>1. UNCHANGED <<status, overdue, jobs>>
      BY <1>3 DEF Transition
    <2> QED BY <1>1, <2>1, RowsStay DEF TypeOK, mark, Clocked
  <1> QED BY <1>2, <1>3

LEMMA DialStep ==
    ASSUME IInv, NEW u \in Users, NEW v \in Users, Dial(u, v)
    PROVE  IInv'
  <1>1. /\ dials' = dials \cup {<<u, v>>}
        /\ UNCHANGED <<rows, clock, asks, mark, sweeper, faults>>
        /\ Cardinality(dials) < Cardinality(Unused)
    BY DEF Dial
  <1>2. /\ IsFiniteSet(dials')
        /\ Cardinality(dials') =
              IF <<u, v>> \in dials THEN Cardinality(dials) ELSE Cardinality(dials) + 1
    BY <1>1, FS_AddElement DEF IInv, DialInv
  <1>3. Cardinality(dials') <= Cardinality(Unused)
    BY <1>1, <1>2, DialsType
  <1>4. Live' = Live /\ Unused' = Unused /\ status' = status
    BY <1>1 DEF Live, Unused, rows
  <1>5. TypeOK'
    BY <1>1, <1>3, <1>4 DEF IInv, TypeOK, Unused, rows, clock, mark, sweeper
  <1>6. ClockInv'
    BY <1>1, <1>4, ClockKept DEF Clocked, clock
  <1>7. DialInv'
    <2>1. u # v
      BY DEF Dial
    <2> QED BY <1>1, <1>2, <2>1 DEF IInv, DialInv
  <1> QED BY <1>5, <1>6, <1>7 DEF IInv

LEMMA InsertStep ==
    ASSUME IInv, NEW d \in dials, Insert(d)
    PROVE  IInv'
  <1> DEFINE c == CHOOSE c \in Unused : TRUE
             t == [call |-> c, from |-> "RINGING"]
  <1>1. /\ TypeOK /\ dials' = dials \ {d} /\ d \in Users \X Users /\ d[1] # d[2]
        /\ UNCHANGED <<overdue, jobs, asks, mark, sweeper, faults>>
    BY DEF IInv, DialInv, TypeOK, Insert
  <1>2. /\ IsFiniteSet(dials') /\ Cardinality(dials') = Cardinality(dials) - 1
        /\ Cardinality(dials) \in Nat /\ Cardinality(dials) >= 1
    <2>1. Cardinality(dials) # 0
      BY FS_EmptySet DEF IInv, DialInv
    <2> QED BY <1>1, <2>1, FS_RemoveElement, FS_CardinalityType DEF IInv, DialInv
  <1>3. DialInv'
    BY <1>1, <1>2 DEF IInv, DialInv
  <1>4. CASE UNCHANGED <<status, ends, tails>>
    <2>1. Live' = Live /\ Unused' = Unused
      BY <1>4 DEF Live, Unused
    <2>2. Cardinality(dials') <= Cardinality({e \in Calls : status'[e] = "none"})
      BY <1>2, <2>1, DialsType DEF Unused
    <2>3. TypeOK'
      BY <1>1, <1>4, <2>1, <2>2 DEF TypeOK, mark, sweeper
    <2>4. ClockInv'
      BY <1>1, <1>4, <2>1, ClockKept DEF Clocked
    <2> QED BY <1>3, <2>3, <2>4 DEF IInv
  <1>5. CASE /\ status' = [status EXCEPT ![c] = "RINGING"]
             /\ ends' = [ends EXCEPT ![c] = d]
             /\ tails' = tails \cup {t}
    <2>1. Unused # {}
      BY <1>2, DialsType, FS_EmptySet
    <2>2. c \in Unused
      BY <2>1
    <2>3. c \in Calls /\ status[c] = "none"
      BY <2>2 DEF Unused
    <2>4. t \in Move
      BY <2>3 DEF Move, Active
    <2> HIDE DEF c
    <2>5. /\ status' \in [Calls -> Active \cup Final \cup {"none"}] /\ status'[c] = "RINGING"
          /\ \A e \in Calls : e # c => status'[e] = status[e]
      BY <1>1, <1>5, <2>3 DEF TypeOK, Active
    <2>6. Live \subseteq Live' /\ Unused' = Unused \ {c}
      BY <2>3, <2>5 DEF Live, Unused, Active
    <2>7. Cardinality(dials') <= Cardinality({e \in Calls : status'[e] = "none"})
      <3>1. Cardinality(Unused') = Cardinality(Unused) - 1
        BY <2>2, <2>6, DialsType, FS_RemoveElement
      <3> QED BY <1>2, <3>1, DialsType DEF Unused
    <2>8. ends' \in [Calls -> (Users \X Users) \cup {<<>>}]
      BY <1>1, <1>5 DEF TypeOK
    <2>9. \A e \in Calls : IF status'[e] = "none" THEN ends'[e] = <<>>
                           ELSE ends'[e] \in Users \X Users /\ ends'[e][1] # ends'[e][2]
      BY <1>1, <1>5, <2>3, <2>5 DEF TypeOK
    <2>10. TypeOK'
      BY <1>1, <1>5, <2>4, <2>5, <2>6, <2>7, <2>8, <2>9 DEF TypeOK, mark, sweeper
    <2>11. ClockInv'
      <3>1. \A e \in Live' : (e \in Live => Clocked(e)) => Clocked(e)'
        BY <1>1, <1>5, <2>5 DEF Clocked, Live
      <3> QED BY <1>1, <3>1, ClockKept
    <2> QED BY <1>3, <2>10, <2>11 DEF IInv
  <1> QED BY <1>4, <1>5 DEF Insert

LEMMA NextIInv == IInv /\ [Next]_vars => IInv'
  <1> SUFFICES ASSUME IInv, [Next]_vars PROVE IInv'
    OBVIOUS
  <1>t. TypeOK
    BY DEF IInv
  <1>1. CASE UNCHANGED vars
    BY <1>1 DEF vars, IInv, TypeOK, DialInv, ClockInv, UnclockedNeedFaults, Unclocked, Clocked, Live
  <1>2. ASSUME NEW u \in Users, NEW v \in Users, Dial(u, v) PROVE IInv'
    BY <1>2, DialStep
  <1>3. ASSUME NEW d \in dials, Insert(d) PROVE IInv'
    BY <1>3, InsertStep
  <1>4. ASSUME NEW u \in Users, NEW c \in Calls, Accept(u, c) PROVE IInv'
    <2>1. tails' \subseteq Move
      BY <1>t, <1>4 DEF Accept, TypeOK, Move, Active
    <2> QED BY <1>t, <1>4, <2>1, WriteStep DEF Accept, sweeper, Active, TypeOK
  <1>5. ASSUME NEW a \in asks, Conclude(a) PROVE IInv'
    <2>1. a \in Move
      BY <1>t DEF TypeOK
    <2> QED BY <1>5, <2>1, EndStep DEF Conclude, sweeper
  <1>6. ASSUME NEW a \in plan, SweepEnd(a) PROVE IInv'
    <2>1. a \in Move
      BY <1>t DEF TypeOK
    <2> QED BY <1>6, <2>1, EndStep DEF SweepEnd
  <1>7. CASE \/ \E c \in Calls : \/ \E u \in Users : Ask(u, c)
                               \/ FindGone(c) \/ Pass(c) \/ RunClock(c) \/ LoseJob(c)
             \/ \E t \in tails : Follow(t) \/ FollowInPart(t)
             \/ SweepDue \/ SweepLive \/ ReadScore \/ Release \/ SweepDies \/ FallQuiet
    BY <1>7, WatchStep
  <1> QED BY <1>1, <1>2, <1>3, <1>4, <1>5, <1>6, <1>7 DEF Next, Sweep

THEOREM Invariance == Spec => []IInv
  BY InitIInv, NextIInv, PTL DEF Spec

\* Rows, requests in flight and clocks keep their types, and clocks and deadlines
\* belong to live calls.
THEOREM TypeCorrect == Spec => []TypeOK
  <1>1. IInv => TypeOK
    BY DEF IInv
  <1> QED BY <1>1, Invariance, PTL

\* Every live call without a clock, queued or about to be, lost it to a failure of
\* its own, whatever the requests, the jobs and the sweep do beside each other.
THEOREM UnclockedByFault == Spec => []UnclockedNeedFaults
  <1>1. IInv => UnclockedNeedFaults
    BY DEF IInv, ClockInv
  <1> QED BY <1>1, Invariance, PTL

\* So no more calls are forgotten, by clock and sweep, than there were failures.
THEOREM ForgottenByFault == Spec => [](Cardinality({c \in Calls : Forgotten(c)}) <= faults)
  <1>1. ASSUME IInv
        PROVE  Cardinality({c \in Calls : Forgotten(c)}) <= faults
    <2> DEFINE F == {c \in Calls : Forgotten(c)}
    <2>1. F \subseteq Unclocked
      BY DEF Forgotten, Unclocked
    <2>2. IsFiniteSet(F) /\ Cardinality(F) <= Cardinality(Unclocked) /\ Cardinality(F) \in Nat
      BY <1>1, <2>1, UnclockedType, FS_Subset, FS_CardinalityType
    <2> HIDE DEF F
    <2> QED BY <1>1, <2>2, UnclockedType DEF F
  <1> QED BY <1>1, Invariance, PTL

-----------------------------------------------------------------------------
LEMMA MovesAlong ==
    ASSUME IInv, [Next]_vars, NEW c \in Calls, status'[c] # status[c]
    PROVE  status'[c] \in Moves(status[c])
  <1>t. TypeOK
    BY DEF IInv
  <1>1. ASSUME NEW a \in Move, Transition(a) PROVE status'[c] \in Moves(status[c])
    <2>1. status[a.call] = a.from /\ status' = [status EXCEPT ![a.call] = To(a.from)]
      BY <1>1 DEF Transition, Write
    <2>2. a.call = c /\ a.from \in Active
      BY <1>t, <2>1 DEF TypeOK, Move
    <2>3. status'[c] = To(status[c]) /\ status[c] \in {"RINGING", "IN_CALL"}
      BY <1>t, <2>1, <2>2 DEF TypeOK, Active
    <2> QED BY <2>3 DEF To, Moves
  <1>2. ASSUME NEW d \in dials, Insert(d) PROVE status'[c] \in Moves(status[c])
    <2> DEFINE e == CHOOSE e \in Unused : TRUE
    <2>1. Unused # {}
      BY <1>2, DialsType, FS_EmptySet, FS_CardinalityType DEF IInv, DialInv
    <2>2. e \in Unused /\ status' = [status EXCEPT ![e] = "RINGING"]
      BY <1>2, <2>1 DEF Insert
    <2> HIDE DEF e
    <2>3. status[c] = "none" /\ status'[c] = "RINGING"
      BY <1>t, <2>2 DEF TypeOK, Unused
    <2> QED BY <2>3 DEF Moves
  <1>3. ASSUME NEW u \in Users, NEW e \in Calls, Accept(u, e)
        PROVE  status'[c] \in Moves(status[c])
    <2>1. status[c] = "RINGING" /\ status'[c] = "IN_CALL"
      BY <1>t, <1>3 DEF Accept, Write, TypeOK
    <2> QED BY <2>1 DEF Moves
  <1>4. \/ \E a \in asks : Conclude(a)
        \/ \E a \in plan : SweepEnd(a)
        \/ \E d \in dials : Insert(d)
        \/ \E u \in Users, e \in Calls : Accept(u, e)
    BY DEF Next, Sweep, vars, rows, Dial, Ask, FindGone, Pass, RunClock, LoseJob, Follow,
           FollowInPart, SweepDue, SweepLive, ReadScore, Release, SweepDies, FallQuiet
  <1> QED BY <1>t, <1>1, <1>2, <1>3, <1>4 DEF TypeOK, Conclude, SweepEnd

\* What has ended never moves again, what was answered never ends as unanswered
\* and nothing skips the ringing, whatever the requests, jobs and sweeps had read.
THEOREM EndsForGood == Spec => EndsOnce
  <1>1. IInv /\ [Next]_vars =>
            [\A c \in Calls : status'[c] # status[c] => status'[c] \in Moves(status[c])]_vars
    BY MovesAlong
  <1> QED BY <1>1, Invariance, PTL DEF Spec, EndsOnce
=============================================================================
