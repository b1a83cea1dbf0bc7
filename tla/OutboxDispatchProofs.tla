------------------------ MODULE OutboxDispatchProofs ------------------------
(***************************************************************************)
(* Safety of the outbox for every registry, number of events, workers,     *)
(* attempts, batch limit, crashes and lost locks.                          *)
(***************************************************************************)
EXTENDS OutboxDispatch, FiniteSetTheorems, TLAPS

USE OutboxAssumption

Busy == {"check", "write", "link", "mark", "fail"}

\* A worker in the loop stands at a handler of a registered event.
PlaceOK ==
    \A w \in Workers :
        IF pc[w] \in Busy
        THEN /\ cur[w] \in Events
             /\ pos[w] \in DOMAIN Registry[cur[w]]
             /\ pc[w] = "link" => Handler(w).kind = "openDossier"
        ELSE cur[w] = NoEvent /\ pos[w] = 1

\* What a worker read about its rows still bounds what it will write.
ReadOK ==
    \A w \in Workers, e \in Events : e \in todo[w] \/ e = cur[w] =>
        log[e] = "committed" /\ seen[w][e] < MaxAttempts

\* The effects of the handlers that have returned are there.
ReturnedOK ==
    \A w \in Workers, i \in Nat :
        /\ pc[w] \in Busy \ {"fail"}
        /\ i \in DOMAIN Registry[cur[w]]
        /\ i < pos[w] \/ pc[w] = "mark"
        => Registry[cur[w]][i].optional \/ Exists(<<cur[w], i>>)

\* AttemptsMatchStatus, with what the rows not settled allow a drain to read.
IInv ==
    /\ TypeOK
    /\ PlaceOK
    /\ ReadOK
    /\ ReturnedOK
    /\ NothingFromUncommitted
    /\ AttemptsMatchStatus
    /\ DoneMeansEffects

-----------------------------------------------------------------------------
LEMMA SlotIsPair ==
    ASSUME NEW s \in Slots
    PROVE  /\ s = <<s[1], s[2]>>
           /\ s[1] \in Events
           /\ s[2] \in DOMAIN Registry[s[1]]
           /\ s[2] \in Nat
           /\ Registry[s[1]][s[2]] \in Handlers
  <1>1. PICK e \in Events : s \in {e} \X DOMAIN Registry[e]
    BY DEF Slots
  <1>2. s = <<e, s[2]>> /\ s[2] \in DOMAIN Registry[e] /\ s[1] = e
    BY <1>1
  <1>3. Registry[e] \in Seq(Handlers)
    OBVIOUS
  <1> QED BY <1>2, <1>3

LEMMA PairIsSlot ==
    ASSUME NEW e \in Events, NEW i \in DOMAIN Registry[e]
    PROVE  /\ <<e, i>> \in Slots
           /\ Registry[e][i] \in Handlers
           /\ i \in Nat \ {0}
  <1>1. <<e, i>> \in {e} \X DOMAIN Registry[e]
    OBVIOUS
  <1>2. Registry[e] \in Seq(Handlers)
    OBVIOUS
  <1> QED BY <1>1, <1>2 DEF Slots

LEMMA NoEventIsNone == NoEvent \notin Events
  BY DEF NoEvent, Events

LEMMA RowDone ==
    ASSUME NEW r \in Row
    PROVE  /\ [r EXCEPT !.status = "DONE"] \in Row
           /\ [r EXCEPT !.status = "DONE"].status = "DONE"
  BY DEF Row

LEMMA InitIInv == Init => IInv
  <1> SUFFICES ASSUME Init PROVE IInv
    OBVIOUS
  <1> USE DEF Init, NoEvent
  <1>1. TypeOK
    BY DEF TypeOK, Row, PCs, Events
  <1>2. PlaceOK /\ ReturnedOK
    BY DEF PlaceOK, ReturnedOK, Busy
  <1>3. ReadOK
    BY DEF ReadOK, Events
  <1>4. NothingFromUncommitted /\ AttemptsMatchStatus
    BY DEF NothingFromUncommitted, AttemptsMatchStatus, Events
  <1>5. DoneMeansEffects
    BY SlotIsPair DEF DoneMeansEffects
  <1> QED BY <1>1, <1>2, <1>3, <1>4, <1>5 DEF IInv

-----------------------------------------------------------------------------
\* Steps that leave the outbox, the effects and the drains alone.
LEMMA IdleStep ==
    ASSUME IInv, TypeOK', UNCHANGED <<log, disp, made, linked, pc, todo, cur, pos, seen>>
    PROVE  IInv'
  <1> USE DEF IInv
  <1>1. PlaceOK' /\ ReadOK'
    BY DEF PlaceOK, ReadOK, Handler
  <1>2. ReturnedOK'
    BY DEF ReturnedOK, Exists
  <1>3. NothingFromUncommitted' /\ AttemptsMatchStatus'
    BY DEF NothingFromUncommitted, AttemptsMatchStatus
  <1>4. DoneMeansEffects'
    BY DEF DoneMeansEffects, Exists
  <1> QED BY <1>1, <1>2, <1>3, <1>4

\* Steps of the emitting services: only the event log moves, and no event
\* that was committed changes.
LEMMA ServiceStep ==
    ASSUME IInv, NEW e \in Events, log[e] \in {"none", "open"},
           NEW v \in {"open", "committed", "rolledback"},
           log' = [log EXCEPT ![e] = v],
           UNCHANGED <<disp, effects, job, pc, mind, alarm, faults>>
    PROVE  IInv'
  <1> USE DEF IInv, effects, mind, alarm, faults
  <1>1. TypeOK'
    BY DEF TypeOK
  <1>2. PlaceOK'
    BY DEF PlaceOK, Handler
  <1>3. ReadOK'
    BY DEF ReadOK, TypeOK
  <1>4. ReturnedOK'
    BY DEF ReturnedOK, Exists
  <1>5. NothingFromUncommitted'
    BY DEF NothingFromUncommitted, TypeOK
  <1>6. AttemptsMatchStatus' /\ DoneMeansEffects'
    BY DEF AttemptsMatchStatus, DoneMeansEffects, Exists
  <1> QED BY <1>1, <1>2, <1>3, <1>4, <1>5, <1>6

\* A worker leaves dispatchPending, having written nothing.
LEMMA LeaveStep ==
    ASSUME IInv, TypeOK', NEW w \in Workers, Leave(w),
           UNCHANGED <<log, disp, made, linked>>
    PROVE  IInv'
  <1> USE DEF IInv, Leave
  <1>1. PlaceOK'
    BY DEF PlaceOK, Busy, TypeOK, Handler
  <1>2. ReadOK'
    <2> SUFFICES ASSUME NEW v \in Workers, NEW e \in Events, (e \in todo[v] \/ e = cur[v])'
                 PROVE  (log[e] = "committed" /\ seen[v][e] < MaxAttempts)'
      BY DEF ReadOK
    <2>1. v # w
      BY DEF TypeOK, NoEvent, Events
    <2> QED BY <2>1 DEF ReadOK, TypeOK
  <1>3. ReturnedOK'
    BY DEF ReturnedOK, Exists, Busy, TypeOK
  <1>4. NothingFromUncommitted' /\ AttemptsMatchStatus' /\ DoneMeansEffects'
    BY DEF NothingFromUncommitted, AttemptsMatchStatus, DoneMeansEffects, Exists
  <1> QED BY <1>1, <1>2, <1>3, <1>4

LEMMA TakeStep ==
    ASSUME IInv, NEW w \in Workers, Take(w)
    PROVE  IInv'
  <1> USE DEF IInv, Take, outbox, effects, alarm, faults
  <1>1. TypeOK'
    <2>1. Batch \in SUBSET Events
      BY DEF Batch, Pending
    <2>2. [e \in Events |-> disp[e].attempts] \in [Events -> 0 .. MaxAttempts]
      BY DEF TypeOK, Row
    <2> QED BY <2>1, <2>2 DEF TypeOK, PCs
  <1>2. PlaceOK'
    BY DEF PlaceOK, Busy, TypeOK, Handler
  <1>3. ReadOK'
    <2> SUFFICES ASSUME NEW v \in Workers, NEW e \in Events, (e \in todo[v] \/ e = cur[v])'
                 PROVE  (log[e] = "committed" /\ seen[v][e] < MaxAttempts)'
      BY DEF ReadOK
    <2>1. CASE v # w
      BY <2>1 DEF ReadOK, TypeOK
    <2>2. CASE v = w /\ e \in Batch
      <3>1. log[e] = "committed" /\ disp[e].attempts < MaxAttempts
        BY <2>2 DEF Batch, Pending, AttemptsMatchStatus
      <3> QED BY <2>2, <3>1 DEF TypeOK
    <2>3. CASE v = w /\ e = cur[w]
      BY <2>3, NoEventIsNone DEF PlaceOK, Busy
    <2> QED BY <2>1, <2>2, <2>3 DEF TypeOK
  <1>4. ReturnedOK'
    <2>1. pc'[w] \notin Busy /\ \A v \in Workers : v # w =>
              pc'[v] = pc[v] /\ pos'[v] = pos[v] /\ cur'[v] = cur[v]
      BY DEF Busy, TypeOK
    <2>2. UNCHANGED <<made, linked>>
      OBVIOUS
    <2> QED BY <2>1, <2>2 DEF ReturnedOK, Exists
  <1>5. NothingFromUncommitted' /\ AttemptsMatchStatus' /\ DoneMeansEffects'
    BY DEF NothingFromUncommitted, AttemptsMatchStatus, DoneMeansEffects, Exists
  <1> QED BY <1>1, <1>2, <1>3, <1>4, <1>5

LEMMA NextEventStep ==
    ASSUME IInv, NEW w \in Workers, NextEvent(w)
    PROVE  IInv'
  <1> USE DEF IInv, effects, alarm, faults
  <1>1. PICK e \in Events :
          /\ IsNext(w, e)
          /\ todo' = [todo EXCEPT ![w] = @ \ {e}]
          /\ IF Registry[e] = <<>>
             THEN MarkRowDone(e) /\ UNCHANGED <<pc, cur, pos>>
             ELSE /\ pc' = [pc EXCEPT ![w] = "check"]
                  /\ cur' = [cur EXCEPT ![w] = e]
                  /\ UNCHANGED <<disp, pos>>
    BY DEF NextEvent
  <1>2. pc[w] = "next" /\ cur[w] = NoEvent /\ pos[w] = 1
        /\ UNCHANGED <<log, made, linked, job, seen, died, notified, reported, crashes, stalls>>
    BY DEF NextEvent, PlaceOK, Busy
  <1>3. log[e] = "committed" /\ seen[w][e] < MaxAttempts
    BY <1>1 DEF IsNext, ReadOK
  <1>4. CASE Registry[e] = <<>>
    <2>1. disp' = [disp EXCEPT ![e] = [disp[e] EXCEPT !.status = "DONE"]]
          /\ UNCHANGED <<pc, cur, pos>>
      BY <1>1, <1>4 DEF MarkRowDone, Write
    <2>2. TypeOK'
      <3>1. disp' \in [Events -> Row]
        BY <2>1, RowDone DEF TypeOK
      <3> QED BY <1>1, <1>2, <2>1, <3>1 DEF TypeOK
    <2>3. PlaceOK' /\ ReadOK'
      BY <1>1, <1>2, <2>1 DEF PlaceOK, ReadOK, TypeOK, Handler
    <2>4. ReturnedOK'
      BY <1>2, <2>1 DEF ReturnedOK, Exists
    <2>5. NothingFromUncommitted' /\ AttemptsMatchStatus'
      BY <1>2, <1>3, <2>1 DEF NothingFromUncommitted, AttemptsMatchStatus, TypeOK, Row
    <2>6. DoneMeansEffects'
      <3>1. \A s \in Slots : s[1] # e
        BY <1>4, SlotIsPair
      <3> QED BY <1>2, <2>1, <3>1, SlotIsPair DEF DoneMeansEffects, Exists, TypeOK
    <2> QED BY <2>2, <2>3, <2>4, <2>5, <2>6
  <1>5. CASE Registry[e] # <<>>
    <2>1. pc' = [pc EXCEPT ![w] = "check"] /\ cur' = [cur EXCEPT ![w] = e]
          /\ UNCHANGED <<disp, pos>>
      BY <1>1, <1>5
    <2>2. 1 \in DOMAIN Registry[e]
      BY <1>5
    <2>3. TypeOK'
      BY <1>1, <1>2, <2>1 DEF TypeOK, PCs
    <2>4. PlaceOK'
      BY <1>2, <2>1, <2>2 DEF PlaceOK, Busy, TypeOK, Handler
    <2>5. ReadOK'
      BY <1>1, <1>2, <1>3, <2>1 DEF ReadOK, TypeOK
    <2>6. ReturnedOK'
      BY <1>2, <2>1, PairIsSlot DEF ReturnedOK, Exists, TypeOK, Busy
    <2>7. NothingFromUncommitted' /\ AttemptsMatchStatus' /\ DoneMeansEffects'
      BY <1>2, <2>1 DEF NothingFromUncommitted, AttemptsMatchStatus, DoneMeansEffects, Exists
    <2> QED BY <2>3, <2>4, <2>5, <2>6, <2>7
  <1> QED BY <1>4, <1>5

\* A handler returns with its effect in place: the next one runs.
LEMMA AdvanceStep ==
    ASSUME IInv, NEW w \in Workers, pc[w] \in {"check", "write", "link"}, Advance(w),
           UNCHANGED <<log, disp, job, todo, cur, seen, died, alarm, faults>>,
           made' \in [Slots -> Nat], linked' \in SUBSET Slots,
           \A s \in Slots : Exists(s) => Exists(s)',
           NEW t \in Slots, t = Slot(w),
           \A s \in Slots : s # t => (s \in linked' => s \in linked) /\ made'[s] = made[s],
           Handler(w).optional \/ Exists(t)'
    PROVE  IInv'
  <1> USE DEF IInv, alarm, faults
  <1>1. cur[w] \in Events /\ pos[w] \in DOMAIN Registry[cur[w]] /\ log[cur[w]] = "committed"
    BY DEF PlaceOK, Busy, ReadOK
  <1>2. /\ Registry[cur[w]] \in Seq(Handlers)
        /\ DOMAIN Registry[cur[w]] = 1 .. Len(Registry[cur[w]])
        /\ Len(Registry[cur[w]]) \in Nat
        /\ pos[w] \in Nat \ {0}
    BY <1>1 DEF TypeOK
  <1>3. \/ /\ pos[w] < Len(Registry[cur[w]])
           /\ pos' = [pos EXCEPT ![w] = @ + 1]
           /\ pc' = [pc EXCEPT ![w] = "check"]
        \/ /\ pos[w] = Len(Registry[cur[w]])
           /\ pc' = [pc EXCEPT ![w] = "mark"]
           /\ pos' = pos
    BY <1>1, <1>2 DEF Advance
  <1>4. TypeOK'
    <2>1. pos[w] + 1 \in Nat \ {0}
      BY <1>2
    <2>2. pos' \in [Workers -> Nat \ {0}]
      BY <1>3, <2>1 DEF TypeOK
    <2>3. pc' \in [Workers -> PCs]
      BY <1>3 DEF TypeOK, PCs
    <2> QED BY <2>2, <2>3 DEF TypeOK
  <1>5. PlaceOK'
    <2>1. /\ pc'[w] \in {"check", "mark"}
          /\ pos'[w] \in DOMAIN Registry[cur[w]]
      BY <1>1, <1>2, <1>3 DEF TypeOK
    <2>2. \A v \in Workers : v # w => pc'[v] = pc[v] /\ pos'[v] = pos[v]
      BY <1>3 DEF TypeOK
    <2> QED BY <1>1, <2>1, <2>2 DEF PlaceOK, Busy, Handler
  <1>6. ReadOK' /\ AttemptsMatchStatus'
    BY DEF ReadOK, AttemptsMatchStatus
  <1>7. ReturnedOK'
    <2> SUFFICES ASSUME NEW v \in Workers, NEW i \in Nat,
                        pc'[v] \in Busy \ {"fail"},
                        i \in DOMAIN Registry[cur[v]],
                        i < pos'[v] \/ pc'[v] = "mark"
                 PROVE  Registry[cur[v]][i].optional \/ Exists(<<cur[v], i>>)'
      BY DEF ReturnedOK
    <2>1. cur[v] \in Events
      BY <1>1, <1>3, NoEventIsNone DEF TypeOK, PlaceOK, Busy
    <2>2. <<cur[v], i>> \in Slots
      BY <2>1, PairIsSlot
    <2>3. CASE v # w
      BY <1>3, <2>2, <2>3 DEF ReturnedOK, TypeOK
    <2>4. CASE v = w /\ i = pos[w]
      <3>1. t = <<cur[v], i>> /\ Handler(w) = Registry[cur[v]][i]
        BY <2>4 DEF Handler, Slot
      <3> QED BY <3>1
    <2>5. CASE v = w /\ i # pos[w]
      <3>1. i < pos[w]
        BY <1>2, <1>3, <2>5 DEF TypeOK
      <3> QED BY <2>2, <2>5, <3>1 DEF ReturnedOK, Busy
    <2> QED BY <2>3, <2>4, <2>5
  <1>8. NothingFromUncommitted'
    <2>1. t[1] = cur[w]
      BY DEF Slot
    <2> QED BY <1>1, <2>1 DEF NothingFromUncommitted
  <1>9. DoneMeansEffects'
    BY DEF DoneMeansEffects
  <1> QED BY <1>4, <1>5, <1>6, <1>7, <1>8, <1>9

\* A worker in the loop changes its place without returning from a handler.
LEMMA PlaceStep ==
    ASSUME IInv, NEW w \in Workers, pc[w] \in Busy, NEW q \in Busy \ {"mark"},
           pc[w] = "mark" => q = "fail", pc[w] = "fail" => q = "fail",
           q = "link" => Handler(w).kind = "openDossier",
           pc' = [pc EXCEPT ![w] = q],
           UNCHANGED <<log, disp, job, mind, alarm, faults>>,
           made' \in [Slots -> Nat], linked' = linked,
           \A s \in Slots : Exists(s) => Exists(s)',
           NEW t \in Slots, t = Slot(w),
           \A s \in Slots : s # t => made'[s] = made[s]
    PROVE  IInv'
  <1> USE DEF IInv, mind, alarm, faults, Busy
  <1>1. cur[w] \in Events /\ pos[w] \in DOMAIN Registry[cur[w]] /\ log[cur[w]] = "committed"
    BY DEF PlaceOK, ReadOK
  <1>2. TypeOK'
    BY DEF TypeOK, PCs
  <1>3. PlaceOK' /\ ReadOK' /\ AttemptsMatchStatus'
    BY DEF PlaceOK, ReadOK, AttemptsMatchStatus, TypeOK, Handler
  <1>4. ReturnedOK'
    <2> SUFFICES ASSUME NEW v \in Workers, NEW i \in Nat,
                        pc'[v] \in Busy \ {"fail"},
                        i \in DOMAIN Registry[cur[v]],
                        i < pos[v] \/ pc'[v] = "mark"
                 PROVE  Registry[cur[v]][i].optional \/ Exists(<<cur[v], i>>)'
      BY DEF ReturnedOK
    <2>1. pc[v] \in Busy \ {"fail"} /\ (i < pos[v] \/ pc[v] = "mark")
      BY DEF TypeOK
    <2>2. cur[v] \in Events
      BY <2>1 DEF PlaceOK
    <2> QED BY <2>1, <2>2, PairIsSlot DEF ReturnedOK
  <1>5. NothingFromUncommitted'
    <2>1. t[1] = cur[w]
      BY DEF Slot
    <2> QED BY <1>1, <2>1 DEF NothingFromUncommitted
  <1>6. DoneMeansEffects'
    BY DEF DoneMeansEffects
  <1> QED BY <1>2, <1>3, <1>4, <1>5, <1>6

LEMMA CheckStep ==
    ASSUME IInv, NEW w \in Workers, CheckHandler(w)
    PROVE  IInv'
  <1> USE DEF IInv, CheckHandler, outbox, effects, alarm, faults
  <1>1. Slot(w) \in Slots
    BY PairIsSlot DEF PlaceOK, Busy, Slot
  <1>2. UNCHANGED <<made, linked>> /\ made \in [Slots -> Nat] /\ linked \in SUBSET Slots
    BY DEF TypeOK
  <1>3. \A s \in Slots : Exists(s) <=> Exists(s)'
    BY <1>2 DEF Exists
  <1> DEFINE t == Slot(w)
  <1>4. CASE (Handler(w).optional \/ Exists(t)) /\ Advance(w)
    <2>1. PICK u \in Slots : u = t
      BY <1>1
    <2>2. Handler(w).optional \/ Exists(u)'
      BY <1>3, <1>4, <2>1
    <2> HIDE DEF t, IInv
    <2> QED BY <1>2, <1>3, <1>4, <2>1, <2>2, AdvanceStep DEF t
  <1>5. CASE pc' = [pc EXCEPT ![w] = "write"] /\ UNCHANGED pos
    <2>1. PICK u \in Slots : u = t
      BY <1>1
    <2> HIDE DEF t, IInv
    <2> QED BY <1>2, <1>3, <1>5, <2>1, PlaceStep DEF t, Busy, mind
  <1> QED BY <1>4, <1>5

LEMMA WriteStep ==
    ASSUME IInv, NEW w \in Workers, WriteHandler(w)
    PROVE  IInv'
  <1> USE DEF outbox, effects, alarm, faults
  <1>1. PICK t \in Slots : t = Slot(w)
    BY PairIsSlot DEF IInv, WriteHandler, PlaceOK, Busy, Slot
  <1>2. /\ Handler(w) = Registry[t[1]][t[2]]
        /\ made \in [Slots -> Nat] /\ linked \in SUBSET Slots
        /\ pc[w] = "write" /\ pc[w] \in Busy
        /\ UNCHANGED <<log, disp, linked, job, todo, cur, seen, died, alarm, faults>>
    BY <1>1 DEF IInv, TypeOK, Slot, Handler, WriteHandler, Busy
  <1>3. CASE Handler(w).kind = "sourceRef" /\ made[t] > 0
    <2>1. pc' = [pc EXCEPT ![w] = "fail"] /\ UNCHANGED <<made, pos>>
      BY <1>1, <1>3 DEF WriteHandler
    <2>2. \A s \in Slots : Exists(s) => Exists(s)'
      BY <1>2, <2>1 DEF Exists
    <2> QED BY <1>1, <1>2, <2>1, <2>2, PlaceStep DEF Busy, mind
  <1>4. CASE ~ (Handler(w).kind = "sourceRef" /\ made[t] > 0)
    <2>1. /\ made' = [made EXCEPT ![t] = @ + 1]
          /\ IF Handler(w).kind = "openDossier"
             THEN pc' = [pc EXCEPT ![w] = "link"] /\ UNCHANGED pos
             ELSE Advance(w)
      BY <1>1, <1>4 DEF WriteHandler
    <2>2. made[t] \in Nat
      BY <1>2
    <2>3. /\ made' \in [Slots -> Nat]
          /\ \A s \in Slots : s # t => made'[s] = made[s]
          /\ \A s \in Slots : made[s] > 0 => made'[s] > 0
          /\ made'[t] > 0
      BY <1>2, <2>1, <2>2
    <2>4. \A s \in Slots : Exists(s) => Exists(s)'
      BY <1>2, <2>3 DEF Exists
    <2>5. CASE Handler(w).kind = "openDossier"
      BY <1>1, <1>2, <2>1, <2>3, <2>4, <2>5, PlaceStep DEF Busy, mind
    <2>6. CASE Handler(w).kind # "openDossier"
      <3>1. Exists(t)'
        BY <1>2, <2>3, <2>6 DEF Exists
      <3> QED BY <1>1, <1>2, <2>1, <2>3, <2>4, <2>6, <3>1, AdvanceStep
    <2> QED BY <2>5, <2>6
  <1> QED BY <1>3, <1>4

LEMMA LinkStep ==
    ASSUME IInv, NEW w \in Workers, LinkHandler(w)
    PROVE  IInv'
  <1> USE DEF outbox, alarm, faults
  <1>1. PICK t \in Slots : t = Slot(w)
    BY PairIsSlot DEF IInv, LinkHandler, PlaceOK, Busy, Slot
  <1>2. /\ made \in [Slots -> Nat] /\ linked \in SUBSET Slots
        /\ pc[w] = "link" /\ Advance(w) /\ linked' = linked \cup {t}
        /\ UNCHANGED <<log, disp, made, job, todo, cur, seen, died, alarm, faults>>
    BY <1>1 DEF IInv, TypeOK, LinkHandler
  <1>3. \A s \in Slots : Exists(s) => Exists(s)'
    BY <1>2 DEF Exists
  <1>4. Handler(w).optional \/ Exists(t)'
    \* Only a handler that links its record gets here.
    <2>1. Registry[t[1]][t[2]].kind = "openDossier"
      BY <1>1, <1>2 DEF IInv, PlaceOK, Busy, Slot, Handler
    <2> QED BY <1>2, <2>1 DEF Exists
  <1> QED BY <1>1, <1>2, <1>3, <1>4, AdvanceStep

LEMMA ThrowStep ==
    ASSUME IInv, NEW w \in Workers, Throw(w)
    PROVE  IInv'
  <1> USE DEF outbox, effects
  <1>1. PICK t \in Slots : t = Slot(w)
    BY PairIsSlot DEF IInv, Throw, PlaceOK, Busy, Slot
  <1>2. /\ made \in [Slots -> Nat] /\ pc[w] \in Busy
        /\ pc' = [pc EXCEPT ![w] = "fail"]
        /\ UNCHANGED <<log, disp, made, linked, job, mind, alarm, faults>>
    BY DEF IInv, TypeOK, Throw, Busy
  <1>3. \A s \in Slots : Exists(s) => Exists(s)'
    BY <1>2 DEF Exists
  <1> QED BY <1>1, <1>2, <1>3, PlaceStep DEF Busy

\* Writing the row of the current event, and moving on to the next one.
LEMMA RowStep ==
    ASSUME IInv, NEW w \in Workers, pc[w] \in {"mark", "fail"}, NextRow(w),
           NEW r \in Row, disp' = [disp EXCEPT ![cur[w]] = r],
           r.status = "FAILED" => r.attempts \in 1 .. MaxAttempts - 1,
           r.status = "DEAD" => r.attempts = MaxAttempts,
           r.status # "none",
           r.status = "DONE" => pc[w] = "mark",
           UNCHANGED <<log, made, linked, job, todo, seen, alarm, faults>>,
           died' \in [Workers -> BOOLEAN]
    PROVE  IInv'
  <1> USE DEF IInv, NextRow, alarm, faults
  <1>1. cur[w] \in Events /\ log[cur[w]] = "committed"
    BY DEF PlaceOK, Busy, ReadOK
  <1>2. TypeOK'
    <2>1. disp' \in [Events -> Row]
      BY DEF TypeOK
    <2>2. pc' \in [Workers -> PCs]
      BY DEF TypeOK, PCs
    <2>3. pos' \in [Workers -> Nat \ {0}] /\ cur' \in [Workers -> Events \cup {NoEvent}]
      BY DEF TypeOK
    <2> QED BY <2>1, <2>2, <2>3 DEF TypeOK
  <1>3. PlaceOK'
    BY DEF PlaceOK, Busy, TypeOK, Handler
  <1>4. ReadOK'
    BY NoEventIsNone DEF ReadOK, TypeOK
  <1>5. ReturnedOK'
    BY DEF ReturnedOK, Exists, Busy, TypeOK
  <1>6. NothingFromUncommitted'
    BY <1>1 DEF NothingFromUncommitted, TypeOK
  <1>7. AttemptsMatchStatus'
    BY <1>1 DEF AttemptsMatchStatus, TypeOK
  <1>8. DoneMeansEffects'
    <2> SUFFICES ASSUME NEW s \in Slots, disp'[s[1]].status = "DONE",
                        ~ Registry[s[1]][s[2]].optional
                 PROVE  Exists(s)
      BY DEF DoneMeansEffects, Exists
    <2>1. CASE s[1] # cur[w]
      BY <2>1, SlotIsPair DEF DoneMeansEffects, TypeOK
    <2>2. CASE s[1] = cur[w]
      <3>1. pc[w] = "mark" /\ s = <<cur[w], s[2]>> /\ s[2] \in Nat
            /\ s[2] \in DOMAIN Registry[cur[w]]
        BY <1>1, <2>2, SlotIsPair DEF TypeOK
      <3> QED BY <2>2, <3>1 DEF ReturnedOK, Busy
    <2> QED BY <2>1, <2>2
  <1> QED BY <1>2, <1>3, <1>4, <1>5, <1>6, <1>7, <1>8

LEMMA MarkDoneStep ==
    ASSUME IInv, NEW w \in Workers, MarkDone(w)
    PROVE  IInv'
  <1> USE DEF MarkDone, MarkRowDone, Write, effects
  <1>1. cur[w] \in Events /\ disp[cur[w]] \in Row
    BY DEF IInv, TypeOK, PlaceOK, Busy
  <1>2. PICK r \in Row : r = [disp[cur[w]] EXCEPT !.status = "DONE"]
    BY <1>1, RowDone
  <1>3. r.status = "DONE"
    BY <1>1, <1>2, RowDone
  <1>4. died' \in [Workers -> BOOLEAN]
    BY DEF IInv, TypeOK
  <1> QED BY <1>2, <1>3, <1>4, RowStep

LEMMA MarkFailedStep ==
    ASSUME IInv, NEW w \in Workers, MarkFailed(w)
    PROVE  IInv'
  <1> USE DEF MarkFailed, Write, effects
  <1>1. cur[w] \in Events /\ seen[w][cur[w]] \in 0 .. MaxAttempts - 1
    BY DEF IInv, TypeOK, PlaceOK, ReadOK, Busy
  <1>2. PICK r \in Row : r = FailedRow(seen[w][cur[w]] + 1)
    BY <1>1 DEF FailedRow, Row
  <1>3. /\ r.status = "FAILED" => r.attempts \in 1 .. MaxAttempts - 1
        /\ r.status = "DEAD" => r.attempts = MaxAttempts
        /\ r.status \in {"FAILED", "DEAD"}
    <2> DEFINE n == seen[w][cur[w]] + 1
    <2>1. n \in 1 .. MaxAttempts
      BY <1>1
    <2>2. r = [status |-> IF n >= MaxAttempts THEN "DEAD" ELSE "FAILED", attempts |-> n]
      BY <1>2 DEF FailedRow
    <2> HIDE DEF n
    <2> QED BY <2>1, <2>2
  <1>4. died' \in [Workers -> BOOLEAN]
    BY DEF IInv, TypeOK
  <1> QED BY <1>2, <1>3, <1>4, RowStep

LEMMA ReleaseType ==
    ASSUME TypeOK, NEW w \in Workers, NEW q \in {"absent", "waiting"}, Release(w, q)
    PROVE  job' \in [state : {"absent", "waiting", "active"}, owner : Workers \cup {NoWorker}]
  BY DEF Release, TypeOK

LEMMA LeaveType ==
    ASSUME TypeOK, NEW w \in Workers, Leave(w)
    PROVE  /\ pc' \in [Workers -> PCs]
           /\ todo' \in [Workers -> SUBSET Events]
           /\ cur' \in [Workers -> Events \cup {NoEvent}]
           /\ pos' \in [Workers -> Nat \ {0}]
           /\ seen' \in [Workers -> [Events -> 0 .. MaxAttempts]]
           /\ died' \in [Workers -> BOOLEAN]
  <1>1. [e \in Events |-> 0] \in [Events -> 0 .. MaxAttempts]
    OBVIOUS
  <1> QED BY <1>1 DEF Leave, TypeOK, PCs

LEMMA EndOfBatchStep ==
    ASSUME IInv, NEW w \in Workers, EndOfBatch(w)
    PROVE  IInv'
  <1> USE DEF IInv, EndOfBatch, outbox, effects, mind, alarm, faults
  <1>1. TypeOK'
    BY DEF TypeOK, PCs
  <1>2. PlaceOK'
    BY DEF PlaceOK, Busy, TypeOK, Handler
  <1>3. ReadOK' /\ AttemptsMatchStatus'
    BY DEF ReadOK, AttemptsMatchStatus
  <1>4. ReturnedOK'
    BY DEF ReturnedOK, Exists, Busy, TypeOK
  <1>5. NothingFromUncommitted' /\ DoneMeansEffects'
    BY DEF NothingFromUncommitted, DoneMeansEffects, Exists
  <1> QED BY <1>1, <1>2, <1>3, <1>4, <1>5

LEMMA CensusStep ==
    ASSUME IInv, NEW w \in Workers, Census(w)
    PROVE  IInv'
  <1>1. /\ Leave(w) /\ Release(w, "absent")
        /\ UNCHANGED <<log, disp, made, linked, crashes, stalls>>
        /\ TypeOK
    BY DEF Census, outbox, effects, faults, IInv
  <1>2. notified' \in [Workers -> BOOLEAN] /\ reported' \in SUBSET Events
    BY <1>1 DEF Census, alarm, Dead, TypeOK
  <1>3. TypeOK'
    BY <1>1, <1>2, LeaveType, ReleaseType DEF TypeOK
  <1> QED BY <1>1, <1>3, LeaveStep

LEMMA StopStep ==
    ASSUME IInv, NEW w \in Workers, CensusFails(w) \/ Crash(w) \/ Abort(w)
    PROVE  IInv'
  <1> USE DEF outbox, effects, alarm, faults
  <1>1. /\ Leave(w) /\ TypeOK
        /\ crashes < MaxCrashes /\ crashes' = crashes + 1
        /\ UNCHANGED <<log, disp, made, linked, reported, stalls>>
    BY DEF CensusFails, Crash, Abort, Stop, IInv
  <1>2. notified' \in [Workers -> BOOLEAN]
    BY <1>1 DEF CensusFails, Crash, Abort, TypeOK
  <1>3. job' \in [state : {"absent", "waiting", "active"}, owner : Workers \cup {NoWorker}]
    <2>1. CASE CensusFails(w) \/ Abort(w)
      BY <1>1, <2>1, ReleaseType DEF CensusFails, Abort
    <2>2. CASE Crash(w)
      BY <1>1, <2>2 DEF Crash, TypeOK
    <2> QED BY <2>1, <2>2
  <1>4. TypeOK'
    <2>1. crashes' \in 0 .. MaxCrashes
      BY <1>1 DEF TypeOK
    <2> QED BY <1>1, <1>2, <1>3, <2>1, LeaveType DEF TypeOK
  <1> QED BY <1>1, <1>4, LeaveStep

LEMMA NextIInv == IInv /\ [Next]_vars => IInv'
  <1> SUFFICES ASSUME IInv, [Next]_vars PROVE IInv'
    OBVIOUS
  <1> USE DEF outbox, effects, mind, alarm, faults
  <1> HIDE DEF IInv
  <1>0. TypeOK
    BY DEF IInv
  <1>1. ASSUME NEW e \in Events, InsertEvent(e) PROVE IInv'
    BY <1>1, ServiceStep DEF InsertEvent
  <1>2. ASSUME NEW e \in Events, NEW outcome \in {"committed", "rolledback"},
               EndTransaction(e, outcome)
        PROVE  IInv'
    BY <1>2, ServiceStep DEF EndTransaction
  <1>3. CASE Tick
    <2>1. TypeOK'
      BY <1>0, <1>3 DEF Tick, TypeOK
    <2> QED BY <1>3, <2>1, IdleStep DEF Tick
  <1>4. CASE LoseLock
    <2>1. TypeOK'
      BY <1>0, <1>4 DEF LoseLock, TypeOK
    <2> QED BY <1>4, <2>1, IdleStep DEF LoseLock
  <1>5. ASSUME NEW w \in Workers, Take(w) PROVE IInv'
    BY <1>5, TakeStep
  <1>6. ASSUME NEW w \in Workers, Drain(w) PROVE IInv'
    <2>1. CASE NextEvent(w)
      BY <2>1, NextEventStep
    <2>2. CASE CheckHandler(w)
      BY <2>2, CheckStep
    <2>3. CASE WriteHandler(w)
      BY <2>3, WriteStep
    <2>4. CASE LinkHandler(w)
      BY <2>4, LinkStep
    <2>5. CASE MarkDone(w)
      BY <2>5, MarkDoneStep
    <2>6. CASE MarkFailed(w)
      BY <2>6, MarkFailedStep
    <2>7. CASE EndOfBatch(w)
      BY <2>7, EndOfBatchStep
    <2>8. CASE Census(w)
      BY <2>8, CensusStep
    <2> QED BY <1>6, <2>1, <2>2, <2>3, <2>4, <2>5, <2>6, <2>7, <2>8 DEF Drain
  <1>7. ASSUME NEW w \in Workers, Throw(w) PROVE IInv'
    BY <1>7, ThrowStep
  <1>8. ASSUME NEW w \in Workers, CensusFails(w) \/ Crash(w) \/ Abort(w) PROVE IInv'
    BY <1>8, StopStep
  <1>9. ASSUME NEW w \in Workers, DayPasses(w) PROVE IInv'
    <2>1. TypeOK'
      BY <1>0, <1>9 DEF DayPasses, TypeOK
    <2> QED BY <1>9, <2>1, IdleStep DEF DayPasses
  <1>10. CASE UNCHANGED vars
    <2>1. TypeOK'
      BY <1>0, <1>10 DEF vars, TypeOK
    <2> QED BY <1>10, <2>1, IdleStep DEF vars
  <1> QED
    BY <1>1, <1>2, <1>3, <1>4, <1>5, <1>6, <1>7, <1>8, <1>9, <1>10 DEF Next

-----------------------------------------------------------------------------
\* The invariant of the outbox: the sum of the steps above.
THEOREM Invariance == Spec => []IInv
  BY InitIInv, NextIInv, PTL DEF Spec

\* Every variable of the outbox keeps its type.
THEOREM TypeCorrect == Spec => []TypeOK
  <1>1. IInv => TypeOK
    BY DEF IInv
  <1> QED BY Invariance, <1>1, PTL

\* An event marked DONE has every effect its handlers owe it, with any number
\* of overlapping drains, crashes and retries.
THEOREM DoneIsComplete == Spec => []DoneMeansEffects
  <1>1. IInv => DoneMeansEffects
    BY DEF IInv
  <1> QED BY Invariance, <1>1, PTL

\* A business transaction that has not committed triggers nothing.
THEOREM OnlyCommittedEvents == Spec => []NothingFromUncommitted
  <1>1. IInv => NothingFromUncommitted
    BY DEF IInv
  <1> QED BY Invariance, <1>1, PTL

\* FAILED and DEAD agree with the number of attempts spent.
THEOREM AttemptsAgree == Spec => []AttemptsMatchStatus
  <1>1. IInv => AttemptsMatchStatus
    BY DEF IInv
  <1> QED BY Invariance, <1>1, PTL

-----------------------------------------------------------------------------
(* One record per effect. *)

\* As long as no live worker has lost its lock, a busy worker holds it.
LockInv ==
    stalls = 0 => \A w \in Workers : pc[w] # "idle" => job.state = "active" /\ job.owner = w

\* What the existence check found still holds when the insert it allowed runs.
CheckedInv ==
    stalls = 0 => \A w \in Workers :
        pc[w] = "write" /\ Handler(w).kind = "entry" => made[Slot(w)] = 0

\* Redelivery never makes a second cost entry: the source_ref index forbids it
\* always, the check-then-insert on entry_id while drains do not overlap.
OneRecordPerEffect ==
    \A s \in Slots :
        LET kind == Registry[s[1]][s[2]].kind
        IN  kind = "sourceRef" \/ (kind = "entry" /\ stalls = 0) => made[s] <= 1

RecordInv == LockInv /\ CheckedInv /\ OneRecordPerEffect

\* The only stall is a lock lost by a live worker; nothing takes it back.
LEMMA StallsGrow ==
    ASSUME IInv, IInv', [Next]_vars, stalls' = 0
    PROVE  stalls = 0
  <1>1. stalls \in Nat
    BY DEF IInv, TypeOK
  <1>2. stalls' = stalls \/ stalls' = stalls + 1
    BY DEF Next, vars, InsertEvent, EndTransaction, Tick, LoseLock, Take, Drain, NextEvent,
           CheckHandler, WriteHandler, LinkHandler, MarkDone, MarkFailed, EndOfBatch, Census,
           Throw, CensusFails, DayPasses, Crash, Abort, Stop, faults
  <1> QED BY <1>1, <1>2

LEMMA LockFree ==
    ASSUME TypeOK, LockInv, stalls = 0, job.state # "active" \/ job.owner = NoWorker
    PROVE  \A w \in Workers : pc[w] = "idle"
  BY DEF LockInv

LEMMA LeftLock ==
    ASSUME TypeOK, LockInv, NEW w \in Workers, Leave(w), pc[w] # "idle", stalls = 0
    PROVE  \A v \in Workers : pc'[v] = "idle"
  BY DEF TypeOK, LockInv, Leave

LEMMA LockStep == IInv /\ IInv' /\ LockInv /\ [Next]_vars => LockInv'
  <1> SUFFICES ASSUME IInv, IInv', LockInv, [Next]_vars, stalls' = 0
               PROVE  \A w \in Workers : pc'[w] # "idle" => job'.state = "active" /\ job'.owner = w
    BY DEF LockInv
  <1>1. stalls = 0 /\ TypeOK
    BY StallsGrow DEF IInv
  <1>2. CASE UNCHANGED <<pc, job>>
    BY <1>1, <1>2 DEF LockInv
  <1>3. CASE Tick
    BY <1>1, <1>3, LockFree DEF Tick
  <1>4. CASE LoseLock
    BY <1>1, <1>4, LockFree DEF LoseLock
  <1>5. ASSUME NEW w \in Workers, Take(w)
        PROVE  \A v \in Workers : pc'[v] # "idle" => job'.state = "active" /\ job'.owner = v
    <2>1. \A v \in Workers : pc[v] = "idle"
      BY <1>1, <1>5, LockFree DEF Take
    <2> QED BY <1>1, <1>5, <2>1 DEF Take, TypeOK
  <1>6. ASSUME NEW w \in Workers, pc[w] # "idle", UNCHANGED job,
               \A v \in Workers : v # w => pc'[v] = pc[v]
        PROVE  \A v \in Workers : pc'[v] # "idle" => job'.state = "active" /\ job'.owner = v
    BY <1>1, <1>6 DEF LockInv
  <1>7. ASSUME NEW w \in Workers, Census(w) \/ CensusFails(w) \/ Crash(w) \/ Abort(w)
        PROVE  \A v \in Workers : pc'[v] = "idle"
    BY <1>1, <1>7, LeftLock DEF Census, CensusFails, Crash, Abort, Stop
  <1>8. ASSUME NEW w \in Workers,
               \/ NextEvent(w) \/ CheckHandler(w) \/ WriteHandler(w) \/ LinkHandler(w)
               \/ MarkDone(w) \/ MarkFailed(w) \/ EndOfBatch(w) \/ Throw(w)
        PROVE  pc[w] # "idle" /\ UNCHANGED job /\ \A v \in Workers : v # w => pc'[v] = pc[v]
    BY <1>1, <1>8 DEF NextEvent, CheckHandler, WriteHandler, LinkHandler, MarkDone, MarkFailed,
                      EndOfBatch, Throw, NextRow, Advance, TypeOK
  <1>9. ASSUME NEW w \in Workers, DayPasses(w) PROVE UNCHANGED <<pc, job>>
    BY <1>9 DEF DayPasses
  <1>10. ASSUME NEW e \in Events,
                InsertEvent(e) \/ \E outcome \in {"committed", "rolledback"} : EndTransaction(e, outcome)
         PROVE  UNCHANGED <<pc, job>>
    BY <1>10 DEF InsertEvent, EndTransaction
  <1>11. CASE UNCHANGED vars
    BY <1>2, <1>11 DEF vars
  <1> QED BY <1>2, <1>3, <1>4, <1>5, <1>6, <1>7, <1>8, <1>9, <1>10, <1>11 DEF Next, Drain

\* A step that creates no record and lets no insert through.
LEMMA NoInsert ==
    ASSUME IInv, CheckedInv, OneRecordPerEffect, UNCHANGED made, stalls' = 0 => stalls = 0,
           \A w \in Workers : pc'[w] = "write" =>
               pc[w] = "write" /\ cur'[w] = cur[w] /\ pos'[w] = pos[w]
    PROVE  CheckedInv' /\ OneRecordPerEffect'
  <1>1. CheckedInv'
    BY DEF CheckedInv, Handler, Slot
  <1>2. OneRecordPerEffect'
    BY DEF OneRecordPerEffect
  <1> QED BY <1>1, <1>2

LEMMA RecordStep == IInv /\ IInv' /\ RecordInv /\ [Next]_vars => RecordInv'
  <1> SUFFICES ASSUME IInv, IInv', RecordInv, [Next]_vars PROVE CheckedInv' /\ OneRecordPerEffect'
    BY LockStep DEF RecordInv
  <1>1. TypeOK /\ PlaceOK /\ (stalls' = 0 => stalls = 0) /\ LockInv /\ CheckedInv /\ OneRecordPerEffect
    BY StallsGrow DEF IInv, RecordInv
  <1>2. CASE UNCHANGED <<made, pc, cur, pos>>
    BY <1>1, <1>2, NoInsert
  <1>3. ASSUME NEW w \in Workers, CheckHandler(w) PROVE CheckedInv' /\ OneRecordPerEffect'
    <2>1. UNCHANGED <<made, cur>> /\ pc[w] = "check" /\ \A v \in Workers : v # w => pc'[v] = pc[v] /\ pos'[v] = pos[v]
      BY <1>1, <1>3 DEF CheckHandler, Advance, TypeOK, effects
    <2>2. CASE pc'[w] # "write"
      BY <1>1, <2>1, <2>2, NoInsert
    <2>3. CASE pc'[w] = "write"
      <3>1. ~Exists(Slot(w)) /\ UNCHANGED pos
        BY <1>1, <1>3, <2>3 DEF CheckHandler, Advance, TypeOK
      <3>2. Slot(w) \in Slots /\ Slot(w)[1] = cur[w] /\ Slot(w)[2] = pos[w]
        BY <1>1, <2>1, PairIsSlot DEF PlaceOK, Busy, Slot
      <3>3. Handler(w).kind = "entry" => made[Slot(w)] = 0
        BY <1>1, <3>1, <3>2 DEF Exists, Handler, TypeOK
      <3>4. CheckedInv'
        BY <1>1, <2>1, <3>1, <3>3 DEF CheckedInv, Handler, Slot
      <3>5. OneRecordPerEffect'
        BY <1>1, <2>1 DEF OneRecordPerEffect
      <3> QED BY <3>4, <3>5
    <2> QED BY <2>2, <2>3
  <1>4. ASSUME NEW w \in Workers, WriteHandler(w) PROVE CheckedInv' /\ OneRecordPerEffect'
    <2>1. /\ UNCHANGED cur /\ pc[w] = "write" /\ pc'[w] # "write"
          /\ \A v \in Workers : v # w => pc'[v] = pc[v] /\ pos'[v] = pos[v]
      BY <1>1, <1>4 DEF WriteHandler, Advance, TypeOK
    <2>2. CASE UNCHANGED made
      BY <1>1, <2>1, <2>2, NoInsert
    <2>3. CASE /\ ~(Handler(w).kind = "sourceRef" /\ made[Slot(w)] > 0)
               /\ made' = [made EXCEPT ![Slot(w)] = @ + 1]
      <3>1. /\ Slot(w) \in Slots /\ Registry[Slot(w)[1]][Slot(w)[2]] = Handler(w)
            /\ made[Slot(w)] \in Nat
        BY <1>1, <2>1, PairIsSlot DEF PlaceOK, Busy, Slot, Handler, TypeOK
      <3>2. CheckedInv'
        <4>1. stalls = 0 => \A v \in Workers : v # w => pc[v] # "write"
          BY <1>1, <2>1 DEF LockInv
        <4> QED BY <1>1, <2>1, <4>1 DEF CheckedInv
      <3>3. /\ made'[Slot(w)] = made[Slot(w)] + 1
            /\ \A s \in Slots : s # Slot(w) => made'[s] = made[s]
        BY <1>1, <2>3, <3>1 DEF TypeOK
      <3>4. Handler(w).kind = "sourceRef" \/ (Handler(w).kind = "entry" /\ stalls = 0) =>
                made[Slot(w)] = 0
        BY <1>1, <2>1, <2>3, <3>1 DEF CheckedInv
      <3>5. OneRecordPerEffect'
        BY <1>1, <3>1, <3>3, <3>4 DEF OneRecordPerEffect
      <3> QED BY <3>2, <3>5
    <2> QED BY <1>4, <2>2, <2>3 DEF WriteHandler
  <1>5. ASSUME NEW w \in Workers, UNCHANGED made, pc'[w] # "write",
               \A v \in Workers : v # w => pc'[v] = pc[v] /\ cur'[v] = cur[v] /\ pos'[v] = pos[v]
        PROVE  CheckedInv' /\ OneRecordPerEffect'
    BY <1>1, <1>5, NoInsert
  <1>6. ASSUME NEW w \in Workers,
               \/ Take(w) \/ NextEvent(w) \/ LinkHandler(w) \/ MarkDone(w) \/ MarkFailed(w)
               \/ EndOfBatch(w) \/ Throw(w) \/ Census(w) \/ CensusFails(w) \/ Crash(w) \/ Abort(w)
        PROVE  /\ UNCHANGED made /\ pc'[w] # "write"
               /\ \A v \in Workers : v # w => pc'[v] = pc[v] /\ cur'[v] = cur[v] /\ pos'[v] = pos[v]
    <2>1. CASE Take(w) \/ NextEvent(w) \/ EndOfBatch(w) \/ Throw(w)
      BY <1>1, <2>1 DEF Take, NextEvent, EndOfBatch, Throw, TypeOK, effects, mind
    <2>2. CASE LinkHandler(w) \/ MarkDone(w) \/ MarkFailed(w)
      BY <1>1, <2>2 DEF LinkHandler, MarkDone, MarkFailed, NextRow, Advance, TypeOK, effects
    <2>3. CASE Census(w) \/ CensusFails(w) \/ Crash(w) \/ Abort(w)
      BY <1>1, <2>3 DEF Census, CensusFails, Crash, Abort, Stop, Leave, TypeOK, effects
    <2> QED BY <1>6, <2>1, <2>2, <2>3
  <1>7. ASSUME NEW w \in Workers, DayPasses(w) PROVE UNCHANGED <<made, pc, cur, pos>>
    BY <1>7 DEF DayPasses, effects, mind
  <1>8. ASSUME NEW e \in Events,
               InsertEvent(e) \/ \E outcome \in {"committed", "rolledback"} : EndTransaction(e, outcome)
        PROVE  UNCHANGED <<made, pc, cur, pos>>
    BY <1>8 DEF InsertEvent, EndTransaction, effects, mind
  <1>9. CASE Tick \/ LoseLock \/ UNCHANGED vars
    BY <1>2, <1>9 DEF Tick, LoseLock, vars, effects, mind
  <1> QED BY <1>2, <1>3, <1>4, <1>5, <1>6, <1>7, <1>8, <1>9 DEF Next, Drain

\* Redelivery never makes a second record where the code promises one: where a
\* unique index refuses it, and, while no live worker has lost its lock, where
\* only the handler's own check does (dispatcher.js, the handlers' idempotency).
THEOREM RecordedOnce == Spec => []OneRecordPerEffect
  <1>1. Init => RecordInv
    BY SlotIsPair DEF Init, RecordInv, LockInv, CheckedInv, OneRecordPerEffect
  <1>2. IInv /\ IInv' /\ RecordInv /\ [Next]_vars => RecordInv'
    BY RecordStep
  <1>3. RecordInv => OneRecordPerEffect
    BY DEF RecordInv
  <1> QED BY <1>1, <1>2, <1>3, Invariance, PTL DEF Spec

-----------------------------------------------------------------------------
(* The delivery contract. *)

\* What the one running drain has read of its rows is still so: they are not
\* settled, and have the attempts it will count on from.
FreshInv ==
    \A w \in Workers :
        /\ pc[w] = "idle" => todo[w] = {}
        /\ cur[w] \notin todo[w]
        /\ \A e \in Events : e \in todo[w] \/ e = cur[w] =>
              disp[e].status \notin Settled /\ disp[e].attempts = seen[w][e]

ContractInv == IInv /\ LockInv /\ CheckedInv /\ FreshInv /\ stalls = 0

\* Every worker but one that is busy is out of dispatchPending.
LEMMA Alone ==
    ASSUME ContractInv, NEW w \in Workers, pc[w] # "idle"
    PROVE  \A v \in Workers : v # w =>
               pc[v] = "idle" /\ todo[v] = {} /\ cur[v] = NoEvent
  BY DEF ContractInv, LockInv, FreshInv, IInv, PlaceOK, Busy

\* A busy worker writes a row of its own, or none.
LEMMA FreshOwn ==
    ASSUME ContractInv, NEW w \in Workers, pc[w] # "idle", pc'[w] # "idle",
           UNCHANGED seen, todo'[w] \subseteq todo[w],
           cur'[w] \notin todo'[w], cur'[w] \in todo[w] \cup {cur[w], NoEvent},
           \A v \in Workers : v # w => pc'[v] = pc[v] /\ todo'[v] = todo[v] /\ cur'[v] = cur[v],
           \A e \in Events : e \in todo'[w] \/ e = cur'[w] => disp'[e] = disp[e]
    PROVE  FreshInv'
  <1>1. \A v \in Workers : v # w => pc[v] = "idle" /\ todo[v] = {} /\ cur[v] = NoEvent
    BY Alone
  <1> QED BY <1>1, NoEventIsNone DEF ContractInv, FreshInv

LEMMA FreshStep ==
    ASSUME ContractInv, IInv', [Next]_vars
    PROVE  FreshInv'
  <1>1. TypeOK /\ PlaceOK /\ FreshInv
    BY DEF ContractInv, IInv
  <1>2. CASE UNCHANGED <<disp, pc, todo, cur, seen>>
    BY <1>1, <1>2 DEF FreshInv
  <1>3. ASSUME NEW w \in Workers, Take(w) PROVE FreshInv'
    <2>1. /\ UNCHANGED <<disp, cur>> /\ cur[w] = NoEvent /\ pc'[w] = "next"
          /\ todo'[w] = Batch /\ seen'[w] = [e \in Events |-> disp[e].attempts]
          /\ \A v \in Workers : v # w => pc'[v] = pc[v] /\ todo'[v] = todo[v] /\ seen'[v] = seen[v]
      BY <1>1, <1>3 DEF Take, TypeOK, PlaceOK, Busy, outbox
    <2>2. \A e \in Batch : e \in Events /\ disp[e].status \notin Settled
      BY DEF Batch, Pending, Settled
    <2> QED BY <1>1, <2>1, <2>2, NoEventIsNone DEF FreshInv
  <1>4. ASSUME NEW w \in Workers, NextEvent(w) PROVE FreshInv'
    <2>1. PICK e \in Events :
               /\ IsNext(w, e) /\ todo' = [todo EXCEPT ![w] = @ \ {e}]
               /\ IF Registry[e] = <<>>
                  THEN MarkRowDone(e) /\ UNCHANGED <<pc, cur, pos>>
                  ELSE /\ pc' = [pc EXCEPT ![w] = "check"]
                       /\ cur' = [cur EXCEPT ![w] = e]
                       /\ UNCHANGED <<disp, pos>>
      BY <1>4 DEF NextEvent
    <2>2. /\ pc[w] = "next" /\ UNCHANGED seen /\ cur[w] = NoEvent /\ e \in todo[w]
          /\ todo'[w] = todo[w] \ {e} /\ \A v \in Workers : v # w => todo'[v] = todo[v]
      BY <1>1, <1>4, <2>1 DEF NextEvent, IsNext, PlaceOK, Busy, TypeOK
    <2>3. CASE Registry[e] = <<>>
      <3>1. \A f \in Events : f # e => disp'[f] = disp[f]
        BY <1>1, <2>1, <2>3 DEF MarkRowDone, Write, TypeOK
      <3>2. UNCHANGED <<pc, cur>> /\ todo[w] \subseteq Events
        BY <1>1, <2>1, <2>3 DEF TypeOK
      <3>3. cur'[w] \notin todo'[w] /\ cur'[w] \in todo[w] \cup {cur[w], NoEvent}
        BY <2>2, <3>2, NoEventIsNone
      <3>4. \A f \in Events : f \in todo'[w] \/ f = cur'[w] => disp'[f] = disp[f]
        BY <2>2, <3>1, <3>2, NoEventIsNone
      <3> QED BY <2>2, <3>2, <3>3, <3>4, FreshOwn
    <2>4. CASE Registry[e] # <<>>
      <3>1. /\ pc'[w] = "check" /\ cur'[w] = e /\ UNCHANGED disp
            /\ \A v \in Workers : v # w => pc'[v] = pc[v] /\ cur'[v] = cur[v]
        BY <1>1, <2>1, <2>4 DEF TypeOK
      <3> QED BY <2>2, <3>1, FreshOwn
    <2> QED BY <2>3, <2>4
  <1>5. ASSUME NEW w \in Workers, MarkDone(w) \/ MarkFailed(w) PROVE FreshInv'
    <2>1. /\ pc[w] \in {"mark", "fail"} /\ pc'[w] = "next" /\ cur'[w] = NoEvent
          /\ UNCHANGED <<todo, seen>>
          /\ \A v \in Workers : v # w => pc'[v] = pc[v] /\ cur'[v] = cur[v]
      BY <1>1, <1>5 DEF MarkDone, MarkFailed, NextRow, TypeOK
    <2>2. cur[w] \notin todo[w] /\ NoEvent \notin todo[w] /\ todo[w] \subseteq Events
      BY <1>1, NoEventIsNone DEF FreshInv, TypeOK
    <2>3. \A f \in Events : f # cur[w] => disp'[f] = disp[f]
      BY <1>1, <1>5 DEF MarkDone, MarkFailed, MarkRowDone, Write, TypeOK
    <2>4. \A f \in Events : f \in todo'[w] \/ f = cur'[w] => disp'[f] = disp[f]
      BY <2>1, <2>2, <2>3, NoEventIsNone
    <2> QED BY <2>1, <2>2, <2>4, FreshOwn
  <1>6. ASSUME NEW w \in Workers,
               CheckHandler(w) \/ WriteHandler(w) \/ LinkHandler(w) \/ EndOfBatch(w) \/ Throw(w)
        PROVE  FreshInv'
    <2>1. /\ pc[w] # "idle" /\ pc'[w] # "idle" /\ UNCHANGED <<disp, todo, cur, seen>>
          /\ \A v \in Workers : v # w => pc'[v] = pc[v]
      BY <1>1, <1>6 DEF CheckHandler, WriteHandler, LinkHandler, EndOfBatch, Throw, Advance,
                        TypeOK, outbox, mind
    <2>2. cur[w] \notin todo[w]
      BY <1>1 DEF FreshInv
    <2> QED BY <2>1, <2>2, FreshOwn
  <1>7. ASSUME NEW w \in Workers, Census(w) \/ CensusFails(w) \/ Crash(w) \/ Abort(w)
        PROVE  FreshInv'
    <2>1. Leave(w) /\ UNCHANGED disp
      BY <1>7 DEF Census, CensusFails, Crash, Abort, Stop, outbox
    <2>2. /\ pc'[w] = "idle" /\ todo'[w] = {} /\ cur'[w] = NoEvent
          /\ \A v \in Workers : v # w => /\ pc'[v] = pc[v] /\ todo'[v] = todo[v]
                                         /\ cur'[v] = cur[v] /\ seen'[v] = seen[v]
      BY <1>1, <2>1 DEF Leave, TypeOK
    <2> QED BY <1>1, <2>1, <2>2, NoEventIsNone DEF FreshInv
  <1>8. ASSUME NEW w \in Workers, DayPasses(w) PROVE UNCHANGED <<disp, pc, todo, cur, seen>>
    BY <1>8 DEF DayPasses, outbox, mind
  <1>9. ASSUME NEW e \in Events,
               InsertEvent(e) \/ \E outcome \in {"committed", "rolledback"} : EndTransaction(e, outcome)
        PROVE  UNCHANGED <<disp, pc, todo, cur, seen>>
    BY <1>9 DEF InsertEvent, EndTransaction, mind
  <1>10. CASE Tick \/ LoseLock \/ UNCHANGED vars
    BY <1>2, <1>10 DEF Tick, LoseLock, vars, outbox, mind
  <1> QED BY <1>2, <1>3, <1>4, <1>5, <1>6, <1>7, <1>8, <1>9, <1>10 DEF Next, Drain

LEMMA OutcomeOf ==
    ASSUME NEW e \in Events
    PROVE  /\ log[e] # "committed" => Outcome(e) = "unborn"
           /\ log[e] = "committed" /\ disp[e].status = "DONE" => Outcome(e) = "handled"
           /\ log[e] = "committed" /\ disp[e].status = "DEAD" => Outcome(e) = "abandoned"
           /\ log[e] = "committed" /\ disp[e].status \notin Settled => Outcome(e) = "queued"
  BY DEF Outcome, Settled

\* What the contract sees of the outbox, step by step.
Same == UNCHANGED <<[e \in Events |-> Outcome(e)], [e \in Events |-> disp[e].attempts],
                    {s \in Slots : Exists(s)}>>

LEMMA SameRows ==
    ASSUME \A e \in Events : Outcome(e)' = Outcome(e) /\ disp'[e].attempts = disp[e].attempts
    PROVE  UNCHANGED <<[e \in Events |-> Outcome(e)], [e \in Events |-> disp[e].attempts]>>
  OBVIOUS

LEMMA SameEffects ==
    ASSUME \A s \in Slots : Exists(s)' = Exists(s)
    PROVE  UNCHANGED {s \in Slots : Exists(s)}
  OBVIOUS

LEMMA PublishStep ==
    ASSUME ContractInv, NEW e \in Events, EndTransaction(e, "committed")
    PROVE  Contract!Publish(e)
  <1>1. TypeOK /\ log[e] = "open" /\ log' = [log EXCEPT ![e] = "committed"]
        /\ UNCHANGED <<disp, made, linked>> /\ disp[e].status = "none"
    BY DEF EndTransaction, ContractInv, IInv, NothingFromUncommitted, effects
  <1>2. Outcome(e) = "unborn" /\ Outcome(e)' = "queued"
    BY <1>1, OutcomeOf DEF TypeOK, Outcome, Settled
  <1>3. \A f \in Events : f # e => Outcome(f)' = Outcome(f)
    BY <1>1 DEF TypeOK, Outcome
  <1>4. UNCHANGED <<[f \in Events |-> disp[f].attempts], {s \in Slots : Exists(s)}>>
    BY <1>1 DEF Exists
  <1> QED BY <1>2, <1>3, <1>4 DEF Contract!Publish

\* A handler's effect comes to be: the contract delivers it.
LEMMA DeliverStep ==
    ASSUME ContractInv, NEW w \in Workers, WriteHandler(w) \/ LinkHandler(w)
    PROVE  Same \/ Contract!Deliver(Slot(w))
  <1>0. Slot(w) \in Slots
    BY PairIsSlot DEF ContractInv, IInv, PlaceOK, Busy, WriteHandler, LinkHandler, Slot
  <1> PICK s \in Slots : s = Slot(w)
    BY <1>0
  <1>1. /\ TypeOK /\ pc[w] \in {"write", "link"} /\ UNCHANGED <<log, disp>>
        /\ s[1] = cur[w] /\ s[2] = pos[w] /\ cur[w] \in Events
        /\ Registry[s[1]][s[2]] = Handler(w) /\ Handler(w) \in Handlers
    BY PairIsSlot DEF ContractInv, IInv, PlaceOK, Busy, WriteHandler, LinkHandler, Slot, Handler, outbox
  <1>2. Outcome(cur[w]) = "queued"
    <2>1. log[cur[w]] = "committed" /\ disp[cur[w]].status \notin Settled
      BY <1>1 DEF ContractInv, IInv, ReadOK, FreshInv
    <2> QED BY <1>1, <2>1, OutcomeOf
  <1>3. UNCHANGED <<[e \in Events |-> Outcome(e)], [e \in Events |-> disp[e].attempts]>>
    BY <1>1 DEF Outcome
  <1>4. ASSUME ~Exists(s), Exists(s)', \A r \in Slots : r # s => Exists(r)' = Exists(r)
        PROVE  Contract!Deliver(s)
    <2>1. {r \in Slots : Exists(r)}' = {r \in Slots : Exists(r)} \cup {s}
      BY <1>1, <1>4
    <2> QED BY <1>1, <1>2, <1>3, <1>4, <2>1 DEF Contract!Deliver
  <1>5. CASE WriteHandler(w)
    <2>1. UNCHANGED linked /\ pc[w] = "write"
      BY <1>5 DEF WriteHandler
    <2>2. CASE UNCHANGED made
      BY <1>3, <2>1, <2>2 DEF Same, Exists
    <2>3. CASE /\ ~(Handler(w).kind = "sourceRef" /\ made[s] > 0)
               /\ made' = [made EXCEPT ![s] = @ + 1]
      <3>1. /\ made[s] \in Nat /\ made'[s] = made[s] + 1
            /\ \A r \in Slots : r # s => made'[r] = made[r]
        BY <1>1, <2>3 DEF TypeOK
      <3>2. \A r \in Slots : r # s => Exists(r)' = Exists(r)
        BY <2>1, <3>1 DEF Exists
      <3>3. CASE Handler(w).kind = "openDossier"
        <4>1. Exists(s)' = Exists(s)
          BY <1>1, <2>1, <3>3 DEF Exists
        <4>2. \A r \in Slots : Exists(r)' = Exists(r)
          BY <3>2, <4>1
        <4>3. UNCHANGED {r \in Slots : Exists(r)}
          BY <4>2, SameEffects
        <4> QED BY <1>3, <4>3 DEF Same
      <3>4. CASE Handler(w).kind # "openDossier"
        <4>1. Handler(w).kind \in {"entry", "sourceRef"}
          BY <1>1, <3>4 DEF Handlers, Kinds
        <4>2. made[s] = 0
          BY <2>1, <2>3, <3>1, <4>1 DEF ContractInv, CheckedInv
        <4>3. ~Exists(s) /\ Exists(s)'
          BY <1>1, <3>1, <3>4, <4>2 DEF Exists
        <4> QED BY <1>4, <3>2, <4>3
      <3> QED BY <3>3, <3>4
    <2> QED BY <1>5, <2>2, <2>3 DEF WriteHandler
  <1>6. CASE LinkHandler(w)
    <2>1. UNCHANGED made /\ linked' = linked \cup {s} /\ Handler(w).kind = "openDossier"
      BY <1>6 DEF LinkHandler, ContractInv, IInv, PlaceOK, Busy
    <2>2. \A r \in Slots : r # s => Exists(r)' = Exists(r)
      BY <2>1 DEF Exists
    <2>3. Exists(s)'
      BY <1>1, <2>1 DEF Exists
    <2>4. CASE Exists(s)
      <3>1. \A r \in Slots : Exists(r)' = Exists(r)
        BY <2>2, <2>3, <2>4, <2>1 DEF Exists
      <3>2. UNCHANGED {r \in Slots : Exists(r)}
        BY <3>1, SameEffects
      <3> QED BY <1>3, <3>2 DEF Same
    <2>5. CASE ~Exists(s)
      BY <1>4, <2>2, <2>3, <2>5
    <2> QED BY <2>4, <2>5
  <1> QED BY <1>5, <1>6

\* A row is marked done: the contract handles its event.
LEMMA HandleStep ==
    ASSUME ContractInv, NEW e \in Events, MarkRowDone(e), UNCHANGED <<log, made, linked>>,
           log[e] = "committed", disp[e].status \notin Settled,
           \A i \in DOMAIN Registry[e] : Registry[e][i].optional \/ Exists(<<e, i>>)
    PROVE  Contract!Handle(e)
  <1>1. disp[e] \in Row /\ disp' = [disp EXCEPT ![e] = [disp[e] EXCEPT !.status = "DONE"]]
    BY DEF ContractInv, IInv, TypeOK, MarkRowDone, Write
  <1>2. /\ disp'[e].status = "DONE" /\ disp'[e].attempts = disp[e].attempts
        /\ \A f \in Events : f # e => disp'[f] = disp[f]
    BY <1>1 DEF Row, ContractInv, IInv, TypeOK
  <1>3. Outcome(e) = "queued"
    BY OutcomeOf
  <1>4. Outcome(e)' = "handled"
    BY <1>2 DEF Outcome
  <1>5. \A f \in Events : f # e => Outcome(f)' = Outcome(f)
    BY <1>2 DEF Outcome
  <1>6. [f \in Events |-> Outcome(f)]' = [[f \in Events |-> Outcome(f)] EXCEPT ![e] = "handled"]
    BY <1>4, <1>5
  <1>7. UNCHANGED <<[f \in Events |-> disp[f].attempts], {s \in Slots : Exists(s)}>>
    BY <1>2 DEF Exists
  <1>8. Contract!Owed(e) \subseteq {s \in Slots : Exists(s)}
    BY SlotIsPair DEF Contract!Owed
  <1> QED BY <1>3, <1>6, <1>7, <1>8 DEF Contract!Handle

\* An attempt fails: the contract counts it, and gives up on the last one.
LEMMA FailStep ==
    ASSUME ContractInv, NEW w \in Workers, MarkFailed(w), NEW e \in Events, e = cur[w]
    PROVE  Contract!Fail(e)
  <1> PICK n : n = seen[w][e] + 1
    OBVIOUS
  <1>1. /\ TypeOK /\ log[e] = "committed" /\ disp[e].status \notin Settled
        /\ disp[e].attempts = seen[w][e] /\ seen[w][e] < MaxAttempts
    BY DEF ContractInv, IInv, PlaceOK, Busy, ReadOK, FreshInv, MarkFailed
  <1>2. seen[w][e] \in Nat /\ disp[e] \in Row
    BY <1>1 DEF TypeOK
  <1>3. /\ UNCHANGED <<log, made, linked>>
        /\ disp' = [disp EXCEPT ![e] = [status |-> IF n >= MaxAttempts THEN "DEAD" ELSE "FAILED",
                                        attempts |-> n]]
    BY DEF MarkFailed, Write, FailedRow, effects
  <1>4. /\ disp'[e].status = IF n >= MaxAttempts THEN "DEAD" ELSE "FAILED"
        /\ disp'[e].attempts = n /\ \A f \in Events : f # e => disp'[f] = disp[f]
    BY <1>1, <1>3 DEF TypeOK
  <1>5. Outcome(e) = "queued"
    BY <1>1, OutcomeOf
  <1>6. Outcome(e)' = IF n = MaxAttempts THEN "abandoned" ELSE "queued"
    <2>1. log'[e] = "committed"
      BY <1>1, <1>3
    <2>2. CASE n = MaxAttempts
      BY <1>4, <2>1, <2>2 DEF Outcome
    <2>3. CASE n # MaxAttempts
      <3>1. disp'[e].status = "FAILED"
        BY <1>1, <1>2, <1>4, <2>3
      <3> QED BY <2>1, <2>3, <3>1 DEF Outcome
    <2> QED BY <2>2, <2>3
  <1>7. \A f \in Events : f # e => Outcome(f)' = Outcome(f)
    BY <1>3, <1>4 DEF Outcome
  <1>8. UNCHANGED {s \in Slots : Exists(s)}
    BY <1>3 DEF Exists
  <1>9. disp'[e].attempts = disp[e].attempts + 1
    BY <1>1, <1>4
  <1>10. [f \in Events |-> disp[f].attempts]' =
             [[f \in Events |-> disp[f].attempts] EXCEPT ![e] = disp[e].attempts + 1]
    BY <1>4, <1>9
  <1>11. [f \in Events |-> Outcome(f)]' = [[f \in Events |-> Outcome(f)] EXCEPT ![e] =
             IF disp'[e].attempts = MaxAttempts THEN "abandoned" ELSE "queued"]
    BY <1>4, <1>6, <1>7
  <1> QED BY <1>1, <1>5, <1>8, <1>10, <1>11 DEF Contract!Fail

LEMMA ContractStep ==
    ASSUME ContractInv, [Next]_vars
    PROVE  Same \/ Contract!Next
  <1>1. TypeOK /\ PlaceOK /\ ReturnedOK /\ ReadOK /\ NothingFromUncommitted /\ FreshInv
    BY DEF ContractInv, IInv
  <1>2. CASE UNCHANGED <<log, disp, made, linked>>
    BY <1>2 DEF Same, Outcome, Exists
  <1>3. ASSUME NEW e \in Events,
               log[e] # "committed", UNCHANGED <<disp, made, linked>>,
               \E v \in {"open", "rolledback"} : log' = [log EXCEPT ![e] = v]
        PROVE  Same
    <2>1. \A f \in Events : Outcome(f)' = Outcome(f)
      BY <1>1, <1>3 DEF TypeOK, Outcome
    <2> QED BY <1>3, <2>1 DEF Same, Exists
  <1>4. ASSUME NEW e \in Events,
               InsertEvent(e) \/ \E outcome \in {"committed", "rolledback"} : EndTransaction(e, outcome)
        PROVE  Same \/ Contract!Next
    <2>1. CASE EndTransaction(e, "committed")
      BY <2>1, PublishStep DEF Contract!Next
    <2>2. CASE InsertEvent(e) \/ EndTransaction(e, "rolledback")
      BY <1>3, <2>2 DEF InsertEvent, EndTransaction, effects
    <2> QED BY <1>4, <2>1, <2>2
  <1>5. ASSUME NEW w \in Workers, NextEvent(w) PROVE Same \/ Contract!Next
    <2> PICK e \in Events :
               /\ IsNext(w, e)
               /\ IF Registry[e] = <<>>
                  THEN MarkRowDone(e)
                  ELSE UNCHANGED disp
      BY <1>5 DEF NextEvent
    <2>1. e \in todo[w] /\ UNCHANGED <<log, made, linked>>
      BY <1>5 DEF IsNext, NextEvent, effects
    <2>2. CASE Registry[e] = <<>>
      <3>1. log[e] = "committed" /\ disp[e].status \notin Settled
        BY <1>1, <2>1 DEF ReadOK, FreshInv
      <3>2. DOMAIN Registry[e] = {}
        BY <2>2
      <3>3. Contract!Handle(e)
        BY <2>1, <2>2, <3>1, <3>2, HandleStep
      <3> QED BY <3>3 DEF Contract!Next
    <2>3. CASE Registry[e] # <<>>
      BY <1>2, <2>1, <2>3
    <2> QED BY <2>2, <2>3
  <1>6. ASSUME NEW w \in Workers, MarkDone(w) PROVE Same \/ Contract!Next
    <2>1. /\ pc[w] = "mark" /\ cur[w] \in Events /\ MarkRowDone(cur[w])
          /\ UNCHANGED <<log, made, linked>>
      BY <1>1, <1>6 DEF MarkDone, PlaceOK, Busy, effects
    <2>2. log[cur[w]] = "committed" /\ disp[cur[w]].status \notin Settled
      BY <1>1, <2>1 DEF ReadOK, FreshInv
    <2>3. \A i \in DOMAIN Registry[cur[w]] : Registry[cur[w]][i].optional \/ Exists(<<cur[w], i>>)
      BY <1>1, <2>1, PairIsSlot DEF ReturnedOK, Busy
    <2>4. Contract!Handle(cur[w])
      BY <2>1, <2>2, <2>3, HandleStep
    <2> QED BY <2>1, <2>4 DEF Contract!Next
  <1>7. ASSUME NEW w \in Workers, MarkFailed(w) PROVE Same \/ Contract!Next
    <2>1. cur[w] \in Events
      BY <1>1, <1>7 DEF MarkFailed, PlaceOK, Busy
    <2> PICK e \in Events : e = cur[w]
      BY <2>1
    <2>2. Contract!Fail(e)
      BY <1>7, FailStep
    <2> QED BY <2>2 DEF Contract!Next
  <1>8. ASSUME NEW w \in Workers, WriteHandler(w) \/ LinkHandler(w) PROVE Same \/ Contract!Next
    <2>1. Slot(w) \in Slots
      BY <1>1, <1>8, PairIsSlot DEF PlaceOK, Busy, WriteHandler, LinkHandler, Slot
    <2> QED BY <1>8, <2>1, DeliverStep DEF Contract!Next
  <1>9. ASSUME NEW w \in Workers,
               \/ Take(w) \/ CheckHandler(w) \/ EndOfBatch(w) \/ Census(w) \/ Throw(w)
               \/ CensusFails(w) \/ DayPasses(w) \/ Crash(w) \/ Abort(w)
        PROVE  UNCHANGED <<log, disp, made, linked>>
    BY <1>9 DEF Take, CheckHandler, EndOfBatch, Census, Throw, CensusFails, DayPasses, Crash,
                Abort, outbox, effects
  <1>10. CASE Tick \/ LoseLock \/ UNCHANGED vars
    BY <1>2, <1>10 DEF Tick, LoseLock, vars, outbox, effects
  <1> QED BY <1>2, <1>4, <1>5, <1>6, <1>7, <1>8, <1>9, <1>10 DEF Next, Drain

\* Where no live worker loses its lock the outbox implements the delivery
\* contract: an effect is delivered once and only while its event is queued, an
\* event is handled when all it owes is delivered, abandoned after MaxAttempts
\* failures, and its outcome is final (dispatcher.js, dispatchPending).
THEOREM Implements ==
    ASSUME MaxStalls = 0
    PROVE  Spec => ImplementsContract
  <1>1. Init => Contract!Init
    <2> SUFFICES ASSUME Init PROVE Contract!Init
      OBVIOUS
    <2>1. \A e \in Events : Outcome(e) = "unborn" /\ disp[e].attempts = 0
      BY DEF Init, Outcome
    <2>2. \A s \in Slots : ~Exists(s)
      BY DEF Init, Exists
    <2> QED BY <2>1, <2>2 DEF Contract!Init
  <1>2. Init => LockInv /\ CheckedInv /\ OneRecordPerEffect /\ FreshInv
    BY SlotIsPair, NoEventIsNone DEF Init, LockInv, CheckedInv, OneRecordPerEffect, FreshInv
  <1>3. IInv => stalls = 0
    <2>1. ASSUME stalls \in 0 .. MaxStalls PROVE stalls = 0
      BY <2>1
    <2> QED BY <2>1 DEF IInv, TypeOK
  <1>4. IInv /\ IInv' /\ LockInv /\ CheckedInv /\ OneRecordPerEffect /\ FreshInv /\ [Next]_vars
          => LockInv' /\ CheckedInv' /\ OneRecordPerEffect' /\ FreshInv'
    BY <1>3, RecordStep, FreshStep DEF ContractInv, RecordInv
  <1>5. IInv /\ LockInv /\ CheckedInv /\ FreshInv /\ [Next]_vars => Same \/ Contract!Next
    BY <1>3, ContractStep DEF ContractInv
  <1>6. Same \/ Contract!Next =>
          [Contract!Next]_<<[e \in Events |-> Outcome(e)], [e \in Events |-> disp[e].attempts],
                            {s \in Slots : Exists(s)}>>
    BY DEF Same
  <1> QED BY <1>1, <1>2, <1>4, <1>5, <1>6, Invariance, PTL DEF Spec, ImplementsContract, Contract!Spec
-----------------------------------------------------------------------------
(* Records beyond the first, and what each of them costs. *)

Holds(w) == job.state = "active" /\ job.owner = w

\* Workers inside dispatchPending whose job is no longer theirs.
Astray == {w \in Workers : pc[w] # "idle" /\ ~Holds(w)}

\* Each of them has lost a lock.
AstrayInv == IsFiniteSet(Astray) /\ Cardinality(Astray) <= stalls

LEMMA FaultsGrow ==
    ASSUME IInv, [Next]_vars
    PROVE  /\ stalls \in Nat /\ stalls' \in {stalls, stalls + 1}
           /\ crashes \in Nat /\ crashes' \in {crashes, crashes + 1}
  <1>1. stalls \in Nat /\ crashes \in Nat
    BY DEF IInv, TypeOK
  <1>2. /\ stalls' = stalls \/ stalls' = stalls + 1
        /\ crashes' = crashes \/ crashes' = crashes + 1
    BY DEF Next, vars, InsertEvent, EndTransaction, Tick, LoseLock, Take, Drain, NextEvent,
           CheckHandler, WriteHandler, LinkHandler, MarkDone, MarkFailed, EndOfBatch, Census,
           Throw, CensusFails, DayPasses, Crash, Abort, Stop, faults
  <1> QED BY <1>1, <1>2

LEMMA NoNewStray ==
    ASSUME IInv, AstrayInv, [Next]_vars, Astray' \subseteq Astray
    PROVE  AstrayInv'
  <1>1. /\ IsFiniteSet(Astray') /\ Cardinality(Astray') <= Cardinality(Astray)
        /\ Cardinality(Astray) \in Nat /\ Cardinality(Astray') \in Nat
    BY FS_Subset, FS_CardinalityType DEF AstrayInv
  <1> QED BY <1>1, FaultsGrow DEF AstrayInv

LEMMA OneMore ==
    ASSUME AstrayInv, NEW x
    PROVE  /\ IsFiniteSet(Astray \cup {x}) /\ Cardinality(Astray) \in Nat
           /\ Cardinality(Astray \cup {x}) \in Nat
           /\ Cardinality(Astray \cup {x}) <= Cardinality(Astray) + 1
  <1>1. IsFiniteSet(Astray \cup {x})
    BY FS_AddElement DEF AstrayInv
  <1>2. Cardinality(Astray) \in Nat /\ Cardinality(Astray \cup {x}) \in Nat
    BY <1>1, FS_CardinalityType DEF AstrayInv
  <1>3. Cardinality(Astray \cup {x}) =
            IF x \in Astray THEN Cardinality(Astray) ELSE Cardinality(Astray) + 1
    BY FS_AddElement DEF AstrayInv
  <1> QED BY <1>1, <1>2, <1>3

LEMMA AstrayStep ==
    ASSUME IInv, AstrayInv, [Next]_vars
    PROVE  AstrayInv'
  <1>1. TypeOK
    BY DEF IInv
  <1>2. CASE UNCHANGED <<pc, job>>
    BY <1>2, NoNewStray DEF Astray, Holds
  <1>3. CASE Tick
    BY <1>3, NoNewStray DEF Tick, Astray, Holds
  <1>4. CASE LoseLock
    <2>1. CASE job.owner = NoWorker
      BY <1>4, <2>1, NoNewStray DEF LoseLock, Astray, Holds
    <2>2. CASE job.owner # NoWorker
      <3>1. stalls' = stalls + 1 /\ Astray' \subseteq Astray \cup {job.owner}
        BY <1>4, <2>2 DEF LoseLock, Astray, Holds
      <3>2. /\ IsFiniteSet(Astray \cup {job.owner})
            /\ Cardinality(Astray) \in Nat
            /\ Cardinality(Astray \cup {job.owner}) \in Nat
            /\ Cardinality(Astray \cup {job.owner}) <= Cardinality(Astray) + 1
        BY OneMore
      <3>3. /\ IsFiniteSet(Astray') /\ Cardinality(Astray') \in Nat
            /\ Cardinality(Astray') <= Cardinality(Astray \cup {job.owner})
        BY <3>1, <3>2, FS_Subset, FS_CardinalityType
      <3> QED BY <3>1, <3>2, <3>3, FaultsGrow DEF AstrayInv
    <2> QED BY <2>1, <2>2
  <1>5. ASSUME NEW w \in Workers, Take(w) PROVE AstrayInv'
    <2>1. Astray' \subseteq Astray
      BY <1>1, <1>5 DEF Take, Astray, Holds, TypeOK
    <2> QED BY <2>1, NoNewStray
  <1>6. ASSUME NEW w \in Workers, pc[w] # "idle", UNCHANGED job,
               \A v \in Workers : v # w => pc'[v] = pc[v]
        PROVE  AstrayInv'
    <2>1. Astray' \subseteq Astray
      BY <1>6 DEF Astray, Holds
    <2> QED BY <2>1, NoNewStray
  <1>7. ASSUME NEW w \in Workers, Census(w) \/ CensusFails(w) \/ Crash(w) \/ Abort(w)
        PROVE  AstrayInv'
    <2>1. pc'[w] = "idle" /\ \A v \in Workers : v # w => pc'[v] = pc[v]
      BY <1>1, <1>7 DEF Census, CensusFails, Crash, Abort, Stop, Leave, TypeOK
    <2>2. job.owner # w => job' = job
      BY <1>7 DEF Census, CensusFails, Crash, Abort, Release
    <2>3. Astray' \subseteq Astray
      BY <2>1, <2>2 DEF Astray, Holds
    <2> QED BY <2>3, NoNewStray
  <1>8. ASSUME NEW w \in Workers,
               \/ NextEvent(w) \/ CheckHandler(w) \/ WriteHandler(w) \/ LinkHandler(w)
               \/ MarkDone(w) \/ MarkFailed(w) \/ EndOfBatch(w) \/ Throw(w)
        PROVE  pc[w] # "idle" /\ UNCHANGED job /\ \A v \in Workers : v # w => pc'[v] = pc[v]
    BY <1>1, <1>8 DEF NextEvent, CheckHandler, WriteHandler, LinkHandler, MarkDone, MarkFailed,
                      EndOfBatch, Throw, NextRow, Advance, TypeOK
  <1>9. ASSUME NEW w \in Workers, DayPasses(w) PROVE UNCHANGED <<pc, job>>
    BY <1>9 DEF DayPasses
  <1>10. ASSUME NEW e \in Events,
                InsertEvent(e) \/ \E outcome \in {"committed", "rolledback"} : EndTransaction(e, outcome)
         PROVE  UNCHANGED <<pc, job>>
    BY <1>10 DEF InsertEvent, EndTransaction
  <1>11. CASE UNCHANGED vars
    BY <1>2, <1>11 DEF vars
  <1> QED BY <1>2, <1>3, <1>4, <1>5, <1>6, <1>7, <1>8, <1>9, <1>10, <1>11 DEF Next, Drain

Kind(s) == Registry[s[1]][s[2]].kind

\* The workers whose check has passed and whose insert has not run.
Writing(s) == {w \in Workers : pc[w] = "write" /\ Slot(w) = s}

\* Once there is a record the check lets nobody else through.
EntryOK(s) == made[s] = 0 \/ made[s] + Cardinality(Writing(s)) <= 1 + stalls

LEMMA Writers ==
    ASSUME IInv, AstrayInv, NEW s
    PROVE  /\ IsFiniteSet(Writing(s)) /\ Cardinality(Writing(s)) \in Nat
           /\ Cardinality(Writing(s)) <= 1 + stalls
  <1>1. /\ IsFiniteSet(Astray \cup {job.owner})
        /\ Cardinality(Astray) \in Nat
        /\ Cardinality(Astray \cup {job.owner}) \in Nat
        /\ Cardinality(Astray \cup {job.owner}) <= Cardinality(Astray) + 1
    BY OneMore
  <1>2. Writing(s) \subseteq Astray \cup {job.owner}
    BY DEF Writing, Astray, Holds
  <1>3. /\ IsFiniteSet(Writing(s)) /\ Cardinality(Writing(s)) \in Nat
        /\ Cardinality(Writing(s)) <= Cardinality(Astray \cup {job.owner})
    BY <1>1, <1>2, FS_Subset, FS_CardinalityType
  <1>4. stalls \in Nat
    BY DEF IInv, TypeOK
  <1> QED BY <1>1, <1>3, <1>4 DEF AstrayInv

\* A step that adds no record of a slot and lets no insert of it through, or finds
\* that there is none.
LEMMA EntryKept ==
    ASSUME IInv, AstrayInv, [Next]_vars, NEW s \in Slots, EntryOK(s), made'[s] = made[s],
           made[s] = 0 \/ Writing(s)' \subseteq Writing(s)
    PROVE  EntryOK(s)'
  <1>1. CASE made[s] = 0
    BY <1>1 DEF EntryOK
  <1>2. CASE made[s] # 0 /\ Writing(s)' \subseteq Writing(s)
    <2>1. /\ Cardinality(Writing(s)') \in Nat /\ Cardinality(Writing(s)) \in Nat
          /\ Cardinality(Writing(s)') <= Cardinality(Writing(s))
      BY <1>2, Writers, FS_Subset, FS_CardinalityType
    <2>2. made[s] \in Nat
      BY DEF IInv, TypeOK
    <2>3. made[s] + Cardinality(Writing(s)) <= 1 + stalls
      BY <1>2 DEF EntryOK
    <2>4. made'[s] + Cardinality(Writing(s)') <= 1 + stalls'
      BY <2>1, <2>2, <2>3, FaultsGrow
    <2> QED BY <2>4 DEF EntryOK
  <1> QED BY <1>1, <1>2

\* The workers at an insert, after a step that lets none of them through.
LEMMA NoWriter ==
    ASSUME NEW s,
           \A w \in Workers : pc'[w] = "write" =>
               pc[w] = "write" /\ cur'[w] = cur[w] /\ pos'[w] = pos[w]
    PROVE  Writing(s)' \subseteq Writing(s)
  BY DEF Writing, Slot

LEMMA EntryStep ==
    ASSUME IInv, AstrayInv, [Next]_vars, NEW s \in Slots, Kind(s) = "entry", EntryOK(s)
    PROVE  EntryOK(s)'
  <1>1. TypeOK /\ PlaceOK
    BY DEF IInv
  <1>2. CASE UNCHANGED <<made, pc, cur, pos>>
    BY <1>2, EntryKept, NoWriter
  <1>3. ASSUME NEW w \in Workers, CheckHandler(w) PROVE EntryOK(s)'
    <2>1. /\ UNCHANGED <<made, cur>> /\ pc[w] = "check"
          /\ \A v \in Workers : v # w => pc'[v] = pc[v] /\ pos'[v] = pos[v]
          /\ pc'[w] = "write" => ~Exists(Slot(w)) /\ UNCHANGED pos
      BY <1>1, <1>3 DEF CheckHandler, Advance, TypeOK, effects
    <2>2. CASE pc'[w] = "write" /\ Slot(w) = s
      <3>1. made[s] = 0
        BY <1>1, <2>1, <2>2 DEF Exists, Kind, TypeOK
      <3> QED BY <2>1, <3>1, EntryKept
    <2>3. CASE pc'[w] # "write" \/ Slot(w) # s
      <3>1. Writing(s)' \subseteq Writing(s)
        BY <2>1, <2>3 DEF Writing, Slot
      <3> QED BY <2>1, <3>1, EntryKept
    <2> QED BY <2>2, <2>3
  <1>4. ASSUME NEW w \in Workers, WriteHandler(w) PROVE EntryOK(s)'
    <2>1. /\ UNCHANGED cur /\ pc[w] = "write" /\ pc'[w] # "write"
          /\ \A v \in Workers : v # w => pc'[v] = pc[v] /\ pos'[v] = pos[v]
      BY <1>1, <1>4 DEF WriteHandler, Advance, TypeOK
    <2>2. Slot(w) \in Slots
      BY <1>1, <2>1, PairIsSlot DEF PlaceOK, Busy, Slot
    <2>3. made' = made \/ made' = [made EXCEPT ![Slot(w)] = @ + 1]
      BY <1>4 DEF WriteHandler
    <2>4. CASE made'[s] = made[s]
      BY <2>1, <2>4, EntryKept, NoWriter
    <2>5. CASE made'[s] # made[s]
      <3>1. Slot(w) = s /\ made'[s] = made[s] + 1 /\ made[s] \in Nat
        BY <1>1, <2>2, <2>3, <2>5 DEF TypeOK
      <3>2. w \in Writing(s) /\ Writing(s)' = Writing(s) \ {w}
        BY <2>1, <3>1 DEF Writing, Slot
      <3>w. /\ IsFiniteSet(Writing(s)) /\ Cardinality(Writing(s)) \in Nat
            /\ Cardinality(Writing(s)) <= 1 + stalls
        BY Writers
      <3>3. /\ Cardinality(Writing(s)') = Cardinality(Writing(s)) - 1
            /\ Cardinality(Writing(s)) \in Nat /\ Cardinality(Writing(s)) <= 1 + stalls
        <4>1. Cardinality(Writing(s) \ {w}) = Cardinality(Writing(s)) - 1
          BY <3>2, <3>w, FS_RemoveElement
        <4> QED BY <3>2, <3>w, <4>1
      <3>4. made[s] + Cardinality(Writing(s)) <= 1 + stalls
        <4>1. CASE made[s] = 0
          BY <3>3, <4>1
        <4>2. CASE made[s] # 0
          BY <4>2 DEF EntryOK
        <4> QED BY <4>1, <4>2
      <3>5. made'[s] + Cardinality(Writing(s)') <= 1 + stalls'
        BY <3>1, <3>3, <3>4, FaultsGrow
      <3> QED BY <3>5 DEF EntryOK
    <2> QED BY <2>4, <2>5
  <1>5. ASSUME NEW w \in Workers, UNCHANGED made, pc'[w] # "write",
               \A v \in Workers : v # w => pc'[v] = pc[v] /\ cur'[v] = cur[v] /\ pos'[v] = pos[v]
        PROVE  EntryOK(s)'
    BY <1>5, EntryKept, NoWriter
  <1>6. ASSUME NEW w \in Workers,
               \/ Take(w) \/ NextEvent(w) \/ LinkHandler(w) \/ MarkDone(w) \/ MarkFailed(w)
               \/ EndOfBatch(w) \/ Throw(w) \/ Census(w) \/ CensusFails(w) \/ Crash(w) \/ Abort(w)
        PROVE  /\ UNCHANGED made /\ pc'[w] # "write"
               /\ \A v \in Workers : v # w => pc'[v] = pc[v] /\ cur'[v] = cur[v] /\ pos'[v] = pos[v]
    <2>1. CASE Take(w) \/ NextEvent(w) \/ EndOfBatch(w) \/ Throw(w)
      BY <1>1, <2>1 DEF Take, NextEvent, EndOfBatch, Throw, TypeOK, effects, mind
    <2>2. CASE LinkHandler(w) \/ MarkDone(w) \/ MarkFailed(w)
      BY <1>1, <2>2 DEF LinkHandler, MarkDone, MarkFailed, NextRow, Advance, TypeOK, effects
    <2>3. CASE Census(w) \/ CensusFails(w) \/ Crash(w) \/ Abort(w)
      BY <1>1, <2>3 DEF Census, CensusFails, Crash, Abort, Stop, Leave, TypeOK, effects
    <2> QED BY <1>6, <2>1, <2>2, <2>3
  <1>7. ASSUME NEW w \in Workers, DayPasses(w) PROVE UNCHANGED <<made, pc, cur, pos>>
    BY <1>7 DEF DayPasses, effects, mind
  <1>8. ASSUME NEW e \in Events,
               InsertEvent(e) \/ \E outcome \in {"committed", "rolledback"} : EndTransaction(e, outcome)
        PROVE  UNCHANGED <<made, pc, cur, pos>>
    BY <1>8 DEF InsertEvent, EndTransaction, effects, mind
  <1>9. CASE Tick \/ LoseLock \/ UNCHANGED vars
    BY <1>2, <1>9 DEF Tick, LoseLock, vars, effects, mind
  <1> QED BY <1>2, <1>3, <1>4, <1>5, <1>6, <1>7, <1>8, <1>9 DEF Next, Drain
\* A dossier more than the failures so far is one a worker has just created and
\* not linked, or fails to; an insert under way starts from no more than that.
Spare(s) == made[s] <= disp[s[1]].attempts + crashes
Halfway(w, s) == pc[w] \in {"link", "fail"} /\ Slot(w) = s

DossierOK(s) ==
    /\ made[s] <= 1 + disp[s[1]].attempts + crashes
    /\ s \in linked \/ Spare(s) \/ \E w \in Workers : Halfway(w, s)
    /\ \A w \in Workers : pc[w] = "write" /\ Slot(w) = s => Spare(s)

LEMMA DossierTypes ==
    ASSUME IInv, NEW s \in Slots
    PROVE  made[s] \in Nat /\ disp[s[1]].attempts \in Nat /\ crashes \in Nat
  BY SlotIsPair DEF IInv, TypeOK, Row

\* A step that leaves the counts of a slot alone, while nobody is half way in it.
LEMMA DossierRests ==
    ASSUME NEW s \in Slots, DossierOK(s), made'[s] = made[s],
           disp'[s[1]].attempts = disp[s[1]].attempts, UNCHANGED crashes,
           s \in linked => s \in linked',
           \A w \in Workers : ~Halfway(w, s),
           \A w \in Workers : pc'[w] = "write" /\ Slot(w)' = s =>
               s \notin linked \/ (pc[w] = "write" /\ Slot(w) = s)
    PROVE  DossierOK(s)'
  <1>1. s \in linked \/ Spare(s)
    BY DEF DossierOK
  <1>2. Spare(s) => Spare(s)'
    BY DEF Spare
  <1>3. \A w \in Workers : pc'[w] = "write" /\ Slot(w)' = s => Spare(s)'
    BY <1>1, <1>2 DEF DossierOK
  <1> QED BY <1>1, <1>2, <1>3 DEF DossierOK

\* A step that counts a failure pays for the record it may leave behind.
LEMMA DossierPaid ==
    ASSUME IInv, IInv', NEW s \in Slots, DossierOK(s), made'[s] = made[s],
           \/ /\ disp'[s[1]].attempts = disp[s[1]].attempts + 1 /\ crashes' = crashes
           \/ /\ disp'[s[1]].attempts = disp[s[1]].attempts /\ crashes' = crashes + 1
    PROVE  DossierOK(s)'
  <1>1. Spare(s)'
    BY DossierTypes DEF DossierOK, Spare
  <1>2. made'[s] <= 1 + disp'[s[1]].attempts + crashes'
    <2>1. made'[s] \in Nat /\ disp'[s[1]].attempts \in Nat /\ crashes' \in Nat
      BY DossierTypes
    <2> QED BY <1>1, <2>1 DEF Spare
  <1> QED BY <1>1, <1>2 DEF DossierOK

LEMMA DossierStep ==
    ASSUME ContractInv, IInv', stalls' = 0, [Next]_vars,
           NEW s \in Slots, Kind(s) = "openDossier", DossierOK(s)
    PROVE  DossierOK(s)'
  <1>1. TypeOK /\ PlaceOK /\ FreshInv /\ IInv
    BY DEF ContractInv, IInv
  <1>p. s[1] \in Events
    BY SlotIsPair
  <1>2. CASE UNCHANGED <<made, disp, linked, crashes, pc, cur, pos>>
    BY <1>2 DEF DossierOK, Spare, Halfway, Slot
  <1>3. ASSUME NEW w \in Workers, CheckHandler(w) PROVE DossierOK(s)'
    <2>1. /\ UNCHANGED <<made, disp, linked, crashes, cur>> /\ pc[w] = "check"
          /\ \A v \in Workers : v # w => pc'[v] = pc[v] /\ pos'[v] = pos[v]
          /\ pc'[w] = "write" => ~Exists(Slot(w)) /\ UNCHANGED pos
      BY <1>1, <1>3 DEF CheckHandler, Advance, TypeOK, effects, outbox, faults
    <2>2. \A v \in Workers : v # w => pc[v] = "idle"
      BY <2>1, Alone
    <2>3. pc'[w] = "write" /\ Slot(w)' = s => s \notin linked
      BY <2>1 DEF Exists, Slot, Kind
    <2>4. \A v \in Workers : ~Halfway(v, s)
      BY <2>1, <2>2 DEF Halfway
    <2>5. \A v \in Workers : pc'[v] = "write" /\ Slot(v)' = s => s \notin linked
      BY <2>1, <2>2, <2>3
    <2> QED BY <2>1, <2>4, <2>5, DossierRests
  <1>4. ASSUME NEW w \in Workers, WriteHandler(w) PROVE DossierOK(s)'
    <2>1. /\ UNCHANGED <<disp, linked, crashes, cur>> /\ pc[w] = "write" /\ pc'[w] # "write"
          /\ \A v \in Workers : v # w => pc'[v] = pc[v] /\ pos'[v] = pos[v]
      BY <1>1, <1>4 DEF WriteHandler, Advance, TypeOK, outbox, faults
    <2>2. \A v \in Workers : v # w => pc[v] = "idle"
      BY <2>1, Alone
    <2>3. Slot(w) \in Slots /\ Registry[Slot(w)[1]][Slot(w)[2]] = Handler(w)
      BY <1>1, <2>1, PairIsSlot DEF PlaceOK, Busy, Slot, Handler
    <2>4. CASE Slot(w) = s
      <3>1. /\ made' = [made EXCEPT ![s] = @ + 1] /\ pc' = [pc EXCEPT ![w] = "link"]
            /\ UNCHANGED pos
        BY <1>4, <2>3, <2>4 DEF WriteHandler, Kind
      <3>2. made'[s] = made[s] + 1 /\ pc'[w] = "link" /\ Slot(w)' = s
        BY <1>1, <2>1, <2>4, <3>1 DEF TypeOK, Slot
      <3>3. Spare(s)
        BY <2>1, <2>4 DEF DossierOK
      <3>4. made'[s] <= 1 + disp'[s[1]].attempts + crashes'
        BY <1>1, <2>1, <3>2, <3>3, DossierTypes DEF Spare
      <3>5. Halfway(w, s)'
        BY <3>2 DEF Halfway
      <3>6. \A v \in Workers : pc'[v] # "write"
        BY <2>1, <2>2
      <3> QED BY <3>4, <3>5, <3>6 DEF DossierOK
    <2>5. CASE Slot(w) # s
      <3>1. made' = made \/ made' = [made EXCEPT ![Slot(w)] = @ + 1]
        BY <1>4 DEF WriteHandler
      <3>2. made'[s] = made[s]
        BY <1>1, <2>3, <2>5, <3>1 DEF TypeOK
      <3>3. \A v \in Workers : ~Halfway(v, s) /\ pc'[v] # "write"
        BY <2>1, <2>2 DEF Halfway
      <3> QED BY <2>1, <3>2, <3>3, DossierRests
    <2> QED BY <2>4, <2>5
  <1>5. ASSUME NEW w \in Workers, LinkHandler(w) PROVE DossierOK(s)'
    <2>1. /\ UNCHANGED <<made, disp, crashes>> /\ pc[w] = "link" /\ pc'[w] # "write"
          /\ linked' = linked \cup {Slot(w)}
          /\ \A v \in Workers : v # w => pc'[v] = pc[v]
      BY <1>1, <1>5 DEF LinkHandler, Advance, TypeOK, outbox, faults
    <2>2. \A v \in Workers : v # w => pc[v] = "idle"
      BY <2>1, Alone
    <2>3. \A v \in Workers : pc'[v] # "write"
      BY <2>1, <2>2
    <2>4. CASE Slot(w) = s
      BY <2>1, <2>3, <2>4 DEF DossierOK
    <2>5. CASE Slot(w) # s
      <3>1. \A v \in Workers : ~Halfway(v, s)
        BY <2>2, <2>5 DEF Halfway
      <3> QED BY <2>1, <2>3, <3>1, DossierRests
    <2> QED BY <2>4, <2>5
  <1>6. ASSUME NEW w \in Workers, Throw(w) PROVE DossierOK(s)'
    <2>1. /\ UNCHANGED <<made, disp, linked, crashes, cur, pos>> /\ pc'[w] = "fail"
          /\ \A v \in Workers : v # w => pc'[v] = pc[v]
      BY <1>1, <1>6 DEF Throw, TypeOK, outbox, effects, mind, faults
    <2>2. \A v \in Workers : Halfway(v, s) => Halfway(v, s)'
      BY <2>1 DEF Halfway, Slot
    <2>3. \A v \in Workers : pc'[v] = "write" /\ Slot(v)' = s => pc[v] = "write" /\ Slot(v) = s
      BY <2>1 DEF Slot
    <2>4. Spare(s)' <=> Spare(s)
      BY <2>1 DEF Spare
    <2> QED BY <2>1, <2>2, <2>3, <2>4 DEF DossierOK
  <1>7. ASSUME NEW w \in Workers, MarkFailed(w) PROVE DossierOK(s)'
    <2>1. /\ UNCHANGED <<made, linked, crashes>> /\ pc[w] = "fail" /\ pc'[w] = "next"
          /\ \A v \in Workers : v # w => pc'[v] = pc[v]
          /\ disp' = [disp EXCEPT ![cur[w]] = FailedRow(seen[w][cur[w]] + 1)]
      BY <1>1, <1>7 DEF MarkFailed, NextRow, Write, TypeOK, effects, faults
    <2>2. \A v \in Workers : v # w => pc[v] = "idle"
      BY <2>1, Alone
    <2>3. cur[w] \in Events /\ disp[cur[w]].attempts = seen[w][cur[w]]
      BY <1>1, <2>1 DEF PlaceOK, Busy, FreshInv
    <2>4. CASE cur[w] = s[1]
      <3>1. disp'[s[1]].attempts = disp[s[1]].attempts + 1
        BY <1>1, <2>1, <2>3, <2>4 DEF FailedRow, TypeOK
      <3> QED BY <1>1, <2>1, <3>1, DossierPaid
    <2>5. CASE cur[w] # s[1]
      <3>1. disp'[s[1]] = disp[s[1]]
        BY <1>1, <1>p, <2>1, <2>5 DEF TypeOK
      <3>2. Slot(w) # s
        BY <2>5 DEF Slot
      <3>3. \A v \in Workers : ~Halfway(v, s) /\ pc'[v] # "write"
        BY <2>1, <2>2, <3>2 DEF Halfway
      <3> QED BY <2>1, <3>1, <3>3, DossierRests
    <2> QED BY <2>4, <2>5
  <1>8. ASSUME NEW w \in Workers, MarkDone(w) \/ NextEvent(w) PROVE DossierOK(s)'
    <2>1. /\ UNCHANGED <<made, linked, crashes>> /\ pc[w] \in {"mark", "next"} /\ pc'[w] # "write"
          /\ \A v \in Workers : v # w => pc'[v] = pc[v]
      BY <1>1, <1>8 DEF MarkDone, NextEvent, NextRow, TypeOK, effects, faults
    <2>2. \A v \in Workers : v # w => pc[v] = "idle"
      BY <2>1, Alone
    <2>3. disp' = disp \/ \E e \in Events : MarkRowDone(e)
      BY <1>1, <1>8 DEF MarkDone, NextEvent, PlaceOK, Busy
    <2>4. disp'[s[1]].attempts = disp[s[1]].attempts
      <3>1. ASSUME NEW e \in Events, MarkRowDone(e)
            PROVE  disp'[s[1]].attempts = disp[s[1]].attempts
        <4>1. disp[e] \in Row
          BY <1>1 DEF TypeOK
        <4>2. [disp[e] EXCEPT !.status = "DONE"].attempts = disp[e].attempts
          BY <4>1 DEF Row
        <4> QED BY <1>1, <1>p, <3>1, <4>2 DEF MarkRowDone, Write, TypeOK
      <3> QED BY <2>3, <3>1
    <2>5. \A v \in Workers : ~Halfway(v, s) /\ pc'[v] # "write"
      BY <2>1, <2>2 DEF Halfway
    <2> QED BY <2>1, <2>4, <2>5, DossierRests
  <1>9. ASSUME NEW w \in Workers, EndOfBatch(w) \/ Census(w) PROVE DossierOK(s)'
    <2>1. /\ UNCHANGED <<made, linked, crashes, disp>> /\ pc[w] \in {"census", "next"}
          /\ pc'[w] # "write" /\ \A v \in Workers : v # w => pc'[v] = pc[v]
      BY <1>1, <1>9 DEF EndOfBatch, Census, Leave, TypeOK, effects, faults, outbox
    <2>2. \A v \in Workers : v # w => pc[v] = "idle"
      BY <2>1, Alone
    <2>3. \A v \in Workers : ~Halfway(v, s) /\ pc'[v] # "write"
      BY <2>1, <2>2 DEF Halfway
    <2> QED BY <2>1, <2>3, DossierRests
  <1>10. ASSUME NEW w \in Workers, Take(w) PROVE DossierOK(s)'
    <2>1. /\ UNCHANGED <<made, linked, crashes, disp>> /\ job.state # "active"
          /\ pc'[w] = "next" /\ \A v \in Workers : v # w => pc'[v] = pc[v]
      BY <1>1, <1>10 DEF Take, TypeOK, effects, faults, outbox
    <2>2. \A v \in Workers : pc[v] = "idle"
      BY <2>1 DEF ContractInv, LockInv
    <2>3. \A v \in Workers : ~Halfway(v, s) /\ pc'[v] # "write"
      BY <2>1, <2>2 DEF Halfway
    <2> QED BY <2>1, <2>3, DossierRests
  <1>11. ASSUME NEW w \in Workers, CensusFails(w) \/ Crash(w) \/ Abort(w) PROVE DossierOK(s)'
    <2>1. UNCHANGED <<made, disp>> /\ crashes' = crashes + 1
      BY <1>11 DEF CensusFails, Crash, Abort, Stop, effects, outbox
    <2> QED BY <1>1, <2>1, DossierPaid
  <1>12. ASSUME NEW w \in Workers, DayPasses(w)
         PROVE  UNCHANGED <<made, disp, linked, crashes, pc, cur, pos>>
    BY <1>12 DEF DayPasses, effects, mind, outbox, faults
  <1>13. ASSUME NEW e \in Events,
                InsertEvent(e) \/ \E outcome \in {"committed", "rolledback"} : EndTransaction(e, outcome)
         PROVE  UNCHANGED <<made, disp, linked, crashes, pc, cur, pos>>
    BY <1>13 DEF InsertEvent, EndTransaction, effects, mind, faults
  <1>14. CASE Tick \/ LoseLock \/ UNCHANGED vars
    BY <1>2, <1>14 DEF Tick, LoseLock, vars, effects, mind, outbox, faults
  <1> QED BY <1>2, <1>3, <1>4, <1>5, <1>6, <1>7, <1>8, <1>9, <1>10, <1>11, <1>12, <1>13, <1>14
          DEF Next, Drain

EntriesInv == \A s \in Slots : Kind(s) = "entry" => EntryOK(s)
DossiersInv ==
    stalls = 0 => FreshInv /\ \A s \in Slots : Kind(s) = "openDossier" => DossierOK(s)

\* Every record of an effect after the first has a failure of its own, of a kind
\* that depends on how its handler knows what it has done: a lost lock for each of
\* a check-then-insert, a failed attempt or a crash for each dossier
\* (dispatcher.js, dispatchPending; the handlers of orchestration/handlers).
THEOREM RecordsAreCaused == Spec => []EveryRecordIsCaused
  <1>1. Init => RecordInv /\ AstrayInv /\ EntriesInv /\ DossiersInv
    <2> SUFFICES ASSUME Init PROVE RecordInv /\ AstrayInv /\ EntriesInv /\ DossiersInv
      OBVIOUS
    <2>1. RecordInv
      BY SlotIsPair DEF Init, RecordInv, LockInv, CheckedInv, OneRecordPerEffect
    <2>2. Astray = {} /\ stalls = 0
      BY DEF Init, Astray
    <2>3. AstrayInv
      BY <2>2, FS_EmptySet DEF AstrayInv
    <2>4. EntriesInv
      BY DEF Init, EntriesInv, EntryOK
    <2>5. FreshInv
      BY NoEventIsNone DEF Init, FreshInv
    <2>6. \A s \in Slots : DossierOK(s)
      BY SlotIsPair DEF Init, DossierOK, Spare
    <2> QED BY <2>1, <2>3, <2>4, <2>5, <2>6 DEF DossiersInv
  <1>2. IInv /\ IInv' /\ RecordInv /\ AstrayInv /\ EntriesInv /\ DossiersInv /\ [Next]_vars
          => RecordInv' /\ AstrayInv' /\ EntriesInv' /\ DossiersInv'
    <2> SUFFICES ASSUME IInv, IInv', RecordInv, AstrayInv, EntriesInv, DossiersInv, [Next]_vars
                 PROVE  RecordInv' /\ AstrayInv' /\ EntriesInv' /\ DossiersInv'
      OBVIOUS
    <2>1. RecordInv' /\ AstrayInv'
      BY RecordStep, AstrayStep
    <2>2. EntriesInv'
      BY EntryStep DEF EntriesInv, Kind
    <2>3. ASSUME stalls' = 0
          PROVE  FreshInv' /\ \A s \in Slots : Kind(s) = "openDossier" => DossierOK(s)'
      <3>1. ContractInv /\ \A s \in Slots : Kind(s) = "openDossier" => DossierOK(s)
        BY <2>3, StallsGrow DEF DossiersInv, ContractInv, RecordInv
      <3> QED BY <2>3, <3>1, FreshStep, DossierStep
    <2> QED BY <2>1, <2>2, <2>3 DEF DossiersInv, Kind
  <1>3. IInv /\ RecordInv /\ AstrayInv /\ EntriesInv /\ DossiersInv => EveryRecordIsCaused
    <2> SUFFICES ASSUME IInv, RecordInv, AstrayInv, EntriesInv, DossiersInv, NEW s \in Slots
                 PROVE  /\ Kind(s) = "sourceRef" => made[s] <= 1
                        /\ Kind(s) = "entry" => made[s] <= 1 + stalls
                        /\ Kind(s) = "openDossier" /\ stalls = 0 =>
                              made[s] <= 1 + disp[s[1]].attempts + crashes
      BY DEF EveryRecordIsCaused, Kind
    <2>1. Kind(s) = "sourceRef" => made[s] <= 1
      BY DEF RecordInv, OneRecordPerEffect, Kind
    <2>2. ASSUME Kind(s) = "entry" PROVE made[s] <= 1 + stalls
      <3>1. made[s] \in Nat /\ stalls \in Nat /\ Cardinality(Writing(s)) \in Nat
        BY Writers DEF IInv, TypeOK
      <3>2. EntryOK(s)
        BY <2>2 DEF EntriesInv
      <3>3. CASE made[s] = 0
        BY <3>1, <3>3
      <3>4. CASE made[s] + Cardinality(Writing(s)) <= 1 + stalls
        BY <3>1, <3>4
      <3> QED BY <3>2, <3>3, <3>4 DEF EntryOK
    <2>3. Kind(s) = "openDossier" /\ stalls = 0 => made[s] <= 1 + disp[s[1]].attempts + crashes
      BY DEF DossiersInv, DossierOK
    <2> QED BY <2>1, <2>2, <2>3
  <1> QED BY <1>1, <1>2, <1>3, Invariance, PTL DEF Spec
=============================================================================
