---------------------- MODULE SupplierSettlementProofs ----------------------
(* Proofs about the settlement of a supplier invoice: its types, that the    *)
(* sum of the payments is kept and within what is due, and that requests one *)
(* after the other keep the books, for any number of requests, periods,      *)
(* amounts and entries.                                                      *)
EXTENDS SupplierSettlement, FiniteSetTheorems, TLAPS

\* A request that pays, pays an invoice that has been posted, with an entry of
\* its own once it has one.
PayingInv ==
    \A r \in Requests :
        /\ req[r].at \in {"pay", "paying"} => entry # NoEntry
        /\ req[r].at = "paying" => req[r].entry \in 1 .. last
        /\ req[r].at = "unwinding" => req[r].entry \in Entries

\* As long as no two payments were open in different periods one request at a
\* time holds a lock, and the sum it has read is what the rows will add up to.
SumInv ==
    /\ \A r \in Requests : req[r].at = "paying" <=> req[r].held # {}
    /\ ~split =>
        /\ \A r, q \in Requests :
              req[r].held # {} /\ req[q].held # {} => r = q
        /\ \A r \in Requests :
              req[r].at = "paying" => req[r].sum = total + req[r].amount

IInv == TypeOK /\ PayingInv /\ SumInv /\ OneSequenceKeepsTheSum /\ OverpaidBySplitOnly

Places == {"idle", "match", "post", "pay", "paying", "reverse", "reversing"} \cup Begun
Request == [at : Places, entry : 0 .. MaxEntries, amount : 0 .. Due,
            next : {"POSTED_LOCKED", "PAID"}, sum : Nat,
            held : SUBSET Periods, todo : SUBSET Entries]

-----------------------------------------------------------------------------
LEMMA IdleType == Idle \in Request /\ Idle.at = "idle" /\ Idle.held = {}
  BY SettlementAssumption DEF Idle, Request, Places, NoEntry

\* What a step that moves one request to a state outside the payments preserves.
LEMMA MoveStep ==
    ASSUME IInv, NEW r \in Requests, NEW state \in Request, To(r, state),
           state.at \notin {"pay", "paying"}, state.held = {},
           state.at \in {"reverse", "reversing"} => state.entry # NoEntry,
           state.at = "unwinding" => state.entry \in Entries,
           last' \in last .. MaxEntries, entry' \in 0 .. last',
           entry = NoEntry \/ entry' # NoEntry,
           UNCHANGED <<paid, total, split>>
    PROVE  /\ req' \in [Requests -> Request]
           /\ \A q \in Requests : req'[q].at \in {"reverse", "reversing"} => req'[q].entry # NoEntry
           /\ PayingInv' /\ SumInv' /\ OneSequenceKeepsTheSum' /\ OverpaidBySplitOnly'
  <1>1. req \in [Requests -> Request] /\ last \in 0 .. MaxEntries
    BY DEF IInv, TypeOK, Request, Places
  <1>2. req'[r] = state /\ \A q \in Requests : q # r => req'[q] = req[q]
    BY <1>1 DEF To
  <1>3. req' \in [Requests -> Request]
    BY <1>1 DEF To
  <1>4. \A q \in Requests : req'[q].at \in {"reverse", "reversing"} => req'[q].entry # NoEntry
    BY <1>2 DEF IInv, TypeOK
  <1>5. PayingInv'
    BY <1>1, <1>2, SettlementAssumption DEF IInv, PayingInv
  <1>6. SumInv'
    BY <1>1, <1>2 DEF IInv, SumInv
  <1>7. OneSequenceKeepsTheSum' /\ OverpaidBySplitOnly'
    BY DEF IInv, OneSequenceKeepsTheSum, OverpaidBySplitOnly
  <1> QED BY <1>3, <1>4, <1>5, <1>6, <1>7

LEMMA InitIInv == Init => IInv
  <1> SUFFICES ASSUME Init PROVE IInv
    OBVIOUS
  <1>1. req \in [Requests -> Request]
    BY IdleType DEF Init
  <1>2. TypeOK
    <2>1. last \in 0 .. MaxEntries /\ entry \in 0 .. last
      BY SettlementAssumption DEF Init, NoEntry
    <2>2. \A r \in Requests : req[r].at \notin {"reverse", "reversing"}
      BY IdleType DEF Init
    <2> QED BY <1>1, <2>1, <2>2 DEF Init, TypeOK, Request, Places
  <1> QED
    BY <1>2, IdleType, SettlementAssumption
       DEF Init, IInv, PayingInv, SumInv, OneSequenceKeepsTheSum, OverpaidBySplitOnly, NoEntry

\* Match and post.
LEMMA PostStep ==
    ASSUME IInv, NEW r \in Requests,
           Match(r) \/ Matched(r) \/ Post(r) \/ Posted(r)
    PROVE  IInv'
  <1> DEFINE match == [Idle EXCEPT !.at = "match"]
             post == [Idle EXCEPT !.at = "post"]
  <1>t. /\ match \in Request /\ match.at = "match" /\ match.held = {}
        /\ post \in Request /\ post.at = "post" /\ post.held = {}
    BY IdleType DEF Idle, Request, Places
  <1>l. last \in 0 .. MaxEntries /\ entry \in 0 .. last /\ last \in last .. MaxEntries
    BY SettlementAssumption DEF IInv, TypeOK
  <1>1. CASE Match(r)
    BY <1>1, <1>t, <1>l, MoveStep
       DEF Match, Begin, invoice, ledger, IInv, TypeOK, Request, Places
  <1>2. CASE Matched(r)
    BY <1>2, <1>l, IdleType, MoveStep
       DEF Matched, End, ledger, IInv, TypeOK, Request, Places
  <1>3. CASE Post(r)
    BY <1>3, <1>t, <1>l, MoveStep
       DEF Post, Begin, invoice, ledger, IInv, TypeOK, Request, Places
  <1>4. CASE Posted(r)
    <2>1. last' = last + 1 /\ last' \in last .. MaxEntries /\ entry' = last' /\ entry' # NoEntry
      BY <1>4, <1>l, SettlementAssumption DEF Posted, Number, NoEntry
    <2>2. posted' \subseteq 1 .. last' /\ payments' \subseteq 1 .. last'
      BY <1>4, <1>l, <2>1 DEF Posted, IInv, TypeOK
    <2> QED
      BY <1>4, <1>l, <2>1, <2>2, IdleType, MoveStep
         DEF Posted, End, IInv, TypeOK, Request, Places
  <1> QED BY <1>1, <1>2, <1>3, <1>4

-----------------------------------------------------------------------------
\* The decision of a payment.
LEMMA PayStep ==
    ASSUME IInv, NEW r \in Requests, Pay(r)
    PROVE  IInv'
  <1>1. PICK a \in 1 .. Due :
           Begin(r, [Idle EXCEPT !.at = "pay", !.amount = a, !.next = PayState(total + a)])
    BY DEF Pay
  <1> DEFINE state == [Idle EXCEPT !.at = "pay", !.amount = a, !.next = PayState(total + a)]
  <1>2. state \in Request /\ state.at = "pay" /\ state.held = {}
    <2>1. a \in 0 .. Due /\ PayState(total + a) \in {"POSTED_LOCKED", "PAID"}
      BY SettlementAssumption DEF PayState
    <2> QED BY <2>1, IdleType DEF Request, Places
  <1>3. req \in [Requests -> Request]
    BY DEF IInv, TypeOK, Request, Places
  <1>4. req' \in [Requests -> Request] /\ req'[r] = state
        /\ \A q \in Requests : q # r => req'[q] = req[q]
    BY <1>1, <1>2, <1>3 DEF Begin, To
  <1>5. UNCHANGED <<status, entry, paid, last, posted, payments, total, contras, cut, split>>
        /\ overlapped' \in BOOLEAN
    BY <1>1 DEF Pay, Begin, invoice, ledger, IInv, TypeOK
  <1>6. entry # NoEntry
    BY DEF Pay, IInv, TypeOK
  <1>7. TypeOK'
    BY <1>2, <1>4, <1>5 DEF IInv, TypeOK, Request, Places
  <1>8. PayingInv' /\ SumInv'
    BY <1>2, <1>4, <1>5, <1>6 DEF IInv, PayingInv, SumInv
  <1> QED BY <1>5, <1>7, <1>8 DEF IInv, OneSequenceKeepsTheSum, OverpaidBySplitOnly

\* The rows are inserted and summed under the lock of a period.
LEMMA InsertStep ==
    ASSUME IInv, NEW r \in Requests, Insert(r)
    PROVE  IInv'
  <1>1. PICK p \in Periods :
          /\ Holders(p) = {}
          /\ To(r, [req[r] EXCEPT !.at = "paying", !.entry = last', !.held = {p},
                                  !.sum = total + req[r].amount])
          /\ split' = (split \/ \E q \in Requests : req[q].held \ {p} # {})
    BY DEF Insert
  <1> DEFINE state == [req[r] EXCEPT !.at = "paying", !.entry = last', !.held = {p},
                                     !.sum = total + req[r].amount]
  <1>3. req \in [Requests -> Request] /\ last \in 0 .. MaxEntries /\ total \in Nat
    BY DEF IInv, TypeOK, Request, Places
  <1>4. last' = last + 1 /\ last' \in 1 .. MaxEntries
    BY <1>3, SettlementAssumption DEF Insert, Number
  <1>2. /\ state \in Request /\ state.at = "paying" /\ state.held = {p}
        /\ state.entry = last' /\ state.sum = total + state.amount
    <2>1. req[r] \in Request /\ req[r].amount \in Nat /\ last' \in 0 .. MaxEntries
      BY <1>3, <1>4, SettlementAssumption DEF Request
    <2>2. total + req[r].amount \in Nat
      BY <1>3, <2>1
    <2> QED BY <2>1, <2>2 DEF Request, Places
  <1>5. req' \in [Requests -> Request] /\ req'[r] = state
        /\ \A q \in Requests : q # r => req'[q] = req[q]
    BY <1>1, <1>2, <1>3 DEF To
  <1>6. UNCHANGED <<status, entry, paid, posted, payments, total, contras, overlapped, cut>>
    BY DEF Insert, invoice
  <1>7. TypeOK'
    <2>1. split' \in BOOLEAN
      BY <1>1 DEF IInv, TypeOK
    <2>2. posted' \subseteq 1 .. last' /\ payments' \subseteq 1 .. last' /\ entry' \in 0 .. last'
      BY <1>3, <1>4, <1>6 DEF IInv, TypeOK
    <2>3. last' \in 0 .. MaxEntries
      BY <1>4
    <2>4. \A q \in Requests : req'[q].at \in {"reverse", "reversing"} => req'[q].entry # NoEntry
      BY <1>2, <1>5 DEF IInv, TypeOK
    <2> HIDE DEF state
    <2> QED BY <1>5, <1>6, <2>1, <2>2, <2>3, <2>4 DEF IInv, TypeOK, Request, Places
  <1>8. PayingInv'
    <2>1. \A q \in Requests : req[q].at = "paying" => req[q].entry \in 1 .. last'
      BY <1>3, <1>4 DEF IInv, PayingInv
    <2>2. entry # NoEntry
      BY DEF Insert, IInv, PayingInv
    <2>3. state.entry \in 1 .. last'
      BY <1>2, <1>4
    <2> HIDE DEF state
    <2>4. ASSUME NEW q \in Requests, req'[q].at = "paying" PROVE req'[q].entry \in 1 .. last'
      BY <2>1, <2>3, <2>4, <1>5
    <2>5. ASSUME NEW q \in Requests, req'[q].at = "unwinding" PROVE req'[q].entry \in Entries
      BY <2>5, <1>2, <1>5 DEF IInv, PayingInv
    <2> QED BY <1>6, <2>2, <2>4, <2>5 DEF PayingInv
  <1>9. SumInv'
    <2>1. \A q \in Requests : req'[q].at = "paying" <=> req'[q].held # {}
      BY <1>2, <1>5 DEF IInv, SumInv
    <2>2. ASSUME ~split' PROVE \A q \in Requests : req[q].held = {}
      BY <2>2, <1>1 DEF Holders
    <2>3. ASSUME ~split'
          PROVE  /\ \A q, s \in Requests : req'[q].held # {} /\ req'[s].held # {} => q = s
                 /\ \A q \in Requests : req'[q].at = "paying" => req'[q].sum = total' + req'[q].amount
      <3>1. \A q \in Requests : req'[q].held # {} => q = r
        BY <2>2, <2>3, <1>5
      <3>2. req'[r].sum = total' + req'[r].amount
        BY <1>2, <1>5, <1>6
      <3> HIDE DEF state
      <3> QED BY <2>1, <3>1, <3>2
    <2> QED BY <2>1, <2>3 DEF SumInv
  <1> QED BY <1>1, <1>6, <1>7, <1>8, <1>9 DEF IInv, OneSequenceKeepsTheSum, OverpaidBySplitOnly

\* The payment is committed: its row, the sum and the status.
LEMMA PaidStep ==
    ASSUME IInv, NEW r \in Requests, Paid(r)
    PROVE  IInv'
  <1>1. req \in [Requests -> Request] /\ last \in 0 .. MaxEntries /\ total \in Nat
    BY DEF IInv, TypeOK, Request, Places
  <1>2. req' \in [Requests -> Request] /\ req'[r] = Idle
        /\ \A q \in Requests : q # r => req'[q] = req[q]
    BY <1>1, IdleType DEF Paid, End, To
  <1>3. /\ req[r].at = "paying" /\ req[r].entry \in 1 .. last /\ entry # NoEntry
        /\ req[r].amount \in Nat /\ req[r].sum \in Nat
        /\ req[r].next \in {"POSTED_LOCKED", "PAID"}
    BY <1>1, SettlementAssumption DEF Paid, IInv, PayingInv, Request
  <1>4. /\ UNCHANGED <<entry, last, posted, contras, overlapped, cut, split>>
        /\ payments' = payments \cup {req[r].entry}
        /\ total' = total + req[r].amount /\ paid' = req[r].sum /\ status' = req[r].next
    BY DEF Paid, End
  <1>5. TypeOK'
    <2>1. payments' \subseteq 1 .. last' /\ total' \in Nat /\ paid' \in Nat
      <3>1. payments \subseteq 1 .. last
        BY DEF IInv, TypeOK
      <3>2. payments' \subseteq 1 .. last'
        BY <1>3, <1>4, <3>1
      <3>3. total' \in Nat
        BY <1>1, <1>3, <1>4
      <3>4. paid' \in Nat
        BY <1>3, <1>4
      <3> QED BY <3>2, <3>3, <3>4
    <2>2. \A q \in Requests : req'[q].at \in {"reverse", "reversing"} => req'[q].entry # NoEntry
      BY <1>2, IdleType DEF IInv, TypeOK
    <2> QED BY <1>2, <1>3, <1>4, <2>1, <2>2 DEF IInv, TypeOK, Request, Places
  <1>6. PayingInv'
    BY <1>2, <1>4, IdleType DEF IInv, PayingInv
  <1>7. SumInv'
    BY <1>2, <1>3, <1>4, IdleType DEF IInv, SumInv
  <1>8. OneSequenceKeepsTheSum' /\ OverpaidBySplitOnly'
    <2>1. ~split' => paid' = total'
      BY <1>3, <1>4 DEF IInv, SumInv
    <2>2. paid' <= Due
      BY <1>4 DEF Paid, WithinTotal
    <2> QED BY <2>1, <2>2 DEF OneSequenceKeepsTheSum, OverpaidBySplitOnly
  <1> QED BY <1>5, <1>6, <1>7, <1>8 DEF IInv

-----------------------------------------------------------------------------
LEMMA ContraType ==
    ASSUME IInv, NEW n \in Entries, Contra(n)
    PROVE  contras' \in [Entries -> Nat]
  BY DEF IInv, TypeOK, Contra

LEMMA ReverseStep ==
    ASSUME IInv, NEW r \in Requests,
           Reverse(r) \/ LookAtPosting(r) \/ UndoPosting(r) \/ ListPayments(r)
             \/ LookAtPayment(r) \/ UndoPayment(r) \/ Reversed(r)
    PROVE  IInv'
  <1>l. /\ req \in [Requests -> Request]
        /\ last \in 0 .. MaxEntries /\ entry \in 0 .. last /\ last \in last .. MaxEntries
        /\ Entries \subseteq 0 .. MaxEntries
    BY SettlementAssumption DEF IInv, TypeOK, Request, Places, Entries
  <1>h. req[r].at # "paying" => req[r].held = {}
    BY DEF IInv, SumInv
  <1>1. CASE Reverse(r)
    <2> DEFINE state == [Idle EXCEPT !.at = "reverse", !.entry = entry]
    <2>1. state \in Request /\ state.at = "reverse" /\ state.held = {} /\ state.entry = entry
      <3>1. entry \in 0 .. MaxEntries
        BY <1>l, SettlementAssumption
      <3> QED BY <3>1, IdleType DEF Request, Places
    <2>2. entry # NoEntry
      BY <1>1 DEF Reverse, IInv, TypeOK
    <2> QED
      BY <1>1, <1>l, <2>1, <2>2, MoveStep
         DEF Reverse, Begin, invoice, ledger, IInv, TypeOK, Request, Places
  <1>6. CASE LookAtPosting(r)
    <2> DEFINE state == [req[r] EXCEPT !.at = "reversing"]
    <2>1. /\ state \in Request /\ state.at = "reversing" /\ state.held = {}
          /\ state.entry = req[r].entry
      BY <1>6, <1>l, <1>h DEF LookAtPosting, Request, Places
    <2>2. req[r].entry # NoEntry
      BY <1>6 DEF LookAtPosting, IInv, TypeOK
    <2> QED
      BY <1>6, <1>l, <2>1, <2>2, MoveStep
         DEF LookAtPosting, invoice, ledger, history, IInv, TypeOK, Request, Places
  <1>2. CASE UndoPosting(r)
    <2> DEFINE state == [req[r] EXCEPT !.at = "list"]
    <2>1. state \in Request /\ state.at = "list" /\ state.held = {}
      BY <1>2, <1>l, <1>h DEF UndoPosting, Request, Places, Begun
    <2>2. req[r].entry \in Entries
      BY <1>2, <1>l, SettlementAssumption DEF UndoPosting, IInv, TypeOK, Request, NoEntry, Entries
    <2>3. contras' \in [Entries -> Nat]
      BY <1>2, <2>2, ContraType DEF UndoPosting
    <2> QED
      BY <1>2, <1>l, <2>1, <2>3, MoveStep
         DEF UndoPosting, invoice, history, IInv, TypeOK, Request, Places
  <1>3. CASE ListPayments(r)
    <2> DEFINE state == [req[r] EXCEPT !.at = "unwind", !.todo = payments]
    <2>0. payments \subseteq Entries
      BY <1>l, SettlementAssumption DEF IInv, TypeOK, Entries
    <2>1. state \in Request /\ state.at = "unwind" /\ state.held = {}
      BY <1>3, <1>l, <1>h, <2>0 DEF ListPayments, Request, Places, Begun
    <2> QED
      BY <1>3, <1>l, <2>1, MoveStep
         DEF ListPayments, invoice, ledger, history, IInv, TypeOK, Request, Places
  <1>7. CASE LookAtPayment(r)
    <2>1. PICK n \in req[r].todo : To(r, [req[r] EXCEPT !.at = "unwinding", !.entry = n])
      BY <1>7 DEF LookAtPayment
    <2> DEFINE state == [req[r] EXCEPT !.at = "unwinding", !.entry = n]
    <2>2. n \in Entries /\ n \in 0 .. MaxEntries
      BY <1>l DEF Request
    <2>3. /\ state \in Request /\ state.at = "unwinding" /\ state.held = {}
          /\ state.entry = n
      BY <1>7, <1>l, <1>h, <2>2 DEF LookAtPayment, Request, Places, Begun
    <2>4. UNCHANGED <<invoice, ledger, history>> /\ To(r, state)
      BY <1>7, <2>1 DEF LookAtPayment
    <2> HIDE DEF state
    <2>5. /\ req' \in [Requests -> Request]
          /\ \A q \in Requests : req'[q].at \in {"reverse", "reversing"} => req'[q].entry # NoEntry
          /\ PayingInv' /\ SumInv' /\ OneSequenceKeepsTheSum' /\ OverpaidBySplitOnly'
      BY <1>l, <2>2, <2>3, <2>4, MoveStep DEF invoice, ledger, history
    <2> QED BY <2>4, <2>5 DEF invoice, ledger, history, IInv, TypeOK, Request, Places
  <1>4. CASE UndoPayment(r)
    <2> DEFINE state == [req[r] EXCEPT !.at = "unwind", !.todo = @ \ {req[r].entry}]
    <2>1. state \in Request /\ state.at = "unwind" /\ state.held = {}
      BY <1>4, <1>l, <1>h DEF UndoPayment, Request, Places, Begun
    <2>2. req[r].entry \in Entries
      BY <1>4 DEF UndoPayment, IInv, PayingInv
    <2>3. contras' \in [Entries -> Nat]
      BY <1>4, <2>2, ContraType DEF UndoPayment
    <2> QED
      BY <1>4, <1>l, <2>1, <2>3, MoveStep
         DEF UndoPayment, invoice, history, IInv, TypeOK, Request, Places
  <1>5. CASE Reversed(r)
    BY <1>5, <1>l, IdleType, MoveStep
       DEF Reversed, End, ledger, IInv, TypeOK, Request, Places
  <1> QED BY <1>1, <1>2, <1>3, <1>4, <1>5, <1>6, <1>7

LEMMA FailStep ==
    ASSUME IInv, NEW r \in Requests, Fail(r)
    PROVE  IInv'
  <1>l. last \in 0 .. MaxEntries /\ entry \in 0 .. last /\ last \in last .. MaxEntries
    BY SettlementAssumption DEF IInv, TypeOK
  <1>c. cut' \in BOOLEAN
    BY DEF Fail, IInv, TypeOK
  <1> QED
    BY <1>l, <1>c, IdleType, MoveStep
       DEF Fail, End, invoice, ledger, IInv, TypeOK, Request, Places

LEMMA NextIInv == IInv /\ [Next]_vars => IInv'
  <1> SUFFICES ASSUME IInv, [Next]_vars PROVE IInv'
    OBVIOUS
  <1>1. CASE UNCHANGED vars
    BY <1>1 DEF vars, IInv, TypeOK, PayingInv, SumInv, OneSequenceKeepsTheSum, OverpaidBySplitOnly
  <1>2. ASSUME NEW r \in Requests,
               Match(r) \/ Matched(r) \/ Post(r) \/ Posted(r)
        PROVE  IInv'
    BY <1>2, PostStep
  <1>3. ASSUME NEW r \in Requests, Pay(r) \/ Insert(r) \/ Paid(r)
        PROVE  IInv'
    BY <1>3, PayStep, InsertStep, PaidStep
  <1>4. ASSUME NEW r \in Requests,
               Reverse(r) \/ LookAtPosting(r) \/ UndoPosting(r) \/ ListPayments(r)
                 \/ LookAtPayment(r) \/ UndoPayment(r) \/ Reversed(r)
        PROVE  IInv'
    BY <1>4, ReverseStep
  <1>5. ASSUME NEW r \in Requests, Fail(r) PROVE IInv'
    BY <1>5, FailStep
  <1> QED BY <1>1, <1>2, <1>3, <1>4, <1>5 DEF Next

THEOREM Invariance == Spec => []IInv
  BY InitIInv, NextIInv, PTL DEF Spec

\* The invoice, its ledger and the requests keep their types, and a posted or
\* paid invoice has the entry that posted it.
THEOREM TypeCorrect == Spec => []TypeOK
  <1>1. IInv => TypeOK
    BY DEF IInv
  <1> QED BY <1>1, Invariance, PTL

\* amount_paid is the sum of the payment rows, however many payments race, as
\* long as no two of them were open in different periods.
THEOREM SumKept == Spec => []OneSequenceKeepsTheSum
  <1>1. IInv => OneSequenceKeepsTheSum
    BY DEF IInv
  <1> QED BY <1>1, Invariance, PTL

\* The payment rows add up to what is due at most, however many payments race: the
\* sequence lock makes the sum complete that the CHECK compares.
THEOREM WithinDue == Spec => []OverpaidBySplitOnly
  <1>1. IInv => OverpaidBySplitOnly
    BY DEF IInv
  <1> QED BY <1>1, Invariance, PTL

-----------------------------------------------------------------------------
(* Requests one after the other.  What the request in progress has read is    *)
(* still so, and the contras are those its place in the reversal implies; a   *)
(* reversal that was cut off has left the posting reversed, and none gets as  *)
(* far again.                                                                 *)

Open == status \in {"POSTED_LOCKED", "PAID"}
Undone(S) == \A n \in Entries : contras[n] = IF n \in S THEN 1 ELSE 0

Sound(r) ==
    /\ req[r].at = "match" => status = "DRAFT"
    /\ req[r].at = "post" => status \in {"DRAFT", "MATCHED"}
    /\ req[r].at \in {"pay", "paying"} =>
          /\ status = "POSTED_LOCKED" /\ total + req[r].amount <= Due
          /\ req[r].next = PayState(total + req[r].amount)
    /\ req[r].at = "paying" => req[r].entry \notin posted
    /\ req[r].at \in {"reverse", "reversing"} \cup Begun => Open
    /\ req[r].at \in {"reverse", "reversing"} => req[r].entry = entry
    /\ req[r].at = "list" => Undone(posted)
    /\ req[r].at \in {"unwind", "unwinding"} =>
          req[r].todo \subseteq payments /\ Undone((posted \cup payments) \ req[r].todo)
    /\ req[r].at = "unwinding" => req[r].entry \in req[r].todo

Unwinding == \E r \in Requests : req[r].at \in Begun
Alone == \A r, q \in Requests : req[r].at # "idle" /\ req[q].at # "idle" => r = q

Books ==
    /\ status \in {"DRAFT", "MATCHED"} <=> posted = {}
    /\ posted = {} => payments = {} /\ total = 0
    /\ posted \subseteq {entry} /\ posted \cap payments = {}
    /\ StateMatchesPayments
    /\ status = "REVERSED" => Undone(posted \cup payments)
    /\ ~cut /\ status # "REVERSED" /\ ~Unwinding => Undone({})
    /\ cut => Open /\ ~Unwinding /\ contras[entry] = 1

SerialInv == ~overlapped => Alone /\ Books /\ \A r \in Requests : Sound(r)

\* In a serial history the others are idle while one request steps.
LEMMA OthersIdle ==
    ASSUME IInv, SerialInv, NEW r \in Requests, NEW state, To(r, state), ~overlapped',
           \/ overlapped' = overlapped /\ req[r].at # "idle"
           \/ overlapped' = (overlapped \/ \E q \in Requests \ {r} : req[q].at # "idle")
    PROVE  /\ ~overlapped /\ Books /\ Sound(r)
           /\ req'[r] = state
           /\ \A q \in Requests : q # r => req[q].at = "idle" /\ req'[q].at = "idle"
           /\ Alone'
           /\ \A q \in Requests : q # r => Sound(q)'
           /\ Unwinding => req[r].at \in Begun
           /\ Unwinding' => state.at \in Begun
  <1> USE DEF Begun
  <1>1. req'[r] = state /\ \A q \in Requests : q # r => req'[q] = req[q]
    BY DEF To, IInv, TypeOK
  <1>2. ~overlapped /\ Alone /\ Books /\ Sound(r)
    <2>1. ~overlapped
      <3>1. CASE overlapped' = overlapped
        BY <3>1
      <3>2. CASE overlapped' = (overlapped \/ \E q \in Requests \ {r} : req[q].at # "idle")
        BY <3>2
      <3> QED BY <3>1, <3>2
    <2> QED BY <2>1 DEF SerialInv
  <1>3. \A q \in Requests : q # r => req[q].at = "idle"
    BY <1>2 DEF Alone
  <1>4. \A q \in Requests : q # r => Sound(q)'
    BY <1>1, <1>3 DEF Sound
  <1> QED BY <1>1, <1>2, <1>3, <1>4 DEF Alone, Unwinding

\* The same of a request that ends.
LEMMA EndAlone ==
    ASSUME IInv, SerialInv, NEW r \in Requests, To(r, Idle), ~overlapped',
           overlapped' = overlapped, req[r].at # "idle"
    PROVE  /\ Books /\ Sound(r) /\ Alone' /\ req'[r].at = "idle"
           /\ \A q \in Requests : q # r => Sound(q)'
           /\ Unwinding => req[r].at \in Begun
           /\ ~Unwinding'
  <1>1. Idle.at = "idle"
    BY IdleType
  <1> QED BY <1>1, OthersIdle DEF Begun

LEMMA SerialStep ==
    ASSUME IInv, IInv', SerialInv, NEW r \in Requests, ~overlapped',
           \/ Match(r) \/ Matched(r) \/ Post(r) \/ Posted(r)
           \/ Pay(r) \/ Insert(r) \/ Paid(r)
           \/ Reverse(r) \/ LookAtPosting(r) \/ UndoPosting(r)
           \/ ListPayments(r) \/ LookAtPayment(r) \/ UndoPayment(r) \/ Reversed(r)
           \/ Fail(r)
    PROVE  Alone' /\ Books' /\ \A q \in Requests : Sound(q)'
  <1> USE DEF Begun, Open
  <1>t. /\ req \in [Requests -> Request]
        /\ last \in 0 .. MaxEntries /\ entry \in 0 .. last /\ total \in Nat
        /\ posted \subseteq 1 .. last /\ payments \subseteq 1 .. last
        /\ contras \in [Entries -> Nat]
        /\ Due \in Nat /\ Due > 0
    BY SettlementAssumption DEF IInv, TypeOK, Request, Places
  <1>d. /\ Idle.at = "idle"
        /\ \A s : [Idle EXCEPT !.at = s].at = s
        /\ \A s, e : /\ [Idle EXCEPT !.at = s, !.entry = e].at = s
                     /\ [Idle EXCEPT !.at = s, !.entry = e].entry = e
    BY DEF Idle
  <1>1. CASE Match(r)
    <2> DEFINE state == [Idle EXCEPT !.at = "match"]
    <2>0. state.at = "match"
      BY <1>d
    <2>1. /\ To(r, state) /\ status = "DRAFT" /\ req[r].at = "idle"
          /\ UNCHANGED <<status, entry, paid, last, posted, payments, total, contras, cut>>
          /\ overlapped' = (overlapped \/ \E q \in Requests \ {r} : req[q].at # "idle")
      BY <1>1 DEF Match, Begin, invoice, ledger
    <2> HIDE DEF state
    <2>2. Books /\ ~Unwinding /\ Alone' /\ req'[r].at = "match"
          /\ \A q \in Requests : q # r => Sound(q)'
      BY <2>0, <2>1, OthersIdle
    <2>3. Books'
      BY <2>1, <2>2 DEF Books, StateMatchesPayments, Undone
    <2>4. Sound(r)'
      BY <2>1, <2>2 DEF Sound
    <2> QED BY <2>2, <2>3, <2>4
  <1>2. CASE Matched(r)
    <2>1. /\ To(r, Idle) /\ req[r].at = "match" /\ overlapped' = overlapped
          /\ status' \in {"MATCHED", status}
          /\ UNCHANGED <<entry, paid, last, posted, payments, total, contras, cut>>
      BY <1>2 DEF Matched, End, ledger
    <2>2. /\ Books /\ Sound(r) /\ Alone' /\ req'[r].at = "idle" /\ ~Unwinding
          /\ \A q \in Requests : q # r => Sound(q)'
      BY <2>1, EndAlone
    <2>3. status = "DRAFT" /\ status' \in {"DRAFT", "MATCHED"}
      BY <2>1, <2>2 DEF Sound
    <2>4. Books'
      BY <2>1, <2>2, <2>3 DEF Books, StateMatchesPayments, Undone
    <2>5. Sound(r)'
      BY <2>2 DEF Sound
    <2> QED BY <2>2, <2>4, <2>5
  <1>3. CASE Post(r)
    <2> DEFINE state == [Idle EXCEPT !.at = "post"]
    <2>0. state.at = "post"
      BY <1>d
    <2>1. /\ To(r, state) /\ status \in {"DRAFT", "MATCHED"}
          /\ UNCHANGED <<status, entry, paid, last, posted, payments, total, contras, cut>>
          /\ overlapped' = (overlapped \/ \E q \in Requests \ {r} : req[q].at # "idle")
          /\ req[r].at = "idle"
      BY <1>3 DEF Post, Begin, invoice, ledger
    <2> HIDE DEF state
    <2>2. Books /\ ~Unwinding /\ Alone' /\ req'[r].at = "post"
          /\ \A q \in Requests : q # r => Sound(q)'
      BY <2>0, <2>1, OthersIdle
    <2>3. Books'
      BY <2>1, <2>2 DEF Books, StateMatchesPayments, Undone
    <2>4. Sound(r)'
      BY <2>1, <2>2 DEF Sound
    <2> QED BY <2>2, <2>3, <2>4
  <1>4. CASE Posted(r)
    <2>1. /\ To(r, Idle) /\ req[r].at = "post" /\ overlapped' = overlapped
          /\ posted' = posted \cup {entry'} /\ status' = "POSTED_LOCKED"
          /\ UNCHANGED <<paid, payments, total, contras, cut>>
      BY <1>4 DEF Posted, End
    <2>2. /\ Books /\ Sound(r) /\ Alone' /\ req'[r].at = "idle" /\ ~Unwinding /\ ~Unwinding'
          /\ \A q \in Requests : q # r => Sound(q)'
      BY <2>1, EndAlone
    <2>3. status \in {"DRAFT", "MATCHED"} /\ posted = {} /\ payments = {} /\ total = 0
      BY <2>1, <2>2 DEF Sound, Books
    <2>4. Books'
      BY <1>t, <2>1, <2>2, <2>3 DEF Books, StateMatchesPayments, Undone
    <2>5. Sound(r)'
      BY <2>2 DEF Sound
    <2> QED BY <2>2, <2>4, <2>5
  <1>5. CASE Pay(r)
    <2>1. PICK a \in 1 .. Due :
            /\ total + a <= Due
            /\ Begin(r, [Idle EXCEPT !.at = "pay", !.amount = a, !.next = PayState(total + a)])
      BY <1>5 DEF Pay
    <2> DEFINE state == [Idle EXCEPT !.at = "pay", !.amount = a, !.next = PayState(total + a)]
    <2>2. state.at = "pay" /\ state.amount = a /\ state.next = PayState(total + a)
      BY DEF Idle
    <2>3. /\ To(r, state) /\ status = "POSTED_LOCKED" /\ req[r].at = "idle"
          /\ UNCHANGED <<status, entry, paid, last, posted, payments, total, contras, cut>>
          /\ overlapped' = (overlapped \/ \E q \in Requests \ {r} : req[q].at # "idle")
      BY <1>5, <2>1 DEF Pay, Begin, invoice, ledger
    <2> HIDE DEF state
    <2>4. Books /\ ~Unwinding /\ ~Unwinding' /\ Alone' /\ req'[r] = state
          /\ \A q \in Requests : q # r => Sound(q)'
      BY <2>2, <2>3, OthersIdle
    <2>5. Books'
      BY <2>3, <2>4 DEF Books, StateMatchesPayments, Undone
    <2>6. Sound(r)'
      BY <2>1, <2>2, <2>3, <2>4 DEF Sound, PayState
    <2> QED BY <2>4, <2>5, <2>6
  <1>6. CASE Insert(r)
    <2>1. PICK p \in Periods :
            To(r, [req[r] EXCEPT !.at = "paying", !.entry = last', !.held = {p},
                                 !.sum = total + req[r].amount])
      BY <1>6 DEF Insert
    <2> DEFINE state == [req[r] EXCEPT !.at = "paying", !.entry = last', !.held = {p},
                                       !.sum = total + req[r].amount]
    <2>2. /\ state.at = "paying" /\ state.amount = req[r].amount
          /\ state.next = req[r].next /\ state.entry = last'
      BY <1>t DEF Request
    <2>3. /\ To(r, state) /\ req[r].at = "pay" /\ last' = last + 1
          /\ UNCHANGED <<status, entry, paid, posted, payments, total, contras, cut, overlapped>>
      BY <1>6, <2>1 DEF Insert, Number, invoice
    <2> HIDE DEF state
    <2>4. /\ Books /\ Sound(r) /\ ~Unwinding /\ ~Unwinding' /\ Alone' /\ req'[r] = state
          /\ \A q \in Requests : q # r => Sound(q)'
      BY <2>2, <2>3, OthersIdle
    <2>5. Books'
      BY <2>3, <2>4 DEF Books, StateMatchesPayments, Undone
    <2>6. last' \notin posted
      BY <1>t, <2>3
    <2>7. Sound(r)'
      BY <2>2, <2>3, <2>4, <2>6 DEF Sound, PayState
    <2> QED BY <2>4, <2>5, <2>7
  <1>7. CASE Paid(r)
    <2>1. /\ To(r, Idle) /\ req[r].at = "paying" /\ overlapped' = overlapped
          /\ payments' = payments \cup {req[r].entry} /\ total' = total + req[r].amount
          /\ status' = req[r].next
          /\ UNCHANGED <<entry, last, posted, contras, cut>>
      BY <1>7 DEF Paid, End
    <2>2. /\ Books /\ Sound(r) /\ Alone' /\ req'[r].at = "idle" /\ ~Unwinding /\ ~Unwinding'
          /\ \A q \in Requests : q # r => Sound(q)'
      BY <2>1, EndAlone
    <2>3. req[r].amount \in Nat
      BY <1>t, SettlementAssumption DEF Request
    <2>4. /\ status = "POSTED_LOCKED" /\ status' = PayState(total')
          /\ total' <= Due /\ req[r].entry \notin posted
      BY <2>1, <2>2 DEF Sound
    <2>5. StateMatchesPayments'
      BY <1>t, <2>1, <2>3, <2>4 DEF PayState, StateMatchesPayments
    <2>6. status' \in {"PAID", "POSTED_LOCKED"}
      BY <2>4 DEF PayState
    <2>7. Books'
      BY <2>1, <2>2, <2>4, <2>5, <2>6 DEF Books, Undone
    <2>8. Sound(r)'
      BY <2>2 DEF Sound
    <2> QED BY <2>2, <2>7, <2>8
  <1>8. CASE Reverse(r)
    <2> DEFINE state == [Idle EXCEPT !.at = "reverse", !.entry = entry]
    <2>0. state.at = "reverse" /\ state.entry = entry
      BY <1>d
    <2>1. /\ To(r, state) /\ Open /\ req[r].at = "idle"
          /\ UNCHANGED <<status, entry, paid, last, posted, payments, total, contras, cut>>
          /\ overlapped' = (overlapped \/ \E q \in Requests \ {r} : req[q].at # "idle")
      BY <1>8 DEF Reverse, Begin, Open, invoice, ledger
    <2> HIDE DEF state
    <2>2. /\ Books /\ ~Unwinding /\ ~Unwinding' /\ Alone'
          /\ req'[r].at = "reverse" /\ req'[r].entry = entry
          /\ \A q \in Requests : q # r => Sound(q)'
      BY <2>0, <2>1, OthersIdle
    <2>3. Books'
      BY <2>1, <2>2 DEF Books, StateMatchesPayments, Undone
    <2>4. Sound(r)'
      BY <2>1, <2>2 DEF Sound
    <2> QED BY <2>2, <2>3, <2>4
  <1>14. CASE LookAtPosting(r)
    <2> DEFINE state == [req[r] EXCEPT !.at = "reversing"]
    <2>1. /\ To(r, state) /\ req[r].at = "reverse" /\ overlapped' = overlapped
          /\ UNCHANGED <<status, entry, paid, last, posted, payments, total, contras, cut>>
      BY <1>14 DEF LookAtPosting, invoice, ledger, history
    <2>2. state.at = "reversing" /\ state.entry = req[r].entry
      BY <1>t DEF Request
    <2> HIDE DEF state
    <2>3. /\ Books /\ Sound(r) /\ ~Unwinding /\ ~Unwinding' /\ Alone' /\ req'[r] = state
          /\ \A q \in Requests : q # r => Sound(q)'
      BY <2>1, <2>2, OthersIdle
    <2>4. Books'
      BY <2>1, <2>3 DEF Books, StateMatchesPayments, Undone
    <2>5. Sound(r)'
      BY <2>1, <2>2, <2>3 DEF Sound
    <2> QED BY <2>3, <2>4, <2>5
  <1>9. CASE UndoPosting(r)
    <2> DEFINE state == [req[r] EXCEPT !.at = "list"]
    <2>1. /\ To(r, state) /\ req[r].at = "reversing" /\ overlapped' = overlapped
          /\ contras[req[r].entry] = 0
          /\ contras' = [contras EXCEPT ![req[r].entry] = @ + 1]
          /\ UNCHANGED <<status, entry, paid, last, posted, payments, total, cut>>
      BY <1>9 DEF UndoPosting, Contra, OneReversal, invoice, history
    <2>2. state.at = "list"
      BY <1>t DEF Request
    <2> HIDE DEF state
    <2>3. /\ Books /\ Sound(r) /\ ~Unwinding /\ Alone' /\ req'[r].at = "list" /\ Unwinding'
          /\ \A q \in Requests : q # r => Sound(q)'
      BY <2>1, <2>2, OthersIdle DEF Unwinding
    <2>4. Open /\ req[r].entry = entry
      BY <2>1, <2>3 DEF Sound
    <2>5. posted = {entry} /\ entry \in Entries
      BY <1>t, <2>3, <2>4, SettlementAssumption DEF Books, Open, Entries
    <2>c. ~cut /\ ~cut'
      BY <2>1, <2>3, <2>4 DEF Books
    <2>6. Undone(posted)'
      <3>1. Undone({})
        BY <2>3, <2>4, <2>c DEF Books
      <3> QED BY <1>t, <2>1, <2>4, <2>5, <3>1 DEF Undone
    <2>7. Books'
      BY <2>1, <2>3, <2>4, <2>c DEF Books, StateMatchesPayments
    <2>8. Sound(r)'
      BY <2>1, <2>3, <2>4, <2>6 DEF Sound
    <2> QED BY <2>3, <2>7, <2>8
  <1>10. CASE ListPayments(r)
    <2> DEFINE state == [req[r] EXCEPT !.at = "unwind", !.todo = payments]
    <2>1. /\ To(r, state) /\ req[r].at = "list" /\ overlapped' = overlapped
          /\ UNCHANGED <<status, entry, paid, last, posted, payments, total, contras, cut>>
      BY <1>10 DEF ListPayments, invoice, ledger, history
    <2>2. state.at = "unwind" /\ state.todo = payments
      BY <1>t DEF Request
    <2> HIDE DEF state
    <2>3. /\ Books /\ Sound(r) /\ Alone' /\ req'[r] = state /\ Unwinding /\ Unwinding'
          /\ \A q \in Requests : q # r => Sound(q)'
      BY <2>1, <2>2, OthersIdle DEF Unwinding
    <2>4. Open /\ Undone(posted)
      BY <2>1, <2>3 DEF Sound
    <2>5. (posted \cup payments) \ payments = posted
      BY <2>3 DEF Books
    <2>6. Books'
      BY <2>1, <2>3, <2>4 DEF Books, StateMatchesPayments
    <2>7. Sound(r)'
      BY <2>1, <2>2, <2>3, <2>4, <2>5 DEF Sound, Undone
    <2> QED BY <2>3, <2>6, <2>7
  <1>15. CASE LookAtPayment(r)
    <2>1. PICK n \in req[r].todo : To(r, [req[r] EXCEPT !.at = "unwinding", !.entry = n])
      BY <1>15 DEF LookAtPayment
    <2> DEFINE state == [req[r] EXCEPT !.at = "unwinding", !.entry = n]
    <2>2. /\ To(r, state) /\ req[r].at = "unwind" /\ overlapped' = overlapped
          /\ UNCHANGED <<status, entry, paid, last, posted, payments, total, contras, cut>>
      BY <1>15, <2>1 DEF LookAtPayment, invoice, ledger, history
    <2>3. state.at = "unwinding" /\ state.todo = req[r].todo /\ state.entry = n
      BY <1>t DEF Request
    <2> HIDE DEF state
    <2>4. /\ Books /\ Sound(r) /\ Alone' /\ req'[r] = state /\ Unwinding /\ Unwinding'
          /\ \A q \in Requests : q # r => Sound(q)'
      BY <2>2, <2>3, OthersIdle DEF Unwinding
    <2>5. Open /\ req[r].todo \subseteq payments /\ Undone((posted \cup payments) \ req[r].todo)
      BY <2>2, <2>4 DEF Sound
    <2>6. Books'
      BY <2>2, <2>4, <2>5 DEF Books, StateMatchesPayments
    <2>7. Sound(r)'
      BY <2>2, <2>3, <2>4, <2>5 DEF Sound, Undone
    <2> QED BY <2>4, <2>6, <2>7
  <1>11. CASE UndoPayment(r)
    <2> DEFINE n == req[r].entry
               state == [req[r] EXCEPT !.at = "unwind", !.todo = @ \ {req[r].entry}]
    <2>2. /\ To(r, state) /\ req[r].at = "unwinding" /\ overlapped' = overlapped
          /\ contras[n] = 0 /\ contras' = [contras EXCEPT ![n] = @ + 1]
          /\ UNCHANGED <<status, entry, paid, last, posted, payments, total, cut>>
      BY <1>11 DEF UndoPayment, Contra, OneReversal, invoice, history
    <2>3. state.at = "unwind" /\ state.todo = req[r].todo \ {n}
      BY <1>t, <2>2 DEF Request
    <2> HIDE DEF state, n
    <2>4. /\ Books /\ Sound(r) /\ Alone' /\ req'[r] = state /\ Unwinding /\ Unwinding'
          /\ \A q \in Requests : q # r => Sound(q)'
      BY <2>2, <2>3, OthersIdle DEF Unwinding
    <2>5. /\ Open /\ n \in req[r].todo /\ req[r].todo \subseteq payments
          /\ Undone((posted \cup payments) \ req[r].todo)
      BY <2>2, <2>4 DEF Sound, Begun, n
    <2>i. n \in Entries
      BY <1>t, <2>5 DEF Request
    <2>6. /\ req'[r].todo \subseteq payments
          /\ \A k \in Entries :
                contras'[k] = IF k \in (posted \cup payments) \ req'[r].todo THEN 1 ELSE 0
      <3>1. /\ req[r].todo \subseteq payments
            /\ \A k \in Entries :
                  contras[k] = IF k \in (posted \cup payments) \ req[r].todo THEN 1 ELSE 0
        BY <2>5 DEF Undone
      <3>2. ASSUME NEW k \in Entries
            PROVE  contras'[k] = IF k \in (posted \cup payments) \ req'[r].todo THEN 1 ELSE 0
        <4>1. CASE k = n
          BY <1>t, <2>2, <2>3, <2>4, <2>5, <3>1, <4>1
        <4>2. CASE k # n
          <5>1. contras'[k] = contras[k]
            BY <1>t, <2>2, <4>2
          <5>2. k \in req'[r].todo <=> k \in req[r].todo
            BY <2>3, <2>4, <4>2
          <5> QED BY <3>1, <5>1, <5>2
        <4> QED BY <4>1, <4>2
      <3> QED BY <2>3, <2>4, <3>1, <3>2
    <2>c. ~cut /\ ~cut'
      BY <2>2, <2>4 DEF Books
    <2>7. Books'
      BY <2>2, <2>4, <2>5, <2>c DEF Books, StateMatchesPayments
    <2>8. Sound(r)'
      BY <2>2, <2>3, <2>4, <2>5, <2>6 DEF Sound, Undone
    <2> QED BY <2>4, <2>7, <2>8
  <1>12. CASE Reversed(r)
    <2>1. /\ To(r, Idle) /\ req[r].at = "unwind" /\ req[r].todo = {} /\ overlapped' = overlapped
          /\ status' = "REVERSED"
          /\ UNCHANGED <<entry, paid, last, posted, payments, total, contras, cut>>
      BY <1>12 DEF Reversed, End, ledger
    <2>2. /\ Books /\ Sound(r) /\ Alone' /\ req'[r].at = "idle"
          /\ \A q \in Requests : q # r => Sound(q)'
      BY <2>1, EndAlone
    <2>3. Open /\ Undone(posted \cup payments)
      BY <2>1, <2>2 DEF Sound, Undone
    <2>c. ~cut
      <3>1. Unwinding
        BY <2>1 DEF Unwinding
      <3> QED BY <2>2, <3>1 DEF Books
    <2>4. Books'
      BY <2>1, <2>2, <2>3, <2>c DEF Books, StateMatchesPayments, Undone
    <2>5. Sound(r)'
      BY <2>2 DEF Sound
    <2> QED BY <2>2, <2>4, <2>5
  <1>13. CASE Fail(r)
    <2>1. /\ To(r, Idle) /\ req[r].at # "idle" /\ overlapped' = overlapped
          /\ cut' = (cut \/ req[r].at \in Begun)
          /\ UNCHANGED <<status, entry, paid, last, posted, payments, total, contras>>
      BY <1>13 DEF Fail, End, invoice, ledger
    <2>2. /\ Books /\ Sound(r) /\ Alone' /\ req'[r].at = "idle" /\ ~Unwinding'
          /\ Unwinding => req[r].at \in Begun
          /\ \A q \in Requests : q # r => Sound(q)'
      BY <2>1, EndAlone
    <2>5. ASSUME req[r].at \in Begun PROVE Open /\ contras[entry] = 1
      <3>1. Open /\ entry \in posted /\ entry \notin payments /\ entry \in Entries
        BY <1>t, <2>2, <2>5, SettlementAssumption DEF Books, Sound, Entries
      <3> QED BY <2>2, <2>5, <3>1 DEF Sound, Undone
    <2>3. Books'
      BY <2>1, <2>2, <2>5 DEF Books, StateMatchesPayments, Undone
    <2>4. Sound(r)'
      BY <2>2 DEF Sound
    <2> QED BY <2>2, <2>3, <2>4
  <1> QED BY <1>1, <1>2, <1>3, <1>4, <1>5, <1>6, <1>7, <1>8, <1>9, <1>10, <1>11, <1>12, <1>13,
             <1>14, <1>15

\* Requests that do not run beside each other keep the books, whatever fails:
\* one posting, no overpayment, the status the payments imply, whole reversals.
THEOREM SerialKept == Spec => []SerialBooks
  <1>1. Init => SerialInv
    <2> SUFFICES ASSUME Init PROVE Alone /\ Books /\ \A r \in Requests : Sound(r)
      BY DEF SerialInv
    <2>1. \A r \in Requests : req[r].at = "idle"
      BY IdleType DEF Init
    <2>2. Books
      BY DEF Init, Books, StateMatchesPayments, Undone
    <2> QED BY <2>1, <2>2 DEF Alone, Sound, Begun
  <1>2. IInv /\ IInv' /\ SerialInv /\ [Next]_vars => SerialInv'
    <2> SUFFICES ASSUME IInv, IInv', SerialInv, [Next]_vars, ~overlapped'
                 PROVE  Alone' /\ Books' /\ \A r \in Requests : Sound(r)'
      BY DEF SerialInv
    <2>1. CASE UNCHANGED vars
      <3>1. Alone /\ Books /\ \A r \in Requests : Sound(r)
        BY <2>1 DEF SerialInv, vars
      <3>2. Alone' /\ Books'
        BY <2>1, <3>1 DEF vars, Alone, Books, StateMatchesPayments, Undone, Unwinding, Open
      <3> QED BY <2>1, <3>1, <3>2 DEF vars, Sound, Open, Undone
    <2> QED BY <2>1, SerialStep DEF Next
  <1>3. IInv /\ SerialInv => SerialBooks
    <2> SUFFICES ASSUME IInv, SerialInv, ~overlapped
                 PROVE  /\ StateMatchesPayments /\ Cardinality(posted) <= 1
                        /\ status \in {"DRAFT", "MATCHED"} <=> posted = {}
                        /\ WholeReversal
      BY DEF SerialBooks
    <2>1. Books
      BY DEF SerialInv
    <2>2. Cardinality(posted) <= 1
      <3>1. posted = {} \/ posted = {entry}
        BY <2>1 DEF Books
      <3>2. Cardinality({}) = 0 /\ Cardinality({entry}) = 1
        BY FS_EmptySet, FS_Singleton
      <3> QED BY <3>1, <3>2
    <2>3. posted \cup payments \subseteq Entries
      BY SettlementAssumption DEF IInv, TypeOK, Entries
    <2>4. WholeReversal
      BY <2>1, <2>3 DEF Books, Undone, Unwinding, WholeReversal
    <2> QED BY <2>1, <2>2, <2>4 DEF Books
  <1> QED BY <1>1, <1>2, <1>3, Invariance, PTL DEF Spec
=============================================================================
