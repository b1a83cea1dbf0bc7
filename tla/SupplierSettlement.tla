------------------------- MODULE SupplierSettlement -------------------------
(***************************************************************************)
(* One supplier invoice: matched, posted to the ledger, paid in            *)
(* instalments and reversed, by requests that run beside each other.       *)
(*                                                                         *)
(* Every operation reads the invoice before it begins a transaction and    *)
(* decides on what it read.  A transaction that writes an entry holds the  *)
(* lock of its journal and period until it ends, so what it does under the *)
(* lock is one step.  A reversal calls journal_entry.reverse, which        *)
(* looks for an earlier reversal before it takes that lock, and which      *)
(* begins and commits by itself: its first COMMIT ends the outer           *)
(* transaction too, and from then on every statement commits alone.        *)
(***************************************************************************)
EXTENDS Naturals, FiniteSets

CONSTANTS
    Requests,
    Periods,        \* accounting periods an entry may be dated in
    Due,            \* amount_ttc
    MaxEntries      \* bound: entries posted and paid with

ASSUME SettlementAssumption ==
    /\ Due \in Nat \ {0}
    /\ MaxEntries \in Nat \ {0}

Entries == 1 .. MaxEntries
NoEntry == 0

VARIABLES
    status, entry, paid,    \* the invoice: status, entry_id, amount_paid
    last,                   \* entries numbered so far
    posted, payments,       \* entries that post it; entries of its payment rows
    total,                  \* the sum of its payment rows
    contras,                \* how many entries reverse each entry
    req,                    \* what each request is doing and what it has read
    overlapped, cut, split  \* history: requests ran beside each other; a
                            \* reversal ended in error; payments were dated in
                            \* two periods at once

invoice == <<status, entry, paid>>
ledger  == <<last, posted, payments, total, contras>>
history == <<overlapped, cut, split>>
vars    == <<status, entry, paid, last, posted, payments, total, contras, req,
             overlapped, cut, split>>

Idle == [at |-> "idle", entry |-> NoEntry, amount |-> 0, next |-> "POSTED_LOCKED",
         sum |-> 0, held |-> {}, todo |-> {}]

\* Where a reversal is whose first step is committed.
Begun == {"list", "unwind", "unwinding"}

TypeOK ==
    /\ status \in {"DRAFT", "MATCHED", "POSTED_LOCKED", "PAID", "REVERSED"}
    /\ last \in 0 .. MaxEntries
    /\ entry \in 0 .. last
    /\ paid \in Nat /\ total \in Nat
    /\ posted \subseteq 1 .. last /\ payments \subseteq 1 .. last
    /\ contras \in [Entries -> Nat]
    /\ req \in [Requests ->
                 [at : {"idle", "match", "post", "pay", "paying", "reverse", "reversing"} \cup Begun,
                  entry : 0 .. MaxEntries, amount : 0 .. Due,
                  next : {"POSTED_LOCKED", "PAID"}, sum : Nat,
                  held : SUBSET Periods, todo : SUBSET Entries]]
    /\ status \in {"POSTED_LOCKED", "PAID"} => entry # NoEntry
    /\ \A r \in Requests : req[r].at \in {"reverse", "reversing"} => req[r].entry # NoEntry
    /\ overlapped \in BOOLEAN /\ cut \in BOOLEAN /\ split \in BOOLEAN

Init ==
    /\ status = "DRAFT" /\ entry = NoEntry /\ paid = 0
    /\ last = 0 /\ posted = {} /\ payments = {} /\ total = 0
    /\ contras = [n \in Entries |-> 0]
    /\ req = [r \in Requests |-> Idle]
    /\ overlapped = FALSE /\ cut = FALSE /\ split = FALSE

To(r, state) == req' = [req EXCEPT ![r] = state]
Begin(r, state) ==
    /\ req[r].at = "idle" /\ To(r, state)
    /\ overlapped' = (overlapped \/ \E q \in Requests \ {r} : req[q].at # "idle")
    /\ UNCHANGED <<cut, split>>
End(r) == To(r, Idle) /\ UNCHANGED <<overlapped, split>>

\* Mutant: the sequence is read without its lock.
HoldersNone(p) == {}

\* lockSequence: the requests that hold the lock of a period.
Holders(p) == {r \in Requests : p \in req[r].held}
Locked == \A p \in Periods : Holders(p) # {}
Number == last < MaxEntries /\ last' = last + 1
PayState(t) == IF t >= Due THEN "PAID" ELSE "POSTED_LOCKED"

-----------------------------------------------------------------------------
(* match and post: the check is made before the transaction. *)

Match(r) ==
    /\ status = "DRAFT" /\ Begin(r, [Idle EXCEPT !.at = "match"])
    /\ UNCHANGED <<invoice, ledger>>

\* A clean match writes MATCHED, whatever the status is by now.
Matched(r) ==
    /\ req[r].at = "match" /\ End(r)
    /\ status' \in {"MATCHED", status}
    /\ UNCHANGED <<entry, paid, ledger, cut>>

Post(r) ==
    /\ status \in {"MATCHED", "DRAFT"} /\ Begin(r, [Idle EXCEPT !.at = "post"])
    /\ UNCHANGED <<invoice, ledger>>

\* Mutant: entry_id is not stored.
PostedUnlinked(r) ==
    /\ req[r].at = "post" /\ ~Locked /\ End(r)
    /\ Number /\ posted' = posted \cup {last'} /\ status' = "POSTED_LOCKED"
    /\ UNCHANGED <<entry, paid, payments, total, contras, cut>>

Posted(r) ==
    /\ req[r].at = "post" /\ ~Locked /\ End(r)
    /\ Number /\ posted' = posted \cup {last'}
    /\ entry' = last' /\ status' = "POSTED_LOCKED"
    /\ UNCHANGED <<paid, payments, total, contras, cut>>

-----------------------------------------------------------------------------
(* pay: the sum so far decides the amount and the status that will be written. *)

Pay(r) ==
    /\ status = "POSTED_LOCKED"
    /\ \E a \in 1 .. Due :
          /\ total + a <= Due
          /\ Begin(r, [Idle EXCEPT !.at = "pay", !.amount = a, !.next = PayState(total + a)])
    /\ UNCHANGED <<invoice, ledger>>

\* Under the lock of the period the entry and the payment row are inserted and
\* the rows are summed: those committed, and its own.
Insert(r) ==
    /\ req[r].at = "pay" /\ Number
    /\ \E p \in Periods :
          /\ Holders(p) = {}
          /\ To(r, [req[r] EXCEPT !.at = "paying", !.entry = last', !.held = {p},
                                  !.sum = total + req[r].amount])
          /\ split' = (split \/ \E q \in Requests : req[q].held \ {p} # {})
    /\ UNCHANGED <<invoice, posted, payments, total, contras, overlapped, cut>>

\* Mutant: nothing compares what is paid with what is due.
PaidUnchecked(r) ==
    /\ req[r].at = "paying" /\ End(r)
    /\ payments' = payments \cup {req[r].entry}
    /\ total' = total + req[r].amount
    /\ paid' = req[r].sum /\ status' = req[r].next
    /\ UNCHANGED <<entry, last, posted, contras, cut>>

\* chk_supplier_invoice_paid_within_total: an UPDATE that breaks it fails, and
\* the payment is rolled back.
WithinTotal(t) == t <= Due

Paid(r) ==
    /\ req[r].at = "paying" /\ WithinTotal(req[r].sum) /\ End(r)
    /\ payments' = payments \cup {req[r].entry}
    /\ total' = total + req[r].amount
    /\ paid' = req[r].sum /\ status' = req[r].next
    /\ UNCHANGED <<entry, last, posted, contras, cut>>

-----------------------------------------------------------------------------
(* reverse *)

Reverse(r) ==
    /\ status \in {"POSTED_LOCKED", "PAID"}
    /\ Begin(r, [Idle EXCEPT !.at = "reverse", !.entry = entry])
    /\ UNCHANGED <<invoice, ledger>>

\* journal_entry.reverse: the look for an earlier reversal, before the lock.
Unreversed(n) == contras[n] = 0

\* ux_one_reversal_per_entry: a second validated reversal cannot be inserted.
OneReversal(n) == contras[n] = 0

\* The contra entry, under the lock of the period it is dated in.
Contra(n) ==
    /\ ~Locked /\ OneReversal(n)
    /\ contras' = [contras EXCEPT ![n] = @ + 1]

LookAtPosting(r) ==
    /\ req[r].at = "reverse" /\ Unreversed(req[r].entry)
    /\ To(r, [req[r] EXCEPT !.at = "reversing"])
    /\ UNCHANGED <<invoice, ledger, history>>

UndoPosting(r) ==
    /\ req[r].at = "reversing" /\ To(r, [req[r] EXCEPT !.at = "list"])
    /\ Contra(req[r].entry)
    /\ UNCHANGED <<invoice, last, posted, payments, total, history>>

\* Mutant: instalments of an invoice not paid in full are forgotten.
ListPaidOnly(r) ==
    /\ req[r].at = "list"
    /\ To(r, [req[r] EXCEPT !.at = "unwind", !.todo = IF status = "PAID" THEN payments ELSE {}])
    /\ UNCHANGED <<invoice, ledger, history>>

ListPayments(r) ==
    /\ req[r].at = "list" /\ To(r, [req[r] EXCEPT !.at = "unwind", !.todo = payments])
    /\ UNCHANGED <<invoice, ledger, history>>

LookAtPayment(r) ==
    /\ req[r].at = "unwind"
    /\ \E n \in req[r].todo :
          Unreversed(n) /\ To(r, [req[r] EXCEPT !.at = "unwinding", !.entry = n])
    /\ UNCHANGED <<invoice, ledger, history>>

UndoPayment(r) ==
    /\ req[r].at = "unwinding"
    /\ To(r, [req[r] EXCEPT !.at = "unwind", !.todo = @ \ {req[r].entry}])
    /\ Contra(req[r].entry)
    /\ UNCHANGED <<invoice, last, posted, payments, total, history>>

Reversed(r) ==
    /\ req[r].at = "unwind" /\ req[r].todo = {} /\ End(r)
    /\ status' = "REVERSED"
    /\ UNCHANGED <<entry, paid, ledger, cut>>

\* An error (ALREADY_REVERSED, a broken index or CHECK) or the end of the process.
\* ROLLBACK undoes what is not committed: of a reversal, its first step at most.
Fail(r) ==
    /\ req[r].at # "idle" /\ End(r)
    /\ cut' = (cut \/ req[r].at \in Begun)
    /\ UNCHANGED <<invoice, ledger>>

Next ==
    \E r \in Requests :
        \/ Match(r) \/ Matched(r) \/ Post(r) \/ Posted(r)
        \/ Pay(r) \/ Insert(r) \/ Paid(r)
        \/ Reverse(r) \/ LookAtPosting(r) \/ UndoPosting(r)
        \/ ListPayments(r) \/ LookAtPayment(r) \/ UndoPayment(r) \/ Reversed(r)
        \/ Fail(r)

Spec == Init /\ [][Next]_vars

-----------------------------------------------------------------------------
(* Properties. *)

\* amount_paid is the sum of the payment rows as long as no two payments were
\* open in different periods: it is the lock of the entry sequence that makes the
\* sum read in pay complete, not a lock of the invoice.
OneSequenceKeepsTheSum == ~split => paid = total

\* "A payment can never outrun the invoice it settles": the CHECK compares the sum
\* a payment has read, so it holds the payment rows to what is due only while that
\* sum is complete.  Payments dated in two periods at once pass it one by one.
OverpaidBySplitOnly == ~split => total <= Due

\* The status is the one payState derives from the payment rows.
StateMatchesPayments ==
    /\ status = "PAID" => total = Due
    /\ status = "POSTED_LOCKED" => total < Due

\* "The state and the payments can never disagree" (pay), of an invoice that was
\* posted once.  False: each of two payments that read the same sum writes the
\* status its own reading implies.
DerivedNeverDisagrees == Cardinality(posted) = 1 => StateMatchesPayments

\* A reversed invoice has every entry reversed, whatever was cut off before: what a
\* reversal left behind that failed after its first step keeps every later one from
\* coming this far.  And without such a cut, an invoice that is neither reversed nor
\* being reversed has no entry reversed.
WholeReversal ==
    /\ status = "REVERSED" => \A n \in posted \cup payments : contras[n] = 1
    /\ ~cut /\ status # "REVERSED" /\ (\A r \in Requests : req[r].at \notin Begun)
          => \A n \in Entries : contras[n] = 0

\* Requests that do not run beside each other keep the books, whatever fails:
\* one posting, no overpayment, the status the payments imply, whole reversals.
SerialBooks ==
    ~overlapped =>
        /\ StateMatchesPayments
        /\ Cardinality(posted) <= 1
        /\ status \in {"DRAFT", "MATCHED"} <=> posted = {}
        /\ WholeReversal
=============================================================================
