-------------------------------- MODULE Reports --------------------------------
(***************************************************************************)
(* The reports of one branch over one period (DRE, cash flow, balance      *)
(* sheet, aging) and the figures of its dashboard, computed from a ledger  *)
(* that goes on changing.                                                  *)
(*                                                                         *)
(* Every report is one SELECT, save the cash flow: its opening balance,    *)
(* its forecast and its payments are three statements outside any          *)
(* transaction.  An answer is kept in the cache for five minutes and no    *)
(* change takes it out: the key the listener of transfer.created deletes   *)
(* names no period, and so no report.                                      *)
(***************************************************************************)
EXTENDS Integers, Money

CONSTANTS
  None,
  Entry,        \* ids of the rows of financial_entries, all of one branch
  Price,        \* amounts of entries
  Amount,       \* amounts of payments and of the transfer
  Payment,      \* ids of the rows of financial_entry_payments
  Account,      \* ids of the rows of bank_accounts
  Initial,      \* the initial balance of each account
  Day,          \* due dates, payment dates, CURRENT_DATE
  First, Last,  \* the period
  AgeLimits     \* the ages at which a range of the aging ends: 15, 30, 60

VARIABLES
  today,      \* CURRENT_DATE
  entry, payment,
  account,    \* the accounts that are not deleted
  transfer,   \* one row of financial_transfers
  report,     \* the report that is asked for
  cache,      \* its key reports:<report>:<tenant>:<branch>:<period>
  request     \* a request for the cash flow that missed the cache

vars == <<today, entry, payment, account, transfer, report, cache, request>>
ledger == <<today, entry, payment, account, transfer>>

Type == {"RECEIVABLE", "PAYABLE"}
Status == {"DRAFT", "PENDING_APPROVAL", "PENDING", "PARTIAL", "OVERDUE", "PAID", "CANCELLED"}
Owing == {"PENDING", "PARTIAL", "OVERDUE"}

-----------------------------------------------------------------------------
(* The sums all queries are made of *)

Live == {e \in Entry : entry[e].live}
InPeriod(day) == First <= day /\ day <= Last
Due == {e \in Live : InPeriod(entry[e].due)}
Counted(S) == {e \in S : entry[e].status \notin {"DRAFT", "CANCELLED"}}

\* SUM over the rows of a table: rows of equal amounts are told apart.
Sum(figures) == SumAmount({[id |-> x, amount |-> figures[x]] : x \in DOMAIN figures})

Total(type, S) == Sum([e \in {x \in S : entry[x].type = type} |-> entry[e].amount])
Net(S) == Total("RECEIVABLE", S) - Total("PAYABLE", S)

PaymentsOf(S) == {p \in Payment : payment[p] # None /\ payment[p].entry \in S}
Paid(P) == Sum([p \in P |-> payment[p].amount])
PaidNet(P) ==
  Paid({p \in P : entry[payment[p].entry].type = "RECEIVABLE"})
    - Paid({p \in P : entry[payment[p].entry].type = "PAYABLE"})

-----------------------------------------------------------------------------
(* The reports *)

\* Every entry that is not deleted, drafts and cancelled ones included.
Dre ==
  [revenueTotal |-> Total("RECEIVABLE", Due), expenseTotal |-> Total("PAYABLE", Due), netResult |-> Net(Due)]

\* The totals over all categories.
BalanceSheet ==
  [inflow |-> Total("RECEIVABLE", Counted(Due)), outflow |-> Total("PAYABLE", Counted(Due)),
   net |-> Net(Counted(Due))]

\* The range of an entry, the first one for an entry not due yet.
RangeOf(e) == Cardinality({limit \in AgeLimits : today - entry[e].due > limit}) + 1

Receivable == {e \in Due : entry[e].type = "RECEIVABLE" /\ entry[e].status \in Owing}

Aging ==
  [range \in 1 .. Cardinality(AgeLimits) + 1 |->
     LET S == {e \in Receivable : RangeOf(e) = range}
     IN  [total |-> Sum([e \in S |-> entry[e].amount - Paid(PaymentsOf({e}))]), count |-> Cardinality(S)]]

\* Mutant of Opening: a payment on the first day is counted there too.
OpeningInclusive ==
  Initial * Cardinality(account) + PaidNet({p \in PaymentsOf(Live) : payment[p].date <= First})

\* Initial balances and the payments before the period, whatever their entry's
\* status; no transfer.
Opening ==
  Initial * Cardinality(account) + PaidNet({p \in PaymentsOf(Live) : payment[p].date < First})

Actual == PaidNet({p \in PaymentsOf(Live) : InPeriod(payment[p].date)})

-----------------------------------------------------------------------------
(* The dashboard *)

Transferred(from, to) ==
  IF transfer = None THEN 0
  ELSE (IF transfer.to \in to THEN transfer.amount ELSE 0)
         - (IF transfer.from \in from THEN transfer.amount ELSE 0)

\* Only payments of entries paid in full.
CurrentBalance ==
  Initial * Cardinality(account)
    + PaidNet(PaymentsOf({e \in Live : entry[e].status = "PAID"})) + Transferred(account, account)

\* Due dates up to and including today; the row limit is left out.
Overdue == {e \in Live : entry[e].due <= today /\ entry[e].status \in Owing}

\* One month of the chart, the month being the period.
Chart ==
  [forecastInflow |-> Total("RECEIVABLE", Counted(Due)), forecastOutflow |-> Total("PAYABLE", Counted(Due)),
   actual |-> PaidNet({p \in PaymentsOf({e \in Live : entry[e].status = "PAID"}) : InPeriod(payment[p].date)})]

-----------------------------------------------------------------------------
(* What the two say of the same books *)

\* What the dashboard knows of the branch, brought to the end of the period:
\* without transfers, with the payments of entries not yet paid in full, without
\* the payments dated later.
BooksAtClose ==
  CurrentBalance - Transferred(account, account)
    + PaidNet(PaymentsOf({e \in Live : entry[e].status # "PAID"}))
    - PaidNet({p \in PaymentsOf(Live) : payment[p].date > Last})

-----------------------------------------------------------------------------
(* Requests.  Users ask for one of the reports; the others would not disturb it. *)

Reports == {"dre", "cashflow", "balance-sheet", "aging"}

\* What GET /reports/<report> reads in one statement.
Selected ==
  CASE report = "dre" -> Dre
    [] report = "balance-sheet" -> BalanceSheet
    [] report = "aging" -> Aging

\* "books", "opened" and "moved" are history: what the books said at the moments the cash
\* flow was computed, and whether its opening and its payments changed meanwhile.
RequestState ==
  [at : {"opening", "forecast", "actual", "store"}, opening : Int, actual : Int,
   books : SUBSET Int, opened : BOOLEAN, moved : BOOLEAN]

\* An answer not in the cache: one statement, stored at once.
Compute ==
  /\ report # "cashflow" /\ cache = None
  /\ cache' = Selected
  /\ UNCHANGED <<ledger, report, request>>

AskCashflow ==
  /\ report = "cashflow" /\ cache = None /\ request = None
  /\ request' = [at |-> "opening", opening |-> 0, actual |-> 0, books |-> {},
                 opened |-> FALSE, moved |-> FALSE]
  /\ UNCHANGED <<ledger, report, cache>>

At(step) == request # None /\ request.at = step

ReadOpening ==
  /\ At("opening")
  /\ request' = [request EXCEPT !.at = "forecast", !.opening = Opening, !.books = {BooksAtClose}]
  /\ UNCHANGED <<ledger, report, cache>>

\* The rows of the forecast are left out; their statement takes its time.
ReadForecast ==
  /\ At("forecast")
  /\ request' = [request EXCEPT !.at = "actual"]
  /\ UNCHANGED <<ledger, report, cache>>

ReadActual ==
  /\ At("actual")
  /\ request' = [request EXCEPT !.at = "store", !.actual = Actual, !.books = {}, !.opened = FALSE,
                                !.moved = FALSE]
  /\ UNCHANGED <<ledger, report, cache>>

\* calculateAccumulated, at the end of the period.
Accumulated(balance, net) == balance + net

StoreCashflow ==
  /\ At("store")
  /\ cache' = [startBalance |-> request.opening,
               actualAccumulated |-> Accumulated(request.opening, request.actual)]
  /\ request' = None
  /\ UNCHANGED <<ledger, report>>

\* Five minutes after the answer was stored.
Expire ==
  /\ cache # None
  /\ cache' = None
  /\ UNCHANGED <<ledger, report, request>>

-----------------------------------------------------------------------------
(* The ledger changes.  Amended amounts and due dates are left out: every report
   reads those two columns alike. *)

\* History, while the statements of a cash flow run.
Watch ==
  request' = IF request = None \/ request.at = "opening" \/ request.at = "store" THEN request
             ELSE [request EXCEPT !.books = @ \cup {BooksAtClose'},
                                  !.opened = @ \/ Opening' # Opening,
                                  !.moved = @ \/ Actual' # Actual]

Row(e, row) == entry' = [entry EXCEPT ![e] = row] /\ UNCHANGED <<today, account, transfer>>
Settled(row, paid) ==
  [row EXCEPT !.paid = paid, !.status = DetermineStatus(row.amount, paid)]

Approve(e) ==
  /\ e \in Live /\ entry[e].status = "PENDING_APPROVAL"
  /\ Row(e, [entry[e] EXCEPT !.status = "PENDING"])
  /\ UNCHANGED payment

\* The payment may be dated on any day.
Pay(e, p, date, amount) ==
  /\ e \in Live /\ entry[e].status \in Owing
  /\ payment[p] = None /\ entry[e].paid + amount <= entry[e].amount
  /\ payment' = [payment EXCEPT ![p] = [entry |-> e, date |-> date, amount |-> amount]]
  /\ Row(e, Settled(entry[e], entry[e].paid + amount))

Refund(p) ==
  /\ payment[p] # None
  /\ LET e == payment[p].entry
     IN  /\ e \in Live /\ entry[e].status \in {"PAID", "PARTIAL"}
         /\ payment' = [payment EXCEPT ![p] = None]
         /\ Row(e, Settled(entry[e], entry[e].paid - payment[p].amount))

\* An overdue entry paid in part may be cancelled.
Cancel(e) ==
  /\ e \in Live /\ entry[e].status \notin {"CANCELLED", "PAID", "PARTIAL"}
  /\ Row(e, [entry[e] EXCEPT !.status = "CANCELLED"])
  /\ UNCHANGED payment

DeleteOrRestore(e) ==
  /\ Row(e, [entry[e] EXCEPT !.live = ~@])
  /\ UNCHANGED payment

MarkOverdue ==
  /\ \E e \in Live : entry[e].due < today /\ entry[e].status \in {"PENDING", "PARTIAL"}
  /\ entry' = [e \in Entry |->
                 IF e \in Live /\ entry[e].due < today /\ entry[e].status \in {"PENDING", "PARTIAL"}
                 THEN [entry[e] EXCEPT !.status = "OVERDUE"] ELSE entry[e]]
  /\ UNCHANGED <<today, payment, account, transfer>>

MakeTransfer(from, to, amount) ==
  /\ transfer = None /\ from # to
  /\ transfer' = [from |-> from, to |-> to, amount |-> amount]
  /\ UNCHANGED <<today, entry, payment, account>>

CloseAccount(a) ==
  /\ account' = account \ {a}
  /\ UNCHANGED <<today, entry, payment, transfer>>

NextDay ==
  /\ today' \in {day \in Day : day > today}
  /\ UNCHANGED <<entry, payment, account, transfer>>

Ledger ==
  \/ \E e \in Entry :
       \/ Approve(e) \/ Cancel(e) \/ DeleteOrRestore(e)
       \/ \E p \in Payment, date \in Day, amount \in Amount : Pay(e, p, date, amount)
  \/ \E p \in Payment : Refund(p)
  \/ MarkOverdue
  \/ \E from, to \in account, amount \in Amount : MakeTransfer(from, to, amount)
  \/ \E a \in account : CloseAccount(a)
  \/ NextDay

-----------------------------------------------------------------------------
\* As POST /entries leaves it.
NewRow ==
  [type : Type, status : {"DRAFT", "PENDING_APPROVAL", "PENDING"}, amount : Price, paid : {0}, due : Day,
   live : {TRUE}]

Init ==
  /\ today = First
  /\ entry \in [Entry -> NewRow]
  /\ payment = [p \in Payment |-> None]
  /\ account = Account /\ transfer = None
  /\ report \in Reports
  /\ cache = None /\ request = None

Next ==
  \/ Compute \/ AskCashflow \/ ReadOpening \/ ReadForecast \/ ReadActual \/ StoreCashflow \/ Expire
  \/ Ledger /\ Watch /\ UNCHANGED <<report, cache>>

-----------------------------------------------------------------------------
(* Correctness. *)

\* Ledger, cache and request hold values of their types.
TypeOK ==
  /\ today \in Day /\ account \subseteq Account
  /\ \A e \in Entry :
       /\ entry[e].type \in Type /\ entry[e].status \in Status /\ entry[e].due \in Day
       /\ entry[e].amount \in Price /\ entry[e].paid \in 0 .. entry[e].amount
  /\ \A p \in PaymentsOf(Entry) : payment[p].date \in Day /\ payment[p].amount \in Amount
  /\ report \in Reports
  /\ request = None \/ request.at \in {"opening", "forecast", "actual", "store"}

\* The cash flow of a period closes with what the books said at some moment while it was
\* computed, although its three statements see three moments of the ledger: the
\* opening balance and the payments share no payment and miss none.  Only when
\* both changed between the statements can it close with a balance the branch
\* never had.
ClosesWithTheBooks ==
  At("actual") /\ ~(request.opened /\ request.moved)
    => Accumulated(request.opening, Actual) \in request.books

\* The DRE and the balance sheet of a period differ by its drafts and cancelled entries and
\* by nothing else, and the forecast of the dashboard's chart is the balance sheet's.
ResultsDifferByDrafts ==
  /\ Dre.netResult = BalanceSheet.net + Net({e \in Due : entry[e].status \in {"DRAFT", "CANCELLED"}})
  /\ Chart.forecastInflow - Chart.forecastOutflow = BalanceSheet.net

\* The ranges of the aging add up to what the paid_amount of the open receivables leaves to
\* receive, and count those the dashboard shows as overdue and those not due yet.
AgingIsWhatIsOwed ==
  /\ Sum([range \in DOMAIN Aging |-> Aging[range].total])
       = Sum([e \in Receivable |-> entry[e].amount - entry[e].paid])
  /\ Sum([range \in DOMAIN Aging |-> Aging[range].count])
       = Cardinality(Overdue \cap Receivable) + Cardinality({e \in Receivable : entry[e].due > today})

\* Cash flow, DRE, balance sheet, aging and dashboard, each a query of its own, tell one
\* story of the ledger.
ReportsAgree == ClosesWithTheBooks /\ ResultsDifferByDrafts /\ AgingIsWhatIsOwed
===============================================================================
