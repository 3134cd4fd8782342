------------------------------- MODULE Billing -------------------------------
(***************************************************************************)
(* Usage, rules and invoices: request logs, the billing service with its   *)
(* store, and the billing handlers of the console (internal/billing,       *)
(* internal/admin/billing_handlers.go, postgres_request_log_store.go).     *)
(*                                                                         *)
(* Each statement or transaction of the database is a step.  A handler     *)
(* goes on with what it read, and any statement may fail.  A request uses  *)
(* TokensEach tokens, and a time is a day.  Prices are whole numbers of    *)
(* the least price there is, PerCent of them in a cent: the program        *)
(* multiplies and adds them up as floats, and the columns of the database  *)
(* keep whole cents.                                                       *)
(***************************************************************************)
EXTENDS Naturals, Sequences, FiniteSets, FiniteSetsExt

CONSTANTS
  Callers, Keys, Models,
  NewRules,   \* rows that CreateRule is asked for
  Changes,    \* what UpdateRule is asked for: some fields with their values
  Periods,    \* first and last day of the invoices asked for
  Filters,    \* of the exports asked for: key and status
  TokensEach, PerCent, DaysPerMonth, PageSize,
  Every,      \* a rule or filter for all of them
  FirstLogs, FirstRules, FirstInvoices,  \* what the database holds when the program starts
  None, Never,
  MaxTime,    \* bound of the clock
  MaxLogs, MaxRules, MaxCalls, MaxEdits  \* bounds: logs, rules made, handlers of several steps begun, others

Times    == 0 .. MaxTime
Types    == {"token_based", "request_based", "tier"}
Statuses == {"pending", "paid", "overdue", "cancelled"}

\* The columns of a rule that say what it charges for what.  Nobody reads the
\* free quota when it comes to charging.
Columns ==
  [type |-> Types, model |-> Models \cup {Every}, key |-> Keys \cup {Every}, price |-> Nat,
   free |-> Nat, threshold |-> Nat \cup {None}, tierPrice |-> Nat \cup {None},
   active |-> BOOLEAN, from |-> Nat, until |-> Nat \cup {Never}]

RuleRows ==
  [type : Columns.type, model : Columns.model, key : Columns.key, price : Columns.price,
   free : Columns.free, threshold : Columns.threshold, tierPrice : Columns.tierPrice,
   active : Columns.active, from : Columns.from, until : Columns.until]

Days == [first : Nat, last : Nat]

\* A float64: the amount next to it, and whether it makes a half cent less.
Floats == [amount : Nat, below : BOOLEAN]

\* An item as it is calculated, and as the database keeps it.
Charge == [model : Models, requests : Nat, price : Nat, total : Floats]

Item == [model : Models, requests : Nat, price : Nat, total : Nat]

\* (priced is history: when it was calculated.)
Invoice ==
  [number : Nat \X Nat, period : Days, key : Keys, total : Nat, status : Statuses,
   paid : Times \cup {None}, items : SUBSET Item, payments : Nat, priced : Times]

VARIABLES
  now,
  logs,       \* request_logs: how many requests of each key, model and day
  rules,      \* billing_rules: the row of each id in order of creation, or None
  invoices,   \* invoices with their items and payments, in order of creation
  pc, call,   \* of each caller: its step and what it read so far
  calls, edits,
  versions    \* history: every row that a rule ever had

vars == <<now, logs, rules, invoices, pc, call, calls, edits, versions>>

-----------------------------------------------------------------------------
\* Usage and prices

RequestsIn(days, p) == SumFunctionOnSet(days, {t \in Times : p.first <= t /\ t <= p.last})

Requests(k, m, p) == RequestsIn(logs[k][m], p)

Tokens(requests) == TokensEach * requests

TierApplied(row, requests) ==
  /\ row.type = "tier"
  /\ row.threshold # None /\ row.tierPrice # None
  /\ Tokens(requests) > row.threshold

UnitPrice(row, requests) == IF TierApplied(row, requests) THEN row.tierPrice ELSE row.price

\* A rule of type "tier" has a unit price, but charges nothing.
LineTotal(row, requests) ==
  CASE row.type = "token_based"   -> Tokens(requests) * UnitPrice(row, requests)
    [] row.type = "request_based" -> requests * UnitPrice(row, requests)
    [] OTHER -> 0

HalfCents(amount) == (2 * amount + PerCent) % (2 * PerCent) = 0

\* The float is so close to the amount that this matters at a half cent only.
Float(amount, below) == [amount |-> amount, below |-> below /\ HalfCents(amount)]

\* DECIMAL(12, 2): whole cents, a half rounded up.
Cents(float) ==
  (2 * float.amount + PerCent - (IF float.below THEN 1 ELSE 0)) \div (2 * PerCent)

Kept(charge) == [charge EXCEPT !.total = Cents(@)]

Items(charges) == {Kept(ch) : ch \in charges}

Total(items) == SumFunctionOnSet([i \in items |-> i.total], items)

\* Each item and the total are rounded by half a cent at most; one item alone is
\* rounded like the total.
AddsUp(invoice) ==
  LET n == Cardinality(invoice.items)
      listed == Total(invoice.items)
  IN  \/ invoice.items = {}
      \/ /\ 2 * listed <= 2 * invoice.total + n + 1
         /\ 2 * invoice.total <= 2 * listed + n + 1
         /\ n = 1 => listed = invoice.total

\* It charges no more than was logged, by a rule that applied at that time.
Justified(item, invoice, days, rows) ==
  /\ item.requests <= RequestsIn(days[invoice.key][item.model], invoice.period)
  /\ \E row \in rows, below \in BOOLEAN :
       /\ row.active
       /\ row.model \in {Every, item.model} /\ row.key \in {Every, invoice.key}
       /\ row.from <= invoice.priced
       /\ row.until = Never \/ invoice.priced <= row.until
       /\ item.price = UnitPrice(row, item.requests)
       /\ item.total = Cents(Float(LineTotal(row, item.requests), below))

OneEach(items) == \A i, j \in items : i.model = j.model => i = j

ASSUME BillingAssumption ==
  /\ IsFiniteSet(Models)
  /\ FirstLogs \in [Keys -> [Models -> [Times -> Nat]]]
  /\ FirstRules \in Seq(RuleRows)
  /\ NewRules \subseteq RuleRows
  /\ \A ch \in Changes : \A f \in DOMAIN ch : f \in DOMAIN Columns /\ ch[f] \in Columns[f]
  /\ Periods \subseteq Days
  /\ \A f \in Filters : f.key \in Keys \cup {Every} /\ f.status \in Statuses \cup {Every}
  /\ {TokensEach, MaxTime, MaxLogs, MaxRules, MaxCalls, MaxEdits} \subseteq Nat
  /\ {PerCent, DaysPerMonth, PageSize} \subseteq Nat \ {0}
  /\ Every \notin Models \cup Keys \cup Statuses
  /\ None \notin Times

\* The invoices that are there already were made by this program.
ASSUME InvoicesAssumption ==
  /\ FirstInvoices \in Seq(Invoice)
  /\ \A i, j \in DOMAIN FirstInvoices : FirstInvoices[i].number = FirstInvoices[j].number => i = j
  /\ \A i \in DOMAIN FirstInvoices :
       LET invoice == FirstInvoices[i] IN
         /\ AddsUp(invoice)
         /\ invoice.status = "paid" => invoice.paid # None
         /\ OneEach(invoice.items)
         /\ \A item \in invoice.items :
              Justified(item, invoice, FirstLogs, {FirstRules[r] : r \in DOMAIN FirstRules})

Init ==
  /\ now = 0
  /\ logs = FirstLogs
  /\ rules = FirstRules
  /\ invoices = FirstInvoices
  /\ pc = [c \in Callers |-> "idle"]
  /\ call = [c \in Callers |-> None]
  /\ calls = 0 /\ edits = 0
  /\ versions = {rules[i] : i \in DOMAIN rules}

Go(c, step, what) ==
  /\ pc' = [pc EXCEPT ![c] = step]
  /\ call' = [call EXCEPT ![c] = what]

Begin(c, step, what) ==
  /\ pc[c] = "idle"
  /\ calls < MaxCalls
  /\ calls' = calls + 1
  /\ Go(c, step, what)

Edit ==
  /\ edits < MaxEdits
  /\ edits' = edits + 1

Answer(c) == Go(c, "idle", None)

\* A statement failed, a row is missing or a constraint violated: the handler
\* answers with an error.  (An export does not, see ListInvoices.)
Fail(c) ==
  /\ pc[c] \notin {"idle", "listing", "exported"}
  /\ Answer(c)
  /\ UNCHANGED <<now, logs, rules, invoices, calls, edits, versions>>

-----------------------------------------------------------------------------
\* Request logs

Logged == MapThenSumSet(LAMBDA k : MapThenSumSet(LAMBDA m :
            Requests(k, m, [first |-> 0, last |-> MaxTime]), Models), Keys)

\* logRequestAsync: the goroutine inserts the row some time after the request,
\* or never, and nobody hears of it.  (It gives a text for an id; where the
\* migrations made that a number, rows arrive only from elsewhere.)
LogRequest(k, m) ==
  /\ Logged < MaxLogs
  /\ logs' = [logs EXCEPT ![k][m][now] = @ + 1]
  /\ UNCHANGED <<now, rules, invoices, pc, call, calls, edits, versions>>

-----------------------------------------------------------------------------
\* Rules

Stored(i) == i \in DOMAIN rules /\ rules[i] # None

InsertedRule(row) == Append(rules, row)

CreateRule(row) ==
  /\ Len(rules) < MaxRules
  /\ rules' = InsertedRule(row)
  /\ versions' = versions \cup {row}
  /\ UNCHANGED <<now, logs, invoices, pc, call, calls, edits>>

Changed(row, ch) == [f \in DOMAIN row |-> IF f \in DOMAIN ch THEN ch[f] ELSE row[f]]

\* UpdateRule reads the row, changes its copy and writes all of it back.
GetRule(c, i, ch) ==
  /\ Stored(i)
  /\ Begin(c, "updating", [id |-> i, row |-> Changed(rules[i], ch)])
  /\ UNCHANGED <<now, logs, rules, invoices, edits, versions>>

UpdateRule(c) ==
  /\ pc[c] = "updating"
  /\ Stored(call[c].id)
  /\ rules' = [rules EXCEPT ![call[c].id] = call[c].row]
  /\ versions' = versions \cup {call[c].row}
  /\ Answer(c)
  /\ UNCHANGED <<now, logs, invoices, calls, edits>>

WithoutRule(i) == [rules EXCEPT ![i] = None]

DeleteRule(i) ==
  /\ Stored(i)
  /\ Edit
  /\ rules' = WithoutRule(i)
  /\ UNCHANGED <<now, logs, invoices, pc, call, calls, versions>>

-----------------------------------------------------------------------------
\* GenerateInvoice

(* Slip: a rule for one key is applied to all of them. *)
ApplicableToEveryKey(row, k, m) ==
  /\ row # None
  /\ row.active
  /\ now >= row.from
  /\ ~(row.until # Never /\ now > row.until)
  /\ row.model \in {Every, m}

(* Slip: nobody asks until when a rule is valid. *)
ApplicableForGood(row, k, m) ==
  /\ row # None
  /\ row.active
  /\ now >= row.from
  /\ row.model \in {Every, m}
  /\ row.key \in {Every, k}

IsRuleApplicable(row, k, m) ==
  /\ row # None
  /\ row.active
  /\ now >= row.from
  /\ ~(row.until # Never /\ now > row.until)
  /\ row.model \in {Every, m}
  /\ row.key \in {Every, k}

\* The latest of the rules that apply; a model without one is left out.
Charges(k, usage, read, below) ==
  LET applicable(m) == {i \in DOMAIN read : IsRuleApplicable(read[i], k, m)}
      charge(m) == LET row == read[Max(applicable(m))] IN
                     [model |-> m, requests |-> usage[m], price |-> UnitPrice(row, usage[m]),
                      total |-> Float(LineTotal(row, usage[m]), below[m])]
  IN  {charge(m) : m \in {n \in Models : usage[n] > 0 /\ applicable(n) # {}}}

Subtotal(charges) == SumFunctionOnSet([ch \in charges |-> ch.total.amount], charges)

\* The months of the period; the key is not part of it.
Number(p) == <<p.first \div DaysPerMonth, p.last \div DaysPerMonth>>

GetUsageStats(c, k, p) ==
  /\ Begin(c, "counted", [key |-> k, period |-> p, usage |-> [m \in Models |-> Requests(k, m, p)]])
  /\ UNCHANGED <<now, logs, rules, invoices, edits, versions>>

ListRules(c) ==
  /\ pc[c] = "counted"
  /\ Go(c, "ruled", [key |-> call[c].key, period |-> call[c].period, usage |-> call[c].usage,
                     rules |-> rules])
  /\ UNCHANGED <<now, logs, rules, invoices, calls, edits, versions>>

\* Floats are multiplied, and added up in the order of a map.  What is the whole
\* sum stays as it is: nothing was added to it.
CalculateBilling(c) ==
  /\ pc[c] = "ruled"
  /\ \E below \in [Models -> BOOLEAN], sumBelow \in BOOLEAN :
       LET charges == Charges(call[c].key, call[c].usage, call[c].rules, below)
           total == Float(Subtotal(charges), sumBelow)
       IN  /\ \A ch \in charges : ch.total.amount = total.amount => ch.total = total
           /\ Go(c, "priced", [key |-> call[c].key, period |-> call[c].period, time |-> now,
                               charges |-> charges, total |-> total])
  /\ UNCHANGED <<now, logs, rules, invoices, calls, edits, versions>>

\* The number must be new.
CreateInvoice(c) ==
  /\ pc[c] = "priced"
  /\ \A i \in DOMAIN invoices : invoices[i].number # Number(call[c].period)
  /\ invoices' = Append(invoices,
       [number |-> Number(call[c].period), period |-> call[c].period, key |-> call[c].key,
        total |-> Cents(call[c].total), status |-> "pending", paid |-> None, items |-> {},
        payments |-> 0, priced |-> call[c].time])
  /\ Go(c, "itemizing", [id |-> Len(invoices) + 1, charges |-> call[c].charges])
  /\ UNCHANGED <<now, logs, rules, calls, edits, versions>>

(* Slip: each item is committed on its own. *)
OneByOne(stored, charges) == {stored \cup {Kept(ch)} : ch \in charges}

\* All of the items, in one transaction.
Inserted(stored, charges) == {Items(charges)}

CreateInvoiceItems(c) ==
  /\ pc[c] = "itemizing"
  /\ \E stored \in Inserted(invoices[call[c].id].items, call[c].charges) :
       invoices' = [invoices EXCEPT ![call[c].id].items = stored]
  /\ IF invoices'[call[c].id].items = Items(call[c].charges)
     THEN Answer(c) ELSE UNCHANGED <<pc, call>>
  /\ UNCHANGED <<now, logs, rules, calls, edits, versions>>

-----------------------------------------------------------------------------
\* Status and payments

(* Slip: any other status takes the date away. *)
PaidNowOrNever(status, paid) == IF status = "paid" THEN now ELSE None

Paid(status, paid) == IF status = "paid" THEN now ELSE paid

UpdateInvoiceStatus(i, status) ==
  /\ i \in DOMAIN invoices
  /\ Edit
  /\ invoices' = [invoices EXCEPT ![i].status = status, ![i].paid = Paid(status, @)]
  /\ UNCHANGED <<now, logs, rules, pc, call, calls, versions>>

InsertedPayment(i) == [invoices EXCEPT ![i].payments = @ + 1]

\* A payment is pending, and remains so: the branch that would mark the
\* invoice as paid asks for one that is completed.
CreatePayment(i) ==
  /\ i \in DOMAIN invoices
  /\ Edit
  /\ invoices' = InsertedPayment(i)
  /\ UNCHANGED <<now, logs, rules, pc, call, calls, versions>>

-----------------------------------------------------------------------------
\* GetInvoice and ExportInvoice: the invoice, then its items and payments

\* The row of that id: one or none.
SelectInvoice(i) == {invoices[j] : j \in DOMAIN invoices \cap {i}}

GetInvoice(c, i) ==
  /\ \E invoice \in SelectInvoice(i) :
       Begin(c, "found", [id |-> i, total |-> invoice.total])
  /\ UNCHANGED <<now, logs, rules, invoices, edits, versions>>

GetInvoiceItems(c) ==
  /\ pc[c] = "found"
  /\ Go(c, "shown", [total |-> call[c].total, items |-> invoices[call[c].id].items])
  /\ UNCHANGED <<now, logs, rules, invoices, calls, edits, versions>>

\* StreamInvoiceCSV: page by page, the latest invoice first

Matches(invoice, f) == f.key \in {Every, invoice.key} /\ f.status \in {Every, invoice.status}

Matching(f) == {i \in DOMAIN invoices : Matches(invoices[i], f)}

(* Slip: the first page has number 0. *)
OffsetBehind(page) == page * PageSize

Offset(page) == (page - 1) * PageSize

\* The ids on a page: LIMIT and OFFSET over the matching rows.
Page(f, page) ==
  LET later(i) == Cardinality({j \in Matching(f) : j > i})
  IN  {i \in Matching(f) : later(i) >= Offset(page) /\ later(i) < Offset(page) + PageSize}

StartExport(c, f) ==
  /\ Begin(c, "listing", [filter |-> f, page |-> 1, listed |-> {}, first |-> Matching(f),
                        cut |-> FALSE])
  /\ UNCHANGED <<now, logs, rules, invoices, edits, versions>>

\* A page that cannot be read ends the export like the last page: the answer is
\* the rows so far.
ListInvoices(c) ==
  /\ pc[c] = "listing"
  /\ \/ LET found == Page(call[c].filter, call[c].page) IN
          Go(c, IF Cardinality(found) < PageSize THEN "exported" ELSE "listing",
             [call[c] EXCEPT !.page = @ + 1, !.listed = @ \cup found])
     \/ Go(c, "exported", [call[c] EXCEPT !.cut = TRUE])
  /\ UNCHANGED <<now, logs, rules, invoices, calls, edits, versions>>

\* The payments are read last, and the answer goes out.
ListPayments(c) ==
  /\ pc[c] = "shown"
  /\ Answer(c)
  /\ UNCHANGED <<now, logs, rules, invoices, calls, edits, versions>>

Finish(c) ==
  /\ pc[c] = "exported"
  /\ Answer(c)
  /\ UNCHANGED <<now, logs, rules, invoices, calls, edits, versions>>

-----------------------------------------------------------------------------
Tick ==
  /\ now < MaxTime
  /\ now' = now + 1
  /\ UNCHANGED <<logs, rules, invoices, pc, call, calls, edits, versions>>

Manage ==
  \/ \E row \in NewRules : CreateRule(row)
  \/ \E i \in DOMAIN rules : DeleteRule(i)
  \/ \E i \in DOMAIN invoices : CreatePayment(i) \/ \E s \in Statuses : UpdateInvoiceStatus(i, s)

Generate(c) ==
  \/ \E k \in Keys, p \in Periods : GetUsageStats(c, k, p)
  \/ ListRules(c) \/ CalculateBilling(c) \/ CreateInvoice(c) \/ CreateInvoiceItems(c)

Read(c) ==
  \/ \E i \in DOMAIN invoices : GetInvoice(c, i)
  \/ GetInvoiceItems(c) \/ ListPayments(c)
  \/ \E f \in Filters : StartExport(c, f)
  \/ ListInvoices(c) \/ Finish(c)

Next ==
  \/ Tick \/ Manage
  \/ \E k \in Keys, m \in Models : LogRequest(k, m)
  \/ \E c \in Callers :
       \/ Generate(c) \/ Read(c) \/ Fail(c) \/ UpdateRule(c)
       \/ \E i \in DOMAIN rules, ch \in Changes : GetRule(c, i, ch)

Spec == Init /\ [][Next]_vars

-----------------------------------------------------------------------------
Ids == DOMAIN invoices

(* An invoice may be read between its two statements, and its items are    *)
(* read after it: what is shown still adds up but for what was rounded, or *)
(* has no items.                                                           *)
AnswersAddUp ==
  \A c \in Callers : pc[c] = "shown" => AddsUp(call[c])

(* The books: rows are well-typed, no number is given twice, a paid        *)
(* invoice has its date, and the items of an invoice are all there, or     *)
(* none of them is (their transaction is under way or has failed): all     *)
(* together they differ from the total by no more than half a cent for     *)
(* each number that was rounded, and one alone is the total.  So do the    *)
(* answers that show them.                                                 *)
BooksSound ==
  /\ now \in Times
  /\ \A i \in DOMAIN rules : rules[i] \in RuleRows \cup {None}
  /\ \A i, j \in Ids : invoices[i].number = invoices[j].number => i = j
  /\ \A i \in Ids :
       /\ invoices[i] \in Invoice
       /\ invoices[i].status = "paid" => invoices[i].paid # None
       /\ AddsUp(invoices[i])
  /\ AnswersAddUp

(* Whatever happens to rules while an invoice is made, each of its items   *)
(* charges one model once, for no more requests than the key made in the   *)
(* period, by a rule that stood so in the database, applies to the key and *)
(* was valid when the invoice was calculated: the usage at the price of    *)
(* the rule, in cents.  (All of the usage: the rule's free quota is not    *)
(* taken off.)                                                             *)
ItemsPriced ==
  \A i \in Ids :
    /\ OneEach(invoices[i].items)
    /\ \A item \in invoices[i].items : Justified(item, invoices[i], logs, versions)

(* An export that is not limited to a status and reads its last page lists *)
(* every invoice that was there when it began, although invoices appear    *)
(* and shift the pages meanwhile.  One that ends at a page it could not    *)
(* read looks the same to its reader; it lacks the oldest invoices, never  *)
(* one between others.                                                     *)
ExportComplete ==
  \A c \in Callers : pc[c] = "exported" /\ call[c].filter.status = Every =>
    /\ ~call[c].cut => call[c].first \subseteq call[c].listed
    /\ \A i \in call[c].first \ call[c].listed, j \in call[c].listed : i < j

(* What was billed stays billed: no invoice vanishes, or changes its key,  *)
(* total or items once it has them; and that it was paid is not forgotten. *)
InvoicesFinal ==
  [][\A i \in Ids :
       /\ i \in Ids'
       /\ invoices'[i].number = invoices[i].number
       /\ invoices'[i].key = invoices[i].key
       /\ invoices'[i].total = invoices[i].total
       /\ invoices[i].items # {} => invoices'[i].items = invoices[i].items
       /\ invoices[i].payments <= invoices'[i].payments
       /\ invoices[i].paid # None => invoices'[i].paid # None]_vars
=============================================================================
