------------------------------ MODULE MCBilling ------------------------------
(* A small instance of Billing for TLC. *)
EXTENDS Billing, TLC

CONSTANTS c1, c2, k1, k2, m1, m2

TwoCallers == {c1, c2}
TwoKeys    == {k1, k2}
TwoModels  == {m1, m2}

Row(type, model, key, price, free, until) ==
  [type |-> type, model |-> model, key |-> key, price |-> price, free |-> free, threshold |-> None,
   tierPrice |-> None, active |-> TRUE, from |-> 0, until |-> until]

(* Requests so far: one to each model with the first key, one to m1        *)
(* with the second.                                                        *)
Before ==
  [k \in TwoKeys |-> [m \in TwoModels |-> [t \in Times |->
     IF t = 0 /\ (k = k1 \/ m = m1) THEN 1 ELSE 0]]]

(* A price for everything, a quarter of a cent for a request, of which     *)
(* each first one is said to be free.                                      *)
OneRule == <<Row("token_based", Every, Every, 1, 2, Never)>>

(* What the second key was charged for so far. *)
OneInvoice ==
  <<[number |-> <<0, 0>>, period |-> [first |-> 0, last |-> 0], key |-> k2, total |-> 0,
     status |-> "paid", paid |-> 0, payments |-> 0, priced |-> 0,
     items |-> {[model |-> m1, requests |-> 1, price |-> 1, total |-> 0]}]>>

NoInvoice == <<>>

(* A price for a key of its own until tonight. *)
SomeRules == {Row("request_based", m1, k2, 5, 0, 0)}

SomeChanges == {[price |-> 2], [type |-> "tier", threshold |-> 1, tierPrice |-> 2]}

(* Two periods that start in the same month and end in two. *)
SomePeriods == {[first |-> 0, last |-> 0], [first |-> 0, last |-> 1]}

SomeFilters == {[key |-> Every, status |-> Every], [key |-> k2, status |-> "paid"]}

Alike == Permutations(TwoCallers)

\* What the usage comes to when the free quota is taken off first.
BeyondQuota(row, requests) ==
  LET units == IF row.type = "request_based" THEN requests ELSE Tokens(requests)
  IN  IF units > row.free THEN (units - row.free) * UnitPrice(row, requests) ELSE 0

(* A rule has a free quota (free_quota, a column and a field of the form    *)
(* in the console), so that an item charges no more than what a rule that   *)
(* is made for its model and key leaves beyond it.  CalculateBilling does   *)
(* not read the quota.                                                      *)
FreeQuotaGranted ==
  \A i \in Ids : \A item \in invoices[i].items :
    \E row \in versions :
      /\ row.model \in {Every, item.model} /\ row.key \in {Every, invoices[i].key}
      /\ item.total <= Cents(Float(BeyondQuota(row, item.requests), FALSE))
=============================================================================
