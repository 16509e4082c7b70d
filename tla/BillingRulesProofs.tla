------------------------- MODULE BillingRulesProofs -------------------------
(***************************************************************************)
(* Facts about BillingRules for every pair of limits and all tables, and   *)
(* what follows from them for tables that change.                          *)
(***************************************************************************)
EXTENDS MCBillingRules, FiniteSetTheorems, TLAPS

\* Crediting without anybody's approval happens exactly up to the automatic
\* limit; it is never for nothing or for an undercharge.
LEMMA AutoCreditIsSmall ==
    ASSUME NEW d \in Int
    PROVE  Decision(d) = "AUTO_CREDIT" <=> 0 < d /\ d <= AutoLimit
  BY LimitsAreAmounts DEF Decision

\* A person is asked about what is above the automatic limit and within the
\* maximum, so never when the maximum is not above the automatic limit.
LEMMA ApprovalIsBetweenTheLimits ==
    ASSUME NEW d \in Int
    PROVE  Decision(d) = "HUMAN_APPROVAL" <=> 0 < d /\ AutoLimit < d /\ d <= MaxLimit
  BY LimitsAreAmounts DEF Decision

\* How much care a decision asks for.
Care(decision) ==
    CASE decision = "NO_ACTION"      -> 0
      [] decision = "AUTO_CREDIT"    -> 1
      [] decision = "HUMAN_APPROVAL" -> 2
      [] OTHER                       -> 3

\* A larger overcharge is never treated with less care than a smaller one.
THEOREM CareGrowsWithTheAmount ==
    ASSUME NEW d \in Int, NEW e \in Int, 0 <= d, d <= e
    PROVE  Care(Decision(d)) <= Care(Decision(e))
  <1>1. CASE d = 0
    BY <1>1, LimitsAreAmounts DEF Decision, Care
  <1>2. CASE 0 < d
    <2>1. CASE d <= AutoLimit
      BY <1>2, <2>1, LimitsAreAmounts DEF Decision, Care
    <2>2. CASE AutoLimit < d /\ d <= MaxLimit
      BY <1>2, <2>2, LimitsAreAmounts DEF Decision, Care
    <2>3. CASE AutoLimit < d /\ MaxLimit < d
      BY <1>2, <2>3, LimitsAreAmounts DEF Decision, Care
    <2> QED
      BY <2>1, <2>2, <2>3, LimitsAreAmounts
  <1> QED
    BY <1>1, <1>2

-----------------------------------------------------------------------------
(***************************************************************************)
(* What the analysis compares, for any tables.                             *)
(***************************************************************************)

\* The rows of other customers never change what is compared.
THEOREM OnlyOwnRowsMatter ==
    ASSUME NEW bills, NEW deals, NEW c
    PROVE  Comparisons(bills, deals, c) =
             Comparisons({i \in bills : i.customer = c}, {k \in deals : k.customer = c}, c)
  <1> DEFINE own == {i \in bills : i.customer = c}
             ours == {k \in deals : k.customer = c}
  <1>1. LatestFinalized(bills, c) = LatestFinalized(own, c)
    BY DEF LatestFinalized
  <1>2. \A at : ContractsFor(deals, c, at) = ContractsFor(ours, c, at)
    BY DEF ContractsFor
  <1>3. \A m, at : ContractsFor(deals, c, at) = {m} => m \in ours
    BY DEF ContractsFor
  <1> HIDE DEF own, ours
  <1>4. Comparisons(bills, deals, c)
          = {m \in [invoice : LatestFinalized(own, c), contract : deals] :
               ContractsFor(ours, c, m.invoice.issued) = {m.contract}}
    BY <1>1, <1>2 DEF Comparisons
  <1>5. ours \subseteq deals
    BY DEF ours
  <1>6. Comparisons(own, ours, c)
          = {m \in [invoice : LatestFinalized(own, c), contract : ours] :
               ContractsFor(ours, c, m.invoice.issued) = {m.contract}}
    BY DEF Comparisons
  <1> QED
    BY <1>2, <1>3, <1>4, <1>5, <1>6 DEF own, ours

\* What is compared is a latest finalised invoice of the customer's and the one
\* contract over its instant.
LEMMA WhatIsCompared ==
    ASSUME NEW bills, NEW deals, NEW c, NEW m \in Comparisons(bills, deals, c)
    PROVE  /\ m = [invoice |-> m.invoice, contract |-> m.contract]
           /\ m.invoice \in LatestFinalized(bills, c)
           /\ m.contract \in deals
           /\ ContractsFor(deals, c, m.invoice.issued) = {m.contract}
  BY DEF Comparisons

\* A second contract over the instant of issue stops the comparison.
THEOREM OverlapStopsTheComparison ==
    ASSUME NEW bills, NEW deals, NEW c, NEW m \in Comparisons(bills, deals, c),
           NEW k, k \notin deals, k \in ContractsFor({k}, c, m.invoice.issued)
    PROVE  \A n \in Comparisons(bills, deals \cup {k}, c) : n.invoice # m.invoice
  <1> SUFFICES ASSUME NEW n \in Comparisons(bills, deals \cup {k}, c), n.invoice = m.invoice
               PROVE  FALSE
    OBVIOUS
  <1>1. ContractsFor(deals \cup {k}, c, m.invoice.issued) = {n.contract}
    BY WhatIsCompared
  <1>2. m.contract \in deals /\ m.contract \in ContractsFor(deals, c, m.invoice.issued)
    BY WhatIsCompared
  <1>3. {m.contract, k} \subseteq ContractsFor(deals \cup {k}, c, m.invoice.issued)
    BY <1>2 DEF ContractsFor
  <1> QED
    BY <1>1, <1>2, <1>3

\* Without two finalised invoices of the same instant, at most one pair is
\* compared.
THEOREM OneComparison ==
    ASSUME NEW bills, NEW deals, NEW c,
           \A i \in bills : i.issued \in Int,
           \A i, j \in bills : (/\ i.customer = c /\ i.status = "FINALIZED"
                                /\ j.customer = c /\ j.status = "FINALIZED"
                                /\ i.issued = j.issued) => i = j,
           NEW m \in Comparisons(bills, deals, c), NEW n \in Comparisons(bills, deals, c)
    PROVE  m = n
  <1>1. m.invoice = n.invoice
    <2> DEFINE i == m.invoice
               j == n.invoice
    <2>1. i \in LatestFinalized(bills, c) /\ j \in LatestFinalized(bills, c)
      BY WhatIsCompared
    <2>2. /\ i \in bills /\ i.customer = c /\ i.status = "FINALIZED"
          /\ j \in bills /\ j.customer = c /\ j.status = "FINALIZED"
          /\ i.issued <= j.issued /\ j.issued <= i.issued
      BY <2>1 DEF LatestFinalized
    <2> HIDE DEF i, j
    <2>3. i.issued = j.issued
      BY <2>2
    <2> QED
      BY <2>2, <2>3 DEF i, j
  <1>2. m.contract = n.contract
    <2>1. {m.contract} = {n.contract}
      BY <1>1, WhatIsCompared
    <2> QED
      BY <2>1
  <1> QED
    BY <1>1, <1>2, WhatIsCompared

\* What is credited, at once or after an approval, is an overcharge, and takes
\* the invoice down to the contract's price.
THEOREM CreditsMakeUpTheDifference ==
    ASSUME NEW m, m.invoice.amount \in Int, m.contract.price \in Int,
           Decision(BillOf(m).amount) \in {"AUTO_CREDIT", "HUMAN_APPROVAL"}
    PROVE  /\ m.invoice.amount > m.contract.price
           /\ m.invoice.amount - BillOf(m).amount = m.contract.price
  <1>1. PICK d \in Int : d = m.invoice.amount - m.contract.price
    OBVIOUS
  <1>2. BillOf(m).amount = d
    BY <1>1 DEF BillOf
  <1>3. 0 < d
    BY <1>2, AutoCreditIsSmall, ApprovalIsBetweenTheLimits
  <1> QED
    BY <1>1, <1>2, <1>3

-----------------------------------------------------------------------------
(***************************************************************************)
(* Tables that change.                                                     *)
(***************************************************************************)
RowsTyped == invoices \subseteq SomeInvoices /\ contracts \subseteq SomeContracts

LEMMA RowsStayTyped == Spec => []RowsTyped
  <1>1. Init => RowsTyped
    BY DEF Init, RowsTyped
  <1>2. RowsTyped /\ [Next]_<<invoices, contracts>> => RowsTyped'
    BY DEF RowsTyped, Next, EditInvoices, EditContracts, Toggle
  <1> QED
    BY <1>1, <1>2, PTL DEF Spec

LEMMA RowsAreNumbers ==
    ASSUME RowsTyped
    PROVE  /\ \A i \in invoices : i.issued \in Int /\ i.amount \in Int
           /\ \A k \in contracts : k.price \in Int
  BY DEF RowsTyped, SomeInvoices, InvoiceOf, SomeContracts, Period

\* Whatever rows come and go, those of another customer never change what is
\* compared.
THEOREM ForeignRowsNeverMatter == Spec => []ForeignRowsDoNotMatter
  <1>1. ForeignRowsDoNotMatter
    BY OnlyOwnRowsMatter DEF ForeignRowsDoNotMatter, Compared
  <1> QED
    BY <1>1, PTL

\* Whatever rows come and go, an overlap is refused.
THEOREM OverlapIsAlwaysRefused == Spec => []OverlapIsRefused
  <1>1. OverlapIsRefused
    <2> SUFFICES ASSUME NEW c \in customers, NEW m \in Compared(c),
                        NEW k \in ContractsFor(SomeContracts \ contracts, c, m.invoice.issued)
                 PROVE  \A n \in Comparisons(invoices, contracts \cup {k}, c) :
                          n.invoice # m.invoice
      BY DEF OverlapIsRefused
    <2>1. k \notin contracts /\ k \in ContractsFor({k}, c, m.invoice.issued)
      BY DEF ContractsFor
    <2> QED
      BY <2>1, OverlapStopsTheComparison DEF Compared
  <1> QED
    BY <1>1, PTL

\* Whatever rows come and go, what is compared is determined by them.
THEOREM ComparisonIsAlwaysDetermined == Spec => []ComparisonIsDetermined
  <1>1. RowsTyped => ComparisonIsDetermined
    <2> SUFFICES ASSUME RowsTyped, NEW c \in customers,
                        \A i, j \in invoices :
                            (/\ i.customer = c /\ i.status = "FINALIZED"
                             /\ j.customer = c /\ j.status = "FINALIZED"
                             /\ i.issued = j.issued) => i = j
                 PROVE  Cardinality(Compared(c)) <= 1
      BY DEF ComparisonIsDetermined
    <2>1. \A m, n \in Compared(c) : m = n
      BY RowsAreNumbers, OneComparison DEF Compared
    <2>2. CASE Compared(c) = {}
      BY <2>2, FS_EmptySet
    <2>3. CASE Compared(c) # {}
      <3>1. PICK m : Compared(c) = {m}
        BY <2>1, <2>3
      <3>2. Cardinality({m}) = 1
        BY FS_Singleton
      <3> QED
        BY <3>1, <3>2
    <2> QED
      BY <2>2, <2>3
  <1> QED
    BY <1>1, RowsStayTyped, PTL

\* Whatever rows come and go, only overcharges are credited.
THEOREM OnlyOverchargesAreEverCredited == Spec => []OnlyOverchargesAreCredited
  <1>1. RowsTyped => OnlyOverchargesAreCredited
    <2> SUFFICES ASSUME RowsTyped, NEW c \in customers, NEW m \in Compared(c),
                        Decision(BillOf(m).amount) \in {"AUTO_CREDIT", "HUMAN_APPROVAL"}
                 PROVE  /\ m.invoice.amount > m.contract.price
                        /\ m.invoice.amount - BillOf(m).amount = m.contract.price
      BY DEF OnlyOverchargesAreCredited
    <2>1. m.invoice \in invoices /\ m.contract \in contracts
      BY WhatIsCompared DEF Compared, LatestFinalized
    <2> QED
      BY <2>1, RowsAreNumbers, CreditsMakeUpTheDifference
  <1> QED
    BY <1>1, RowsStayTyped, PTL
=============================================================================
