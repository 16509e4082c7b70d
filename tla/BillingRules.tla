---------------------------- MODULE BillingRules ----------------------------
(***************************************************************************)
(* The pure part of the billing agent: which invoice and which contract a  *)
(* customer's bill is made of, and what is done about the difference       *)
(* between them.                                                           *)
(*                                                                         *)
(* A table is a set of records, one for every row of the database.  An     *)
(* amount is an integer (cents), an instant is a natural number.           *)
(***************************************************************************)
EXTENDS Integers

CONSTANTS
    AutoLimit,      \* settings.auto_credit_limit
    MaxLimit        \* settings.max_credit_limit

\* The settings accept any two decimals, and do not ask the first to be the
\* smaller one.
ASSUME LimitsAreAmounts == AutoLimit \in Int /\ MaxLimit \in Int

BillingDecision ==
    {"NO_ACTION", "AUTO_CREDIT", "HUMAN_APPROVAL", "MANUAL_INVESTIGATION"}

\* What is done about a discrepancy of d.  The automatic limit is looked at
\* before the maximum.
Decision(d) ==
    CASE d = 0                               -> "NO_ACTION"
      [] d < 0                               -> "MANUAL_INVESTIGATION"
      [] d > 0 /\ d <= AutoLimit             -> "AUTO_CREDIT"
      [] d > 0 /\ AutoLimit < d /\ d <= MaxLimit -> "HUMAN_APPROVAL"
      [] OTHER                               -> "MANUAL_INVESTIGATION"

-----------------------------------------------------------------------------

\* Mutant: the latest of everybody's invoices.
LatestOfAll(invoices, customer) ==
    LET finalized == {i \in invoices : i.status = "FINALIZED"}
    IN  {i \in finalized : i.customer = customer /\ \A j \in finalized : j.issued <= i.issued}

\* Mutant: no ORDER BY.
AnyFinalized(invoices, customer) ==
    {i \in invoices : i.customer = customer /\ i.status = "FINALIZED"}

\* The invoices the query for the latest finalised one can return: which of
\* two invoices issued at the same instant comes first is not determined.
LatestFinalized(invoices, customer) ==
    LET finalized == {i \in invoices : i.customer = customer /\ i.status = "FINALIZED"}
    IN  {i \in finalized : \A j \in finalized : j.issued <= i.issued}

\* The active contracts whose period holds the instant `at`; both ends belong
\* to the period, and an open contract (effective_to is NULL) has no end.
ContractsFor(contracts, customer, at) ==
    {k \in contracts : /\ k.customer = customer
                       /\ k.status = "ACTIVE"
                       /\ k.from <= at
                       /\ k.open \/ at <= k.to}

\* Mutant: the first contract that covers the instant is taken.
ComparisonsWithAny(invoices, contracts, customer) ==
    {m \in [invoice : LatestFinalized(invoices, customer), contract : contracts] :
        m.contract \in ContractsFor(contracts, customer, m.invoice.issued)}

\* The pairs (invoice, contract) the analysis compares.  There is none when the
\* customer is unknown, has no finalised invoice, or when no contract or more
\* than one contract covers the instant of issue.
Comparisons(invoices, contracts, customer) ==
    {m \in [invoice : LatestFinalized(invoices, customer), contract : contracts] :
        ContractsFor(contracts, customer, m.invoice.issued) = {m.contract}}

SameCurrency(comparison) ==
    comparison.invoice.currency = comparison.contract.currency

\* Mutant: the difference the other way round.
BillOfReversed(comparison) ==
    [invoice |-> comparison.invoice.id,
     amount  |-> comparison.contract.price - comparison.invoice.amount]

\* The bill the rest of the workflow carries: the invoice and the discrepancy.
BillOf(comparison) ==
    [invoice |-> comparison.invoice.id,
     amount  |-> comparison.invoice.amount - comparison.contract.price]
=============================================================================
