-------------------------- MODULE MCBillingWorkflow --------------------------
(***************************************************************************)
(* Values for model checking BillingWorkflow.  Amounts are in the unit of  *)
(* the limits: with AutoLimit = 1 and MaxLimit = 2 a discrepancy of 1 is   *)
(* credited at once, one of 2 needs an approval, 0 and 3 are only          *)
(* reviewed.                                                               *)
(***************************************************************************)
EXTENDS WorkflowLedger

CONSTANTS alice, bob, carol, dave, erin

Invoice(id, customer, amount, currency) ==
    [id |-> id, customer |-> customer, issued |-> 5, amount |-> amount,
     currency |-> currency, status |-> "FINALIZED"]

\* alice is owed 1, bob 2, carol nothing; dave's invoice is in another currency
\* than his contract, and erin has no contract.  A smaller instance has the rows
\* of its own Customers.
AllInvoices ==
    {Invoice("inv_a", alice, 11, "USD"), Invoice("inv_b", bob, 12, "USD"),
     Invoice("inv_c", carol, 10, "USD"), Invoice("inv_d", dave, 11, "EUR"),
     Invoice("inv_e", erin, 11, "USD")}

MCInvoices == {i \in AllInvoices : i.customer \in Customers}

MCContracts ==
    {[customer |-> c, from |-> 0, to |-> 9, open |-> FALSE, price |-> 10,
      currency |-> "USD", status |-> "ACTIVE"] : c \in Customers \ {erin}}
=============================================================================
