--------------------------- MODULE MCBillingMetrics ---------------------------
(***************************************************************************)
(* Values for model checking BillingMetrics, and BillingRemote and         *)
(* McpClient in it.  Amounts are in the unit of the limits: alice is owed  *)
(* 1, which is credited at once, bob 2, which needs an approval, and erin  *)
(* has an invoice and no contract.                                         *)
(***************************************************************************)
EXTENDS BillingMetrics

CONSTANTS alice, bob, erin

MCInvoices ==
    {[id |-> "inv_a", customer |-> alice, issued |-> 5, amount |-> 11,
      currency |-> "USD", status |-> "FINALIZED"],
     [id |-> "inv_b", customer |-> bob, issued |-> 5, amount |-> 12,
      currency |-> "USD", status |-> "FINALIZED"],
     [id |-> "inv_e", customer |-> erin, issued |-> 5, amount |-> 11,
      currency |-> "USD", status |-> "FINALIZED"]}

MCContracts ==
    {[customer |-> c, from |-> 0, to |-> 9, open |-> FALSE, price |-> 10,
      currency |-> "USD", status |-> "ACTIVE"] : c \in Customers \ {erin}}
=============================================================================
