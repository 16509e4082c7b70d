--------------------------- MODULE MCBillingRules ---------------------------
(***************************************************************************)
(* BillingRules over changing tables: rows of two customers are added and  *)
(* removed by whoever maintains the tables, one at a time, and what the    *)
(* analysis would compare is looked at in every state.                     *)
(***************************************************************************)
EXTENDS BillingRules, FiniteSets

VARIABLES invoices, contracts

customers == {"alice", "bob"}

InvoiceOf(c, t, s, amount) ==
    [id |-> <<c, t, s, amount>>, customer |-> c, issued |-> t, amount |-> amount,
     currency |-> "USD", status |-> s]

\* Two instants of issue, and for alice two finalised rows of the later one, so
\* that a later invoice and a tie can occur; every instant has a draft.
SomeInvoices ==
    {InvoiceOf(c, t, s, 10 + t) : c \in customers, t \in {1, 2}, s \in {"FINALIZED", "DRAFT"}}
        \cup {InvoiceOf("alice", 2, "FINALIZED", 13)}

Period(c, from, to, open, status) ==
    [customer |-> c, from |-> from, to |-> to, open |-> open, price |-> 12 - from,
     currency |-> "USD", status |-> status]

\* alice's first two contracts meet at instant 2, her third never ends, her
\* fourth is cancelled.  Their prices are above, at and below the invoices' totals.
SomeContracts ==
    {Period("alice", 0, 2, FALSE, "ACTIVE"), Period("alice", 2, 3, FALSE, "ACTIVE"),
     Period("alice", 1, 0, TRUE, "ACTIVE"), Period("alice", 0, 3, FALSE, "CANCELLED"),
     Period("bob", 0, 3, FALSE, "ACTIVE")}

Toggle(set, x) == IF x \in set THEN set \ {x} ELSE set \cup {x}

Init == invoices = {} /\ contracts = {}

EditInvoices ==
    /\ \E i \in SomeInvoices : invoices' = Toggle(invoices, i)
    /\ UNCHANGED contracts

EditContracts ==
    /\ \E k \in SomeContracts : contracts' = Toggle(contracts, k)
    /\ UNCHANGED invoices

Next == EditInvoices \/ EditContracts

Spec == Init /\ [][Next]_<<invoices, contracts>>

-----------------------------------------------------------------------------
Compared(c) == Comparisons(invoices, contracts, c)

\* Rows of another customer never change what is compared.
ForeignRowsDoNotMatter ==
    \A c \in customers :
        Compared(c) = Comparisons({i \in invoices : i.customer = c},
                                  {k \in contracts : k.customer = c}, c)

\* The analysis fails closed: with a second contract over the instant of issue,
\* as on the day one contract hands over to the next, nothing is compared.
OverlapIsRefused ==
    \A c \in customers : \A m \in Compared(c) :
        \A k \in ContractsFor(SomeContracts \ contracts, c, m.invoice.issued) :
            \A n \in Comparisons(invoices, contracts \cup {k}, c) : n.invoice # m.invoice

\* What is compared is determined by the tables, but for two finalised invoices
\* of the same instant.
ComparisonIsDetermined ==
    \A c \in customers :
        (\A i, j \in invoices : (/\ i.customer = c /\ i.status = "FINALIZED"
                                 /\ j.customer = c /\ j.status = "FINALIZED"
                                 /\ i.issued = j.issued) => i = j)
          => Cardinality(Compared(c)) <= 1

\* Whatever is credited, at once or after an approval, is an overcharge, and
\* takes the invoice down to the contract's price.
OnlyOverchargesAreCredited ==
    \A c \in customers : \A m \in Compared(c) :
        Decision(BillOf(m).amount) \in {"AUTO_CREDIT", "HUMAN_APPROVAL"} =>
            /\ m.invoice.amount > m.contract.price
            /\ m.invoice.amount - BillOf(m).amount = m.contract.price
=============================================================================
