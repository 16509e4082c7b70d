--------------------------- MODULE WorkflowLedger ---------------------------
(***************************************************************************)
(* BillingWorkflow implements CreditLedger: the refinement mapping reads   *)
(* the ledger of a request off the one workflow run with its request id.   *)
(***************************************************************************)
EXTENDS BillingWorkflow

RunsOf(r) == {w \in Chats : workflows[w].status # "ABSENT" /\ chatCall[w].rid = r}
RunOf(r)  == CHOOSE w \in Chats : w \in RunsOf(r)

StageOfRun(row) ==
    CASE row.status = "EVALUATED"           -> "evaluated"
      [] row.status = "WAITING_APPROVAL"    -> "waiting"
      [] row = Row("COMPLETED", "credited") -> "paid"
      [] OTHER                              -> row.result

StageOf(r) == IF RunsOf(r) = {} THEN "unknown" ELSE StageOfRun(workflows[RunOf(r)])
OwedOf(r)  == IF RunsOf(r) = {} THEN 0 ELSE bill[RunOf(r)].amount
Payments   == {[rid |-> k.rid, amount |-> k.amount] : k \in credits}

Ledger == INSTANCE CreditLedger WITH
    stage    <- [r \in RequestIds |-> StageOf(r)],
    owed     <- [r \in RequestIds |-> OwedOf(r)],
    payments <- Payments

\* Every step of every handler is a step of the ledger, or none of its business:
\* whatever the interleaving, the failures and the repetitions, a request is
\* opened once, paid at most once, what it owes, and by the rule for its amount.
ImplementsLedger == Ledger!LedgerSpec
=============================================================================
