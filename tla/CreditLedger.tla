---------------------------- MODULE CreditLedger ----------------------------
(***************************************************************************)
(* What the billing agent promises about money, request by request, with   *)
(* no handlers, transactions or tables: a request is opened once, for one  *)
(* amount; a small amount is paid at once, a larger one waits for a        *)
(* verdict, the rest is only reviewed; a request is paid at most once, in  *)
(* the amount it was opened for, in the step that completes it.            *)
(*                                                                         *)
(* A verdict may be overtaken by another one: a decision that read the     *)
(* approval as pending is carried out even after a rival's.  A payment is  *)
(* never taken back by it, nor made twice.                                 *)
(***************************************************************************)
EXTENDS BillingRules

CONSTANT RequestIds

VARIABLES
    stage,      \* how far each request has come
    owed,       \* the amount each opened request is about
    payments    \* what was paid: [rid, amount]

ledger == <<stage, owed, payments>>

Stages == {"unknown", "evaluated", "waiting", "paid", "reviewed", "approved", "rejected"}

LedgerInit ==
    /\ stage = [r \in RequestIds |-> "unknown"]
    /\ owed = [r \in RequestIds |-> 0]
    /\ payments = {}

Move(r, from, to) ==
    /\ stage[r] \in from
    /\ stage' = [stage EXCEPT ![r] = to]

Open(r) ==
    /\ Move(r, {"unknown"}, "evaluated")
    /\ owed'[r] \in Int
    /\ owed' = [owed EXCEPT ![r] = owed'[r]]
    /\ UNCHANGED payments

Pay(r) ==
    /\ \A p \in payments : p.rid # r
    /\ payments' = payments \cup {[rid |-> r, amount |-> owed[r]]}

PayAtOnce(r) ==
    /\ Decision(owed[r]) = "AUTO_CREDIT"
    /\ Move(r, {"evaluated"}, "paid")
    /\ Pay(r)
    /\ UNCHANGED owed

Suspend(r) ==
    /\ Decision(owed[r]) = "HUMAN_APPROVAL"
    /\ Move(r, {"evaluated"}, "waiting")
    /\ UNCHANGED <<owed, payments>>

Review(r) ==
    /\ Decision(owed[r]) \in {"NO_ACTION", "MANUAL_INVESTIGATION"}
    /\ Move(r, {"evaluated"}, "reviewed")
    /\ UNCHANGED <<owed, payments>>

Approve(r) ==
    /\ Move(r, {"waiting", "rejected"}, "approved")
    /\ Pay(r)
    /\ UNCHANGED owed

Reject(r) ==
    /\ Move(r, {"waiting", "approved", "rejected"}, "rejected")
    /\ UNCHANGED <<owed, payments>>

LedgerNext ==
    \E r \in RequestIds :
        Open(r) \/ PayAtOnce(r) \/ Suspend(r) \/ Review(r) \/ Approve(r) \/ Reject(r)

LedgerSpec == LedgerInit /\ [][LedgerNext]_ledger
=============================================================================
