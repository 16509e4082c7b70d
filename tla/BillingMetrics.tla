---------------------------- MODULE BillingMetrics ----------------------------
(***************************************************************************)
(* The business counters of the metrics endpoint beside the billing agent. *)
(* A handler counts a credit, an approval request or a decision when the   *)
(* step that made it returns, before the commit that makes it last.  A     *)
(* handler counts each at most once, so a counter is the set of handlers   *)
(* that have counted.  Each process has counters of its own and loses them *)
(* when it ends; here they are one history of all processes.               *)
(***************************************************************************)
EXTENDS BillingRemote

VARIABLES
    creditsCreated,     \* billing_credits_created_total
    approvalsCreated,   \* billing_approvals_created_total
    approvalsCompleted  \* billing_approvals_completed_total

counters    == <<creditsCreated, approvalsCreated, approvalsCompleted>>
metricsVars == <<remoteVars, counters>>

Moves(h, from, to) == pc[h] \in from /\ pc'[h] \in to

\* Mutant: what the server inserts is not counted.
RecordsLocalCredit(h) == ~ Remote(h) /\ Moves(h, {"insert_credit"}, {"complete", "grant"})

\* Mutant: a credit is counted before its key is looked up.
RecordsIntendedCredit(h) ==
    Moves(h, {"check_key"}, {"insert_key", "done"}) \/ Moves(h, {"insert_credit"}, {"complete", "grant"})

RecordsCreditCreated(h) == Moves(h, {"insert_credit"}, {"complete", "grant"})

RecordsApprovalCreated(h) == Moves(h, {"request_approval"}, {"commit_waiting", "record_waiting"})

RecordsApprovalCompleted(h) ==
    Moves(h, {"grant", "reject"}, {"commit_approved", "commit_rejected"})

Record ==
    /\ creditsCreated' = creditsCreated \cup {h \in Handlers : RecordsCreditCreated(h)}
    /\ approvalsCreated' = approvalsCreated \cup {h \in Handlers : RecordsApprovalCreated(h)}
    /\ approvalsCompleted' =
         approvalsCompleted \cup {h \in Handlers : RecordsApprovalCompleted(h)}

MetricsInit ==
    /\ RemoteInit
    /\ creditsCreated = {}
    /\ approvalsCreated = {}
    /\ approvalsCompleted = {}

MetricsNext == RemoteNext /\ Record

MetricsSpec == MetricsInit /\ [][MetricsNext]_metricsVars /\ RemoteFairness

-----------------------------------------------------------------------------
\* The handlers whose credit lasts, whether its row is the session's or the
\* server's, and the decisions that last.
Credited ==
    {k.by : k \in credits} \cup {c \in Chats : reply[c] = "credited"}
        \cup {d \in Decisions : Audit("CREDIT_CREATED", WorkflowOf(d), d) \in audits}
Decided ==
    {d \in Decisions : \E e \in {"APPROVAL_GRANTED", "APPROVAL_REJECTED"} :
        Audit(e, WorkflowOf(d), d) \in audits}

\* Nothing that lasts is missing from the counters, although they live in the
\* process and the records in two databases' sessions.
CommittedIsCounted ==
    /\ Credited \subseteq creditsCreated
    /\ {c \in Chats : workflows[c].status = "WAITING_APPROVAL" \/ approvals[c] # "ABSENT"}
         \subseteq approvalsCreated
    /\ Decided \subseteq approvalsCompleted

\* The counters run ahead of the records only by calls that are still open or
\* have failed: a refused repetition counts nothing.
Uncertain(h) == Open(h) \/ reply[h] = "failure"

CountedIsCommittedOrFailed ==
    /\ \A h \in creditsCreated : h \in Credited \/ Uncertain(h)
    /\ \A c \in approvalsCreated :
         workflows[c].status \in {"WAITING_APPROVAL", "COMPLETED"} \/ Uncertain(c)
    /\ \A d \in approvalsCompleted : d \in Decided \/ Uncertain(d)
=============================================================================
