--------------------------- MODULE BillingWorkflow ---------------------------
(***************************************************************************)
(* The billing agent as it runs with MCP_CLIENT_MODE=local: any number of  *)
(* POST /api/chat calls and POST /api/approvals/{id}/decision calls, each  *)
(* with a database session of its own, over one database.                  *)
(*                                                                         *)
(* A handler is one call.  Its actions are cut where another handler can   *)
(* run: at every statement it awaits from the database.  What an open      *)
(* transaction has written is seen by nobody else; its rows are locked,    *)
(* `held` is that lock set, and the new values, fixed by the place where   *)
(* the handler is, reach the tables in the handler's commit action.  An    *)
(* exception closes the session without a commit: the locks go, the tables *)
(* stay.                                                                   *)
(* A chat's last commit and its answer are one action: that the process    *)
(* ends between the two, when the work is done and the caller is not told, *)
(* is left out.                                                            *)
(*                                                                         *)
(* A chat makes at most one workflow run and one approval request, so the  *)
(* chat itself stands for their generated ids, and for the request id that *)
(* is generated when the client sends none.                                *)
(***************************************************************************)
EXTENDS BillingRules, FiniteSets

CONSTANTS
    Chats,          \* the calls of POST /api/chat
    Decisions,      \* the calls of POST /api/approvals/{id}/decision
    ClientIds,      \* the request ids clients choose
    Customers,      \* the customer ids clients name, known or not
    Invoices,       \* the rows of table invoices
    Contracts,      \* the rows of table contracts
    Dialect         \* the database behind DATABASE_URL

Handlers   == Chats \cup Decisions
RequestIds == ClientIds \cup Chats
InvoiceIds == {i.id : i \in Invoices}

ASSUME HandlersDiffer == Chats \cap Decisions = {} /\ ClientIds \cap Chats = {}
ASSUME DialectIsKnown == Dialect \in {"sqlite", "postgresql"}
ASSUME TablesAreTyped ==
    /\ Invoices \subseteq
         [id : InvoiceIds, customer : Customers, issued : Nat, amount : Int,
          currency : STRING, status : {"DRAFT", "FINALIZED", "CANCELLED", "SUPERSEDED"}]
    /\ \A k \in Contracts :
         /\ k.customer \in Customers /\ k.currency \in STRING
         /\ k.price \in Int /\ k.from \in Nat /\ k.to \in Nat /\ k.open \in BOOLEAN
         /\ k.status \in {"ACTIVE", "CANCELLED", "EXPIRED"}

VARIABLES
    pc,             \* where each handler is
    chatCall,       \* what each chat was asked: [rid, customer]
    decisionCall,   \* what each decision was asked: [approval, verdict]
    bill,           \* the bill each chat found, copied into its approval row
    workflows,      \* table workflow_runs: status, and what state_json says
    approvals,      \* table approval_requests: the status of each row
    lapsed,         \* the approval requests whose expires_at has passed
    keys,           \* table idempotency_keys
    credits,        \* table credits; `by` is the handler that inserted the row
    audits,         \* table audit_events
    held,           \* the rows each open transaction has written, hence locked
    reply,          \* the answer of each handler
    mail            \* the notifications handed to the email service

tables == <<workflows, approvals, keys, credits, audits>>
inputs == <<chatCall, decisionCall>>
vars   == <<pc, inputs, bill, tables, lapsed, held, reply, mail>>

-----------------------------------------------------------------------------
(***************************************************************************)
(* The values.                                                             *)
(***************************************************************************)
ChatPlaces ==
    {"idle", "evaluate", "commit_evaluated", "check_key", "insert_key",
     "insert_credit", "complete", "commit_credit", "request_approval",
     "commit_waiting", "review", "commit_review", "done"}
DecisionPlaces ==
    {"idle", "load", "expire", "raise_expired", "decide", "check_key",
     "insert_key", "insert_credit", "grant", "commit_approved", "reject",
     "commit_rejected", "notify", "done"}

\* The columns status and state_json of workflow_runs; ABSENT is no row.  No
\* transaction that writes FAILED commits.
WorkflowRows ==
    [status : {"ABSENT", "EVALUATED", "WAITING_APPROVAL", "COMPLETED"},
     result : {"none", "credited", "reviewed", "approved", "rejected"}]
Row(s, r) == [status |-> s, result |-> r]

Events == {"DISCREPANCY_CALCULATED", "APPROVAL_GRANTED", "CREDIT_CREATED", "APPROVAL_REJECTED"}
Audit(e, w, h) == [event |-> e, workflow |-> w, by |-> h]

\* The column status of approval_requests.  No transaction that writes
\* EXPIRED commits.
ApprovalStatus == {"ABSENT", "PENDING", "APPROVED", "REJECTED"}

\* 200 with the outcome; 404, 409, 400 and 503; the 500 of an IntegrityError
\* nobody catches; any other failure, which may be an answer that never came.
Replies ==
    {"none", "credited", "waiting", "reviewed", "approved", "rejected",
     "not_found", "conflict", "invalid", "unavailable", "integrity_error", "failure"}

Verdicts == {"approve", "reject"}

\* The workflow a handler works on, and the request id and customer of it.
WorkflowOf(h) == IF h \in Chats THEN h ELSE decisionCall[h].approval
RidOf(h)      == chatCall[WorkflowOf(h)].rid
BillOfHandler(h) == bill[WorkflowOf(h)]

\* f"credit:{request_id}:{customer_id}:{invoice_id}:{discrepancy}"
KeyOf(h) ==
    [rid |-> RidOf(h), customer |-> chatCall[WorkflowOf(h)].customer,
     invoice |-> BillOfHandler(h).invoice, amount |-> BillOfHandler(h).amount]

CreditOf(h) ==
    [rid |-> RidOf(h), customer |-> chatCall[WorkflowOf(h)].customer,
     invoice |-> BillOfHandler(h).invoice, amount |-> BillOfHandler(h).amount,
     by |-> h]

-----------------------------------------------------------------------------
(***************************************************************************)
(* Transactions.  The rows, and the entries of unique indexes, that        *)
(* handlers write.  PostgreSQL makes a writer wait for the transaction     *)
(* that wrote the same row or index entry; SQLite has one writer at a      *)
(* time.  Reading waits for nobody.                                        *)
(***************************************************************************)
RequestEntry(h) == <<"request", RidOf(h)>>
WorkflowRow(h)  == <<"workflow", WorkflowOf(h)>>
ApprovalRow(h)  == <<"approval", WorkflowOf(h)>>
KeyRow(h)       == <<"key", KeyOf(h)>>
CreditEntry(h)  == <<"credit", RidOf(h)>>

\* Mutant: unique indexes that do not see what is not committed.
BlocksNobody(g, rows) == FALSE

Blocks(g, rows) ==
    /\ held[g] # {}
    /\ Dialect = "sqlite" \/ held[g] \cap rows # {}

Write(h, rows) ==
    /\ \A g \in Handlers \ {h} : ~ Blocks(g, rows)
    /\ held' = [held EXCEPT ![h] = @ \cup rows]

EndTransaction(h) == held' = [held EXCEPT ![h] = {}]

Goto(h, place) == pc' = [pc EXCEPT ![h] = place]

\* Mutant: the session is not closed when the call ends.
AnswerWithOpenSession(h, r) ==
    /\ Goto(h, "done")
    /\ reply' = [reply EXCEPT ![h] = r]
    /\ UNCHANGED held

\* The handler answers, with its transaction over.
Answer(h, r) ==
    /\ Goto(h, "done")
    /\ reply' = [reply EXCEPT ![h] = r]
    /\ EndTransaction(h)

\* The request id is the unique column of an existing workflow run.
RequestTaken(rid) ==
    \E w \in Chats : workflows[w].status # "ABSENT" /\ chatCall[w].rid = rid

\* Mutant: the IntegrityError of a repeated request id is not recognised.
DuplicateReplyUnmapped == "integrity_error"

\* What a client sees when it repeats a request id.  The repository looks for
\* "workflow_runs.request_id" in the text of the IntegrityError, which is how
\* SQLite words it; PostgreSQL names the constraint and not the column, and
\* the error goes through.
DuplicateReply == IF Dialect = "sqlite" THEN "conflict" ELSE "integrity_error"

-----------------------------------------------------------------------------
Init ==
    /\ pc = [h \in Handlers |-> "idle"]
    /\ chatCall = [c \in Chats |-> [rid |-> c, customer |-> "nobody"]]
    /\ decisionCall = [d \in Decisions |-> [approval |-> "none", verdict |-> "none"]]
    /\ bill = [c \in Chats |-> [invoice |-> "none", amount |-> 0]]
    /\ workflows = [c \in Chats |-> Row("ABSENT", "none")]
    /\ approvals = [c \in Chats |-> "ABSENT"]
    /\ lapsed = {}
    /\ keys = {}
    /\ credits = {}
    /\ audits = {}
    /\ held = [h \in Handlers |-> {}]
    /\ reply = [h \in Handlers |-> "none"]
    /\ mail = {}

-----------------------------------------------------------------------------
(***************************************************************************)
(* POST /api/chat.                                                         *)
(***************************************************************************)

\* A call arrives, with a request id of the client's or a fresh one.  What the
\* language model makes of the message changes nothing below.
ReceiveChat(c) ==
    /\ pc[c] = "idle"
    /\ \E rid \in ClientIds \cup {c}, customer \in Customers :
         chatCall' = [chatCall EXCEPT ![c] = [rid |-> rid, customer |-> customer]]
    /\ Goto(c, "evaluate")
    /\ UNCHANGED <<decisionCall, bill, tables, lapsed, held, reply, mail>>

\* There is nothing to compare, and the client of the MCP tools reports every
\* error of a tool as 503; or there is, in two currencies, which is a 400.
RefuseAnalysis(c) ==
    LET found == Comparisons(Invoices, Contracts, chatCall[c].customer)
    IN  /\ pc[c] = "evaluate"
        /\ \/ found = {} /\ Answer(c, "unavailable")
           \/ (\E m \in found : ~ SameCurrency(m)) /\ Answer(c, "invalid")
        /\ UNCHANGED <<inputs, bill, tables, lapsed, mail>>

\* The analysis, and the INSERT of the workflow run as EVALUATED.
Evaluate(c) ==
    /\ pc[c] = "evaluate"
    /\ \E m \in Comparisons(Invoices, Contracts, chatCall[c].customer) :
         /\ SameCurrency(m)
         /\ bill' = [bill EXCEPT ![c] = BillOf(m)]
    /\ ~ RequestTaken(RidOf(c))
    /\ Write(c, {RequestEntry(c), WorkflowRow(c)})
    /\ Goto(c, "commit_evaluated")
    /\ UNCHANGED <<inputs, tables, lapsed, reply, mail>>

\* The same INSERT when the request id is taken: the whole call fails.  It
\* waits, as the INSERT above does, for a transaction that may yet take the id.
RefuseDuplicate(c) ==
    /\ pc[c] = "evaluate"
    /\ \E m \in Comparisons(Invoices, Contracts, chatCall[c].customer) : SameCurrency(m)
    /\ RequestTaken(RidOf(c))
    /\ \A g \in Handlers \ {c} : ~ Blocks(g, {RequestEntry(c), WorkflowRow(c)})
    /\ Answer(c, DuplicateReply)
    /\ UNCHANGED <<inputs, bill, tables, lapsed, mail>>

\* Mutant: whatever may be credited is credited at once.
NextPlaceWithoutApproval(d) ==
    IF d \in {"AUTO_CREDIT", "HUMAN_APPROVAL"} THEN "check_key" ELSE "review"

\* Where the graph's side_effects node goes for each decision.
NextPlace(d) ==
    CASE d = "AUTO_CREDIT"    -> "check_key"
      [] d = "HUMAN_APPROVAL" -> "request_approval"
      [] OTHER                -> "review"

CommitEvaluated(c) ==
    /\ pc[c] = "commit_evaluated"
    /\ workflows' = [workflows EXCEPT ![c] = Row("EVALUATED", "none")]
    /\ audits' = audits \cup {Audit("DISCREPANCY_CALCULATED", c, c)}
    /\ EndTransaction(c)
    /\ Goto(c, NextPlace(Decision(bill[c].amount)))
    /\ UNCHANGED <<inputs, bill, approvals, keys, credits, lapsed, reply, mail>>

\* AUTO_CREDIT, after the credit row is inserted: the run is updated, and the
\* customer is told, before the commit.
CompleteCredit(c) ==
    /\ pc[c] = "complete"
    /\ Write(c, {WorkflowRow(c)})
    /\ mail' = mail \cup {[kind |-> "credited", workflow |-> c, by |-> c]}
    /\ Goto(c, "commit_credit")
    /\ UNCHANGED <<inputs, bill, tables, lapsed, reply>>

CommitCredit(c) ==
    /\ pc[c] = "commit_credit"
    /\ keys' = keys \cup {KeyOf(c)}
    /\ credits' = credits \cup {CreditOf(c)}
    /\ workflows' = [workflows EXCEPT ![c] = Row("COMPLETED", "credited")]
    /\ Answer(c, "credited")
    /\ UNCHANGED <<inputs, bill, approvals, audits, lapsed, mail>>

\* HUMAN_APPROVAL: a pending approval request, and the run waits for it.
RequestApproval(c) ==
    /\ pc[c] = "request_approval"
    /\ Write(c, {ApprovalRow(c), WorkflowRow(c)})
    /\ Goto(c, "commit_waiting")
    /\ UNCHANGED <<inputs, bill, tables, lapsed, reply, mail>>

CommitWaiting(c) ==
    /\ pc[c] = "commit_waiting"
    /\ approvals' = [approvals EXCEPT ![c] = "PENDING"]
    /\ workflows' = [workflows EXCEPT ![c] = Row("WAITING_APPROVAL", "none")]
    /\ Answer(c, "waiting")
    /\ UNCHANGED <<inputs, bill, keys, credits, audits, lapsed, mail>>

\* The other decisions only complete the run.
Review(c) ==
    /\ pc[c] = "review"
    /\ Write(c, {WorkflowRow(c)})
    /\ Goto(c, "commit_review")
    /\ UNCHANGED <<inputs, bill, tables, lapsed, reply, mail>>

CommitReview(c) ==
    /\ pc[c] = "commit_review"
    /\ workflows' = [workflows EXCEPT ![c] = Row("COMPLETED", "reviewed")]
    /\ Answer(c, "reviewed")
    /\ UNCHANGED <<inputs, bill, approvals, keys, credits, audits, lapsed, mail>>

-----------------------------------------------------------------------------
(***************************************************************************)
(* Crediting, by a chat or by an approving decision: the key is looked up, *)
(* the key is inserted, the credit is inserted.                            *)
(***************************************************************************)
CheckKey(h) ==
    /\ pc[h] = "check_key"
    /\ \/ KeyOf(h) \notin keys /\ Goto(h, "insert_key") /\ UNCHANGED <<held, reply>>
       \/ KeyOf(h) \in keys /\ Answer(h, "conflict")
    /\ UNCHANGED <<inputs, bill, tables, lapsed, mail>>

\* A key or a request id another transaction has inserted meanwhile is an
\* IntegrityError nobody catches.
InsertKey(h) ==
    /\ pc[h] = "insert_key"
    /\ IF KeyOf(h) \notin keys
         THEN Write(h, {KeyRow(h)}) /\ Goto(h, "insert_credit") /\ UNCHANGED reply
         ELSE Answer(h, "integrity_error")
    /\ UNCHANGED <<inputs, bill, tables, lapsed, mail>>

\* Mutant: the credit is committed as soon as it is inserted.
InsertCreditAutocommit(h) ==
    /\ pc[h] = "insert_credit"
    /\ \A k \in credits : k.rid # RidOf(h)
    /\ Write(h, {CreditEntry(h)})
    /\ credits' = credits \cup {CreditOf(h)}
    /\ Goto(h, IF h \in Chats THEN "complete" ELSE "grant")
    /\ UNCHANGED <<inputs, bill, workflows, approvals, keys, audits, lapsed, reply, mail>>

InsertCredit(h) ==
    /\ pc[h] = "insert_credit"
    /\ IF \A k \in credits : k.rid # RidOf(h)
         THEN /\ Write(h, {CreditEntry(h)})
              /\ Goto(h, IF h \in Chats THEN "complete" ELSE "grant")
              /\ UNCHANGED reply
         ELSE Answer(h, "integrity_error")
    /\ UNCHANGED <<inputs, bill, tables, lapsed, mail>>

-----------------------------------------------------------------------------
(***************************************************************************)
(* POST /api/approvals/{approval_id}/decision.                             *)
(***************************************************************************)
ReceiveDecision(d) ==
    /\ pc[d] = "idle"
    /\ \E a \in Chats, v \in Verdicts :
         decisionCall' = [decisionCall EXCEPT ![d] = [approval |-> a, verdict |-> v]]
    /\ Goto(d, "load")
    /\ UNCHANGED <<chatCall, bill, tables, lapsed, held, reply, mail>>

\* Mutant: the status that was read is not looked at.
LoadAnyApproval(d) ==
    /\ pc[d] = "load"
    /\ IF approvals[WorkflowOf(d)] = "ABSENT"
         THEN Answer(d, "not_found")
         ELSE Goto(d, "decide") /\ UNCHANGED <<held, reply>>
    /\ UNCHANGED <<inputs, bill, tables, lapsed, mail>>

\* The SELECT of the approval request and of its run, and the checks on what
\* was read.  Nothing is locked: what was read may be stale from here on.
LoadApproval(d) ==
    LET a == WorkflowOf(d)
    IN  /\ pc[d] = "load"
        /\ \/ /\ approvals[a] = "ABSENT" \/ workflows[a].status = "ABSENT"
              /\ Answer(d, "not_found")
           \/ /\ approvals[a] \in {"APPROVED", "REJECTED"}
              /\ Answer(d, "conflict")
           \/ /\ approvals[a] = "PENDING"
              /\ Goto(d, IF a \in lapsed THEN "expire" ELSE "decide")
              /\ UNCHANGED <<held, reply>>
        /\ UNCHANGED <<inputs, bill, tables, lapsed, mail>>

\* The UPDATEs to EXPIRED and FAILED are flushed, and the exception that
\* follows rolls them back.
ExpireFlush(d) ==
    /\ pc[d] = "expire"
    /\ Write(d, {ApprovalRow(d), WorkflowRow(d)})
    /\ Goto(d, "raise_expired")
    /\ UNCHANGED <<inputs, bill, tables, lapsed, reply, mail>>

RaiseExpired(d) ==
    /\ pc[d] = "raise_expired"
    /\ Answer(d, "invalid")
    /\ UNCHANGED <<inputs, bill, tables, lapsed, mail>>

\* Mutant: the decision is kept in the session and not flushed.
DecideUnflushed(d) ==
    /\ pc[d] = "decide"
    /\ Goto(d, IF decisionCall[d].verdict = "approve" THEN "check_key" ELSE "reject")
    /\ UNCHANGED <<inputs, bill, tables, lapsed, held, reply, mail>>

\* UPDATE approval_requests ... WHERE id = :id, whatever its status is by now.
Decide(d) ==
    /\ pc[d] = "decide"
    /\ Write(d, {ApprovalRow(d)})
    /\ Goto(d, IF decisionCall[d].verdict = "approve" THEN "check_key" ELSE "reject")
    /\ UNCHANGED <<inputs, bill, tables, lapsed, reply, mail>>

\* Mutant: the customer is told before the commit.
GrantAndNotify(d) ==
    /\ pc[d] = "grant"
    /\ Write(d, {WorkflowRow(d)})
    /\ mail' = mail \cup {[kind |-> "approved", workflow |-> WorkflowOf(d), by |-> d]}
    /\ Goto(d, "commit_approved")
    /\ UNCHANGED <<inputs, bill, tables, lapsed, reply>>

\* The rest of an approval, after the credit row, and its commit.
Grant(d) ==
    /\ pc[d] = "grant"
    /\ Write(d, {WorkflowRow(d)})
    /\ Goto(d, "commit_approved")
    /\ UNCHANGED <<inputs, bill, tables, lapsed, reply, mail>>

\* Mutant: the credit is added to a session that is never committed.
CommitApprovedWithoutCredit(d) ==
    LET w == WorkflowOf(d)
    IN  /\ pc[d] = "commit_approved"
        /\ approvals' = [approvals EXCEPT ![w] = "APPROVED"]
        /\ workflows' = [workflows EXCEPT ![w] = Row("COMPLETED", "approved")]
        /\ EndTransaction(d)
        /\ Goto(d, "notify")
        /\ UNCHANGED <<inputs, bill, keys, credits, audits, lapsed, reply, mail>>

CommitApproved(d) ==
    LET w == WorkflowOf(d)
    IN  /\ pc[d] = "commit_approved"
        /\ approvals' = [approvals EXCEPT ![w] = "APPROVED"]
        /\ keys' = keys \cup {KeyOf(d)}
        /\ credits' = credits \cup {CreditOf(d)}
        /\ audits' = audits \cup {Audit("APPROVAL_GRANTED", w, d), Audit("CREDIT_CREATED", w, d)}
        /\ workflows' = [workflows EXCEPT ![w] = Row("COMPLETED", "approved")]
        /\ EndTransaction(d)
        /\ Goto(d, "notify")
        /\ UNCHANGED <<inputs, bill, lapsed, reply, mail>>

\* Mutant: a rejection leaves the run as it is.
CommitRejectedApprovalOnly(d) ==
    /\ pc[d] = "commit_rejected"
    /\ approvals' = [approvals EXCEPT ![WorkflowOf(d)] = "REJECTED"]
    /\ EndTransaction(d)
    /\ Goto(d, "notify")
    /\ UNCHANGED <<inputs, bill, workflows, keys, credits, audits, lapsed, reply, mail>>

\* The rest of a rejection, and its commit.
Reject(d) ==
    /\ pc[d] = "reject"
    /\ Write(d, {WorkflowRow(d)})
    /\ Goto(d, "commit_rejected")
    /\ UNCHANGED <<inputs, bill, tables, lapsed, reply, mail>>

CommitRejected(d) ==
    LET w == WorkflowOf(d)
    IN  /\ pc[d] = "commit_rejected"
        /\ approvals' = [approvals EXCEPT ![w] = "REJECTED"]
        /\ audits' = audits \cup {Audit("APPROVAL_REJECTED", w, d)}
        /\ workflows' = [workflows EXCEPT ![w] = Row("COMPLETED", "rejected")]
        /\ EndTransaction(d)
        /\ Goto(d, "notify")
        /\ UNCHANGED <<inputs, bill, keys, credits, lapsed, reply, mail>>

\* Mutant: the verdict is taken for the outcome.
OutcomeIsVerdict(d) == decisionCall[d].verdict

Outcome(d) == IF decisionCall[d].verdict = "approve" THEN "approved" ELSE "rejected"

\* After the commit the customer is told, and the call answers.
Notify(d) ==
    /\ pc[d] = "notify"
    /\ mail' = mail \cup {[kind |-> Outcome(d), workflow |-> WorkflowOf(d), by |-> d]}
    /\ Answer(d, Outcome(d))
    /\ UNCHANGED <<inputs, bill, tables, lapsed>>

-----------------------------------------------------------------------------
(***************************************************************************)
(* What else happens: a call fails anywhere (the database, a timeout, the  *)
(* process itself), which loses its open transaction; and the 24 hours of  *)
(* a pending approval pass.                                                *)
(***************************************************************************)
Abort(h) ==
    /\ pc[h] \notin {"idle", "done"}
    /\ Answer(h, "failure")
    /\ UNCHANGED <<inputs, bill, tables, lapsed, mail>>

Lapse(a) ==
    /\ approvals[a] = "PENDING"
    /\ a \notin lapsed
    /\ lapsed' = lapsed \cup {a}
    /\ UNCHANGED <<pc, inputs, bill, tables, held, reply, mail>>

\* Every call of the instance is answered.
Quiescent ==
    /\ \A h \in Handlers : pc[h] = "done"
    /\ UNCHANGED vars

ChatStep(c) ==
    \/ RefuseAnalysis(c) \/ Evaluate(c) \/ RefuseDuplicate(c) \/ CommitEvaluated(c)
    \/ CheckKey(c) \/ InsertKey(c) \/ InsertCredit(c)
    \/ CompleteCredit(c) \/ CommitCredit(c)
    \/ RequestApproval(c) \/ CommitWaiting(c)
    \/ Review(c) \/ CommitReview(c)

DecisionStep(d) ==
    \/ LoadApproval(d) \/ ExpireFlush(d) \/ RaiseExpired(d) \/ Decide(d)
    \/ CheckKey(d) \/ InsertKey(d) \/ InsertCredit(d)
    \/ Grant(d) \/ CommitApproved(d) \/ Reject(d) \/ CommitRejected(d) \/ Notify(d)

Next ==
    \/ \E c \in Chats : ReceiveChat(c) \/ ChatStep(c) \/ Lapse(c)
    \/ \E d \in Decisions : ReceiveDecision(d) \/ DecisionStep(d)
    \/ \E h \in Handlers : Abort(h)
    \/ Quiescent

\* The event loop and the database serve every handler that can go on; nothing
\* makes a call arrive, fail, or be slow enough to lapse.
Fairness ==
    /\ \A c \in Chats : WF_vars(ChatStep(c))
    /\ \A d \in Decisions : WF_vars(DecisionStep(d))

Spec == Init /\ [][Next]_vars /\ Fairness

-----------------------------------------------------------------------------
(***************************************************************************)
(* Properties.                                                             *)
(***************************************************************************)
Keys == [rid : RequestIds, customer : Customers \cup {"nobody"},
         invoice : InvoiceIds \cup {"none"}, amount : Int]
CreditRows == [rid : RequestIds, customer : Customers \cup {"nobody"},
               invoice : InvoiceIds \cup {"none"}, amount : Int, by : Handlers]
Rows ==
    ({"request", "credit"} \X RequestIds) \cup ({"workflow", "approval"} \X Chats)
        \cup ({"key"} \X Keys)

\* The types of the handlers' variables; a decision past its first place names
\* a chat.
HandlersTyped ==
    /\ pc \in [Handlers -> ChatPlaces \cup DecisionPlaces]
    /\ \A c \in Chats : pc[c] \in ChatPlaces
    /\ \A d \in Decisions : pc[d] \in DecisionPlaces
    /\ \A d \in Decisions : pc[d] # "idle" => decisionCall[d].approval \in Chats
    /\ held \in [Handlers -> SUBSET Rows]
    /\ reply \in [Handlers -> Replies]

InputsTyped ==
    /\ chatCall \in [Chats -> [rid : RequestIds, customer : Customers \cup {"nobody"}]]
    /\ decisionCall \in [Decisions -> [approval : Chats \cup {"none"},
                                       verdict : Verdicts \cup {"none"}]]
    /\ bill \in [Chats -> [invoice : InvoiceIds \cup {"none"}, amount : Int]]

TablesTyped ==
    /\ workflows \in [Chats -> WorkflowRows]
    /\ approvals \in [Chats -> ApprovalStatus]
    /\ lapsed \subseteq Chats
    /\ keys \subseteq Keys
    /\ credits \subseteq CreditRows
    /\ audits \subseteq [event : Events, workflow : Chats, by : Handlers]
    /\ mail \subseteq [kind : {"credited", "approved", "rejected"}, workflow : Chats, by : Handlers]

TypeOK == HandlersTyped /\ InputsTyped /\ TablesTyped

CreditsOf(w) == {k \in credits : k.rid = chatCall[w].rid}

\* A run waits for an approval exactly as long as its approval request is
\* pending, and nothing has been credited for it by then: the two rows are
\* written by different handlers, and always in one transaction.
WaitingHasOpenApproval ==
    \A w \in Chats :
        /\ workflows[w].status = "WAITING_APPROVAL" <=> approvals[w] = "PENDING"
        /\ approvals[w] = "PENDING" => CreditsOf(w) = {}

\* A credit was within the automatic limit and was given by the chat that found
\* it, whose run says so; or it was within the maximum, and the decision that
\* inserted it is an approval with its entry in the audit trail.
CreditAuthorised ==
    \A k \in credits :
        \/ /\ k.by \in Chats
           /\ Decision(k.amount) = "AUTO_CREDIT"
           /\ workflows[k.by] = Row("COMPLETED", "credited")
        \/ /\ k.by \in Decisions
           /\ Decision(k.amount) = "HUMAN_APPROVAL"
           /\ decisionCall[k.by].verdict = "approve"
           /\ Audit("APPROVAL_GRANTED", WorkflowOf(k.by), k.by) \in audits

\* However many chats repeat a request id and decisions repeat an approval, one
\* request is credited at most once.
OneCreditPerRequest ==
    \A k, l \in credits : k.rid = l.rid => k = l

\* A handler that has passed the look at the idempotency key is never stopped by
\* the unique key or the unique request id of the credit: the lock it holds
\* since then keeps every rival out.
KeyCheckIsFinal ==
    \A h \in Handlers :
        pc[h] \in {"insert_key", "insert_credit", "complete", "commit_credit",
                   "grant", "commit_approved"} =>
            KeyOf(h) \notin keys /\ \A k \in credits : k.rid # RidOf(h)

\* What an answer promises is in the database: the credit of a run answered as
\* credited or approved, the request of a run that waits, the other run of a
\* refused repetition, the completed approval of a refused second decision.
AnswersMatchTheDatabase ==
    \A h \in Handlers :
        /\ reply[h] \in {"credited", "approved"} => \E k \in credits : k.by = h
        /\ reply[h] = "waiting" => approvals[h] # "ABSENT"
        /\ reply[h] = "conflict" =>
             IF h \in Chats
               THEN \E w \in Chats \ {h} : /\ workflows[w].status # "ABSENT"
                                          /\ chatCall[w].rid = chatCall[h].rid
               ELSE approvals[WorkflowOf(h)] \in {"APPROVED", "REJECTED"}

\* The customer learns of a decision after it is committed.
DecisionMailAfterCommit ==
    \A m \in mail :
        /\ m.kind = "approved" => \E k \in credits : k.by = m.by
        /\ m.kind = "rejected" => Audit("APPROVAL_REJECTED", m.workflow, m.by) \in audits

\* A credit and the outcome of its run are committed in the same step, whatever
\* fails in between.
CreditAndOutcomeTogether ==
    [][\A w \in Chats :
        (workflows'[w] # workflows[w] /\ workflows'[w].result \in {"credited", "approved"})
          <=> (workflows'[w].status # "ABSENT" /\ CreditsOf(w)' # CreditsOf(w))]_vars

\* The places of a decision that has read the approval request as pending.
Overlapping == {"decide", "check_key", "insert_key", "insert_credit", "grant",
                "commit_approved", "reject", "commit_rejected"}
Settled(a) ==
    /\ approvals[a] \in {"APPROVED", "REJECTED"} \/ a \in lapsed
    /\ \A d \in Decisions : pc[d] \in Overlapping => decisionCall[d].approval # a

\* Once an approval is completed or past its time, and no decision that read it
\* before is still running, nothing changes it, its run or its credit again.
VerdictsSettle ==
    [][\A a \in Chats : Settled(a) =>
        /\ Settled(a)'
        /\ approvals'[a] = approvals[a]
        /\ workflows'[a] = workflows[a]
        /\ CreditsOf(a)' = CreditsOf(a)]_vars

\* A repeated request id is answered 409 and never surfaces as an IntegrityError.
DuplicatesAnswered409 == \A h \in Handlers : reply[h] # "integrity_error"

\* Every call is answered, although writers wait for each other's rows: however
\* many calls are open, a time comes when none is.
Open(h) == pc[h] \notin {"idle", "done"}

EveryCallAnswered ==
    (\E h \in Handlers : Open(h)) ~> (\A h \in Handlers : ~ Open(h))

-----------------------------------------------------------------------------
(***************************************************************************)
(* The inductive invariant behind WaitingHasOpenApproval, KeyCheckIsFinal  *)
(* and OneCreditPerRequest.                                                *)
(***************************************************************************)
Unrecorded == {"idle", "evaluate", "commit_evaluated"}
Underway   == {"check_key", "insert_key", "insert_credit", "complete", "commit_credit",
               "request_approval", "commit_waiting", "review", "commit_review"}
Crediting  == {"insert_key", "insert_credit", "complete", "commit_credit", "grant",
               "commit_approved"}

\* How far a run and its approval have come while its chat is still going on.
RunStages ==
    \A c \in Chats :
        /\ pc[c] \in Unrecorded => workflows[c].status = "ABSENT" /\ approvals[c] = "ABSENT"
        /\ pc[c] \in Underway => workflows[c].status = "EVALUATED" /\ approvals[c] = "ABSENT"
        /\ workflows[c].status = "WAITING_APPROVAL" <=> approvals[c] = "PENDING"
        /\ approvals[c] \in {"APPROVED", "REJECTED"} => workflows[c].status = "COMPLETED"

DecisionsHaveApprovals ==
    \A d \in Decisions : pc[d] \notin {"idle", "load", "done"} =>
        approvals[decisionCall[d].approval] # "ABSENT"

\* No row is locked by two transactions.
LocksExclusive == \A g, h \in Handlers : g # h => held[g] \cap held[h] = {}

\* A chat about to commit its run has the unique entry of its request id; a
\* decision that goes on to a verdict has the approval row.
LocksHeld ==
    /\ \A c \in Chats : pc[c] = "commit_evaluated" => RequestEntry(c) \in held[c]
    /\ \A d \in Decisions : pc[d] \in Overlapping \ {"decide"} => ApprovalRow(d) \in held[d]

\* A request id has one run.
OneRunPerRequest ==
    /\ \A v, w \in Chats :
         (/\ workflows[v].status # "ABSENT"
          /\ workflows[w].status # "ABSENT"
          /\ chatCall[v].rid = chatCall[w].rid)
            => v = w
    /\ \A c \in Chats : pc[c] = "commit_evaluated" => ~ RequestTaken(RidOf(c))

\* A credit has a completed run and its idempotency key.
CreditsHaveRuns ==
    \A k \in credits : \E w \in Chats :
        /\ workflows[w].status = "COMPLETED"
        /\ chatCall[w].rid = k.rid
        /\ KeyOf(w) \in keys

KeysAreFresh == \A h \in Handlers : pc[h] \in Crediting => KeyOf(h) \notin keys

Consistent ==
    /\ RunStages
    /\ DecisionsHaveApprovals
    /\ LocksExclusive
    /\ LocksHeld
    /\ OneRunPerRequest
    /\ CreditsHaveRuns
    /\ KeysAreFresh
    /\ OneCreditPerRequest

-----------------------------------------------------------------------------
(***************************************************************************)
(* The invariant behind CreditAuthorised, the two action properties and    *)
(* the ledger; it is inductive beside Consistent.                          *)
(***************************************************************************)

\* The branch of the graph a chat is in fits its bill, and only a bill that
\* needs an approval has a request.
BranchFitsBill ==
    \A c \in Chats :
        LET decision == Decision(bill[c].amount)
        IN  /\ pc[c] \in {"check_key", "insert_key", "insert_credit", "complete",
                          "commit_credit"} => decision = "AUTO_CREDIT"
            /\ pc[c] \in {"request_approval", "commit_waiting"} \/ approvals[c] # "ABSENT"
                 => decision = "HUMAN_APPROVAL"
            /\ pc[c] \in {"review", "commit_review"}
                 => decision \in {"NO_ACTION", "MANUAL_INVESTIGATION"}

\* A decision that pays is an approval.
OnlyApprovalsPay ==
    \A d \in Decisions :
        pc[d] \in Crediting \cup {"check_key"} => decisionCall[d].verdict = "approve"

\* A completed approval request agrees with its run, whichever decision was the
\* last; an approved one has used its idempotency key.
ApprovalsMatchRuns ==
    \A a \in Chats :
        /\ approvals[a] = "APPROVED" =>
             workflows[a] = Row("COMPLETED", "approved") /\ KeyOf(a) \in keys
        /\ approvals[a] = "REJECTED" => workflows[a] = Row("COMPLETED", "rejected")
        /\ a \in lapsed => approvals[a] # "ABSENT"

\* Every credit is explained by the tables, and will still be after the next
\* step: a chat is in the branch its bill calls for, only approvals pay, a
\* completed approval agrees with its run and has used its key, and whoever has
\* paid has been called.
Explained ==
    /\ BranchFitsBill
    /\ OnlyApprovalsPay
    /\ ApprovalsMatchRuns
    /\ CreditAuthorised
    /\ \A k \in credits : pc[k.by] # "idle"

-----------------------------------------------------------------------------
(***************************************************************************)
(* What the documentation says and the code does not keep.                 *)
(***************************************************************************)

\* A rejected request has no credit.
RejectedHasNoCredit ==
    \A a \in Chats : approvals[a] = "REJECTED" => CreditsOf(a) = {}

\* An approval answered as expired is recorded as such.
ExpiredIsRecorded ==
    \A d \in Decisions : reply[d] = "invalid" => approvals[WorkflowOf(d)] # "PENDING"

\* No mail about a credit before the credit is committed.
MailedCreditExists ==
    \A m \in mail : m.kind = "credited" => \E k \in credits : k.by = m.by
=============================================================================
