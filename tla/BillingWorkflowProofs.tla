------------------------ MODULE BillingWorkflowProofs ------------------------
(***************************************************************************)
(* Proofs about BillingWorkflow: its type invariant, the inductive         *)
(* invariant Consistent, and the properties that follow from it, for any   *)
(* sets of calls, request ids and customers, any tables, any limits and    *)
(* either database.                                                        *)
(***************************************************************************)
EXTENDS BillingWorkflow, TLAPS

-----------------------------------------------------------------------------
(***************************************************************************)
(* Types.                                                                  *)
(***************************************************************************)

\* A bill the analysis can find is about an invoice of the table, and an amount.
LEMMA BillIsTyped ==
    ASSUME NEW customer, NEW m \in Comparisons(Invoices, Contracts, customer)
    PROVE  BillOf(m) \in [invoice : InvoiceIds \cup {"none"}, amount : Int]
  <1>1. m.invoice \in Invoices /\ m.contract \in Contracts
    BY DEF Comparisons, LatestFinalized
  <1>2. m.invoice.amount \in Int /\ m.contract.price \in Int /\ m.invoice.id \in InvoiceIds
    BY <1>1, TablesAreTyped DEF InvoiceIds
  <1> QED
    BY <1>2 DEF BillOf

\* The workflow, the request id, the key and the rows of a handler that has been
\* called.
LEMMA HandlerIsTyped ==
    ASSUME TypeOK, NEW h \in Handlers, pc[h] # "idle"
    PROVE  /\ WorkflowOf(h) \in Chats
           /\ RidOf(h) \in RequestIds
           /\ KeyOf(h) \in Keys
           /\ CreditOf(h) \in CreditRows
           /\ {RequestEntry(h), WorkflowRow(h), ApprovalRow(h), KeyRow(h), CreditEntry(h)}
                \subseteq Rows
  <1>1. WorkflowOf(h) \in Chats
    BY HandlersDiffer DEF TypeOK, HandlersTyped, WorkflowOf, Handlers
  <1>2. /\ chatCall[WorkflowOf(h)] \in [rid : RequestIds, customer : Customers \cup {"nobody"}]
        /\ bill[WorkflowOf(h)] \in [invoice : InvoiceIds \cup {"none"}, amount : Int]
    BY <1>1 DEF TypeOK, InputsTyped
  <1>3. RidOf(h) \in RequestIds
    BY <1>2 DEF RidOf
  <1>4. KeyOf(h) \in Keys /\ CreditOf(h) \in CreditRows
    BY <1>2, <1>3 DEF KeyOf, CreditOf, Keys, CreditRows, BillOfHandler
  <1> QED
    BY <1>1, <1>3, <1>4 DEF RequestEntry, WorkflowRow, ApprovalRow, KeyRow, CreditEntry, Rows

\* The places a handler of either kind may go to.
PlacesOf(h) == IF h \in Chats THEN ChatPlaces ELSE DecisionPlaces

\* A step of one handler that goes to one of its places, after which it holds
\* typed rows and has a typed reply, keeps the handlers' variables typed.
LEMMA StepIsTyped ==
    ASSUME HandlersTyped, NEW h \in Handlers, NEW place \in PlacesOf(h), Goto(h, place),
           \/ UNCHANGED decisionCall /\ pc[h] # "idle"
           \/ h \in Chats /\ UNCHANGED decisionCall
           \/ /\ h \in Decisions
              /\ \E a \in Chats, v \in Verdicts :
                   /\ decisionCall \in [Decisions -> [approval : Chats \cup {"none"},
                                                      verdict : Verdicts \cup {"none"}]]
                   /\ decisionCall' = [decisionCall EXCEPT ![h] = [approval |-> a, verdict |-> v]],
           \/ UNCHANGED held
           \/ EndTransaction(h)
           \/ \E rows \in SUBSET Rows : Write(h, rows),
           UNCHANGED reply \/ \E r \in Replies : reply' = [reply EXCEPT ![h] = r]
    PROVE  HandlersTyped'
  <1>1. /\ pc' = [pc EXCEPT ![h] = place]
        /\ h \in Chats => place \in ChatPlaces
        /\ h \in Decisions => place \in DecisionPlaces
    BY HandlersDiffer DEF Goto, PlacesOf, Handlers
  <1>2. /\ pc' \in [Handlers -> ChatPlaces \cup DecisionPlaces]
        /\ \A c \in Chats : pc'[c] \in ChatPlaces
        /\ \A d \in Decisions : pc'[d] \in DecisionPlaces
    BY <1>1 DEF HandlersTyped, Handlers
  <1>3. held' \in [Handlers -> SUBSET Rows]
    <2>1. held \in [Handlers -> SUBSET Rows]
      BY DEF HandlersTyped
    <2> QED
      BY <2>1 DEF Write, EndTransaction
  <1>4. reply' \in [Handlers -> Replies]
    BY DEF HandlersTyped
  <1>5. \A d \in Decisions : pc'[d] # "idle" => decisionCall'[d].approval \in Chats
    BY <1>1, HandlersDiffer DEF HandlersTyped, Handlers
  <1> QED
    BY <1>2, <1>3, <1>4, <1>5 DEF HandlersTyped

\* The same for a handler that answers.
LEMMA AnswerIsTyped ==
    ASSUME HandlersTyped, NEW h \in Handlers, NEW r \in Replies, Answer(h, r),
           pc[h] # "idle", UNCHANGED decisionCall
    PROVE  HandlersTyped'
  <1>1. "done" \in PlacesOf(h)
    BY DEF PlacesOf, ChatPlaces, DecisionPlaces
  <1> QED
    BY <1>1, StepIsTyped DEF Answer

\* The type invariant is inductive.
LEMMA InitIsTyped == Init => TypeOK
  <1> SUFFICES ASSUME Init PROVE TypeOK
    OBVIOUS
  <1>1. HandlersTyped
    BY DEF Init, HandlersTyped, ChatPlaces, DecisionPlaces, Replies, Handlers
  <1>2. InputsTyped
    BY DEF Init, InputsTyped, RequestIds
  <1>3. TablesTyped
    BY DEF Init, TablesTyped, Row, WorkflowRows, ApprovalStatus
  <1> QED
    BY <1>1, <1>2, <1>3 DEF TypeOK

LEMMA ChatStepIsTyped ==
    ASSUME TypeOK, NEW c \in Chats,
           \/ ReceiveChat(c) \/ RefuseAnalysis(c) \/ Evaluate(c) \/ RefuseDuplicate(c)
           \/ CommitEvaluated(c) \/ CompleteCredit(c) \/ CommitCredit(c)
           \/ RequestApproval(c) \/ CommitWaiting(c) \/ Review(c) \/ CommitReview(c)
    PROVE  TypeOK'
  <1> USE DEF inputs, tables, TypeOK
  <1>0. /\ c \in Handlers /\ ChatPlaces = PlacesOf(c)
        /\ {"evaluate", "commit_evaluated", "check_key", "complete", "commit_credit",
            "request_approval", "commit_waiting", "review", "commit_review"} \subseteq ChatPlaces
        /\ {"credited", "waiting", "reviewed", "unavailable", "invalid", "conflict",
            "integrity_error"} \subseteq Replies
        /\ WorkflowOf(c) = c
    BY DEF Handlers, PlacesOf, ChatPlaces, Replies, WorkflowOf
  <1>1. CASE ReceiveChat(c)
    <2>1. HandlersTyped'
      BY <1>0, <1>1, StepIsTyped DEF ReceiveChat
    <2>2. chatCall' \in [Chats -> [rid : RequestIds, customer : Customers \cup {"nobody"}]]
      BY <1>1 DEF ReceiveChat, InputsTyped, RequestIds
    <2> QED
      BY <1>1, <2>1, <2>2 DEF ReceiveChat, InputsTyped, TablesTyped
  <1>2. CASE RefuseAnalysis(c)
    <2>1. HandlersTyped'
      BY <1>0, <1>2, AnswerIsTyped DEF RefuseAnalysis
    <2> QED
      BY <1>0, <1>2, <2>1, HandlerIsTyped DEF RefuseAnalysis, InputsTyped, TablesTyped
  <1>3. CASE Evaluate(c)
    <2>1. \E rows \in SUBSET Rows : Write(c, rows)
      BY <1>0, <1>3, HandlerIsTyped DEF Evaluate
    <2>2. HandlersTyped'
      BY <1>0, <1>3, <2>1, StepIsTyped DEF Evaluate
    <2>3. bill' \in [Chats -> [invoice : InvoiceIds \cup {"none"}, amount : Int]]
      BY <1>3, BillIsTyped DEF Evaluate, InputsTyped
    <2> QED
      BY <1>3, <2>2, <2>3 DEF Evaluate, InputsTyped, TablesTyped
  <1>4. CASE RefuseDuplicate(c)
    <2>1. HandlersTyped'
      BY <1>0, <1>4, AnswerIsTyped DEF RefuseDuplicate, DuplicateReply
    <2> QED
      BY <1>0, <1>4, <2>1, HandlerIsTyped DEF RefuseDuplicate, InputsTyped, TablesTyped
  <1>5. CASE CommitEvaluated(c)
    <2>1. NextPlace(Decision(bill[c].amount)) \in PlacesOf(c)
      BY <1>0 DEF NextPlace
    <2>2. HandlersTyped'
      BY <1>0, <1>5, <2>1, StepIsTyped DEF CommitEvaluated
    <2> QED
      BY <1>0, <1>5, <2>2 DEF CommitEvaluated, InputsTyped, TablesTyped, Row, WorkflowRows, Audit, Events
  <1>6. CASE CompleteCredit(c)
    <2>1. \E rows \in SUBSET Rows : Write(c, rows)
      BY <1>0, <1>6, HandlerIsTyped DEF CompleteCredit
    <2>2. HandlersTyped'
      BY <1>0, <1>6, <2>1, StepIsTyped DEF CompleteCredit
    <2> QED
      BY <1>0, <1>6, <2>2 DEF CompleteCredit, InputsTyped, TablesTyped
  <1>7. CASE CommitCredit(c)
    <2>1. HandlersTyped'
      BY <1>0, <1>7, AnswerIsTyped DEF CommitCredit
    <2> QED
      BY <1>0, <1>7, <2>1, HandlerIsTyped DEF CommitCredit, InputsTyped, TablesTyped, Row, WorkflowRows
  <1>8. CASE RequestApproval(c)
    <2>1. \E rows \in SUBSET Rows : Write(c, rows)
      BY <1>0, <1>8, HandlerIsTyped DEF RequestApproval
    <2>2. HandlersTyped'
      BY <1>0, <1>8, <2>1, StepIsTyped DEF RequestApproval
    <2> QED
      BY <1>0, <1>8, <2>2 DEF RequestApproval, InputsTyped, TablesTyped
  <1>9. CASE CommitWaiting(c)
    <2>1. HandlersTyped'
      BY <1>0, <1>9, AnswerIsTyped DEF CommitWaiting
    <2> QED
      BY <1>0, <1>9, <2>1, HandlerIsTyped DEF CommitWaiting, InputsTyped, TablesTyped, Row, WorkflowRows, ApprovalStatus
  <1>10. CASE Review(c)
    <2>1. \E rows \in SUBSET Rows : Write(c, rows)
      BY <1>0, <1>10, HandlerIsTyped DEF Review
    <2>2. HandlersTyped'
      BY <1>0, <1>10, <2>1, StepIsTyped DEF Review
    <2> QED
      BY <1>0, <1>10, <2>2 DEF Review, InputsTyped, TablesTyped
  <1>11. CASE CommitReview(c)
    <2>1. HandlersTyped'
      BY <1>0, <1>11, AnswerIsTyped DEF CommitReview
    <2> QED
      BY <1>0, <1>11, <2>1, HandlerIsTyped DEF CommitReview, InputsTyped, TablesTyped, Row, WorkflowRows
  <1> QED
    BY <1>1, <1>2, <1>3, <1>4, <1>5, <1>6, <1>7, <1>8, <1>9, <1>10, <1>11

LEMMA CreditingStepIsTyped ==
    ASSUME TypeOK, NEW h \in Handlers, CheckKey(h) \/ InsertKey(h) \/ InsertCredit(h)
    PROVE  TypeOK'
  <1> USE DEF inputs, tables, TypeOK
  <1>0. /\ {"insert_key", "insert_credit", "done"} \subseteq PlacesOf(h)
        /\ (IF h \in Chats THEN "complete" ELSE "grant") \in PlacesOf(h)
        /\ {"conflict", "integrity_error"} \subseteq Replies
    BY DEF PlacesOf, ChatPlaces, DecisionPlaces, Replies
  <1>1. CASE CheckKey(h)
    <2>1. HandlersTyped'
      BY <1>0, <1>1, StepIsTyped, AnswerIsTyped DEF CheckKey
    <2> QED
      BY <1>1, <2>1 DEF CheckKey, InputsTyped, TablesTyped
  <1>2. CASE InsertKey(h)
    <2>1. HandlersTyped'
      <3>1. CASE Answer(h, "integrity_error")
        BY <1>0, <1>2, <3>1, AnswerIsTyped DEF InsertKey
      <3>2. CASE UNCHANGED reply
        <4>1. \E rows \in SUBSET Rows : Write(h, rows) \/ Answer(h, "integrity_error")
          BY <1>0, <1>2, HandlerIsTyped DEF InsertKey
        <4> QED
          BY <1>0, <1>2, <3>1, <3>2, <4>1, StepIsTyped DEF InsertKey
      <3> QED
        BY <1>2, <3>1, <3>2 DEF InsertKey
    <2> QED
      BY <1>2, <2>1 DEF InsertKey, InputsTyped, TablesTyped
  <1>3. CASE InsertCredit(h)
    <2>1. HandlersTyped'
      <3>1. CASE Answer(h, "integrity_error")
        BY <1>0, <1>3, <3>1, AnswerIsTyped DEF InsertCredit
      <3>2. CASE UNCHANGED reply
        <4>1. \E rows \in SUBSET Rows : Write(h, rows) \/ Answer(h, "integrity_error")
          BY <1>0, <1>3, HandlerIsTyped DEF InsertCredit
        <4> QED
          BY <1>0, <1>3, <3>1, <3>2, <4>1, StepIsTyped DEF InsertCredit
      <3> QED
        BY <1>3, <3>1, <3>2 DEF InsertCredit
    <2> QED
      BY <1>3, <2>1 DEF InsertCredit, InputsTyped, TablesTyped
  <1> QED
    BY <1>1, <1>2, <1>3

LEMMA DecisionStepIsTyped ==
    ASSUME TypeOK, NEW d \in Decisions,
           \/ ReceiveDecision(d) \/ LoadApproval(d) \/ ExpireFlush(d) \/ RaiseExpired(d)
           \/ Decide(d) \/ Grant(d) \/ CommitApproved(d) \/ Reject(d)
           \/ CommitRejected(d) \/ Notify(d)
    PROVE  TypeOK'
  <1> USE DEF inputs, tables, TypeOK
  <1>0. /\ d \in Handlers /\ DecisionPlaces = PlacesOf(d)
        /\ {"load", "expire", "raise_expired", "decide", "check_key", "commit_approved",
            "reject", "commit_rejected", "notify"} \subseteq DecisionPlaces
        /\ {"not_found", "conflict", "invalid", "approved", "rejected"} \subseteq Replies
    BY HandlersDiffer DEF Handlers, PlacesOf, DecisionPlaces, Replies
  <1>1. CASE ReceiveDecision(d)
    <2>1. HandlersTyped'
      BY <1>0, <1>1, StepIsTyped DEF ReceiveDecision, InputsTyped
    <2> QED
      BY <1>1, <2>1 DEF ReceiveDecision, InputsTyped, TablesTyped
  <1>2. CASE LoadApproval(d)
    <2>1. HandlersTyped'
      BY <1>0, <1>2, StepIsTyped, AnswerIsTyped DEF LoadApproval
    <2> QED
      BY <1>2, <2>1 DEF LoadApproval, InputsTyped, TablesTyped
  <1>3. CASE ExpireFlush(d)
    <2>1. \E rows \in SUBSET Rows : Write(d, rows)
      BY <1>0, <1>3, HandlerIsTyped DEF ExpireFlush
    <2>2. HandlersTyped'
      BY <1>0, <1>3, <2>1, StepIsTyped DEF ExpireFlush
    <2> QED
      BY <1>0, <1>3, <2>2 DEF ExpireFlush, InputsTyped, TablesTyped
  <1>4. CASE RaiseExpired(d)
    <2>1. HandlersTyped'
      BY <1>0, <1>4, AnswerIsTyped DEF RaiseExpired
    <2> QED
      BY <1>0, <1>4, <2>1, HandlerIsTyped DEF RaiseExpired, InputsTyped, TablesTyped
  <1>5. CASE Decide(d)
    <2>1. \E rows \in SUBSET Rows : Write(d, rows)
      BY <1>0, <1>5, HandlerIsTyped DEF Decide
    <2>2. HandlersTyped'
      BY <1>0, <1>5, <2>1, StepIsTyped DEF Decide
    <2> QED
      BY <1>0, <1>5, <2>2 DEF Decide, InputsTyped, TablesTyped
  <1>6. CASE Grant(d)
    <2>1. \E rows \in SUBSET Rows : Write(d, rows)
      BY <1>0, <1>6, HandlerIsTyped DEF Grant
    <2>2. HandlersTyped'
      BY <1>0, <1>6, <2>1, StepIsTyped DEF Grant
    <2> QED
      BY <1>0, <1>6, <2>2 DEF Grant, InputsTyped, TablesTyped
  <1>7. CASE CommitApproved(d)
    <2>1. HandlersTyped'
      BY <1>0, <1>7, StepIsTyped DEF CommitApproved
    <2> QED
      BY <1>0, <1>7, <2>1, HandlerIsTyped
      DEF CommitApproved, InputsTyped, TablesTyped, Row, WorkflowRows, ApprovalStatus, Audit, Events
  <1>8. CASE Reject(d)
    <2>1. \E rows \in SUBSET Rows : Write(d, rows)
      BY <1>0, <1>8, HandlerIsTyped DEF Reject
    <2>2. HandlersTyped'
      BY <1>0, <1>8, <2>1, StepIsTyped DEF Reject
    <2> QED
      BY <1>0, <1>8, <2>2 DEF Reject, InputsTyped, TablesTyped
  <1>9. CASE CommitRejected(d)
    <2>1. HandlersTyped'
      BY <1>0, <1>9, StepIsTyped DEF CommitRejected
    <2> QED
      BY <1>0, <1>9, <2>1, HandlerIsTyped
      DEF CommitRejected, InputsTyped, TablesTyped, Row, WorkflowRows, ApprovalStatus, Audit, Events
  <1>10. CASE Notify(d)
    <2>1. Outcome(d) \in {"approved", "rejected"}
      BY DEF Outcome
    <2>2. HandlersTyped'
      BY <1>0, <1>10, <2>1, AnswerIsTyped DEF Notify
    <2> QED
      BY <1>0, <1>10, <2>1, <2>2, HandlerIsTyped DEF Notify, InputsTyped, TablesTyped
  <1> QED
    BY <1>1, <1>2, <1>3, <1>4, <1>5, <1>6, <1>7, <1>8, <1>9, <1>10

LEMMA NextIsTyped == TypeOK /\ [Next]_vars => TypeOK'
  <1> SUFFICES ASSUME TypeOK, [Next]_vars PROVE TypeOK'
    OBVIOUS
  <1>1. ASSUME NEW c \in Chats, ReceiveChat(c) \/ ChatStep(c) PROVE TypeOK'
    BY <1>1, ChatStepIsTyped, CreditingStepIsTyped DEF ChatStep, Handlers
  <1>2. ASSUME NEW d \in Decisions, ReceiveDecision(d) \/ DecisionStep(d) PROVE TypeOK'
    BY <1>2, DecisionStepIsTyped, CreditingStepIsTyped DEF DecisionStep, Handlers
  <1>3. ASSUME NEW a \in Chats, Lapse(a) PROVE TypeOK'
    BY <1>3 DEF Lapse, inputs, tables, TypeOK, HandlersTyped, InputsTyped, TablesTyped
  <1>4. ASSUME NEW h \in Handlers, Abort(h) PROVE TypeOK'
    <2>1. HandlersTyped'
      BY <1>4, AnswerIsTyped DEF Abort, inputs, TypeOK, Replies
    <2> QED
      BY <1>4, <2>1 DEF Abort, inputs, tables, TypeOK, InputsTyped, TablesTyped
  <1>5. CASE UNCHANGED vars
    BY <1>5 DEF vars, inputs, tables, TypeOK, HandlersTyped, InputsTyped, TablesTyped
  <1> QED
    BY <1>1, <1>2, <1>3, <1>4, <1>5 DEF Next, Quiescent

\* Every variable keeps its type.
THEOREM Typing == Spec => []TypeOK
  BY InitIsTyped, NextIsTyped, PTL DEF Spec

-----------------------------------------------------------------------------
(***************************************************************************)
(* What the steps have in common.                                          *)
(***************************************************************************)

\* The commits of a chat and of a decision, and the tables they may change.
ChatCommit(c) == CommitEvaluated(c) \/ CommitCredit(c) \/ CommitWaiting(c) \/ CommitReview(c)
DecisionCommit(d) == CommitApproved(d) \/ CommitRejected(d)
money == <<workflows, approvals, keys, credits>>

LEMMA TablesChangeAtCommits ==
    ASSUME [Next]_vars
    PROVE  \/ UNCHANGED money
           \/ \E c \in Chats : ChatCommit(c)
           \/ \E d \in Decisions : DecisionCommit(d)
  <1> USE DEF money, tables
  <1>1. ASSUME NEW c \in Chats, ReceiveChat(c) \/ ChatStep(c) \/ Lapse(c), ~ ChatCommit(c)
        PROVE  UNCHANGED money
    BY <1>1 DEF ChatStep, ChatCommit, ReceiveChat, Lapse, RefuseAnalysis, Evaluate,
                RefuseDuplicate, CheckKey, InsertKey, InsertCredit, CompleteCredit,
                RequestApproval, Review
  <1>2. ASSUME NEW d \in Decisions, ReceiveDecision(d) \/ DecisionStep(d), ~ DecisionCommit(d)
        PROVE  UNCHANGED money
    BY <1>2 DEF DecisionStep, DecisionCommit, ReceiveDecision, LoadApproval, ExpireFlush,
                RaiseExpired, Decide, CheckKey, InsertKey, InsertCredit, Grant, Reject, Notify
  <1>3. ASSUME NEW h \in Handlers, Abort(h) PROVE UNCHANGED money
    BY <1>3 DEF Abort
  <1>4. CASE UNCHANGED vars
    BY <1>4 DEF vars
  <1> QED
    BY <1>1, <1>2, <1>3, <1>4 DEF Next, Quiescent

\* The inputs of a call do not change once it has them, nor the bill of a chat
\* once it is found.
LEMMA InputsStay ==
    ASSUME TypeOK, [Next]_vars
    PROVE  /\ \A c \in Chats : pc[c] \notin {"idle", "evaluate"} =>
                chatCall'[c] = chatCall[c] /\ bill'[c] = bill[c]
           /\ \A c \in Chats : pc[c] # "idle" => chatCall'[c] = chatCall[c]
           /\ \A d \in Decisions : pc[d] # "idle" => decisionCall'[d] = decisionCall[d]
  <1> USE DEF inputs
  <1> DEFINE Stay == /\ \A c \in Chats : pc[c] \notin {"idle", "evaluate"} =>
                          chatCall'[c] = chatCall[c] /\ bill'[c] = bill[c]
                     /\ \A c \in Chats : pc[c] # "idle" => chatCall'[c] = chatCall[c]
                     /\ \A d \in Decisions : pc[d] # "idle" => decisionCall'[d] = decisionCall[d]
  <1>1. ASSUME NEW c \in Chats, ReceiveChat(c) PROVE Stay
    BY <1>1 DEF ReceiveChat, TypeOK, InputsTyped
  <1>2. ASSUME NEW c \in Chats, Evaluate(c) PROVE Stay
    BY <1>2 DEF Evaluate, TypeOK, InputsTyped
  <1>3. ASSUME NEW d \in Decisions, ReceiveDecision(d) PROVE Stay
    BY <1>3 DEF ReceiveDecision, TypeOK, InputsTyped
  <1>4. ASSUME NEW c \in Chats, ChatStep(c) \/ Lapse(c), ~ Evaluate(c)
        PROVE  UNCHANGED <<inputs, bill>>
    BY <1>4 DEF ChatStep, Lapse, RefuseAnalysis, RefuseDuplicate, CommitEvaluated, CheckKey,
                InsertKey, InsertCredit, CompleteCredit, CommitCredit, RequestApproval,
                CommitWaiting, Review, CommitReview
  <1>5. ASSUME NEW d \in Decisions, DecisionStep(d) PROVE UNCHANGED <<inputs, bill>>
    BY <1>5 DEF DecisionStep, LoadApproval, ExpireFlush, RaiseExpired, Decide, CheckKey,
                InsertKey, InsertCredit, Grant, CommitApproved, Reject, CommitRejected, Notify
  <1>6. ASSUME NEW h \in Handlers, Abort(h) PROVE UNCHANGED <<inputs, bill>>
    BY <1>6 DEF Abort
  <1>7. CASE UNCHANGED vars
    BY <1>7 DEF vars
  <1> QED
    BY <1>1, <1>2, <1>3, <1>4, <1>5, <1>6, <1>7 DEF Next, Quiescent

\* The moves a handler can make without a commit.
QuietMove(p, q) ==
    \/ q = "done" /\ p # "idle"
    \/ p = "idle" /\ q \in {"evaluate", "load"}
    \/ p = "evaluate" /\ q = "commit_evaluated"
    \/ p = "check_key" /\ q = "insert_key"
    \/ p = "insert_key" /\ q = "insert_credit"
    \/ p = "insert_credit" /\ q \in {"complete", "grant"}
    \/ p = "complete" /\ q = "commit_credit"
    \/ p = "request_approval" /\ q = "commit_waiting"
    \/ p = "review" /\ q = "commit_review"
    \/ p = "load" /\ q \in {"expire", "decide"}
    \/ p = "expire" /\ q = "raise_expired"
    \/ p = "decide" /\ q \in {"check_key", "reject"}
    \/ p = "grant" /\ q = "commit_approved"
    \/ p = "reject" /\ q = "commit_rejected"

LEMMA QuietSteps ==
    ASSUME TypeOK, [Next]_vars,
           \A c \in Chats : ~ ChatCommit(c), \A d \in Decisions : ~ DecisionCommit(d),
           NEW h \in Handlers, pc'[h] # pc[h]
    PROVE  QuietMove(pc[h], pc'[h])
  <1> USE DEF Goto, Answer, QuietMove, TypeOK, HandlersTyped
  <1>1. ASSUME NEW c \in Chats, ReceiveChat(c) \/ ChatStep(c) \/ Lapse(c)
        PROVE  QuietMove(pc[h], pc'[h])
    BY <1>1, HandlersDiffer
       DEF ChatStep, ChatCommit, ReceiveChat, Lapse, RefuseAnalysis, Evaluate, Handlers,
           RefuseDuplicate, CheckKey, InsertKey, InsertCredit, CompleteCredit,
           RequestApproval, Review
  <1>2. ASSUME NEW d \in Decisions, ReceiveDecision(d) \/ DecisionStep(d)
        PROVE  QuietMove(pc[h], pc'[h])
    BY <1>2, HandlersDiffer
       DEF DecisionStep, DecisionCommit, ReceiveDecision, LoadApproval, ExpireFlush, Handlers,
           RaiseExpired, Decide, CheckKey, InsertKey, InsertCredit, Grant, Reject, Notify
  <1>3. ASSUME NEW g \in Handlers, Abort(g) PROVE QuietMove(pc[h], pc'[h])
    BY <1>3 DEF Abort
  <1>4. CASE UNCHANGED vars
    BY <1>4 DEF vars
  <1> QED
    BY <1>1, <1>2, <1>3, <1>4 DEF Next, Quiescent

-----------------------------------------------------------------------------
(***************************************************************************)
(* Locks.                                                                  *)
(***************************************************************************)
LEMMA HeldSteps ==
    ASSUME [Next]_vars
    PROVE  \/ UNCHANGED held
           \/ \E h \in Handlers : EndTransaction(h) \/ \E rows : Write(h, rows)
  <1> USE DEF Answer, Handlers
  <1>1. ASSUME NEW c \in Chats, ReceiveChat(c) \/ ChatStep(c) \/ Lapse(c)
        PROVE  \/ UNCHANGED held
               \/ EndTransaction(c) \/ \E rows : Write(c, rows)
    BY <1>1 DEF ReceiveChat, Lapse, ChatStep, RefuseAnalysis, Evaluate, RefuseDuplicate,
                CommitEvaluated, CheckKey, InsertKey, InsertCredit, CompleteCredit, CommitCredit,
                RequestApproval, CommitWaiting, Review, CommitReview
  <1>2. ASSUME NEW d \in Decisions, ReceiveDecision(d) \/ DecisionStep(d)
        PROVE  \/ UNCHANGED held
               \/ EndTransaction(d) \/ \E rows : Write(d, rows)
    BY <1>2 DEF ReceiveDecision, DecisionStep, LoadApproval, ExpireFlush, RaiseExpired, Decide,
                CheckKey, InsertKey, InsertCredit, Grant, CommitApproved, Reject,
                CommitRejected, Notify
  <1>3. ASSUME NEW h \in Handlers, Abort(h) PROVE EndTransaction(h)
    BY <1>3 DEF Abort
  <1>4. CASE UNCHANGED vars
    BY <1>4 DEF vars
  <1> QED
    BY <1>1, <1>2, <1>3, <1>4 DEF Next, Quiescent

\* A writer takes only rows that nobody else has, in either database.
LEMMA LocksStayExclusive ==
    ASSUME TypeOK, LocksExclusive, [Next]_vars
    PROVE  LocksExclusive'
  <1>1. held \in [Handlers -> SUBSET Rows]
    BY DEF TypeOK, HandlersTyped
  <1>2. ASSUME NEW h \in Handlers, EndTransaction(h) PROVE LocksExclusive'
    BY <1>1, <1>2 DEF EndTransaction, LocksExclusive
  <1>3. ASSUME NEW h \in Handlers, NEW rows, Write(h, rows) PROVE LocksExclusive'
    <2>1. \A g \in Handlers \ {h} : held[g] \cap rows = {}
      BY <1>3 DEF Write, Blocks
    <2>2. /\ held'[h] = held[h] \cup rows
          /\ \A g \in Handlers \ {h} : held'[g] = held[g]
      BY <1>1, <1>3 DEF Write
    <2> QED
      BY <2>1, <2>2 DEF LocksExclusive
  <1>4. CASE UNCHANGED held
    BY <1>4 DEF LocksExclusive
  <1> QED
    BY <1>2, <1>3, <1>4, HeldSteps

\* A handler keeps its rows until it answers or commits.
LEMMA RowsAreKept ==
    ASSUME TypeOK, [Next]_vars, NEW h \in Handlers, ~ (held[h] \subseteq held'[h])
    PROVE  /\ h \in Chats => pc'[h] # "commit_evaluated"
           /\ h \in Decisions => pc'[h] \notin Overlapping \ {"decide"}
  <1> USE DEF Answer, Goto, EndTransaction, Write, Overlapping, TypeOK, HandlersTyped
  <1> DEFINE Left == /\ h \in Chats => pc'[h] # "commit_evaluated"
                     /\ h \in Decisions => pc'[h] \notin Overlapping \ {"decide"}
  <1>1. ASSUME NEW c \in Chats, ReceiveChat(c) \/ ChatStep(c) \/ Lapse(c)
        PROVE  Left
    <2>1. CASE CommitEvaluated(c)
      BY <2>1, HandlersDiffer DEF CommitEvaluated, NextPlace, Handlers
    <2>2. CASE ~ CommitEvaluated(c)
      BY <1>1, <2>2, HandlersDiffer
         DEF ReceiveChat, Lapse, ChatStep, RefuseAnalysis, Evaluate, RefuseDuplicate, Handlers,
             CheckKey, InsertKey, InsertCredit, CompleteCredit, CommitCredit,
             RequestApproval, CommitWaiting, Review, CommitReview
    <2> QED
      BY <2>1, <2>2
  <1>2. ASSUME NEW d \in Decisions, ReceiveDecision(d) \/ DecisionStep(d)
        PROVE  Left
    BY <1>2, HandlersDiffer
       DEF ReceiveDecision, DecisionStep, LoadApproval, ExpireFlush, RaiseExpired, Decide,
           CheckKey, InsertKey, InsertCredit, Grant, CommitApproved, Reject, Handlers,
           CommitRejected, Notify
  <1>3. ASSUME NEW g \in Handlers, Abort(g) PROVE Left
    BY <1>3 DEF Abort
  <1>4. CASE UNCHANGED vars
    BY <1>4 DEF vars
  <1> QED
    BY <1>1, <1>2, <1>3, <1>4 DEF Next, Quiescent

\* Where a handler comes from when it gets to the places that matter below.
LEMMA Entering ==
    ASSUME TypeOK, [Next]_vars, NEW h \in Handlers, pc'[h] # pc[h]
    PROVE  /\ h \in Chats /\ pc'[h] = "commit_evaluated" => Evaluate(h)
           /\ h \in Decisions /\ pc'[h] \in Overlapping /\ pc[h] \notin Overlapping
                => pc'[h] = "decide"
           /\ h \in Decisions /\ pc[h] = "decide" /\ pc'[h] \in Overlapping => Decide(h)
           /\ pc[h] = "load" /\ pc'[h] # "done" => approvals[WorkflowOf(h)] = "PENDING"
           /\ pc'[h] = "insert_key" => KeyOf(h) \notin keys
  <1> USE DEF Answer, Goto, Overlapping, TypeOK, HandlersTyped
  <1> DEFINE Way == /\ h \in Chats /\ pc'[h] = "commit_evaluated" => Evaluate(h)
                    /\ h \in Decisions /\ pc'[h] \in Overlapping /\ pc[h] \notin Overlapping
                         => pc'[h] = "decide"
                    /\ h \in Decisions /\ pc[h] = "decide" /\ pc'[h] \in Overlapping => Decide(h)
                    /\ pc[h] = "load" /\ pc'[h] # "done" => approvals[WorkflowOf(h)] = "PENDING"
                    /\ pc'[h] = "insert_key" => KeyOf(h) \notin keys
  <1>1. ASSUME NEW c \in Chats, ReceiveChat(c) \/ ChatStep(c) \/ Lapse(c)
        PROVE  Way
    <2>1. h = c /\ h \notin Decisions
      BY <1>1, HandlersDiffer
         DEF ReceiveChat, Lapse, ChatStep, RefuseAnalysis, RefuseDuplicate, Evaluate,
             CheckKey, InsertKey, InsertCredit, CompleteCredit, CommitCredit, Handlers,
             RequestApproval, CommitWaiting, Review, CommitReview, CommitEvaluated
    <2>2. CASE Evaluate(c)
      BY <2>1, <2>2 DEF Evaluate
    <2>3. CASE CheckKey(c)
      BY <2>1, <2>3 DEF CheckKey
    <2>4. CASE ~ Evaluate(c) /\ ~ CheckKey(c)
      BY <1>1, <2>1, <2>4
         DEF ReceiveChat, Lapse, ChatStep, RefuseAnalysis, RefuseDuplicate,
             InsertKey, InsertCredit, CompleteCredit, CommitCredit, Handlers,
             RequestApproval, CommitWaiting, Review, CommitReview, CommitEvaluated, NextPlace
    <2> QED
      BY <2>2, <2>3, <2>4
  <1>2. ASSUME NEW d \in Decisions, ReceiveDecision(d) \/ DecisionStep(d)
        PROVE  Way
    <2>1. h = d /\ h \notin Chats
      BY <1>2, HandlersDiffer
         DEF ReceiveDecision, DecisionStep, LoadApproval, ExpireFlush, RaiseExpired, Decide,
             CheckKey, InsertKey, InsertCredit, Grant, CommitApproved, Reject, Handlers,
             CommitRejected, Notify
    <2>2. CASE CheckKey(d)
      BY <2>1, <2>2 DEF CheckKey
    <2>3. CASE Decide(d)
      BY <2>1, <2>3 DEF Decide
    <2>4. CASE ~ CheckKey(d) /\ ~ Decide(d)
      BY <1>2, <2>1, <2>4
         DEF ReceiveDecision, DecisionStep, LoadApproval, ExpireFlush, RaiseExpired,
             InsertKey, InsertCredit, Grant, CommitApproved, Reject,
             CommitRejected, Notify
    <2> QED
      BY <2>2, <2>3, <2>4
  <1>3. ASSUME NEW g \in Handlers, Abort(g) PROVE Way
    BY <1>3 DEF Abort
  <1>4. CASE UNCHANGED vars
    BY <1>4 DEF vars
  <1> QED
    BY <1>1, <1>2, <1>3, <1>4 DEF Next, Quiescent

\* The two locks the arguments below need are taken where LocksHeld says.
LEMMA LocksStayHeld ==
    ASSUME TypeOK, LocksHeld, [Next]_vars
    PROVE  LocksHeld'
  <1>1. ASSUME NEW c \in Chats, pc'[c] = "commit_evaluated"
        PROVE  RequestEntry(c)' \in held'[c]
    <2>0. c \in Handlers
      BY DEF Handlers
    <2>1. CASE pc[c] = "commit_evaluated"
      <3>1. RequestEntry(c)' = RequestEntry(c)
        BY <2>1, InputsStay DEF RequestEntry, RidOf, WorkflowOf
      <3> QED
        BY <1>1, <2>0, <2>1, <3>1, RowsAreKept DEF LocksHeld
    <2>2. CASE pc[c] # "commit_evaluated"
      <3>1. Evaluate(c)
        BY <1>1, <2>0, <2>2, Entering
      <3>2. RequestEntry(c)' = RequestEntry(c)
        BY <3>1 DEF Evaluate, inputs, RequestEntry, RidOf, WorkflowOf
      <3> QED
        BY <2>0, <3>1, <3>2 DEF Evaluate, Write, TypeOK, HandlersTyped
    <2> QED
      BY <2>1, <2>2
  <1>2. ASSUME NEW d \in Decisions, pc'[d] \in Overlapping \ {"decide"}
        PROVE  ApprovalRow(d)' \in held'[d]
    <2>0. d \in Handlers /\ d \notin Chats
      BY HandlersDiffer DEF Handlers
    <2>1. CASE pc[d] \in Overlapping \ {"decide"}
      <3>1. ApprovalRow(d)' = ApprovalRow(d)
        BY <2>0, <2>1, InputsStay DEF ApprovalRow, WorkflowOf, Overlapping
      <3> QED
        BY <1>2, <2>0, <2>1, <3>1, RowsAreKept DEF LocksHeld
    <2>2. CASE pc[d] \notin Overlapping \ {"decide"}
      <3>1. Decide(d)
        BY <1>2, <2>0, <2>2, Entering
      <3>2. ApprovalRow(d)' = ApprovalRow(d)
        BY <2>0, <3>1 DEF Decide, inputs, ApprovalRow, WorkflowOf
      <3> QED
        BY <2>0, <3>1, <3>2 DEF Decide, Write, TypeOK, HandlersTyped
    <2> QED
      BY <2>1, <2>2
  <1> QED
    BY <1>1, <1>2 DEF LocksHeld

-----------------------------------------------------------------------------
(***************************************************************************)
(* Stages of runs and approvals.                                           *)
(***************************************************************************)
LEMMA StagesStay ==
    ASSUME TypeOK, RunStages, DecisionsHaveApprovals, [Next]_vars
    PROVE  RunStages' /\ DecisionsHaveApprovals'
  <1> USE DEF TypeOK, HandlersTyped, TablesTyped
  <1>0. Chats \subseteq Handlers /\ Decisions \subseteq Handlers /\ Chats \cap Decisions = {}
    BY HandlersDiffer DEF Handlers
  <1>1. CASE /\ \A c \in Chats : ~ ChatCommit(c)
             /\ \A d \in Decisions : ~ DecisionCommit(d)
    <2>1. UNCHANGED money
      BY <1>1, TablesChangeAtCommits
    <2>2. \A h \in Handlers : pc'[h] # pc[h] => QuietMove(pc[h], pc'[h])
      BY <1>1, QuietSteps
    <2>3. RunStages'
      <3> SUFFICES ASSUME NEW c \in Chats
                   PROVE  /\ pc'[c] \in Unrecorded => pc[c] \in Unrecorded
                          /\ pc'[c] \in Underway => pc[c] \in Underway
        BY <2>1 DEF money, RunStages
      <3> QED
        BY <1>0, <2>2 DEF QuietMove, Unrecorded, Underway, ChatPlaces
    <2>4. ASSUME NEW d \in Decisions, pc'[d] \notin {"idle", "load", "done"}
          PROVE  approvals'[decisionCall'[d].approval] # "ABSENT"
      <3>1. CASE pc[d] = "load"
        <4>1. approvals[WorkflowOf(d)] = "PENDING" /\ WorkflowOf(d) = decisionCall[d].approval
          BY <1>0, <2>4, <3>1, Entering DEF WorkflowOf
        <4>2. decisionCall'[d] = decisionCall[d] /\ approvals' = approvals
          BY <2>1, <3>1, InputsStay DEF money
        <4> QED
          BY <4>1, <4>2
      <3>2. CASE pc[d] # "load"
        <4>0. pc'[d] \in DecisionPlaces
          BY NextIsTyped
        <4>1. pc[d] \notin {"idle", "load", "done"}
          BY <1>0, <2>2, <2>4, <3>2, <4>0 DEF QuietMove, DecisionPlaces
        <4> QED
          BY <2>1, <4>1, InputsStay DEF money, DecisionsHaveApprovals
      <3> QED
        BY <3>1, <3>2
    <2> QED
      BY <2>3, <2>4 DEF DecisionsHaveApprovals
  <1>2. ASSUME NEW c \in Chats, ChatCommit(c)
        PROVE  RunStages' /\ DecisionsHaveApprovals'
    <2>0. c \in Handlers
      BY <1>0
    <2> USE DEF ChatCommit, CommitEvaluated, CommitCredit, CommitWaiting, CommitReview,
                Goto, Answer, Row, NextPlace, inputs, Unrecorded, Underway
    <2>1. RunStages'
      BY <1>0, <1>2, <2>0 DEF RunStages
    <2>2. DecisionsHaveApprovals'
      BY <1>0, <1>2, <2>0 DEF DecisionsHaveApprovals, RunStages
    <2> QED
      BY <2>1, <2>2
  <1>3. ASSUME NEW d \in Decisions, DecisionCommit(d)
        PROVE  RunStages' /\ DecisionsHaveApprovals'
    <2>0. d \in Handlers /\ WorkflowOf(d) = decisionCall[d].approval /\ WorkflowOf(d) \in Chats
      BY <1>0, <1>3 DEF DecisionCommit, CommitApproved, CommitRejected, WorkflowOf
    <2>1. approvals[WorkflowOf(d)] # "ABSENT"
      BY <1>3, <2>0 DEF DecisionCommit, CommitApproved, CommitRejected, DecisionsHaveApprovals
    <2>2. \A c \in Chats : pc'[c] = pc[c]
      BY <1>0, <1>3 DEF DecisionCommit, CommitApproved, CommitRejected, Goto
    <2>3. /\ UNCHANGED inputs
          /\ \A e \in Decisions : e # d => pc'[e] = pc[e]
          /\ \E s \in {"APPROVED", "REJECTED"} :
               approvals' = [approvals EXCEPT ![WorkflowOf(d)] = s]
          /\ \E r \in {"approved", "rejected"} :
               workflows' = [workflows EXCEPT ![WorkflowOf(d)] = Row("COMPLETED", r)]
      BY <1>0, <1>3 DEF DecisionCommit, CommitApproved, CommitRejected, Goto
    <2>4. RunStages'
      BY <2>0, <2>1, <2>2, <2>3 DEF RunStages, Row, Unrecorded, Underway
    <2>5. DecisionsHaveApprovals'
      BY <2>0, <2>1, <2>3 DEF DecisionsHaveApprovals, inputs
    <2> QED
      BY <2>4, <2>5
  <1> QED
    BY <1>1, <1>2, <1>3

-----------------------------------------------------------------------------
(***************************************************************************)
(* Requests, keys and credits.                                             *)
(***************************************************************************)

\* The chat or decision that is about to be credited has a recorded run.
LEMMA HandlersHaveRuns ==
    ASSUME TypeOK, RunStages, DecisionsHaveApprovals, NEW h \in Handlers,
           pc[h] \in Crediting \cup {"check_key"}
    PROVE  /\ WorkflowOf(h) \in Chats
           /\ workflows[WorkflowOf(h)].status # "ABSENT"
           /\ h \in Chats => workflows[h].status = "EVALUATED"
  <1>1. CASE h \in Chats
    BY <1>1 DEF WorkflowOf, RunStages, Underway, Crediting, TypeOK, HandlersTyped, ChatPlaces
  <1>2. CASE h \in Decisions
    <2>1. WorkflowOf(h) = decisionCall[h].approval /\ WorkflowOf(h) \in Chats
      BY <1>2, HandlersDiffer DEF WorkflowOf, Crediting, TypeOK, HandlersTyped
    <2>2. approvals[WorkflowOf(h)] # "ABSENT"
      BY <1>2, <2>1 DEF DecisionsHaveApprovals, Crediting
    <2>3. workflows[WorkflowOf(h)].status # "ABSENT"
      BY <2>1, <2>2 DEF RunStages, TypeOK, TablesTyped, ApprovalStatus
    <2> QED
      BY <1>2, <2>1, <2>3, HandlersDiffer
  <1> QED
    BY <1>1, <1>2 DEF Handlers

\* A recorded run keeps its request id, its key and its being recorded.
LEMMA RecordedRunsStay ==
    ASSUME TypeOK, RunStages, DecisionsHaveApprovals, [Next]_vars, NEW w \in Chats,
           workflows[w].status # "ABSENT"
    PROVE  /\ workflows'[w].status # "ABSENT"
           /\ workflows[w].status = "COMPLETED" => workflows'[w].status = "COMPLETED"
           /\ chatCall'[w] = chatCall[w]
           /\ KeyOf(w)' = KeyOf(w)
  <1>1. pc[w] \notin {"idle", "evaluate", "commit_evaluated"}
    BY DEF RunStages, Unrecorded
  <1>2. chatCall'[w] = chatCall[w] /\ bill'[w] = bill[w]
    BY <1>1, InputsStay
  <1>3. KeyOf(w)' = KeyOf(w)
    BY <1>2 DEF KeyOf, RidOf, WorkflowOf, BillOfHandler
  <1>4. /\ workflows'[w].status # "ABSENT"
        /\ workflows[w].status = "COMPLETED" => workflows'[w].status = "COMPLETED"
    <2>1. CASE UNCHANGED money
      BY <2>1 DEF money
    <2>2. ASSUME NEW c \in Chats, ChatCommit(c)
          PROVE  <1>4!1 /\ <1>4!2
      BY <2>2 DEF ChatCommit, CommitEvaluated, CommitCredit, CommitWaiting, CommitReview, Row,
                  TypeOK, TablesTyped, RunStages, Underway, Unrecorded
    <2>3. ASSUME NEW d \in Decisions, DecisionCommit(d)
          PROVE  <1>4!1 /\ <1>4!2
      BY <2>3 DEF DecisionCommit, CommitApproved, CommitRejected, Row, TypeOK, TablesTyped
    <2> QED
      BY <2>1, <2>2, <2>3, TablesChangeAtCommits
  <1> QED
    BY <1>2, <1>3, <1>4

LEMMA OneRunStays ==
    ASSUME TypeOK, RunStages, DecisionsHaveApprovals, LocksExclusive, LocksHeld,
           OneRunPerRequest, [Next]_vars
    PROVE  OneRunPerRequest'
  <1>0. Chats \subseteq Handlers /\ Chats \cap Decisions = {}
    BY HandlersDiffer DEF Handlers
  <1>1. ASSUME NEW b \in Chats, CommitEvaluated(b)
        PROVE  OneRunPerRequest'
    <2>1. /\ UNCHANGED inputs
          /\ pc'[b] # "commit_evaluated"
          /\ \A c \in Chats \ {b} : pc'[c] = pc[c] /\ workflows'[c] = workflows[c]
      <3>1. NextPlace(Decision(bill[b].amount)) # "commit_evaluated"
        BY DEF NextPlace
      <3> QED
        BY <1>0, <1>1, <3>1 DEF CommitEvaluated, Goto, TypeOK, HandlersTyped, TablesTyped
    <2>2. pc[b] = "commit_evaluated" /\ ~ RequestTaken(chatCall[b].rid)
      BY <1>1 DEF CommitEvaluated, OneRunPerRequest, RidOf, WorkflowOf
    <2>3. \A c \in Chats \ {b} : pc[c] = "commit_evaluated" => chatCall[c].rid # chatCall[b].rid
      <3> SUFFICES ASSUME NEW c \in Chats \ {b}, pc[c] = "commit_evaluated",
                          chatCall[c].rid = chatCall[b].rid
                   PROVE  FALSE
        OBVIOUS
      <3>1. RequestEntry(c) \in held[c] /\ RequestEntry(b) \in held[b]
        BY <2>2 DEF LocksHeld
      <3>2. RequestEntry(c) = RequestEntry(b)
        BY DEF RequestEntry, RidOf, WorkflowOf
      <3>3. held[b] \cap held[c] = {}
        BY <1>0 DEF LocksExclusive
      <3> QED
        BY <3>1, <3>2, <3>3
    <2> QED
      BY <2>1, <2>2, <2>3 DEF OneRunPerRequest, RequestTaken, RidOf, WorkflowOf, inputs
  <1>2. CASE \A b \in Chats : ~ CommitEvaluated(b)
    <2>1. ASSUME NEW w \in Chats, workflows'[w].status # "ABSENT"
          PROVE  workflows[w].status # "ABSENT"
      <3>1. CASE UNCHANGED money
        BY <2>1, <3>1 DEF money
      <3>2. ASSUME NEW c \in Chats, ChatCommit(c)
            PROVE  workflows[w].status # "ABSENT"
        BY <1>2, <2>1, <3>2
           DEF ChatCommit, CommitCredit, CommitWaiting, CommitReview, Row,
               TypeOK, TablesTyped, RunStages, Underway
      <3>3. ASSUME NEW d \in Decisions, DecisionCommit(d)
            PROVE  workflows[w].status # "ABSENT"
        <4>1. pc[d] \in {"commit_approved", "commit_rejected"}
          BY <3>3 DEF DecisionCommit, CommitApproved, CommitRejected
        <4>2. WorkflowOf(d) = decisionCall[d].approval /\ WorkflowOf(d) \in Chats
          BY <1>0, <4>1 DEF WorkflowOf, TypeOK, HandlersTyped
        <4>3. workflows[WorkflowOf(d)].status # "ABSENT"
          BY <4>1, <4>2 DEF DecisionsHaveApprovals, RunStages, TypeOK, TablesTyped, ApprovalStatus
        <4>4. w # WorkflowOf(d) => workflows'[w] = workflows[w]
          BY <3>3 DEF DecisionCommit, CommitApproved, CommitRejected, TypeOK, TablesTyped
        <4> QED
          BY <2>1, <4>3, <4>4
      <3> QED
        BY <3>1, <3>2, <3>3, TablesChangeAtCommits
    <2>2. \A w \in Chats : workflows'[w].status # "ABSENT" => chatCall'[w] = chatCall[w]
      BY <2>1, RecordedRunsStay
    <2>3. ASSUME NEW c \in Chats, pc'[c] = "commit_evaluated"
          PROVE  ~ RequestTaken(RidOf(c))'
      <3>1. ~ RequestTaken(chatCall[c].rid) /\ chatCall'[c] = chatCall[c]
        <4>1. CASE pc[c] = "commit_evaluated"
          BY <4>1, InputsStay DEF OneRunPerRequest, RidOf, WorkflowOf
        <4>2. CASE pc[c] # "commit_evaluated"
          BY <1>0, <2>3, <4>2, Entering DEF Evaluate, RidOf, WorkflowOf, inputs
        <4> QED
          BY <4>1, <4>2
      <3> QED
        BY <2>1, <2>2, <3>1 DEF RequestTaken, RidOf, WorkflowOf
    <2> QED
      BY <2>1, <2>2, <2>3 DEF OneRunPerRequest
  <1> QED
    BY <1>1, <1>2

\* A handler that has passed the look at its key finds no credit for its request.
LEMMA NoCreditYet ==
    ASSUME TypeOK, Consistent, NEW h \in Handlers, pc[h] \in Crediting
    PROVE  \A k \in credits : k.rid # RidOf(h)
  <1> SUFFICES ASSUME NEW k \in credits, k.rid = RidOf(h) PROVE FALSE
    OBVIOUS
  <1>1. PICK w \in Chats : /\ workflows[w].status = "COMPLETED"
                           /\ chatCall[w].rid = k.rid
                           /\ KeyOf(w) \in keys
    BY DEF Consistent, CreditsHaveRuns
  <1>2. WorkflowOf(h) \in Chats /\ workflows[WorkflowOf(h)].status # "ABSENT"
    BY HandlersHaveRuns DEF Consistent
  <1>3. w = WorkflowOf(h)
    BY <1>1, <1>2 DEF Consistent, OneRunPerRequest, RidOf
  <1>4. KeyOf(w) = KeyOf(h)
    BY <1>3 DEF KeyOf, RidOf, BillOfHandler, WorkflowOf
  <1> QED
    BY <1>1, <1>4 DEF Consistent, KeysAreFresh

\* Two handlers that are both past that look work for different requests.
LEMMA RivalsDiffer ==
    ASSUME TypeOK, Consistent, NEW g \in Handlers, NEW h \in Handlers, g # h,
           pc[g] \in Crediting, pc[h] \in Crediting
    PROVE  KeyOf(g) # KeyOf(h)
  <1> SUFFICES ASSUME KeyOf(g) = KeyOf(h) PROVE FALSE
    OBVIOUS
  <1>1. WorkflowOf(g) = WorkflowOf(h)
    <2>1. RidOf(g) = RidOf(h)
      BY DEF KeyOf
    <2>2. /\ WorkflowOf(g) \in Chats /\ workflows[WorkflowOf(g)].status # "ABSENT"
          /\ WorkflowOf(h) \in Chats /\ workflows[WorkflowOf(h)].status # "ABSENT"
      BY HandlersHaveRuns DEF Consistent
    <2> QED
      BY <2>1, <2>2 DEF RidOf, Consistent, OneRunPerRequest
  <1>2. ASSUME NEW d \in Decisions, pc[d] \in Crediting
        PROVE  /\ pc[d] \in Overlapping \ {"decide"}
               /\ WorkflowOf(d) = decisionCall[d].approval
               /\ WorkflowOf(d) \in Chats
               /\ approvals[WorkflowOf(d)] # "ABSENT"
    BY <1>2, HandlersDiffer
       DEF Crediting, Overlapping, TypeOK, HandlersTyped, DecisionPlaces, WorkflowOf,
           Consistent, DecisionsHaveApprovals
  <1>3. ASSUME NEW c \in Chats, pc[c] \in Crediting
        PROVE  WorkflowOf(c) = c /\ approvals[c] = "ABSENT"
    BY <1>3 DEF WorkflowOf, Consistent, RunStages, Crediting, Underway, TypeOK, HandlersTyped,
                ChatPlaces
  <1>4. CASE g \in Decisions /\ h \in Decisions
    <2>1. ApprovalRow(g) \in held[g] /\ ApprovalRow(h) \in held[h]
      BY <1>2, <1>4 DEF Consistent, LocksHeld
    <2> QED
      BY <1>1, <2>1 DEF ApprovalRow, Consistent, LocksExclusive
  <1> QED
    BY <1>1, <1>2, <1>3, <1>4 DEF Handlers

\* The one way credits and keys change.
LEMMA PaymentSteps ==
    ASSUME TypeOK, [Next]_vars
    PROVE  \/ UNCHANGED <<keys, credits>>
           \/ \E h \in Handlers :
                /\ pc[h] \in Crediting /\ pc'[h] \notin Crediting
                /\ \A g \in Handlers \ {h} : pc'[g] = pc[g]
                /\ UNCHANGED <<inputs, bill>>
                /\ keys' = keys \cup {KeyOf(h)}
                /\ credits' = credits \cup {CreditOf(h)}
                /\ workflows'[WorkflowOf(h)].status = "COMPLETED"
  <1> USE DEF Crediting, Goto, Answer, Row, TypeOK, HandlersTyped, TablesTyped
  <1>1. ASSUME NEW c \in Chats, CommitCredit(c)
        PROVE  \E h \in Handlers :
                /\ pc[h] \in Crediting /\ pc'[h] \notin Crediting
                /\ \A g \in Handlers \ {h} : pc'[g] = pc[g]
                /\ UNCHANGED <<inputs, bill>>
                /\ keys' = keys \cup {KeyOf(h)}
                /\ credits' = credits \cup {CreditOf(h)}
                /\ workflows'[WorkflowOf(h)].status = "COMPLETED"
    <2>1. c \in Handlers /\ WorkflowOf(c) = c
      BY DEF Handlers, WorkflowOf
    <2> QED
      BY <1>1, <2>1 DEF CommitCredit
  <1>2. ASSUME NEW d \in Decisions, CommitApproved(d)
        PROVE  \E h \in Handlers :
                /\ pc[h] \in Crediting /\ pc'[h] \notin Crediting
                /\ \A g \in Handlers \ {h} : pc'[g] = pc[g]
                /\ UNCHANGED <<inputs, bill>>
                /\ keys' = keys \cup {KeyOf(h)}
                /\ credits' = credits \cup {CreditOf(h)}
                /\ workflows'[WorkflowOf(h)].status = "COMPLETED"
    <2>1. d \in Handlers /\ WorkflowOf(d) \in Chats
      BY <1>2, HandlersDiffer DEF Handlers, WorkflowOf, CommitApproved
    <2> QED
      BY <1>2, <2>1 DEF CommitApproved
  <1>3. ASSUME NEW c \in Chats, ChatCommit(c), ~ CommitCredit(c)
        PROVE  UNCHANGED <<keys, credits>>
    BY <1>3 DEF ChatCommit, CommitEvaluated, CommitWaiting, CommitReview
  <1>4. ASSUME NEW d \in Decisions, DecisionCommit(d), ~ CommitApproved(d)
        PROVE  UNCHANGED <<keys, credits>>
    BY <1>4 DEF DecisionCommit, CommitRejected
  <1> QED
    BY <1>1, <1>2, <1>3, <1>4, TablesChangeAtCommits DEF money

\* A handler starts crediting at the look at its key.
LEMMA EnteringCrediting ==
    ASSUME TypeOK, [Next]_vars, NEW h \in Handlers,
           pc[h] \notin Crediting, pc'[h] \in Crediting
    PROVE  pc[h] = "check_key" /\ pc'[h] = "insert_key"
  <1> USE DEF Crediting, TypeOK, HandlersTyped
  <1>1. ASSUME NEW c \in Chats, ChatCommit(c) PROVE FALSE
    BY <1>1 DEF ChatCommit, CommitEvaluated, CommitCredit, CommitWaiting, CommitReview,
                NextPlace, Goto, Answer
  <1>2. ASSUME NEW d \in Decisions, DecisionCommit(d) PROVE FALSE
    BY <1>2 DEF DecisionCommit, CommitApproved, CommitRejected, Goto
  <1>3. QuietMove(pc[h], pc'[h])
    BY <1>1, <1>2, QuietSteps
  <1> QED
    BY <1>3 DEF QuietMove

LEMMA CreditsStay ==
    ASSUME TypeOK, Consistent, [Next]_vars
    PROVE  CreditsHaveRuns' /\ KeysAreFresh' /\ OneCreditPerRequest'
  <1> USE DEF Consistent
  <1>1. CreditsHaveRuns'
    <2>1. ASSUME NEW k \in credits
          PROVE  \E w \in Chats : /\ workflows'[w].status = "COMPLETED"
                                  /\ chatCall'[w].rid = k.rid
                                  /\ KeyOf(w)' \in keys'
      <3>1. PICK w \in Chats : /\ workflows[w].status = "COMPLETED"
                               /\ chatCall[w].rid = k.rid
                               /\ KeyOf(w) \in keys
        BY DEF CreditsHaveRuns
      <3>2. keys \subseteq keys'
        BY PaymentSteps
      <3> QED
        BY <3>1, <3>2, RecordedRunsStay
    <2>2. ASSUME NEW h \in Handlers, pc[h] \in Crediting,
                 UNCHANGED <<inputs, bill>>, keys' = keys \cup {KeyOf(h)},
                 workflows'[WorkflowOf(h)].status = "COMPLETED"
          PROVE  \E w \in Chats : /\ workflows'[w].status = "COMPLETED"
                                  /\ chatCall'[w].rid = CreditOf(h).rid
                                  /\ KeyOf(w)' \in keys'
      <3>1. PICK w \in Chats : w = WorkflowOf(h)
        BY <2>2, HandlersHaveRuns
      <3>2. KeyOf(w)' = KeyOf(h)
        BY <2>2, <3>1 DEF KeyOf, RidOf, BillOfHandler, WorkflowOf, inputs
      <3>3. chatCall'[w].rid = CreditOf(h).rid
        BY <2>2, <3>1 DEF CreditOf, RidOf, inputs
      <3> QED
        BY <2>2, <3>1, <3>2, <3>3
    <2> QED
      BY <2>1, <2>2, PaymentSteps DEF CreditsHaveRuns
  <1>2. KeysAreFresh'
    <2>1. ASSUME NEW h \in Handlers, pc'[h] \in Crediting
          PROVE  KeyOf(h)' \notin keys'
      <3>1. pc[h] \in Crediting \cup {"check_key"} /\ KeyOf(h) \notin keys
        <4>1. CASE pc[h] \in Crediting
          BY <4>1 DEF KeysAreFresh
        <4>2. CASE pc[h] \notin Crediting
          <5>1. pc[h] = "check_key" /\ pc'[h] = "insert_key"
            BY <2>1, <4>2, EnteringCrediting
          <5> QED
            BY <5>1, Entering
        <4> QED
          BY <4>1, <4>2
      <3>2. KeyOf(h)' = KeyOf(h)
        <4>1. PICK w \in Chats : w = WorkflowOf(h) /\ workflows[w].status # "ABSENT"
          BY <3>1, HandlersHaveRuns
        <4>2. KeyOf(w)' = KeyOf(w)
          BY <4>1, RecordedRunsStay
        <4>3. WorkflowOf(h)' = w
          BY <3>1, <4>1, InputsStay DEF WorkflowOf, Crediting, Handlers
        <4>4. KeyOf(w) = KeyOf(h) /\ KeyOf(w)' = KeyOf(h)'
          BY <4>1, <4>3 DEF KeyOf, RidOf, BillOfHandler, WorkflowOf
        <4> QED
          BY <4>2, <4>4
      <3>3. CASE UNCHANGED keys
        BY <3>1, <3>2, <3>3
      <3>4. ASSUME NEW g \in Handlers, pc[g] \in Crediting, pc'[g] \notin Crediting,
                   \A f \in Handlers \ {g} : pc'[f] = pc[f], keys' = keys \cup {KeyOf(g)}
            PROVE  KeyOf(h)' \notin keys'
        <4>1. g # h /\ pc[h] \in Crediting
          BY <2>1, <3>4
        <4>2. KeyOf(g) # KeyOf(h)
          BY <3>4, <4>1, RivalsDiffer
        <4> QED
          BY <3>1, <3>2, <3>4, <4>2
      <3> QED
        BY <3>3, <3>4, PaymentSteps
    <2> QED
      BY <2>1 DEF KeysAreFresh
  <1>3. OneCreditPerRequest'
    <2>1. ASSUME NEW h \in Handlers, pc[h] \in Crediting, credits' = credits \cup {CreditOf(h)}
          PROVE  OneCreditPerRequest'
      <3>1. \A k \in credits : k.rid # CreditOf(h).rid
        BY <2>1, NoCreditYet DEF CreditOf
      <3> QED
        BY <2>1, <3>1 DEF OneCreditPerRequest
    <2>2. CASE UNCHANGED credits
      BY <2>2 DEF OneCreditPerRequest
    <2> QED
      BY <2>1, <2>2, PaymentSteps
  <1> QED
    BY <1>1, <1>2, <1>3

-----------------------------------------------------------------------------
(***************************************************************************)
(* The theorems.                                                           *)
(***************************************************************************)

\* Stages of runs and approvals, locks, keys and credits are consistent in every
\* reachable state.
THEOREM Consistency == Spec => []Consistent
  <1>1. Init => Consistent
    <2> SUFFICES ASSUME Init PROVE Consistent
      OBVIOUS
    <2>1. RunStages /\ DecisionsHaveApprovals
      BY DEF Init, RunStages, DecisionsHaveApprovals, Row, Unrecorded, Underway, Handlers
    <2>2. LocksExclusive /\ LocksHeld
      BY DEF Init, LocksExclusive, LocksHeld, Overlapping, Handlers
    <2>3. OneRunPerRequest
      BY DEF Init, OneRunPerRequest, Row, Handlers
    <2>4. CreditsHaveRuns /\ KeysAreFresh /\ OneCreditPerRequest
      BY DEF Init, CreditsHaveRuns, KeysAreFresh, OneCreditPerRequest
    <2> QED
      BY <2>1, <2>2, <2>3, <2>4 DEF Consistent
  <1>2. TypeOK /\ Consistent /\ [Next]_vars => Consistent'
    BY StagesStay, LocksStayExclusive, LocksStayHeld, OneRunStays, CreditsStay DEF Consistent
  <1> QED
    BY <1>1, <1>2, Typing, PTL DEF Spec

\* Whatever the calls, their interleaving and their failures, and in either
\* database, a request is credited at most once.
THEOREM CreditedAtMostOnce == Spec => []OneCreditPerRequest
  <1>1. Consistent => OneCreditPerRequest
    BY DEF Consistent
  <1> QED
    BY <1>1, Consistency, PTL

\* The unique columns of idempotency_keys and credits never have to stop a
\* handler that passed the look at its key.
THEOREM KeyCheckSuffices == Spec => []KeyCheckIsFinal
  <1>1. TypeOK /\ Consistent => KeyCheckIsFinal
    BY NoCreditYet DEF Consistent, KeysAreFresh, KeyCheckIsFinal, Crediting
  <1> QED
    BY <1>1, Typing, Consistency, PTL

\* A run waits exactly while its approval request is pending, and is not
\* credited by then.
THEOREM WaitingIsPending == Spec => []WaitingHasOpenApproval
  <1>1. TypeOK /\ Consistent => WaitingHasOpenApproval
    <2> SUFFICES ASSUME TypeOK, Consistent, NEW w \in Chats,
                        approvals[w] = "PENDING", NEW k \in credits,
                        k.rid = chatCall[w].rid
                 PROVE  FALSE
      BY DEF WaitingHasOpenApproval, Consistent, RunStages, CreditsOf
    <2>1. PICK v \in Chats : workflows[v].status = "COMPLETED" /\ chatCall[v].rid = k.rid
      BY DEF Consistent, CreditsHaveRuns
    <2>2. workflows[w].status = "WAITING_APPROVAL"
      BY DEF Consistent, RunStages
    <2> QED
      BY <2>1, <2>2 DEF Consistent, OneRunPerRequest
  <1> QED
    BY <1>1, Typing, Consistency, PTL
=============================================================================
