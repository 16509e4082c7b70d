------------------------ MODULE WorkflowLedgerProofs ------------------------
(***************************************************************************)
(* What every credit has behind it, and that BillingWorkflow implements    *)
(* CreditLedger, for any number of chats and decisions and all tables, on  *)
(* both databases.                                                         *)
(***************************************************************************)
EXTENDS WorkflowLedger, BillingWorkflowProofs

-----------------------------------------------------------------------------
(***************************************************************************)
(* What the steps do to the variables of Explained.                        *)
(***************************************************************************)
LEMMA AuditsGrow == [Next]_vars => audits \subseteq audits'
  <1> SUFFICES ASSUME [Next]_vars
               PROVE  audits \subseteq audits'
    OBVIOUS
  <1> USE DEF tables
  <1>1. ASSUME NEW c \in Chats, ReceiveChat(c) \/ ChatStep(c) \/ Lapse(c)
        PROVE  audits \subseteq audits'
    BY <1>1 DEF ChatStep, ReceiveChat, Lapse, RefuseAnalysis, Evaluate, RefuseDuplicate,
                CommitEvaluated, CheckKey, InsertKey, InsertCredit, CompleteCredit, CommitCredit,
                RequestApproval, CommitWaiting, Review, CommitReview
  <1>2. ASSUME NEW d \in Decisions, ReceiveDecision(d) \/ DecisionStep(d)
        PROVE  audits \subseteq audits'
    BY <1>2 DEF DecisionStep, ReceiveDecision, LoadApproval, ExpireFlush, RaiseExpired, Decide,
                CheckKey, InsertKey, InsertCredit, Grant, CommitApproved, Reject,
                CommitRejected, Notify
  <1>3. ASSUME NEW h \in Handlers, Abort(h)
        PROVE  audits \subseteq audits'
    BY <1>3 DEF Abort
  <1>4. CASE UNCHANGED vars
    BY <1>4 DEF vars
  <1> QED
    BY <1>1, <1>2, <1>3, <1>4 DEF Next, Quiescent

\* Only what is pending lapses, and for good.
LEMMA LapsedWasPending ==
    ASSUME [Next]_vars
    PROVE  /\ lapsed \subseteq lapsed'
           /\ \A a \in lapsed' \ lapsed : approvals[a] = "PENDING"
  <1>1. ASSUME NEW c \in Chats, ReceiveChat(c) \/ ChatStep(c)
        PROVE  lapsed' = lapsed
    BY <1>1 DEF ChatStep, ReceiveChat, RefuseAnalysis, Evaluate, RefuseDuplicate,
                CommitEvaluated, CheckKey, InsertKey, InsertCredit, CompleteCredit, CommitCredit,
                RequestApproval, CommitWaiting, Review, CommitReview
  <1>2. ASSUME NEW d \in Decisions, ReceiveDecision(d) \/ DecisionStep(d)
        PROVE  lapsed' = lapsed
    BY <1>2 DEF DecisionStep, ReceiveDecision, LoadApproval, ExpireFlush, RaiseExpired, Decide,
                CheckKey, InsertKey, InsertCredit, Grant, CommitApproved, Reject,
                CommitRejected, Notify
  <1>3. ASSUME NEW h \in Handlers, Abort(h)
        PROVE  lapsed' = lapsed
    BY <1>3 DEF Abort
  <1>4. CASE UNCHANGED vars
    BY <1>4 DEF vars
  <1>5. ASSUME NEW c \in Chats, Lapse(c)
        PROVE  lapsed' = lapsed \cup {c} /\ approvals[c] = "PENDING"
    BY <1>5 DEF Lapse
  <1> QED
    BY <1>1, <1>2, <1>3, <1>4, <1>5 DEF Next, Quiescent

\* The place of a decision changes by a step of its own.
LEMMA DecisionsMoveThemselves ==
    ASSUME TypeOK, [Next]_vars, NEW d \in Decisions, pc'[d] # pc[d]
    PROVE  ReceiveDecision(d) \/ DecisionStep(d) \/ Abort(d)
  <1>0. d \in Handlers /\ pc \in [Handlers -> ChatPlaces \cup DecisionPlaces]
    BY DEF Handlers, TypeOK, HandlersTyped
  <1> USE DEF Goto, Answer
  <1>1. ASSUME NEW c \in Chats, ReceiveChat(c) \/ ChatStep(c) \/ Lapse(c)
        PROVE  FALSE
    <2>0. d # c /\ c \in Handlers
      BY HandlersDiffer DEF Handlers
    <2>1. CASE ReceiveChat(c) \/ Lapse(c) \/ ChatCommit(c)
      BY <1>0, <2>0, <2>1 DEF ReceiveChat, Lapse, ChatCommit, CommitEvaluated, CommitCredit,
                              CommitWaiting, CommitReview
    <2>2. CASE RefuseAnalysis(c) \/ Evaluate(c) \/ RefuseDuplicate(c)
      BY <1>0, <2>0, <2>2 DEF RefuseAnalysis, Evaluate, RefuseDuplicate
    <2>3. CASE RequestApproval(c) \/ Review(c) \/ CompleteCredit(c)
      BY <1>0, <2>0, <2>3 DEF RequestApproval, Review, CompleteCredit
    <2>4. CASE CheckKey(c) \/ InsertKey(c) \/ InsertCredit(c)
      BY <1>0, <2>0, <2>4 DEF CheckKey, InsertKey, InsertCredit
    <2> QED
      BY <1>1, <2>1, <2>2, <2>3, <2>4 DEF ChatStep, ChatCommit
  <1>2. ASSUME NEW e \in Decisions \ {d}, ReceiveDecision(e) \/ DecisionStep(e)
        PROVE  FALSE
    <2>0. e \in Handlers
      BY DEF Handlers
    <2>1. CASE ReceiveDecision(e) \/ DecisionCommit(e)
      BY <1>0, <2>0, <2>1 DEF ReceiveDecision, DecisionCommit, CommitApproved, CommitRejected
    <2>2. CASE LoadApproval(e) \/ ExpireFlush(e) \/ RaiseExpired(e) \/ Decide(e)
      BY <1>0, <2>0, <2>2 DEF LoadApproval, ExpireFlush, RaiseExpired, Decide
    <2>3. CASE Grant(e) \/ Reject(e) \/ Notify(e)
      BY <1>0, <2>0, <2>3 DEF Grant, Reject, Notify
    <2>4. CASE CheckKey(e) \/ InsertKey(e) \/ InsertCredit(e)
      BY <1>0, <2>0, <2>4 DEF CheckKey, InsertKey, InsertCredit
    <2> QED
      BY <1>2, <2>1, <2>2, <2>3, <2>4 DEF DecisionStep, DecisionCommit
  <1>3. ASSUME NEW h \in Handlers \ {d}, Abort(h)
        PROVE  FALSE
    BY <1>0, <1>3 DEF Abort
  <1>4. ~ UNCHANGED vars
    BY DEF vars
  <1> QED
    BY <1>1, <1>2, <1>3, <1>4 DEF Next, Quiescent

\* A decision goes on to the payment only with an approving verdict, and to a
\* verdict only when it has read the request as pending and in time.
LEMMA GoingOn ==
    ASSUME TypeOK, [Next]_vars, NEW d \in Decisions
    PROVE  /\ pc[d] = "decide" /\ pc'[d] = "check_key" => decisionCall[d].verdict = "approve"
           /\ pc[d] = "load" /\ pc'[d] = "decide" =>
                approvals[WorkflowOf(d)] = "PENDING" /\ WorkflowOf(d) \notin lapsed
  <1>0. d \in Handlers /\ pc \in [Handlers -> ChatPlaces \cup DecisionPlaces]
    BY DEF Handlers, TypeOK, HandlersTyped
  <1>1. ASSUME pc[d] = "decide", pc'[d] = "check_key"
        PROVE  decisionCall[d].verdict = "approve"
    <2>1. Decide(d)
      BY <1>0, <1>1, DecisionsMoveThemselves
      DEF DecisionStep, ReceiveDecision, LoadApproval, ExpireFlush, RaiseExpired, CheckKey,
          InsertKey, InsertCredit, Grant, CommitApproved, Reject, CommitRejected, Notify,
          Abort, Answer, Goto
    <2> QED
      BY <1>0, <1>1, <2>1 DEF Decide, Goto
  <1>2. ASSUME pc[d] = "load", pc'[d] = "decide"
        PROVE  approvals[WorkflowOf(d)] = "PENDING" /\ WorkflowOf(d) \notin lapsed
    <2>1. LoadApproval(d)
      BY <1>0, <1>2, DecisionsMoveThemselves
      DEF DecisionStep, ReceiveDecision, Decide, ExpireFlush, RaiseExpired, CheckKey,
          InsertKey, InsertCredit, Grant, CommitApproved, Reject, CommitRejected, Notify,
          Abort, Answer, Goto
    <2> QED
      BY <1>0, <1>2, <2>1 DEF LoadApproval, Goto, Answer
  <1> QED
    BY <1>1, <1>2

-----------------------------------------------------------------------------
(***************************************************************************)
(* Explained is inductive beside TypeOK and Consistent.                    *)
(***************************************************************************)

\* A chat with an approval request is over.
LEMMA RequestedChatsAreOver ==
    ASSUME TypeOK, Consistent, NEW c \in Chats, approvals[c] # "ABSENT"
    PROVE  pc[c] = "done"
  BY DEF TypeOK, HandlersTyped, ChatPlaces, Consistent, RunStages, Unrecorded, Underway

\* What a decision that can still commit works on, and how its run stands.
LEMMA DecidedRuns ==
    ASSUME TypeOK, Consistent, Explained, NEW d \in Decisions, pc[d] \notin {"idle", "load", "done"}
    PROVE  LET w == WorkflowOf(d)
           IN  /\ w = decisionCall[d].approval /\ w \in Chats
               /\ approvals[w] \in {"PENDING", "APPROVED", "REJECTED"}
               /\ pc[w] = "done"
               /\ workflows[w].status = "WAITING_APPROVAL"
                    \/ workflows[w] \in {Row("COMPLETED", "approved"), Row("COMPLETED", "rejected")}
               /\ Decision(bill[w].amount) = "HUMAN_APPROVAL"
               /\ KeyOf(d) = KeyOf(w) /\ RidOf(d) = chatCall[w].rid
  <1> DEFINE w == decisionCall[d].approval
  <1>1. w \in Chats /\ WorkflowOf(d) = w
    BY HandlersDiffer DEF TypeOK, HandlersTyped, WorkflowOf
  <1>2. approvals[w] \in {"PENDING", "APPROVED", "REJECTED"}
    BY <1>1 DEF Consistent, DecisionsHaveApprovals, TypeOK, TablesTyped, ApprovalStatus
  <1>3. pc[w] = "done"
    BY <1>1, <1>2, RequestedChatsAreOver
  <1>4. \/ workflows[w].status = "WAITING_APPROVAL"
        \/ workflows[w] \in {Row("COMPLETED", "approved"), Row("COMPLETED", "rejected")}
    BY <1>1, <1>2 DEF Consistent, RunStages, Explained, ApprovalsMatchRuns
  <1>5. Decision(bill[w].amount) = "HUMAN_APPROVAL"
    BY <1>1, <1>2 DEF Explained, BranchFitsBill
  <1>6. KeyOf(d) = KeyOf(w) /\ RidOf(d) = chatCall[w].rid
    BY <1>1 DEF KeyOf, RidOf, BillOfHandler, WorkflowOf
  <1> QED
    BY <1>1, <1>2, <1>3, <1>4, <1>5, <1>6

\* The credits that are there stay explained when their runs stay.
LEMMA OldCreditsStayExplained ==
    ASSUME TypeOK, Explained, [Next]_vars, NEW k \in credits,
           k.by \in Chats => workflows'[k.by] = workflows[k.by],
           pc'[k.by] # "idle"
    PROVE  \/ /\ k.by \in Chats
              /\ Decision(k.amount) = "AUTO_CREDIT"
              /\ workflows'[k.by] = Row("COMPLETED", "credited")
           \/ /\ k.by \in Decisions
              /\ Decision(k.amount) = "HUMAN_APPROVAL"
              /\ decisionCall'[k.by].verdict = "approve"
              /\ Audit("APPROVAL_GRANTED", WorkflowOf(k.by)', k.by) \in audits'
  <1>1. CASE k.by \in Chats
    BY <1>1, HandlersDiffer DEF Explained, CreditAuthorised
  <1>2. CASE k.by \notin Chats
    <2>1. /\ k.by \in Decisions
          /\ Decision(k.amount) = "HUMAN_APPROVAL"
          /\ decisionCall[k.by].verdict = "approve"
          /\ Audit("APPROVAL_GRANTED", WorkflowOf(k.by), k.by) \in audits
          /\ pc[k.by] # "idle"
      BY <1>2 DEF Explained, CreditAuthorised
    <2>2. decisionCall'[k.by] = decisionCall[k.by]
      BY <2>1, InputsStay
    <2>3. WorkflowOf(k.by)' = WorkflowOf(k.by)
      BY <1>2, <2>2 DEF WorkflowOf
    <2> QED
      BY <2>1, <2>2, <2>3, AuditsGrow
  <1> QED
    BY <1>1, <1>2

\* A step without a commit.
LEMMA QuietStepsAreExplained ==
    ASSUME TypeOK, TypeOK', Consistent, Explained, [Next]_vars,
           \A c \in Chats : ~ ChatCommit(c), \A d \in Decisions : ~ DecisionCommit(d)
    PROVE  Explained'
  <1>0. /\ workflows' = workflows /\ approvals' = approvals
        /\ keys' = keys /\ credits' = credits
    BY TablesChangeAtCommits DEF money
  <1>1. \A h \in Handlers : pc'[h] = pc[h] \/ QuietMove(pc[h], pc'[h])
    BY QuietSteps
  <1>2. \A c \in Chats : pc[c] \in ChatPlaces /\ pc'[c] \in ChatPlaces /\ c \in Handlers
    BY DEF TypeOK, HandlersTyped, Handlers
  <1>3. \A d \in Decisions : pc[d] \in DecisionPlaces /\ pc'[d] \in DecisionPlaces /\ d \in Handlers
    BY DEF TypeOK, HandlersTyped, Handlers
  <1>4. ASSUME NEW c \in Chats, pc[c] \notin {"idle", "evaluate"}
        PROVE  bill'[c] = bill[c] /\ chatCall'[c] = chatCall[c]
    BY <1>4, InputsStay
  <1>5. BranchFitsBill'
    <2> SUFFICES ASSUME NEW c \in Chats
                 PROVE  LET decision == Decision(bill'[c].amount)
                        IN  /\ pc'[c] \in {"check_key", "insert_key", "insert_credit", "complete",
                                           "commit_credit"} => decision = "AUTO_CREDIT"
                            /\ pc'[c] \in {"request_approval", "commit_waiting"}
                                 \/ approvals'[c] # "ABSENT" => decision = "HUMAN_APPROVAL"
                            /\ pc'[c] \in {"review", "commit_review"}
                                 => decision \in {"NO_ACTION", "MANUAL_INVESTIGATION"}
      BY DEF BranchFitsBill
    <2>1. CASE approvals[c] # "ABSENT"
      <3>1. pc[c] = "done" /\ pc'[c] = "done" /\ bill'[c] = bill[c]
        BY <1>1, <1>2, <1>4, <2>1, RequestedChatsAreOver DEF QuietMove
      <3> QED
        BY <2>1, <3>1 DEF Explained, BranchFitsBill
    <2>2. CASE approvals[c] = "ABSENT"
      <3>1. /\ pc'[c] \in {"check_key", "insert_key", "insert_credit", "complete", "commit_credit"}
                 => pc[c] \in {"check_key", "insert_key", "insert_credit", "complete", "commit_credit"}
            /\ pc'[c] \in {"request_approval", "commit_waiting"}
                 => pc[c] \in {"request_approval", "commit_waiting"}
            /\ pc'[c] \in {"review", "commit_review"} => pc[c] \in {"review", "commit_review"}
        BY <1>1, <1>2 DEF QuietMove, ChatPlaces
      <3>2. pc[c] \in {"idle", "evaluate"}
              => pc'[c] \in {"idle", "evaluate", "commit_evaluated", "done"}
        BY <1>1, <1>2 DEF QuietMove, ChatPlaces
      <3> QED
        BY <1>0, <1>4, <2>2, <3>1, <3>2 DEF Explained, BranchFitsBill
    <2> QED
      BY <2>1, <2>2
  <1>6. OnlyApprovalsPay'
    <2> SUFFICES ASSUME NEW d \in Decisions, pc'[d] \in Crediting \cup {"check_key"}
                 PROVE  decisionCall'[d].verdict = "approve"
      BY DEF OnlyApprovalsPay
    <2>1. \/ pc[d] \in Crediting \cup {"check_key"}
          \/ pc[d] = "decide" /\ pc'[d] = "check_key"
      BY <1>1, <1>3 DEF QuietMove, DecisionPlaces, Crediting
    <2>2. decisionCall[d].verdict = "approve"
      BY <2>1, GoingOn DEF Explained, OnlyApprovalsPay
    <2>3. decisionCall'[d] = decisionCall[d]
      BY <2>1, InputsStay DEF Crediting
    <2> QED
      BY <2>2, <2>3
  <1>7. ApprovalsMatchRuns'
    <2> SUFFICES ASSUME NEW a \in Chats
                 PROVE  /\ approvals[a] = "APPROVED" =>
                             workflows[a] = Row("COMPLETED", "approved") /\ KeyOf(a)' \in keys
                        /\ approvals[a] = "REJECTED" => workflows[a] = Row("COMPLETED", "rejected")
                        /\ a \in lapsed' => approvals[a] # "ABSENT"
      BY <1>0 DEF ApprovalsMatchRuns
    <2>1. approvals[a] = "APPROVED" => KeyOf(a)' = KeyOf(a)
      BY <1>4, RequestedChatsAreOver DEF KeyOf, RidOf, BillOfHandler, WorkflowOf
    <2>2. a \in lapsed' => approvals[a] # "ABSENT"
      BY LapsedWasPending DEF Explained, ApprovalsMatchRuns
    <2> QED
      BY <2>1, <2>2 DEF Explained, ApprovalsMatchRuns
  <1>8. \A k \in credits : k.by \in Handlers /\ pc'[k.by] # "idle"
    BY <1>1 DEF QuietMove, Explained, TypeOK, TablesTyped, CreditRows
  <1>9. CreditAuthorised'
    BY <1>0, <1>8, OldCreditsStayExplained DEF CreditAuthorised
  <1> QED
    BY <1>0, <1>5, <1>6, <1>7, <1>8, <1>9 DEF Explained

\* What the commits have in common.
LEMMA CommitsLeaveInputs ==
    ASSUME TypeOK, NEW h \in Handlers,
           (h \in Chats /\ ChatCommit(h)) \/ (h \in Decisions /\ DecisionCommit(h))
    PROVE  /\ UNCHANGED <<inputs, bill, lapsed>>
           /\ \A g \in Handlers \ {h} : pc'[g] = pc[g]
           /\ \A c \in Chats : KeyOf(c)' = KeyOf(c)
           /\ keys \subseteq keys'
  <1>1. UNCHANGED <<inputs, bill, lapsed>> /\ keys \subseteq keys'
    BY DEF ChatCommit, DecisionCommit, CommitEvaluated, CommitCredit, CommitWaiting, CommitReview,
           CommitApproved, CommitRejected
  <1>2. \E p : pc' = [pc EXCEPT ![h] = p]
    BY DEF ChatCommit, DecisionCommit, CommitEvaluated, CommitCredit, CommitWaiting, CommitReview,
           CommitApproved, CommitRejected, Goto, Answer
  <1>3. \A g \in Handlers \ {h} : pc'[g] = pc[g]
    BY <1>2 DEF TypeOK, HandlersTyped
  <1>4. \A c \in Chats : KeyOf(c)' = KeyOf(c)
    BY <1>1 DEF inputs, KeyOf, RidOf, BillOfHandler, WorkflowOf
  <1> QED
    BY <1>1, <1>3, <1>4

\* The commit of a chat.
LEMMA ChatCommitsAreExplained ==
    ASSUME TypeOK, Consistent, Explained, [Next]_vars, NEW c \in Chats, ChatCommit(c)
    PROVE  Explained'
  <1>0. /\ c \in Handlers /\ c \notin Decisions /\ WorkflowOf(c) = c
        /\ UNCHANGED <<inputs, bill, lapsed>>
        /\ \A g \in Handlers \ {c} : pc'[g] = pc[g]
        /\ \A b \in Chats : KeyOf(b)' = KeyOf(b)
        /\ keys \subseteq keys'
    BY CommitsLeaveInputs, HandlersDiffer DEF Handlers, WorkflowOf
  <1>1. /\ pc[c] \in {"commit_evaluated", "commit_credit", "commit_waiting", "commit_review"}
        /\ approvals[c] = "ABSENT"
        /\ workflows[c].status \in {"ABSENT", "EVALUATED"}
    BY DEF ChatCommit, CommitEvaluated, CommitCredit, CommitWaiting, CommitReview, Consistent,
           RunStages, Unrecorded, Underway
  <1>2. /\ \A b \in Chats \ {c} : workflows'[b] = workflows[b] /\ approvals'[b] = approvals[b]
        /\ \/ pc[c] = "commit_waiting" /\ approvals'[c] = "PENDING"
           \/ approvals'[c] = "ABSENT"
    BY <1>1 DEF ChatCommit, CommitEvaluated, CommitCredit, CommitWaiting, CommitReview,
                TypeOK, TablesTyped
  <1>3. \/ pc'[c] = "done"
        \/ pc[c] = "commit_evaluated" /\ pc'[c] = NextPlace(Decision(bill[c].amount))
    BY <1>0 DEF ChatCommit, CommitEvaluated, CommitCredit, CommitWaiting, CommitReview, Goto, Answer,
                TypeOK, HandlersTyped
  <1>4. Decision(bill[c].amount) \in BillingDecision
    BY DEF Decision, BillingDecision
  <1>5. BranchFitsBill'
    <2> SUFFICES ASSUME NEW b \in Chats
                 PROVE  LET decision == Decision(bill[b].amount)
                        IN  /\ pc'[b] \in {"check_key", "insert_key", "insert_credit", "complete",
                                           "commit_credit"} => decision = "AUTO_CREDIT"
                            /\ pc'[b] \in {"request_approval", "commit_waiting"}
                                 \/ approvals'[b] # "ABSENT" => decision = "HUMAN_APPROVAL"
                            /\ pc'[b] \in {"review", "commit_review"}
                                 => decision \in {"NO_ACTION", "MANUAL_INVESTIGATION"}
      BY <1>0 DEF BranchFitsBill
    <2>1. CASE b # c
      <3>1. pc'[b] = pc[b] /\ approvals'[b] = approvals[b]
        BY <1>0, <1>2, <2>1 DEF Handlers
      <3> QED
        BY <3>1 DEF Explained, BranchFitsBill
    <2>2. CASE b = c
      <3>1. approvals'[c] # "ABSENT" => Decision(bill[c].amount) = "HUMAN_APPROVAL"
        BY <1>2 DEF Explained, BranchFitsBill
      <3> QED
        BY <1>3, <1>4, <2>2, <3>1 DEF NextPlace, BillingDecision
    <2> QED
      BY <2>1, <2>2
  <1>6. OnlyApprovalsPay'
    <2>1. \A d \in Decisions : pc'[d] = pc[d] /\ decisionCall'[d] = decisionCall[d]
      BY <1>0 DEF inputs, Handlers
    <2> QED
      BY <2>1 DEF Explained, OnlyApprovalsPay
  <1>7. ApprovalsMatchRuns'
    <2>1. \A b \in Chats \ {c} :
            /\ approvals'[b] = "APPROVED" =>
                 workflows'[b] = Row("COMPLETED", "approved") /\ KeyOf(b)' \in keys'
            /\ approvals'[b] = "REJECTED" => workflows'[b] = Row("COMPLETED", "rejected")
            /\ b \in lapsed' => approvals'[b] # "ABSENT"
      BY <1>0, <1>2 DEF Explained, ApprovalsMatchRuns
    <2>2. c \notin lapsed' /\ approvals'[c] \in {"PENDING", "ABSENT"}
      BY <1>0, <1>1, <1>2 DEF Explained, ApprovalsMatchRuns
    <2> QED
      BY <2>1, <2>2 DEF ApprovalsMatchRuns
  <1>8. ASSUME NEW k \in credits
        PROVE  /\ k.by \in Handlers /\ pc'[k.by] # "idle"
               /\ k.by \in Chats => workflows'[k.by] = workflows[k.by]
    <2>1. k.by \in Handlers /\ pc[k.by] # "idle"
      BY DEF Explained, TypeOK, TablesTyped, CreditRows
    <2>2. k.by # c
      BY <1>0, <1>1 DEF Explained, CreditAuthorised, Row
    <2> QED
      BY <1>0, <1>2, <2>1, <2>2
  <1>9. ASSUME NEW k \in credits', k \notin credits
        PROVE  /\ k.by = c /\ Decision(k.amount) = "AUTO_CREDIT"
               /\ workflows'[c] = Row("COMPLETED", "credited")
               /\ pc'[c] = "done"
    <2>1. CommitCredit(c) /\ k = CreditOf(c)
      BY <1>9 DEF ChatCommit, CommitEvaluated, CommitCredit, CommitWaiting, CommitReview
    <2>2. workflows'[c] = Row("COMPLETED", "credited") /\ pc'[c] = "done"
      BY <1>0, <2>1 DEF CommitCredit, Answer, Goto, TypeOK, HandlersTyped, TablesTyped
    <2>3. k.by = c /\ k.amount = bill[c].amount
      BY <1>0, <2>1 DEF CreditOf, BillOfHandler
    <2> QED
      BY <2>1, <2>2, <2>3 DEF CommitCredit, Explained, BranchFitsBill
  <1>10. CreditAuthorised'
    BY <1>8, <1>9, OldCreditsStayExplained DEF CreditAuthorised
  <1> QED
    BY <1>5, <1>6, <1>7, <1>8, <1>9, <1>10 DEF Explained

\* The commit of a decision.
LEMMA DecisionCommitsAreExplained ==
    ASSUME TypeOK, Consistent, Explained, [Next]_vars, NEW d \in Decisions, DecisionCommit(d)
    PROVE  Explained'
  <1>0. /\ d \in Handlers /\ d \notin Chats
        /\ UNCHANGED <<inputs, bill, lapsed>>
        /\ \A g \in Handlers \ {d} : pc'[g] = pc[g]
        /\ \A b \in Chats : KeyOf(b)' = KeyOf(b)
        /\ keys \subseteq keys'
    BY CommitsLeaveInputs, HandlersDiffer DEF Handlers
  <1>1. pc[d] \in {"commit_approved", "commit_rejected"} /\ pc'[d] = "notify"
    BY <1>0 DEF DecisionCommit, CommitApproved, CommitRejected, Goto, TypeOK, HandlersTyped
  <1>w. PICK w : w = decisionCall[d].approval
    OBVIOUS
  <1>2. /\ w \in Chats /\ WorkflowOf(d) = w /\ pc[w] = "done"
        /\ approvals[w] \in {"PENDING", "APPROVED", "REJECTED"}
        /\ \/ workflows[w].status = "WAITING_APPROVAL"
           \/ workflows[w] \in {Row("COMPLETED", "approved"), Row("COMPLETED", "rejected")}
        /\ Decision(bill[w].amount) = "HUMAN_APPROVAL"
        /\ KeyOf(d) = KeyOf(w)
    BY <1>1, <1>w, DecidedRuns
  <1>3. \A b \in Chats \ {w} : workflows'[b] = workflows[b] /\ approvals'[b] = approvals[b]
    BY <1>2 DEF DecisionCommit, CommitApproved, CommitRejected, TypeOK, TablesTyped
  <1>4. \/ /\ CommitApproved(d)
           /\ approvals'[w] = "APPROVED" /\ workflows'[w] = Row("COMPLETED", "approved")
           /\ KeyOf(w) \in keys'
        \/ /\ CommitRejected(d)
           /\ approvals'[w] = "REJECTED" /\ workflows'[w] = Row("COMPLETED", "rejected")
    BY <1>2 DEF DecisionCommit, CommitApproved, CommitRejected, TypeOK, TablesTyped
  <1>5. BranchFitsBill'
    <2>1. \A b \in Chats : pc'[b] = pc[b] /\ bill'[b] = bill[b]
      BY <1>0 DEF Handlers
    <2>2. \A b \in Chats : approvals'[b] # "ABSENT" => approvals[b] # "ABSENT"
      BY <1>2, <1>3
    <2> QED
      BY <2>1, <2>2 DEF Explained, BranchFitsBill
  <1>6. OnlyApprovalsPay'
    <2>1. \A e \in Decisions \ {d} : pc'[e] = pc[e] /\ decisionCall'[e] = decisionCall[e]
      BY <1>0 DEF inputs, Handlers
    <2> QED
      BY <1>1, <2>1 DEF Explained, OnlyApprovalsPay, Crediting
  <1>7. ApprovalsMatchRuns'
    <2>1. \A b \in Chats \ {w} :
            /\ approvals'[b] = "APPROVED" =>
                 workflows'[b] = Row("COMPLETED", "approved") /\ KeyOf(b)' \in keys'
            /\ approvals'[b] = "REJECTED" => workflows'[b] = Row("COMPLETED", "rejected")
            /\ b \in lapsed' => approvals'[b] # "ABSENT"
      BY <1>0, <1>3 DEF Explained, ApprovalsMatchRuns
    <2>2. /\ approvals'[w] = "APPROVED" =>
               workflows'[w] = Row("COMPLETED", "approved") /\ KeyOf(w)' \in keys'
          /\ approvals'[w] = "REJECTED" => workflows'[w] = Row("COMPLETED", "rejected")
          /\ approvals'[w] # "ABSENT"
      BY <1>0, <1>2, <1>4
    <2> QED
      BY <1>2, <2>1, <2>2 DEF ApprovalsMatchRuns
  <1>8. ASSUME NEW k \in credits
        PROVE  /\ k.by \in Handlers /\ pc'[k.by] # "idle"
               /\ k.by \in Chats => workflows'[k.by] = workflows[k.by]
    <2>1. k.by \in Handlers /\ pc[k.by] # "idle"
      BY DEF Explained, TypeOK, TablesTyped, CreditRows
    <2>2. k.by \in Chats => k.by # w
      BY <1>2, HandlersDiffer DEF Explained, CreditAuthorised, Row
    <2> QED
      BY <1>0, <1>1, <1>3, <2>1, <2>2
  <1>9. ASSUME NEW k \in credits', k \notin credits
        PROVE  /\ k.by = d /\ Decision(k.amount) = "HUMAN_APPROVAL"
               /\ decisionCall'[d].verdict = "approve"
               /\ Audit("APPROVAL_GRANTED", WorkflowOf(d)', d) \in audits'
               /\ pc'[d] # "idle"
    <2>1. CommitApproved(d) /\ k = CreditOf(d)
      BY <1>9 DEF DecisionCommit, CommitApproved, CommitRejected
    <2>2. k.by = d /\ k.amount = bill[w].amount
      BY <1>2, <2>1 DEF CreditOf, BillOfHandler
    <2>3. decisionCall[d].verdict = "approve"
      BY <2>1 DEF CommitApproved, Explained, OnlyApprovalsPay, Crediting
    <2>4. Audit("APPROVAL_GRANTED", WorkflowOf(d)', d) \in audits'
      BY <1>0, <2>1 DEF CommitApproved, WorkflowOf, inputs
    <2> QED
      BY <1>0, <1>1, <1>2, <2>2, <2>3, <2>4 DEF inputs
  <1>10. CreditAuthorised'
    BY <1>8, <1>9, OldCreditsStayExplained DEF CreditAuthorised
  <1> QED
    BY <1>0, <1>5, <1>6, <1>7, <1>8, <1>9, <1>10 DEF Explained

LEMMA InitIsExplained == Init => Explained
  BY DEF Init, Explained, BranchFitsBill, OnlyApprovalsPay, ApprovalsMatchRuns, CreditAuthorised,
         Crediting, Handlers

\* Every chat is in the branch its bill calls for, whatever pays is an approval
\* or within the automatic limit, and a completed approval agrees with its run.
THEOREM ExplainedAlways == Spec => []Explained
  <1>1. TypeOK /\ TypeOK' /\ Consistent /\ Explained /\ [Next]_vars => Explained'
    BY QuietStepsAreExplained, ChatCommitsAreExplained, DecisionCommitsAreExplained
  <1> QED
    BY InitIsExplained, <1>1, Typing, Consistency, PTL DEF Spec

\* Nothing is credited without cause: within the automatic limit, by the chat
\* that found it, whose run says so; or within the maximum, by a decision that
\* approves and is in the audit trail.
THEOREM CreditsAreAuthorised == Spec => []CreditAuthorised
  <1>1. Explained => CreditAuthorised
    BY DEF Explained
  <1> QED
    BY <1>1, ExplainedAlways, PTL

-----------------------------------------------------------------------------
(***************************************************************************)
(* Every step is one of six things that happen to one run, or none.        *)
(***************************************************************************)
RunBecomes(c, row) ==
    UNCHANGED <<chatCall, bill>> /\ workflows' = [workflows EXCEPT ![c] = row]

RunIsCredited(c) ==
    /\ \A k \in credits : k.rid # chatCall[c].rid
    /\ \E k : /\ credits' = credits \cup {k}
              /\ k.rid = chatCall[c].rid /\ k.amount = bill[c].amount

DecidedRow == {Row("COMPLETED", "approved"), Row("COMPLETED", "rejected")}

RunOpened(c) ==
    /\ workflows[c].status = "ABSENT" /\ ~ RequestTaken(chatCall[c].rid)
    /\ RunBecomes(c, Row("EVALUATED", "none")) /\ credits' = credits
RunPaid(c) ==
    /\ workflows[c].status = "EVALUATED" /\ Decision(bill[c].amount) = "AUTO_CREDIT"
    /\ RunBecomes(c, Row("COMPLETED", "credited")) /\ RunIsCredited(c)
RunSuspended(c) ==
    /\ workflows[c].status = "EVALUATED" /\ Decision(bill[c].amount) = "HUMAN_APPROVAL"
    /\ RunBecomes(c, Row("WAITING_APPROVAL", "none")) /\ credits' = credits
RunReviewed(c) ==
    /\ workflows[c].status = "EVALUATED"
    /\ Decision(bill[c].amount) \in {"NO_ACTION", "MANUAL_INVESTIGATION"}
    /\ RunBecomes(c, Row("COMPLETED", "reviewed")) /\ credits' = credits
RunApproved(c) ==
    /\ workflows[c].status = "WAITING_APPROVAL" \/ workflows[c] = Row("COMPLETED", "rejected")
    /\ RunBecomes(c, Row("COMPLETED", "approved")) /\ RunIsCredited(c)
RunRejected(c) ==
    /\ workflows[c].status = "WAITING_APPROVAL" \/ workflows[c] \in DecidedRow
    /\ RunBecomes(c, Row("COMPLETED", "rejected")) /\ credits' = credits

RunStep(c) ==
    RunOpened(c) \/ RunPaid(c) \/ RunSuspended(c) \/ RunReviewed(c) \/ RunApproved(c)
        \/ RunRejected(c)

\* The rest, which touches no recorded run.
NoRunStep ==
    /\ workflows' = workflows /\ credits' = credits
    /\ \A w \in Chats : workflows[w].status # "ABSENT" =>
         chatCall'[w] = chatCall[w] /\ bill'[w] = bill[w]

\* Crediting is a payment of the handler's run.
LEMMA CreditingCredits ==
    ASSUME TypeOK, Consistent, NEW h \in Handlers, pc[h] \in Crediting,
           credits' = credits \cup {CreditOf(h)}
    PROVE  RunIsCredited(WorkflowOf(h))
  <1>1. \A k \in credits : k.rid # chatCall[WorkflowOf(h)].rid
    BY NoCreditYet DEF RidOf
  <1>2. /\ CreditOf(h).rid = chatCall[WorkflowOf(h)].rid
        /\ CreditOf(h).amount = bill[WorkflowOf(h)].amount
    BY DEF CreditOf, RidOf, BillOfHandler
  <1> QED
    BY <1>1, <1>2 DEF RunIsCredited

LEMMA ChatCommitsAreRunSteps ==
    ASSUME TypeOK, Consistent, Explained, NEW c \in Chats, ChatCommit(c)
    PROVE  RunStep(c)
  <1> USE DEF RunStep, RunBecomes, inputs
  <1>0. c \in Handlers /\ WorkflowOf(c) = c /\ RidOf(c) = chatCall[c].rid
    BY DEF Handlers, WorkflowOf, RidOf
  <1>1. CASE CommitEvaluated(c)
    <2>1. workflows[c].status = "ABSENT" /\ ~ RequestTaken(chatCall[c].rid)
      BY <1>0, <1>1 DEF CommitEvaluated, Consistent, RunStages, Unrecorded, OneRunPerRequest
    <2> QED
      BY <1>1, <2>1 DEF CommitEvaluated, RunOpened
  <1>2. ASSUME pc[c] \in {"commit_credit", "commit_waiting", "commit_review"}
        PROVE  workflows[c].status = "EVALUATED"
    BY <1>2 DEF Consistent, RunStages, Underway
  <1>3. CASE CommitCredit(c)
    <2>1. RunIsCredited(c)
      BY <1>0, <1>3, CreditingCredits DEF CommitCredit, Crediting
    <2> QED
      BY <1>2, <1>3, <2>1 DEF CommitCredit, RunPaid, Explained, BranchFitsBill
  <1>4. CASE CommitWaiting(c)
    BY <1>2, <1>4 DEF CommitWaiting, RunSuspended, Explained, BranchFitsBill
  <1>5. CASE CommitReview(c)
    BY <1>2, <1>5 DEF CommitReview, RunReviewed, Explained, BranchFitsBill
  <1> QED
    BY <1>1, <1>3, <1>4, <1>5 DEF ChatCommit

LEMMA DecisionCommitsAreRunSteps ==
    ASSUME TypeOK, Consistent, Explained, NEW d \in Decisions, DecisionCommit(d)
    PROVE  WorkflowOf(d) \in Chats /\ RunStep(WorkflowOf(d))
  <1> USE DEF RunStep, RunBecomes, inputs
  <1>1. PICK w : w = WorkflowOf(d)
    OBVIOUS
  <1>2. pc[d] \in {"commit_approved", "commit_rejected"}
    BY DEF DecisionCommit, CommitApproved, CommitRejected
  <1>3. /\ w \in Chats
        /\ approvals[w] \in {"PENDING", "APPROVED", "REJECTED"}
        /\ workflows[w].status = "WAITING_APPROVAL" \/ workflows[w] \in DecidedRow
        /\ KeyOf(d) = KeyOf(w)
    BY <1>1, <1>2, DecidedRuns DEF DecidedRow
  <1>4. CASE CommitApproved(d)
    <2>1. d \in Handlers /\ pc[d] \in Crediting
      BY <1>4 DEF CommitApproved, Crediting, Handlers
    <2>2. RunIsCredited(w)
      BY <1>1, <1>4, <2>1, CreditingCredits DEF CommitApproved
    <2>3. KeyOf(w) \notin keys
      BY <1>3, <2>1 DEF Consistent, KeysAreFresh
    <2>4. workflows[w].status = "WAITING_APPROVAL" \/ workflows[w] = Row("COMPLETED", "rejected")
      BY <1>3, <2>3 DEF Consistent, RunStages, Explained, ApprovalsMatchRuns
    <2> QED
      BY <1>1, <1>3, <1>4, <2>2, <2>4 DEF CommitApproved, RunApproved
  <1>5. CASE CommitRejected(d)
    BY <1>1, <1>3, <1>5 DEF CommitRejected, RunRejected
  <1> QED
    BY <1>1, <1>3, <1>4, <1>5 DEF DecisionCommit

LEMMA StepsAreRunSteps ==
    ASSUME TypeOK, Consistent, Explained, [Next]_vars
    PROVE  NoRunStep \/ \E c \in Chats : RunStep(c)
  <1>1. CASE UNCHANGED money
    <2>1. \A w \in Chats : workflows[w].status # "ABSENT" => pc[w] \notin {"idle", "evaluate"}
      BY DEF Consistent, RunStages, Unrecorded
    <2> QED
      BY <1>1, <2>1, InputsStay DEF NoRunStep, money
  <1> QED
    BY <1>1, TablesChangeAtCommits, ChatCommitsAreRunSteps, DecisionCommitsAreRunSteps

-----------------------------------------------------------------------------
(***************************************************************************)
(* A credit and the outcome of its run.                                    *)
(***************************************************************************)
Together(w) ==
    (workflows'[w] # workflows[w] /\ workflows'[w].result \in {"credited", "approved"})
      <=> (workflows'[w].status # "ABSENT" /\ CreditsOf(w)' # CreditsOf(w))

LEMMA RunStepsAreTogether ==
    ASSUME TypeOK, Consistent, NEW c \in Chats, RunStep(c), NEW w \in Chats
    PROVE  Together(w)
  <1> USE DEF RunBecomes
  <1>1. chatCall' = chatCall /\ \E row : workflows' = [workflows EXCEPT ![c] = row]
    BY DEF RunStep, RunOpened, RunPaid, RunSuspended, RunReviewed, RunApproved, RunRejected
  <1>2. workflows \in [Chats -> WorkflowRows]
    BY DEF TypeOK, TablesTyped
  <1>3. CASE RunIsCredited(c) /\ (RunPaid(c) \/ RunApproved(c))
    <2>1. /\ workflows[c].status # "ABSENT"
          /\ workflows[c] \notin {Row("COMPLETED", "credited"), Row("COMPLETED", "approved")}
          /\ workflows'[c] \in {Row("COMPLETED", "credited"), Row("COMPLETED", "approved")}
      BY <1>2, <1>3 DEF RunPaid, RunApproved, Row
    <2>2. PICK k : credits' = credits \cup {k} /\ k.rid = chatCall[c].rid /\ k \notin credits
      BY <1>3 DEF RunIsCredited
    <2>3. CASE w = c
      <3>1. k \in CreditsOf(w)' /\ k \notin CreditsOf(w)
        BY <1>1, <2>2, <2>3 DEF CreditsOf
      <3> QED
        BY <2>1, <2>3, <3>1 DEF Together, Row
    <2>4. CASE w # c
      <3>1. workflows'[w] = workflows[w]
        BY <1>1, <1>2, <2>4
      <3>2. workflows[w].status # "ABSENT" => chatCall[w].rid # chatCall[c].rid
        BY <2>1, <2>4 DEF Consistent, OneRunPerRequest
      <3>3. workflows[w].status # "ABSENT" => CreditsOf(w)' = CreditsOf(w)
        BY <1>1, <2>2, <3>2 DEF CreditsOf
      <3> QED
        BY <3>1, <3>3 DEF Together
    <2> QED
      BY <2>3, <2>4
  <1>4. CASE RunOpened(c) \/ RunSuspended(c) \/ RunReviewed(c) \/ RunRejected(c)
    <2>1. workflows'[c].result \notin {"credited", "approved"} /\ credits' = credits
      BY <1>2, <1>4 DEF RunOpened, RunSuspended, RunReviewed, RunRejected, Row
    <2>2. CreditsOf(w)' = CreditsOf(w)
      BY <1>1, <2>1 DEF CreditsOf
    <2> QED
      BY <1>1, <1>2, <2>1, <2>2 DEF Together
  <1> QED
    BY <1>3, <1>4 DEF RunStep, RunPaid, RunApproved

\* A run gets a paid outcome in exactly the steps that credit its request,
\* whatever is rolled back in between.
THEOREM OutcomesComeWithCredits == Spec => CreditAndOutcomeTogether
  <1>1. TypeOK /\ Consistent /\ Explained /\ [Next]_vars
          => [\A w \in Chats :
                (workflows'[w] # workflows[w] /\ workflows'[w].result \in {"credited", "approved"})
                  <=> (workflows'[w].status # "ABSENT" /\ CreditsOf(w)' # CreditsOf(w))]_vars
    <2> SUFFICES ASSUME TypeOK, Consistent, Explained, [Next]_vars, NEW w \in Chats
                 PROVE  Together(w)
      BY DEF Together
    <2>1. CASE NoRunStep
      <3>1. workflows[w].status # "ABSENT" => CreditsOf(w)' = CreditsOf(w)
        BY <2>1 DEF NoRunStep, CreditsOf
      <3> QED
        BY <2>1, <3>1 DEF NoRunStep, Together
    <2> QED
      BY <2>1, StepsAreRunSteps, RunStepsAreTogether
  <1> QED
    BY <1>1, Typing, Consistency, ExplainedAlways, PTL DEF Spec, CreditAndOutcomeTogether

-----------------------------------------------------------------------------
(***************************************************************************)
(* The ledger.                                                             *)
(***************************************************************************)

\* What the refinement mapping makes of a request: the one run with its id.
MapsRuns ==
    /\ \A w \in Chats : workflows[w].status # "ABSENT" =>
         /\ StageOf(chatCall[w].rid) = StageOfRun(workflows[w])
         /\ OwedOf(chatCall[w].rid) = bill[w].amount
    /\ \A r \in RequestIds :
         (\A w \in Chats : workflows[w].status # "ABSENT" => chatCall[w].rid # r)
           => StageOf(r) = "unknown" /\ OwedOf(r) = 0

LEMMA RunsAreMapped == Consistent => MapsRuns
  <1> SUFFICES ASSUME Consistent
               PROVE  MapsRuns
    OBVIOUS
  <1>1. ASSUME NEW w \in Chats, workflows[w].status # "ABSENT"
        PROVE  RunsOf(chatCall[w].rid) # {} /\ RunOf(chatCall[w].rid) = w
    <2>1. w \in RunsOf(chatCall[w].rid)
      BY <1>1 DEF RunsOf
    <2>2. \A v \in RunsOf(chatCall[w].rid) : v = w
      BY <1>1 DEF RunsOf, Consistent, OneRunPerRequest
    <2> QED
      BY <2>1, <2>2 DEF RunOf
  <1>2. ASSUME NEW r \in RequestIds,
               \A w \in Chats : workflows[w].status # "ABSENT" => chatCall[w].rid # r
        PROVE  RunsOf(r) = {}
    BY <1>2 DEF RunsOf
  <1> QED
    BY <1>1, <1>2 DEF MapsRuns, StageOf, OwedOf

LEMMA RunsAreMappedNext == Consistent' => MapsRuns'
  BY RunsAreMapped, PTL

\* A step of a run leaves the other requests alone.
LEMMA OthersStay ==
    ASSUME TypeOK, Consistent, Consistent', NEW c \in Chats, RunStep(c),
           NEW q \in RequestIds, q # chatCall[c].rid
    PROVE  StageOf(q)' = StageOf(q) /\ OwedOf(q)' = OwedOf(q)
  <1>1. MapsRuns /\ MapsRuns'
    BY RunsAreMapped, RunsAreMappedNext
  <1>2. /\ chatCall' = chatCall /\ bill' = bill
        /\ \A w \in Chats \ {c} : workflows'[w] = workflows[w]
    BY DEF RunStep, RunOpened, RunPaid, RunSuspended, RunReviewed, RunApproved, RunRejected,
           RunBecomes, TypeOK, TablesTyped
  <1>3. ASSUME NEW w \in Chats, workflows[w].status # "ABSENT", chatCall[w].rid = q
        PROVE  StageOf(q)' = StageOf(q) /\ OwedOf(q)' = OwedOf(q)
    <2>1. workflows'[w] = workflows[w] /\ chatCall'[w] = chatCall[w] /\ bill'[w] = bill[w]
      BY <1>2, <1>3
    <2>2. StageOf(q) = StageOfRun(workflows[w]) /\ OwedOf(q) = bill[w].amount
      BY <1>1, <1>3 DEF MapsRuns
    <2>3. StageOf(q)' = StageOfRun(workflows'[w]) /\ OwedOf(q)' = bill'[w].amount
      BY <1>1, <1>3, <2>1 DEF MapsRuns
    <2> QED
      BY <2>1, <2>2, <2>3
  <1>4. CASE \A w \in Chats : workflows[w].status # "ABSENT" => chatCall[w].rid # q
    <2>1. \A w \in Chats : workflows'[w].status # "ABSENT" => chatCall'[w].rid # q
      BY <1>2, <1>4
    <2>2. StageOf(q) = "unknown" /\ OwedOf(q) = 0
      BY <1>1, <1>4 DEF MapsRuns
    <2>3. StageOf(q)' = "unknown" /\ OwedOf(q)' = 0
      BY <1>1, <2>1 DEF MapsRuns
    <2> QED
      BY <2>2, <2>3
  <1> QED
    BY <1>3, <1>4

\* A step of no recorded run leaves the ledger alone.
LEMMA NoRunStepStutters ==
    ASSUME TypeOK, Consistent, Consistent', NoRunStep
    PROVE  UNCHANGED Ledger!ledger
  <1>1. MapsRuns /\ MapsRuns'
    BY RunsAreMapped, RunsAreMappedNext
  <1>2. ASSUME NEW q \in RequestIds
        PROVE  StageOf(q)' = StageOf(q) /\ OwedOf(q)' = OwedOf(q)
    <2>1. ASSUME NEW w \in Chats, workflows[w].status # "ABSENT", chatCall[w].rid = q
          PROVE  StageOf(q)' = StageOf(q) /\ OwedOf(q)' = OwedOf(q)
      <3>1. workflows'[w] = workflows[w] /\ chatCall'[w] = chatCall[w] /\ bill'[w] = bill[w]
        BY <2>1 DEF NoRunStep
      <3>2. StageOf(q) = StageOfRun(workflows[w]) /\ OwedOf(q) = bill[w].amount
        BY <1>1, <2>1 DEF MapsRuns
      <3>3. StageOf(q)' = StageOfRun(workflows'[w]) /\ OwedOf(q)' = bill'[w].amount
        BY <1>1, <2>1, <3>1 DEF MapsRuns
      <3> QED
        BY <3>1, <3>2, <3>3
    <2>2. CASE \A w \in Chats : workflows[w].status # "ABSENT" => chatCall[w].rid # q
      <3>1. \A w \in Chats : workflows'[w].status # "ABSENT" => chatCall'[w].rid # q
        BY <2>2 DEF NoRunStep
      <3>2. StageOf(q) = "unknown" /\ OwedOf(q) = 0
        BY <1>1, <2>2 DEF MapsRuns
      <3>3. StageOf(q)' = "unknown" /\ OwedOf(q)' = 0
        BY <1>1, <3>1 DEF MapsRuns
      <3> QED
        BY <3>2, <3>3
    <2> QED
      BY <2>1, <2>2
  <1>3. Payments' = Payments
    BY DEF NoRunStep, Payments
  <1> QED
    BY <1>2, <1>3 DEF Ledger!ledger

\* A step of a run is a step of the ledger.
LEMMA RunStepsAreLedgerSteps ==
    ASSUME TypeOK, Consistent, Consistent', NEW c \in Chats, RunStep(c)
    PROVE  Ledger!LedgerNext
  <1> DEFINE stage == [r \in RequestIds |-> StageOf(r)]
             owed  == [r \in RequestIds |-> OwedOf(r)]
  <1>1. PICK r \in RequestIds : r = chatCall[c].rid /\ r = chatCall'[c].rid
    BY DEF RunStep, RunOpened, RunPaid, RunSuspended, RunReviewed, RunApproved, RunRejected,
           RunBecomes, TypeOK, InputsTyped
  <1>2. PICK row : RunBecomes(c, row) /\ row.status # "ABSENT"
    BY DEF RunStep, RunOpened, RunPaid, RunSuspended, RunReviewed, RunApproved, RunRejected, Row
  <1>3. workflows'[c] = row /\ bill' = bill /\ bill[c].amount \in Int
    BY <1>2 DEF RunBecomes, TypeOK, TablesTyped, InputsTyped
  <1>4. StageOf(r)' = StageOfRun(row) /\ OwedOf(r)' = bill[c].amount
    BY <1>1, <1>2, <1>3, RunsAreMappedNext DEF MapsRuns
  <1>5. stage' = [stage EXCEPT ![r] = StageOfRun(row)]
    BY <1>1, <1>4, OthersStay
  <1>6. owed' = [owed EXCEPT ![r] = bill[c].amount]
    BY <1>1, <1>4, OthersStay
  <1>7. ASSUME workflows[c].status # "ABSENT"
        PROVE  stage[r] = StageOfRun(workflows[c]) /\ owed[r] = bill[c].amount /\ owed' = owed
    <2>1. StageOf(r) = StageOfRun(workflows[c]) /\ OwedOf(r) = bill[c].amount
      BY <1>1, <1>7, RunsAreMapped DEF MapsRuns
    <2>2. owed[r] = bill[c].amount
      BY <2>1
    <2> QED
      BY <1>6, <2>1, <2>2
  <1>8. credits' = credits => Payments' = Payments
    BY DEF Payments
  <1>9. RunIsCredited(c) =>
          /\ \A p \in Payments : p.rid # r
          /\ Payments' = Payments \cup {[rid |-> r, amount |-> bill[c].amount]}
    BY <1>1 DEF RunIsCredited, Payments
  <1> USE DEF Ledger!Move, Ledger!Pay
  <1>10. CASE RunOpened(c)
    <2>1. stage[r] = "unknown"
      <3>1. \A w \in Chats : workflows[w].status # "ABSENT" => chatCall[w].rid # r
        BY <1>1, <1>10 DEF RunOpened, RequestTaken
      <3> QED
        BY <3>1, RunsAreMapped DEF MapsRuns
    <2>2. StageOfRun(row) = "evaluated"
      BY <1>3, <1>10 DEF RunOpened, RunBecomes, StageOfRun, Row, TypeOK, TablesTyped
    <2>3. owed'[r] = bill[c].amount
      BY <1>6
    <2>4. owed'[r] \in Int /\ owed' = [owed EXCEPT ![r] = owed'[r]]
      BY <1>3, <1>6, <2>3
    <2>5. Payments' = Payments
      BY <1>8, <1>10 DEF RunOpened
    <2> QED
      BY <1>5, <2>1, <2>2, <2>4, <2>5 DEF Ledger!LedgerNext, Ledger!Open
  <1>11. CASE RunPaid(c)
    <2>1. workflows[c].status = "EVALUATED" /\ StageOfRun(workflows[c]) = "evaluated"
      BY <1>11 DEF RunPaid, StageOfRun, Row
    <2>2. StageOfRun(row) = "paid"
      BY <1>3, <1>11 DEF RunPaid, RunBecomes, StageOfRun, Row, TypeOK, TablesTyped
    <2>3. Decision(owed[r]) = "AUTO_CREDIT" /\ owed' = owed /\ stage[r] = "evaluated"
      BY <1>7, <1>11, <2>1 DEF RunPaid
    <2>4. Ledger!Pay(r)
      BY <1>7, <1>9, <1>11, <2>1 DEF RunPaid
    <2> QED
      BY <1>5, <2>2, <2>3, <2>4 DEF Ledger!LedgerNext, Ledger!PayAtOnce, Ledger!Decision, Decision
  <1>12. CASE RunSuspended(c)
    <2>1. workflows[c].status = "EVALUATED" /\ StageOfRun(workflows[c]) = "evaluated"
      BY <1>12 DEF RunSuspended, StageOfRun, Row
    <2>2. StageOfRun(row) = "waiting"
      BY <1>3, <1>12 DEF RunSuspended, RunBecomes, StageOfRun, Row, TypeOK, TablesTyped
    <2>3. Decision(owed[r]) = "HUMAN_APPROVAL" /\ owed' = owed /\ stage[r] = "evaluated"
      BY <1>7, <1>12, <2>1 DEF RunSuspended
    <2>4. Payments' = Payments
      BY <1>8, <1>12 DEF RunSuspended
    <2> QED
      BY <1>5, <2>2, <2>3, <2>4 DEF Ledger!LedgerNext, Ledger!Suspend, Ledger!Decision, Decision
  <1>13. CASE RunReviewed(c)
    <2>1. workflows[c].status = "EVALUATED" /\ StageOfRun(workflows[c]) = "evaluated"
      BY <1>13 DEF RunReviewed, StageOfRun, Row
    <2>2. StageOfRun(row) = "reviewed"
      BY <1>3, <1>13 DEF RunReviewed, RunBecomes, StageOfRun, Row, TypeOK, TablesTyped
    <2>3. /\ Decision(owed[r]) \in {"NO_ACTION", "MANUAL_INVESTIGATION"}
          /\ owed' = owed /\ stage[r] = "evaluated"
      BY <1>7, <1>13, <2>1 DEF RunReviewed
    <2>4. Payments' = Payments
      BY <1>8, <1>13 DEF RunReviewed
    <2> QED
      BY <1>5, <2>2, <2>3, <2>4 DEF Ledger!LedgerNext, Ledger!Review, Ledger!Decision, Decision
  <1>14. CASE RunApproved(c)
    <2>1. workflows[c].status # "ABSENT" /\ StageOfRun(workflows[c]) \in {"waiting", "rejected"}
      BY <1>14 DEF RunApproved, StageOfRun, Row
    <2>2. StageOfRun(row) = "approved"
      BY <1>3, <1>14 DEF RunApproved, RunBecomes, StageOfRun, Row, TypeOK, TablesTyped
    <2>3. owed' = owed /\ stage[r] \in {"waiting", "rejected"}
      BY <1>7, <2>1
    <2>4. Ledger!Pay(r)
      BY <1>7, <1>9, <1>14, <2>1 DEF RunApproved
    <2> QED
      BY <1>5, <2>2, <2>3, <2>4 DEF Ledger!LedgerNext, Ledger!Approve
  <1>15. CASE RunRejected(c)
    <2>1. /\ workflows[c].status # "ABSENT"
          /\ StageOfRun(workflows[c]) \in {"waiting", "approved", "rejected"}
      BY <1>15 DEF RunRejected, StageOfRun, Row, DecidedRow
    <2>2. StageOfRun(row) = "rejected"
      BY <1>3, <1>15 DEF RunRejected, RunBecomes, StageOfRun, Row, TypeOK, TablesTyped
    <2>3. owed' = owed /\ stage[r] \in {"waiting", "approved", "rejected"}
      BY <1>7, <2>1
    <2>4. Payments' = Payments
      BY <1>8, <1>15 DEF RunRejected
    <2> QED
      BY <1>5, <2>2, <2>3, <2>4 DEF Ledger!LedgerNext, Ledger!Reject
  <1> QED
    BY <1>10, <1>11, <1>12, <1>13, <1>14, <1>15 DEF RunStep

LEMMA InitIsLedgerInit == Init => Ledger!LedgerInit
  <1> SUFFICES ASSUME Init
               PROVE  Ledger!LedgerInit
    OBVIOUS
  <1>1. \A r \in RequestIds : RunsOf(r) = {}
    BY DEF Init, RunsOf, Row
  <1>2. Payments = {}
    BY DEF Init, Payments
  <1> QED
    BY <1>1, <1>2 DEF Ledger!LedgerInit, StageOf, OwedOf

\* The billing agent with all its handlers, transactions and failures is an
\* implementation of the ledger: every step opens, pays, suspends, reviews,
\* approves or rejects one request as the ledger allows, or does nothing to it.
THEOREM WorkflowImplementsLedger == Spec => ImplementsLedger
  <1>1. /\ TypeOK /\ Consistent /\ Explained /\ Consistent' /\ [Next]_vars
          => [Ledger!LedgerNext]_(Ledger!ledger)
    BY StepsAreRunSteps, NoRunStepStutters, RunStepsAreLedgerSteps
  <1> QED
    BY <1>1, InitIsLedgerInit, Typing, Consistency, ExplainedAlways, PTL
    DEF Spec, ImplementsLedger, Ledger!LedgerSpec

-----------------------------------------------------------------------------
(***************************************************************************)
(* Verdicts.                                                               *)
(***************************************************************************)
LEMMA SettledStays ==
    ASSUME TypeOK, TypeOK', Consistent, Explained, [Next]_vars, NEW a \in Chats, Settled(a)
    PROVE  /\ Settled(a)'
           /\ approvals'[a] = approvals[a]
           /\ workflows'[a] = workflows[a]
           /\ CreditsOf(a)' = CreditsOf(a)
  <1>1. approvals[a] # "ABSENT" /\ pc[a] = "done" /\ workflows[a].status # "ABSENT"
    <2>1. approvals[a] # "ABSENT"
      BY DEF Settled, Explained, ApprovalsMatchRuns
    <2>2. pc[a] = "done"
      BY <2>1, RequestedChatsAreOver
    <2>3. workflows[a].status # "ABSENT"
      BY <2>1 DEF Consistent, RunStages, TypeOK, TablesTyped, ApprovalStatus
    <2> QED
      BY <2>1, <2>2, <2>3
  <1>2. chatCall'[a] = chatCall[a]
    BY <1>1, InputsStay
  <1>3. ASSUME NEW d \in Decisions, DecisionCommit(d)
        PROVE  WorkflowOf(d) # a /\ WorkflowOf(d) \in Chats
    <2>1. pc[d] \in {"commit_approved", "commit_rejected"}
      BY <1>3 DEF DecisionCommit, CommitApproved, CommitRejected
    <2> QED
      BY <2>1, DecidedRuns DEF Settled, Overlapping
  <1>4. ASSUME NEW c \in Chats, ChatCommit(c)
        PROVE  c # a
    BY <1>1, <1>4 DEF ChatCommit, CommitEvaluated, CommitCredit, CommitWaiting, CommitReview
  <1>5. approvals'[a] = approvals[a] /\ workflows'[a] = workflows[a]
    <2>1. ASSUME NEW c \in Chats, ChatCommit(c)
          PROVE  approvals'[a] = approvals[a] /\ workflows'[a] = workflows[a]
      BY <1>4, <2>1 DEF ChatCommit, CommitEvaluated, CommitCredit, CommitWaiting, CommitReview,
                        TypeOK, TablesTyped
    <2>2. ASSUME NEW d \in Decisions, DecisionCommit(d)
          PROVE  approvals'[a] = approvals[a] /\ workflows'[a] = workflows[a]
      BY <1>3, <2>2 DEF DecisionCommit, CommitApproved, CommitRejected, TypeOK, TablesTyped
    <2> QED
      BY <2>1, <2>2, TablesChangeAtCommits DEF money
  <1>6. CreditsOf(a)' = CreditsOf(a)
    <2>1. CASE credits' = credits
      BY <1>2, <2>1 DEF CreditsOf
    <2>2. ASSUME NEW c \in Chats \ {a}, RunStep(c)
          PROVE  CreditsOf(a)' = CreditsOf(a)
      <3>1. CASE RunIsCredited(c) /\ workflows[c].status # "ABSENT"
        <4>1. PICK k : credits' = credits \cup {k} /\ k.rid = chatCall[c].rid
          BY <3>1 DEF RunIsCredited
        <4>2. chatCall[c].rid # chatCall[a].rid
          BY <1>1, <3>1 DEF Consistent, OneRunPerRequest
        <4> QED
          BY <1>2, <4>1, <4>2 DEF CreditsOf
      <3> QED
        BY <2>1, <2>2, <3>1 DEF RunStep, RunOpened, RunPaid, RunSuspended, RunReviewed,
                                RunApproved, RunRejected, Row
    <2> QED
      BY <1>3, <1>4, <2>1, <2>2, TablesChangeAtCommits, ChatCommitsAreRunSteps,
         DecisionCommitsAreRunSteps DEF money
  <1>7. ASSUME NEW d \in Decisions, pc'[d] \in Overlapping
        PROVE  decisionCall'[d].approval # a
    <2>0. d \in Handlers /\ pc[d] \in DecisionPlaces /\ WorkflowOf(d) = decisionCall[d].approval
      BY HandlersDiffer DEF TypeOK, HandlersTyped, Handlers, WorkflowOf
    <2>1. pc[d] \in Overlapping \/ (pc[d] = "load" /\ pc'[d] = "decide")
      <3>1. ASSUME NEW h \in Handlers,
                   (h \in Chats /\ ChatCommit(h)) \/ (h \in Decisions /\ DecisionCommit(h))
            PROVE  pc[d] \in Overlapping
        <4>1. CASE h = d
          BY <2>0, <3>1, <4>1, HandlersDiffer
          DEF DecisionCommit, CommitApproved, CommitRejected, Overlapping
        <4>2. CASE h # d
          BY <1>7, <2>0, <3>1, <4>2, CommitsLeaveInputs
        <4> QED
          BY <4>1, <4>2
      <3>2. CASE (\A c \in Chats : ~ ChatCommit(c)) /\ (\A e \in Decisions : ~ DecisionCommit(e))
        BY <1>7, <2>0, <3>2, QuietSteps DEF QuietMove, Overlapping, DecisionPlaces
      <3> QED
        BY <3>1, <3>2 DEF Handlers
    <2>2. decisionCall'[d] = decisionCall[d]
      BY <2>1, InputsStay DEF Overlapping
    <2>3. pc[d] = "load" /\ pc'[d] = "decide" => decisionCall[d].approval # a
      BY <2>0, GoingOn DEF Settled
    <2> QED
      BY <2>1, <2>2, <2>3 DEF Settled
  <1>8. Settled(a)'
    BY <1>5, <1>7, LapsedWasPending DEF Settled
  <1> QED
    BY <1>5, <1>6, <1>8

\* Once a request is decided or past its time, and no decision that had read it
\* before is still running, its status, its run and its credit never change.
THEOREM VerdictsAreFinal == Spec => VerdictsSettle
  <1>1. TypeOK /\ TypeOK' /\ Consistent /\ Explained /\ [Next]_vars
          => [\A a \in Chats : Settled(a) =>
                /\ Settled(a)'
                /\ approvals'[a] = approvals[a]
                /\ workflows'[a] = workflows[a]
                /\ CreditsOf(a)' = CreditsOf(a)]_vars
    BY SettledStays
  <1> QED
    BY <1>1, Typing, Consistency, ExplainedAlways, PTL DEF Spec, VerdictsSettle
=============================================================================
