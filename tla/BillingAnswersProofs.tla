------------------------ MODULE BillingAnswersProofs ------------------------
(***************************************************************************)
(* What the customer and the callers are told is true of the tables, then  *)
(* and ever after, for any number of chats and decisions.                  *)
(***************************************************************************)
EXTENDS WorkflowLedgerProofs

\* What an answer promises, as in AnswersMatchTheDatabase; only a chat waits.
Promise(h, r) ==
    /\ r \in {"credited", "approved"} => \E k \in credits : k.by = h
    /\ r = "waiting" => h \in Chats /\ approvals[h] # "ABSENT"
    /\ r = "conflict" =>
         IF h \in Chats
           THEN \E w \in Chats \ {h} : /\ workflows[w].status # "ABSENT"
                                      /\ chatCall[w].rid = chatCall[h].rid
           ELSE approvals[WorkflowOf(h)] \in {"APPROVED", "REJECTED"}

\* What a mail of a decision promises, as in DecisionMailAfterCommit.
Committed(kind, w, d) ==
    /\ kind = "approved" => \E k \in credits : k.by = d
    /\ kind = "rejected" => Audit("APPROVAL_REJECTED", w, d) \in audits

\* Whoever has been answered was answered truly.
AnswersAreTrue ==
    \A h \in Handlers : reply[h] # "none" => pc[h] = "done" /\ Promise(h, reply[h])

MailIsTrue == \A m \in mail : Committed(m.kind, m.workflow, m.by)

\* A decision that is about to tell the customer has committed what it tells.
DecisionsCommitFirst ==
    \A d \in Decisions :
        /\ pc[d] \in {"reject", "commit_rejected"} => decisionCall[d].verdict # "approve"
        /\ pc[d] = "notify" => Committed(Outcome(d), WorkflowOf(d), d)

\* A key in the table is the key of a run that is completed.
KeysHaveRuns ==
    \A key \in keys : \E w \in Chats : workflows[w].status = "COMPLETED" /\ KeyOf(w) = key

Told == AnswersAreTrue /\ MailIsTrue /\ DecisionsCommitFirst /\ KeysHaveRuns

-----------------------------------------------------------------------------
(***************************************************************************)
(* What was promised stays.                                                *)
(***************************************************************************)

\* No record a promise is about is taken back.
LEMMA RecordsStay ==
    ASSUME TypeOK, Consistent, [Next]_vars
    PROVE  /\ credits \subseteq credits'
           /\ audits \subseteq audits'
           /\ \A a \in Chats :
                /\ approvals[a] # "ABSENT" => approvals'[a] # "ABSENT"
                /\ approvals[a] \in {"APPROVED", "REJECTED"}
                     => approvals'[a] \in {"APPROVED", "REJECTED"}
  <1>1. credits \subseteq credits'
    BY PaymentSteps
  <1>2. ASSUME NEW a \in Chats
        PROVE  /\ approvals[a] # "ABSENT" => approvals'[a] # "ABSENT"
               /\ approvals[a] \in {"APPROVED", "REJECTED"}
                    => approvals'[a] \in {"APPROVED", "REJECTED"}
    <2>1. CASE approvals' = approvals
      BY <2>1
    <2>2. ASSUME NEW c \in Chats, ChatCommit(c), approvals' # approvals
          PROVE  /\ approvals[a] # "ABSENT" => approvals'[a] # "ABSENT"
                 /\ approvals[a] \in {"APPROVED", "REJECTED"}
                      => approvals'[a] \in {"APPROVED", "REJECTED"}
      <3>1. pc[c] = "commit_waiting" /\ approvals' = [approvals EXCEPT ![c] = "PENDING"]
        BY <2>2 DEF ChatCommit, CommitEvaluated, CommitCredit, CommitWaiting, CommitReview
      <3>2. approvals[c] = "ABSENT"
        BY <3>1 DEF Consistent, RunStages, Underway
      <3> QED
        BY <3>1, <3>2 DEF TypeOK, TablesTyped
    <2>3. ASSUME NEW d \in Decisions, DecisionCommit(d)
          PROVE  /\ approvals[a] # "ABSENT" => approvals'[a] # "ABSENT"
                 /\ approvals[a] \in {"APPROVED", "REJECTED"}
                      => approvals'[a] \in {"APPROVED", "REJECTED"}
      <3>1. \E s \in {"APPROVED", "REJECTED"} :
                 approvals' = [approvals EXCEPT ![WorkflowOf(d)] = s]
        BY <2>3 DEF DecisionCommit, CommitApproved, CommitRejected
      <3> QED
        BY <3>1 DEF TypeOK, TablesTyped
    <2> QED
      BY <2>1, <2>2, <2>3, TablesChangeAtCommits DEF money
  <1> QED
    BY <1>1, <1>2, AuditsGrow

\* A handler that has arrived keeps what it works on.
LEMMA WorkStays ==
    ASSUME TypeOK, [Next]_vars, NEW h \in Handlers, pc[h] # "idle"
    PROVE  /\ WorkflowOf(h) \in Chats
           /\ WorkflowOf(h)' = WorkflowOf(h)
           /\ h \in Chats => chatCall'[h] = chatCall[h]
           /\ h \in Decisions => decisionCall'[h] = decisionCall[h]
  BY HandlerIsTyped, InputsStay DEF Handlers, WorkflowOf

LEMMA PromisesStay ==
    ASSUME TypeOK, Consistent, [Next]_vars, NEW h \in Handlers, pc[h] # "idle",
           NEW r, Promise(h, r)
    PROVE  Promise(h, r)'
  <1>1. r \in {"credited", "approved"} => \E k \in credits' : k.by = h
    BY RecordsStay DEF Promise
  <1>2. r = "waiting" => h \in Chats /\ approvals'[h] # "ABSENT"
    BY RecordsStay DEF Promise
  <1>3. ASSUME r = "conflict", h \in Chats
        PROVE  \E w \in Chats \ {h} : /\ workflows'[w].status # "ABSENT"
                                     /\ chatCall'[w].rid = chatCall'[h].rid
    <2>1. PICK w \in Chats \ {h} : /\ workflows[w].status # "ABSENT"
                                   /\ chatCall[w].rid = chatCall[h].rid
      BY <1>3 DEF Promise
    <2>2. workflows'[w].status # "ABSENT" /\ chatCall'[w] = chatCall[w]
      BY <2>1, RecordedRunsStay DEF Consistent
    <2> QED
      BY <1>3, <2>1, <2>2, WorkStays
  <1>4. ASSUME r = "conflict", h \notin Chats
        PROVE  approvals'[WorkflowOf(h)'] \in {"APPROVED", "REJECTED"}
    BY <1>4, RecordsStay, WorkStays DEF Promise
  <1> QED
    BY <1>1, <1>2, <1>3, <1>4 DEF Promise

LEMMA CommitmentsStay ==
    ASSUME TypeOK, Consistent, [Next]_vars, NEW kind, NEW w, NEW d, Committed(kind, w, d)
    PROVE  Committed(kind, w, d)'
  BY RecordsStay DEF Committed, Audit

\* A handler that finds its idempotency key in the table finds its request
\* decided already: another run has it, or its approval is completed.
LEMMA UsedKeysAreConflicts ==
    ASSUME TypeOK, Consistent, KeysHaveRuns, NEW h \in Handlers,
           pc[h] = "check_key", KeyOf(h) \in keys
    PROVE  Promise(h, "conflict")
  <1>1. PICK w \in Chats : workflows[w].status = "COMPLETED" /\ KeyOf(w) = KeyOf(h)
    BY DEF KeysHaveRuns
  <1>2. WorkflowOf(h) \in Chats /\ chatCall[w].rid = chatCall[WorkflowOf(h)].rid
    BY <1>1, HandlerIsTyped DEF KeyOf, RidOf, WorkflowOf
  <1>3. CASE h \in Chats
    <2>1. workflows[h].status = "EVALUATED"
      BY <1>3 DEF Consistent, RunStages, Underway
    <2>2. w # h /\ workflows[w].status # "ABSENT" /\ chatCall[w].rid = chatCall[h].rid
      BY <1>1, <1>2, <1>3, <2>1 DEF WorkflowOf
    <2> QED
      BY <1>3, <2>2 DEF Promise
  <1>4. CASE h \notin Chats
    <2>1. h \in Decisions
      BY <1>4 DEF Handlers
    <2>2. approvals[WorkflowOf(h)] \in {"PENDING", "APPROVED", "REJECTED"}
      BY <1>2, <1>4, <2>1
         DEF Consistent, DecisionsHaveApprovals, TypeOK, TablesTyped, ApprovalStatus, WorkflowOf
    <2>3. workflows[WorkflowOf(h)].status # "ABSENT"
      BY <2>1, HandlersHaveRuns DEF Consistent
    <2>4. w = WorkflowOf(h)
      BY <1>1, <1>2, <2>3 DEF Consistent, OneRunPerRequest
    <2>5. approvals[WorkflowOf(h)] # "PENDING"
      BY <1>1, <1>2, <2>4 DEF Consistent, RunStages
    <2> QED
      BY <1>4, <2>2, <2>5 DEF Promise
  <1> QED
    BY <1>3, <1>4

-----------------------------------------------------------------------------
(***************************************************************************)
(* What is told anew is true.                                              *)
(***************************************************************************)
LEMMA AnsweredOnce ==
    ASSUME TypeOK, NEW g \in Handlers, NEW r, Answer(g, r), NEW h \in Handlers,
           reply'[h] # reply[h]
    PROVE  g = h /\ reply'[h] = r /\ pc'[h] = "done"
  BY DEF Answer, Goto, TypeOK, HandlersTyped

\* An answer of a chat.
LEMMA ChatAnswersAreTrue ==
    ASSUME TypeOK, Consistent, Told, [Next]_vars, NEW c \in Chats, ChatStep(c)
    PROVE  UNCHANGED reply \/ \E r : Answer(c, r) /\ pc[c] # "idle" /\ Promise(c, r)'
  <1>0. c \in Handlers
    BY DEF Handlers
  <1>1. ASSUME RefuseAnalysis(c) \/ InsertKey(c) \/ InsertCredit(c) \/ CommitReview(c)
        PROVE  UNCHANGED reply \/ \E r : Answer(c, r) /\ pc[c] # "idle" /\ Promise(c, r)'
    <2>1. \/ UNCHANGED reply
          \/ pc[c] # "idle" /\ \E r \in {"unavailable", "invalid", "integrity_error", "reviewed"} :
                                   Answer(c, r)
      BY <1>1 DEF RefuseAnalysis, InsertKey, InsertCredit, CommitReview
    <2> QED
      BY <2>1 DEF Promise
  <1>2. ASSUME RefuseDuplicate(c)
        PROVE  \E r : Answer(c, r) /\ pc[c] # "idle" /\ Promise(c, r)'
    <2>1. PICK w \in Chats : workflows[w].status # "ABSENT" /\ chatCall[w].rid = chatCall[c].rid
      BY <1>2 DEF RefuseDuplicate, RequestTaken, RidOf, WorkflowOf
    <2>2. w # c
      BY <1>2, <2>1 DEF RefuseDuplicate, Consistent, RunStages, Unrecorded
    <2>3. Promise(c, DuplicateReply)
      BY <2>1, <2>2 DEF Promise, DuplicateReply
    <2>4. pc[c] # "idle" /\ Answer(c, DuplicateReply)
      BY <1>2 DEF RefuseDuplicate
    <2>5. Promise(c, DuplicateReply)'
      BY <1>0, <2>3, <2>4, PromisesStay DEF DuplicateReply
    <2> QED
      BY <2>4, <2>5
  <1>3. ASSUME CheckKey(c)
        PROVE  UNCHANGED reply \/ \E r : Answer(c, r) /\ pc[c] # "idle" /\ Promise(c, r)'
    <2>1. UNCHANGED reply \/ (pc[c] = "check_key" /\ KeyOf(c) \in keys /\ Answer(c, "conflict"))
      BY <1>3 DEF CheckKey
    <2> QED
      BY <1>0, <2>1, UsedKeysAreConflicts, PromisesStay DEF Told
  <1>4. ASSUME CommitCredit(c)
        PROVE  Answer(c, "credited") /\ pc[c] # "idle" /\ Promise(c, "credited")'
    <2>1. Answer(c, "credited") /\ pc[c] # "idle" /\ CreditOf(c) \in credits'
      BY <1>4 DEF CommitCredit
    <2>2. CreditOf(c).by = c
      BY DEF CreditOf
    <2> QED
      BY <2>1, <2>2 DEF Promise
  <1>5. ASSUME CommitWaiting(c)
        PROVE  Answer(c, "waiting") /\ pc[c] # "idle" /\ Promise(c, "waiting")'
    BY <1>5 DEF CommitWaiting, Promise, TypeOK, TablesTyped
  <1>6. ASSUME Evaluate(c) \/ CommitEvaluated(c) \/ CompleteCredit(c) \/ RequestApproval(c)
                 \/ Review(c)
        PROVE  UNCHANGED reply
    BY <1>6 DEF Evaluate, CommitEvaluated, CompleteCredit, RequestApproval, Review
  <1> QED
    BY <1>1, <1>2, <1>3, <1>4, <1>5, <1>6 DEF ChatStep

\* An answer to a decision.
LEMMA DecisionAnswersAreTrue ==
    ASSUME TypeOK, Consistent, Told, [Next]_vars, NEW d \in Decisions, DecisionStep(d)
    PROVE  UNCHANGED reply \/ \E r : Answer(d, r) /\ pc[d] # "idle" /\ Promise(d, r)'
  <1>0. d \in Handlers /\ d \notin Chats
    BY HandlersDiffer DEF Handlers
  <1>1. ASSUME RaiseExpired(d) \/ InsertKey(d) \/ InsertCredit(d)
        PROVE  UNCHANGED reply \/ \E r : Answer(d, r) /\ pc[d] # "idle" /\ Promise(d, r)'
    <2>1. \/ UNCHANGED reply
          \/ pc[d] # "idle" /\ \E r \in {"invalid", "integrity_error"} : Answer(d, r)
      BY <1>1 DEF RaiseExpired, InsertKey, InsertCredit
    <2> QED
      BY <2>1 DEF Promise
  <1>2. ASSUME LoadApproval(d)
        PROVE  UNCHANGED reply \/ \E r : Answer(d, r) /\ pc[d] # "idle" /\ Promise(d, r)'
    <2>1. /\ pc[d] # "idle"
          /\ \/ UNCHANGED reply
             \/ Answer(d, "not_found")
             \/ Answer(d, "conflict") /\ approvals[WorkflowOf(d)] \in {"APPROVED", "REJECTED"}
      BY <1>2 DEF LoadApproval
    <2>2. Promise(d, "not_found")'
      BY DEF Promise
    <2>3. approvals[WorkflowOf(d)] \in {"APPROVED", "REJECTED"} => Promise(d, "conflict")
      BY <1>0 DEF Promise
    <2> QED
      BY <1>0, <2>1, <2>2, <2>3, PromisesStay
  <1>3. ASSUME CheckKey(d)
        PROVE  UNCHANGED reply \/ \E r : Answer(d, r) /\ pc[d] # "idle" /\ Promise(d, r)'
    <2>1. UNCHANGED reply \/ (pc[d] = "check_key" /\ KeyOf(d) \in keys /\ Answer(d, "conflict"))
      BY <1>3 DEF CheckKey
    <2> QED
      BY <1>0, <2>1, UsedKeysAreConflicts, PromisesStay DEF Told
  <1>4. ASSUME Notify(d)
        PROVE  \E r : Answer(d, r) /\ pc[d] # "idle" /\ Promise(d, r)'
    <2>1. PICK r : r = Outcome(d)
      OBVIOUS
    <2>2. pc[d] = "notify" /\ Answer(d, r) /\ Committed(r, WorkflowOf(d), d)
      BY <1>4, <2>1 DEF Notify, Told, DecisionsCommitFirst
    <2>3. Promise(d, r)
      BY <1>0, <2>1, <2>2 DEF Promise, Committed, Outcome
    <2>4. Promise(d, r)'
      BY <1>0, <2>2, <2>3, PromisesStay
    <2> QED
      BY <2>2, <2>4
  <1>5. ASSUME ExpireFlush(d) \/ Decide(d) \/ Grant(d) \/ CommitApproved(d) \/ Reject(d)
                 \/ CommitRejected(d)
        PROVE  UNCHANGED reply
    BY <1>5 DEF ExpireFlush, Decide, Grant, CommitApproved, Reject, CommitRejected
  <1> QED
    BY <1>1, <1>2, <1>3, <1>4, <1>5 DEF DecisionStep

\* What is over stays over.
LEMMA DoneStays ==
    ASSUME TypeOK, [Next]_vars, NEW h \in Handlers, pc[h] = "done"
    PROVE  pc'[h] = "done"
  <1>1. ASSUME NEW g \in Handlers,
               (g \in Chats /\ ChatCommit(g)) \/ (g \in Decisions /\ DecisionCommit(g))
        PROVE  pc'[h] = "done"
    <2>1. pc[g] # "done"
      BY <1>1 DEF ChatCommit, DecisionCommit, CommitEvaluated, CommitCredit, CommitWaiting,
                  CommitReview, CommitApproved, CommitRejected
    <2> QED
      BY <1>1, <2>1, CommitsLeaveInputs
  <1>2. ASSUME \A c \in Chats : ~ ChatCommit(c), \A d \in Decisions : ~ DecisionCommit(d)
        PROVE  pc'[h] = "done"
    BY <1>2, QuietSteps DEF QuietMove
  <1> QED
    BY <1>1, <1>2 DEF Handlers

LEMMA AnswersStayTrue ==
    ASSUME TypeOK, Consistent, Told, [Next]_vars
    PROVE  AnswersAreTrue'
  <1> SUFFICES ASSUME NEW h \in Handlers, NEW told, told = reply'[h], told # "none"
               PROVE  pc'[h] = "done" /\ Promise(h, told)'
    BY DEF AnswersAreTrue, Promise
  <1>1. CASE reply'[h] = reply[h]
    BY <1>1, DoneStays, PromisesStay DEF Told, AnswersAreTrue, Promise
  <1>2. CASE reply'[h] # reply[h]
    <2>1. ASSUME NEW g \in Handlers, \E s : Answer(g, s) /\ Promise(g, s)'
          PROVE  pc'[h] = "done" /\ Promise(h, told)'
      <3>1. PICK s : Answer(g, s) /\ Promise(g, s)'
        BY <2>1
      <3>2. g = h /\ s = told /\ pc'[h] = "done"
        BY <1>2, <3>1, AnsweredOnce
      <3> QED
        BY <3>1, <3>2
    <2>2. ASSUME NEW c \in Chats, ReceiveChat(c) \/ ChatStep(c) \/ Lapse(c)
          PROVE  \E r : Answer(c, r) /\ Promise(c, r)'
      BY <1>2, <2>2, ChatAnswersAreTrue DEF ReceiveChat, Lapse
    <2>3. ASSUME NEW d \in Decisions, ReceiveDecision(d) \/ DecisionStep(d)
          PROVE  \E r : Answer(d, r) /\ Promise(d, r)'
      BY <1>2, <2>3, DecisionAnswersAreTrue DEF ReceiveDecision
    <2>4. ASSUME NEW g \in Handlers, Abort(g)
          PROVE  \E r : Answer(g, r) /\ Promise(g, r)'
      <3>1. Promise(g, "failure")'
        BY DEF Promise
      <3> QED
        BY <2>4, <3>1 DEF Abort
    <2>5. ~ UNCHANGED vars
      BY <1>2 DEF vars
    <2> QED
      BY <2>1, <2>2, <2>3, <2>4, <2>5 DEF Next, Quiescent, Handlers
  <1> QED
    BY <1>1, <1>2

\* Mails are added by the completion of a credit and after a decision.
LEMMA NewMails ==
    ASSUME [Next]_vars, NEW m \in mail' \ mail
    PROVE  \/ m.kind = "credited"
           \/ \E d \in Decisions :
                /\ pc[d] = "notify"
                /\ m = [kind |-> Outcome(d), workflow |-> WorkflowOf(d), by |-> d]
  <1>1. ASSUME NEW c \in Chats, ReceiveChat(c) \/ ChatStep(c) \/ Lapse(c)
        PROVE  m.kind = "credited"
    BY <1>1 DEF ChatStep, ReceiveChat, Lapse, RefuseAnalysis, Evaluate, RefuseDuplicate,
                CommitEvaluated, CheckKey, InsertKey, InsertCredit, CompleteCredit, CommitCredit,
                RequestApproval, CommitWaiting, Review, CommitReview
  <1>2. ASSUME NEW d \in Decisions, ReceiveDecision(d) \/ DecisionStep(d)
        PROVE  /\ pc[d] = "notify"
               /\ m = [kind |-> Outcome(d), workflow |-> WorkflowOf(d), by |-> d]
    BY <1>2 DEF DecisionStep, ReceiveDecision, LoadApproval, ExpireFlush, RaiseExpired, Decide,
                CheckKey, InsertKey, InsertCredit, Grant, CommitApproved, Reject,
                CommitRejected, Notify
  <1>3. ASSUME NEW h \in Handlers, Abort(h) PROVE FALSE
    BY <1>3 DEF Abort
  <1>4. ~ UNCHANGED vars
    BY DEF vars
  <1> QED
    BY <1>1, <1>2, <1>3, <1>4 DEF Next, Quiescent

LEMMA MailStaysTrue ==
    ASSUME TypeOK, Consistent, Told, [Next]_vars
    PROVE  MailIsTrue'
  <1> SUFFICES ASSUME NEW m \in mail'
               PROVE  Committed(m.kind, m.workflow, m.by)'
    BY DEF MailIsTrue
  <1>1. CASE m \in mail \/ m.kind = "credited"
    BY <1>1, CommitmentsStay DEF Told, MailIsTrue, Committed
  <1>2. ASSUME NEW d \in Decisions, pc[d] = "notify",
               m = [kind |-> Outcome(d), workflow |-> WorkflowOf(d), by |-> d]
        PROVE  Committed(m.kind, m.workflow, m.by)'
    <2>1. Committed(m.kind, m.workflow, m.by)
      BY <1>2 DEF Told, DecisionsCommitFirst
    <2> QED
      BY <2>1, CommitmentsStay
  <1> QED
    BY <1>1, <1>2, NewMails

LEMMA DecisionsStillCommitFirst ==
    ASSUME TypeOK, Consistent, Explained, Told, [Next]_vars
    PROVE  DecisionsCommitFirst'
  <1> SUFFICES ASSUME NEW d \in Decisions
               PROVE  /\ pc'[d] \in {"reject", "commit_rejected"}
                           => decisionCall'[d].verdict # "approve"
                      /\ pc'[d] = "notify" => Committed(Outcome(d), WorkflowOf(d), d)'
    BY DEF DecisionsCommitFirst
  <1>0. d \in Handlers /\ pc \in [Handlers -> ChatPlaces \cup DecisionPlaces]
    BY DEF Handlers, TypeOK, HandlersTyped
  <1>1. ASSUME pc[d] # "idle"
        PROVE  /\ decisionCall'[d] = decisionCall[d]
               /\ WorkflowOf(d)' = WorkflowOf(d) /\ Outcome(d)' = Outcome(d)
    BY <1>0, <1>1, WorkStays DEF Outcome
  <1>2. CASE pc'[d] = pc[d]
    <2>1. ASSUME pc[d] = "notify"
          PROVE  Committed(Outcome(d), WorkflowOf(d), d)'
      <3>1. PICK o, w : o = Outcome(d) /\ w = WorkflowOf(d)
        OBVIOUS
      <3>2. Committed(o, w, d)'
        BY <2>1, <3>1, CommitmentsStay DEF Told, DecisionsCommitFirst
      <3>3. o = Outcome(d)' /\ w = WorkflowOf(d)'
        BY <1>1, <2>1, <3>1
      <3> QED
        BY <3>2, <3>3 DEF Committed
    <2> QED
      BY <1>1, <1>2, <2>1 DEF Told, DecisionsCommitFirst
  <1>3. ASSUME pc'[d] # pc[d], pc'[d] \in {"reject", "commit_rejected"}
        PROVE  decisionCall'[d].verdict # "approve"
    <2>1. (pc[d] = "decide" /\ decisionCall[d].verdict # "approve") \/ pc[d] = "reject"
      BY <1>0, <1>3, DecisionsMoveThemselves
         DEF DecisionStep, ReceiveDecision, Abort, Answer, Goto, LoadApproval, ExpireFlush,
             RaiseExpired, Decide, CheckKey, InsertKey, InsertCredit, Grant, CommitApproved, Reject,
             CommitRejected, Notify
    <2> QED
      BY <1>1, <2>1 DEF Told, DecisionsCommitFirst
  <1>4. ASSUME pc'[d] # pc[d], pc'[d] = "notify"
        PROVE  Committed(Outcome(d), WorkflowOf(d), d)'
    <2>1. CommitApproved(d) \/ CommitRejected(d)
      BY <1>0, <1>4, DecisionsMoveThemselves
         DEF DecisionStep, ReceiveDecision, Abort, Answer, Goto, LoadApproval, ExpireFlush,
             RaiseExpired, Decide, CheckKey, InsertKey, InsertCredit, Grant, Reject, Notify
    <2>2. CASE CommitApproved(d)
      <3>1. Outcome(d)' = "approved"
        BY <1>1, <2>2
           DEF CommitApproved, Explained, OnlyApprovalsPay, Crediting, Outcome
      <3>2. CreditOf(d) \in credits' /\ CreditOf(d).by = d
        BY <2>2 DEF CommitApproved, CreditOf
      <3> QED
        BY <3>1, <3>2 DEF Committed
    <2>3. CASE CommitRejected(d)
      <3>1. Outcome(d)' = "rejected"
        BY <1>1, <2>3 DEF CommitRejected, Told, DecisionsCommitFirst, Outcome
      <3>2. Audit("APPROVAL_REJECTED", WorkflowOf(d), d) \in audits' /\ pc[d] # "idle"
        BY <2>3 DEF CommitRejected
      <3> QED
        BY <1>1, <3>1, <3>2 DEF Committed, Audit
    <2> QED
      BY <2>1, <2>2, <2>3
  <1> QED
    BY <1>2, <1>3, <1>4

LEMMA KeysStillHaveRuns ==
    ASSUME TypeOK, Consistent, KeysHaveRuns, [Next]_vars
    PROVE  KeysHaveRuns'
  <1> SUFFICES ASSUME NEW key \in keys'
               PROVE  \E w \in Chats : workflows'[w].status = "COMPLETED" /\ KeyOf(w)' = key
    BY DEF KeysHaveRuns
  <1>1. CASE key \in keys
    <2>1. PICK w \in Chats : workflows[w].status = "COMPLETED" /\ KeyOf(w) = key
      BY <1>1 DEF KeysHaveRuns
    <2> QED
      BY <2>1, RecordedRunsStay DEF Consistent
  <1>2. ASSUME NEW h \in Handlers, pc[h] \in Crediting, UNCHANGED <<inputs, bill>>, key = KeyOf(h),
               workflows'[WorkflowOf(h)].status = "COMPLETED"
        PROVE  \E w \in Chats : workflows'[w].status = "COMPLETED" /\ KeyOf(w)' = key
    <2>1. WorkflowOf(h) \in Chats
      BY <1>2, HandlerIsTyped DEF Crediting
    <2>2. KeyOf(WorkflowOf(h))' = KeyOf(h)
      BY <1>2, <2>1 DEF KeyOf, RidOf, BillOfHandler, WorkflowOf, inputs
    <2>3. PICK w \in Chats : w = WorkflowOf(h)
      BY <2>1
    <2>4. KeyOf(w)' = KeyOf(h)
      BY <1>2, <2>3 DEF KeyOf, RidOf, BillOfHandler, WorkflowOf, inputs
    <2> QED
      BY <1>2, <2>3, <2>4
  <1> QED
    BY <1>1, <1>2, PaymentSteps

-----------------------------------------------------------------------------
(***************************************************************************)
(* What follows.                                                           *)
(***************************************************************************)
LEMMA ToldAlways == Spec => []Told
  <1>1. Init => Told
    BY DEF Init, Told, AnswersAreTrue, MailIsTrue, DecisionsCommitFirst, KeysHaveRuns, Handlers
  <1>2. TypeOK /\ Consistent /\ Explained /\ Told /\ [Next]_vars => Told'
    BY AnswersStayTrue, MailStaysTrue, DecisionsStillCommitFirst, KeysStillHaveRuns DEF Told
  <1> QED
    BY <1>1, <1>2, Typing, Consistency, ExplainedAlways, PTL DEF Spec

\* What a handler has answered is in the tables, and stays there.
THEOREM AnswersStand == Spec => []AnswersMatchTheDatabase
  <1>1. Told => AnswersMatchTheDatabase
    BY DEF Told, AnswersAreTrue, Promise, AnswersMatchTheDatabase
  <1> QED
    BY <1>1, ToldAlways, PTL

\* The customer is told of a decision that is committed, and of no other.
THEOREM MailFollowsCommits == Spec => []DecisionMailAfterCommit
  <1>1. Told => DecisionMailAfterCommit
    BY DEF Told, MailIsTrue, Committed, DecisionMailAfterCommit
  <1> QED
    BY <1>1, ToldAlways, PTL

\* On SQLite no unique column surfaces as an error: a repeated request id is
\* recognised, and behind the look at the key there is nothing to meet.
LEMMA NoErrorIsAnswered ==
    ASSUME Dialect = "sqlite", TypeOK, Consistent, [Next]_vars, DuplicatesAnswered409
    PROVE  DuplicatesAnswered409'
  <1> SUFFICES ASSUME NEW h \in Handlers, reply'[h] # reply[h]
               PROVE  reply'[h] # "integrity_error"
    BY DEF DuplicatesAnswered409
  <1>1. ASSUME NEW g \in Handlers, NEW r, Answer(g, r), r # "integrity_error"
        PROVE  reply'[h] # "integrity_error"
    BY <1>1, AnsweredOnce
  <1>2. ASSUME NEW g \in Handlers, InsertKey(g) \/ InsertCredit(g)
        PROVE  UNCHANGED reply
    <2>1. pc[g] \in Crediting /\ KeyOf(g) \notin keys
      BY <1>2 DEF InsertKey, InsertCredit, Crediting, Consistent, KeysAreFresh
    <2>2. \A k \in credits : k.rid # RidOf(g)
      BY <2>1, NoCreditYet
    <2> QED
      BY <1>2, <2>1, <2>2 DEF InsertKey, InsertCredit
  <1>3. ASSUME NEW c \in Chats, ReceiveChat(c) \/ ChatStep(c) \/ Lapse(c)
        PROVE  UNCHANGED reply \/ \E r : Answer(c, r) /\ r # "integrity_error"
    <2>1. c \in Handlers /\ DuplicateReply = "conflict"
      BY DEF Handlers, DuplicateReply
    <2>2. CASE InsertKey(c) \/ InsertCredit(c)
      BY <1>2, <2>1, <2>2
    <2>3. CASE RefuseAnalysis(c) \/ RefuseDuplicate(c) \/ CheckKey(c) \/ CommitCredit(c)
                 \/ CommitWaiting(c) \/ CommitReview(c)
      <3>1. \/ UNCHANGED reply
            \/ \E r \in {"unavailable", "invalid", "conflict", "credited", "waiting",
                        "reviewed"} : Answer(c, r)
        BY <2>1, <2>3
           DEF RefuseAnalysis, RefuseDuplicate, CheckKey, CommitCredit, CommitWaiting, CommitReview
      <3> QED
        BY <3>1
    <2>4. CASE ReceiveChat(c) \/ Lapse(c) \/ Evaluate(c) \/ CommitEvaluated(c)
                 \/ CompleteCredit(c) \/ RequestApproval(c) \/ Review(c)
      BY <2>4 DEF ReceiveChat, Lapse, Evaluate, CommitEvaluated, CompleteCredit, RequestApproval,
                  Review
    <2> QED
      BY <1>3, <2>2, <2>3, <2>4 DEF ChatStep
  <1>4. ASSUME NEW d \in Decisions, ReceiveDecision(d) \/ DecisionStep(d)
        PROVE  UNCHANGED reply \/ \E r : Answer(d, r) /\ r # "integrity_error"
    <2>1. d \in Handlers
      BY DEF Handlers
    <2>2. CASE InsertKey(d) \/ InsertCredit(d)
      BY <1>2, <2>1, <2>2
    <2>3. CASE LoadApproval(d) \/ RaiseExpired(d) \/ CheckKey(d) \/ Notify(d)
      <3>1. \/ UNCHANGED reply
            \/ \E r \in {"not_found", "conflict", "invalid", "approved", "rejected"} :
                 Answer(d, r)
        BY <2>3 DEF LoadApproval, RaiseExpired, CheckKey, Notify, Outcome
      <3> QED
        BY <3>1
    <2>4. CASE ReceiveDecision(d) \/ ExpireFlush(d) \/ Decide(d) \/ Grant(d)
                 \/ CommitApproved(d) \/ Reject(d) \/ CommitRejected(d)
      BY <2>4 DEF ReceiveDecision, ExpireFlush, Decide, Grant, CommitApproved, Reject,
                  CommitRejected
    <2> QED
      BY <1>4, <2>2, <2>3, <2>4 DEF DecisionStep
  <1>5. ASSUME NEW g \in Handlers, Abort(g)
        PROVE  Answer(g, "failure")
    BY <1>5 DEF Abort
  <1>6. ~ UNCHANGED vars
    BY DEF vars
  <1> QED
    BY <1>1, <1>3, <1>4, <1>5, <1>6 DEF Next, Quiescent, Handlers

\* On SQLite no call is ever answered with an error of the database that nobody
\* expected, however often request ids and decisions are repeated.
THEOREM DuplicatesAreConflicts ==
    ASSUME Dialect = "sqlite"
    PROVE  Spec => []DuplicatesAnswered409
  <1>1. Init => DuplicatesAnswered409
    BY DEF Init, DuplicatesAnswered409
  <1>2. TypeOK /\ Consistent /\ DuplicatesAnswered409 /\ [Next]_vars => DuplicatesAnswered409'
    BY NoErrorIsAnswered
  <1> QED
    BY <1>1, <1>2, Typing, Consistency, PTL DEF Spec

=============================================================================
